------------------------------ MODULE PanelData ------------------------------
(***************************************************************************)
(* The hooks that show what the backend says of the subject at hand: a     *)
(* workspace, a commit of it, a pull request, a thread.  Each asks when    *)
(* its subject changes, some again on a timer or an event, and an answer   *)
(* may come after the user has moved on.  They differ in which answers     *)
(* they drop, which requests they hold back, and what a change of subject  *)
(* does to what is shown; a hook is the record of these choices.           *)
(*                                                                         *)
(* A request number is kept as whether it is still the latest one.         *)
(***************************************************************************)
EXTENDS Naturals, FiniteSets

CONSTANTS
  Subject,    \* what can be asked about
  Size,       \* how many entries the answer about a subject has
  Hooks,      \* the hooks of this instance
  None,
  MaxFlight,  \* bound: requests under way at once
  MaxVersion, \* bound: changes of what the backend would say
  MaxMoves,   \* bound: changes of subject, connection or panel
  MaxFaults   \* bound: failed requests

VARIABLES
  hook,       \* the hook at work
  want,       \* its props as last rendered: subject, connected, enabled
  ran,        \* the props its effects last ran for
  shown,      \* what it shows: whose, how recent, and whether a load is shown
  flight,     \* requests under way
  busy,       \* inFlight: the subject of the request that holds others back
  fetched,    \* lastFetchedWorkspaceId
  kept,       \* the answers a hook keeps by subject
  apps,       \* useApps: visibleKey, pendingTarget, retryTimer
  world,      \* the version of what the backend would say
  left,       \* what may still happen
  best        \* history: the latest version shown of each subject

vars == <<hook, want, ran, shown, flight, busy, fetched, kept, apps, world, left, best>>

Nothing == [of |-> None, at |-> 0]
Empty == [data |-> Nothing, loading |-> FALSE]
SizeOf(data) == IF data.of = None THEN 0 ELSE Size[data.of]

(***************************************************************************)
(* The hooks.                                                              *)
(*   numbered   only the answer to the latest request counts               *)
(*   pinned     only an answer about the current subject counts            *)
(*   single     a request under way holds back: none, any other, or        *)
(*              another about the same subject                             *)
(*   resets     a change of subject (or connection) empties what is shown  *)
(*   keeps      answers are kept, and shown when their subject comes back  *)
(*   asks       an effect asks for every subject, for one not fetched,     *)
(*              or only the user does                                      *)
(*   watches    the effect runs again when the number of entries changes   *)
(*   connects, gated  it needs a connection, it can be switched off        *)
(*   fails      a failure empties, leaves or counts as an empty answer     *)
(***************************************************************************)
Guarded ==
  [numbered |-> TRUE, pinned |-> TRUE, single |-> "none", resets |-> TRUE, keeps |-> FALSE,
   asks |-> "every", watches |-> FALSE, connects |-> FALSE, gated |-> TRUE, polls |-> FALSE,
   fails |-> "empties"]
GitLog == [Guarded EXCEPT !.polls = TRUE]
GitCommitDiffs == Guarded
GitHubIssues == Guarded
GitHubPullRequests == Guarded
GitHubPullRequestDiffs == Guarded
GitHubPullRequestComments == Guarded
GitRemote == [Guarded EXCEPT !.gated = FALSE]
GitRepoScan == [Guarded EXCEPT !.gated = FALSE, !.asks = "never"]
GitDiffs == [Guarded EXCEPT !.keeps = TRUE]
GitStatus == [Guarded EXCEPT !.keeps = TRUE, !.gated = FALSE, !.polls = TRUE, !.fails = "keeps"]
LocalUsage == [Guarded EXCEPT !.pinned = FALSE, !.resets = FALSE, !.polls = TRUE, !.fails = "keeps"]
SettingsDefaultModels == [Guarded EXCEPT !.pinned = FALSE, !.resets = FALSE, !.gated = FALSE]

Listing ==
  [numbered |-> FALSE, pinned |-> FALSE, single |-> "any", resets |-> FALSE, keeps |-> FALSE,
   asks |-> "unfetched", watches |-> TRUE, connects |-> TRUE, gated |-> FALSE, polls |-> FALSE,
   fails |-> "keeps"]
GitBranches == Listing
Skills == Listing
Models == [Listing EXCEPT !.fails = "answers"]
CustomPrompts == [Listing EXCEPT !.watches = FALSE]
CollaborationModes == [Listing EXCEPT !.resets = TRUE, !.gated = TRUE]
WorkspaceFiles ==
  [Listing EXCEPT !.single = "own", !.resets = TRUE, !.gated = TRUE, !.polls = TRUE]

Apps == "apps"   \* useApps is written out below

H == CASE hook = "log" -> GitLog [] hook = "commit" -> GitCommitDiffs
       [] hook = "issues" -> GitHubIssues [] hook = "pulls" -> GitHubPullRequests
       [] hook = "pullDiffs" -> GitHubPullRequestDiffs
       [] hook = "pullComments" -> GitHubPullRequestComments
       [] hook = "remote" -> GitRemote [] hook = "scan" -> GitRepoScan
       [] hook = "diffs" -> GitDiffs [] hook = "status" -> GitStatus
       [] hook = "usage" -> LocalUsage [] hook = "defaults" -> SettingsDefaultModels
       [] hook = "branches" -> GitBranches [] hook = "skills" -> Skills
       [] hook = "models" -> Models [] hook = "prompts" -> CustomPrompts
       [] hook = "modes" -> CollaborationModes [] hook = "files" -> WorkspaceFiles

May(props) ==
  IF hook = Apps THEN props.of # None /\ props.up /\ props.on
  ELSE props.of # None /\ (H.connects => props.up) /\ (H.gated => props.on)

(***************************************************************************)
(* Asking.  A request is answered with what the backend knew when it was   *)
(* sent; one that is held back is forgotten.                               *)
(***************************************************************************)
Request(s) == [of |-> s, at |-> world, latest |-> TRUE]
Older == {[r EXCEPT !.latest = FALSE] : r \in flight}
Held(s) == CASE H.single = "none" -> FALSE
             [] H.single = "any" -> busy # None
             [] H.single = "own" -> busy = s

\* refresh, with the number of the request and what is shown after other effects.
Ask(s, others, screen) ==
  /\ flight' = others \cup {Request(s)}
  /\ busy' = IF H.single = "none" THEN None ELSE s
  /\ shown' = [screen EXCEPT !.loading = H.single # "any"]

\* The user's refresh, an interval or an event of the app-server.
Refresh ==
  /\ hook # Apps /\ ran.props = want /\ May(want)
  /\ Cardinality(flight) < MaxFlight
  /\ H.polls \/ left.moves > 0
  /\ ~Held(want.of)
  /\ Ask(want.of, Older, shown)
  /\ left' = IF H.polls THEN left ELSE [left EXCEPT !.moves = @ - 1]
  /\ UNCHANGED <<hook, want, ran, fetched, kept, apps, world, best>>

(***************************************************************************)
(* A render that changes the props, and its effects, which React runs      *)
(* before the next render.  The refs that pin answers are set by them, so  *)
(* they are the props of ran.                                              *)
(***************************************************************************)
Move ==
  /\ left.moves > 0 /\ ran.props = want
  /\ want' \in [of : Subject \cup {None}, up : BOOLEAN, on : BOOLEAN]
  /\ want' # want
  /\ left' = [left EXCEPT !.moves = @ - 1]
  /\ UNCHANGED <<hook, ran, shown, flight, busy, fetched, kept, apps, world, best>>

Moved == want.of # ran.props.of \/ (H.connects /\ want.up # ran.props.up)
\* useCollaborationModes also empties its list while it may not ask.
Emptied == H.resets /\ (Moved \/ (H.asks = "unfetched" /\ H.single = "any" /\ ~May(want)))

\* Mutant: what is shown of the last subject stays.
ScreenAfterKeeps == shown
ScreenAfter ==
  IF Emptied
    THEN [data |-> IF H.keeps /\ want.of # None THEN kept[want.of] ELSE Nothing, loading |-> FALSE]
    ELSE shown

Effects ==
  LET moved == H.resets /\ Moved
      screen == ScreenAfter
      others == IF moved THEN Older ELSE flight
      got == IF Emptied THEN None ELSE fetched
      held == IF H.single = "own" /\ moved THEN None ELSE busy
      asks == /\ May(want)
              /\ \/ H.asks = "every"
                 \/ /\ H.asks = "unfetched"
                    /\ got # want.of \/ (H.watches /\ SizeOf(screen.data) = 0)
              /\ CASE H.single = "none" -> TRUE
                   [] H.single = "any" -> held = None
                   [] H.single = "own" -> held # want.of
  IN /\ hook # Apps
     /\ ran.props # want \/ (H.watches /\ SizeOf(shown.data) # ran.size)
     /\ Cardinality(flight) < MaxFlight
     /\ ran' = [props |-> want, size |-> SizeOf(screen.data)]
     /\ fetched' = got
     /\ IF asks THEN Ask(want.of, IF H.numbered THEN Older ELSE others, screen)
        ELSE /\ flight' = others
             /\ busy' = held
             /\ shown' = screen
     /\ UNCHANGED <<hook, want, kept, apps, world, left, best>>

(***************************************************************************)
(* Answers.                                                                *)
(***************************************************************************)
\* Mutant: an answer to a request that was superseded counts.
AcceptedAny(r) == H.pinned => r.of = ran.props.of
Accepted(r) ==
  /\ H.numbered => r.latest
  /\ H.pinned => r.of = ran.props.of
  /\ hook = "usage" => ran.props.on

Release(r) == IF H.single = "own" /\ busy # r.of THEN busy ELSE None
Record(data) == best' = IF data.of = None THEN best ELSE [best EXCEPT ![data.of] = data.at]
Data(r) == [of |-> r.of, at |-> r.at]

Answer(r) ==
  /\ hook # Apps /\ r \in flight
  /\ flight' = flight \ {r}
  /\ busy' = Release(r)
  /\ IF Accepted(r)
       THEN /\ shown' = [data |-> Data(r), loading |-> FALSE]
            /\ kept' = IF H.keeps THEN [kept EXCEPT ![r.of] = Data(r)] ELSE kept
            /\ fetched' = r.of
            /\ Record(Data(r))
       ELSE UNCHANGED <<shown, kept, fetched, best>>
  /\ UNCHANGED <<hook, want, ran, apps, world, left>>

Fails(r) ==
  /\ hook # Apps /\ r \in flight
  /\ left.faults > 0
  /\ left' = [left EXCEPT !.faults = @ - 1]
  /\ flight' = flight \ {r}
  /\ busy' = Release(r)
  /\ IF Accepted(r)
       THEN /\ shown' = [data |-> IF H.fails = "keeps" THEN shown.data ELSE Nothing,
                         loading |-> FALSE]
            /\ fetched' = IF H.fails = "answers" THEN r.of ELSE fetched
       ELSE UNCHANGED <<shown, fetched>>
  /\ UNCHANGED <<hook, want, ran, kept, apps, world, best>>

(***************************************************************************)
(* useApps: one request at a time; the last target that had to wait is     *)
(* asked for next, if it is still the one shown; a failure is retried.     *)
(***************************************************************************)
NoApps == [visible |-> None, pending |-> None, retry |-> FALSE]

\* executeFetch, with `waiting` the target to keep for later.
Fetch(s, free, others, next) ==
  IF free THEN /\ flight' = others \cup {Request(s)} /\ busy' = s /\ apps' = next
  ELSE /\ flight' = others /\ busy' = busy /\ apps' = [next EXCEPT !.pending = s]

AppsEffects ==
  /\ hook = Apps /\ ran.props # want
  /\ ran' = [props |-> want, size |-> 0]
  /\ IF May(want)
       THEN LET key == want.of
                shows == apps.visible # key
            IN /\ shown' = IF shows THEN [data |-> kept[key], loading |-> FALSE] ELSE shown
               /\ IF fetched = key
                    THEN apps' = [apps EXCEPT !.visible = key] /\ UNCHANGED <<flight, busy>>
                    ELSE Fetch(key, busy = None, flight, [apps EXCEPT !.visible = key])
               /\ UNCHANGED fetched
       ELSE /\ shown' = Empty /\ fetched' = None /\ apps' = NoApps
            /\ UNCHANGED <<flight, busy>>
  /\ UNCHANGED <<hook, want, kept, world, left, best>>

\* What is left of executeFetch after the answer: mutant and code.
AndDropsPending(r, next) == flight' = flight \ {r} /\ busy' = None /\ apps' = next
AndThen(r, next) ==
  IF next.pending \in {None, r.of}
    THEN flight' = flight \ {r} /\ busy' = None /\ apps' = next
    ELSE LET free == [next EXCEPT !.pending = None]
         IN IF next.pending = want.of
              THEN Fetch(next.pending, TRUE, flight \ {r}, free)
              ELSE flight' = flight \ {r} /\ busy' = None /\ apps' = free

AppsAnswer(r) ==
  /\ hook = Apps /\ r \in flight
  /\ kept' = [kept EXCEPT ![r.of] = Data(r)]
  /\ fetched' = r.of
  /\ LET here == want.of = r.of /\ May(want)
     IN /\ shown' = IF here THEN [data |-> Data(r), loading |-> FALSE] ELSE shown
        /\ AndThen(r, [apps EXCEPT !.visible = IF here THEN r.of ELSE @, !.retry = FALSE])
  /\ UNCHANGED <<hook, want, ran, world, left, best>>

AppsFails(r) ==
  /\ hook = Apps /\ r \in flight
  /\ left.faults > 0
  /\ left' = [left EXCEPT !.faults = @ - 1]
  /\ AndThen(r, [apps EXCEPT !.retry = @ \/ (want.of = r.of /\ May(want))])
  /\ UNCHANGED <<hook, want, ran, shown, fetched, kept, world, best>>

\* The retry timer runs the effect again.
AppsRetry ==
  /\ hook = Apps /\ apps.retry /\ ran.props = want
  /\ IF May(want) /\ fetched # want.of
       THEN Fetch(want.of, busy = None, flight, [apps EXCEPT !.retry = FALSE])
       ELSE apps' = [apps EXCEPT !.retry = FALSE] /\ UNCHANGED <<flight, busy>>
  /\ UNCHANGED <<hook, want, ran, shown, fetched, kept, world, left, best>>

\* app/list/updated carries the list itself.
AppsUpdated ==
  /\ hook = Apps /\ ran.props = want /\ May(want) /\ left.moves > 0
  /\ LET data == [of |-> want.of, at |-> world]
     IN shown' = [data |-> data, loading |-> FALSE] /\ kept' = [kept EXCEPT ![want.of] = data]
  /\ fetched' = want.of
  /\ apps' = [apps EXCEPT !.visible = want.of]
  /\ left' = [left EXCEPT !.moves = @ - 1]
  /\ UNCHANGED <<hook, want, ran, flight, busy, world, best>>

(***************************************************************************)
(* The specification.                                                      *)
(***************************************************************************)
\* The backend (external): what it would answer changes.
WorldChanges ==
  /\ world < MaxVersion
  /\ world' = world + 1
  /\ UNCHANGED <<hook, want, ran, shown, flight, busy, fetched, kept, apps, left, best>>

Nowhere == [of |-> None, up |-> FALSE, on |-> FALSE]

Init ==
  /\ hook \in Hooks
  /\ want = Nowhere
  /\ ran = [props |-> Nowhere, size |-> 0]
  /\ shown = Empty
  /\ flight = {} /\ busy = None /\ fetched = None
  /\ kept = [s \in Subject |-> Nothing]
  /\ apps = NoApps
  /\ world = 1
  /\ left = [moves |-> MaxMoves, faults |-> MaxFaults]
  /\ best = [s \in Subject |-> 0]

Next ==
  \/ Move \/ Effects \/ Refresh \/ WorldChanges
  \/ AppsEffects \/ AppsRetry \/ AppsUpdated
  \/ \E r \in flight : Answer(r) \/ Fails(r) \/ AppsAnswer(r) \/ AppsFails(r)

\* Effects follow their render, timers fire, and a request is answered.
Polls == hook # Apps /\ H.polls /\ Refresh
Answered(r) == Answer(r) \/ AppsAnswer(r)
Fairness ==
  /\ WF_vars(Effects) /\ WF_vars(AppsEffects) /\ WF_vars(AppsRetry)
  /\ WF_vars(Polls)
  /\ \A s \in Subject, v \in 1 .. MaxVersion, l \in BOOLEAN :
       WF_vars(Answered([of |-> s, at |-> v, latest |-> l]))

Spec == Init /\ [][Next]_vars /\ Fairness

(***************************************************************************)
(* Properties.                                                             *)
(***************************************************************************)
Settled == want = ran.props
Exact == hook \notin {"branches", "skills", "models", "prompts", "files", "usage", "defaults"}

\* An answer that comes late, after another request, another subject or another
\* visit of the same one, never replaces newer news of that subject.  (The files
\* of a workspace left and entered again may, until the next poll, and the apps
\* that an event brought, by the answer to an older request.)
NewsStep == \A s \in Subject : hook \notin {"files", Apps} => best'[s] >= best[s]

\* Once the effects of a render ran, a hook that pins its answers shows nothing of
\* a subject that was left, whatever is still under way.
ShownIsOfTheSubject ==
  Exact /\ Settled /\ hook # "modes" => shown.data.of \in {None, want.of}

\* However the user moved meanwhile, what is wanted is shown in the end: no
\* request for it is held back for good by one for what was left.  (Not so for
\* the lists that hold back every other request and may not ask again; those that
\* ask again by themselves get over a failure.)
Wanted ==
  hook \notin {"branches", "skills", "models", "prompts", "scan"} /\ May(want)
  /\ (left.faults = MaxFaults \/ hook \in {Apps, "log", "status", "usage", "files"})
  => shown.data.of = want.of
===============================================================================
