------------------------------- MODULE DiffPanel -------------------------------
(***************************************************************************)
(* The git panel and the diffs beside it: which mode the panel is in,      *)
(* whether the centre shows the chat or diffs, and then of what (the       *)
(* working tree, a commit, a pull request, the agent's edits), which file  *)
(* is selected and when the viewer scrolls to it, which files are marked,  *)
(* the error on show, and what is started from here: a discard, a review   *)
(* of a pull request.                                                      *)
(*                                                                         *)
(* A dozen handlers of several components set these states one by one, and *)
(* effects that run after each render correct them.                        *)
(***************************************************************************)
EXTENDS Naturals, Sequences, FiniteSets, SequencesExt

CONSTANTS
  Workspaces, First, \* the workspaces, in the order of the sidebar; the one selected at the start
  Files,             \* the files of a repository, in order: changed at the start
  None,
  Budgets            \* bound: what may happen in a behaviour, a set of records

VARIABLES
  ui,      \* see Ui0
  repo,    \* the state of each file in each workspace
  failing, \* the operations whose last error the hooks keep
  jobs,    \* the async functions under way
  log,     \* history, for the properties
  left

Workspace == ToSet(Workspaces)
vars == <<ui, repo, failing, jobs, log, left>>

Clean == [f \in ToSet(Files) |-> "clean"]
Listed(seen) ==
  SelectSeq(Files, LAMBDA f : seen[f] = "staged") \o SelectSeq(Files, LAMBDA f : seen[f] = "unstaged")

Ui0 == [ws |-> First, thread |-> None,
        center |-> "chat", path |-> None, mode |-> "diff", panel |-> "git",
        source |-> "local", pr |-> None, commit |-> None,
        seen |-> Clean,                                      \* useGitStatus
        diffs |-> [s \in {"commit", "pr", "perFile"} |-> <<>>], \* the other lists
        pending |-> FALSE, asked |-> 0, scrolled |-> 0,      \* scroll: wanted, asked for, done
        files |-> {}, last |-> None,                         \* useDiffFileSelection
        folded |-> FALSE,                                    \* collapsedPaths
        away |-> {},                                         \* dismissedErrorSignatures
        lines |-> None,                                      \* lineSelection
        launching |-> FALSE,                                 \* launchInFlightRef
        timer |-> None]                                      \* gitStatusRefreshTimeoutRef

Active(u) == IF u.source = "local" THEN Listed(u.seen) ELSE u.diffs[u.source]
Spend(what) == left[what] > 0 /\ left' = [left EXCEPT ![what] = @ - 1]
Chosen == log' = [log EXCEPT !.choices = @ + 1]

\* The errors the mode lists, the first to be shown first.
Candidates(u) ==
  CASE u.mode \in {"diff", "perFile"} -> SelectSeq(<<"push", "git">>, LAMBDA k : k \in failing)
    [] u.mode = "log" -> SelectSeq(<<"log">>, LAMBDA k : k \in failing)
    [] OTHER -> SelectSeq(<<"pulls">>, LAMBDA k : k \in failing)
Signature(u, k) == <<u.ws, u.mode, k>>
ErrorShown(u) == SelectSeq(Candidates(u), LAMBDA k : Signature(u, k) \notin u.away)

(***************************************************************************)
(* The effects that follow a render: o is the render before, n this one.   *)
(***************************************************************************)
\* A list of what is no longer selected is dropped.
Fresh(o, n) ==
  [n EXCEPT !.diffs = [s \in DOMAIN @ |->
     IF \/ n.ws # o.ws
        \/ s = "commit" /\ n.commit # o.commit
        \/ s = "pr" /\ n.pr # o.pr
        \/ s = "perFile" /\ n.thread # o.thread THEN <<>> ELSE @[s]]]
Synced(u) ==
  IF u.source # "local" /\ u.center = "diff" /\ Active(u) # <<>> /\ u.path \notin ToSet(Active(u))
    THEN Head(Active(u)) ELSE u.path
Exits(u) == u.center = "diff" /\ u.source = "local" /\ Active(u) = <<>> /\ u.thread # None
Scrolls(o, n) ==
  LET pending == n.pending /\ ~(n.path = None /\ o.path # None) IN
  IF pending /\ n.path # None /\ n.center = "diff" /\ n.path \in ToSet(Active(n))
       /\ <<o.path, o.center, Active(o)>> # <<n.path, n.center, Active(n)>>
    THEN [n EXCEPT !.pending = FALSE, !.asked = @ + 1]
    ELSE [n EXCEPT !.pending = pending]
\* The viewer, which is there when the centre shows diffs.
Views(u, n) ==
  [u EXCEPT !.scrolled =
     CASE n.center # "diff" -> 0
       [] n.path # None /\ n.path \in ToSet(Active(n)) -> n.asked
       [] OTHER -> @]
Lines(o, n) == IF n.source # "pr" \/ n.pr # o.pr THEN None ELSE n.lines
\* Marks do not outlive the list they were made in.
Marks(o, n) == IF Listed(n.seen) = Listed(o.seen) THEN n.files ELSE {}
Away(n) == n.away \cap {Signature(n, k) : k \in ToSet(Candidates(n))}
Effects(o, n) ==
  LET u == Views(Scrolls(o, n), n) IN
  [u EXCEPT !.center = IF Exits(n) THEN "chat" ELSE @,
            !.path = IF Exits(n) THEN None ELSE Synced(n),
            !.lines = Lines(o, n), !.files = Marks(o, n),
            !.folded = n.folded /\ n.diffs["perFile"] # <<>>,
            !.last = IF Listed(n.seen) = Listed(o.seen) THEN n.last ELSE None]
\* Each effect that sets a state brings another render.
Renders(o, n) ==
  LET n0 == Fresh(o, n)
      n1 == Effects(o, n0)
      n2 == Effects(n0, n1)
  IN Effects(n1, n2)
Becomes(u) == ui' = LET v == Renders(ui, u) IN [v EXCEPT !.away = Away(v)]

(***************************************************************************)
(* What is clicked.                                                        *)
(***************************************************************************)
\* The rows the panel offers in each mode.
DiffRows == IF ui.mode = "diff" THEN Listed(ui.seen) ELSE <<>>
PerFileRows == IF ui.mode = "perFile" /\ ~ui.folded THEN ui.diffs["perFile"] ELSE <<>>
LogRows == IF ui.mode = "log" /\ ui.ws # None THEN <<ui.ws>> ELSE <<>>
PullRequestRows == IF ui.mode = "prs" /\ ui.ws # None THEN <<ui.ws>> ELSE <<>>

handleSelectDiff(f) ==
  /\ f \in ToSet(DiffRows) /\ Spend("clicks") /\ Chosen
  /\ Becomes([ui EXCEPT !.path = f, !.pending = TRUE, !.center = "diff", !.mode = "diff",
                        !.source = "local", !.commit = None, !.pr = None,
                        !.files = {f}, !.last = f])
  /\ UNCHANGED <<repo, failing, jobs>>
handleSelectPerFileDiff(f) ==
  /\ f \in ToSet(PerFileRows) /\ Spend("clicks") /\ Chosen
  /\ Becomes([ui EXCEPT !.path = f, !.pending = TRUE, !.center = "diff", !.mode = "perFile",
                        !.source = "perFile", !.commit = None, !.pr = None])
  /\ UNCHANGED <<repo, failing, jobs>>
handleSelectCommit ==
  /\ LogRows # <<>> /\ Spend("clicks") /\ Chosen
  /\ Becomes([ui EXCEPT !.commit = Head(LogRows), !.path = None, !.pending = TRUE,
                        !.center = "diff", !.mode = "log", !.source = "commit", !.pr = None])
  /\ UNCHANGED <<repo, failing, jobs>>
\* onSelectPullRequest forgets the commit, handleSelectPullRequest does the rest.
handleSelectPullRequest ==
  /\ PullRequestRows # <<>> /\ Spend("clicks") /\ Chosen
  /\ Becomes([ui EXCEPT !.commit = None, !.pr = Head(PullRequestRows), !.source = "pr",
                        !.path = None, !.center = "diff", !.mode = "prs"])
  /\ UNCHANGED <<repo, failing, jobs>>

WithMode(u, mode) ==
  IF mode = "perFile"
    THEN [u EXCEPT !.mode = mode, !.path = IF u.source # "perFile" THEN None ELSE @,
                   !.source = "perFile", !.pr = None, !.commit = None]
    ELSE LET dropsList == mode # "prs" /\ u.source \in {"pr", "perFile"}
             dropsCommit == mode # "log" /\ u.source = "commit"
         IN [u EXCEPT !.mode = mode,
                      !.path = IF dropsList \/ dropsCommit THEN None ELSE @,
                      !.source = IF mode # "prs" \/ dropsCommit THEN "local" ELSE @,
                      !.pr = IF mode # "prs" THEN None ELSE @,
                      !.commit = IF mode # "log" THEN None ELSE @]
handleGitPanelModeChange(mode) ==
  /\ mode # ui.mode /\ Spend("clicks") /\ Becomes(WithMode(ui, mode))
  /\ UNCHANGED <<repo, failing, jobs, log>>
toggleGroup ==
  /\ ui.mode = "perFile" /\ ui.diffs["perFile"] # <<>> /\ Spend("clicks")
  /\ Becomes([ui EXCEPT !.folded = ~@])
  /\ UNCHANGED <<repo, failing, jobs, log>>
setFilePanelMode ==
  /\ Spend("clicks") /\ Becomes([ui EXCEPT !.panel = IF @ = "git" THEN "files" ELSE "git"])
  /\ UNCHANGED <<repo, failing, jobs, log>>

\* "Back to chat" drops the file, "back from the diff" keeps it.
onExitDiff(keeps) ==
  /\ ui.center = "diff" /\ Spend("clicks")
  /\ Becomes([ui EXCEPT !.center = "chat", !.path = IF keeps THEN @ ELSE None])
  /\ UNCHANGED <<repo, failing, jobs, log>>
onShowSelectedDiff ==
  /\ ui.center = "chat" /\ (ui.path # None \/ Active(ui) # <<>>) /\ Spend("clicks")
  /\ Becomes([ui EXCEPT !.path = IF @ = None THEN Head(Active(ui)) ELSE @, !.center = "diff"])
  /\ UNCHANGED <<repo, failing, jobs, log>>
\* The user scrolls the viewer to another file.
handleActiveDiffPath(f) ==
  /\ ui.center = "diff" /\ f \in ToSet(Active(ui)) /\ f # ui.path /\ Spend("clicks")
  /\ Becomes([ui EXCEPT !.path = f])
  /\ UNCHANGED <<repo, failing, jobs, log>>

\* A workspace, a thread or the home page is selected: exitDiffView,
\* resetPullRequestSelection, selectWorkspace, setActiveThreadId. Mutant: without the second.
LeftBehind(u, w, t) ==
  [u EXCEPT !.center = "chat", !.path = None, !.source = "local",
            !.ws = w, !.thread = t, !.seen = IF w = u.ws THEN @ ELSE Clean]
Left(u, w, t) ==
  [u EXCEPT !.center = "chat", !.path = None, !.source = "local", !.pr = None,
            !.ws = w, !.thread = t, !.seen = IF w = u.ws THEN @ ELSE Clean]
Goes(w, t) ==
  /\ <<w, t>> # <<ui.ws, ui.thread>> /\ Spend("moves") /\ Becomes(Left(ui, w, t))
  /\ UNCHANGED <<repo, failing, jobs, log>>
onSelectThread == \E w \in Workspace : \E t \in {None, "thread"} : Goes(w, t)
onSelectHome == Goes(None, None)
handleOpenThreadLink == ui.ws # None /\ Goes(ui.ws, "thread")
\* The next workspace of the sidebar, or the one before; from the home page the first, or the last.
handleCycleWorkspace(step) ==
  LET n == Len(Workspaces)
      at == CASE ui.ws # None -> CHOOSE i \in 1 .. n : Workspaces[i] = ui.ws
              [] step = 1 -> 0
              [] OTHER -> 1
      to == Workspaces[((at - 1 + step + n) % n) + 1]
  IN Goes(to, "thread")

\* Files are marked with the meta key, or from the last one clicked with shift.
handleFileClick(f, shift) ==
  /\ f \in ToSet(DiffRows) /\ Spend("clicks")
  /\ LET all == Listed(ui.seen)
         Index(g) == CHOOSE i \in DOMAIN all : all[i] = g
         a == IF Index(f) < Index(ui.last) THEN f ELSE ui.last
         b == IF a = f THEN ui.last ELSE f
     IN IF shift
          THEN /\ ui.last \in ToSet(all)
               /\ Becomes([ui EXCEPT !.files = @ \cup {all[i] : i \in Index(a) .. Index(b)}])
          ELSE Becomes([ui EXCEPT !.files = IF f \in @ THEN @ \ {f} ELSE @ \cup {f}, !.last = f])
  /\ UNCHANGED <<repo, failing, jobs, log>>

\* SidebarError's dismiss button.
onDismiss ==
  /\ ErrorShown(ui) # <<>> /\ Spend("clicks")
  /\ Becomes([ui EXCEPT !.away = @ \cup {Signature(ui, Head(ErrorShown(ui)))}])
  /\ log' = [log EXCEPT !.anew = @ \ {Head(ErrorShown(ui))}]
  /\ UNCHANGED <<repo, failing, jobs>>

(***************************************************************************)
(* What is started: each is an async function, with what it saw when it    *)
(* was started.                                                            *)
(***************************************************************************)
Start(j) == jobs' = jobs \cup {j}
\* The menu of a file is about all the marked files when it is one of several.
Targets(f) ==
  IF f \in ui.files /\ Cardinality(ui.files) > 1
    THEN SelectSeq(Listed(ui.seen), LAMBDA g : g \in ui.files) ELSE <<f>>
StartFiles(op, of) ==
  /\ of # <<>> /\ Spend("starts") /\ \A j \in jobs : j.op = "review"
  /\ Start([op |-> op, ws |-> ui.ws, of |-> of, sure |-> op # "discard"])
  /\ UNCHANGED <<repo, failing, log>>
In(section, of) == SelectSeq(of, LAMBDA f : ui.seen[f] = section)
showFileMenu(f, op) ==
  /\ f \in ToSet(DiffRows)
  /\ StartFiles(op, CASE op = "stage" -> In("unstaged", Targets(f))
                      [] op = "unstage" -> In("staged", Targets(f))
                      [] OTHER -> Targets(f))
  /\ Becomes(IF f \in ui.files THEN ui ELSE [ui EXCEPT !.files = {f}, !.last = f])
\* The buttons of a row, and those of a section for all its rows.
DiffFileRow(f, op) ==
  /\ f \in ToSet(DiffRows)
  /\ StartFiles(op, In(IF op = "unstage" THEN "staged" ELSE "unstaged", <<f>>))
  /\ UNCHANGED ui
DiffSection(op) ==
  /\ op # "stage" /\ StartFiles(op, In(IF op = "unstage" THEN "staged" ELSE "unstaged", DiffRows))
  /\ UNCHANGED ui
discardFiles(j, confirmed) ==
  /\ j.op = "discard" /\ ~j.sure
  /\ IF confirmed
       THEN /\ jobs' = (jobs \ {j}) \cup {[j EXCEPT !.sure = TRUE]}
            /\ log' = [log EXCEPT !.confirmed = @ \cup {<<j.ws, j.of[i]>> : i \in DOMAIN j.of}]
       ELSE jobs' = jobs \ {j} /\ UNCHANGED log
  /\ UNCHANGED <<ui, repo, failing, left>>
Concerned(j) == j.ws
\* One file after another; each answer brings a refresh of the status.
NextFile(j) ==
  /\ j.op # "review" /\ j.sure
  /\ LET w == Concerned(j) f == Head(j.of) IN
     /\ repo' = [repo EXCEPT ![w] = [@ EXCEPT ![f] =
                   CASE j.op = "stage" -> "staged"
                     [] j.op = "unstage" -> "unstaged"
                     [] OTHER -> "clean"]]
     /\ log' = IF j.op = "discard" THEN [log EXCEPT !.gone = @ \cup {<<w, f>>}] ELSE log
     /\ jobs' = (jobs \ {j}) \cup (IF Len(j.of) = 1 THEN {} ELSE {[j EXCEPT !.of = Tail(@)]})
     /\ Becomes(IF w = ui.ws THEN [ui EXCEPT !.seen = repo'[w]] ELSE ui)
  /\ UNCHANGED <<failing, left>>

\* Where a review can be asked for: the composer asks the pull request on
\* screen, its lines are marked in the viewer.
isPullRequestComposer == ui.pr # None /\ ui.panel = "git" /\ ui.mode = "prs" /\ ui.center = "diff"
SelectLines(f) ==
  /\ ui.source = "pr" /\ ui.center = "diff" /\ f \in ToSet(Active(ui)) /\ Spend("clicks")
  /\ Becomes([ui EXCEPT !.lines = f])
  /\ UNCHANGED <<repo, failing, jobs, log>>
MayLaunch == ~ui.launching
runPullRequestReview ==
  /\ ui.ws # None /\ ui.pr # None /\ MayLaunch /\ Spend("starts")
  /\ Start([op |-> "review", ws |-> ui.ws, of |-> ui.pr, step |-> "connect", id |-> left["starts"]])
  /\ log' = [log EXCEPT !.shown = ui.source]
  /\ Becomes([ui EXCEPT !.launching = TRUE])
  /\ UNCHANGED <<repo, failing>>
handleSendPullRequestQuestion == isPullRequestComposer /\ runPullRequestReview
handleRunSelectionReview == ui.lines # None /\ runPullRequestReview
\* Connect when the workspace is not, start a thread when none is reused, send.
ReviewGoes(j, step) ==
  /\ j.op = "review"
  /\ <<j.step, step>> \in {<<"connect", "start">>, <<"connect", "send">>, <<"start", "send">>}
  /\ jobs' = (jobs \ {j}) \cup {[j EXCEPT !.step = step]}
  /\ UNCHANGED <<ui, repo, failing, log, left>>
\* Sent, or one of the steps failed.
ReviewEnds(j) ==
  /\ j.op = "review" /\ jobs' = jobs \ {j} /\ Becomes([ui EXCEPT !.launching = FALSE])
  /\ UNCHANGED <<repo, failing, log, left>>

(***************************************************************************)
(* What comes from outside.                                                *)
(***************************************************************************)
\* Lists load only while something shows them.
DiffUiVisible == ui.center = "diff" \/ ui.mode = "diff"
LoadedList(s) ==
  /\ s \in {"commit", "pr"} /\ ui.diffs[s] = <<>> /\ ui[s] # None /\ ui.ws # None
  /\ DiffUiVisible
  /\ Becomes([ui EXCEPT !.diffs[s] = <<"k", "l">>])
  /\ UNCHANGED <<repo, failing, jobs, log, left>>
\* The agent edits a file of the thread: another entry, and a refresh in 500 ms.
Edited ==
  /\ ui.ws # None /\ ui.thread # None /\ ui.diffs["perFile"] = <<>> /\ Spend("edits")
  /\ Becomes([ui EXCEPT !.diffs["perFile"] = <<"e">>, !.timer = ui.ws])
  /\ UNCHANGED <<repo, failing, jobs, log>>
queueGitStatusRefresh ==
  /\ ui.timer # None
  /\ Becomes([ui EXCEPT !.timer = None, !.seen = IF ui.timer = ui.ws THEN repo[ui.ws] ELSE @])
  /\ UNCHANGED <<repo, failing, jobs, log, left>>
Polled ==
  /\ ui.ws # None /\ ui.seen # repo[ui.ws] /\ Becomes([ui EXCEPT !.seen = repo[ui.ws]])
  /\ UNCHANGED <<repo, failing, jobs, log, left>>
Changed(w, f, how) ==
  /\ repo[w][f] # how /\ Spend("edits") /\ repo' = [repo EXCEPT ![w] = [@ EXCEPT ![f] = how]]
  /\ UNCHANGED <<ui, failing, jobs, log>>
\* An operation fails, or works again and its error is taken away.
Failed(k) ==
  /\ Spend("fails") /\ failing' = IF k \in failing THEN failing \ {k} ELSE failing \cup {k}
  /\ log' = [log EXCEPT !.anew = IF k \in failing THEN @ \ {k} ELSE @ \cup {k}]
  /\ ui' = [ui EXCEPT !.away = {s \in @ : s[3] \in failing'}]
  /\ UNCHANGED <<repo, jobs>>

Init ==
  /\ repo = [w \in Workspace |-> [f \in ToSet(Files) |-> "unstaged"]]
  /\ ui = [Ui0 EXCEPT !.seen = repo[First]]
  /\ failing = {} /\ jobs = {}
  /\ log = [choices |-> 0, confirmed |-> {}, gone |-> {}, anew |-> {}, shown |-> "pr"]
  /\ left \in Budgets

Next ==
  \/ \E f \in ToSet(Files) : handleSelectDiff(f) \/ \E b \in BOOLEAN : handleFileClick(f, b)
  \/ \E f \in ToSet(Files), op \in {"stage", "unstage", "discard"} :
       showFileMenu(f, op) \/ DiffFileRow(f, op) \/ DiffSection(op)
  \/ \E f \in ToSet(Files) \cup {"k", "l", "e"} :
       handleSelectPerFileDiff(f) \/ handleActiveDiffPath(f) \/ SelectLines(f)
  \/ handleSelectCommit \/ handleSelectPullRequest \/ setFilePanelMode
  \/ \E m \in {"diff", "perFile", "log", "issues", "prs"} : handleGitPanelModeChange(m)
  \/ \E b \in BOOLEAN : onExitDiff(b)
  \/ onShowSelectedDiff \/ onDismiss \/ toggleGroup
  \/ handleSendPullRequestQuestion \/ handleRunSelectionReview
  \/ onSelectThread \/ onSelectHome \/ handleOpenThreadLink
  \/ \E step \in {-1, 1} : handleCycleWorkspace(step)
  \/ \E j \in jobs : NextFile(j) \/ ReviewEnds(j) \/ (\E b \in BOOLEAN : discardFiles(j, b))
                       \/ \E s \in {"start", "send"} : ReviewGoes(j, s)
  \/ LoadedList("commit") \/ LoadedList("pr") \/ Edited \/ queueGitStatusRefresh \/ Polled
  \/ \E w \in Workspace, f \in ToSet(Files), how \in {"clean", "staged", "unstaged"} :
       Changed(w, f, how)
  \/ \E k \in {"push", "git", "log", "pulls"} : Failed(k)

Spec == Init /\ [][Next]_vars

----------------------------------------------------------------------------
\* What the centre shows, what the panel has selected and what the composer
\* asks about are one thing.
OneSubject ==
  /\ ui.source = "pr" <=> ui.pr # None
  /\ ui.source = "commit" => ui.commit # None
  /\ isPullRequestComposer => ui.source = "pr"
  /\ ui.source # "local" /\ ui.center = "diff" /\ Active(ui) # <<>> => ui.path \in ToSet(Active(ui))
  /\ ui.lines # None => ui.source = "pr"
  /\ ui.files \subseteq ToSet(Listed(ui.seen))

\* The viewer jumps at most once for each choice of the user.
OneJumpPerChoice == ui.asked <= log.choices

\* Only what was confirmed is discarded, in the workspace it was confirmed in.
DiscardedAsConfirmed == log.gone \subseteq log.confirmed

\* Reviews are launched one at a time, from the pull request on screen.
OneReview ==
  /\ Cardinality({j \in jobs : j.op = "review"}) <= 1
  /\ ui.launching <=> \E j \in jobs : j.op = "review"
  /\ log.shown = "pr"

\* An error that came back is not hidden by its dismissal of before.
NewErrorsShow == \A s \in ui.away : s[3] \notin log.anew
=============================================================================
