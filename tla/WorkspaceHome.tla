----------------------------- MODULE WorkspaceHome -----------------------------
(***************************************************************************)
(* The home of a workspace: a prompt, images, and a choice between one     *)
(* agent in the workspace itself and several, each with its model, in      *)
(* worktrees made for them.  useWorkspaceHome keeps runs, drafts, modes,   *)
(* picked models and errors by workspace; startRun is one async function   *)
(* that keeps the workspace and the prompt it was called with, and goes on *)
(* while the user looks at another workspace or opens a thread.            *)
(***************************************************************************)
EXTENDS Naturals, Sequences, FiniteSets, SequencesExt

CONSTANTS
  Workspace, First, Trees, \* the workspaces, the one selected at the start, those that are worktrees
  Model, Nothing,
  MaxCount,                \* the most agents of one model (INSTANCE_OPTIONS)
  Budgets                  \* bound: what may happen in a behaviour, a set of records

VARIABLES
  at,    \* the workspace selected, and whether its home is what is shown of it
  home,  \* WorkspaceHomeState of each workspace: see Home0
  image, \* the images attached, by workspace, in the home that is mounted
  past,  \* the prompt history stored for each workspace
  list,  \* the workspaces: which are connected, what models they offer; worktrees made for a run
  jobs,
  log,   \* history: what was asked, which branches, what each thread was sent
  left

vars == <<at, home, image, past, list, jobs, log, left>>

NoText == [of |-> Nothing, n |-> 0]
Home0 == [runs |-> <<>>, draft |-> NoText, mode |-> "local", picks |-> [m \in Model |-> 0],
          error |-> Nothing, submitting |-> FALSE]
NoImages == [w \in Workspace |-> {}]

\* Where an agent runs: in the workspace itself, or in a worktree made for it.
Itself(w) == [of |-> w, branch |-> Nothing]

Spend(what) == left[what] > 0 /\ left' = [left EXCEPT ![what] = @ - 1]
AtHome == at.home
\* The fields of the selected workspace's home; to touch one forgets its error.
Set(h) == home' = [home EXCEPT ![at.ws] = h]
Touched == [home[at.ws] EXCEPT !.error = Nothing]

(***************************************************************************)
(* What the user does.                                                     *)
(***************************************************************************)
\* A workspace clicked shows its home, which stays mounted from one workspace
\* to the next.  When a thread takes its place its images are gone, and what
\* a dialog it opened answers reaches no one.
Select(w) ==
  /\ at # [ws |-> w, home |-> TRUE] /\ Spend("moves") /\ at' = [ws |-> w, home |-> TRUE]
  /\ UNCHANGED <<home, image, past, list, jobs, log>>
OpenThread(i) ==
  /\ AtHome /\ Spend("moves") /\ image' = NoImages /\ jobs' = {j \in jobs : j.kind # "pick"}
  /\ at' = [ws |-> IF i.in = Itself(at.ws) THEN at.ws ELSE Nothing, home |-> FALSE]
  /\ UNCHANGED <<home, past, list, log>>

\* The box is disabled while a run is submitted; other panels insert anyway.
Writes ==
  /\ Spend("types") /\ log' = [log EXCEPT !.texts = @ + 1]
  /\ Set([Touched EXCEPT !.draft = [of |-> at.ws, n |-> log.texts + 1]])
  /\ UNCHANGED <<at, image, past, list, jobs>>
Type == AtHome /\ ~home[at.ws].submitting /\ Writes
Insert == AtHome /\ Writes
Pick == \* pickImages: the dialog is answered by PickReturns
  /\ AtHome /\ ~home[at.ws].submitting /\ Spend("images")
  /\ jobs' = jobs \cup {[kind |-> "pick", ws |-> at.ws, id |-> 0]}
  /\ UNCHANGED <<at, home, image, past, list, log>>
RemoveImage ==
  /\ AtHome /\ image[at.ws] # {} /\ Spend("images") /\ image' = [image EXCEPT ![at.ws] = {}]
  /\ UNCHANGED <<at, home, past, list, jobs, log>>
\* The menu is not there in a worktree, whose mode an effect keeps local.
SetRunMode(mode) ==
  /\ AtHome /\ at.ws \notin Trees /\ home[at.ws].mode # mode /\ Spend("choices")
  /\ Set([Touched EXCEPT !.mode = mode])
  /\ UNCHANGED <<at, image, past, list, jobs, log>>
ToggleModel(m) ==
  /\ AtHome /\ home[at.ws].mode = "worktree" /\ m \in list.offered[at.ws] /\ Spend("choices")
  /\ Set([Touched EXCEPT !.picks[m] = IF @ > 0 THEN 0 ELSE 1])
  /\ UNCHANGED <<at, image, past, list, jobs, log>>
SetModelCount(m, n) ==
  /\ AtHome /\ home[at.ws].mode = "worktree" /\ m \in list.offered[at.ws] /\ Spend("choices")
  /\ Set([Touched EXCEPT !.picks[m] = n])
  /\ UNCHANGED <<at, image, past, list, jobs, log>>

(***************************************************************************)
(* startRun.                                                               *)
(***************************************************************************)
\* The agents to start, one after the other: each picked model that is still
\* offered, as often as was picked.
Plan(w) ==
  LET models == SetToSeq({m \in list.offered[w] : home[w].picks[m] > 0}) IN
  FlattenSeq([i \in DOMAIN models |-> [n \in 1 .. home[w].picks[models[i]] |-> models[i]]])
Pending(id, h) == [id |-> id, prompt |-> h.draft, mode |-> h.mode, title |-> "prompt",
                   status |-> "pending", insts |-> <<>>, errors |-> 0, error |-> FALSE]
Run(id, w) ==
  LET h == home[w]
      todo == IF h.mode = "local" THEN <<Nothing>> ELSE Plan(w) IN
  [kind |-> "run", id |-> id, ws |-> w, prompt |-> h.draft, images |-> image[w], mode |-> h.mode,
   todo |-> todo, count |-> Len(todo), number |-> 1, base |-> "", in |-> Itself(w), insts |-> <<>>, errors |-> 0,
   step |-> IF h.mode = "worktree" THEN "metadata" ELSE IF list.connected[w] THEN "start" ELSE "connect"]

Submits(w) == (home[w].draft # NoText \/ image[w] # {}) /\ ~home[w].submitting
startRun ==
  LET w == at.ws
      id == log.runs + 1 IN
  /\ AtHome /\ Submits(w) /\ Spend("runs")
  /\ IF home[w].mode = "worktree" /\ Plan(w) = <<>>
     THEN Set([home[w] EXCEPT !.error = w]) /\ UNCHANGED <<jobs, log>>
     ELSE /\ log' = [log EXCEPT !.runs = id, !.asked = Append(@, Run(id, w))]
          /\ jobs' = jobs \cup {Run(id, w)}
                     \cup (IF home[w].mode = "local" THEN {[kind |-> "title", ws |-> w, id |-> id]} ELSE {})
          /\ Set([Touched EXCEPT !.submitting = TRUE, !.draft = NoText,
                                 !.runs = <<Pending(id, home[w])>> \o @])
  /\ UNCHANGED <<at, image, past, list>>

InRun(w, id, news) ==
  [home EXCEPT ![w].runs = [n \in DOMAIN @ |-> IF @[n].id = id THEN news @@ @[n] ELSE @[n]]]
Titled == [title |-> "metadata"]

\* The finally of startRun, and what handleRunSubmit does when it returns: the
\* prompt joins the history of its workspace, and its images are dropped.
Status(j) == IF j.insts = <<>> THEN "failed" ELSE IF j.errors > 0 THEN "partial" ELSE "ready"
Finished(j) ==
  LET told == [insts |-> j.insts, errors |-> j.errors, error |-> j.errors > 0, status |-> Status(j)] IN
  [InRun(j.ws, j.id, told) EXCEPT ![j.ws].submitting = FALSE,
                                  ![j.ws].error = IF Status(j) = "failed" THEN j.ws ELSE @]
Recorded(j) ==
  IF j.prompt = NoText \/ (past[j.ws] # <<>> /\ Last(past[j.ws]) = j.prompt) THEN past
  ELSE [past EXCEPT ![j.ws] = Append(@, j.prompt)]
\* The next agent, or the end: j is the job, with what became of this one.
Continue(old, j) ==
  LET rest == Tail(j.todo)
      first == IF j.mode = "local" THEN "start" ELSE "add" IN
  IF rest # <<>>
  THEN /\ jobs' = (jobs \ {old}) \cup {[j EXCEPT !.todo = rest, !.number = @ + 1, !.step = first, !.in = Itself(j.ws)]}
       /\ UNCHANGED <<home, image, past>>
  ELSE /\ jobs' = jobs \ {old} /\ home' = Finished(j) /\ past' = Recorded(j)
       /\ image' = [image EXCEPT ![j.ws] = {}]
Fails(j) == Continue(j, [j EXCEPT !.errors = @ + 1])
\* The name of the branches: what the server proposed, or made of the prompt,
\* with the number of the run and, of several agents, the agent's.
BaseName(ok) == IF ok THEN "proposed" ELSE "made"
Goes(j, step) == jobs' = (jobs \ {j}) \cup {[j EXCEPT !.step = step]} /\ UNCHANGED <<image, past>>
Branch(j) == <<j.base, j.id, IF j.count > 1 THEN j.number ELSE 0>>

\* What startRun awaits is answered: with ok, or with an error.
Metadata(j, ok) ==
  /\ j.step = "metadata" /\ jobs' = (jobs \ {j}) \cup {[j EXCEPT !.step = "add", !.base = BaseName(ok)]}
  /\ home' = (IF ok THEN InRun(j.ws, j.id, Titled) ELSE home)
  /\ UNCHANGED <<image, past, list, log>>
Connect(j, ok) ==
  /\ j.step = "connect" /\ log' = log
  /\ IF ok THEN Goes(j, "start") /\ home' = home /\ list' = [list EXCEPT !.connected[j.ws] = TRUE]
     ELSE Fails(j) /\ list' = list
\* A worktree is made and comes back connected; its setup script may fail.
Add(j, ok) ==
  /\ j.step = "add" /\ log' = [log EXCEPT !.branches = Append(@, Branch(j))]
  /\ IF ok THEN /\ list' = [list EXCEPT !.made = @ \cup {[of |-> j.ws, branch |-> Branch(j)]}]
                /\ jobs' = (jobs \ {j}) \cup {[j EXCEPT !.step = "setup", !.in = [of |-> j.ws, branch |-> Branch(j)]]}
                /\ UNCHANGED <<home, image, past>>
     ELSE Fails(j) /\ list' = list
Setup(j) == j.step = "setup" /\ Goes(j, "start") /\ UNCHANGED <<home, list, log>>
Start(j, ok) ==
  /\ j.step = "start" /\ UNCHANGED <<list, log>>
  /\ IF ok THEN Goes(j, "send") /\ home' = home ELSE Fails(j)
\* A send that is refused is no error here: the agent counts as started.
Send(j, ok) ==
  /\ j.step = "send" /\ list' = list
  /\ log' = IF ok THEN [log EXCEPT !.sent = @ \cup {[run |-> j.id, in |-> j.in, model |-> Head(j.todo),
                                                     text |-> j.prompt, images |-> j.images]}] ELSE log
  /\ Continue(j, [j EXCEPT !.insts = Append(@, [in |-> j.in, model |-> Head(j.todo), number |-> j.number])])
RunGoes(j, ok) ==
  /\ j.kind = "run" /\ (ok \/ j.step = "setup" \/ Spend("fails"))
  /\ (ok \/ j.step = "setup" => left' = left)
  /\ Metadata(j, ok) \/ Connect(j, ok) \/ Add(j, ok) \/ (ok /\ Setup(j)) \/ Start(j, ok) \/ Send(j, ok)
  /\ at' = at

TitleReturns(j, ok) ==
  /\ j.kind = "title" /\ jobs' = jobs \ {j} /\ home' = (IF ok THEN InRun(j.ws, j.id, Titled) ELSE home)
  /\ UNCHANGED <<at, image, past, list, log, left>>
PickReturns(j) ==
  /\ j.kind = "pick" /\ jobs' = jobs \ {j} /\ image' = [image EXCEPT ![j.ws] = @ \cup {j.ws}]
  /\ UNCHANGED <<at, home, past, list, log, left>>

\* The models a workspace offers are those of its server.
Offers(w, models) ==
  /\ models # list.offered[w] /\ Spend("offers") /\ list' = [list EXCEPT !.offered[w] = models]
  /\ UNCHANGED <<at, home, image, past, jobs, log>>

----------------------------------------------------------------------------
Init ==
  /\ at = [ws |-> First, home |-> TRUE] /\ image = NoImages /\ past = [w \in Workspace |-> <<>>]
  /\ home = [w \in Workspace |-> Home0]
  /\ list \in {[connected |-> [w \in Workspace |-> c], offered |-> [w \in Workspace |-> Model], made |-> {}] : c \in BOOLEAN}
  /\ jobs = {} /\ log = [texts |-> 0, runs |-> 0, asked |-> <<>>, branches |-> <<>>, sent |-> {}]
  /\ left \in Budgets

Instances(w) == UNION {ToSet(r.insts) : r \in ToSet(home[w].runs)}
Next ==
  \/ \E w \in Workspace : Select(w) \/ \E models \in SUBSET Model : Offers(w, models)
  \/ \E i \in (IF AtHome THEN Instances(at.ws) \cup {[in |-> Itself(at.ws)]} ELSE {}) : OpenThread(i)
  \/ Type \/ Insert \/ Pick \/ RemoveImage \/ startRun
  \/ \E mode \in {"local", "worktree"} : SetRunMode(mode)
  \/ \E m \in Model : ToggleModel(m) \/ \E n \in 1 .. MaxCount : SetModelCount(m, n)
  \/ \E j \in jobs : PickReturns(j) \/ \E ok \in BOOLEAN : RunGoes(j, ok) \/ TitleReturns(j, ok)

Spec == Init /\ [][Next]_vars

----------------------------------------------------------------------------
\* What is typed, attached and picked in the home of a workspace stays there,
\* and so do its errors and its history, though runs end, dialogs are answered
\* and titles arrive while the user is elsewhere.
HomesAreApart ==
  \A w \in Workspace :
    /\ home[w].draft = NoText \/ home[w].draft.of = w
    /\ image[w] \subseteq {w} /\ home[w].error \in {w, Nothing}
    /\ \A t \in ToSet(past[w]) : t.of = w
    /\ \A r \in ToSet(home[w].runs) : r.prompt = NoText \/ r.prompt.of = w

\* A workspace says it is submitting exactly while a run of it is under way,
\* one at a time and the one its list shows as pending, wherever the user is.
SubmittingIsARun ==
  \A w \in Workspace :
    LET under == {j.id : j \in {x \in jobs : x.kind = "run" /\ x.ws = w}} IN
    /\ home[w].submitting = (under # {}) /\ Cardinality(under) <= 1
    /\ {r.id : r \in {x \in ToSet(home[w].runs) : x.status = "pending"}} = under

\* What a run's card says when it has ended is what was done: as many agents
\* started or failed as were asked for when it was submitted, each with the
\* model of its turn, in the workspace itself or in a worktree that was made
\* of it; every thread that was sent the prompt is on the card and was sent
\* the prompt and the images of that submission.  No branch is asked for twice.
RunSaysWhatRan ==
  /\ \A w \in Workspace : \A r \in ToSet(home[w].runs) :
       LET asked == log.asked[r.id] IN
       r.status # "pending" =>
         /\ Len(r.insts) + r.errors = asked.count /\ (r.status = "ready") = (r.errors = 0)
         /\ \A i \in ToSet(r.insts) :
              /\ i.model = asked.todo[i.number]
              /\ IF r.mode = "local" THEN i.in = Itself(w) ELSE i.in \in list.made /\ i.in.of = w
         /\ \A s \in log.sent :
              s.run = r.id => /\ s.text = asked.prompt /\ s.images = asked.images
                              /\ \E i \in ToSet(r.insts) : i.in = s.in /\ i.model = s.model
  /\ IsInjective(log.branches)
=============================================================================
