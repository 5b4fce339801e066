---------------------------- MODULE WorkspacePrompts ----------------------------
(***************************************************************************)
(* The questions asked before a workspace is made or changed: the worktree *)
(* and clone dialogs, the dialog that clones a url, the rename field of a  *)
(* worktree with the upstream question that follows it, the list of paths  *)
(* a phone asks for, and the paths dropped on the window.                  *)
(*                                                                         *)
(* A confirmed question runs as a job: a sequence of calls, each made when *)
(* the one before is answered, that tells whatever question of its kind is *)
(* open by then how it went.                                               *)
(***************************************************************************)
EXTENDS Naturals, Sequences, FiniteSets, SequencesExt

CONSTANTS
  Workspace, First, \* the workspaces, the one selected at the start
  Trees,            \* those that are worktrees
  Text,             \* scripts, folders and branches; "" is the empty one
  Budgets           \* bound: what may happen in a behaviour, a set of records

VARIABLES
  active,  \* the workspace selected
  prompt,  \* the question of each kind: see Opened
  jobs,    \* those under way, each with the question it was confirmed with
  paths,   \* the phone's list of paths, with the request that waits for it
  drops,   \* reports of dropped paths not handled yet; the last one handled
  backend, \* what it stores of each workspace
  log,     \* history: what was made, answered and added
  left

vars == <<active, prompt, jobs, paths, drops, backend, log, left>>

Kind == {"worktree", "clone", "url", "rename", "upstream"}
Closed == [open |-> FALSE, ws |-> First, text |-> "", saved |-> "", busy |-> FALSE, failed |-> FALSE]
Opened(w, text) == [Closed EXCEPT !.open = TRUE, !.ws = w, !.text = text, !.saved = text]
Made == "made"      \* the workspace a job made

Spend(what) == left[what] > 0 /\ left' = [left EXCEPT ![what] = @ - 1]

\* The rename field and its question belong to the workspace selected.
Shown(p, w) ==
  [k \in Kind |-> IF k \in {"rename", "upstream"} /\ p[k].ws # w THEN Closed ELSE p[k]]
Prompts(p, w) == active' = w /\ prompt' = Shown(p, w)
Tell(k, p) == IF prompt[k].open THEN [prompt EXCEPT ![k] = p] ELSE prompt
Failed(k) == Tell(k, [prompt[k] EXCEPT !.busy = FALSE, !.failed = TRUE])

(***************************************************************************)
(* The user.                                                               *)
(***************************************************************************)
Select(w) ==
  /\ w # active /\ Spend("moves") /\ Prompts(prompt, w)
  /\ UNCHANGED <<jobs, paths, drops, backend, log>>

\* A dialog is opened from the menus too, over one that is busy.
Open(k, w) ==
  /\ k \in {"worktree", "clone", "url"} /\ Spend("opens")
  /\ Prompts([prompt EXCEPT ![k] = Opened(w, IF k = "url" THEN "" ELSE backend.text[k][w])], active)
  /\ UNCHANGED <<jobs, paths, drops, backend, log>>
\* Focus in the field of the selected worktree.
OpenRename ==
  /\ active \in Trees /\ ~prompt["rename"].busy /\ Spend("opens")
  /\ Prompts([prompt EXCEPT !["rename"] = Opened(active, backend.text["rename"][active]),
                            !["upstream"] = Closed], active)
  /\ UNCHANGED <<jobs, paths, drops, backend, log>>
Edit(k, t) ==
  /\ prompt[k].open /\ k # "upstream" /\ t # prompt[k].text /\ Spend("edits")
  /\ k \in {"clone", "rename"} => ~prompt[k].busy
  /\ Prompts([prompt EXCEPT ![k] = [@ EXCEPT !.text = t, !.failed = FALSE]], active)
  /\ UNCHANGED <<jobs, paths, drops, backend, log>>
\* The dialogs cannot be closed while they are busy; the field can.
Cancel(k) ==
  /\ prompt[k].open /\ k # "upstream" /\ (prompt[k].busy => k = "rename") /\ Spend("closes")
  /\ Prompts([prompt EXCEPT ![k] = Closed], active)
  /\ UNCHANGED <<jobs, paths, drops, backend, log>>

Job(k, p, step) ==
  [id |-> log.asked + 1, kind |-> k, ws |-> p.ws, text |-> p.text, saved |-> p.saved, step |-> step, at |-> "sent"]
FirstStep(k, p) ==
  CASE k = "worktree" /\ p.text # p.saved -> "save"
    [] k = "rename" -> "rename" [] k = "upstream" -> "upstream" [] OTHER -> "add"
Confirm(k) ==
  LET p == prompt[k] IN
  /\ p.open /\ ~p.busy /\ Spend("confirms")
  /\ CASE k \in {"clone", "url", "rename"} /\ p.text = "" ->
            Prompts(Failed(k), active) /\ UNCHANGED <<jobs, log>>
       [] k = "rename" /\ p.text = p.saved /\ p.text # "" ->
            Prompts([prompt EXCEPT ![k] = Closed], active) /\ UNCHANGED <<jobs, log>>
       [] OTHER ->
            /\ Prompts([prompt EXCEPT ![k] = [p EXCEPT !.busy = TRUE, !.failed = FALSE]], active)
            /\ jobs' = jobs \cup {Job(k, p, FirstStep(k, p))}
            /\ log' = [log EXCEPT !.asked = @ + 1]
  /\ UNCHANGED <<paths, drops, backend>>
\* The native folder picker, for the clone and url dialogs.
Pick(k) ==
  /\ k \in {"clone", "url"} /\ prompt[k].open /\ ~prompt[k].busy /\ Spend("picks")
  /\ jobs' = jobs \cup {Job(k, prompt[k], "pick")} /\ log' = [log EXCEPT !.asked = @ + 1]
  /\ UNCHANGED <<active, prompt, paths, drops, backend>>

(***************************************************************************)
(* A job.                                                                  *)
(***************************************************************************)
NextStep(j) ==
  CASE j.step = "save" -> "add"
    [] j.step = "add" /\ j.at = "idle" -> "connect"
    [] j.step \in {"add", "connect"} /\ j.kind = "worktree" -> "created"
    [] j.step \in {"add", "connect"} /\ j.kind = "clone" /\ j.text # j.saved -> "persist"
    [] OTHER -> "end"
\* What a new worktree's own script and the folder kept for a group do wrong
\* is only reported.
Reported(j) == j.step \in {"created", "persist"}

\* Mutant: a dialog whose job failed stays busy.
StoppedStaysBusy(j) == Tell(j.kind, [prompt[j.kind] EXCEPT !.failed = TRUE])
Stopped(j) == Failed(j.kind)

Saved(j) ==
  Tell("worktree", [prompt["worktree"] EXCEPT !.ws = j.ws, !.text = j.text, !.saved = j.text])
Renamed(j) ==
  LET p == [prompt EXCEPT !["rename"] = Closed] IN
  IF backend.text["rename"][j.ws] = j.saved THEN p
  ELSE [p EXCEPT !["upstream"] = Opened(j.ws, backend.text["rename"][j.ws])]
\* What is on screen once a step is answered.
Told(j) ==
  CASE j.step = "pick" -> IF j.at = "failed" THEN prompt
                          ELSE Tell(j.kind, [prompt[j.kind] EXCEPT !.text = j.text, !.failed = FALSE])
    [] j.step # "pick" /\ j.at = "failed" /\ ~Reported(j) -> Stopped(j)
    [] j.step = "save" /\ j.at # "failed" -> Saved(j)
    [] j.step = "rename" /\ j.at # "failed" -> Renamed(j)
    [] OTHER -> IF NextStep(j) = "end" THEN [prompt EXCEPT ![j.kind] = Closed] ELSE prompt
Over(j) == j.step = "pick" \/ (j.at = "failed" /\ ~Reported(j)) \/ NextStep(j) = "end"
Answered(j) ==
  /\ j.at # "sent"
  /\ Prompts(Told(j), IF j.step = "add" /\ j.at # "failed" THEN Made ELSE active)
  /\ jobs' = (jobs \ {j}) \cup (IF Over(j) THEN {} ELSE {[j EXCEPT !.step = NextStep(j), !.at = "sent"]})
  /\ UNCHANGED <<paths, drops, backend, log, left>>

(***************************************************************************)
(* The backend and the native picker.                                      *)
(***************************************************************************)
Turn(j, at) == jobs' = (jobs \ {j}) \cup {[j EXCEPT !.at = at]}
Stored(k, w, t) == backend' = [backend EXCEPT !.text[k][w] = t]
\* A branch that exists is renamed to another name.
Free(t) == {t, CHOOSE u \in Text : u \notin {"", t}}
Serve(j) ==
  /\ j.at = "sent" /\ j.step # "pick"
  /\ CASE j.step = "save" -> Turn(j, "done") /\ Stored("worktree", j.ws, j.text) /\ log' = log
       [] j.step = "persist" -> Turn(j, "done") /\ Stored("clone", j.ws, j.text) /\ log' = log
       [] j.step = "rename" ->
            Turn(j, "done") /\ log' = log /\ \E t \in Free(j.text) : Stored("rename", j.ws, t)
       [] j.step = "add" ->
            /\ Turn(j, "done") \/ (j.kind # "url" /\ Turn(j, "idle"))
            /\ log' = [log EXCEPT !.made = Append(@, j.id)]
            /\ backend' = backend
       [] OTHER -> Turn(j, "done") /\ UNCHANGED <<backend, log>>
  /\ UNCHANGED <<active, prompt, paths, drops, left>>
Refuse(j) ==
  /\ j.at = "sent" /\ Spend("fails") /\ Turn(j, "failed")
  /\ UNCHANGED <<active, prompt, paths, drops, backend, log>>
Chosen(j, t) ==
  /\ j.at = "sent" /\ j.step = "pick" /\ t # ""
  /\ jobs' = (jobs \ {j}) \cup {[j EXCEPT !.at = "done", !.text = t]}
  /\ UNCHANGED <<active, prompt, paths, drops, backend, log, left>>

(***************************************************************************)
(* The phone's list of paths.                                              *)
(***************************************************************************)
Nobody == 0
Answer(l, got) == IF paths.waiting = Nobody THEN l ELSE [l EXCEPT !.answers = Append(@, [ask |-> paths.waiting, got |-> got])]

\* Mutant: a second request does not answer the one before.
AnsweredBeforeNot(l) == l
AnsweredBefore(l) == Answer(l, "")
AskPaths ==
  /\ Spend("asks")
  /\ paths' = [open |-> TRUE, text |-> "", waiting |-> log.asked + 1]
  /\ log' = AnsweredBefore([log EXCEPT !.asked = @ + 1, !.lists = @ \cup {log.asked + 1}])
  /\ UNCHANGED <<active, prompt, jobs, drops, backend>>
TypePaths(t) ==
  /\ paths.open /\ t # paths.text /\ Spend("edits") /\ paths' = [paths EXCEPT !.text = t]
  /\ UNCHANGED <<active, prompt, jobs, drops, backend, log>>
NoPaths == [open |-> FALSE, text |-> "", waiting |-> Nobody]
SubmitPaths ==
  /\ paths.open /\ paths.text # ""
  /\ log' = Answer(log, paths.text) /\ paths' = NoPaths
  /\ UNCHANGED <<active, prompt, jobs, drops, backend, left>>
CancelPaths ==
  /\ paths.open /\ log' = Answer(log, "") /\ paths' = NoPaths
  /\ UNCHANGED <<active, prompt, jobs, drops, backend, left>>

(***************************************************************************)
(* Paths dropped on the window, reported by the window and by the page.    *)
(***************************************************************************)
Drop ==
  /\ drops.reports = {} /\ Spend("drops")
  /\ drops' = [drops EXCEPT !.reports = {"window", "page"}, !.number = @ + 1]
  /\ UNCHANGED <<active, prompt, jobs, paths, backend, log>>
\* Mutant: every report counts.
RepeatedNever(d) == FALSE
Repeated(d) == d.last
Report(r) ==
  /\ r \in drops.reports
  /\ drops' = [drops EXCEPT !.reports = @ \ {r}, !.last = TRUE]
  /\ log' = IF Repeated(drops) THEN log ELSE [log EXCEPT !.dropped = Append(@, drops.number)]
  /\ UNCHANGED <<active, prompt, jobs, paths, backend, left>>
\* 750 ms on.
Later ==
  /\ drops.reports = {} /\ drops.last /\ drops' = [drops EXCEPT !.last = FALSE]
  /\ UNCHANGED <<active, prompt, jobs, paths, backend, log, left>>

----------------------------------------------------------------------------
Init ==
  /\ active = First /\ prompt = [k \in Kind |-> Closed] /\ jobs = {} /\ paths = NoPaths
  /\ drops = [reports |-> {}, number |-> 0, last |-> FALSE]
  /\ backend = [text |-> [k \in Kind |-> [w \in Workspace |-> IF k = "rename" THEN "a" ELSE ""]]]
  /\ log = [asked |-> 0, made |-> <<>>, lists |-> {}, answers |-> <<>>, dropped |-> <<>>]
  /\ left \in Budgets

Next ==
  \/ \E w \in Workspace : Select(w) \/ \E k \in Kind : Open(k, w)
  \/ OpenRename
  \/ \E k \in Kind : Cancel(k) \/ Confirm(k) \/ Pick(k) \/ \E t \in Text : Edit(k, t)
  \/ \E j \in jobs : Answered(j) \/ Serve(j) \/ Refuse(j) \/ \E t \in Text : Chosen(j, t)
  \/ AskPaths \/ SubmitPaths \/ CancelPaths \/ \E t \in Text : TypePaths(t)
  \/ Drop \/ Later \/ \E r \in drops.reports : Report(r)

Spec == Init /\ [][Next]_vars

----------------------------------------------------------------------------
\* Nobody is kept waiting by something that is not there: a question that is
\* busy, which cannot be closed, has a job that will tell it, and a request
\* for paths that has no answer is the one whose list is on screen
\* (useWorktreePrompt.ts:183, useWorkspaceDialogs.ts:116).
WaitsForSomething ==
  /\ \A k \in Kind : prompt[k].busy => \E j \in jobs : j.kind = k /\ j.step # "pick"
  /\ paths.open <=> paths.waiting # Nobody
  /\ log.lists \ {log.answers[i].ask : i \in DOMAIN log.answers} = {paths.waiting} \ {Nobody}

\* What was asked is done once: a workspace is made once for a confirmation, a
\* request for paths has one answer, and a drop is added once, though it is
\* reported twice (useWorktreePrompt.ts:197, useWorkspaceDropZone.ts:63).
DoneOnce ==
  /\ \A i, j \in DOMAIN log.made : log.made[i] = log.made[j] => i = j
  /\ \A i, j \in DOMAIN log.answers : log.answers[i].ask = log.answers[j].ask => i = j
  /\ \A i, j \in DOMAIN log.dropped : log.dropped[i] = log.dropped[j] => i = j
=============================================================================
