------------------------------- MODULE GitActions -------------------------------
(***************************************************************************)
(* What the git panel does to the selected workspace's repository: the     *)
(* commit box with its generated message, commit, push, pull, fetch and    *)
(* sync, staging and reverting, bringing a worktree's changes to its       *)
(* parent, and the dialog that initializes a repository and creates its    *)
(* remote.                                                                 *)
(*                                                                         *)
(* Each is an async function: a job that keeps the workspace it was        *)
(* started in and goes on while the user selects another one.              *)
(***************************************************************************)
EXTENDS Naturals, Sequences, FiniteSets

CONSTANTS
  Workspace, First, \* the workspaces, the one selected at the start
  Budgets           \* bound: what may happen in a behaviour, a set of records

VARIABLES
  ws,    \* activeWorkspaceId, and the refs that follow it
  box,   \* useGitCommitController: see Box0
  panel, \* useGitActions and useInitGitRepoPrompt: see Panel0
  repo,  \* the repository of each workspace
  jobs,
  log,   \* history: the calls the backend ran, each with its job
  left

vars == <<ws, box, panel, repo, jobs, log, left>>

Nobody == "nobody"
Ops == {"commit", "push", "pull", "fetch", "sync"}
Box0 == [text |-> "", from |-> Nobody,    \* commitMessage; who generated it
         making |-> FALSE, wrong |-> Nobody,
         busy |-> [o \in Ops |-> FALSE],
         failed |-> [o \in Ops |-> Nobody], \* whose failure is shown
         seen |-> [staged |-> FALSE, changed |-> FALSE]]
Panel0 == [applying |-> FALSE, applied |-> Nobody, refused |-> Nobody,
           initializing |-> FALSE, creating |-> FALSE,
           prompt |-> [open |-> FALSE, remote |-> TRUE, failed |-> FALSE]]

Spend(what) == left[what] > 0 /\ left' = [left EXCEPT ![what] = @ - 1]
Job(op, step) == [id |-> log.jobs + 1, op |-> op, ws |-> ws, step |-> step, at |-> "sent",
                  text |-> box.text, remote |-> panel.prompt.remote]
Start(op, step) == jobs' = jobs \cup {Job(op, step)} /\ log' = [log EXCEPT !.jobs = @ + 1]
Goes(j, step) == jobs' = (jobs \ {j}) \cup {[j EXCEPT !.step = step, !.at = "sent"]}
Ends(j) == jobs' = jobs \ {j}

(***************************************************************************)
(* Selecting a workspace resets the message and what useGitActions shows,  *)
(* and closes the dialog; errors and spinners of the commit box stay.      *)
(***************************************************************************)
Reset == [box EXCEPT !.text = "", !.from = Nobody, !.making = FALSE, !.wrong = Nobody, !.seen = Box0.seen]
Select(w) ==
  /\ w # ws /\ Spend("moves") /\ ws' = w /\ box' = Reset
  /\ panel' = Panel0
  /\ UNCHANGED <<repo, jobs, log>>
\* useGitStatus polls.
Polled ==
  /\ box.seen # [staged |-> repo[ws].staged, changed |-> repo[ws].changed]
  /\ box' = [box EXCEPT !.seen = [staged |-> repo[ws].staged, changed |-> repo[ws].changed]]
  /\ UNCHANGED <<ws, panel, repo, jobs, log, left>>
Changed ==
  /\ repo[ws].git /\ ~repo[ws].changed /\ Spend("changes") /\ repo' = [repo EXCEPT ![ws].changed = TRUE]
  /\ UNCHANGED <<ws, box, panel, jobs, log>>
Type ==
  /\ box.text = "" /\ Spend("types") /\ box' = [box EXCEPT !.text = "typed", !.from = Nobody]
  /\ UNCHANGED <<ws, panel, repo, jobs, log>>

(***************************************************************************)
(* The commit box.                                                         *)
(***************************************************************************)
\* What a button runs, and the spinners it needs and turns on.
Spinners(op) ==
  CASE op = "commitPush" -> {"commit", "push"} [] op = "commitSync" -> {"commit", "sync"} [] OTHER -> {op}
Commits(op) == "commit" \in Spinners(op)
\* Files are staged only when none is, as far as the last poll knows.
FirstStep(op) ==
  IF ~Commits(op) THEN op ELSE IF ~box.seen.staged /\ box.seen.changed THEN "stageAll" ELSE "commit"
Press(op) ==
  /\ \A o \in Spinners(op) : ~box.busy[o]
  /\ Commits(op) => box.text # "" /\ (box.seen.staged \/ box.seen.changed)
  /\ Spend("presses") /\ Start(op, FirstStep(op))
  /\ box' = [box EXCEPT !.busy = [o \in Ops |-> box.busy[o] \/ o \in Spinners(op)],
                        !.failed = [o \in Ops |-> IF o \in Spinners(op) THEN Nobody ELSE box.failed[o]]]
  /\ UNCHANGED <<ws, panel, repo>>
Generate ==
  /\ ~box.making /\ Spend("presses") /\ Start("generate", "generate")
  /\ box' = [box EXCEPT !.making = TRUE, !.wrong = Nobody]
  /\ UNCHANGED <<ws, panel, repo>>

AfterCommit(op) == CASE op = "commitPush" -> "push" [] op = "commitSync" -> "sync" [] OTHER -> "end"
NotBusy(b, ops) == [b EXCEPT !.busy = [o \in Ops |-> b.busy[o] /\ o \notin ops]]
\* Which error an operation that went well takes away.
Cures(op) == CASE op = "pull" -> {"push"} [] op = "push" -> {"pull"}
               [] op = "sync" -> {"pull", "push"} [] OTHER -> {}

\* Mutant: the second half runs in the workspace selected by then.
SecondHalfFollows(j) == [j EXCEPT !.step = AfterCommit(j.op), !.at = "sent", !.ws = ws]
SecondHalf(j) == [j EXCEPT !.step = AfterCommit(j.op), !.at = "sent"]
OpAnswered(j) ==
  /\ j.op \in Ops \cup {"commitPush", "commitSync"}
  /\ CASE j.at = "failed" ->
            /\ Ends(j)
            /\ box' = [NotBusy(box, Spinners(j.op)) EXCEPT
                         !.failed = [@ EXCEPT ![IF j.step = "stageAll" THEN "commit" ELSE j.step] = j.ws]]
       [] j.at = "done" /\ j.step = "stageAll" -> Goes(j, "commit") /\ box' = box
       [] j.at = "done" /\ j.step = "commit" ->
            LET b == [NotBusy(box, {"commit"}) EXCEPT !.text = "", !.from = Nobody] IN
            /\ box' = b
            /\ IF AfterCommit(j.op) = "end" THEN Ends(j) ELSE jobs' = (jobs \ {j}) \cup {SecondHalf(j)}
       [] OTHER ->
            /\ Ends(j)
            /\ box' = [NotBusy(box, Spinners(j.op)) EXCEPT
                         !.failed = [o \in Ops |-> IF j.op = j.step /\ o \in Cures(j.op) THEN Nobody ELSE @[o]]]
  /\ panel' = panel

\* Mutant: an answer counts wherever the user is.
HereAnywhere(w) == TRUE
Here(w) == w = ws
GenerateAnswered(j) ==
  /\ j.op = "generate" /\ Ends(j) /\ panel' = panel
  /\ box' = IF ~Here(j.ws) THEN box
            ELSE IF j.at = "done" THEN [box EXCEPT !.text = "made", !.from = j.ws, !.making = FALSE]
            ELSE [box EXCEPT !.wrong = j.ws, !.making = FALSE]

(***************************************************************************)
(* useGitActions.                                                          *)
(***************************************************************************)
\* Staging one file, all of them, unstaging and reverting; the panel is
\* polled again if the workspace is still selected.
Touch(step) ==
  /\ repo[ws].git /\ Spend("presses") /\ Start("touch", step)
  /\ UNCHANGED <<ws, box, panel, repo>>
TouchAnswered(j) ==
  /\ j.op = "touch" /\ Ends(j) /\ panel' = panel
  /\ box' = IF Here(j.ws) THEN [box EXCEPT !.seen = [staged |-> repo[ws].staged, changed |-> repo[ws].changed]]
            ELSE box
\* The user answers a dialog, which other windows do not block.
Decided(j, yes) ==
  /\ j.step \in {"askRevert", "askInit"} /\ j.at = "done"
  /\ CASE ~yes -> Ends(j) /\ panel' = IF j.op = "init" /\ Here(j.ws) THEN [panel EXCEPT !.initializing = FALSE] ELSE panel
       [] yes /\ j.step = "askRevert" -> Goes(j, "revertAll") /\ panel' = panel
       [] yes /\ j.step = "askInit" ->
            panel' = panel /\ IF Here(j.ws) THEN Goes(j, "force") ELSE Ends(j)
  /\ UNCHANGED <<ws, box, repo, log, left>>

Apply ==
  /\ ~panel.applying /\ Spend("presses") /\ Start("apply", "apply")
  /\ panel' = [panel EXCEPT !.applying = TRUE, !.applied = Nobody, !.refused = Nobody]
  /\ UNCHANGED <<ws, box, repo>>
ApplyAnswered(j) ==
  /\ j.op = "apply" /\ Ends(j) /\ box' = box
  /\ panel' = IF ~Here(j.ws) THEN panel
              ELSE IF j.at = "done" THEN [panel EXCEPT !.applying = FALSE, !.applied = j.ws]
              ELSE [panel EXCEPT !.applying = FALSE, !.refused = j.ws]
\* 2.5 s on.
NoticeGone ==
  /\ panel.applied # Nobody /\ panel' = [panel EXCEPT !.applied = Nobody]
  /\ UNCHANGED <<ws, box, repo, jobs, log, left>>

(***************************************************************************)
(* Initializing a repository.                                              *)
(***************************************************************************)
PromptBusy == panel.initializing \/ panel.creating
OpenInit ==
  /\ ~repo[ws].git /\ ~panel.prompt.open /\ Spend("opens")
  /\ panel' = [panel EXCEPT !.prompt = [Panel0.prompt EXCEPT !.open = TRUE]]
  /\ UNCHANGED <<ws, box, repo, jobs, log>>
NoRemote ==
  /\ panel.prompt.open /\ ~PromptBusy /\ panel.prompt.remote /\ Spend("opens")
  /\ panel' = [panel EXCEPT !.prompt.remote = FALSE, !.prompt.failed = FALSE]
  /\ UNCHANGED <<ws, box, repo, jobs, log>>
CancelInit ==
  /\ panel.prompt.open /\ ~PromptBusy /\ panel' = [panel EXCEPT !.prompt = Panel0.prompt]
  /\ UNCHANGED <<ws, box, repo, jobs, log, left>>
ConfirmInit ==
  /\ panel.prompt.open /\ ~PromptBusy /\ Spend("presses") /\ Start("init", "init")
  /\ panel' = [panel EXCEPT !.initializing = TRUE, !.prompt.failed = FALSE]
  /\ UNCHANGED <<ws, box, repo>>

\* Failures and successes are told to the dialog that is open by then.
PromptFailed(p) == IF p.prompt.open THEN [p EXCEPT !.prompt.failed = TRUE] ELSE p
PromptDone(p) == [p EXCEPT !.prompt = Panel0.prompt]
RemoteAnswered(j, p) ==
  Ends(j) /\ panel' = IF j.at = "done" /\ Here(j.ws) THEN PromptDone(p) ELSE PromptFailed(p)
InitAnswered(j) ==
  /\ j.op = "init" /\ box' = box
  /\ LET p == IF Here(j.ws) THEN [panel EXCEPT !.initializing = FALSE, !.creating = FALSE] ELSE panel IN
     CASE j.step = "init" /\ ~Here(j.ws) /\ j.at # "failed" -> Ends(j) /\ panel' = p
       [] j.step = "init" /\ Here(j.ws) /\ j.at = "asks" ->
            panel' = panel /\ jobs' = (jobs \ {j}) \cup {[j EXCEPT !.step = "askInit", !.at = "done"]}
       [] j.step \in {"init", "force"} /\ j.at = "failed" -> Ends(j) /\ panel' = PromptFailed(p)
       [] j.step \in {"init", "force"} /\ j.at = "done" /\ (j.step = "init" => Here(j.ws)) ->
            IF j.remote THEN Goes(j, "remote") /\ panel' = [p EXCEPT !.creating = TRUE]
            ELSE Ends(j) /\ panel' = PromptDone(p)
       [] j.step = "remote" -> RemoteAnswered(j, p)

RevertAnswered(j) == j.op = "revert" /\ j.step = "revertAll" /\ Ends(j) /\ UNCHANGED <<box, panel>>
Revert ==
  /\ repo[ws].git /\ Spend("presses") /\ log' = [log EXCEPT !.jobs = @ + 1]
  /\ jobs' = jobs \cup {[Job("revert", "askRevert") EXCEPT !.at = "done"]}
  /\ UNCHANGED <<ws, box, panel, repo>>
Answered(j) ==
  /\ j.at # "sent" /\ j.step \notin {"askInit", "askRevert"}
  /\ OpAnswered(j) \/ GenerateAnswered(j) \/ TouchAnswered(j) \/ ApplyAnswered(j) \/ InitAnswered(j) \/ RevertAnswered(j)
  /\ UNCHANGED <<ws, repo, log, left>>

(***************************************************************************)
(* The backend.                                                            *)
(***************************************************************************)
Turn(j, at) == jobs' = (jobs \ {j}) \cup {[j EXCEPT !.at = at]}
Ran(j) == log' = [log EXCEPT !.ran = @ \cup {[by |-> j.id, op |-> j.op, step |-> j.step, ws |-> j.ws,
                                              first |-> {r.step : r \in {x \in log.ran : x.by = j.id /\ x.ws = j.ws}}]}]
Serve(j) ==
  /\ j.at = "sent"
  /\ CASE j.step = "commit" /\ ~repo[j.ws].staged -> Turn(j, "failed") /\ UNCHANGED <<repo, log>>
       [] j.step = "init" /\ repo[j.ws].files -> Turn(j, "asks") /\ UNCHANGED <<repo, log>>
       [] OTHER ->
            /\ Turn(j, "done") /\ Ran(j)
            /\ repo' = CASE j.step \in {"stageAll", "stage"} -> [repo EXCEPT ![j.ws].staged = @ \/ repo[j.ws].changed]
                         [] j.step \in {"commit", "revertAll"} ->
                              [repo EXCEPT ![j.ws].staged = FALSE, ![j.ws].changed = FALSE]
                         [] j.step \in {"init", "force"} -> [repo EXCEPT ![j.ws].git = TRUE, ![j.ws].files = FALSE]
                         [] OTHER -> repo
  /\ UNCHANGED <<ws, box, panel, left>>
Refuse(j) ==
  /\ j.at = "sent" /\ Spend("fails") /\ Turn(j, "failed")
  /\ UNCHANGED <<ws, box, panel, repo, log>>

----------------------------------------------------------------------------
Init ==
  /\ ws = First /\ box = Box0 /\ panel = Panel0 /\ jobs = {} /\ log = [jobs |-> 0, ran |-> {}]
  /\ repo \in [Workspace -> {[git |-> TRUE, staged |-> FALSE, changed |-> TRUE, files |-> FALSE],
                             [git |-> FALSE, staged |-> FALSE, changed |-> FALSE, files |-> TRUE]}]
  /\ left \in Budgets

Next ==
  \/ \E w \in Workspace : Select(w)
  \/ Polled \/ Changed \/ Type \/ Generate \/ Apply \/ NoticeGone \/ Revert
  \/ \E op \in Ops \cup {"commitPush", "commitSync"} : Press(op)
  \/ \E step \in {"stage", "stageAll"} : Touch(step)
  \/ OpenInit \/ NoRemote \/ CancelInit \/ ConfirmInit
  \/ \E j \in jobs : Answered(j) \/ Serve(j) \/ Refuse(j) \/ \E yes \in BOOLEAN : Decided(j, yes)

Spec == Init /\ [][Next]_vars

----------------------------------------------------------------------------
\* What the panel says of generating a message and of bringing changes to the
\* parent is about the workspace selected, though answers arrive after the
\* user has left it, or left it and come back (useGitActions.ts:166,
\* useGitCommitController.ts:109).
NewsOfThisWorkspace ==
  {box.from, box.wrong, panel.applied, panel.refused} \subseteq {ws, Nobody}

\* What is done in steps is done in order and in one workspace, whichever is
\* selected meanwhile: the push or sync of "commit and push" follows that
\* commit (useGitCommitController.ts:178), and a remote is created only for
\* the repository that was just initialized (useInitGitRepoPrompt.ts:169).
InOrder ==
  \A r \in log.ran :
    /\ r.op \in {"commitPush", "commitSync"} /\ r.step \in {"push", "sync"} => "commit" \in r.first
    /\ r.step = "remote" => r.first \cap {"init", "force"} # {}
=============================================================================
