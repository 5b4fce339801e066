------------------------------- MODULE Dictation -------------------------------
(***************************************************************************)
(* Dictation: a key that is held or a button that is pressed has the back  *)
(* end open the microphone, stop it and write down what was said, or drop  *)
(* it; the text that comes is put into the composer.  The models it needs  *)
(* are downloaded and removed in the settings.  Commands run side by side; *)
(* the back end's events reach the window in order, the answers of its     *)
(* commands at any time.  What the back end does under one lock is one     *)
(* step, with the event that tells of it.                                  *)
(***************************************************************************)
EXTENDS Naturals, Sequences, TLC

CONSTANTS
  Model, First, \* the models, and the one chosen at the start
  Files,        \* the models that are there at the start
  None,
  Budgets       \* bound: what may happen in a behaviour, a set of records

VARIABLES
  app,    \* the window: see Init
  mic,    \* the back end's session: see Init
  models, \* the back end's models: see Init
  calls,  \* commands, and what they leave behind: see NewCall
  events, \* on their way to the window
  log,    \* history: see Init
  left

vars == <<app, mic, models, calls, events, log, left>>

Spend(what) == left[what] > 0 /\ left' = [left EXCEPT ![what] = @ - 1]
MaySpend(ok) == IF ok THEN left' = left ELSE Spend("fails")

Event(kind, val) == [kind |-> kind, val |-> val]
Tells(told) == events' = events \o told
Failed == <<Event("error", None)>>
InState(state) == Event("state", state)
NewCall(kind, of) == [n |-> log.calls + 1, kind |-> kind, phase |-> "first", of |-> of, got |-> None]
Calls(kind, of) == calls' = calls \cup {NewCall(kind, of)} /\ log' = [log EXCEPT !.calls = @ + 1]

(***************************************************************************)
(* The window: the microphone's button, the key that is held, escape.      *)
(***************************************************************************)
dictationReady == app.status.state = "ready"
Starts(a, by) ==
  /\ app' = [a EXCEPT !.error = FALSE] /\ calls' = calls \cup {NewCall("start", None)}
  /\ log' = [log EXCEPT !.calls = @ + 1, !.last = log.calls + 1, !.by = by, !.unheard = FALSE, !.late = FALSE]
Sends(a, kind) ==
  /\ app' = a /\ calls' = calls \cup {NewCall(kind, None)}
  /\ log' = [log EXCEPT !.calls = @ + 1, !.last = log.calls + 1]
handleToggleDictation ==
  /\ app.enabled /\ dictationReady
  /\ \/ app.shown = "listening" /\ Sends(app, "stop")
     \/ app.shown = "idle" /\ Starts(app, "button")
handleMicClick ==
  /\ Spend("clicks")
  /\ \/ app.shown = "processing" /\ Sends(app, "cancel")
     \/ app.shown # "processing" /\ handleToggleDictation
  /\ UNCHANGED <<mic, models, events>>
handleEscape ==
  /\ Spend("clicks") /\ app.shown \in {"listening", "processing"} /\ Sends(app, "cancel")
  /\ UNCHANGED <<mic, models, events>>

handleKeyDown ==
  /\ Spend("keys") /\ ~app.key
  /\ IF app.enabled /\ dictationReady /\ app.shown = "idle"
     THEN Starts([app EXCEPT !.key = TRUE, !.active = TRUE, !.pending = FALSE], "key")
     ELSE app' = [app EXCEPT !.key = TRUE] /\ UNCHANGED <<calls, log>>
  /\ UNCHANGED <<mic, models, events>>
\* Released before it listens, the key stops it when it does, for a while.
handleKeyUp ==
  /\ app.key
  /\ IF ~app.active THEN app' = [app EXCEPT !.key = FALSE] /\ UNCHANGED <<calls, log>>
     ELSE IF app.shown = "listening"
          THEN Sends([app EXCEPT !.key = FALSE, !.active = FALSE, !.pending = FALSE], "stop")
     ELSE app' = [app EXCEPT !.key = FALSE, !.active = FALSE, !.pending = TRUE] /\ UNCHANGED <<calls, log>>
  /\ UNCHANGED <<mic, models, events, left>>
GraceEnds ==
  /\ app.pending /\ app' = [app EXCEPT !.pending = FALSE] /\ log' = [log EXCEPT !.late = TRUE]
  /\ UNCHANGED <<mic, models, calls, events, left>>
handleBlur ==
  LET gone == [app EXCEPT !.key = FALSE, !.active = FALSE, !.pending = FALSE] IN
  /\ Spend("clicks") /\ app.active
  /\ IF app.shown = "listening" THEN Sends(gone, "cancel")
     ELSE app' = gone /\ log' = [log EXCEPT !.late = TRUE] /\ UNCHANGED calls
  /\ UNCHANGED <<mic, models, events>>

\* An event comes.  A text goes into the composer.
StopIsDue(seen) == app.pending /\ app.shown # "listening" /\ seen.shown = "listening"
Inserts(e) == log' = IF e.kind = "text" THEN [log EXCEPT !.inserted = @ \cup {e.val}] ELSE log
Hear ==
  LET e == Head(events)
      seen == [app EXCEPT !.shown = IF e.kind = "state" THEN e.val ELSE @, !.error = @ \/ e.kind = "error",
                          !.status = IF e.kind = "model" /\ e.val.of = app.model THEN e.val ELSE @] IN
  /\ events # <<>> /\ events' = Tail(events)
  /\ IF StopIsDue(seen) THEN Sends([seen EXCEPT !.pending = FALSE], "stop")
     ELSE app' = seen /\ Inserts(e) /\ UNCHANGED calls
  /\ UNCHANGED <<mic, models, left>>

(***************************************************************************)
(* The models, in the back end: a status, of whichever model was looked at *)
(* last, and the download that can be given up.                            *)
(***************************************************************************)
Status(state, of) == [state |-> state, of |-> of]
Stored(m, of) == Status(IF of \in m.files THEN "ready" ELSE "missing", of)
refresh(m, of) == IF m.status = Status("downloading", of) THEN m ELSE [m EXCEPT !.status = Stored(m, of)]
Answers(j, m) == (calls \ {j}) \cup {[j EXCEPT !.phase = "answered", !.got = m.status]}
Loads == {j \in calls : j.kind = "load"}
Lost(handle, except) == {j.of : j \in {x \in Loads : x.n = handle /\ x # except}}

dictation_model_status(j) ==
  LET m == refresh(models, j.of) IN
  /\ j.kind = "status" /\ j.phase = "first"
  /\ models' = m /\ calls' = Answers(j, m) /\ UNCHANGED <<mic, events, log>>
dictation_download_model(j) ==
  LET m == refresh(models, j.of)
      loading == Status("downloading", j.of)
      other == models.status.state = "downloading" /\ models.status.of # j.of IN
  /\ j.kind = "download" /\ UNCHANGED mic
  /\ \/ /\ j.phase = "first" /\ models' = m /\ UNCHANGED <<events, log>>
        /\ calls' = IF m.status \in {Status("ready", j.of), loading} THEN Answers(j, m)
                    ELSE (calls \ {j}) \cup {[j EXCEPT !.phase = "claim"]}
     \/ /\ j.phase = "claim" /\ Tells(<<Event("model", loading)>>)
        /\ models' = [models EXCEPT !.status = loading, !.handle = IF other THEN None ELSE @]
        /\ calls' = {x \in calls \ {j} : ~(other /\ x.kind = "load" /\ x.n = models.handle)}
                      \cup {[j EXCEPT !.phase = "spawn"]}
        /\ log' = [log EXCEPT !.dropped = @ \ {j.of}, !.ousted = @ \/ other]
     \/ /\ j.phase = "spawn" /\ models' = [m EXCEPT !.handle = j.n] /\ UNCHANGED events
        /\ calls' = Answers(j, m) \cup {[j EXCEPT !.kind = "load", !.phase = "working"]}
        /\ log' = [log EXCEPT !.lost = @ \cup Lost(models.handle, j)]
dictation_cancel_download(j) ==
  LET m == [models EXCEPT !.handle = None, !.status = Stored(models, j.of)] IN
  /\ j.kind = "abort" /\ j.phase = "first"
  /\ models' = m /\ Tells(<<Event("model", m.status)>>)
  /\ calls' = Answers(j, m) \ {x \in Loads : x.n = models.handle}
  /\ log' = [log EXCEPT !.dropped = @ \cup {j.of},
                        !.lost = @ \cup {x.of : x \in {y \in calls : y.phase = "spawn"}}]
  /\ UNCHANGED mic
dictation_remove_model(j) ==
  LET m == [models EXCEPT !.files = @ \ {j.of}, !.status = Status("missing", j.of)] IN
  /\ j.kind = "remove" /\ j.phase = "first"
  /\ models' = m /\ Tells(<<Event("model", m.status)>>) /\ calls' = Answers(j, m) /\ UNCHANGED <<mic, log>>
\* A download goes on, and ends: the handle is cleared, whosever it is.
update_status(j, state, m) ==
  models' = [m EXCEPT !.status = Status(state, j.of)] /\ Tells(<<Event("model", Status(state, j.of))>>)
LoadGoes(j, ok) ==
  /\ j.kind = "load" /\ UNCHANGED mic
  /\ \/ /\ ok /\ models.status # Status("downloading", j.of)
        /\ update_status(j, "downloading", models) /\ UNCHANGED <<calls, log>>
     \/ /\ update_status(j, IF ok THEN "ready" ELSE "error",
                         [models EXCEPT !.handle = None, !.files = IF ok THEN @ \cup {j.of} ELSE @])
        /\ calls' = calls \ {j} /\ log' = [log EXCEPT !.lost = @ \cup Lost(models.handle, j)]

(***************************************************************************)
(* The session, in the back end.  A capture has the number of its start.   *)
(***************************************************************************)
Past(j) == j.kind \in {"start", "stop", "cancel"} /\ j.phase # "first"
Goes(j, phase) == calls' = (calls \ {j}) \cup {[j EXCEPT !.phase = phase]}
Refused(j) == calls' = calls \ {j} /\ Tells(Failed) /\ UNCHANGED <<mic, models>>
dictation_start(j, ok) ==
  LET m == refresh(models, app.model)
      unheard == [log EXCEPT !.unheard = TRUE] IN
  /\ j.kind = "start"
  /\ \/ /\ j.phase = "first" /\ ok /\ models' = m /\ UNCHANGED mic
        /\ IF m.status.state = "ready" /\ mic.state = "idle"
           THEN /\ Goes(j, "opening") /\ UNCHANGED events
                /\ log' = [log EXCEPT !.crossed = @ \/ j.n # log.last \/ \E x \in calls : Past(x)]
           ELSE calls' = calls \ {j} /\ Tells(Failed) /\ log' = unheard
     \* The user may not allow it, or there is no microphone.
     \/ /\ j.phase = "opening" /\ ~ok /\ Refused(j) /\ log' = unheard
     \/ /\ j.phase = "opening" /\ ok /\ Goes(j, "ready") /\ mic' = [mic EXCEPT !.runs = @ \cup {j.n}]
        /\ UNCHANGED <<models, events, log>>
     \/ /\ j.phase = "ready" /\ ok /\ calls' = calls \ {j} /\ Tells(<<InState("listening")>>)
        /\ mic' = [mic EXCEPT !.state = "listening", !.session = j.n] /\ UNCHANGED <<models, log>>
\* What was said is written down after the stop, unless it is cancelled before
\* there is a result; in the end the session is idle, whatever it is by then.
dictation_stop(j, ok) ==
  /\ j.kind = "stop" /\ UNCHANGED models
  /\ \/ /\ j.phase = "first" /\ ok /\ mic.state = "listening"
        /\ mic' = [mic EXCEPT !.state = "processing", !.flag = j.n, !.session = None]
        /\ calls' = (calls \ {j}) \cup {[j EXCEPT !.phase = "stopping", !.of = mic.session]}
        /\ Tells(<<InState("processing")>>) /\ log' = [log EXCEPT !.stopped = @ \cup {mic.session}]
     \/ j.phase = "first" /\ ok /\ mic.state # "listening" /\ Refused(j) /\ UNCHANGED log
     \/ /\ j.phase = "stopping" /\ ok /\ Goes(j, "working") /\ mic' = [mic EXCEPT !.runs = @ \ {j.of}]
        /\ UNCHANGED <<events, log>>
     \* Whether it was cancelled is not asked when the model cannot be loaded.
     \/ /\ j.phase = "working" /\ UNCHANGED mic
        /\ IF ok /\ j.n \in log.cancels THEN calls' = calls \ {j} /\ UNCHANGED <<events, log>>
           ELSE /\ Goes(j, "ending") /\ Tells(IF ok THEN <<Event("text", j.of)>> ELSE Failed)
                /\ log' = [log EXCEPT !.tooLate = @ \/ j.n \in log.cancels]
     \/ /\ j.phase = "ending" /\ ok /\ calls' = calls \ {j} /\ Tells(<<InState("idle")>>)
        /\ mic' = [mic EXCEPT !.state = "idle", !.flag = IF @ = j.n THEN None ELSE @] /\ UNCHANGED log
Stops == {j \in calls : j.kind = "stop"}
Dropped == <<InState("idle"), Event("canceled", None)>>
dictation_cancel(j) ==
  /\ j.kind = "cancel" /\ UNCHANGED models
  /\ \/ /\ j.phase = "first" /\ mic.state = "processing"
        /\ mic' = [mic EXCEPT !.state = "idle", !.flag = None] /\ calls' = calls \ {j} /\ Tells(Dropped)
        /\ log' = [log EXCEPT !.cancels = @ \cup ({mic.flag} \ {None}),
                              !.unwanted = @ \cup {x.of : x \in {y \in Stops : y.phase \in {"stopping", "working"}}},
                              !.tooLate = @ \/ \E x \in Stops : x.phase = "ending"]
     \/ j.phase = "first" /\ mic.state # "processing" /\ Goes(j, "second") /\ UNCHANGED <<mic, events, log>>
     \/ /\ j.phase = "second" /\ mic.state = "listening" /\ mic' = [mic EXCEPT !.state = "idle", !.session = None]
        /\ calls' = (calls \ {j}) \cup {[j EXCEPT !.phase = "stopping", !.of = mic.session]}
        /\ log' = [log EXCEPT !.unwanted = @ \cup {mic.session}] /\ UNCHANGED events
     \/ j.phase = "second" /\ mic.state # "listening" /\ Refused(j) /\ UNCHANGED log
     \/ /\ j.phase = "stopping" /\ calls' = calls \ {j} /\ mic' = [mic EXCEPT !.runs = @ \ {j.of}]
        /\ Tells(Dropped) /\ UNCHANGED log
\* The microphone breaks: its capture ends, and so does the session.
MicFails(n) ==
  /\ Spend("fails") /\ mic' = [mic EXCEPT !.runs = @ \ {n}] /\ Tells(Failed)
  /\ Calls("broken", n) /\ UNCHANGED <<app, models>>
Broken(j) ==
  /\ j.kind = "broken" /\ calls' = calls \ {j} /\ UNCHANGED models
  /\ IF mic.state = "idle" THEN UNCHANGED <<mic, events, log>>
     ELSE /\ mic' = [mic EXCEPT !.state = "idle", !.session = None] /\ Tells(<<InState("idle")>>)
          /\ log' = [log EXCEPT !.broke = TRUE, !.crossed = @ \/ mic.session # j.of]

(***************************************************************************)
(* The settings.                                                           *)
(***************************************************************************)
ToggleEnabled ==
  LET kind == CASE app.enabled /\ app.status.state = "downloading" -> "abort"
                [] ~app.enabled /\ app.status.state = "missing" -> "download"
                [] OTHER -> None IN
  /\ Spend("models") /\ app' = [app EXCEPT !.enabled = ~@]
  /\ IF kind = None THEN UNCHANGED <<calls, log>> ELSE Calls(kind, app.model)
  /\ UNCHANGED <<mic, models, events>>
SelectModel(to) ==
  /\ Spend("models") /\ to # app.model /\ app' = [app EXCEPT !.model = to, !.watch = log.calls + 1]
  /\ Calls("status", to) /\ UNCHANGED <<mic, models, events>>
Buttons == ("missing" :> "download") @@ ("downloading" :> "abort") @@ ("ready" :> "remove")
ModelButton(kind) ==
  /\ Spend("models") /\ app.status.state \in DOMAIN Buttons /\ Buttons[app.status.state] = kind
  /\ Calls(kind, app.model) /\ UNCHANGED <<app, mic, models, events>>
\* Only the answer to the choice of a model is dropped when another is chosen.
Answered(j) ==
  LET drop == j.kind = "status" /\ j.n # app.watch IN
  /\ j.phase = "answered" /\ calls' = calls \ {j}
  /\ app' = IF drop THEN app ELSE [app EXCEPT !.status = j.got]
  /\ log' = IF drop THEN log ELSE [log EXCEPT !.astray = (j.kind # "status" /\ j.of # app.model) \/ j.got # models.status]
  /\ UNCHANGED <<mic, models, events, left>>

----------------------------------------------------------------------------
Init ==
  /\ app = [enabled |-> TRUE, model |-> First,
            status |-> Status(IF First \in Files THEN "ready" ELSE "missing", First),
            watch |-> 0,      \* the look at the model chosen
            shown |-> "idle", \* the state of the session
            error |-> FALSE,  \* whether an error is shown
            key |-> FALSE,    \* whether the key is held
            active |-> FALSE, pending |-> FALSE] \* holdDictationActive, holdDictationStopPending
  /\ mic = [state |-> "idle", session |-> None, \* the capture
            flag |-> None, \* the stop that can be cancelled
            runs |-> {}]   \* the captures that run
  /\ models = [files |-> Files, status |-> Status(IF First \in Files THEN "ready" ELSE "missing", First),
               handle |-> None] \* the download that can be given up
  /\ calls = {} /\ events = <<>>
  /\ log = [calls |-> 0,
            by |-> None,        \* what the last start was pressed with
            late |-> FALSE,     \* whether its key was released and forgotten
            unheard |-> FALSE,  \* whether a start failed since the last was pressed
            last |-> 0,         \* the last command of the session that was pressed
            crossed |-> FALSE,  \* whether a start was let in beside another command, or a
                                \* microphone broke that was not the session's any more
            broke |-> FALSE,    \* whether it broke while it was in use
            cancels |-> {},     \* the stops that were cancelled
            tooLate |-> FALSE,  \* when there was a result already, or no model to have one
            stopped |-> {}, unwanted |-> {}, inserted |-> {}, \* captures
            dropped |-> {},     \* models whose download was given up
            lost |-> {},        \* and those with a download that cannot be
            ousted |-> FALSE,   \* whether a download was ended by that of another model
            astray |-> FALSE]   \* whether the last answer was of another model, or no longer true
  /\ left \in Budgets

Next ==
  \/ handleMicClick \/ handleEscape \/ handleKeyDown \/ handleKeyUp \/ GraceEnds \/ handleBlur
  \/ Hear \/ ToggleEnabled
  \/ \E m \in Model : SelectModel(m)
  \/ \E kind \in {"download", "abort", "remove"} : ModelButton(kind)
  \/ \E n \in mic.runs : MicFails(n)
  \/ \E j \in calls :
       \/ Answered(j)
       \/ /\ \/ dictation_model_status(j) \/ dictation_download_model(j) \/ dictation_cancel_download(j)
             \/ dictation_remove_model(j) \/ dictation_cancel(j) \/ Broken(j)
          /\ UNCHANGED <<app, left>>
       \/ \E ok \in BOOLEAN :
            /\ dictation_start(j, ok) \/ dictation_stop(j, ok) \/ LoadGoes(j, ok)
            /\ MaySpend(ok) /\ UNCHANGED app

Spec == Init /\ [][Next]_vars

----------------------------------------------------------------------------
\* The microphone listens for the session, or a command that opens or closes
\* it; the session says what it is, and no start was let in beside another
\* command.
MicIsHeld ==
  log.crossed \/ log.tooLate \/
  /\ mic.runs \subseteq {mic.session} \cup {j.n : j \in {x \in calls : x.kind = "start"}}
                                     \cup {j.of : j \in {x \in calls : x.phase = "stopping"}}
  /\ mic.state = "listening" <=> mic.session # None

\* A text that comes was said before a stop, that was not cancelled before
\* there was a result, when one dictation goes on at a time.
TextIsWanted == log.inserted \subseteq log.stopped /\ (log.crossed \/ log.inserted \cap log.unwanted = {})

\* A start that fails is told of.
FailureIsTold == log.unheard /\ events = <<>> => app.error

\* A dictation started with the key does not listen on when it is released,
\* but for a release that was forgotten before it listened.
Quiet == events = <<>> /\ calls = Loads
KeyStopsIt ==
  Quiet /\ app.shown = "listening" /\ ~app.active => log.by # "key" \/ log.late \/ log.broke \/ log.crossed

\* What is shown is so when all is told, but for what is heard of a download
\* after that of another model ended it.
ShownIsSo ==
  Quiet => /\ app.shown = mic.state \/ log.crossed \/ log.tooLate
           /\ \/ log.astray
              \/ /\ app.status.of = app.model
                 /\ app.status.state = "ready" => app.model \in models.files
                 /\ app.status.state = "downloading" => log.ousted \/ \E j \in Loads : j.of = app.model

\* What was given up is not downloaded, but for a download that was lost.
CancelEndsDownload == \A j \in Loads : j.of \in log.dropped => j.of \in log.lost

\* What goes on is under way.
ProcessingIsUnderWay ==
  mic.state = "processing" => \E j \in calls : j.kind = "stop" /\ j.phase # "first"
=============================================================================
