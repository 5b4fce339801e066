----------------------------- MODULE ThreadTurns -----------------------------
(***************************************************************************)
(* The turns of the threads of one workspace, as the window drives and     *)
(* follows them: the composer and its queue (useQueuedSend.ts), the        *)
(* requests that start, steer, review and stop a turn                      *)
(* (useThreadMessaging.ts), the resume that reads a thread again           *)
(* (useThreadActions.ts), and the handlers of the server's notifications   *)
(* (useThreadTurnEvents.ts, useThreadItemEvents.ts).                       *)
(*                                                                         *)
(* A dispatch changes the store at once, but a callback or an effect reads *)
(* the store of the last render (seen).  A request and its answer are two  *)
(* steps, and a notification written after an answer may be handled before *)
(* it: lead bounds by how many.  The app-server is the environment.        *)
(***************************************************************************)
EXTENDS ThreadStore, SequencesExt

CONSTANTS
  Workspace,       \* the workspace on screen
  Messages,        \* what the user types, each submitted once
  Scenes,          \* what the user types and how the app is set up, see below
  MaxTurns,        \* bound: turns the server starts
  Batch,           \* bound: answers and notifications handled between renders
  Lead,            \* bound: notifications that overtake an answer
  MaxWire          \* bound: what the server has written when it writes more

(***************************************************************************)
(* A scene: what each message is ("text", "command", "review", "new" for a *)
(* new thread, "broken" for a prompt that does not expand); whether the    *)
(* Codex configuration allows turn/steer; the followUpMessageBehavior and  *)
(* reviewDeliveryMode settings; whether the server tells of a thread's     *)
(* status, before or after what changes it; and the bounds: how often the  *)
(* user stops the thread and reads one, how many requests fail, and how    *)
(* often the agent asks, starts an item or leaves the server's memory.     *)
(***************************************************************************)
Scene ==
  [kind : [Messages -> {"text", "command", "review", "new", "broken"}],
   steer : BOOLEAN, followUp : {"queue", "steer"}, detached : BOOLEAN,
   tells : {"nothing", "before", "after"},
   stops : Nat, reads : Nat, faults : Nat, asks : Nat]

ASSUME TurnsAssumption ==
  /\ Workspace \in Workspaces
  /\ Threads # {}
  /\ None \notin Messages
  /\ Scenes \subseteq Scene
  /\ {MaxTurns, Batch, Lead, MaxWire} \subseteq Nat

VARIABLES
  store,      \* the reducer's state
  queued,     \* queuedByThread
  inFlight,   \* inFlightByThread
  started,    \* hasStartedByThread
  seen,       \* what the last render saw of the four above
  effects,    \* the effects of that render have not run yet
  handled,    \* answers and notifications handled since that render
  known,      \* the optimistic turn ids of useThreadTurnEvents
  pending,    \* pendingInterruptsRef
  loaded,     \* loadedThreadsRef
  calls,      \* calls that wait for something
  server,     \* the app-server: its turns, what it wrote and was asked
  drafts,     \* messages not submitted yet
  fate,       \* history: what became of the submitted ones
  stops,      \* history: stops, what they named and what was stopped; whether a
              \* start failed (void), threads whose failed start left a stop behind
              \* (owed) and the turns that one ended instead (misled), threads
              \* left with a mark nothing clears (stray)
  scene       \* the scene, its bounds counting down

queue == <<queued, inFlight, started>>
view == <<seen, effects, handled>>
refs == <<known, pending, loaded>>
ghosts == <<drafts, fate, stops, scene>>
vars == <<store, queue, view, refs, calls, server, ghosts>>

TurnIds == 1..MaxTurns
Turn == TurnIds \cup {None}
Open == seen.store.active[Workspace]
Processing(t) == seen.store.status[t].processing
Reviewing(t) == seen.store.status[t].reviewing

(***************************************************************************)
(* What a render hands to callbacks and effects.  Requests issued before   *)
(* it are on their way by then: the round trip to the server is longer     *)
(* than a render.                                                          *)
(***************************************************************************)
Now == [store |-> store, queued |-> queued, inFlight |-> inFlight, started |-> started]

Departs(c) ==
  [c EXCEPT !.stage = CASE @ = "opening" -> "ensure" [] @ = "issued" -> "sent" [] OTHER -> @]

Render ==
  /\ ~effects
  /\ handled > 0 \/ seen # Now \/ \E i \in DOMAIN calls : Departs(calls[i]) # calls[i]
  /\ seen' = Now
  /\ effects' = TRUE
  /\ handled' = 0
  /\ calls' = [i \in DOMAIN calls |-> Departs(calls[i])]
  /\ UNCHANGED <<store, queue, refs, server, ghosts>>

(***************************************************************************)
(* Sending (useThreadMessaging.ts).  A call keeps what the closure it runs *)
(* in captured: the open thread's status and turn when it was created.     *)
(***************************************************************************)
Call(op, m, from, t) ==
  [op |-> op, msg |-> m, from |-> from, home |-> t, thread |-> t, stage |-> "opening",
   processing |-> t # None /\ Processing(t),
   turn |-> IF t = None THEN None ELSE seen.store.turn[t],
   intent |-> "default", steer |-> FALSE, filled |-> FALSE, answer |-> None]

CanSteer(processing, turn) == processing /\ scene.steer /\ turn # None

\* pushThreadErrorMessage: an item in the thread, and a mark if it is not open.
Told(s, t) ==
  LET filled == FillItems(s, t) IN IF t = Open THEN filled ELSE MarkUnread(filled, t, TRUE)

\* sendMessageToThread up to its request: the thread shows as processing
\* before anything is sent.
Issued(c, t) ==
  [c EXCEPT !.thread = t, !.stage = "issued",
            !.steer = /\ c.intent # "queue" /\ t = c.home
                      /\ CanSteer(c.processing, c.turn)]
Begun(s, t) ==
  MarkProcessing(SetThreadTimestamp(s, Workspace, t, 1, TRUE), t, TRUE, 1)

(***************************************************************************)
(* The call runs until it has to wait: for the thread to be started or     *)
(* read (ensureThreadForActiveWorkspace), or for its own request.  A       *)
(* custom prompt that does not expand ends it with a row in the thread.    *)
(***************************************************************************)
ToldOf(m) == fate' = [fate EXCEPT ![m] = "told"]

Send(m, from, intent) ==
  LET c == [Call("send", m, from, Open) EXCEPT !.intent = intent]
  IN IF scene.kind[m] = "broken"
       THEN /\ store' = IF Open = None THEN store ELSE Told(store, Open)
            /\ ToldOf(m)
            /\ UNCHANGED calls
       ELSE /\ UNCHANGED fate
            /\ IF Open # None /\ Open \in loaded
                 THEN /\ calls' = Append(calls, Issued(c, Open))
                      /\ store' = Begun(store, Open)
                 ELSE /\ calls' = Append(calls, c)
                      /\ UNCHANGED store

\* runSlashCommand: "command" stands for /status, /mcp, /apps, /fast, /fork,
\* /resume and /compact, which start no turn of the thread; "new" starts a
\* thread and sends the rest of the line there.
Reviewed(s, t) ==
  IF scene.detached THEN s ELSE MarkReviewing(MarkProcessing(s, t, TRUE, 1), t, TRUE)

Slash(m, from) ==
  LET c == Call(scene.kind[m], m, from, Open)
      ready == c.op = "review" /\ Open # None /\ Open \in loaded
  IN /\ calls' = Append(calls, [c EXCEPT
                    !.stage = IF c.op = "command" THEN "sent"
                              ELSE IF ready THEN "issued" ELSE @,
                    !.thread = IF c.op = "new" THEN None ELSE @])
     /\ store' = IF ready THEN Reviewed(store, Open) ELSE store
     /\ UNCHANGED fate

Run(m, from, intent) ==
  IF scene.kind[m] \in {"command", "review", "new"} THEN Slash(m, from) ELSE Send(m, from, intent)

(***************************************************************************)
(* The composer (useQueuedSend.ts): handleSend, queueMessage, and the      *)
(* removal of a queued message.  The composer is disabled during a review. *)
(***************************************************************************)
EffectiveIntent(submit) ==
  LET steerable == Open # None /\ CanSteer(Processing(Open), seen.store.turn[Open])
  IN IF Open = None \/ ~Processing(Open) THEN "default"
     ELSE IF submit # "queue" /\ (submit = "steer" \/ scene.followUp = "steer") /\ steerable
       THEN "steer"
       ELSE "queue"

Submittable(m) == m \in drafts /\ ~(Open # None /\ Reviewing(Open))

HandleSend(m, submit) ==
  /\ Submittable(m)
  /\ drafts' = drafts \ {m}
  /\ IF EffectiveIntent(submit) = "queue"
       THEN /\ queued' = [queued EXCEPT ![Open] = Append(@, m)]
            /\ UNCHANGED <<store, calls, fate>>
       ELSE /\ Run(m, "composer", EffectiveIntent(submit))
            /\ UNCHANGED queued
  /\ UNCHANGED <<inFlight, started, view, refs, server, stops, scene>>

QueueMessage(m) ==
  /\ Submittable(m)
  /\ Open # None
  /\ drafts' = drafts \ {m}
  /\ queued' = [queued EXCEPT ![Open] = Append(@, m)]
  /\ UNCHANGED <<store, inFlight, started, view, refs, calls, server, fate, stops, scene>>

\* A message is in a queue once: what the code filters out by id is its row.
RemoveQueuedMessage(m) ==
  /\ Open # None
  /\ Contains(seen.queued[Open], m)
  /\ queued' = [queued EXCEPT ![Open] = RemoveFirst(@, m)]
  /\ fate' = [fate EXCEPT ![m] = "removed"]
  /\ UNCHANGED <<store, inFlight, started, view, refs, calls, server, drafts, stops, scene>>

(***************************************************************************)
(* The two effects of useQueuedSend, which run once per render on what it  *)
(* saw.  Only the open thread's queue moves, one message at a time: the    *)
(* next is not sent before the thread was seen to process the last and     *)
(* then to be done with it.  Questions of the agent pause it.              *)
(***************************************************************************)
Busy == Open # None /\ (Processing(Open) \/ Reviewing(Open))
FlushPaused == \E i \in DOMAIN seen.store.inputs : seen.store.inputs[i].thread = Open

\* Mutant: what was in flight is forgotten only while the thread is busy.
TrackInFlightForgetsStart ==
  /\ effects /\ effects' = FALSE
  /\ Open # None /\ seen.inFlight[Open] # None
  /\ started' = [started EXCEPT ![Open] = Busy]
  /\ UNCHANGED <<store, queued, inFlight, seen, handled, refs, calls, server, ghosts>>

TrackInFlight ==
  /\ effects /\ effects' = FALSE
  /\ Open # None /\ seen.inFlight[Open] # None
  /\ IF Busy
       THEN started' = [started EXCEPT ![Open] = TRUE] /\ UNCHANGED inFlight
       ELSE /\ started' = [started EXCEPT ![Open] = FALSE]
            /\ inFlight' = [inFlight EXCEPT ![Open] = IF seen.started[Open] THEN None ELSE @]
  /\ UNCHANGED <<store, queued, seen, handled, refs, calls, server, ghosts>>

MayFlush ==
  /\ Open # None
  /\ ~Busy
  /\ ~FlushPaused
  /\ seen.inFlight[Open] = None
  /\ seen.queued[Open] # <<>>

FlushNext ==
  /\ effects /\ effects' = FALSE
  /\ MayFlush
  /\ LET m == Head(seen.queued[Open])
     IN /\ inFlight' = [inFlight EXCEPT ![Open] = m]
        /\ started' = [started EXCEPT ![Open] = FALSE]
        /\ queued' = [queued EXCEPT ![Open] = IF @ = <<>> THEN @ ELSE Tail(@)]
        /\ Run(m, "queue", "default")
  /\ UNCHANGED <<seen, handled, refs, server, drafts, stops, scene>>

NoEffect ==
  /\ effects /\ effects' = FALSE
  /\ ~MayFlush
  /\ Open # None => seen.inFlight[Open] = None
  /\ UNCHANGED <<store, queue, seen, handled, refs, calls, server, ghosts>>

\* The catch of the flush: the message goes back to the front of its queue.
GiveBack(c) ==
  /\ queued' = [queued EXCEPT ![c.home] = <<c.msg>> \o @]
  /\ inFlight' = [inFlight EXCEPT ![c.home] = None]
  /\ started' = [started EXCEPT ![c.home] = FALSE]

(***************************************************************************)
(* The user stops the open thread, opens another, reads it again, answers  *)
(* a question.                                                             *)
(***************************************************************************)
InterruptTurn ==
  /\ Open # None /\ Processing(Open)
  /\ scene.stops > 0
  /\ scene' = [scene EXCEPT !.stops = @ - 1]
  /\ LET turn == seen.store.turn[Open]
         open == {c \in ToSet(calls) : c.op \in {"send", "review"} /\ c.thread = Open}
     IN /\ store' = FillItems(SetActiveTurnId(MarkProcessing(store, Open, FALSE, 1), Open, None), Open)
        /\ pending' = IF turn = None THEN pending \cup {Open} ELSE pending
        /\ calls' = Append(calls, [Call("stop", None, "user", Open) EXCEPT !.stage = "issued"])
        /\ stops' = [stops EXCEPT !.used = TRUE,
                                  !.wanted = @ \cup ({turn, server.turn[Open]} \ {None}),
                                  !.doomed = @ \cup {c.msg : c \in open},
                                  !.owed = @ \ {Open}]
  /\ UNCHANGED <<queue, view, known, loaded, server, drafts, fate>>

\* resumeThreadForWorkspace as the selection of a thread without a local
\* snapshot calls it, and as refreshThread does (force, and replace the items).
Read(t, replace) ==
  [Call("read", None, IF replace THEN "refresh" ELSE "select", t)
     EXCEPT !.filled = ~replace /\ t \in seen.store.filled]

SelectThread(t) ==
  /\ t \in ListIds(seen.store, Workspace) /\ t # Open
  /\ scene.reads > 0
  /\ scene' = [scene EXCEPT !.reads = @ - 1]
  /\ store' = LET opened == SetActiveThreadId(store, Workspace, t)
              IN IF t \in loaded \cup seen.store.filled THEN opened
                 ELSE SetResumeLoading(opened, t, TRUE)
  /\ IF t \in loaded \cup seen.store.filled
       THEN loaded' = loaded \cup {t} /\ UNCHANGED calls
       ELSE calls' = Append(calls, Read(t, FALSE)) /\ UNCHANGED loaded
  /\ UNCHANGED <<queue, view, known, pending, server, drafts, fate, stops>>

RefreshThread(t) ==
  /\ t \in ListIds(seen.store, Workspace)
  /\ scene.reads > 0
  /\ scene' = [scene EXCEPT !.reads = @ - 1]
  /\ store' = SetResumeLoading(store, t, TRUE)
  /\ calls' = Append(calls, Read(t, TRUE))
  /\ UNCHANGED <<queue, view, refs, server, drafts, fate, stops>>

\* handleUserInputSubmit: the request leaves the store once the server has
\* the answer.
SubmitUserInput(r) ==
  /\ Contains(seen.store.inputs, r)
  /\ \A i \in DOMAIN calls : calls[i].op # "reply"
  /\ calls' = Append(calls, [Call("reply", None, "user", r.thread) EXCEPT
                               !.turn = r.turn, !.stage = "issued"])
  /\ UNCHANGED <<store, queue, view, refs, server, ghosts>>

(***************************************************************************)
(* The app-server (external).  Its answers and notifications leave in one  *)
(* order; it answers a call once, with an error when one is left in the    *)
(* scene.                                                                 *)
(***************************************************************************)
Note(type, t, turn) == [type |-> type, thread |-> t, turn |-> turn]
Reply(c, ok, turn) ==
  [type |-> "answer", passed |-> 0, call |-> c, ok |-> ok, turn |-> turn, child |-> c.thread,
   review |-> c.thread # None /\ server.review[c.thread],
   sure |-> c.thread \in server.ran, stale |-> FALSE]

Serve(c, state, notes) ==
  /\ \E i \in DOMAIN calls :
       /\ calls[i] = c
       /\ \A j \in 1..(i - 1) : calls[j].stage # "sent" \/ calls[j].thread # c.thread
       /\ calls' = RemoveAt(calls, i)
  /\ server' = [state EXCEPT !.wire = @ \o notes]
  /\ UNCHANGED <<store, queue, view, refs, drafts>>

\* A turn that runs is replaced: it ends before the next one starts.
StartTurn(t) == [server EXCEPT !.turn[t] = server.next, !.next = @ + 1, !.asking[t] = FALSE]
\* thread/status/changed: a turn that starts or asks makes the thread active, its
\* end idle (or systemError, which is handled alike), its unloading notLoaded.
WithStatus(status, note) ==
  LET told == Note(status, note.thread, None)
  IN CASE scene.tells = "before" -> <<told, note>>
       [] scene.tells = "after" -> <<note, told>>
       [] OTHER -> <<note>>

Ended(t) ==
  (IF server.review[t] THEN <<Note("exited", t, None)>> ELSE <<>>)
    \o (IF server.turn[t] = None THEN <<>>
        ELSE WithStatus("idle", Note("turn/completed", t, server.turn[t])))

Fresh == CHOOSE t \in Threads : t \notin server.threads

\* The turn of a message the user stopped before it started is wanted too.
Accepted(c) ==
  /\ fate' = [fate EXCEPT ![c.msg] = "accepted"]
  /\ stops' = IF c.msg \in stops.doomed
                THEN [stops EXCEPT !.wanted = @ \cup {server.next}] ELSE stops

ServeThread(c) ==
  /\ c.stage = "ensure" /\ c.thread = None
  /\ server.threads # Threads
  /\ LET t == Fresh IN
       Serve(c, [server EXCEPT !.threads = @ \cup {t}],
             <<Reply([c EXCEPT !.thread = t, !.stage = "opened"], TRUE, None),
               Note("thread/started", t, None)>>)
  /\ UNCHANGED <<fate, stops, scene>>

ServeRead(c) ==
  /\ c.stage = "ensure" /\ c.thread # None
  /\ Serve(c, server, <<Reply(c, TRUE, server.turn[c.thread])>>)
  /\ UNCHANGED <<fate, stops, scene>>

ServeSend(c) ==
  /\ c.op = "send" /\ c.stage = "sent" /\ ~c.steer
  /\ server.next <= MaxTurns
  /\ Serve(c, [StartTurn(c.thread) EXCEPT !.review[c.thread] = FALSE],
           <<Reply(c, TRUE, server.next)>> \o Ended(c.thread)
             \o WithStatus("active", Note("turn/started", c.thread, server.next)))
  /\ Accepted(c)
  /\ UNCHANGED scene

ServeSteer(c) ==
  /\ c.op = "send" /\ c.stage = "sent" /\ c.steer
  /\ IF server.turn[c.thread] = c.turn
       THEN /\ Serve(c, server, <<Reply(c, TRUE, c.turn)>>)
            /\ fate' = [fate EXCEPT ![c.msg] = "accepted"]
       ELSE /\ Serve(c, server, <<[Reply(c, FALSE, None) EXCEPT !.stale = TRUE]>>)
            /\ UNCHANGED fate
  /\ UNCHANGED <<stops, scene>>

ServeStop(c) ==
  /\ c.op = "stop" /\ c.stage = "sent"
  /\ LET t == c.thread
     IN IF c.turn # None /\ server.turn[t] = c.turn
          THEN /\ Serve(c, [server EXCEPT !.turn[t] = None, !.review[t] = FALSE,
                                          !.asking[t] = FALSE, !.ran = @ \cup {t}],
                        <<Reply(c, TRUE, None)>> \o Ended(t))
               /\ stops' = [stops EXCEPT !.hit = @ \cup {c.turn}]
          ELSE Serve(c, server, <<Reply(c, FALSE, None)>>) /\ UNCHANGED stops
  /\ UNCHANGED <<fate, scene>>

\* A detached review runs in a thread of its own.
ServeReview(c) ==
  /\ c.op = "review" /\ c.stage = "sent"
  /\ server.next <= MaxTurns
  /\ scene.detached => server.threads # Threads
  /\ LET t == IF scene.detached THEN Fresh ELSE c.thread
         r == [Reply(c, TRUE, server.next) EXCEPT !.child = t]
       IN Serve(c, [StartTurn(t) EXCEPT !.review[t] = TRUE, !.threads = @ \cup {t}],
                <<r>> \o Ended(t)
                  \o WithStatus("active", Note("turn/started", t, server.next))
                  \o <<Note("entered", t, server.next)>>)
  /\ Accepted(c)
  /\ UNCHANGED scene

ServeCommand(c) ==
  /\ c.op = "command" /\ c.stage = "sent"
  /\ Serve(c, server, <<Reply(c, TRUE, None)>>)
  /\ fate' = [fate EXCEPT ![c.msg] = "accepted"]
  /\ UNCHANGED <<stops, scene>>

ServeReply(c) ==
  /\ c.op = "reply" /\ c.stage = "sent"
  /\ Serve(c, IF server.turn[c.thread] = c.turn
                THEN [server EXCEPT !.asking[c.thread] = FALSE] ELSE server,
           <<Reply(c, TRUE, c.turn)>>)
  /\ UNCHANGED <<fate, stops, scene>>

ServeFault(c) ==
  /\ c.stage \in {"ensure", "sent"}
  /\ IF c.stage = "sent" /\ c.op \in {"send", "review"} /\ server.next > MaxTurns
       THEN UNCHANGED scene
       ELSE scene.faults > 0 /\ scene' = [scene EXCEPT !.faults = @ - 1]
  /\ Serve(c, server, <<Reply(c, FALSE, None)>>)
  /\ stops' = [stops EXCEPT !.void = @ \/ c.op = "review" \/ (c.op = "send" /\ ~c.steer)]
  /\ UNCHANGED fate

Emit(state, notes) ==
  /\ server' = [state EXCEPT !.wire = @ \o notes]
  /\ UNCHANGED <<store, queue, view, refs, calls, drafts, fate, stops>>

ServerWorks(t) ==
  /\ server.turn[t] # None /\ scene.asks > 0
  /\ scene' = [scene EXCEPT !.asks = @ - 1]
  /\ \/ Emit(server, <<Note("item/started", t, None)>>)
     \/ /\ ~server.asking[t]
        /\ Emit([server EXCEPT !.asking[t] = TRUE],
                WithStatus("active", Note("ask", t, server.turn[t])))

\* A turn lasts until the window has shown it, when nothing went wrong.
ServerEnds(t) ==
  /\ server.turn[t] # None /\ ~server.asking[t]
  /\ (Processing(t) /\ seen.store.turn[t] = server.turn[t]) \/ stops.used \/ stops.void
  /\ LET over == [server EXCEPT !.turn[t] = None, !.review[t] = FALSE, !.ran = @ \cup {t}]
     IN \/ Emit(over, Ended(t)) /\ UNCHANGED scene
        \/ /\ scene.faults > 0
           /\ scene' = [scene EXCEPT !.faults = @ - 1]
           /\ Emit(over, <<Note("error", t, server.turn[t])>> \o Ended(t))

\* An idle thread may leave the server's memory.
ServerUnloads(t) ==
  /\ t \in server.ran /\ server.turn[t] = None /\ scene.asks > 0
  /\ scene' = [scene EXCEPT !.asks = @ - 1]
  /\ Emit(server, WithStatus("notLoaded", Note("thread/closed", t, None)))

(***************************************************************************)
(* Answers, in the order the server gave them.                             *)
(***************************************************************************)
Handles ==
  /\ handled < Batch
  /\ handled' = handled + 1
  /\ UNCHANGED <<seen, effects>>

Leading(i) == \A j \in 1..(i - 1) : server.wire[j].type = "answer"

TakeAny(i) ==
  /\ i = 1 /\ server.wire[i].type = "answer"
  /\ server' = [server EXCEPT !.wire = RemoveAt(@, i)]
  /\ Handles
  /\ UNCHANGED <<known, pending, drafts, scene>>
Take(i) == TakeAny(i) /\ UNCHANGED stops

\* The thread is there: the call goes on with what its closure captured.  A
\* thread started for the call is not in that closure.
GoOn(c, t, s) ==
  CASE c.op \in {"send", "new"} ->
         /\ calls' = Append(calls, Issued([c EXCEPT !.op = "send"], t))
         /\ store' = Begun(s, t)
    [] c.op = "review" ->
         /\ calls' = Append(calls, [c EXCEPT !.thread = t, !.stage = "issued"])
         /\ store' = Reviewed(s, t)
    [] OTHER -> UNCHANGED calls /\ store' = s

\* startThreadForWorkspace: the new thread is listed, opened and loaded.  An
\* error is thrown on: the composer's message is gone, the queue takes it back.
\* An answer without an id throws nothing: the message is gone in either case.
ThreadAnswer(i) ==
  LET a == server.wire[i]  t == a.call.thread IN
  /\ a.call.stage = "opened"
  /\ Take(i)
  /\ loaded' = loaded \cup {t}
  /\ GoOn(a.call, t, SetActiveThreadId(EnsureThread(store, Workspace, t), Workspace, t))
  /\ UNCHANGED <<queue, fate>>

ThreadFailed(i) ==
  LET a == server.wire[i] IN
  /\ a.call.stage = "ensure" /\ a.call.thread = None
  /\ Take(i)
  /\ \/ a.call.from = "queue" /\ GiveBack(a.call) /\ UNCHANGED fate
     \/ fate' = [fate EXCEPT ![a.call.msg] = "unstarted"] /\ UNCHANGED queue
  /\ UNCHANGED <<store, loaded, calls>>

\* Mutant: a thread that was read again is idle.
ResumedIdle(s, a) ==
  LET t == a.call.thread
      ensured == EnsureThread(s, Workspace, t)
  IN IF a.call.filled THEN ensured
     ELSE MarkReviewing(SetActiveTurnId(MarkProcessing(ensured, t, FALSE, 1), t, None), t, a.review)

(***************************************************************************)
(* resumeThreadForWorkspace after its answer.  A thread with local items   *)
(* that are not replaced keeps them and its status.  Otherwise the status  *)
(* is the server's, but a thread that shows as processing stays so while   *)
(* the answer names no turn and does not know that there is none.          *)
(***************************************************************************)
KeepsMark(a) == Processing(a.call.thread) /\ a.turn = None /\ ~a.sure
Resumed(s, a) ==
  LET t == a.call.thread
      keep == KeepsMark(a)
      turn == IF keep THEN seen.store.turn[t] ELSE a.turn
      ensured == EnsureThread(s, Workspace, t)
  IN IF a.call.filled THEN ensured
     ELSE MarkReviewing(
            SetActiveTurnId(MarkProcessing(ensured, t, keep \/ turn # None, 1), t, turn),
            t, a.review)

\* The mark it keeps is the last render's: what cleared it since is undone.
ReadAnswer(i) ==
  LET a == server.wire[i]
      read == IF a.ok THEN Resumed(store, a) ELSE store
      revives == a.ok /\ ~a.call.filled /\ KeepsMark(a) /\ ~store.status[a.call.thread].processing
  IN /\ a.call.stage = "ensure" /\ a.call.thread # None
     /\ TakeAny(i)
     /\ stops' = IF revives THEN [stops EXCEPT !.stray = @ \cup {a.call.thread}] ELSE stops
     /\ loaded' = IF a.ok THEN loaded \cup {a.call.thread} ELSE loaded
     /\ GoOn(a.call, a.call.thread,
             IF \E c \in ToSet(calls) : c.stage \in {"opening", "ensure"} /\ c.thread = a.call.thread
               THEN read ELSE SetResumeLoading(read, a.call.thread, FALSE))
     /\ UNCHANGED <<queue, fate>>

\* Mutant: a turn that did not start leaves the thread processing.
SendAnswerLeavesMark(i) ==
  LET a == server.wire[i] IN
  /\ a.call.op = "send" /\ a.call.stage = "sent" /\ ~a.call.steer
  /\ Take(i)
  /\ store' = IF a.ok THEN SetActiveTurnId(store, a.call.thread, a.turn)
              ELSE Told(store, a.call.thread)
  /\ IF a.ok THEN UNCHANGED fate ELSE ToldOf(a.call.msg)
  /\ UNCHANGED <<queue, loaded, calls>>

\* A start that failed does not take a stop that waited for its turn back.
LeavesStop(t) ==
  stops' = IF t \in pending THEN [stops EXCEPT !.owed = @ \cup {t}] ELSE stops

\* sendMessageToThread after its answer: a turn that did not start (an error, or
\* an answer without a turn id) ends the processing and says so in the thread.
SendAnswer(i) ==
  LET a == server.wire[i]  t == a.call.thread IN
  /\ a.call.op = "send" /\ a.call.stage = "sent" /\ ~a.call.steer
  /\ TakeAny(i)
  /\ IF a.ok THEN UNCHANGED stops ELSE LeavesStop(t)
  /\ store' = IF a.ok THEN SetActiveTurnId(store, t, a.turn)
              ELSE Told(SetActiveTurnId(MarkProcessing(store, t, FALSE, 1), t, None), t)
  /\ IF a.ok THEN UNCHANGED fate ELSE ToldOf(a.call.msg)
  /\ UNCHANGED <<queue, loaded, calls>>

\* Mutant: the composer drops a message that did not steer.
SteerAnswerDrops(i) ==
  LET a == server.wire[i] IN
  /\ a.call.op = "send" /\ a.call.stage = "sent" /\ a.call.steer
  /\ Take(i)
  /\ store' = IF a.ok THEN SetActiveTurnId(store, a.call.thread, a.turn)
              ELSE Told(store, a.call.thread)
  /\ UNCHANGED <<queue, fate, loaded, calls>>

\* A steer that failed only ends the processing when its turn is known to be
\* gone; the composer then queues the message.
SteerAnswer(i) ==
  LET a == server.wire[i]  t == a.call.thread
      leavesMark == ~a.ok /\ ~a.stale /\ store.turn[t] # a.call.turn
  IN /\ a.call.op = "send" /\ a.call.stage = "sent" /\ a.call.steer
     /\ TakeAny(i)
     /\ stops' = IF leavesMark THEN [stops EXCEPT !.stray = @ \cup {t}] ELSE stops
     /\ store' = IF a.ok THEN SetActiveTurnId(store, t, a.turn)
                 ELSE Told(IF a.stale THEN SetActiveTurnId(MarkProcessing(store, t, FALSE, 1), t, None)
                           ELSE store, t)
     /\ IF ~a.ok /\ a.call.from = "composer"
          THEN queued' = [queued EXCEPT ![a.call.home] = Append(@, a.call.msg)] /\ UNCHANGED fate
          ELSE /\ IF a.ok THEN UNCHANGED fate ELSE ToldOf(a.call.msg)
               /\ UNCHANGED queued
     /\ UNCHANGED <<inFlight, started, loaded, calls>>

\* startReviewTarget after its answer: a detached review's thread hangs under
\* the reviewed one, which is told (registerDetachedReviewChild).
ReviewAnswer(i) ==
  LET a == server.wire[i]  t == a.call.thread  child == a.child
      linked == SetThreadParent(store, child, t)
  IN /\ a.call.op = "review" /\ a.call.stage = "sent"
     /\ TakeAny(i)
     /\ IF a.ok \/ scene.detached THEN UNCHANGED stops ELSE LeavesStop(t)
     /\ store' = IF a.ok
                   THEN IF child = t THEN store ELSE Told(linked, t)
                 ELSE IF scene.detached THEN Told(store, t)
                 ELSE Told(SetActiveTurnId(MarkReviewing(MarkProcessing(
                             store, t, FALSE, 1), t, FALSE), t, None), t)
     /\ IF a.ok THEN UNCHANGED fate ELSE ToldOf(a.call.msg)
     /\ UNCHANGED <<queue, loaded, calls>>

\* The other commands report in the thread; a stop reports nothing.
CommandAnswer(i) ==
  LET a == server.wire[i] IN
  /\ a.call.op \in {"command", "stop"} /\ a.call.stage = "sent"
  /\ Take(i)
  /\ store' = IF a.call.op = "command" /\ a.call.thread # None
                THEN FillItems(store, a.call.thread) ELSE store
  /\ IF a.call.op = "command" THEN ToldOf(a.call.msg) ELSE UNCHANGED fate
  /\ UNCHANGED <<queue, loaded, calls>>

UserInputAnswer(i) ==
  LET a == server.wire[i]
      request == [thread |-> a.call.thread, turn |-> a.call.turn]
  IN /\ a.call.op = "reply" /\ a.call.stage = "sent"
     /\ Take(i)
     /\ store' = IF a.ok THEN RemoveUserInputRequest(FillItems(store, a.call.thread), request)
                 ELSE store
     /\ UNCHANGED <<queue, loaded, calls, fate>>

(***************************************************************************)
(* Notifications, in the order they were written.                          *)
(***************************************************************************)
\* Those before it are the answers it overtakes.
Overtaken(wire, i) ==
  [j \in DOMAIN wire |-> IF j < i THEN [wire[j] EXCEPT !.passed = @ + 1] ELSE wire[j]]

Noted(type, i) ==
  /\ server.wire[i].type = type
  /\ Leading(i)
  /\ \A j \in 1..(i - 1) : server.wire[j].passed < Lead /\ server.wire[j].call.stage # "ensure"
  /\ server' = [server EXCEPT !.wire = RemoveAt(Overtaken(@, i), i)]
  /\ Handles
  /\ UNCHANGED <<queue, drafts, fate, scene>>

Unset == 0
NoTurnKnown == [turn |-> Unset, reducer |-> Unset, optimistic |-> FALSE]

\* getLatestKnownActiveTurnId: the turn of the last turn/started until a
\* render shows it, or shows that something else changed the thread's turn.
LatestKnown(t) ==
  LET k == known[t]
      rendered == seen.store.turn[t]
      open == k.optimistic /\ k.turn # Unset
      caughtUp == open /\ rendered = k.turn
      moved == open /\ ~caughtUp /\ k.reducer # Unset /\ rendered # k.reducer
  IN IF open /\ ~caughtUp /\ ~moved
       THEN [turn |-> k.turn, known |-> [k EXCEPT !.reducer = rendered]]
       ELSE [turn  |-> IF k.reducer # rendered THEN rendered
                       ELSE IF k.turn # Unset THEN k.turn ELSE rendered,
             known |-> [turn |-> IF moved \/ k.reducer # rendered THEN rendered ELSE k.turn,
                        reducer |-> rendered, optimistic |-> FALSE]]

\* What every end of a thread's activity resets besides its processing mark.
Settled(t) == known' = [known EXCEPT ![t].turn = None, ![t].optimistic = FALSE]
Finished(s, t) == SetActiveTurnId(MarkProcessing(s, t, FALSE, 1), t, None)

OnThreadStarted(i) ==
  LET t == server.wire[i].thread IN
  /\ Noted("thread/started", i)
  /\ store' = IF t \in seen.store.hidden[Workspace] THEN store
              ELSE SetThreadTimestamp(EnsureThread(store, Workspace, t), Workspace, t, 1, TRUE)
  /\ UNCHANGED <<refs, calls, stops>>

\* Mutant: a stop waits for the next turn of any thread.
OnTurnStartedStopsAny(i) ==
  LET t == server.wire[i].thread
      turn == server.wire[i].turn
      ensured == EnsureThread(store, Workspace, t)
  IN /\ Noted("turn/started", i)
     /\ IF pending # {}
          THEN /\ pending' = {}
               /\ calls' = Append(calls, [Call("stop", None, "event", t) EXCEPT
                                            !.turn = turn, !.stage = "issued"])
               /\ store' = ensured
               /\ UNCHANGED known
          ELSE /\ store' = SetActiveTurnId(MarkProcessing(ensured, t, TRUE, 1), t, turn)
               /\ UNCHANGED <<known, pending, calls>>
     /\ UNCHANGED <<loaded, stops>>

\* A stop that found no turn id stops the next turn that starts.
OnTurnStarted(i) ==
  LET t == server.wire[i].thread
      turn == server.wire[i].turn
      ensured == EnsureThread(store, Workspace, t)
  IN /\ Noted("turn/started", i)
     /\ IF t \in pending
          THEN /\ pending' = pending \ {t}
               /\ calls' = Append(calls, [Call("stop", None, "event", t) EXCEPT
                                            !.turn = turn, !.stage = "issued"])
               /\ store' = ensured
               /\ stops' = [stops EXCEPT !.misled = @ \cup (IF t \in stops.owed THEN {turn} ELSE {}),
                                         !.owed = @ \ {t}]
               /\ UNCHANGED known
          ELSE /\ store' = SetActiveTurnId(MarkProcessing(ensured, t, TRUE, 1), t, turn)
               /\ known' = [known EXCEPT ![t] =
                    [turn |-> turn, reducer |-> seen.store.turn[t], optimistic |-> TRUE]]
               /\ UNCHANGED <<pending, calls, stops>>
     /\ UNCHANGED loaded

\* The end of a turn that is not the thread's known one is not its end.
OnTurnCompleted(i) ==
  LET t == server.wire[i].thread
      turn == server.wire[i].turn
      latest == LatestKnown(t)
  IN /\ Noted("turn/completed", i)
     /\ IF latest.turn \notin {None, turn}
          THEN known' = [known EXCEPT ![t] = latest.known] /\ UNCHANGED <<store, pending>>
          ELSE /\ store' = Finished(store, t)
               /\ known' = [known EXCEPT ![t] = [latest.known EXCEPT
                              !.turn = None, !.optimistic = FALSE]]
               /\ pending' = pending \ {t}
     /\ UNCHANGED <<loaded, calls, stops>>

\* As written, an error does not drop a pending stop.
OnTurnError(i) ==
  LET t == server.wire[i].thread
      turn == server.wire[i].turn
      latest == LatestKnown(t)
  IN /\ Noted("error", i)
     /\ IF latest.turn \notin {None, turn}
          THEN known' = [known EXCEPT ![t] = latest.known] /\ UNCHANGED store
          ELSE /\ store' = Told(MarkReviewing(
                             Finished(EnsureThread(store, Workspace, t), t), t, FALSE), t)
               /\ known' = [known EXCEPT ![t] = [latest.known EXCEPT
                              !.turn = None, !.optimistic = FALSE]]
     /\ UNCHANGED <<pending, loaded, calls, stops>>

OnThreadClosed(i) ==
  LET t == server.wire[i].thread IN
  /\ Noted("thread/closed", i)
  /\ loaded' = loaded \ {t}
  /\ store' = MarkReviewing(Finished(store, t), t, FALSE)
  /\ Settled(t)
  /\ pending' = pending \ {t}
  /\ UNCHANGED <<calls, stops>>

\* As written, a status names no turn: it marks or clears whatever turn is known.
OnThreadStatusChanged(i) ==
  LET t == server.wire[i].thread IN
  /\ \/ /\ Noted("active", i)
        /\ store' = MarkProcessing(store, t, TRUE, 1)
        /\ UNCHANGED refs
     \/ /\ Noted("idle", i)
        /\ store' = Finished(store, t)
        /\ Settled(t)
        /\ pending' = pending \ {t}
        /\ UNCHANGED loaded
     \/ /\ Noted("notLoaded", i)
        /\ store' = MarkReviewing(Finished(store, t), t, FALSE)
        /\ Settled(t)
        /\ pending' = pending \ {t}
        /\ loaded' = loaded \ {t}
  /\ UNCHANGED <<calls, stops>>

\* handleItemUpdate: an item that starts shows the thread as processing; the
\* marks of a review bracket it.
OnItem(i) ==
  LET t == server.wire[i].thread
      ensured == FillItems(EnsureThread(store, Workspace, t), t)
  IN /\ \/ /\ Noted("item/started", i)
           /\ store' = MarkProcessing(ensured, t, TRUE, 1)
        \/ /\ Noted("entered", i)
           /\ store' = MarkReviewing(MarkProcessing(ensured, t, TRUE, 1), t, TRUE)
        \/ /\ Noted("exited", i)
           /\ store' = MarkProcessing(MarkReviewing(ensured, t, FALSE), t, FALSE, 1)
     /\ UNCHANGED <<refs, calls, stops>>

OnRequestUserInput(i) ==
  /\ Noted("ask", i)
  /\ store' = AddUserInputRequest(store, [thread |-> server.wire[i].thread,
                                          turn |-> server.wire[i].turn])
  /\ UNCHANGED <<refs, calls, stops>>

(***************************************************************************)
(* The specification.                                                      *)
(***************************************************************************)
First == CHOOSE t \in Threads : TRUE

\* The window starts with a thread open and loaded, or with none.
Init ==
  /\ \E open \in {{}, {First}} :
       /\ store = IF open = {} THEN InitialState
                  ELSE EnsureThread(InitialState, Workspace, First)
       /\ loaded = open
       /\ server = [turn |-> [t \in Threads |-> None], review |-> [t \in Threads |-> FALSE],
                    asking |-> [t \in Threads |-> FALSE], ran |-> {}, threads |-> open,
                    next |-> 1, wire |-> <<>>]
  /\ queued = [t \in Threads |-> <<>>]
  /\ inFlight = [t \in Threads |-> None]
  /\ started = [t \in Threads |-> FALSE]
  /\ seen = Now
  /\ effects = FALSE
  /\ handled = 0
  /\ known = [t \in Threads |-> NoTurnKnown]
  /\ pending = {}
  /\ calls = <<>>
  /\ drafts = Messages
  /\ fate = [m \in Messages |-> "open"]
  /\ stops = [used |-> FALSE, wanted |-> {}, hit |-> {}, doomed |-> {}, void |-> FALSE,
             owed |-> {}, misled |-> {}, stray |-> {}]
  /\ scene \in Scenes

User ==
  \/ \E m \in Messages :
       \/ \E submit \in {"default", "queue", "steer"} : HandleSend(m, submit)
       \/ QueueMessage(m)
       \/ RemoveQueuedMessage(m)
  \/ InterruptTurn
  \/ \E t \in Threads : SelectThread(t) \/ RefreshThread(t)

UserAnswers == \E i \in DOMAIN seen.store.inputs : SubmitUserInput(seen.store.inputs[i])

Effects == TrackInFlight \/ FlushNext \/ NoEffect

ServerAnswers ==
  \E c \in ToSet(calls) :
    \/ ServeThread(c) \/ ServeRead(c) \/ ServeSend(c) \/ ServeSteer(c) \/ ServeStop(c)
    \/ ServeReview(c) \/ ServeCommand(c) \/ ServeReply(c) \/ ServeFault(c)

ServerActs == \E t \in Threads : ServerWorks(t) \/ ServerUnloads(t)

Answers ==
  \E i \in DOMAIN server.wire :
    /\ server.wire[i].type = "answer"
    /\ \/ ThreadAnswer(i) \/ ThreadFailed(i) \/ ReadAnswer(i) \/ SendAnswer(i)
       \/ SteerAnswer(i) \/ ReviewAnswer(i) \/ CommandAnswer(i) \/ UserInputAnswer(i)

Notifications ==
  \E i \in DOMAIN server.wire :
    \/ OnThreadStarted(i) \/ OnTurnStarted(i) \/ OnTurnCompleted(i) \/ OnTurnError(i)
    \/ OnThreadClosed(i) \/ OnThreadStatusChanged(i) \/ OnItem(i) \/ OnRequestUserInput(i)

\* An answer that was overtaken is there within milliseconds: the user's next
\* input comes after it.
Settling == {i \in DOMAIN server.wire :
               server.wire[i].type = "answer" /\ server.wire[i].passed > 0}

Next ==
  \/ effects /\ Effects
  \/ /\ ~effects
     /\ \/ seen = Now /\ Settling = {} /\ User
        \/ UserAnswers
        \/ Render
        \/ Answers \/ Notifications
        \/ /\ Len(server.wire) <= MaxWire
           /\ \/ ServerAnswers \/ ServerActs
              \/ \E t \in Threads : ServerEnds(t)

Spec == Init /\ [][Next]_vars

\* The window's own loop, the wire and the server go on; a turn ends; the user
\* answers what the agent asks.  Nothing is assumed of what the user starts.
Fairness ==
  /\ WF_vars(Render) /\ WF_vars(Effects)
  /\ WF_vars(Answers) /\ WF_vars(Notifications)
  /\ WF_vars(ServerAnswers) /\ WF_vars(UserAnswers)
  /\ \A t \in Threads : WF_vars(ServerEnds(t))

FairSpec == Spec /\ Fairness

(***************************************************************************)
(* Properties.                                                             *)
(***************************************************************************)
\* What each part of the state may hold (the types of useThreadsReducer.ts and
\* of the hooks' refs).
TypeOK ==
  /\ store.active \in [Workspaces -> Threads \cup {None}]
  /\ store.turn \in [Threads -> Turn]
  /\ queued \in [Threads -> Seq(Messages)]
  /\ inFlight \in [Threads -> Messages \cup {None}]
  /\ started \in [Threads -> BOOLEAN]
  /\ effects \in BOOLEAN
  /\ handled \in 0..Batch
  /\ known \in [Threads -> [turn : Turn \cup {Unset}, reducer : Turn \cup {Unset},
                            optimistic : BOOLEAN]]
  /\ {pending, loaded} \subseteq SUBSET Threads
  /\ fate \in [Messages -> {"open", "accepted", "told", "unstarted", "removed"}]
  /\ drafts \subseteq Messages

Quiet == calls = <<>> /\ server.wire = <<>> /\ ~effects /\ seen = Now

\* Once all that is under way has been handled, no thread without a turn on
\* the server shows as processing or in review, whatever the order in which
\* answers, notifications, stops, steers, reads and failures came (the marks of
\* useThreadMessaging, useThreadActions, useThreadTurnEvents, useThreadItemEvents).
\* The exceptions are two ways to be marked for nothing: a thread that never ran
\* a turn is read while its first is asked for, and the read marks it again after
\* the start has failed; and a steer fails after the turn it was for is over.
QuietMeansIdle ==
  Quiet => \A t \in Threads \ stops.stray : server.turn[t] = None =>
             ~store.status[t].processing /\ ~store.status[t].reviewing

\* And a thread whose turn runs shows as processing, unless the user stopped
\* something or a turn's start failed: the late end of an older turn, a read
\* answered from an older state or a failed steer do not clear the mark.
RunningIsShown ==
  Quiet /\ ~stops.used /\ ~stops.void =>
    \A t \in Threads : server.turn[t] # None => store.status[t].processing

Held(m) ==
  \/ \E t \in Threads : Contains(queued[t], m)
  \/ \E i \in DOMAIN calls : calls[i].msg = m
  \/ \E i \in DOMAIN server.wire :
       server.wire[i].type = "answer" /\ server.wire[i].call.msg = m

\* A submitted message is queued, under way, accepted by the server, removed by
\* the user, or its failure was told in a thread: moving it from the queue to a
\* request and back (useQueuedSend's effects and their catch, the fallback of a
\* failed steer) loses none.  The one silent end is a message for which no thread
\* could be started (unstarted): from the composer, or when the answer has no id.
NoMessageVanishes == \A m \in Messages \ drafts : fate[m] = "open" => Held(m)

\* A stop ends only turns the user meant: the one that was open or under way
\* when the stop was pressed, never a later turn or another thread's
\* (pendingInterruptsRef of useThreadMessaging and useThreadTurnEvents), failed
\* starts and steers included.  The exception is a defect of the code: when the
\* start a stop waits for fails, nothing takes the stop back (the failure branches
\* of sendMessageToThread and startReviewTarget leave pendingInterruptsRef as it
\* is), and it ends the next turn of that thread (misled), which the user did not
\* mean.  The run has one stop: a second one, pressed while the first one's
\* request is failing, may be left for a later turn as well.
StopHitsItsTurn == stops.hit \subseteq stops.wanted \cup stops.misled

StartsNoTurn(m) ==
  \/ scene.kind[m] \in {"command", "broken", "new"}
  \/ scene.kind[m] = "review" /\ scene.detached
FailedUnseen(t) == ~started[t] /\ fate[inFlight[t]] = "told"
Stalled(t) ==
  \/ t \in stops.stray
  \/ inFlight[t] # None /\ (StartsNoTurn(inFlight[t]) \/ FailedUnseen(t))

Waiting(m) ==
  Open # None /\ Contains(queued[Open], m) /\ ~Stalled(Open)

\* A message queued in the open thread does not wait there for ever, when the
\* agent's turns end and its questions are answered.  The exceptions: the message
\* before it starts no turn of the thread, or failed to after a read had taken
\* the mark off again before a render saw it; or the thread is marked for
\* nothing, as above (the two effects of useQueuedSend).
QueueDrains == \A m \in Messages : []<>~Waiting(m)

\* useQueuedSend.test.tsx: "sends queued messages one at a time after processing
\* completes": without the exception the code does not keep that, because what
\* is in flight is only forgotten after the thread was seen to process.
SentOneAtATime ==
  \A m \in Messages : []<>~(Open # None /\ Contains(queued[Open], m))
=============================================================================
