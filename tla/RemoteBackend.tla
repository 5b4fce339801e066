---------------------------- MODULE RemoteBackend ----------------------------
(***************************************************************************)
(* The desktop's (or phone's) client of a remote daemon:                   *)
(* remote_backend/mod.rs and transport.rs.  Commands call call_remote at   *)
(* the same time; they share one cached RemoteBackend, whose writer and    *)
(* reader are tasks of their own.  The daemon's end of each connection is  *)
(* in DaemonConnection, both together in RemoteSystem.                     *)
(*                                                                         *)
(* call_remote is split at its awaits: each action below runs from one     *)
(* await to the next, so that settings, cached client, pending table and   *)
(* connection may all change between two of them.                          *)
(***************************************************************************)
EXTENDS Naturals, Sequences, FiniteSets

CONSTANTS
    Call,       \* invocations of call_remote
    Retryable,  \* those whose method can_retry_after_disconnect accepts
    Conn,       \* TCP connections
    Host,       \* daemons
    Token,      \* auth tokens
    Setting,    \* the remote settings a user may save, the first one included
    Auth,       \* the method of the request that authenticates a connection
    None,       \* no connection, host, token, method or result
    Capacity    \* OUTBOUND_QUEUE_CAPACITY (512)

ASSUME ClientAssumption ==
    /\ Retryable \subseteq Call
    /\ Setting \subseteq [host : Host, token : Token \cup {None}]
    /\ Capacity \in Nat \ {0}
ASSUME ClientNames ==
    /\ None \notin Call \cup Conn \cup Token \cup {Auth} /\ None \notin Setting
    /\ Auth \notin Call
    /\ None \notin {"ok", "error", "refused", "disconnected", "timeout", "unreachable"}

VARIABLES
    settings,   \* AppState.app_settings: its remote host and token
    resetting,  \* update_app_settings has saved, but not yet reset the client
    cached,     \* AppState.remote_backend
    pc,         \* where each call is
    attempt,    \* 1, or 2 after a disconnection
    cfg,        \* the settings ensure_remote_backend resolved
    use, first, \* the clients a call holds: in use, and of its first attempt
    asks,       \* what its RemoteBackend::call asks for: Auth or the call itself
    id,         \* the id of that request
    reply,      \* its oneshot channel: what the receiver will find
    result,     \* what call_remote returns
    target,     \* the settings a connection was made for, None before that
    connected,  \* RemoteBackendInner.connected
    pending,    \* RemoteBackendInner.pending: ids, with the call each belongs to
    nextId,     \* RemoteBackendInner.next_id
    queue,      \* out_tx / out_rx
    writing,    \* the writer task runs, and keeps its half of the socket open
    reading,    \* the reader task runs
    up, down,   \* what is on its way to the daemon, and back
    broken,     \* the network has failed under the connection
    closed,     \* the daemon has closed its end
    late,       \* history: calls that entered pending after it was drained
    overtaken   \* history: connections a settings update met before they were shared

caller == <<pc, attempt, cfg, use, first, asks, id, reply, result, late>>
inner == <<connected, pending, nextId, queue, writing, reading>>
wires == <<up, down, broken, closed>>
clientVars ==
    <<settings, resetting, cached, caller, target, inner, overtaken>>

------------------------------------------------------------------------------
NoReply == [method |-> None, status |-> "none"]
Disconnected == [method |-> None, status |-> "disconnected"]
Answers == [method : Call \cup {Auth}, status : {"ok", "error", "refused"}]
Requests == [id : Nat, method : Call \cup {Auth}, token : Token \cup {None}]

\* A clone of the connection's client is alive.
Referenced(c) == cached = c \/ \E k \in Call : use[k] = c \/ first[k] = c

\* mark_disconnected.  The flag is stored before the drain takes the lock; a
\* call between the two finds itself drained or sent back, so it is one step.
MarkDisconnected(c) ==
    /\ connected' = [connected EXCEPT ![c] = FALSE]
    /\ pending' = [pending EXCEPT ![c] = {}]
    /\ reply' = [k \in Call |->
                   IF \E e \in pending[c] : e.call = k THEN Disconnected ELSE reply[k]]

\* Mutant: the entry of a request that is given up stays in the table.
KeepEntry(k) == UNCHANGED pending

\* self.inner.pending.lock().await.remove(&id)
Unpend(k) ==
    pending' = [pending EXCEPT ![use[k]] = {e \in @ : e.id # id[k]}]

Goto(k, label) == pc' = [pc EXCEPT ![k] = label]

\* call_remote returns and drops its clients.
Return(k, r) ==
    /\ Goto(k, "done")
    /\ result' = [result EXCEPT ![k] = r]
    /\ use' = [use EXCEPT ![k] = None]
    /\ first' = [first EXCEPT ![k] = None]

\* RemoteBackend::call fails: ensure_remote_backend passes an error of its auth
\* request on; call_remote goes on to forget the cached client.
Fail(k, r) ==
    \/ asks[k] = Auth /\ Return(k, r)
    \/ /\ asks[k] # Auth
       /\ result' = [result EXCEPT ![k] = r]
       /\ Goto(k, "clear")
       /\ UNCHANGED <<use, first>>

------------------------------------------------------------------------------
ClientInit ==
    /\ settings \in Setting
    /\ resetting = FALSE
    /\ cached = None
    /\ pc = [k \in Call |-> "look"]
    /\ attempt = [k \in Call |-> 1]
    /\ cfg = [k \in Call |-> None]
    /\ use = [k \in Call |-> None]
    /\ first = [k \in Call |-> None]
    /\ asks = [k \in Call |-> None]
    /\ id = [k \in Call |-> 0]
    /\ reply = [k \in Call |-> NoReply]
    /\ result = [k \in Call |-> None]
    /\ target = [c \in Conn |-> None]
    /\ connected = [c \in Conn |-> FALSE]
    /\ pending = [c \in Conn |-> {}]
    /\ nextId = [c \in Conn |-> 1]
    /\ queue = [c \in Conn |-> << >>]
    /\ writing = [c \in Conn |-> FALSE]
    /\ reading = [c \in Conn |-> FALSE]
    /\ late = {}
    /\ overtaken = {}

WireInit ==
    /\ up = [c \in Conn |-> << >>]
    /\ down = [c \in Conn |-> << >>]
    /\ broken = [c \in Conn |-> FALSE]
    /\ closed = [c \in Conn |-> FALSE]

------------------------------------------------------------------------------
(* ensure_remote_backend                                                    *)

\* A cached client is taken as it is.
Look(k) ==
    /\ pc[k] = "look"
    /\ \/ /\ cached # None
          /\ use' = [use EXCEPT ![k] = cached]
          /\ asks' = [asks EXCEPT ![k] = k]
          /\ Goto(k, "check")
       \/ cached = None /\ Goto(k, "resolve") /\ UNCHANGED <<use, asks>>
    /\ UNCHANGED <<settings, resetting, cached, attempt, cfg, first, id, reply,
                   result, late, target, inner, wires, overtaken>>

\* resolve_transport_config, under the settings lock
Resolve(k) ==
    /\ pc[k] = "resolve"
    /\ cfg' = [cfg EXCEPT ![k] = settings]
    /\ Goto(k, "connect")
    /\ UNCHANGED <<settings, resetting, cached, attempt, use, first, asks, id,
                   reply, result, late, target, inner, wires, overtaken>>

\* A token is presented before the client is shared.
AfterConnect(k) == IF cfg[k].token # None THEN "check" ELSE "publish"

\* TcpStream::connect succeeds; spawn_transport_io
Connect(k, c) ==
    /\ pc[k] = "connect" /\ target[c] = None
    /\ target' = [target EXCEPT ![c] = cfg[k]]
    /\ connected' = [connected EXCEPT ![c] = TRUE]
    /\ writing' = [writing EXCEPT ![c] = TRUE]
    /\ reading' = [reading EXCEPT ![c] = TRUE]
    /\ use' = [use EXCEPT ![k] = c]
    /\ asks' = [asks EXCEPT ![k] = Auth]
    /\ Goto(k, AfterConnect(k))
    /\ overtaken' = IF cfg[k] = settings THEN overtaken ELSE overtaken \cup {c}
    /\ UNCHANGED <<settings, resetting, cached, attempt, cfg, first, id, reply,
                   result, late, pending, nextId, queue, wires>>

ConnectFails(k) ==
    /\ pc[k] = "connect"
    /\ Return(k, "unreachable")
    /\ UNCHANGED <<settings, resetting, cached, attempt, cfg, asks, id, reply,
                   late, target, inner, wires, overtaken>>

Publish(k) ==
    /\ pc[k] = "publish"
    /\ cached' = use[k]
    /\ asks' = [asks EXCEPT ![k] = k]
    /\ Goto(k, "check")
    /\ UNCHANGED <<settings, resetting, attempt, cfg, use, first, id, reply,
                   result, late, target, inner, wires, overtaken>>

------------------------------------------------------------------------------
(* RemoteBackend::call                                                      *)

\* Mutant: next_id stays.
IdAgain(c) == nextId

\* next_id.fetch_add(1)
IdTaken(c) == [nextId EXCEPT ![c] = @ + 1]

\* connected is read, an id is taken; the pending lock is awaited next.
Check(k) ==
    /\ pc[k] = "check" /\ connected[use[k]]
    /\ id' = [id EXCEPT ![k] = nextId[use[k]]]
    /\ nextId' = IdTaken(use[k])
    /\ reply' = [reply EXCEPT ![k] = NoReply]
    /\ Goto(k, "pend")
    /\ UNCHANGED <<settings, resetting, cached, attempt, cfg, use, first, asks,
                   result, late, target, connected, pending, queue, writing,
                   reading, wires, overtaken>>

CheckLost(k) ==
    /\ pc[k] = "check" /\ ~connected[use[k]]
    /\ Fail(k, "disconnected")
    /\ UNCHANGED <<settings, resetting, cached, attempt, cfg, asks, id, reply,
                   late, target, inner, wires, overtaken>>

\* pending.insert(id, tx): nothing looks at connected again.
Pend(k) ==
    /\ pc[k] = "pend"
    /\ pending' = [pending EXCEPT ![use[k]] = @ \cup {[id |-> id[k], call |-> k]}]
    /\ late' = IF connected[use[k]] THEN late ELSE late \cup {k}
    /\ Goto(k, "send")
    /\ UNCHANGED <<settings, resetting, cached, attempt, cfg, use, first, asks,
                   id, reply, result, target, connected, nextId, queue, writing,
                   reading, wires, overtaken>>

\* build_request_line
Line(k) ==
    [id |-> id[k], method |-> asks[k],
     token |-> IF asks[k] = Auth THEN cfg[k].token ELSE None]

HasRoom(c) == Len(queue[c]) < Capacity

\* out_tx.send waits for room in the queue.
Send(k) ==
    /\ pc[k] = "send"
    /\ writing[use[k]] /\ HasRoom(use[k])
    /\ queue' = [queue EXCEPT ![use[k]] = Append(@, Line(k))]
    /\ Goto(k, "wait")
    /\ UNCHANGED <<settings, resetting, cached, attempt, cfg, use, first, asks,
                   id, reply, result, late, target, connected, pending, nextId,
                   writing, reading, wires, overtaken>>

\* The queue's receiver is gone, or REMOTE_SEND_TIMEOUT has passed.
SendFails(k) ==
    /\ pc[k] = "send"
    /\ \/ ~writing[use[k]] /\ Fail(k, "disconnected")
       \/ writing[use[k]] /\ ~HasRoom(use[k]) /\ Fail(k, "timeout")
    /\ Unpend(k)
    /\ UNCHANGED <<settings, resetting, cached, attempt, cfg, asks, id, reply,
                   late, target, connected, nextId, queue, writing, reading,
                   wires, overtaken>>

Received(k) == pc[k] = "wait" /\ reply[k] # NoReply

\* The auth request is granted, or the call's own result has come.
ReceiveOk(k) ==
    /\ Received(k) /\ reply[k].status = "ok"
    /\ \/ /\ asks[k] = Auth
          /\ Goto(k, "publish")
          /\ UNCHANGED <<use, first, result>>
       \/ asks[k] # Auth /\ Return(k, "ok")
    /\ UNCHANGED <<settings, resetting, cached, attempt, cfg, asks, id, reply,
                   late, target, inner, wires, overtaken>>

ReceiveError(k) ==
    /\ Received(k) /\ reply[k].status # "ok"
    /\ Fail(k, reply[k].status)
    /\ UNCHANGED <<settings, resetting, cached, attempt, cfg, asks, id, reply,
                   late, target, inner, wires, overtaken>>

\* Mutant: no timeout.
WaitForever(k) == FALSE

\* REMOTE_REQUEST_TIMEOUT
Timeout(k) ==
    /\ pc[k] = "wait" /\ reply[k] = NoReply
    /\ Unpend(k)
    /\ Fail(k, "timeout")
    /\ UNCHANGED <<settings, resetting, cached, attempt, cfg, asks, id, reply,
                   late, target, connected, nextId, queue, writing, reading,
                   wires, overtaken>>

------------------------------------------------------------------------------
\* Mutant: any call is sent a second time.
RetryAnything(k) == result[k] = "disconnected" /\ attempt[k] = 1

\* One second attempt, after a disconnection, for retry-safe methods.
Retries(k) == result[k] = "disconnected" /\ attempt[k] = 1 /\ k \in Retryable

\* call_remote after an error: whichever client is cached is forgotten.  The
\* client of the first attempt lives on during the second.
Clear(k) ==
    /\ pc[k] = "clear"
    /\ cached' = None
    /\ \/ /\ Retries(k)
          /\ attempt' = [attempt EXCEPT ![k] = 2]
          /\ first' = [first EXCEPT ![k] = use[k]]
          /\ use' = [use EXCEPT ![k] = None]
          /\ result' = [result EXCEPT ![k] = None]
          /\ Goto(k, "look")
       \/ ~Retries(k) /\ Return(k, result[k]) /\ UNCHANGED attempt
    /\ UNCHANGED <<settings, resetting, cfg, asks, id, reply, late, target,
                   inner, wires, overtaken>>

------------------------------------------------------------------------------
(* The tasks of a connection (spawn_transport_io)                           *)

\* Bytes written after the daemon has closed get lost, or fail the write.
WriteOk(c) ==
    /\ writing[c] /\ queue[c] # << >> /\ ~broken[c]
    /\ up' = [up EXCEPT ![c] = IF closed[c] THEN @ ELSE Append(@, Head(queue[c]))]
    /\ queue' = [queue EXCEPT ![c] = Tail(@)]
    /\ UNCHANGED <<settings, resetting, cached, caller, target, connected,
                   pending, nextId, writing, reading, down, broken, closed,
                   overtaken>>

WriteFails(c) ==
    /\ writing[c] /\ queue[c] # << >> /\ (broken[c] \/ closed[c])
    /\ MarkDisconnected(c)
    /\ writing' = [writing EXCEPT ![c] = FALSE]
    /\ queue' = [queue EXCEPT ![c] = << >>]
    /\ UNCHANGED <<settings, resetting, cached, pc, attempt, cfg, use, first,
                   asks, id, result, late, target, nextId, reading, wires,
                   overtaken>>

\* recv yields None once the last client is dropped.
WriterEnds(c) ==
    /\ writing[c] /\ queue[c] = << >> /\ ~Referenced(c)
    /\ writing' = [writing EXCEPT ![c] = FALSE]
    /\ UNCHANGED <<settings, resetting, cached, caller, target, connected,
                   pending, nextId, queue, reading, wires, overtaken>>

\* pending.remove(&id)
Awaiting(c) == {e \in pending[c] : e.id = Head(down[c]).id}

\* dispatch_incoming_line: an answer nobody waits for is dropped.
Read(c) ==
    /\ reading[c] /\ down[c] # << >>
    /\ down' = [down EXCEPT ![c] = Tail(@)]
    /\ \/ /\ Awaiting(c) = {}
          /\ UNCHANGED <<pending, reply>>
       \/ \E e \in Awaiting(c) :
            /\ pending' = [pending EXCEPT ![c] = @ \ {e}]
            /\ reply' = [reply EXCEPT ![e.call] =
                           [method |-> Head(down[c]).method, status |-> Head(down[c]).status]]
    /\ UNCHANGED <<settings, resetting, cached, pc, attempt, cfg, use, first,
                   asks, id, result, late, target, connected, nextId, queue,
                   writing, reading, up, broken, closed, overtaken>>

ReadEnds(c) ==
    /\ reading[c] /\ down[c] = << >> /\ (broken[c] \/ closed[c])
    /\ MarkDisconnected(c)
    /\ reading' = [reading EXCEPT ![c] = FALSE]
    /\ UNCHANGED <<settings, resetting, cached, pc, attempt, cfg, use, first,
                   asks, id, result, late, target, nextId, queue, writing,
                   wires, overtaken>>

------------------------------------------------------------------------------
(* update_app_settings                                                      *)

\* A call has connected c and not published it yet.
Establishing(c) == \E k \in Call : use[k] = c /\ asks[k] = Auth

\* should_reset_remote_backend: the host or the token differs.
SaveSettings ==
    /\ ~resetting
    /\ \E s \in Setting \ {settings} : settings' = s
    /\ resetting' = TRUE
    /\ overtaken' = overtaken \cup {c \in Conn : Establishing(c)}
    /\ UNCHANGED <<cached, caller, target, inner, wires>>

\* Mutant: the cached client survives the update.
ResetKept == resetting /\ resetting' = FALSE
    /\ UNCHANGED <<settings, cached, caller, target, inner, wires, overtaken>>

ResetClient ==
    /\ resetting
    /\ cached' = None
    /\ resetting' = FALSE
    /\ UNCHANGED <<settings, caller, target, inner, wires, overtaken>>

------------------------------------------------------------------------------
\* The steps of one call that need no other party, and those of a connection.
CallStep(k) ==
    \/ Look(k) \/ Resolve(k) \/ ConnectFails(k) \/ Publish(k)
    \/ Check(k) \/ CheckLost(k) \/ Pend(k) \/ Send(k) \/ SendFails(k)
    \/ ReceiveOk(k) \/ ReceiveError(k) \/ Timeout(k) \/ Clear(k)

ConnStep(c) ==
    \/ WriteOk(c) \/ WriteFails(c) \/ WriterEnds(c) \/ Read(c) \/ ReadEnds(c)

==============================================================================
