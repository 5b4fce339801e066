--------------------------- MODULE DaemonConnection ---------------------------
(***************************************************************************)
(* One client connection of codex_monitor_daemon: handle_client            *)
(* (codex_monitor_daemon/transport.rs) reads lines, authenticates the      *)
(* connection and spawns a task per request; the tasks (rpc.rs) wait for   *)
(* one of MAX_IN_FLIGHT_RPC_PER_CONNECTION permits, run the method, and    *)
(* hand the answer to the connection's write task.                         *)
(***************************************************************************)
EXTENDS Naturals, Sequences, FiniteSets

CONSTANTS
    Call, Conn, Host, Token, Auth, None,
    DaemonToken,  \* config.token of each daemon, None for --insecure-no-auth
    Permits       \* MAX_IN_FLIGHT_RPC_PER_CONNECTION (32)

VARIABLES
    target,    \* what each connection was made for (the client's)
    writing,   \* the client still has its half of the socket open (the client's)
    up, down,  \* the two directions of the socket
    broken,    \* the network has failed under the connection
    closed,    \* handle_client has returned
    authed,    \* authenticated
    tasks,     \* the spawned request tasks
    outq,      \* out_tx / out_rx, unbounded
    executed   \* how often a daemon has run the method of each call

served == <<authed, tasks, outq, executed>>
daemonVars == <<up, down, broken, closed, served>>

Required(c) == DaemonToken[target[c].host]
Open(c) == target[c] # None /\ ~closed[c]
Answer(i, m, s) == [id |-> i, method |-> m, status |-> s]
Put(c, answer) == outq' = [outq EXCEPT ![c] = Append(@, answer)]
Running(c) == {t \in tasks : t.conn = c /\ t.stage = "ran"}

------------------------------------------------------------------------------
ServedInit ==
    /\ authed = [c \in Conn |-> FALSE]
    /\ tasks = {}
    /\ outq = [c \in Conn |-> << >>]
    /\ executed = [k \in Call |-> 0]

\* Only a daemon without a token takes a new connection for authenticated.
AuthedAtFirst(host) == DaemonToken[host] = None

\* accept, and the first lines of handle_client
Accept(c, host) ==
    /\ authed' = [authed EXCEPT ![c] = AuthedAtFirst(host)]
    /\ UNCHANGED <<tasks, outq, executed>>

------------------------------------------------------------------------------
(* The read loop                                                            *)

Reads(c) ==
    /\ Open(c) /\ up[c] # << >>
    /\ up' = [up EXCEPT ![c] = Tail(@)]
    /\ UNCHANGED <<target, writing, down, broken, closed>>

\* Mutant: the token is not compared.
AnyAuth(c, line) == line.method = Auth

RightAuth(c, line) == line.method = Auth /\ line.token = Required(c)

Authenticate(c) ==
    /\ Reads(c) /\ ~authed[c] /\ RightAuth(c, Head(up[c]))
    /\ authed' = [authed EXCEPT ![c] = TRUE]
    /\ Put(c, Answer(Head(up[c]).id, Auth, "ok"))
    /\ UNCHANGED <<tasks, executed>>

\* "unauthorized" or "invalid token"
Refuse(c) ==
    /\ Reads(c) /\ ~authed[c] /\ ~RightAuth(c, Head(up[c]))
    /\ Put(c, Answer(Head(up[c]).id, Head(up[c]).method, "refused"))
    /\ UNCHANGED <<authed, tasks, executed>>

\* spawn_rpc_response_task
Spawn(c) ==
    /\ Reads(c) /\ authed[c]
    /\ tasks' = tasks \cup
         {[conn |-> c, id |-> Head(up[c]).id, method |-> Head(up[c]).method,
           stage |-> "waiting", status |-> "none"]}
    /\ UNCHANGED <<authed, outq, executed>>

------------------------------------------------------------------------------
(* A request task                                                           *)

\* out_tx.send fails once the connection's write task is gone.
SendAnswer(t) ==
    IF closed[t.conn] THEN UNCHANGED outq
    ELSE Put(t.conn, Answer(t.id, t.method, t.status))

\* A permit is granted and the method runs, to success or to an error; there
\* is no method called auth.
Execute(t) ==
    /\ t.stage = "waiting" /\ Cardinality(Running(t.conn)) < Permits
    /\ \E s \in IF t.method = Auth THEN {"error"} ELSE {"ok", "error"} :
         tasks' = (tasks \ {t}) \cup {[t EXCEPT !.stage = "ran", !.status = s]}
    /\ executed' = IF t.method = Auth THEN executed
                   ELSE [executed EXCEPT ![t.method] = @ + 1]
    /\ UNCHANGED <<target, writing, up, down, broken, closed, authed, outq>>

\* The answer is handed over and the permit returned, closed or not.
Respond(t) ==
    /\ t.stage = "ran"
    /\ SendAnswer(t)
    /\ tasks' = tasks \ {t}
    /\ UNCHANGED <<target, writing, up, down, broken, closed, authed, executed>>

------------------------------------------------------------------------------
\* The write task
WriteOut(c) ==
    /\ Open(c) /\ outq[c] # << >> /\ ~broken[c]
    /\ down' = [down EXCEPT ![c] = Append(@, Head(outq[c]))]
    /\ outq' = [outq EXCEPT ![c] = Tail(@)]
    /\ UNCHANGED <<target, writing, up, broken, closed, authed, tasks, executed>>

\* Mutant: the end of the client's stream goes unnoticed.
OnlyBroken(c) == broken[c]

\* next_line yields an error, or None after the client's last line.
StreamEnds(c) == broken[c] \/ (~writing[c] /\ up[c] = << >>)

\* The loop ends: the write task is aborted with what it has not written yet,
\* which closes the socket; request tasks run on.
Close(c) ==
    /\ Open(c) /\ StreamEnds(c)
    /\ closed' = [closed EXCEPT ![c] = TRUE]
    /\ outq' = [outq EXCEPT ![c] = << >>]
    /\ UNCHANGED <<target, writing, up, down, broken, authed, tasks, executed>>

ServeStep(c) ==
    \/ Authenticate(c) \/ Refuse(c) \/ Spawn(c) \/ WriteOut(c) \/ Close(c)

TaskStep(t) == Execute(t) \/ Respond(t)

==============================================================================
