----------------------------- MODULE RemoteSystem -----------------------------
(***************************************************************************)
(* Remote mode: the client (RemoteBackend) and the daemons it may be       *)
(* pointed at (DaemonConnection), joined by the two directions of each     *)
(* socket, on a network that fails and with daemons that crash.            *)
(***************************************************************************)
EXTENDS RemoteBackend

CONSTANTS
    DaemonToken,  \* config.token of each daemon
    Permits,      \* MAX_IN_FLIGHT_RPC_PER_CONNECTION
    MaxEvents     \* bound on network failures, daemon crashes and settings updates

ASSUME DaemonAssumption ==
    /\ DaemonToken \in [Host -> Token \cup {None}]
    /\ Permits \in Nat \ {0}
    /\ MaxEvents \in Nat

VARIABLES
    authed, tasks, outq, executed,  \* the daemons' (see DaemonConnection)
    events                          \* faults and settings updates so far

D == INSTANCE DaemonConnection

served == <<authed, tasks, outq, executed>>
vars == <<clientVars, wires, served, events>>

------------------------------------------------------------------------------
Init ==
    /\ ClientInit /\ WireInit /\ D!ServedInit
    /\ events = 0

ClientSteps(k) == CallStep(k) /\ UNCHANGED <<served, events>>
ConnSteps(c) == ConnStep(c) /\ UNCHANGED <<served, events>>

\* The accept loop takes the connection the client has opened.
Connects(k, c) ==
    /\ Connect(k, c)
    /\ D!Accept(c, cfg[k].host)
    /\ UNCHANGED events

\* What the client keeps when only a daemon moves.
untouched == <<settings, resetting, cached, caller, target, inner, overtaken, events>>

ServeSteps(c) == D!ServeStep(c) /\ UNCHANGED untouched
TaskSteps(c) == \E t \in tasks : t.conn = c /\ D!TaskStep(t) /\ UNCHANGED untouched

Saves ==
    /\ events < MaxEvents
    /\ SaveSettings
    /\ events' = events + 1
    /\ UNCHANGED served

Resets == ResetClient /\ UNCHANGED <<served, events>>

\* The network drops a connection: what is under way is lost.
Break(c) ==
    /\ target[c] # None /\ ~broken[c] /\ events < MaxEvents
    /\ broken' = [broken EXCEPT ![c] = TRUE]
    /\ up' = [up EXCEPT ![c] = << >>]
    /\ down' = [down EXCEPT ![c] = << >>]
    /\ events' = events + 1
    /\ UNCHANGED <<clientVars, closed, served>>

\* A daemon dies, with its connections and tasks, and is started again.  The
\* kernel closes its sockets, and resets those with lines it had not read.
Crash(host) ==
    LET lost == {c \in Conn : D!Open(c) /\ target[c].host = host}
        reset == {c \in lost : up[c] # << >>}
    IN
    /\ events < MaxEvents /\ lost # {}
    /\ closed' = [c \in Conn |-> closed[c] \/ c \in lost]
    /\ broken' = [c \in Conn |-> broken[c] \/ c \in reset]
    /\ up' = [c \in Conn |-> IF c \in lost THEN << >> ELSE up[c]]
    /\ down' = [c \in Conn |-> IF c \in reset THEN << >> ELSE down[c]]
    /\ outq' = [c \in Conn |-> IF c \in lost THEN << >> ELSE outq[c]]
    /\ tasks' = {t \in tasks : target[t.conn].host # host}
    /\ events' = events + 1
    /\ UNCHANGED <<clientVars, authed, executed>>

Next ==
    \/ \E k \in Call : ClientSteps(k)
    \/ \E k \in Call, c \in Conn : Connects(k, c)
    \/ \E c \in Conn : ConnSteps(c) \/ ServeSteps(c) \/ TaskSteps(c) \/ Break(c)
    \/ \E host \in Host : Crash(host)
    \/ Saves \/ Resets

Spec == Init /\ [][Next]_vars

\* Both processes run their tasks; the timers of a call are among its steps.
\* Nothing makes a connection attempt succeed, a user save or the network fail.
FairSpec ==
    /\ Spec
    /\ \A k \in Call : WF_vars(ClientSteps(k))
    /\ \A c \in Conn :
         /\ WF_vars(ConnSteps(c))
         /\ WF_vars(~broken[c] /\ ServeSteps(c))
         /\ WF_vars(TaskSteps(c))
    /\ WF_vars(Resets)

------------------------------------------------------------------------------
TypeOK ==
    /\ settings \in Setting /\ resetting \in BOOLEAN
    /\ cached \in Conn \cup {None}
    /\ pc \in [Call -> {"look", "resolve", "connect", "publish", "check", "pend",
                        "send", "wait", "clear", "done"}]
    /\ attempt \in [Call -> 1..2]
    /\ cfg \in [Call -> Setting \cup {None}]
    /\ use \in [Call -> Conn \cup {None}]
    /\ first \in [Call -> Conn \cup {None}]
    /\ asks \in [Call -> Call \cup {Auth, None}]
    /\ id \in [Call -> Nat]
    /\ reply \in [Call -> Answers \cup {NoReply, Disconnected}]
    /\ result \in [Call -> {None, "ok", "error", "refused", "disconnected", "timeout",
                             "unreachable"}]
    /\ late \subseteq Call
    /\ target \in [Conn -> Setting \cup {None}]
    /\ connected \in [Conn -> BOOLEAN]
    /\ \A c \in Conn : pending[c] \subseteq [id : Nat, call : Call]
    /\ nextId \in [Conn -> Nat]
    /\ queue \in [Conn -> Seq(Requests)] /\ up \in [Conn -> Seq(Requests)]
    /\ \A c \in Conn : Len(queue[c]) <= Capacity
    /\ writing \in [Conn -> BOOLEAN] /\ reading \in [Conn -> BOOLEAN]
    /\ broken \in [Conn -> BOOLEAN] /\ closed \in [Conn -> BOOLEAN]
    /\ authed \in [Conn -> BOOLEAN]
    /\ executed \in [Call -> 0..2]

\* The answer a call gets is the answer to what it asked, although requests of
\* many calls share a connection and the daemon answers them out of order, and
\* although a call gives up ids whose answers are still to come.
OwnAnswer ==
    \A k \in Call : pc[k] = "wait" /\ reply[k] \in Answers => reply[k].method = asks[k]

\* A result is returned only for a call some daemon has run.
ResultsAreReal == \A k \in Call : result[k] = "ok" => executed[k] > 0

\* A disconnection makes nobody run a call twice that is not retry-safe, and no
\* call more than twice (test retries_only_retry_safe_methods_after_disconnect).
NotRepeated ==
    \A k \in Call : executed[k] <= IF k \in Retryable THEN 2 ELSE 1

\* Whoever is told that the daemon is unreachable, or has refused the request,
\* may do it again: unless it was a retry, it has not run.
UnsentNeverRuns ==
    \A k \in Call \ Retryable :
        pc[k] = "done" /\ result[k] \in {"unreachable", "refused"} => executed[k] = 0

\* What a call returns says what became of it, whatever was lost on the way.
ResultsTellWhatRan == ResultsAreReal /\ NotRepeated /\ UnsentNeverRuns

\* A call that travels with the daemon's own token is never refused: a client is
\* shared only after the handshake, and the daemon reads one line at a time.
TokenHolderServed ==
    \A k \in Call :
        pc[k] = "wait" /\ reply[k] = [method |-> k, status |-> "refused"] =>
             target[use[k]].token # D!Required(use[k])

\* A daemon runs requests only for those who hold its token.
OnlyTokenHolders ==
    \A t \in tasks : D!Required(t.conn) # None => target[t.conn].token = D!Required(t.conn)

\* The token alone decides whether a daemon serves a call.
TokensDecide == TokenHolderServed /\ OnlyTokenHolders

\* pending holds no request whose caller has given it up: what stays there is
\* what somebody still waits for.
NoForgottenRequest ==
    \A c \in Conn : \A e \in pending[c] :
        pc[e.call] \in {"send", "wait"} /\ use[e.call] = c /\ id[e.call] = e.id

\* A call that waits on a lost connection has been told, but for those that
\* entered pending after it was drained: these sit out the 300 s.
LostWaitersAreTold ==
    \A k \in Call :
        pc[k] = "wait" /\ ~connected[use[k]] /\ reply[k] = NoReply => k \in late

\* The table of open requests agrees with those who wait, also after a loss.
PendingIsAwaited == NoForgottenRequest /\ LostWaitersAreTold

\* The cached client belongs to the saved settings, unless the update is still
\* being carried out or met the client on its way to be shared.
CachedIsCurrent ==
    cached # None /\ target[cached] # settings => resetting \/ cached \in overtaken

\* A connection no client refers to winds down: the client's tasks end, and the
\* daemon closes its end unless the network keeps it from hearing of that.
UnusedConnectionsClose ==
    \A c \in Conn :
        (target[c] # None /\ ~Referenced(c))
            ~> (~writing[c] /\ ~reading[c] /\ (closed[c] \/ broken[c]))

\* What commands may rely on: a call runs at most once, a retry-safe one twice;
\* "ok" means that it ran; a call that was refused or found nobody to send to
\* never runs, unless it was a retry; and every call returns.
Channel == INSTANCE RpcChannel WITH
    Repeatable <- Retryable,
    runs <- executed,
    outcome <- [k \in Call |-> IF pc[k] = "done" THEN result[k] ELSE None]
ImplementsFairChannel == Channel!FairSpec

==============================================================================
