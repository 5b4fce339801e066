------------------------------ MODULE RpcChannel ------------------------------
(***************************************************************************)
(* What a command may rely on when it sends its request to a remote        *)
(* daemon, whatever connections, retries and timeouts are behind it.       *)
(***************************************************************************)
EXTENDS Naturals

CONSTANTS
    Call,        \* requests
    Repeatable,  \* those that may be run twice
    None         \* no outcome yet

VARIABLES
    runs,     \* how often each request has been run
    outcome   \* what its sender was told

channelVars == <<runs, outcome>>

\* The request went nowhere; the sender may do it again.
NotSent == {"unreachable", "refused"}
\* It may have run, may yet run, or may have got lost.
Unknown == {"error", "disconnected", "timeout"}

MayRun(k) ==
    IF k \in Repeatable THEN runs[k] < 2 ELSE runs[k] = 0 /\ outcome[k] \notin NotSent

Init ==
    /\ runs = [k \in Call |-> 0]
    /\ outcome = [k \in Call |-> None]

\* Also after the sender has been told it timed out or was disconnected.
Run(k) ==
    /\ MayRun(k)
    /\ runs' = [runs EXCEPT ![k] = @ + 1]
    /\ UNCHANGED outcome

Tell(k, r) ==
    /\ outcome[k] = None
    /\ outcome' = [outcome EXCEPT ![k] = r]
    /\ UNCHANGED runs

Succeed(k) == runs[k] > 0 /\ Tell(k, "ok")
Fail(k) ==
    \/ \E r \in Unknown : Tell(k, r)
    \/ \E r \in NotSent : (k \in Repeatable \/ runs[k] = 0) /\ Tell(k, r)

Settle(k) == Succeed(k) \/ Fail(k)

Next == \E k \in Call : Run(k) \/ Settle(k)
Spec == Init /\ [][Next]_channelVars
FairSpec == Spec /\ \A k \in Call : WF_channelVars(Settle(k))

==============================================================================
