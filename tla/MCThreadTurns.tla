----------------------------- MODULE MCThreadTurns -----------------------------
EXTENDS ThreadTurns, TLC
CONSTANTS w, t1, t2, m1, m2

Typed(a, b) == m1 :> a @@ m2 :> b
Plain == [kind |-> Typed("text", "text"), steer |-> TRUE, followUp |-> "queue",
          detached |-> FALSE, tells |-> "nothing",
          stops |-> 0, reads |-> 0, faults |-> 0, asks |-> 0]

(***************************************************************************)
(* What the runs let happen: a stop and a failure, questions, a refresh    *)
(* and a failure, a follow-up that steers, a review of either kind, a      *)
(* thread started in between, and a prompt that does not expand; the       *)
(* server tells of statuses before or after what changes them, or not.     *)
(***************************************************************************)
Common ==
  {[Plain EXCEPT !.stops = 1, !.faults = 1],
   [Plain EXCEPT !.asks = 1, !.faults = 1, !.steer = FALSE, !.tells = "after"],
   [Plain EXCEPT !.kind[m2] = "new", !.stops = 1, !.tells = "before"],
   [Plain EXCEPT !.followUp = "steer", !.reads = 1, !.faults = 1, !.tells = "before"],
   [Plain EXCEPT !.kind[m1] = "review", !.stops = 1, !.tells = "after"],
   [Plain EXCEPT !.kind[m1] = "review", !.faults = 1],
   [Plain EXCEPT !.kind[m1] = "review", !.detached = TRUE, !.tells = "before"],
   [Plain EXCEPT !.kind[m1] = "new", !.faults = 1, !.tells = "after"]}

\* Messages that start no turn of their thread.
Stuck == {[Plain EXCEPT !.kind[m1] = "broken"],  [Plain EXCEPT !.kind[m1] = "command"]}
Every == Common \cup Stuck
=============================================================================
