----------------------------- MODULE MCThreadList -----------------------------
EXTENDS ThreadList, TLC
CONSTANTS w
\* 1 and 6 are the user's, 2 an agent of 1, 3 a detached review of 1, 4 an
\* agent of the review, 5 a background thread, 7 another folder's.
SomeThreads == 1..8
Spawners == [t \in SomeThreads |-> CASE t = 2 -> 1 [] t = 4 -> 3 [] OTHER -> None]
Reviews == [t \in SomeThreads |-> IF t = 3 THEN 1 ELSE None]
Calm == [alive |-> {1}, unborn |-> {}, listed |-> FALSE, lists |-> 1, opens |-> 0,
  removals |-> 0, reports |-> 0, archives |-> 0, faults |-> 0]
\* Pages and a failure; threads that are opened; an agent and a review below
\* one; archives while listing; a thread started and one archived while an older
\* page loads; a removal and an agent's report.
CalmPlans ==
  {[Calm EXCEPT !.alive = {1, 2, 5, 6, 7}, !.lists = 3, !.faults = 1],
   [Calm EXCEPT !.alive = {1, 6}, !.unborn = {8}, !.lists = 1, !.opens = 2],
   [Calm EXCEPT !.unborn = {2, 3, 4}, !.opens = 1, !.archives = 1, !.faults = 1],
   [Calm EXCEPT !.alive = {1, 2, 6}, !.unborn = {5}, !.lists = 2, !.archives = 1],
   [Calm EXCEPT !.alive = {1}, !.lists = 1, !.archives = 2],
   [Calm EXCEPT !.alive = {1, 6, 7}, !.unborn = {8}, !.lists = 2, !.opens = 1, !.archives = 1],
   [Calm EXCEPT !.alive = {1, 6}, !.unborn = {2}, !.lists = 1, !.removals = 1, !.reports = 1, !.faults = 1],
   [Calm EXCEPT !.alive = {1, 6}, !.lists = 2, !.removals = 1, !.faults = 1]}
=============================================================================
