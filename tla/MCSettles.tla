------------------------------- MODULE MCSettles -------------------------------
(***************************************************************************)
(* Small instances of the parts with something that must happen in the     *)
(* end, under the fairness their code justifies.  One behaviour looks at   *)
(* one part, as in MCFront.                                                *)
(***************************************************************************)
EXTENDS Naturals, TLC

CONSTANT None

VARIABLES
  focus,
  s1, s2, s3, s4, s5, s6, s7, s8, s9, s10, s11, s12, s13, s14, s15, s16, s17, s18, s19

\* A workspace and its worktree, connected, respawned and synchronised by two handlers.
PoolRequests ==
  {[kind |-> "connect", ws |-> "tree", args |-> None], [kind |-> "args", ws |-> "tree", args |-> "fast"],
   [kind |-> "sync", ws |-> "root", args |-> None]}
Pool == INSTANCE SessionPool WITH
  Task <- {"t1", "t2"}, Proc <- {"p1", "p2"}, Workspace <- {"root", "tree"},
  Parent <- ("root" :> None) @@ ("tree" :> "root"), ArgSet <- {"default", "fast"},
  DefaultArgs <- "default", InitEntries <- {"root", "tree"}, Request <- PoolRequests,
  entries <- s1, written <- s2, dirs <- s3, sessions <- s4, proc <- s5, wsIds <- s6,
  args <- s7, leaked <- s8, late <- s9, lock <- s10, pc <- s11, req <- s12, cur <- s13,
  new <- s14, todo <- s15, gone <- s16, kept <- s17, victim <- s18, doomed <- s19

\* Every hook of PanelData, over two subjects.
DataHooks ==
  {"log", "commit", "issues", "pulls", "pullDiffs", "pullComments", "remote", "scan", "diffs",
   "status", "usage", "defaults", "branches", "skills", "models", "prompts", "modes", "files", "apps"}
Panel == INSTANCE PanelData WITH
  Subject <- {"a", "b"}, Size <- [s \in {"a", "b"} |-> 1], Hooks <- DataHooks,
  MaxFlight <- 2, MaxVersion <- 2, MaxMoves <- 2, MaxFaults <- 1, hook <- s1, want <- s2,
  ran <- s3, shown <- s4, flight <- s5, busy <- s6, fetched <- s7, kept <- s8, apps <- s9,
  world <- s10, left <- s11, best <- s12

\* A thread watched, and another one.
LiveBudgets ==
  LET B(s, m, h, n, o, f, d, e) ==
        [switches |-> s, blurs |-> m, hides |-> h, news |-> n, others |-> o, fails |-> f, drops |-> d, ends |-> e] IN
  {B(3, 0, 0, 0, 0, 0, 0, 0), B(2, 0, 0, 0, 1, 0, 0, 0), B(1, 1, 0, 0, 0, 0, 0, 0),
   B(0, 0, 1, 0, 1, 0, 0, 0), B(1, 0, 0, 1, 0, 1, 0, 0), B(1, 0, 0, 1, 0, 0, 1, 0),
   B(0, 1, 0, 2, 0, 1, 1, 0), B(0, 0, 1, 1, 0, 0, 1, 0), B(0, 0, 0, 1, 0, 0, 0, 1)}
Live == INSTANCE LiveConnection WITH
  Thread <- {"t1", "t2"}, First <- "t1", MaxAttempts <- 2, MaxWire <- 2,
  Budgets <- LiveBudgets, key <- s1, listed <- s2, win <- s3, hook <- s4, poll <- s5,
  seen <- s6, wire <- s7, leaving <- s8, daemon <- s9, left <- s10, sound <- s11,
  back <- s12

\* Wt is a worktree of wm, which is there at the start; wn is not.
ListPlans ==
  LET B(a, r, s, g, x, f, k) ==
        [adds |-> a, removes |-> r, sets |-> s, groups |-> g, renames |-> x, fails |-> f, selects |-> k] IN
  {B(1, 1, 0, 0, 0, 0, 0), B(0, 0, 2, 0, 0, 1, 0), B(0, 0, 1, 2, 0, 0, 0),
   B(0, 0, 0, 0, 1, 1, 0), B(1, 0, 0, 0, 0, 1, 0), B(1, 0, 0, 0, 0, 0, 1)}
List == INSTANCE WorkspaceList WITH
  Workspace <- {"wm", "wn", "wt"},
  Parent <- ("wm" :> None) @@ ("wn" :> None) @@ ("wt" :> "wm"), Group <- {"g"},
  Known <- <<"wm">>, Calls <- {1, 2}, Plans <- ListPlans, rows <- s1, active <- s2,
  ref <- s3, groups <- s4, deleting <- s5, loaded <- s6, cycle <- s7, restoring <- s8,
  adding <- s9, calls <- s10, saves <- s11, stored <- s12, left <- s13

----------------------------------------------------------------------------
vars == <<focus, s1, s2, s3, s4, s5, s6, s7, s8, s9, s10, s11, s12, s13, s14, s15, s16, s17, s18, s19>>
Unused == "unused"

Init ==
  \/ focus = "pool" /\ Pool!Init
  \/ focus = "panel" /\ Panel!Init /\ s13 = Unused /\ s14 = Unused /\ s15 = Unused /\ s16 = Unused /\ s17 = Unused /\ s18 = Unused /\ s19 = Unused
  \/ focus = "live" /\ Live!Init /\ s13 = Unused /\ s14 = Unused /\ s15 = Unused /\ s16 = Unused /\ s17 = Unused /\ s18 = Unused /\ s19 = Unused
  \/ focus = "list" /\ List!Init /\ s14 = Unused /\ s15 = Unused /\ s16 = Unused /\ s17 = Unused /\ s18 = Unused /\ s19 = Unused

Next ==
  \/ focus = "pool" /\ Pool!Next /\ UNCHANGED <<focus>>
  \/ focus = "panel" /\ Panel!Next /\ UNCHANGED <<focus, s13, s14, s15, s16, s17, s18, s19>>
  \/ focus = "live" /\ Live!Next /\ UNCHANGED <<focus, s13, s14, s15, s16, s17, s18, s19>>
  \/ focus = "list" /\ List!Next /\ UNCHANGED <<focus, s14, s15, s16, s17, s18, s19>>

\* A step of a part leaves the other variables alone.
poolVars == <<s1, s2, s3, s4, s5, s6, s7, s8, s9, s10, s11, s12, s13, s14, s15, s16, s17, s18, s19>>
panelVars == <<s1, s2, s3, s4, s5, s6, s7, s8, s9, s10, s11, s12>>
liveVars == <<s1, s2, s3, s4, s5, s6, s7, s8, s9, s10, s11, s12>>
listVars == <<s1, s2, s3, s4, s5, s6, s7, s8, s9, s10, s11, s12, s13>>

Fairness ==
  /\ \A t \in {"t1", "t2"} : WF_poolVars(focus = "pool" /\ Pool!Step(t))
  /\ \A t \in {"t1", "t2"} : SF_poolVars(focus = "pool" /\ Pool!Lock(t))
  /\ WF_panelVars(focus = "panel" /\ Panel!Effects)
  /\ WF_panelVars(focus = "panel" /\ Panel!AppsEffects)
  /\ WF_panelVars(focus = "panel" /\ Panel!AppsRetry)
  /\ WF_panelVars(focus = "panel" /\ Panel!Polls)
  /\ \A s \in {"a", "b"}, v \in 1 .. 2, l \in BOOLEAN : WF_panelVars(focus = "panel" /\ Panel!Answered([of |-> s, at |-> v, latest |-> l]))
  /\ WF_liveVars(focus = "live" /\ Live!Render)
  /\ WF_liveVars(focus = "live" /\ Live!PollEffect)
  /\ WF_liveVars(focus = "live" /\ Live!Hears)
  /\ WF_liveVars(focus = "live" /\ Live!Refreshes)
  /\ WF_liveVars(focus = "live" /\ Live!FocusComes)
  /\ WF_liveVars(focus = "live" /\ Live!Relists)
  /\ \A n \in 1 .. 4 : WF_liveVars(focus = "live" /\ Live!AttemptGoes(n))
  /\ \A t \in {"t1", "t2"} : WF_liveVars(focus = "live" /\ Live!Leaves(t))
  /\ \A t \in {"t1", "t2"} : WF_liveVars(focus = "live" /\ Live!Resumes(t))
  /\ WF_listVars(focus = "list" /\ List!Poll)
  /\ WF_listVars(focus = "list" /\ List!Own)
  /\ \A n \in {1, 2} : WF_listVars(focus = "list" /\ List!Served(n))
  /\ \A n \in {1, 2} : WF_listVars(focus = "list" /\ List!Handle(n))

Spec == Init /\ [][Next]_vars /\ Fairness

----------------------------------------------------------------------------
\* Whatever crashes, every request a handler of the pool has taken is answered,
\* and the lock under which processes are spawned is handed on: again and again a
\* handler serves none.
EveryRequestReturns ==
  \A t \in {"t1", "t2"} : []<>(focus = "pool" => ~Pool!Serves(t))

\* In the end what is wanted is shown and the list of workspaces is the one
\* stored, and a thread that is watched for good is attached (see PanelData,
\* WorkspaceList and LiveConnection).
SettlesInTheEnd ==
  /\ <>[]((focus = "panel" => Panel!Wanted) /\ (focus = "list" => List!Settled))
  /\ <>[](focus = "live" => Live!Watches) => <>[](focus = "live" => Live!Attached)

\* A thread that is polled, or whose reader came back and read it anew, is up to date
\* in the end, whatever was lost or failed meanwhile (see LiveConnection).
ReturnCatchesUp ==
  <>[](focus = "live" => Live!Reads) => <>[](focus = "live" => Live!UpToDate)
=============================================================================
