-------------------------- MODULE MCAppServerSession --------------------------
(***************************************************************************)
(* Small instances of AppServerSession.  "pkg" is a workspace inside the   *)
(* directory of "repo", which owns the session.                            *)
(***************************************************************************)
EXTENDS AppServerSession, TLC

MCUnder == [w \in Workspace |-> IF w = "pkg" THEN {"repo", "pkg"} ELSE {w}]
MCRoot == [w \in Workspace |-> IF w = "pkg" THEN 2 ELSE 1]

Perms == Permutations(Caller) \cup Permutations(Thread \ Memory)
==============================================================================
