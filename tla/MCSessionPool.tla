---------------------------- MODULE MCSessionPool ----------------------------
(***************************************************************************)
(* Small instances of SessionPool.  "root" is a main workspace with the    *)
(* worktrees "tree" and "tree2"; "solo" and "extra" are main workspaces.   *)
(***************************************************************************)
EXTENDS SessionPool, TLC

Req(kind, ws, a) == [kind |-> kind, ws |-> ws, args |-> a]

MCParent ==
    [w \in Workspace |-> IF w \in {"tree", "tree2"} THEN "root" ELSE None]

\* Nothing is removed: workspaces are added, respawned and synchronised.
AttachRequests ==
    {Req("add", "solo", None), Req("worktree", "tree", None), Req("args", "tree", "fast"),
     Req("sync", "root", None)}

\* Workspaces come and go, without new worktrees.
RemovalRequests ==
    {Req("connect", "tree", None), Req("connect", "solo", None), Req("args", "tree", "fast"),
     Req("remove", "root", None), Req("removeWorktree", "tree", None)}

\* The daemon: a client lists workspaces (and so synchronises) meanwhile.
SyncRequests ==
    {Req("connect", "root", None), Req("gitUrl", "solo", None), Req("args", "root", "fast"),
     Req("sync", "root", None)}

Perms == Permutations(Task) \cup Permutations(Proc)
==============================================================================
