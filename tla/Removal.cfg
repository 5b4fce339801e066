SPECIFICATION Safety
CONSTANTS
    None = None
    Task = {t1, t2}
    Proc = {p1, p2}
    Workspace = {"root", "tree", "solo"}
    Parent <- MCParent
    ArgSet = {"default", "fast"}
    DefaultArgs = "default"
    InitEntries = {"root", "tree", "solo"}
    Request <- RemovalRequests
SYMMETRY Perms
INVARIANTS
    ConnectedIsServed
    NoStrandedWorktree
PROPERTIES
    DirectKillIsPrivate
    RespawnReachesEveryWorkspace
