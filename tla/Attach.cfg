SPECIFICATION Safety
CONSTANTS
    None = None
    Task = {t1, t2}
    Proc = {p1, p2, p3}
    Workspace = {"root", "tree", "solo"}
    Parent <- MCParent
    ArgSet = {"default", "fast"}
    DefaultArgs = "default"
    InitEntries = {"root"}
    Request <- AttachRequests
SYMMETRY Perms
INVARIANTS
    TypeOK
    SingleSharedSession
    NoUnknownOrphan
PROPERTIES
    FailedAddLeavesNoTrace
