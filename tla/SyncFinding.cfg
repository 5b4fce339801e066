SPECIFICATION Safety
CONSTANTS
    None = None
    Task = {t1, t2}
    Proc = {p1, p2}
    Workspace = {"root", "solo"}
    Parent <- MCParent
    ArgSet = {"default", "fast"}
    DefaultArgs = "default"
    InitEntries = {"root"}
    Request <- SyncRequests
PROPERTIES
    SyncKeepsPersistedSessions
