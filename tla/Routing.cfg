SPECIFICATION Safety
CONSTANTS
    None = None
    Caller = {c1}
    Workspace = {"repo", "pkg"}
    Thread = {t1, t2, m1}
    Memory = {m1}
    Owner = "repo"
    Root <- MCRoot
    Under <- MCUnder
    Prompt = {}
    Method = {"thread/start", "thread/list", "turn/start"}
    MaxId = 2
    MaxOut = 1
CHECK_DEADLOCK FALSE
INVARIANTS
    TypeOK
    EventsGoHome
    MemoryStaysHidden
SYMMETRY Perms
