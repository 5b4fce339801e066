SPECIFICATION Spec
CONSTANTS
    None = None
    Auth = Auth
    Call = {k1, k2}
    Retryable = {k1}
    Conn = {c1, c2}
    Host = {"home", "open"}
    Token = {"secret", "wrong"}
    Setting <- ManySettings
    DaemonToken <- HomeToken
    Capacity = 1
    Permits = 1
    MaxEvents = 1
SYMMETRY Perms
CHECK_DEADLOCK FALSE
INVARIANTS
    OwnAnswer
    ResultsTellWhatRan
    TokensDecide
    PendingIsAwaited
    CachedIsCurrent
