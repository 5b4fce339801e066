SPECIFICATION FairSpec
CONSTANTS
    None = None
    Auth = Auth
    Call = {k1}
    Retryable = {k1}
    Conn = {c1, c2, c3}
    Host = {"home"}
    Token = {"secret"}
    Setting <- OneSetting
    DaemonToken <- HomeToken
    Capacity = 1
    Permits = 1
    MaxEvents = 2
CHECK_DEADLOCK FALSE
PROPERTIES
    ImplementsFairChannel
    UnusedConnectionsClose
