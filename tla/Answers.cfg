SPECIFICATION Spec
CONSTANTS
    None = None
    Caller = {c1, c2}
    Workspace = {"repo"}
    Thread = {t1}
    Memory = {}
    Owner = "repo"
    Root <- MCRoot
    Under <- MCUnder
    Prompt = {t1}
    Method = {"thread/start", "turn/start"}
    MaxId = 2
    MaxOut = 1
CHECK_DEADLOCK FALSE
PROPERTIES
    ExitSettlesRequests
INVARIANTS
    OwnAnswer
    NoForgottenRequest
