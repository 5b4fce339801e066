CONSTANTS w = w t1 = t1 t2 = t2 m1 = m1 m2 = m2 None = None
Workspace = w
Workspaces = {w}
Threads = {t1, t2}
Messages = {m1, m2}
Scenes <- Stuck
MaxTurns = 2
Lead = 1
Batch = 2
MaxWire = 1
SPECIFICATION FairSpec
PROPERTIES SentOneAtATime
CHECK_DEADLOCK FALSE
