CONSTANTS w = w t1 = t1 t2 = t2 m1 = m1 m2 = m2 None = None
Workspace = w
Workspaces = {w}
Threads = {t1, t2}
Messages = {m1, m2}
Scenes <- Every
MaxTurns = 2
Lead = 1
Batch = 2
MaxWire = 1
SPECIFICATION FairSpec
PROPERTIES QueueDrains
INVARIANTS TypeOK QuietMeansIdle RunningIsShown NoMessageVanishes StopHitsItsTurn
CHECK_DEADLOCK FALSE
