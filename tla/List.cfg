CONSTANTS w = w None = None PageStart = PageStart
Workspace = w
Workspaces = {w}
Threads <- SomeThreads
Foreign = {7}
Memory = {5}
Spawner <- Spawners
ReviewOf <- Reviews
PageSize = 2
Target = 1
MaxPages = 2
Plans <- CalmPlans
SPECIFICATION Spec
INVARIANTS RowsAreRight EveryThreadIsReachable FamilyIsATree CascadeReachesFamily
CHECK_DEADLOCK FALSE
