SPECIFICATION FairSpec
CONSTANTS
    Clients = {c1, c2}
    Ops = {"immediate"}
    MayFail = {}
    SetupFields = 0
    Gated = FALSE
    MaxOps = 1
    MaxCrashes = 0
PROPERTY QueuedRunsStart
CHECK_DEADLOCK FALSE
