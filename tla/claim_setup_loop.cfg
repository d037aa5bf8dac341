SPECIFICATION FairSpec
CONSTANTS
    Clients = {c1, c2}
    Ops = {"trigger", "approve"}
    MayFail = {}
    SetupFields = 2
    Gated = FALSE
    MaxOps = 3
    MaxCrashes = 0
PROPERTY QueuedRunsStart
CHECK_DEADLOCK FALSE
