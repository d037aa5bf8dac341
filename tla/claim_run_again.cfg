SPECIFICATION FairSpec
CONSTANTS
    Clients = {c1, c2}
    Ops = {"trigger", "reset"}
    MayFail = {}
    SetupFields = 0
    Gated = FALSE
    MaxOps = 3
    MaxCrashes = 0
PROPERTY QueuedRunsStart
CHECK_DEADLOCK FALSE
