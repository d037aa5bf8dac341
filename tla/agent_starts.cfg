SPECIFICATION FairSpec
CONSTANTS
    Clients = {c1, c2}
    Ops = {"trigger", "answer", "stop", "bulkStop", "resume"}
    MayFail = {"trigger", "resume"}
    SetupFields = 0
    Gated = FALSE
    MaxOps = 5
    MaxCrashes = 0
PROPERTY QueuedRunsStart
CHECK_DEADLOCK FALSE
