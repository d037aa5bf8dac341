SPECIFICATION Spec
CONSTANTS
    Clients = {c1, c2}
    Ops = {"trigger", "reset", "stop", "bulkStop", "reject", "approve", "answer", "resume",
           "schedule", "immediate", "unschedule", "releaseNow"}
    MayFail = {"trigger", "resume", "schedule"}
    SetupFields = 1
    Gated = TRUE
    MaxOps = 4
    MaxCrashes = 1
SYMMETRY Symmetry
VIEW SafetyView
INVARIANT OneDispatchPerQueueing
PROPERTY RevivedByUserOnly
CHECK_DEADLOCK FALSE
