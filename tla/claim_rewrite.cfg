SPECIFICATION Spec
CONSTANTS
    Clients = {c1, c2}
    Ops = {"trigger", "reset", "stop", "resume", "reject", "approve"}
    MayFail = {}
    SetupFields = 1
    Gated = FALSE
    MaxOps = 5
    MaxCrashes = 0
PROPERTY RewriteIsNoOp
CHECK_DEADLOCK FALSE
