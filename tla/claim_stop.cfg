SPECIFICATION Spec
CONSTANTS
    Clients = {c1, c2}
    Ops = {"trigger", "stop"}
    MayFail = {}
    SetupFields = 0
    Gated = FALSE
    MaxOps = 3
    MaxCrashes = 0
PROPERTY StaleStopFindsItEnded
CHECK_DEADLOCK FALSE
