SPECIFICATION FairSpec
CONSTANTS
    Clients = {c1, c2}
    Ops = {"schedule"}
    MayFail = {}
    SetupFields = 0
    Gated = TRUE
    MaxOps = 1
    MaxCrashes = 0
PROPERTY ArmedRunsFire
CHECK_DEADLOCK FALSE
