SPECIFICATION Spec
CONSTANTS
    Tasks = {"prep", "ship", "ad", "all"}
    Editors = {e1}
    InitSpecs <- MCSpecs
    Ops <- MCOps
    MaxLock = 2
    MaxEdits = 1
INVARIANT SummaryAnchorsHold
CHECK_DEADLOCK FALSE
