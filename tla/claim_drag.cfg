SPECIFICATION Spec
CONSTANTS
    Tasks = {"prep", "ship", "ad", "all"}
    Editors = {e1}
    InitSpecs <- MCSpecs
    Ops <- MCOps
    MaxLock = 3
    MaxEdits = 2
PROPERTY DragLands
CHECK_DEADLOCK FALSE
