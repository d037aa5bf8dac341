SPECIFICATION Spec
CONSTANTS
    Tasks = {"prep", "ship", "ad", "all"}
    Editors = {e1, e2}
    InitSpecs <- MCSpecs
    Ops <- MCOps
    MaxLock = 3
    MaxEdits = 2
INVARIANTS
    AnchorsHold
    CriticalIsWhatDelays
PROPERTIES
    FrozenTasksStay
    EditsAreNotLost
    PreviewIsKept
SYMMETRY EditorSymmetry
CHECK_DEADLOCK FALSE
