CONSTANTS
  Tasks = {"draft", "sign"}
  Type <- ReviewType
  Deps <- ReviewDeps
  Required <- AllRequired
  FailurePolicy <- AllBlock
  RejectionPolicy <- AllRevise
  MaxAttempts <- OneAttempt
  Titles = {"x", "y"}
  Reconcilers = {r1, r2}
  Web = Web
  NoOne = NoOne
  NoHash = NoHash
  DispatchBatchCap = 2
  MaxVersion = 3
  MaxRows = 2
  MaxCrashes = 1
SPECIFICATION Spec
SYMMETRY ReconcilerSymmetry
INVARIANTS
  TypeOK
  OpenApprovalsFresh
PROPERTIES
  NoStaleSignOff
