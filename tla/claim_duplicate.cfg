CONSTANTS
  Tasks = {"agent"}
  Type <- PairType
  Deps <- NoDeps
  Required <- AllRequired
  FailurePolicy <- AllBlock
  RejectionPolicy <- AllRevise
  MaxAttempts <- TwoAttempts
  Titles = {"x"}
  Reconcilers = {r1, r2}
  Web = Web
  NoOne = NoOne
  NoHash = NoHash
  DispatchBatchCap = 1
  MaxVersion = 1
  MaxRows = 1
  MaxCrashes = 1
SPECIFICATION Spec
INVARIANTS
  NeverADuplicate
