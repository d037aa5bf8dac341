CONSTANTS
  Tasks = {"draft", "sign"}
  Type <- ReviewType
  Deps <- ReviewDeps
  Required <- AllRequired
  FailurePolicy <- AllBlock
  RejectionPolicy <- AllRevise
  MaxAttempts <- OneAttempt
  Titles = {"x", "y"}
  Reconcilers = {r1}
  Web = Web
  NoOne = NoOne
  NoHash = NoHash
  DispatchBatchCap = 2
  MaxVersion = 4
  MaxRows = 1
  MaxCrashes = 0
SPECIFICATION Spec
INVARIANTS
  ConsumedIsSettled
