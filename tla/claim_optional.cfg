CONSTANTS
  Tasks = {"agent", "check"}
  Type <- ChainType
  Deps <- ChainDeps
  Required <- NoneRequired
  FailurePolicy <- AllBlock
  RejectionPolicy <- AllRevise
  MaxAttempts <- OneAttempt
  Titles = {"x"}
  Reconcilers = {r1}
  Web = Web
  NoOne = NoOne
  NoHash = NoHash
  DispatchBatchCap = 1
  MaxVersion = 1
  MaxRows = 1
  MaxCrashes = 0
SPECIFICATION Spec
INVARIANTS
  OptionalFailureDoesNotBlock
