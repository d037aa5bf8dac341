CONSTANTS
  Tasks = {"agent", "other"}
  Type <- PairType
  Deps <- NoDeps
  Required <- AllRequired
  FailurePolicy <- AllBlock
  RejectionPolicy <- AllRevise
  MaxAttempts <- OneAttempt
  Titles = {"x"}
  Reconcilers = {r1, r2}
  Web = Web
  NoOne = NoOne
  NoHash = NoHash
  DispatchBatchCap = 1
  MaxVersion = 1
  MaxRows = 1
  MaxCrashes = 0
SPECIFICATION Spec
INVARIANTS
  TerminalHasNoLiveDispatch
