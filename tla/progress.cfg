CONSTANTS
  Tasks = {"skipper", "agent", "vetoer"}
  Type <- GateType
  Deps <- GateDeps
  Required <- AllRequired
  FailurePolicy <- AllSkip
  RejectionPolicy <- VetoPolicy
  MaxAttempts <- OneAttempt
  Titles = {"x"}
  Reconcilers = {r1}
  Web = Web
  NoOne = NoOne
  NoHash = NoHash
  DispatchBatchCap = 1
  MaxVersion = 2
  MaxRows = 3
  MaxCrashes = 1
SPECIFICATION FairSpec
PROPERTIES
  ImplementsDurableTasks
  Progress
  DispatchSettles
  RejectionTakesEffect
