CONSTANTS
  Tasks = {"skipper", "vetoer", "ship", "replace"}
  Type <- VetoType
  Deps <- VetoDeps
  Required <- AllRequired
  FailurePolicy <- ReplaceBlocks
  RejectionPolicy <- VetoPolicy
  MaxAttempts <- OneAttempt
  Titles = {"x"}
  Reconcilers = {r1}
  Web = Web
  NoOne = NoOne
  NoHash = NoHash
  DispatchBatchCap = 4
  MaxVersion = 1
  MaxRows = 1
  MaxCrashes = 1
SPECIFICATION Spec
INVARIANTS
  DispatchedAfterUpstream
  FinishedMeansFinished
  SkippedForCause
  OutcomeIsEarned
PROPERTIES
  TerminalIsFinal
