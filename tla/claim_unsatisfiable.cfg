CONSTANTS
  Tasks = {"try", "then", "undo"}
  Type <- OrphanType
  Deps <- OrphanDeps
  Required <- AllRequired
  FailurePolicy <- BranchPolicy
  RejectionPolicy <- AllRevise
  MaxAttempts <- OneAttempt
  Titles = {"x"}
  Reconcilers = {r1}
  Web = Web
  NoOne = NoOne
  NoHash = NoHash
  DispatchBatchCap = 1
  MaxVersion = 1
  MaxRows = 1
  MaxCrashes = 0
SPECIFICATION FairSpec
PROPERTIES
  UnsatisfiableIsSkipped
