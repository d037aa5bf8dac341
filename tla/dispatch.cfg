CONSTANTS
  Tasks = {"agent", "check"}
  Type <- ChainType
  Deps <- ChainDeps
  Required <- AllRequired
  FailurePolicy <- AllBlock
  RejectionPolicy <- AllRevise
  MaxAttempts <- TwoAttempts
  Titles = {"x"}
  Reconcilers = {r1, r2}
  Web = Web
  NoOne = NoOne
  NoHash = NoHash
  DispatchBatchCap = 2
  MaxVersion = 2
  MaxRows = 2
  MaxCrashes = 1
SPECIFICATION Spec
SYMMETRY ReconcilerSymmetry
INVARIANTS
  AttemptDiscipline
  LeaseGuardsDispatch
  RetryBudget
  NotifiedAtMostOnce
PROPERTIES
  LegalMoves
  LiveDispatchProtected
