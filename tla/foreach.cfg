SPECIFICATION FairSpec
CONSTANTS
  Reconcilers = {"r1", "r2"}
  StableIds <- MCStableIds
  Outputs <- MCOutputs
  Slug <- MCSlug
  Padded <- MCPadded
  MaxFanout = 2
  DispatchCap = 1
  MaxCrashes = 1
  Malformed = Malformed
  NoKey = NoKey
  NoSlug = NoSlug
INVARIANTS OneChildPerItem RollupIsFinal
PROPERTY CancelledForCause FanOutSettles
CHECK_DEADLOCK FALSE
