SPECIFICATION FairSpec
CONSTANTS
  Workflows = {"a", "b"}
  BatchCap = 1
  KeepOnDemand = 2
  KeepTicks = 1
PROPERTY TickCatchesUp
