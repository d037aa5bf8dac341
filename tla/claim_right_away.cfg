SPECIFICATION Spec
CONSTANTS
  Workflows = {"a", "b"}
  BatchCap = 2
  KeepOnDemand = 2
  KeepTicks = 1
PROPERTY RequestLeavesAJob
