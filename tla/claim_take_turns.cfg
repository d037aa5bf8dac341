SPECIFICATION FairSpec
CONSTANTS
  Callers = {"c1", "c2"}
  Workflows = {"a", "b"}
  PoolMax = 2
PROPERTY WorkersTakeTurns
CHECK_DEADLOCK FALSE
