SPECIFICATION FairSpec
CONSTANTS
  Callers = {"c1", "c2", "c3"}
  Workflows = {"a", "b"}
  PoolMax = 2
INVARIANT LockUpIsLoadGraph
PROPERTY TurnsUnlessLockedUp
CHECK_DEADLOCK FALSE
