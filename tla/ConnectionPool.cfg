SPECIFICATION FairSpec
CONSTANTS
  IDs = {c1, t1}
  ControlIDs = {t1}
  LastBlock = 2
  QueueSize = 1
  MaxLeaks = 2
  MaxConns = 2
CHECK_DEADLOCK FALSE
INVARIANT LiveIsMapped
PROPERTIES StrayLeaves SlowIsTemporary
