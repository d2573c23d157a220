SPECIFICATION FairSpec
CONSTANTS
  IDs = {c1, t1}
  ControlIDs = {t1}
  LastBlock = 3
  QueueSize = 1
  MaxLeaks = 2
  MaxConns = 2
CHECK_DEADLOCK FALSE
PROPERTY RelayGoesOn
