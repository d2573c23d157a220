SPECIFICATION FairSpec
CONSTANTS
  Tunnels = {t1, t2}
  SendQueueSize = 1
  RecvQueueSize = 1
  MaxBlocks = 2
INVARIANTS ExactlyOnePlace LossNeedsFailure ControlLeaksOnceAtTheEnd
PROPERTIES BlocksArriveOrAreLost
CHECK_DEADLOCK FALSE
