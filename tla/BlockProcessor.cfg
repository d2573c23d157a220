SPECIFICATION FairSpec
CONSTANTS
  IDSpace = 5
  RecvQueueSize = 2
  OrderedRecvQueueSize = 1
  MaxBlocks = 4
INVARIANT NothingDiscarded
PROPERTIES KilledOnlyForHole ImplementsStream HoleEnds Delivered
CHECK_DEADLOCK FALSE
