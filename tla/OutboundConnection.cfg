SPECIFICATION FairSpec
CONSTANTS
  OrderedRecvQueueSize = 2
  SendQueueSize = 1
  MaxData = 2
  MaxChunks = 2
INVARIANTS OneDisconnect CompleteBeforeDisconnect
PROPERTIES EndsCompletely
CHECK_DEADLOCK FALSE
