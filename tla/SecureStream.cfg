SPECIFICATION SecureSpec
CONSTANTS
  Writers = {outbound, pong}
  BlockSizes = {1, 3, 4}
  MaxBlocks = 3
  PayloadMax = 3
  ReadSizes = {1, 2, 4}
CONSTRAINT UpToOverlap
INVARIANTS BlocksArriveWhole RecordsOpen
CHECK_DEADLOCK FALSE
