SPECIFICATION FairSpec
CONSTANTS
  Streams <- ManyStreams
  BufferSizes = {1, 2}
  QueueSize = 1
  MaxWrites = 1
INVARIANTS StreamIsKept ClosedOnce
PROPERTIES EOFIsComplete BiRelayEnds
CHECK_DEADLOCK FALSE
