SPECIFICATION PeerFairSpec
CONSTANTS
  Clients = {c1, c2}
  Auth = {c1}
  Forward = {c2}
  Offers <- OneMethod
  Requests <- ThreeRequests
  IDs = {1, 2}
  QueueSize = 1
  MaxAnswers = 1
CHECK_DEADLOCK FALSE
INVARIANTS ServedByTheProtocol ReplyFindsItsConnection EntriesAreRemoved
PROPERTY NothingLeftBehind
