SPECIFICATION ProgramSpec
CONSTANTS
  Setups <- SomeSetups
  Addresses = {"127.0.0.1", "192.168.0.2", "2001:db8::1", "2001:db8::2"}
  V4 = {"127.0.0.1", "192.168.0.2"}
  First32 <- FirstBits
  Handlers = {h1, h2}
  HistorySize = 2
  Width = 2
  BlockSizes = {3}
  MaxBytes = 6
  MaxSamples = 3
  MaxRequests = 1
INVARIANTS RunsAsConfigured PagesGuarded RateIsExact MetricsAreCurrent
SYMMETRY HandlerSymmetry
CHECK_DEADLOCK FALSE
