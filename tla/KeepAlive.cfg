SPECIFICATION KeepAliveSpec
CONSTANTS
  PingInterval = 2
  TunnelRecvTimeoutSec = 3
  TunnelBlockTimeoutSec = 2
  RoundTrip = 2
  MaxFaults = 5
  Horizon = 15
INVARIANTS GoodTunnelStays SilenceIsNoticed 
CHECK_DEADLOCK FALSE
