SPECIFICATION ManagerFairSpec
CONSTANTS
  TunnelNum = 3
  Endpoints <- ThreeAddresses
  Dead = {"a", "b"}
  RetryFailed = FALSE
  MaxDeaths = 3
  MaxErrors = 2
INVARIANTS NeverTooMany RefillPending
PROPERTIES EventuallyFull
CHECK_DEADLOCK FALSE
