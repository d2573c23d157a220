SPECIFICATION FairSpec
CONSTANTS
  Tunnels = {t1, t2, t3, t4}
  Authorised = {t1, t2, t3}
  MaxPeers = 3
INVARIANTS OneLivePeer CountdownMatchesPool
PROPERTIES NotDestroyedInUse ConnectionSettles EmptyPeerRemoved
CHECK_DEADLOCK FALSE
