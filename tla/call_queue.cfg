SPECIFICATION FairSpec
CONSTANTS
  c1 = c1
  c2 = c2
  c3 = c3
  Calls <- ThreeCalls
  Leases = {"l1", "l2", "l3"}
  Priority <- ThirdFirst
  Processes = {"me", "other"}
  Me = "me"
  Free = "free"
  NoLease = "none"
  Modes = {TRUE, FALSE}
  Limit = 1
  MaxSize = 1
  MaxQueue = 1
  DrainLimit = 1
  Threshold = 0
  Bounds <- MCBounds
CHECK_DEADLOCK FALSE
INVARIANTS CountsExact LeasesAccounted
PROPERTIES EveryCallEnds SlotsComeBack
