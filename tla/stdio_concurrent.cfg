CONSTANTS
  k1 = k1
  k2 = k2
  k3 = k3
  c1 = c1
  c2 = c2
  Cleaner = Cleaner
  None = None
  Keys <- ThreeKeys
  XKeys <- TwoXKeys
  Clients <- TwoClients
  Requests <- ConcurrentRequests
  Lifecycles <- SafeOnly
  KillMayFail = TRUE
  MaxSessions = 3
  MaxRequests = 4
  MaxExits = 0
  MaxSweeps = 0
  MaxActive = 2
SPECIFICATION FairSpec
CHECK_DEADLOCK FALSE
INVARIANTS
  Singleflight
  ExclusiveHeld
PROPERTIES
  Answered
