CONSTANTS
  k1 = k1
  k2 = k2
  k3 = k3
  c1 = c1
  c2 = c2
  Cleaner = Cleaner
  None = None
  Keys <- OneKey
  XKeys <- OneXKey
  Clients <- TwoClients
  Requests <- ColdRequests
  Lifecycles <- SafeOnly
  KillMayFail = FALSE
  MaxSessions = 3
  MaxRequests = 3
  MaxExits = 1
  MaxSweeps = 0
  MaxActive = 2
SPECIFICATION Spec
CHECK_DEADLOCK FALSE
INVARIANTS
  Singleflight
