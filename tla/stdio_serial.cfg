CONSTANTS
  k1 = k1
  k2 = k2
  k3 = k3
  c1 = c1
  c2 = c2
  Cleaner = Cleaner
  None = None
  Keys <- TwoKeys
  XKeys <- TwoXKeys
  Clients <- OneClient
  Requests <- AllRequests
  Lifecycles <- SafeAndStateful
  KillMayFail = TRUE
  MaxSessions = 3
  MaxRequests = 3
  MaxExits = 1
  MaxSweeps = 1
  MaxActive = 1
SPECIFICATION Spec
CHECK_DEADLOCK FALSE
INVARIANTS
  RegistryAgrees
  ViewAgrees
