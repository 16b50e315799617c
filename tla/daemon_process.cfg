SPECIFICATION Spec
CONSTANTS
    d1 = d1
    d2 = d2
    c1 = c1
    c2 = c2
    Daemons = {d1, d2}
    Clients = {c1, c2}
    Ops = {"start", "restart", "stop", "doctor"}
    MaxOps = 3
    MaxInodes = 2
    NoOne = NoOne
INVARIANT OneOwner
PROPERTIES OnlyCleanupTakes OrphanExits
CHECK_DEADLOCK FALSE
