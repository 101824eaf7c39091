SPECIFICATION Spec
CONSTANTS
    Names = {alpha}
    Tenants = {t1, t2}
    Requests = {r1, r2}
    MaxServers = 1
    PoolSize = 2
    None = None
    MaxLives = 2
    MaxEvents = 3
    MaxFaults = 1
    MaxCrashes = 1
    OthersAct = TRUE
SYMMETRY Symmetry
INVARIANTS
    OnlyOwnerDeletes
CHECK_DEADLOCK FALSE
