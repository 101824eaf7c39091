SPECIFICATION Spec
CONSTANTS
    Names = {alpha, beta, gamma}
    Tenants = {t1, t2}
    Requests = {r1, r2}
    MaxServers = 2
    PoolSize = 1
    None = None
    MaxLives = 3
    MaxEvents = 0
    MaxFaults = 1
    MaxCrashes = 1
    OthersAct = FALSE
SYMMETRY FullSymmetry
INVARIANTS
    CapHeld
    OneCreatePerTenant
CHECK_DEADLOCK FALSE
