SPECIFICATION PersistentSpec
CONSTANTS
    Names = {alpha}
    Tenants = {t1}
    Requests = {r1}
    MaxServers = 1
    PoolSize = 2
    None = None
    MaxLives = 1
    MaxEvents = 6
    MaxFaults = 1
    MaxCrashes = 0
    OthersAct = TRUE
PROPERTIES
    FailedSlotComesBack
CHECK_DEADLOCK FALSE
