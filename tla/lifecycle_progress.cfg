SPECIFICATION FairSpec
CONSTANTS
    Names = {alpha, beta}
    Tenants = {t1}
    Requests = {r1}
    MaxServers = 2
    PoolSize = 1
    None = None
    MaxLives = 2
    MaxEvents = 1
    MaxFaults = 1
    MaxCrashes = 1
    OthersAct = FALSE
PROPERTIES
    KeepsLedger
    ProvisioningEnds
    DeletingEnds
CHECK_DEADLOCK FALSE
