SPECIFICATION FairSpec
CONSTANTS
    Name = alpha
    Tenants = {t1}
    factions = factions
    economy = economy
    Plugins <- MCPlugins
    Defaults <- MCDefaults
    Extras = {economy}
    Catalogs <- MCCatalogs
    Requests = {r1, r2}
    None = None
    MaxRequests = 2
    MaxLives = 1
    MaxFaults = 1
    MaxCrashes = 1
INVARIANTS
    TypeOK
    LockHeld
    Closed
    Agreement
    InstallsComplete
    RemovedStaysRemoved
PROPERTIES
    KeepsSelection
    RequestsAnswer
CHECK_DEADLOCK FALSE
