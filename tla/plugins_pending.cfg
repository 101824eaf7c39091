SPECIFICATION Spec
CONSTANTS
    Name = alpha
    Tenants = {t1}
    factions = factions
    economy = economy
    Plugins <- MCPlugins
    Defaults <- MCDefaults
    Extras = {economy}
    Catalogs <- MCCatalogs
    Requests = {r1}
    None = None
    MaxRequests = 3
    MaxLives = 1
    MaxFaults = 0
    MaxCrashes = 0
PROPERTY
    PendingWhileAChangeWaits
CHECK_DEADLOCK FALSE
