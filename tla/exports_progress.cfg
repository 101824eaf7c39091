SPECIFICATION FairSpec
CONSTANTS
    Names = {alpha}
    Tenants = {t1}
    Requests = {r1}
    MaxServers = 1
    DailyLimit = 1
    None = None
    MaxExports = 2
    MaxLives = 2
    MaxCrashes = 1
INVARIANTS
    ActiveIsWorkedOn
    ReadyIsPublished
PROPERTIES
    KeepsExports
    ExportsEnd
CHECK_DEADLOCK FALSE
