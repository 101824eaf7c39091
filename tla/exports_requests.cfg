SPECIFICATION Spec
CONSTANTS
    Names = {alpha}
    Tenants = {t1}
    Requests = {r1, r2}
    MaxServers = 1
    DailyLimit = 1
    None = None
    MaxExports = 2
    MaxLives = 1
    MaxCrashes = 0
SYMMETRY Symmetry
INVARIANTS
    TypeOK
    OneActiveExport
    DailyLimitHeld
    ReadyIsPublished
CHECK_DEADLOCK FALSE
