SPECIFICATION FairSpec
CONSTANTS
    Exports = {e1, e2}
    Files = {level, region}
    Level = level
    Attempts = 2
    None = None
    MaxWrites = 1
    MaxFaults = 1
    MaxCrashes = 2
INVARIANTS
    TypeOK
    StableIsOneMoment
    ReadyIsWhole
    PodsAccountedFor
PROPERTIES
    KeepsExports
    ExportsEnd
CHECK_DEADLOCK FALSE
