CONSTANTS
    Site = {h, p, q}
    Home = h
    Lazy = TRUE
    Monitors = {p}
    MaxUInt = 1000
    MaxReads = 1
    MaxWrites = 2
    MaxKills = 1
    MaxImports = 2
    MaxLeaves = 0
    MaxCrashes = 1
SPECIFICATION FairSpec
ACTION_CONSTRAINT Separate
INVARIANTS
    TypeOK
    CountIsExact
PROPERTIES
    NoWriteIsUndone
    ReadsServed
CHECK_DEADLOCK FALSE
