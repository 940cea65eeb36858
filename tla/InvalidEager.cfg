CONSTANTS
    Site = {h, p, q}
    Home = h
    Lazy = FALSE
    Monitors = {p}
    MaxUInt = 1000
    MaxReads = 1
    MaxWrites = 2
    MaxKills = 0
    MaxImports = 2
    MaxLeaves = 1
    MaxCrashes = 1
SPECIFICATION FairSpec
ACTION_CONSTRAINT Separate
INVARIANTS
    FaultFreeReadsAreCurrent
    WritesTracked
    CountAmongReaders
PROPERTIES
    WritesServed
CHECK_DEADLOCK FALSE
