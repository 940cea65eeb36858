CONSTANTS
    Site = {h, p, q}
    Home = h
    NoSite = NoSite
    Monitors = {}
    MaxRequests = 2
    MaxThreads = 1
    MaxWeak = 0
    MaxKills = 0
    MaxImports = 0
    MaxCrashes = 1
SPECIFICATION Spec
INVARIANTS
    LossIsReal
CHECK_DEADLOCK FALSE
