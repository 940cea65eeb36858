CONSTANTS
    Site = {h, p, q}
    Home = h
    NoSite = NoSite
    Monitors = {p}
    MaxRequests = 2
    MaxThreads = 1
    MaxWeak = 1
    MaxKills = 1
    MaxImports = 1
    MaxCrashes = 1
SPECIFICATION FairSpec
ACTION_CONSTRAINT Separate
INVARIANTS
    ChainIsPath
PROPERTIES
    StateIsNeverLost
    SuspendedResume
    MonitorsNotified
    HomeCrashResumes
CHECK_DEADLOCK FALSE
