CONSTANTS
    Site = {h, p, q}
    Home = h
    NoSite = NoSite
    Monitors = {}
    MaxRequests = 2
    MaxThreads = 1
    MaxWeak = 1
    MaxKills = 0
    MaxImports = 1
    MaxCrashes = 2
SPECIFICATION Spec
INVARIANTS
    TypeOK
    TokenUnique
    ChainConsistent
    ChainCoversToken
    ForwardFindsNoSuccessor
PROPERTIES
    StateIsMobile
CHECK_DEADLOCK FALSE
