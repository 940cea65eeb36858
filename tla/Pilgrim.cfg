CONSTANTS
    Site = {h, p, q}
    Home = h
    NoSite = NoSite
    FreeRounds = 1
    Budgets <- MixedBudgets
SPECIFICATION FairSpec
INVARIANT RingConsistent
INVARIANT RingClosed
PROPERTY StateIsMobile
PROPERTY LostOnlyIfDisturbed
PROPERTY WaitingResumes
CHECK_DEADLOCK FALSE
