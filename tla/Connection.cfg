CONSTANTS
    Site = {a, b}
    Small = a
    MsgAckLength = 2
    MaxChannels = 3
    Budgets <- MixedBudgets
SPECIFICATION FairSpec
INVARIANT WorkingAgree
INVARIANT WriterWaits
INVARIANT FifoUnlessBroken
PROPERTY QueuesDrain
CHECK_DEADLOCK FALSE
