CONSTANTS
    Site = {a, b}
    Small = a
    MsgAckLength = 2
    MaxChannels = 3
    Budgets <- MixedBudgets
SPECIFICATION Spec
INVARIANT Reliable
CHECK_DEADLOCK FALSE
