CONSTANTS
    Site = {h, p, q}
    Home = h
    Unbound = Unbound
    Protocols = {"once_only", "transient_remote"}
    Budgets <- MCBudgets
SPECIFICATION MCSpec
INVARIANT
    TokenKnown
PROPERTIES
    Agreement
    BindSettles
    NeedReachesHome
CHECK_DEADLOCK FALSE
