SPECIFICATION Spec
CONSTANTS
    Board = {root, a, b, c}
    Root = root
    MaxThreads = 9
    Budgets <- MixedBudgets
INVARIANTS CrtExact AskIsSound AskIsAnswered NoLostWakeup
CHECK_DEADLOCK FALSE
