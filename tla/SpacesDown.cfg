SPECIFICATION Spec
CONSTANTS
    Board = {root, a, b}
    Root = root
    MaxThreads = 8
    Budgets <- DownBudgets
INVARIANT StatusSound
CHECK_DEADLOCK FALSE
