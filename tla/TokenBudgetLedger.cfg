SPECIFICATION Spec
CONSTANTS
    Campaign = {c1, c2}
    Driver = {}
    Scribe = {s1}
    Direct = {x1, x2}
    NoOne = NoOne
    Budgets = {1, 2}
    Caps = {0, 2}
    MaxRequest = 2
    MaxCost = 2
    MaxCrashes = 1
    MaxMoves = 1
    Env = {"db_fails"}
SYMMETRY Symmetry
INVARIANTS
    HoldsAreReserved
    EveryCallCountsOnce
    WithinBudget
    WithinCap
CHECK_DEADLOCK FALSE
