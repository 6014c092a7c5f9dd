SPECIFICATION FairSpec
CONSTANTS
    Campaign = {c1}
    Driver = {d1, d2, d3}
    Scribe = {s1}
    Direct = {}
    NoOne = NoOne
    Budgets = {2}
    Caps = {0}
    MaxRequest = 1
    MaxCost = 1
    MaxCrashes = 1
    MaxMoves = 0
    Env = {"db_fails"}
INVARIANTS
    FirstComeFirstServed
PROPERTIES
    SpendersFinish
CHECK_DEADLOCK FALSE
