SPECIFICATION Spec
CONSTANTS
    Combatant = {1, 2, 3, 4}
    Late = {4}
    Lairs = {1}
    Rolls = {10, 20}
    LairCount = 20
    Intent = {i1, i2, i3}
    MaxTries = 1
    MaxTimer = 1
    MaxHits = 1
    MaxMoves = 2
    MaxUndos = 0
    Env = {"removal", "initiative"}
SYMMETRY Symmetry
INVARIANTS
    PointerNamesTheRoster
PROPERTIES
    NobodyIsPassedOver
    RemovalUndoIsExact
CHECK_DEADLOCK FALSE
