SPECIFICATION Spec
CONSTANTS
    Combatant = {1, 2, 3}
    Late = {}
    Lairs = {1}
    Rolls = {10, 20}
    LairCount = 20
    Intent = {i1, i2, i3, i4}
    MaxTries = 2
    MaxTimer = 2
    MaxHits = 1
    MaxMoves = 0
    MaxUndos = 1
    Env = {"races"}
SYMMETRY Symmetry
INVARIANTS
    IndexFollowsPointer
    
PROPERTIES
    UndoTurnReverts
CHECK_DEADLOCK FALSE
