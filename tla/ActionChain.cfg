SPECIFICATION Spec
CONSTANTS
    Who = {w1, w2}
    Chain = {c1, c2}
    Damage = Damage
    None = None
    MaxHp = 2
    MaxActions = 1
    MaxSlots = 1
    MaxTargets = 2
    MaxTurns = 2
    MaxHits = 2
    Env = {}
SYMMETRY Symmetry
INVARIANTS
    SpendsAreCovered
    
PROPERTIES
    UndoIsExact
    LandsInItsTurn
CHECK_DEADLOCK FALSE
