SPECIFICATION Spec
CONSTANTS
    Fight = {f1, f2, f3}
    NoFight = NoFight
    Hp = {0, 1, 2}
    MaxWrites = 5
    Env = {}
SYMMETRY Symmetry
INVARIANTS
    PointerNamesLiveFight
    

    
CHECK_DEADLOCK FALSE
