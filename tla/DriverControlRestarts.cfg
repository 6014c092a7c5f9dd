SPECIFICATION FairSpec
CONSTANTS
    Member = {m1}
    NoOne = NoOne
    VoteKind = {"override"}
    Turn = {t1}
    Approval = {a1}
    Confirmation = {c1}
    MaxCrashes = 2
INVARIANTS
    ModeRestored
    
    
PROPERTIES
    
    
    TransientPhaseSettles
