SPECIFICATION Spec
CONSTANTS
    Proposal = {p1, p2}
    Entity = {e1, e2}
    Storyline = {e1}
    Request = {r1, r2, r3}
    People = People
    None = None
    MaxEdits = 1
    MaxRevs = 2
    MaxCrashes = 1
    Env = {"write_fails", "revert_fails", "finalize_fails"}
SYMMETRY Symmetry
INVARIANTS
    ApprovalIsNotHollow
    AuditedRowIsTrue
PROPERTIES
    ReviewIsKept
    StorylineEditsSurvive
CHECK_DEADLOCK FALSE
