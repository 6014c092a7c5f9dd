SPECIFICATION Spec
CONSTANTS
    Request = {r1, r2, r3}
    Member = {m1}
    NoOne = NoOne
    VoteKind = {}
    Approval = {}
    Confirmation = {}
    MaxDepth = 1
    MaxSteps = 1
    MaxAttempts = 2
    MaxTeardowns = 1
    Env = {"pause", "emergency", "hold", "teardown", "kill", "budget", "expiry",
           "setup_fails"}
SYMMETRY Symmetry
INVARIANTS
    OneTurnAtATime
    SlotIsOwned
    StreamsAreStopped
    NoCallerOrphaned
PROPERTIES
    StopIsFinal
CHECK_DEADLOCK FALSE
