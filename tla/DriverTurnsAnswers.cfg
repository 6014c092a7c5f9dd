SPECIFICATION FairSpec
CONSTANTS
    Request = {r1, r2, r3}
    Member = {}
    NoOne = NoOne
    VoteKind = {}
    Approval = {}
    Confirmation = {}
    MaxDepth = 2
    MaxSteps = 1
    MaxAttempts = 1
    MaxTeardowns = 1
    Env = {"hold", "expiry", "setup_fails", "teardown"}
PROPERTIES
    CallersAreAnswered
CHECK_DEADLOCK FALSE
