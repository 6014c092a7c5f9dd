SPECIFICATION Spec
CONSTANTS
    N = 1
    Missing = Missing
    Env = {"snapshot_fails", "cleanup_fails"}
    MaxCrashes = 0
    MaxRestores = 1
    MaxFaults = 1
INVARIANT
    FailedRestoreRestores
CHECK_DEADLOCK FALSE
