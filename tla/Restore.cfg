SPECIFICATION FairSpec
CONSTANTS
    N = 2
    Missing = Missing
    Env = {"io_fails", "apply_fails"}
    MaxCrashes = 1
    MaxRestores = 1
    MaxFaults = 1
INVARIANTS
    AcknowledgedStays
    
    FailedRestoreRestores
    PreviousStateKept
PROPERTIES
    ErasureHappens
CHECK_DEADLOCK FALSE
