CONSTANTS
    MaxAttempts = 2
    MaxRuns = 2
    MaxFaults = 2
    MaxForeign = 1
    None = None
SPECIFICATION Spec
CHECK_DEADLOCK FALSE
INVARIANTS
    AtMostOneDispatch
    FailsOnlyWhenExhausted
PROPERTIES
    CleanupKeepsMerged
    MergedWasApproved
    RunEnds
