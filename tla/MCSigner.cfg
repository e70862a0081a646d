\* A worker, a caller of step_once(), requests by hand and provider errors.
CONSTANTS
    Worker = Worker
    Caller = Caller
    None = None
    BatchSize = 2
    MaxEvents = 3
    MaxErrors = 1
    CallerSteps = TRUE
    MaxStarts = 2
    Requests <- OneRequest
SPECIFICATION FairSpec
INVARIANTS
    LastSignedIsNewest
    NoBoundarySkippedWithoutError
PROPERTY EveryEventCovered
CHECK_DEADLOCK FALSE
