\* Two writers with raw writes and fsync that fail, retries and a crash, or one
\* writer with three crashes and no I/O errors.
CONSTANTS
    Threads = {t1, t2}
    Writers = {t1, t2}
    None = None
    Nobody = Nobody
    MaxEvents = 3
    MaxFaults = 2
    MaxFaultsAlone = 3
    Durable = TRUE
    IOErrors = TRUE
SYMMETRY Perms
SPECIFICATION Spec
INVARIANTS
    AckedNeverLost
    RunningChainVerifies
PROPERTY AppendOnlyLog
CHECK_DEADLOCK FALSE
