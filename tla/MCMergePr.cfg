\* Two pull requests and two attempts: one of them with both attempts, which may
\* overlap, and pushes of others; or each with one attempt, and a crash.
CONSTANTS
    Workflows = {p1, p2}
    Hosts = {h1, h2}
    None = None
    TTL = 2
    MaxCrashes = 1
    MaxAttempts = 2
    Budget = 1
    Behind = 1
    Shared = {p1, p2}
SYMMETRY Perms
SPECIFICATION Spec
CONSTRAINT TwoAttempts
ACTION_CONSTRAINT OthersPush
INVARIANT RecordedMergeIsReal
PROPERTIES LosesRowOnlyToItself SeenHeadsPassed
CHECK_DEADLOCK FALSE
