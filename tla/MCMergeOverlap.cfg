\* The retry starts while the attempt it replaces is still in its finally clause.
CONSTANTS
    Workflows = {p1}
    Hosts = {h1}
    None = None
    TTL = 2
    MaxCrashes = 0
    MaxAttempts = 2
    Budget = 1
    Behind = 0
    Shared = {}
SPECIFICATION Spec
PROPERTY ReleaseSafeOnRetry
CHECK_DEADLOCK FALSE
