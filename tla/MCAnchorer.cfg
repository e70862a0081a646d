\* Two workers that overlap when join() times out, a caller of step_once(), every outcome of a TSA call.
CONSTANTS
    i1 = i1
    i2 = i2
    w1 = w1
    w2 = w2
    Items = {i1, i2}
    Workers = {w1, w2}
    Caller = Caller
    None = None
    MaxBackoff = 2
    Outcomes = {"token", "unavailable", "malformed", "exception"}
SPECIFICATION FairSpec
INVARIANTS
    NoItemTwice
PROPERTIES
    OneOutcomeEach
    EveryItemSettles
    StopEndsWorkers
