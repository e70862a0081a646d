SPECIFICATION Spec
CONSTANTS
    Lanes = {l1, l2}
    Issues = {i1}
    MaxFixRounds = 1
    MaxCiRounds = 1
    MaxTries = 1
    MaxCycles = 2
    MaxFaults = 1
    None = None
    Corrupt = Corrupt
INVARIANTS
    CommitsOwnWork
    GreenLabelIsReal
    OpenPrIsMarked
    AttemptsCapped
PROPERTIES
    CycleEnds
CHECK_DEADLOCK FALSE
