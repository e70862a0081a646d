SPECIFICATION StableSpec
CONSTANTS
    Work = Work
    MaxVersion = 4
    MaxWork = 2
    MaxFaults = 3
    Queue <- Second
INVARIANTS
    PublishedPassedCi
    TagHasRealWork
PROPERTIES
    WorkIsReleased
CHECK_DEADLOCK FALSE
