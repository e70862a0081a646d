SPECIFICATION StableSpec
CONSTANTS
    Work = Work
    MaxVersion = 3
    MaxWork = 2
    MaxFaults = 2
    Queue <- Second
PROPERTIES
    DropsOnlyUnpublishedTags
CHECK_DEADLOCK FALSE
