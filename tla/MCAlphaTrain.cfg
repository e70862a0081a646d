SPECIFICATION Spec
CONSTANTS
    MaxRelease = 3
    Boundary <- Second
    MaxFaults = 3
INVARIANTS
    ReleasedIsPublic
    TagsAreForTheirCommit
    StagesAreTrue
PROPERTIES
    QueueModeCompletes
CHECK_DEADLOCK FALSE
