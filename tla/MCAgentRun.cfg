SPECIFICATION FairSpec
CONSTANTS
    N = 5
    Deps <- LongDeps
    Destructive = {2, 5}
    Verified = {2, 4}
    Undoable = {2}
    MaxRetries = 2
    StallLimit = 3
    MaxResumes = 2
CHECK_DEADLOCK FALSE
INVARIANTS
    CheckpointsMatch
    LoopEndsSettled
PROPERTIES
    GuardedAfterDependencies
    DestructiveAfterDependencies
    RedoneOnlyAfterTwoResumes
    RunEnds
    KeepsOrder
