SPECIFICATION FairSpec
CONSTANTS
    showA = showA
    showB = showB
    Unknown = Unknown
    NoTool = NoTool
    Plans <- MCPlans
    Shows = {showA, showB}
    UserRights = {0, 3}
INVARIANTS
    SuccessIsWhole
    SkippedOnlyAfterFailure
PROPERTIES
    CalledAfterDependencies
    WrongShowOnlyIfRaced
    NothingAfterShowChange
    ExecutedOnce
    RunEnds
CHECK_DEADLOCK FALSE
