SPECIFICATION Spec
CONSTANTS
    N = 2
    Deps <- ShortDeps
    Destructive = {}
    Verified = {}
    Undoable = {}
    MaxRetries = 0
    StallLimit = 3
    MaxResumes = 2
CHECK_DEADLOCK FALSE
PROPERTIES
    ResumesFromLastCheckpoint
