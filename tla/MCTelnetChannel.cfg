SPECIFICATION FairSpec
CONSTANTS
    c1 = c1
    c2 = c2
    None = None
    Callers = {c1, c2}
    MaxCommands = 3
    MaxPieces = 2
    Threshold = 1
    Timeout = 1
INVARIANTS
    OwnOutputOnly
    RaisedIffUnsent
PROPERTIES
    DrivesBreaker
    CommandEnds
CHECK_DEADLOCK FALSE
