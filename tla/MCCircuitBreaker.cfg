SPECIFICATION FairBreakerSpec
CONSTANTS
    Requests = {r1, r2, r3, r4}
    Threshold = 3
    Timeout = 3
INVARIANTS
    ClosedIffBelowThreshold
PROPERTIES
    FailsFast
    Recovers
