SPECIFICATION FairSpec
CONSTANTS
    t1 = t1
    t2 = t2
    alice = alice
    bob = bob
    a1 = a1
    a2 = a2
    a3 = a3
    b1 = b1
    None = None
    UserOf <- MCUserOf
    Tasks = {t1, t2}
    Identities = {alice, bob}
    Clients = {a1, a2, a3, b1}
    MaxSessions = 1
    IdleTimeout = 1
    MaxLeaks = 1
    HolderCloses = TRUE
INVARIANTS
    PoolBounded
    NoStrayConnection
    ClientOfIdentity
PROPERTIES
    ReturnsOpenClient
    GetCompletes
    ExpiredAreClosed
