SPECIFICATION Spec
CONSTANTS
    t1 = t1
    t2 = t2
    alice = alice
    bob = bob
    a1 = a1
    a2 = a2
    a3 = a3
    b1 = b1
    None = None
    UserOf <- MCUserOf
    Tasks = {t1}
    Identities = {alice}
    Clients = {a1, a2}
    MaxSessions = 1
    IdleTimeout = 1
    MaxLeaks = 1
    HolderCloses = FALSE
PROPERTIES
    ReconnectsWhenDropped
