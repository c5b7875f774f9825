SPECIFICATION Spec
CONSTANTS
    Tasks = {1, 2}
    Mixes <- PoolsOnly
    Tree <- MCTree
    Containers <- MCContainers
    MaxFaults = 0
INVARIANTS
    IndexedFromItsPool
CHECK_DEADLOCK FALSE
