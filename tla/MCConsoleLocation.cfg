SPECIFICATION Spec
CONSTANTS
    Tasks <- MCTasks
    Mixes <- MCMixes
    Tree <- MCTree
    Containers <- MCContainers
    MaxFaults = 2
INVARIANTS
    MisfiledOnlyWhenMoved
    BackAtRoot
CHECK_DEADLOCK FALSE
