\* Lists, accounts and choice, with threads blocked on a mutex and in a join.
SPECIFICATION Spec
CONSTANTS
    MaxThread = 3
    MaxMutex = 1
    Values = {}
    NULL = NULL
    Joins <- FirstJoined
    JoinPointers = {FALSE}
    Locks <- WorkersLock
    Careless = {1}
    StrayFronts = {FALSE}
    TimeQuantum = 2
    MaxQuanta = 3
INVARIANTS
    TypeOK
    ListsConsistent
    QuantumLeft
PROPERTIES
    LeastUsageFirst
    ImplementsUserThreads
