\* Three threads without mutexes; every turn is charged at least one unit.
SPECIFICATION FairSpec
CONSTANTS
    MaxThread = 3
    MaxMutex = 0
    Values = {}
    NULL = NULL
    Joins <- MainJoins
    JoinPointers = {FALSE}
    Locks = {}
    Careless = {}
    StrayFronts = {FALSE}
    TimeQuantum = 2
    MinElapsed = 1
    Levels = 2
    BoostPeriod = 2
INVARIANTS
    TypeOK
    QueuesConsistent
PROPERTIES
    HighestPriorityFirst
    ImplementsUserThreads
    NoStarvation
