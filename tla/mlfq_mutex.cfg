\* Two threads that contend for a mutex with SIGPROF blocked.
SPECIFICATION FairSpec
CONSTANTS
    MaxThread = 2
    MaxMutex = 1
    Values = {v1}
    NULL = NULL
    Joins <- FirstJoined
    JoinPointers = {FALSE}
    Locks <- MainAndWorkerLock
    Careless = {1}
    StrayFronts = {FALSE}
    TimeQuantum = 2
    MinElapsed = 1
    Levels = 2
    BoostPeriod = 2
PROPERTIES
    ImplementsUserThreads
    NoStarvation
