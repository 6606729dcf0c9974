\* Two mutexes; the clients of the second destroy it while they hold it.
SPECIFICATION Spec
CONSTANTS
    MaxThread = 3
    MaxMutex = 2
    Values = {}
    NULL = NULL
    Joins <- MainJoins
    JoinPointers = {FALSE}
    Locks <- OneForAllOneForTwo
    Careless = {2}
    StrayFronts = {TRUE, FALSE}
INVARIANTS
    MutualExclusion
    HolderKeepsMutex
    SeekersAwaitHolder
    TimerOffOnlyIfOthersJoin
