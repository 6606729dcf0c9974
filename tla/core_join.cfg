\* Creation, join, yield, exit and preemption, without mutexes.
SPECIFICATION Spec
CONSTANTS
    MaxThread = 3
    MaxMutex = 0
    Values = {v1}
    NULL = NULL
    Joins <- ChainJoins
    JoinPointers = {TRUE, FALSE}
    Locks = {}
    Careless = {}
    StrayFronts = {FALSE}
INVARIANTS
    TypeOK
    RosterPartition
    JoinAfterEnd
    JoinValueOfTarget
    CleanExitTimerOff
