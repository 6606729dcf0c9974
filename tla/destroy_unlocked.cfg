\* A mutex destroyed by its holder while others want it.
SPECIFICATION Spec
CONSTANTS
    MaxThread = 3
    MaxMutex = 1
    Values = {}
    NULL = NULL
    Joins <- MainJoins
    JoinPointers = {FALSE}
    Locks <- OneForAll
    Careless = {1}
    StrayFronts = {FALSE}
INVARIANTS
    DestroysUnlocked
