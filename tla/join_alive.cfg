\* The target of a join may end before join_tid is stored.
SPECIFICATION Spec
CONSTANTS
    MaxThread = 3
    MaxMutex = 0
    Values = {}
    NULL = NULL
    Joins <- MainJoins
    JoinPointers = {FALSE}
    Locks = {}
    Careless = {}
    StrayFronts = {FALSE}
INVARIANTS
    JoinTargetAlive
