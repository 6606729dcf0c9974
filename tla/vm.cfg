\* Two clients that keep to their allocations, three frames for them.
SPECIFICATION FairSpec
CONSTANTS
    Client = {c1, c2}
    NoClient = NoClient
    Words = 5
    Tables = 1
    TlbEntries = 2
    Requests = {4, 5}
    Accesses <- CrossingAccesses
    Values = {v}
    Careless = FALSE
INVARIANTS
    TypeOK
    LockExcludes
    MappingsAgree
    TlbCoherent
    ChainsCoverPages
PROPERTIES
    ImplementsMemory
    LocksReleased
