\* Clients that also use freed addresses and wrong sizes.
SPECIFICATION Spec
CONSTANTS
    Client = {c1, c2}
    NoClient = NoClient
    Words = 5
    Tables = 1
    TlbEntries = 2
    Requests = {0, 4, 9}
    Accesses <- OneAccess
    Values = {}
    Careless = TRUE
SYMMETRY Clients
INVARIANTS
    MappingsAgree
    TlbCoherent
    ChecksSuffice
