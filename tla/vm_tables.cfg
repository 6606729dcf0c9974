\* Two page tables.
SPECIFICATION Spec
CONSTANTS
    Client = {c1, c2}
    NoClient = NoClient
    Words = 3
    Tables = 2
    TlbEntries = 2
    Requests = {1, 2}
    Accesses <- OneAccess
    Values = {v}
    Careless = FALSE
INVARIANTS
    TablesApart
