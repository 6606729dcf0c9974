\* One handler at a time, killed at any point.
SPECIFICATION Spec
CONSTANTS
    Thread = {t1}
    n1 = n1
    n2 = n2
    n3 = n3
    n4 = n4
    DirPaths <- OneDir
    FilePaths <- ThreeFiles
    Values = {v1, v2}
    Zero = Zero
    MaxInum = 4
    InodesPerBlock = 2
    DataStart = 2
    MaxDnum = 6
    Ptrs = 2
    Cells = 2
    Reads <- FromStart
    Writes <- AcrossBlocks
    MaxSize = 5
    MaxCrashes = 1
SYMMETRY Users
INVARIANTS
    TypeOK
    BlocksApart
    InodesApart
    CrashCost
PROPERTIES
    ImplementsFileTree
    NamesLast
    AddedIsFound
    WrittenIsFound
