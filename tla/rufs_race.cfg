\* Two handlers at a time: one writes a file, the other adds a name.
SPECIFICATION Spec
CONSTANTS
    Thread = {t1, t2}
    n1 = n1
    n2 = n2
    n3 = n3
    n4 = n4
    DirPaths <- OneDir
    FilePaths <- TwoFiles
    Values = {v}
    Zero = Zero
    MaxInum = 3
    InodesPerBlock = 2
    DataStart = 2
    MaxDnum = 6
    Ptrs = 2
    Cells = 3
    Reads <- FromStart
    Writes <- FromStart
    MaxSize = 2
    MaxCrashes = 0
SYMMETRY Users
INVARIANTS
    BlocksApart
