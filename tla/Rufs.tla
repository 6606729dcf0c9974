-------------------------------- MODULE Rufs --------------------------------
(***************************************************************************)
(* The file system of p4/code/rufs.c on the block device of block.c: the   *)
(* FUSE handlers as sequences of block reads and writes, interleaved with  *)
(* those of other threads, and cut short by a crash between any two.       *)
(*                                                                         *)
(* A block holds Cells cells: directory entries, or units of a file's      *)
(* data, in which offsets and sizes are counted.  todo[t] lists the steps  *)
(* that the handler running on thread t has still to take.                 *)
(***************************************************************************)
EXTENDS Integers, Sequences, FiniteSets, FiniteSetsExt, Functions, TLC

CONSTANTS
    Thread,          \* FUSE's threads (one with -s)
    DirPaths,        \* the directories that users make, as sequences of names
    FilePaths,       \* the files that they make
    Values, Zero,    \* what they write; a cell that was never written
    MaxInum,         \* MAX_INUM
    InodesPerBlock,
    DataStart,       \* d_start_blk: the blocks below hold metadata
    MaxDnum,         \* MAX_DNUM
    Ptrs,            \* direct pointers of an inode (16)
    Cells,
    Reads, Writes,   \* the <<offset, length>> of reads and writes
    MaxSize,         \* bound on the size of files that are written
    MaxCrashes       \* bound on crashes

ASSUME RufsAssumption ==
    /\ {MaxInum, InodesPerBlock, DataStart, MaxDnum, Ptrs, Cells} \subseteq Nat \ {0}
    /\ MaxSize \in Nat /\ MaxCrashes \in Nat
    /\ MaxInum < 65535 /\ DataStart <= MaxDnum
    /\ Reads \cup Writes \subseteq Nat \X (Nat \ {0})
    \* The kernel resolves "." and ".." itself.
    /\ \A p \in DirPaths \cup FilePaths :
          p # <<>> /\ p \in Seq(Range(p)) /\ Range(p) \cap {".", ".."} = {}

Root == 0                          \* ROOT_DIR_INO
NoIno == 65535                     \* get_avail_ino's -1 as a uint16_t
NoBlock == -1                      \* get_avail_blkno's -1
INVALID == 0                       \* in a direct pointer
Missing == -1                      \* dir_find found nothing

Inum == 0..(MaxInum - 1)
Slot == Inum \cup {NoIno}          \* inodes that readi and writei reach
Block == 0..(MaxDnum - 1)
DataBlock == DataStart..(MaxDnum - 1)
\* Where writei puts inode 65535: block 4098 with the code's sizes.
StrayBlock == DataStart - MaxInum \div InodesPerBlock + NoIno \div InodesPerBlock
Ptr == 0..(Ptrs - 1)
Cell == 0..(Cells - 1)
Paths == DirPaths \cup FilePaths
Names == UNION {Range(p) : p \in Paths}
Depth == Max({Len(p) : p \in Paths})

Entry == [name : Names \cup {".", ".."}, ino : Slot]
\* A cell of a user's data: of which buffer, and which of the buffer's cells.
Data == [val : Values, at : Nat]
\* What users write is not mistaken for an entry.
ASSUME CellAssumption == Zero \notin Data /\ Entry \cap (Data \cup {Zero}) = {}
Inode == [ino : Slot, valid : BOOLEAN, type : {"none", "file", "directory"},
          size : Nat, ptr : [Ptr -> Block \cup {NoBlock}]]

NoPtrs == [k \in Ptr |-> INVALID]
\* An inode as mkfs clears it.
Blank(i) == [ino |-> i, valid |-> FALSE, type |-> "none", size |-> 0, ptr |-> NoPtrs]
Zeroed == [c \in Cell |-> Zero]

VARIABLES
    found,      \* does DISKFILE exist?
    ibitmap,    \* the inode bitmap's block: the numbers in use
    dbitmap,    \* the data bitmap's block
    inodes,     \* the inode region
    data,       \* the data blocks
    mounted,    \* has rufs_init begun?
    todo,       \* per thread: the steps its handler has to take
    loc,        \* per thread: its handler's arguments and local variables
    crashes,    \* how often the program was killed in the middle of a handler
    tree        \* what users find: per path, what it leads to

disk == <<found, ibitmap, dbitmap, inodes, data, tree>>
vars == <<disk, mounted, todo, loc, crashes>>

Rest == [op |-> "none", path |-> <<>>, off |-> 0, len |-> 0, val |-> Zero, done |-> 0,
         node |-> Blank(0), ino |-> 0, bits |-> {}, blk |-> 0, dir |-> Blank(0), out |-> Blank(0),
         entry |-> [name |-> ".", ino |-> 0], buf |-> <<>>]

Init ==
    /\ found = FALSE /\ mounted = FALSE
    /\ ibitmap = {} /\ dbitmap = {}
    /\ inodes = [i \in Slot |-> Blank(0)]
    /\ data = [b \in DataBlock |-> Zeroed]
    /\ todo = [t \in Thread |-> <<>>]
    /\ loc = [t \in Thread |-> Rest]
    /\ crashes = 0
    /\ tree = <<>>

-----------------------------------------------------------------------------
(* Blocks and directories.                                                 *)

\* bio_read and bio_write of a data block; an invalid number reads as zeros, and
\* what is written there is lost.
BioRead(b) == IF b \in DataBlock THEN data[b] ELSE Zeroed
BioWrite(b, cells) == data' = IF b \in DataBlock THEN [data EXCEPT ![b] = cells] ELSE data

\* The inodes in the block of inode i.
InodeBlock(i) == {j \in Slot : j \div InodesPerBlock = i \div InodesPerBlock}

IsEntry(cell) == cell # Zero /\ cell \notin Data

\* Where the entries of a directory lie.
EntryAt(dir, at) == BioRead(dir.ptr[at[1]])[at[2]]
EntriesAt(dir) ==
    {at \in Ptr \X Cell : dir.ptr[at[1]] # INVALID /\ IsEntry(EntryAt(dir, at))}

\* dir_find: the inode number of the first entry with that name.
DirFind(i, name) ==
    LET S == {at \in Ptr \X Cell : LET cell == EntryAt(inodes[i], at)
                                  IN  IsEntry(cell) /\ cell.name = name}
        First(at) == \A b \in S : at[1] < b[1] \/ (at[1] = b[1] /\ at[2] <= b[2])
    IN  IF ~inodes[i].valid \/ S = {} THEN Missing
        ELSE EntryAt(inodes[i], CHOOSE at \in S : First(at)).ino

\* get_node_by_path: the inode number that a path leads to.
Walk(path) ==
    LET reach[k \in 0..Len(path)] ==
          IF k = 0 THEN Root
          ELSE IF reach[k - 1] = Missing THEN Missing
          ELSE DirFind(reach[k - 1], path[k])
    IN  reach[Len(path)]

\* dir_add's search: the pointers with room for an entry.
Room(dir) ==
    {k \in Ptr : dir.ptr[k] = INVALID \/ \E c \in Cell : ~IsEntry(BioRead(dir.ptr[k])[c])}

Dirname(path) == SubSeq(path, 1, Len(path) - 1)
Basename(path) == path[Len(path)]
Holds(type, path) ==
    LET i == Walk(path) IN i # Missing /\ inodes[i].valid /\ inodes[i].type = type

\* What users find on the disk: paths, and what the inodes they lead to hold
\* (rufs_getattr, and rufs_read without its limit, the size).
Positions == 0..(Ptrs * Cells - 1)
Contents(n) == [k \in Positions |-> BioRead(n.ptr[k \div Cells])[k % Cells]]
View(n) ==
    [kind |-> IF n.valid THEN n.type ELSE "none",
     size |-> IF n.valid /\ n.type = "file" THEN n.size ELSE 0,
     cells |-> IF n.valid /\ n.type = "file" THEN Contents(n) ELSE [k \in Positions |-> Zero]]

\* Paths and the inodes they lead to, level by level; what was created when no inode was
\* left is not seen.
Reached ==
    LET level[k \in 0..Depth] ==
          IF k = 0 THEN {<<<<>>, Root>>}
          ELSE {x \in {<<Append(y[1], name), DirFind(y[2], name)>> :
                          y \in level[k - 1], name \in Names} : x[2] \in Inum}
    IN  UNION {level[k] : k \in 1..Depth}

Tree(R) == [p \in {x[1] : x \in R} |-> View(inodes[(CHOOSE x \in R : x[1] = p)[2]])]

\* What users find after a step that writes inodes or data.
Watch == \E R \in {Reached'} : tree' = Tree(R)'

-----------------------------------------------------------------------------
(* Calls.                                                                  *)

Busy(t) == todo[t] # <<>>
At(t, step) == Busy(t) /\ Head(todo[t]) = step
Running(t, ops) == Busy(t) /\ loc[t].op \in ops

\* The handler of t goes on with these steps, or returns.
Go(t, steps, l) ==
    /\ todo' = [todo EXCEPT ![t] = steps]
    /\ loc' = [loc EXCEPT ![t] = IF steps = <<>> THEN Rest ELSE l]
Continue(t, l) == Go(t, Tail(todo[t]), l)
Return(t) == Go(t, <<>>, Rest)

GetAvailIno == <<"read ibitmap", "take ino">>
GetAvailBlkno == <<"read dbitmap", "take block">>
Writei == <<"read inodes", "write inodes">>

Mkfs == <<"format", "clear inodes", "bitmaps">> \o GetAvailIno \o <<"root">> \o Writei
        \o <<"add dot", "add dotdot">>
\* A variant of rufs_create that does not write the new inode.
CreateUnwritten == <<"lookup">> \o GetAvailIno \o <<"add", "new file">>
Create == <<"lookup">> \o GetAvailIno \o <<"add", "new file">> \o Writei
Mkdir == <<"lookup">> \o GetAvailIno \o <<"add", "new directory">> \o Writei
         \o <<"add dot", "add dotdot", "link">> \o Writei

\* rufs_init: without a DISKFILE it makes a file system, with one it trusts it.
Mount(t) ==
    /\ ~mounted
    /\ mounted' = TRUE
    /\ IF found THEN UNCHANGED <<todo, loc>>
       ELSE Go(t, Mkfs, [Rest EXCEPT !.op = "mkfs", !.ino = 1])
    /\ UNCHANGED <<disk, crashes>>

\* A request can be served: rufs_init is over, and t is free.
Ready(t) == mounted /\ ~Busy(t) /\ \A u \in Thread : ~Running(u, {"mkfs"})

\* rufs_create and rufs_mkdir are called for a name that the kernel has looked up in
\* vain, under the lock of the directory.
CallNew(t, op, path) ==
    /\ Ready(t)
    /\ Dirname(path) = <<>> \/ Holds("directory", Dirname(path))
    /\ Walk(path) = Missing
    /\ \A u \in Thread : Running(u, {"create", "mkdir"}) =>
           Dirname(loc[u].path) # Dirname(path)
    /\ Go(t, IF op = "create" THEN Create ELSE Mkdir, [Rest EXCEPT !.op = op, !.path = path])
    /\ UNCHANGED <<disk, mounted, crashes>>

\* rufs_read and rufs_write are called for an open file; the kernel lets one thread write
\* to a file at a time, but others may read.
CallTransfer(t, op, path, at, v) ==
    /\ Ready(t)
    /\ Holds("file", path)
    /\ op = "write" => /\ inodes[Walk(path)].size + at[2] <= MaxSize
                       /\ \A u \in Thread : Running(u, {"write"}) => loc[u].path # path
    /\ Go(t, <<"lookup", op>>, [Rest EXCEPT !.op = op, !.path = path, !.off = at[1],
                                            !.len = at[2], !.val = v])
    /\ UNCHANGED <<disk, mounted, crashes>>

\* The common start of the handlers: get_node_by_path, for the path or its dirname, and
\* a copy of the inode that is kept throughout the call.
LookUp(t) ==
    LET l == loc[t]
        i == Walk(IF l.op \in {"create", "mkdir"} THEN Dirname(l.path) ELSE l.path)
    IN  /\ At(t, "lookup")
        /\ IF i = Missing THEN Return(t)
           ELSE Continue(t, [l EXCEPT !.node = inodes[i]])
        /\ UNCHANGED <<disk, mounted, crashes>>

-----------------------------------------------------------------------------
(* get_avail_ino, get_avail_blkno, writei.                                 *)

\* The bitmap's block, in a copy of the call's own.  The code has one buffer in memory for
\* each bitmap, overwritten here and of which nothing is used later; what two threads could
\* lose by using that buffer at once is left out.
ReadBitmap(t) ==
    /\ \/ At(t, "read ibitmap") /\ Continue(t, [loc[t] EXCEPT !.bits = ibitmap])
       \/ At(t, "read dbitmap") /\ Continue(t, [loc[t] EXCEPT !.bits = dbitmap])
    /\ UNCHANGED <<disk, mounted, crashes>>

\* The first number below n that is not in use; a variant goes one too far.
LowestClearTo(bits, n, none) ==
    IF 0..n \subseteq bits THEN none ELSE Min((0..n) \ bits)
LowestClear(bits, n, none) ==
    IF 0..(n - 1) \subseteq bits THEN none ELSE Min((0..(n - 1)) \ bits)

\* A variant that forgets to write the bitmap.
TakeInoUnwritten(t) ==
    /\ At(t, "take ino")
    /\ Continue(t, [loc[t] EXCEPT !.ino = LowestClear(loc[t].bits, MaxInum, NoIno)])
    /\ UNCHANGED <<disk, mounted, crashes>>

TakeIno(t) ==
    LET i == LowestClear(loc[t].bits, MaxInum, NoIno)
    IN  /\ At(t, "take ino")
        /\ ibitmap' = IF i = NoIno THEN ibitmap ELSE loc[t].bits \cup {i}
        /\ Continue(t, [loc[t] EXCEPT !.ino = i])
        /\ UNCHANGED <<found, dbitmap, inodes, data, tree, mounted, crashes>>

TakeBlock(t) ==
    LET b == LowestClear(loc[t].bits, MaxDnum, NoBlock)
    IN  /\ At(t, "take block")
        /\ dbitmap' = IF b = NoBlock THEN dbitmap ELSE loc[t].bits \cup {b}
        /\ Continue(t, [loc[t] EXCEPT !.blk = b])
        /\ UNCHANGED <<found, ibitmap, inodes, data, tree, mounted, crashes>>

\* writei reads the block of the inode in loc[t].out, replaces the inode and writes the
\* block.  Where inode 65535 lies in a data block, the end of that block, an entry or a
\* cell of data, becomes part of an inode; what readi finds there when others wrote the
\* block is left out (Sheltered).
ReadInodes(t) ==
    /\ At(t, "read inodes")
    /\ Continue(t, [loc[t] EXCEPT !.buf = [j \in InodeBlock(loc[t].out.ino) |-> inodes[j]]])
    /\ UNCHANGED <<disk, mounted, crashes>>

StrayWrite ==
    IF StrayBlock \in DataBlock
    THEN \E scrap \in Entry \cup {Zero} :
            data' = [data EXCEPT ![StrayBlock] = [@ EXCEPT ![Cells - 1] = scrap]]
    ELSE UNCHANGED data

WriteInodes(t) ==
    LET l == loc[t]
    IN  /\ At(t, "write inodes")
        /\ inodes' = [j \in Slot |-> IF j = l.out.ino THEN l.out
                                     ELSE IF j \in DOMAIN l.buf THEN l.buf[j]
                                     ELSE inodes[j]]
        /\ IF l.out.ino = NoIno THEN StrayWrite ELSE UNCHANGED data
        /\ Continue(t, l)
        /\ UNCHANGED <<found, ibitmap, dbitmap, mounted, crashes>>
        /\ Watch

-----------------------------------------------------------------------------
(* dir_add.                                                                *)

\* The entry goes into the first block with room; no room makes the call fail, but
\* rufs_mkdir and rufs_mkfs do not look when they add "." and "..".  The kernel's lock
\* keeps others away from the directory's blocks, so the search and the write are one step.
AddEntry(t, dir, name, ino) ==
    LET k == Min(Room(dir))
        b == dir.ptr[k]
        c == Min({d \in Cell : ~IsEntry(BioRead(b)[d])})
        l == [loc[t] EXCEPT !.dir = dir, !.entry = [name |-> name, ino |-> ino]]
        full == ~dir.valid \/ Room(dir) = {}
    IN  /\ \/ /\ full
              /\ IF At(t, "add") THEN Return(t) ELSE Continue(t, l)
              /\ UNCHANGED data
           \/ /\ ~full /\ b = INVALID
              /\ Go(t, GetAvailBlkno \o <<"new block">> \o Writei \o Tail(todo[t]), l)
              /\ UNCHANGED data
           \/ /\ ~full /\ b # INVALID
              /\ BioWrite(b, [BioRead(b) EXCEPT ![c] = l.entry])
              /\ Continue(t, l)
        /\ UNCHANGED <<found, ibitmap, dbitmap, inodes, mounted, crashes>>
        /\ Watch

\* The name of the new file or directory, with the parent's inode as it was looked up.
AddName(t) ==
    At(t, "add") /\ AddEntry(t, loc[t].node, Basename(loc[t].path), loc[t].ino)
\* "." with the new directory's inode as it was written, ".." with what is on disk.
AddDot(t) == At(t, "add dot") /\ AddEntry(t, loc[t].out, ".", loc[t].ino)
\* A variant: the inode as it was before "." was added.
AddDotdotStale(t) ==
    /\ At(t, "add dotdot")
    /\ AddEntry(t, [inodes[loc[t].ino] EXCEPT !.ptr = NoPtrs], "..", loc[t].node.ino)
AddDotdot(t) ==
    At(t, "add dotdot") /\ AddEntry(t, inodes[loc[t].ino], "..", loc[t].node.ino)

\* A new block with the entry, and the pointer to it, in dir_add's copy of the inode.
NewBlock(t) ==
    LET l == loc[t]
        k == Min({j \in Ptr : l.dir.ptr[j] = INVALID})
    IN  /\ At(t, "new block")
        /\ BioWrite(l.blk, [Zeroed EXCEPT ![0] = l.entry])
        /\ Continue(t, [l EXCEPT !.out = [l.dir EXCEPT !.ptr[k] = l.blk]])
        /\ UNCHANGED <<found, ibitmap, dbitmap, inodes, mounted, crashes>>
        /\ Watch

-----------------------------------------------------------------------------
(* The rest of rufs_create, rufs_mkdir and rufs_mkfs.                      *)

\* The new inode, from what readi finds; only rufs_create sets the size.
NewInode(t) ==
    LET l == loc[t]
        n == [inodes[l.ino] EXCEPT !.valid = TRUE, !.ino = l.ino, !.ptr = NoPtrs]
    IN  /\ \/ /\ At(t, "new file")
              /\ Continue(t, [l EXCEPT !.out = [n EXCEPT !.type = "file", !.size = 0]])
           \/ /\ At(t, "new directory")
              /\ Continue(t, [l EXCEPT !.out = [n EXCEPT !.type = "directory"]])
           \/ /\ At(t, "root")
              /\ Continue(t, [l EXCEPT !.out = [n EXCEPT !.type = "directory"]])
        /\ UNCHANGED <<disk, mounted, crashes>>

\* A variant that writes the parent back as it was looked up.
LinkParentStale(t) ==
    /\ At(t, "link")
    /\ Continue(t, [loc[t] EXCEPT !.out = loc[t].node])
    /\ UNCHANGED <<disk, mounted, crashes>>

\* rufs_mkdir reads the parent again, counts a link (not modelled) and writes it.
LinkParent(t) ==
    /\ At(t, "link")
    /\ Continue(t, [loc[t] EXCEPT !.out = inodes[loc[t].node.ino]])
    /\ UNCHANGED <<disk, mounted, crashes>>

\* dev_init and the superblock.
Format(t) ==
    /\ At(t, "format")
    /\ found' = TRUE
    /\ Continue(t, loc[t])
    /\ UNCHANGED <<ibitmap, dbitmap, inodes, data, tree, mounted, crashes>>

\* The loop that writes all inodes but the root's.
ClearInodes(t) ==
    LET l == loc[t]
    IN  /\ At(t, "clear inodes")
        /\ IF l.ino < MaxInum
           THEN Go(t, Writei \o todo[t], [l EXCEPT !.out = Blank(l.ino), !.ino = @ + 1])
           ELSE Continue(t, l)
        /\ UNCHANGED <<disk, mounted, crashes>>

\* A variant that leaves the last block of the inode region unmarked.
WriteBitmapsOneLess(t) ==
    /\ At(t, "bitmaps")
    /\ ibitmap' = {}
    /\ dbitmap' = 0..(DataStart - 2)
    /\ Continue(t, loc[t])
    /\ UNCHANGED <<found, inodes, data, tree, mounted, crashes>>

\* An empty inode bitmap, and a data bitmap with the metadata in use.
WriteBitmaps(t) ==
    /\ At(t, "bitmaps")
    /\ ibitmap' = {}
    /\ dbitmap' = 0..(DataStart - 1)
    /\ Continue(t, loc[t])
    /\ UNCHANGED <<found, inodes, data, tree, mounted, crashes>>

-----------------------------------------------------------------------------
(* rufs_write and rufs_read.                                               *)

\* Where in a file, and where in its block, the next cell lies; a variant does not start
\* the second block at its beginning.
Pointer(l) == (l.off + l.done) \div Cells
OffsetKept(l) == l.off % Cells
Offset(l) == IF l.done = 0 THEN l.off % Cells ELSE 0

\* What comes i cells after the l.done that are written; a variant starts every block
\* with the beginning of the buffer.
DatumFromStart(l, i) == [val |-> l.val, at |-> i]
Datum(l, i) == [val |-> l.val, at |-> l.done + i]

\* rufs_write's loop: blocks are taken where the inode has none, filled one by one, and
\* entered into the call's copy of the inode, which is written at the end.
WriteLoop(t) ==
    LET l == loc[t]
        k == Pointer(l)
    IN  /\ At(t, "write")
        /\ IF l.done = l.len \/ k \notin Ptr
           THEN Go(t, Writei, [l EXCEPT !.out = [l.node EXCEPT !.size = @ + l.done]])
           ELSE Go(t, (IF l.node.ptr[k] = INVALID THEN GetAvailBlkno ELSE <<>>)
                      \o <<"fill">> \o todo[t], l)
        /\ UNCHANGED <<disk, mounted, crashes>>

FillBlock(t) ==
    LET l == loc[t]
        k == Pointer(l)
        c == Offset(l)
        n == Min({l.len - l.done, Cells - c})
        b == IF l.node.ptr[k] = INVALID THEN l.blk ELSE l.node.ptr[k]
    IN  /\ At(t, "fill")
        /\ BioWrite(b, [d \in Cell |-> IF d \in c..(c + n - 1) THEN Datum(l, d - c)
                                      ELSE BioRead(b)[d]])
        /\ Continue(t, [l EXCEPT !.node.ptr[k] = b, !.done = @ + n])
        /\ UNCHANGED <<found, ibitmap, dbitmap, inodes, mounted, crashes>>
        /\ Watch

\* The pointers that rufs_read goes through.
ReadRange(l) ==
    {k \in Ptr : \E i \in l.off..(Min({l.off + l.len, l.node.size}) - 1) : k = i \div Cells}
MeetsHole(l) == \E k \in ReadRange(l) : l.node.ptr[k] = INVALID

\* rufs_read: beyond the size, and at a missing block, it returns at once; otherwise it
\* writes its copy of the inode back.  The data it returns is not kept.
ReadFile(t) ==
    LET l == loc[t]
    IN  /\ At(t, "read")
        /\ IF l.off >= l.node.size \/ MeetsHole(l) THEN Return(t)
           ELSE Go(t, Writei, [l EXCEPT !.out = l.node])
        /\ UNCHANGED <<disk, mounted, crashes>>

-----------------------------------------------------------------------------
(* The end of the process.                                                 *)

\* rufs_destroy, when no handler runs.
Unmount ==
    /\ mounted /\ \A t \in Thread : ~Busy(t)
    /\ mounted' = FALSE
    /\ UNCHANGED <<disk, todo, loc, crashes>>

\* The process is killed inside a handler.
Crash ==
    /\ \E t \in Thread : Busy(t)
    /\ crashes < MaxCrashes
    /\ crashes' = crashes + 1
    /\ mounted' = FALSE
    /\ todo' = [t \in Thread |-> <<>>]
    /\ loc' = [t \in Thread |-> Rest]
    /\ UNCHANGED disk

CallStep(t) ==
    \/ Mount(t)
    \/ \E path \in FilePaths : CallNew(t, "create", path)
    \/ \E path \in DirPaths : CallNew(t, "mkdir", path)
    \/ \E path \in FilePaths, at \in Reads : CallTransfer(t, "read", path, at, Zero)
    \/ \E path \in FilePaths, at \in Writes, v \in Values : CallTransfer(t, "write", path, at, v)

DiskStep(t) ==
    \/ LookUp(t) \/ ReadBitmap(t) \/ TakeIno(t) \/ TakeBlock(t)
    \/ ReadInodes(t) \/ WriteInodes(t)
    \/ AddName(t) \/ AddDot(t) \/ AddDotdot(t) \/ NewBlock(t)
    \/ NewInode(t) \/ LinkParent(t) \/ Format(t) \/ ClearInodes(t) \/ WriteBitmaps(t)
    \/ WriteLoop(t) \/ FillBlock(t) \/ ReadFile(t)

Next == (\E t \in Thread : CallStep(t) \/ DiskStep(t)) \/ Unmount \/ Crash

Spec == Init /\ [][Next]_vars

-----------------------------------------------------------------------------
(* Properties.                                                             *)

\* No call works with inode 65535, or that inode lies off the disk.
Sheltered ==
    StrayBlock \in DataBlock =>
        \A t \in Thread : NoIno \notin {loc[t].ino, loc[t].node.ino, loc[t].out.ino}
\* The bitmaps stay within their bounds, inodes and entries are well-formed.
TypeOK ==
    /\ found \in BOOLEAN /\ mounted \in BOOLEAN
    /\ ibitmap \subseteq Inum /\ dbitmap \subseteq Block
    /\ inodes \in [Slot -> Inode]
    /\ \A b \in DataBlock, c \in Cell : IsEntry(data[b][c]) => data[b][c] \in Entry
    /\ crashes \in 0..MaxCrashes

\* The pointers of files and directories, without those that name no block.
Target(x) == inodes[x[1]].ptr[x[2]]
Pointers ==
    {x \in Slot \X Ptr : inodes[x[1]].valid /\ Target(x) \notin {INVALID, NoBlock}}

\* No two pointers of files and directories share a block, and the blocks they name are
\* marked in the data bitmap and hold no metadata, whatever a crash cut short, also in
\* rufs_mkfs (get_avail_blkno, dir_add, rufs_write, rufs_mkfs).
BlocksApart ==
    /\ \A x \in Pointers : Target(x) \in DataBlock \cap dbitmap
    /\ \A x, y \in Pointers : Target(x) = Target(y) => x = y

\* Where names lie: a directory and a place in it.
NamesAt ==
    UNION {{<<i, at>> : at \in {a \in EntriesAt(inodes[i]) :
                                  EntryAt(inodes[i], a).name \in Names}} :
           i \in {j \in Slot : inodes[j].valid /\ inodes[j].type = "directory"}}
Named(x) == EntryAt(inodes[x[1]], x[2])

\* Two names never lead to one inode, a name is marked in the inode bitmap, and a name
\* stands once in its directory, although dir_add does not look for duplicates.  Names
\* that were given when no inode was left are not meant.
InodesApart ==
    \A x \in NamesAt :
        /\ Named(x).ino # NoIno => Named(x).ino \in ibitmap \ {Root}
        /\ \A y \in NamesAt \ {x} :
              /\ Named(x).ino = Named(y).ino => Named(x).ino = NoIno
              /\ x[1] = y[1] => Named(x).name # Named(y).name

\* A name stays where it is in its directory and leads to the same inode: no call and no
\* crash takes it away, although writei writes back the neighbours of an inode and rufs_mkdir
\* its parent.  A directory that was made when no inode was left is not meant.
NamesLast ==
    [][\A x \in NamesAt : x[1] # NoIno => x \in NamesAt' /\ Named(x)' = Named(x)]_vars

\* Nothing was refused so far for want of an inode, a block or a pointer.
Plenty ==
    /\ inodes[Root].valid /\ ~inodes[NoIno].valid
    /\ \A x \in NamesAt : Named(x).ino # NoIno
    /\ \A i \in Slot : inodes[i].valid /\ inodes[i].type = "directory" =>
          Room(inodes[i]) # {} /\ \A k \in Ptr : inodes[i].ptr[k] # NoBlock

\* While there is plenty of everything, a crash costs at most one inode: one that is
\* marked but has no name, or has a name but was never written (rufs_create, rufs_mkdir).
CrashCost ==
    Plenty =>
      Cardinality({i \in ibitmap \ {Root} :
                     ~inodes[i].valid \/ \A x \in NamesAt : Named(x).ino # i})
        <= crashes + Cardinality({t \in Thread : Busy(t)})

\* The calls under way that may change what users find.
CallOf(l) ==
    IF l.op = "write"
    THEN [op |-> l.op, path |-> l.path, at |-> <<l.off, l.len>>, val |-> l.val]
    ELSE [op |-> l.op, path |-> l.path]

Abstract == INSTANCE FileTree WITH
    calls <- {CallOf(loc[t]) : t \in {u \in Thread : Running(u, {"create", "mkdir", "write"})}}

\* One handler at a time, with crashes, keeps the promises of FileTree: names and their
\* nodes last, and what changes is the node that the running call was called for, its
\* cells only where and as the call says.
ImplementsFileTree == Abstract!Spec

\* The last step of a call that succeeds.
Ends(t, op) ==
    /\ loc[t].op = op /\ todo[t] = <<"write inodes">> /\ todo'[t] = <<>>
    /\ crashes' = crashes

Seen(path) == path = <<>> \/ path \in DOMAIN tree
LostBlock(i) == \E k \in Ptr : inodes[i].ptr[k] = NoBlock

\* When rufs_create or rufs_mkdir returns 0, the name is found and leads to an empty file,
\* or to a directory with "." and "..", unless inodes or data blocks have run out.
AddedIsFound ==
    [][\A t \in Thread :
          LET l == loc[t]
              Added(kind) == LostBlock(l.node.ino) \/ tree'[l.path] = Abstract!Node(kind)
          IN  l.ino # NoIno /\ Seen(Dirname(l.path)) =>
              /\ Ends(t, "create") => Added("file")
              /\ Ends(t, "mkdir") =>
                    /\ Added("directory")
                    /\ \A i \in {l.ino} : LostBlock(i) \/ DirFind(i, ".")' = i
                    /\ \A i \in {l.ino}, up \in {l.node.ino} :
                          LostBlock(i) \/ DirFind(i, "..")' = up]_vars

\* When rufs_write returns, each cell of what it was given stands at the place it was given
\* for, as far as the file has pointers and there were blocks for them; and rufs_read, which
\* stops at the size, gets it there, if the write began within the size or at it.  (The size
\* grows by what was written, rufs.c:871, so that after a gap its end is not read.)
WrittenIsFound ==
    [][\A t \in Thread :
          LET l == loc[t]
          IN  Ends(t, "write") /\ Seen(l.path) =>
              \A k \in Positions \cap l.off..(l.off + l.len - 1) :
                 l.out.ptr[k \div Cells] # NoBlock =>
                    /\ tree'[l.path].cells[k] = [val |-> l.val, at |-> k - l.off]
                    /\ l.off <= tree[l.path].size => k < tree'[l.path].size]_vars

=============================================================================
