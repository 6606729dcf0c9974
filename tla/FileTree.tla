------------------------------ MODULE FileTree ------------------------------
(***************************************************************************)
(* What the file system of p4/code/rufs.c promises of its names and files, *)
(* across crashes: a name that is found once is found for ever and keeps   *)
(* its node, a node gets its kind once, and nothing but a call under way   *)
(* changes anything: rufs_create and rufs_mkdir only the name they were    *)
(* called for, rufs_write only the file and the cells it was called for,   *)
(* each cell to what it was given for that cell.  Nothing is removed:      *)
(* rmdir, unlink and truncate are stubs.                                   *)
(***************************************************************************)
EXTENDS Naturals, Sequences, FiniteSets, TLC

CONSTANTS
    DirPaths,   \* sequences of names
    FilePaths,
    Positions,  \* the cells a file may have
    Values,     \* what users write
    Zero,       \* an unwritten cell
    Writes      \* the <<offset, length>> of writes

VARIABLES
    tree,       \* per path that is found: the node it names
    calls       \* the calls under way

vars == <<tree, calls>>

Node(kind) == [kind |-> kind, size |-> 0, cells |-> [k \in Positions |-> Zero]]

Call ==
    [op : {"create"}, path : FilePaths]
      \cup [op : {"mkdir"}, path : DirPaths]
      \cup [op : {"write"}, path : FilePaths, at : Writes, val : Values]

Init == tree = <<>> /\ calls = {}

\* The parent of a path: the root, or a directory.
HasParent(p) ==
    LET parent == SubSeq(p, 1, Len(p) - 1)
    IN  parent = <<>> \/ (parent \in DOMAIN tree /\ tree[parent].kind = "directory")

Start == \E c \in Call : calls' = calls \cup {c} /\ UNCHANGED tree

\* Calls return, or are cut short.
Stop == calls' \subseteq calls /\ UNCHANGED tree

\* A step of call c: it may be its last.
Goes(c) == calls' \in {calls, calls \ {c}}

\* The name of a new file or directory appears; it names nothing yet.
Appear(c) ==
    /\ c.op \in {"create", "mkdir"}
    /\ c.path \notin DOMAIN tree
    /\ HasParent(c.path)
    /\ tree' = tree @@ (c.path :> Node("none"))
    /\ Goes(c)

\* What it names becomes an empty file or directory.
Settle(c) ==
    /\ c.op \in {"create", "mkdir"}
    /\ c.path \in DOMAIN tree /\ tree[c.path].kind = "none"
    /\ tree' = [tree EXCEPT ![c.path] = Node(IF c.op = "create" THEN "file" ELSE "directory")]
    /\ Goes(c)

\* The cells a write is for, as far as a file may have them, and what it puts there.
Given(c) == Positions \cap c.at[1]..(c.at[1] + c.at[2] - 1)
Datum(c, k) == [val |-> c.val, at |-> k - c.at[1]]

Put(c, ks) ==
    [k \in Positions |-> IF k \in ks THEN Datum(c, k) ELSE tree[c.path].cells[k]]

\* Some of these cells are written.
Write(c) ==
    /\ c.op = "write" /\ c.path \in DOMAIN tree /\ tree[c.path].kind = "file"
    /\ \E ks \in SUBSET Given(c) : tree' = [tree EXCEPT ![c.path].cells = Put(c, ks)]
    /\ calls' = calls

\* The last of them are, and the size grows by the number of all of them.
EndWrite(c) ==
    /\ c.op = "write" /\ c.path \in DOMAIN tree /\ tree[c.path].kind = "file"
    /\ \E ks \in SUBSET Given(c) :
          tree' = [tree EXCEPT ![c.path].cells = Put(c, ks),
                               ![c.path].size = @ + Cardinality(Given(c))]
    /\ calls' = calls \ {c}

Next ==
    \/ Start \/ Stop
    \/ \E c \in calls : Appear(c) \/ Settle(c) \/ Write(c) \/ EndWrite(c)

Spec == Init /\ [][Next]_vars
=============================================================================
