--------------------------- MODULE RufsCost_proofs ---------------------------
(***************************************************************************)
(* Rufs, one handler at a time (FUSE with -s): names last, and a crash     *)
(* costs at most one inode.                                                *)
(***************************************************************************)
EXTENDS Rufs_proofs

(* rufs_create and rufs_mkdir, and their steps up to the new inode's.       *)
MakeOps == {"create", "mkdir"}
NewSteps == {"new file", "new directory"}

(* What writei may put in the place of an inode.                            *)
Extends(n, m) ==
    /\ m.type = n.type
    /\ n.type = "directory" => \A k \in Ptr : n.ptr[k] # INVALID => m.ptr[k] = n.ptr[k]

(* rufs_mkfs takes the root's inode and no other.                           *)
BootInv(s, l) ==
    l.op = "mkfs" =>
       /\ "bitmaps" \notin Range(s) => ibitmap \subseteq {Root}
       /\ "take ino" \notin Range(s) => l.ino = Root

(* The directory that gets the name; without a root there is none.          *)
ParentInv(s, l) ==
    l.op \in MakeOps =>
       /\ Head(s) = "lookup" => Dirname(l.path) = <<>> \/ Holds("directory", Dirname(l.path))
       /\ Head(s) \in {"read ibitmap", "take ino", "add"} =>
             IF l.node.valid THEN l.node.type = "directory" ELSE Root \notin Live

(* The inode that was taken.                                                *)
InoInv(s, l) ==
    l.op \in MakeOps /\ "take ino" \notin Range(s) =>
       /\ l.ino \in ibitmap \cup {NoIno}
       /\ "add" \notin Range(s) => l.ino # Root
       /\ IF NewSteps \cap Range(s) # {} THEN l.ino \notin Live \ {NoIno}
          ELSE l.ino \in Live \/ (Head(s) \in WriteiSteps /\ l.out.ino = l.ino)

(* The inode that is about to be written.                                   *)
LastInv(s, l) ==
    Head(s) \in WriteiSteps /\ "root" \notin Range(s) =>
       IF l.out.ino \in Live
       THEN l.out.ino = NoIno \/ Extends(inodes[l.out.ino], l.out)
       ELSE /\ l.out.ino = l.ino /\ l.op \in MakeOps \cup {"mkfs"}
            /\ l.op = "mkfs" => l.out.type = "directory"
            /\ ({"take ino", "add"} \cup NewSteps) \cap Range(s) = {}

(* The pointer that a new block gets.                                       *)
PlaceInv(s, l) ==
    Head(s) \in {"read dbitmap", "take block", "new block"} /\ l.op # "write" =>
       \E k \in Ptr : l.dir.ptr[k] = INVALID

(* How a call that makes something ends.                                    *)
EndInv(s, l) ==
    l.op \in MakeOps =>
       /\ Final(s) = "write inodes"
       /\ Head(s) = "lookup" => "take ino" \in Range(s)

MakeInv(s, l) ==
    /\ BootInv(s, l) /\ ParentInv(s, l) /\ InoInv(s, l)
    /\ LastInv(s, l) /\ PlaceInv(s, l) /\ EndInv(s, l)

LiveInv ==
    /\ Live \subseteq ibitmap \cup {NoIno}
    /\ Root \in Live => inodes[Root].type = "directory"

TreeInv ==
    /\ LiveInv
    /\ \A t \in Thread : todo[t] # <<>> => MakeInv(todo[t], loc[t])

LEMMA TreeGo ==
    ASSUME HandlerTypes, Single, NEW t \in Thread, NEW q, NEW m, Go(t, q, m), LiveInv',
           q # <<>> => MakeInv(q, m)'
    PROVE  TreeInv'
<1>1. todo'[t] = q /\ (q # <<>> => loc'[t] = m)
  BY DEF Go, HandlerTypes
<1>2. ASSUME NEW u \in Thread, todo'[u] # <<>> PROVE MakeInv(todo[u], loc[u])'
  <2>1. u = t
    BY DEF Single
  <2> QED
    BY <1>1, <1>2, <2>1
<1> QED
  BY <1>2 DEF TreeInv

\* A step that leaves inodes and their bitmap alone.
LEMMA QuietTreeGo ==
    ASSUME TypeInv, TreeInv, Single, NEW t \in Thread, NEW q, NEW m, Go(t, q, m),
           UNCHANGED <<inodes, ibitmap>>,
           q # <<>> => /\ MakeInv(q, m)
                       /\ Head(q) = "lookup" => m.path \in Paths /\ data' = data
    PROVE  TreeInv'
<1>1. Live' = Live /\ LiveInv'
  BY DEF Live, LiveInv, TreeInv
<1>2. ASSUME q # <<>> PROVE MakeInv(q, m)'
  <2>1. MakeInv(q, m)
    BY <1>2
  <2>2. BootInv(q, m)' /\ PlaceInv(q, m)' /\ EndInv(q, m)'
    BY <2>1 DEF MakeInv, BootInv, PlaceInv, EndInv
  <2>3. InoInv(q, m)'
    BY <1>1, <2>1 DEF MakeInv, InoInv
  <2>4. LastInv(q, m)'
    BY <1>1, <2>1 DEF MakeInv, LastInv, Extends
  <2>5. ParentInv(q, m)'
    <3>1. CASE Head(q) = "lookup"
      <4>1. m.path \in Paths /\ data' = data
        BY <1>2, <3>1
      <4>2. Len(Dirname(m.path)) \in Nat
        BY <4>1, NamesOfPaths
      <4>3. Walk(Dirname(m.path))' = Walk(Dirname(m.path))
        BY <4>1, <4>2, WalkSame
      <4>4. Holds("directory", Dirname(m.path))' <=> Holds("directory", Dirname(m.path))
        BY <4>3 DEF Holds
      <4> QED
        BY <1>1, <2>1, <4>4 DEF MakeInv, ParentInv
    <3>2. CASE Head(q) # "lookup"
      BY <1>1, <2>1, <3>2 DEF MakeInv, ParentInv
    <3> QED
      BY <3>1, <3>2
  <2> QED
    BY <2>2, <2>3, <2>4, <2>5 DEF MakeInv
<1> QED
  BY <1>1, <1>2, TreeGo DEF TypeInv

LEMMA TreeAt ==
    ASSUME HandlerTypes, TreeInv, NEW t \in Thread, Busy(t)
    PROVE  /\ LiveInv /\ MakeInv(todo[t], loc[t])
           /\ BootInv(todo[t], loc[t]) /\ ParentInv(todo[t], loc[t])
           /\ InoInv(todo[t], loc[t]) /\ LastInv(todo[t], loc[t])
           /\ PlaceInv(todo[t], loc[t]) /\ EndInv(todo[t], loc[t])
  BY DEF TreeInv, MakeInv, Busy

\* The last step stays the last.
LEMMA FinalTail ==
    ASSUME NEW s, Program(s), s # <<>>, NEW r, r = Tail(s)
    PROVE  /\ r # <<>> => Final(r) = Final(s)
           /\ r = <<>> => Final(s) = Head(s) /\ Range(s) = {Head(s)}
<1>1. /\ s \in Seq(Step) /\ Len(s) \in Nat /\ Len(s) > 0 /\ Len(r) = Len(s) - 1
      /\ \A i \in 1..(Len(s) - 1) : r[i] = s[i + 1]
      /\ Head(s) = s[1] /\ r \in Seq(Step)
  BY DEF Program
<1>2. ASSUME r # <<>> PROVE Final(r) = Final(s)
  <2>1. Len(r) > 0
    BY <1>1, <1>2
  <2>2. Len(s) - 1 \in 1..(Len(s) - 1) /\ (Len(s) - 1) + 1 = Len(s)
    BY <1>1, <2>1
  <2> QED
    BY <1>1, <2>2 DEF Final
<1>3. ASSUME r = <<>> PROVE Final(s) = Head(s) /\ Range(s) = {Head(s)}
  <2>1. Len(s) = 1
    <3>1. Len(<<>>) = 0
      OBVIOUS
    <3>2. Len(r) = 0
      BY <1>3, <3>1
    <3> QED
      BY ONLY <1>1, <3>2
  <2>2. Range(s) = {Head(s)} \cup Range(r)
    BY ProgramTail
  <2>3. Range(r) = {}
    BY <1>3, EmptyRange
  <2> QED
    BY <1>1, <2>1, <2>2, <2>3 DEF Final
<1> QED
  BY <1>2, <1>3

\* What is left after a step, where the parts go on saying the same.
LEMMA BootTail ==
    ASSUME NEW s, NEW l, NEW r, NEW m, Program(s), s # <<>>, r = Tail(s),
           m.op = l.op, m.ino = l.ino, BootInv(s, l),
           Head(s) \notin {"take ino", "bitmaps"}
    PROVE  BootInv(r, m)
<1>1. Range(s) = {Head(s)} \cup Range(r)
  BY ProgramTail
<1> QED
  BY <1>1 DEF BootInv

LEMMA ParentTail ==
    ASSUME NEW s, NEW l, NEW r, NEW m, Program(s), s # <<>>, r = Tail(s), r # <<>>,
           m.op = l.op, m.node = l.node, CallInv(s, l), ParentInv(s, l), Head(s) # "lookup"
    PROVE  ParentInv(r, m)
<1>1. Follows(Head(s), Head(r)) /\ Head(s) \in StepsOf(l.op)
  BY ProgramTail, CallTail
<1>2. Head(r) # "lookup"
  BY <1>1 DEF Follows
<1>3. ASSUME l.op \in MakeOps, Head(r) \in {"read ibitmap", "take ino", "add"}
      PROVE  Head(s) \in {"read ibitmap", "take ino"}
  <2>1. Head(s) # "bitmaps"
    BY <1>1, <1>3 DEF StepsOf, CreateSteps, MkdirSteps, NewBlockSteps, MakeOps
  <2> QED
    BY <1>1, <1>3, <2>1 DEF Follows
<1> QED
  BY <1>2, <1>3 DEF ParentInv

LEMMA InoTail ==
    ASSUME NEW s, NEW l, NEW r, NEW m, Program(s), s # <<>>, r = Tail(s), r # <<>>,
           m.op = l.op, m.ino = l.ino, Head(s) = "read inodes" => m.out = l.out,
           InoInv(s, l), Head(s) \notin {"take ino", "add", "write inodes"} \cup NewSteps
    PROVE  InoInv(r, m)
<1>1. Follows(Head(s), Head(r)) /\ Range(s) = {Head(s)} \cup Range(r)
  BY ProgramTail
<1>2. /\ "take ino" \in Range(r) <=> "take ino" \in Range(s)
      /\ "add" \in Range(r) <=> "add" \in Range(s)
      /\ NewSteps \cap Range(r) # {} <=> NewSteps \cap Range(s) # {}
  BY <1>1
<1>3. Head(s) \in WriteiSteps => Head(r) \in WriteiSteps /\ m.out = l.out
  BY <1>1 DEF WriteiSteps, Follows
<1> QED
  BY <1>2, <1>3 DEF InoInv

LEMMA EndTail ==
    ASSUME NEW s, NEW l, NEW r, NEW m, Program(s), s # <<>>, r = Tail(s), r # <<>>,
           m.op = l.op, EndInv(s, l)
    PROVE  EndInv(r, m)
<1>1. Follows(Head(s), Head(r)) /\ Final(r) = Final(s)
  BY ProgramTail, FinalTail
<1>2. Head(r) # "lookup"
  BY <1>1 DEF Follows
<1> QED
  BY <1>1, <1>2 DEF EndInv

LEMMA QuietTreeContinue ==
    ASSUME TypeInv, BlockInv, TreeInv, Single, NEW t \in Thread, Busy(t), NEW m,
           Continue(t, m), m.op = loc[t].op, m.node = loc[t].node, m.ino = loc[t].ino,
           Head(todo[t]) = "read inodes" => m.out = loc[t].out,
           UNCHANGED <<inodes, ibitmap>>,
           Head(todo[t]) \notin {"lookup", "take ino", "add", "bitmaps", "write inodes"}
                                \cup NewSteps,
           Tail(todo[t]) # <<>> => LastInv(Tail(todo[t]), m) /\ PlaceInv(Tail(todo[t]), m)
    PROVE  TreeInv'
<1>0. PICK s, r, l : s = todo[t] /\ r = Tail(s) /\ l = loc[t]
  OBVIOUS
<1>1. /\ Program(s) /\ s # <<>> /\ CallInv(s, l)
      /\ BootInv(s, l) /\ ParentInv(s, l) /\ InoInv(s, l) /\ EndInv(s, l)
      /\ r # <<>> => Follows(Head(s), Head(r))
  BY <1>0, HandlerAt, BlockAt, TreeAt DEF TypeInv, HandlerInv
<1>2. Go(t, r, m)
  BY <1>0 DEF Continue
<1>3. ASSUME r # <<>> PROVE MakeInv(r, m) /\ Head(r) # "lookup"
  <2>1. Head(r) # "lookup"
    BY <1>1, <1>3 DEF Follows
  <2>2. Head(s) \notin {"lookup", "take ino", "add", "bitmaps", "write inodes"} \cup NewSteps
    BY <1>0
  <2>3. m.op = l.op /\ m.node = l.node /\ m.ino = l.ino /\ (Head(s) = "read inodes" => m.out = l.out)
    BY <1>0
  <2>4. BootInv(r, m) /\ ParentInv(r, m) /\ EndInv(r, m)
    BY <1>0, <1>1, <1>3, <2>2, <2>3, BootTail, ParentTail, EndTail
  <2>5. InoInv(r, m)
    BY <1>0, <1>1, <1>3, <2>2, <2>3, InoTail
  <2> QED
    BY <1>0, <1>3, <2>1, <2>4, <2>5 DEF MakeInv
<1> QED
  BY <1>2, <1>3, QuietTreeGo

\* Steps after which nothing is about to be written.
LEMMA LastTail ==
    ASSUME NEW s, NEW r, NEW m, Program(s), s # <<>>, r = Tail(s), r # <<>>,
           Head(s) \notin NewSteps \cup {"root", "link", "new block", "read inodes"}
    PROVE  LastInv(r, m)
<1>1. Follows(Head(s), Head(r))
  BY ProgramTail
<1>2. Head(r) \notin WriteiSteps
  BY <1>1 DEF Follows, WriteiSteps, NewSteps
<1> QED
  BY <1>2 DEF LastInv

LEMMA PlaceLast ==
    ASSUME NEW s, NEW r, NEW m, Program(s), s # <<>>, r = Tail(s), r # <<>>,
           Head(s) \notin {"read dbitmap", "take block"}
    PROVE  PlaceInv(r, m)
<1>1. Follows(Head(s), Head(r))
  BY ProgramTail
<1>2. Head(r) \notin {"read dbitmap", "take block", "new block"}
  BY <1>1 DEF Follows
<1> QED
  BY <1>2 DEF PlaceInv

LEMMA ReturnTree ==
    ASSUME TypeInv, TreeInv, Single, NEW t \in Thread, Return(t), UNCHANGED <<inodes, ibitmap>>
    PROVE  TreeInv'
  BY QuietTreeGo DEF Return

LEMMA RootWalk == Walk(<<>>) = Root
<1>1. Len(<<>>) = 0
  OBVIOUS
<1>2. PICK f : IsWalk(f, <<>>, 0) /\ Walk(<<>>) = f[0]
  BY <1>1, WalkSteps
<1> QED
  BY <1>2 DEF IsWalk

LEMMA LookUpTree ==
    ASSUME TypeInv, BlockInv, NamesInv, TreeInv, Single, NEW t \in Thread, LookUp(t)
    PROVE  TreeInv'
<1> DEFINE l == loc[t]
           s == todo[t]
           r == Tail(s)
           p == IF l.op \in {"create", "mkdir"} THEN Dirname(l.path) ELSE l.path
           i == Walk(p)
           m == [l EXCEPT !.node = inodes[i]]
<1>1. /\ Busy(t) /\ Head(s) = "lookup" /\ HandlerTypes /\ DiskTypes /\ l \in Local
      /\ Program(s) /\ s # <<>> /\ l.path \in Paths
      /\ BootInv(s, l) /\ ParentInv(s, l) /\ InoInv(s, l) /\ EndInv(s, l) /\ LiveInv
      /\ UNCHANGED <<inodes, data, ibitmap>>
  BY HandlerAt, TreeAt, LookUpPath DEF LookUp, At, TypeInv, disk
<1>2. Return(t) \/ (i # Missing /\ Go(t, r, m))
  BY DEF LookUp, Continue
<1>3. CASE Return(t)
  BY <1>1, <1>3, ReturnTree
<1>4. CASE i # Missing /\ Go(t, r, m)
  <2>1. m.op = l.op /\ m.ino = l.ino /\ m.node = inodes[i]
    BY <1>1 DEF Local
  <2>2. l.op \in MakeOps => IF inodes[i].valid THEN inodes[i].type = "directory" ELSE Root \notin Live
    <3> SUFFICES ASSUME l.op \in MakeOps
                 PROVE  IF inodes[i].valid THEN inodes[i].type = "directory" ELSE Root \notin Live
      OBVIOUS
    <3>1. i = Walk(Dirname(l.path))
      BY DEF MakeOps
    <3>2. CASE Dirname(l.path) = <<>>
      <4>1. i = Root
        BY <3>1, <3>2, RootWalk
      <4>2. Root \in Slot
        BY SizesOfTypes
      <4> QED
        BY <1>1, <4>1, <4>2 DEF LiveInv, Live
    <3>3. CASE Holds("directory", Dirname(l.path))
      BY <3>1, <3>3 DEF Holds
    <3> QED
      BY <1>1, <3>2, <3>3 DEF ParentInv
  <2> HIDE DEF m, i
  <2>3. ASSUME r # <<>> PROVE MakeInv(r, m) /\ Head(r) # "lookup"
    <3>1. Head(r) \in {"read ibitmap", "read", "write"}
      BY <1>1, <2>3, ProgramTail DEF Follows
    <3>2. BootInv(r, m) /\ EndInv(r, m)
      BY <1>1, <2>1, <2>3, BootTail, EndTail
    <3>3. InoInv(r, m)
      <4>1. Head(s) # "read inodes" /\ Head(s) \notin {"take ino", "add", "write inodes"} \cup NewSteps
        BY <1>1 DEF NewSteps
      <4> QED
        BY <1>1, <2>1, <2>3, <4>1, InoTail
    <3>4. ParentInv(r, m)
      BY <2>1, <2>2, <3>1 DEF ParentInv
    <3>5. LastInv(r, m) /\ PlaceInv(r, m)
      BY <3>1 DEF LastInv, PlaceInv, WriteiSteps
    <3> QED
      BY <3>1, <3>2, <3>3, <3>4, <3>5 DEF MakeInv
  <2> QED
    BY <1>1, <1>4, <2>3, QuietTreeGo
<1> QED
  BY <1>2, <1>3, <1>4

LEMMA BitmapTree ==
    ASSUME TypeInv, BlockInv, TreeInv, Single, NEW t \in Thread,
           ReadBitmap(t) \/ TakeBlock(t)
    PROVE  TreeInv'
<1>0. PICK s, r, l : s = todo[t] /\ r = Tail(s) /\ l = loc[t]
  OBVIOUS
<1>1. /\ Busy(t) /\ Head(s) \in {"read ibitmap", "read dbitmap", "take block"}
      /\ l \in Local /\ UNCHANGED <<inodes, ibitmap>>
      /\ Program(s) /\ s # <<>> /\ PlaceInv(s, l)
      /\ r # <<>> => Follows(Head(s), Head(r))
  BY <1>0, HandlerAt, TreeAt DEF ReadBitmap, TakeBlock, At, TypeInv, disk
<1>2. \E m : /\ Continue(t, m) /\ m.op = l.op /\ m.node = l.node /\ m.ino = l.ino
             /\ m.dir = l.dir
  <2>1. CASE ReadBitmap(t)
    <3>1. PICK b : Continue(t, [l EXCEPT !.bits = b])
      BY <1>0, <2>1 DEF ReadBitmap
    <3> WITNESS [l EXCEPT !.bits = b]
    <3> QED
      BY <1>1, <3>1 DEF Local
  <2>2. CASE TakeBlock(t)
    <3>1. PICK b : Continue(t, [l EXCEPT !.blk = b])
      BY <1>0, <2>2 DEF TakeBlock
    <3> WITNESS [l EXCEPT !.blk = b]
    <3> QED
      BY <1>1, <3>1 DEF Local
  <2> QED
    BY <2>1, <2>2
<1>3. PICK m : /\ Continue(t, m) /\ m.op = l.op /\ m.node = l.node /\ m.ino = l.ino
               /\ m.dir = l.dir
  BY <1>2
<1>4. ASSUME r # <<>> PROVE LastInv(r, m) /\ PlaceInv(r, m)
  <2>1. Head(r) \in {"take ino", "take block", "new block", "fill"}
    BY <1>1, <1>4 DEF Follows
  <2>2. LastInv(r, m)
    BY <2>1 DEF LastInv, WriteiSteps
  <2>3. PlaceInv(r, m)
    <3>1. CASE Head(s) = "read ibitmap"
      BY <1>1, <1>4, <3>1 DEF Follows, PlaceInv
    <3>2. CASE Head(s) # "read ibitmap"
      BY <1>1, <1>3, <3>2 DEF PlaceInv
    <3> QED
      BY <3>1, <3>2
  <2> QED
    BY <2>2, <2>3
<1> QED
  BY <1>0, <1>1, <1>3, <1>4, QuietTreeContinue DEF NewSteps

LEMMA TakeInoTree ==
    ASSUME TypeInv, BlockInv, NamesInv, TreeInv, Single, NEW t \in Thread, TakeIno(t)
    PROVE  TreeInv'
<1>0. PICK s, r, l, i : /\ s = todo[t] /\ r = Tail(s) /\ l = loc[t]
                        /\ i = LowestClear(l.bits, MaxInum, NoIno)
  OBVIOUS
<1>1. PICK m : m = [l EXCEPT !.ino = i]
  OBVIOUS
<1>2. /\ Busy(t) /\ Head(s) = "take ino" /\ HandlerTypes /\ l \in Local /\ Go(t, r, m)
      /\ UNCHANGED inodes
      /\ ibitmap' = IF i = NoIno THEN ibitmap ELSE l.bits \cup {i}
      /\ Program(s) /\ s # <<>> /\ CallInv(s, l) /\ BitsNames(s, l) /\ LiveInv
      /\ BootInv(s, l) /\ ParentInv(s, l) /\ EndInv(s, l)
      /\ Range(s) = {Head(s)} \cup Range(r)
      /\ r # <<>> => Follows(Head(s), Head(r)) /\ Head(r) \in Range(r)
  BY <1>0, <1>1, HandlerAt, BlockAt, NamesWhere, TreeAt
     DEF TakeIno, At, TypeInv, Continue, HandlerInv
<1>3. l.bits = ibitmap
  BY <1>2 DEF BitsNames
<1>4. i = NoIno \/ i \in Inum \ ibitmap
  <2>1. MaxInum \in Nat
    BY Sizes
  <2> QED
    BY <1>0, <1>3, <2>1, LowestClearProperties DEF Inum
<1>5. m.op = l.op /\ m.ino = i /\ m.node = l.node
  BY <1>1, <1>2 DEF Local
<1>6. Live' = Live /\ LiveInv' /\ i \in ibitmap' \cup {NoIno} /\ i \notin Live \ {NoIno}
  BY <1>2, <1>3, <1>4 DEF Live, LiveInv
<1>7. ASSUME r # <<>> PROVE MakeInv(r, m)'
  <2>1. Head(r) \in {"add", "root"}
    BY <1>2, <1>7 DEF Follows
  <2>2. BootInv(r, m)'
    <3> SUFFICES ASSUME l.op = "mkfs" PROVE BootInv(r, m)'
      BY <1>5 DEF BootInv
    <3>1. "bitmaps" \notin Range(s)
      <4>1. ~Before("take ino", "bitmaps")
        BY DEF Before, Past
      <4>2. \A b \in Range(r) : Before(Head(s), b)
        BY <1>0, <1>2, ProgramTail
      <4>3. "bitmaps" \notin Range(r)
        BY ONLY <1>2, <4>1, <4>2
      <4> QED
        BY <1>2, <4>3
    <3>2. ibitmap = {} /\ l.bits = {}
      BY <1>2, <1>3, <3>1 DEF BitsNames
    <3>3. i = Root
      <4>1. MaxInum \in Nat /\ MaxInum > 0
        BY Sizes
      <4>2. 0 \in 0..(MaxInum - 1) /\ ~(0..(MaxInum - 1) \subseteq {})
        BY <4>1
      <4>3. i = Min((0..(MaxInum - 1)) \ {})
        BY <1>0, <3>2, <4>2 DEF LowestClear
      <4>4. (0..(MaxInum - 1)) \ {} \in SUBSET Nat
        BY <4>1
      <4>5. /\ i \in (0..(MaxInum - 1)) \ {}
            /\ \A x \in (0..(MaxInum - 1)) \ {} : i <= x
        BY <4>2, <4>3, <4>4, MinProperties
      <4> QED
        BY <4>2, <4>5 DEF Root
    <3>4. ibitmap' \subseteq {Root}
      BY <1>2, <3>2, <3>3
    <3> QED
      BY <1>5, <3>3, <3>4 DEF BootInv
  <2>3. ParentInv(r, m)'
    <3>1. ParentInv(r, m)
      BY <1>0, <1>2, <1>5, <1>7, ParentTail
    <3> QED
      BY <1>6, <2>1, <3>1 DEF ParentInv
  <2>4. InoInv(r, m)'
    <3> SUFFICES ASSUME m.op \in MakeOps PROVE InoInv(r, m)'
      BY DEF InoInv
    <3>1. Head(r) = "add"
      <4>1. Head(r) \in StepsOf(l.op)
        BY <1>0, <1>2, <1>7, CallTail
      <4> QED
        BY <1>5, <2>1, <4>1 DEF MakeOps, StepsOf, CreateSteps, MkdirSteps, NewBlockSteps
    <3>2. "add" \in Range(r) /\ NewSteps \cap Range(r) # {}
      <4>1. "add" \in Range(r)
        BY <1>2, <1>7, <3>1
      <4>2. Program(r)
        BY <1>0, <1>2, ProgramTail
      <4>3. /\ Tail(r) # <<>> => Follows(Head(r), Head(Tail(r))) /\ Head(Tail(r)) \in Range(Tail(r))
            /\ Range(r) = {Head(r)} \cup Range(Tail(r))
        BY <1>7, <4>2, ProgramTail
      <4>4. Tail(r) # <<>>
        <5>1. Final(r) = "write inodes"
          BY <1>0, <1>2, <1>5, <1>7, FinalTail DEF EndInv
        <5> QED
          BY <1>7, <3>1, <4>2, <5>1, FinalTail
      <4>5. Head(Tail(r)) \in NewSteps
        BY <3>1, <4>3, <4>4 DEF Follows, NewSteps
      <4> QED
        BY <4>1, <4>3, <4>4, <4>5
    <3> QED
      BY <1>5, <1>6, <3>2 DEF InoInv
  <2>5. LastInv(r, m)' /\ PlaceInv(r, m)'
    BY <2>1 DEF LastInv, PlaceInv, WriteiSteps
  <2>6. EndInv(r, m)'
    <3>1. EndInv(r, m)
      BY <1>0, <1>2, <1>5, <1>7, EndTail
    <3> QED
      BY <3>1 DEF EndInv
  <2> QED
    BY <2>2, <2>3, <2>4, <2>5, <2>6 DEF MakeInv
<1> QED
  BY <1>2, <1>6, <1>7, TreeGo

LEMMA ReadInodesTree ==
    ASSUME TypeInv, BlockInv, TreeInv, Single, NEW t \in Thread, ReadInodes(t)
    PROVE  TreeInv'
<1>0. PICK s, r, l : s = todo[t] /\ r = Tail(s) /\ l = loc[t]
  OBVIOUS
<1>1. PICK m : m = [l EXCEPT !.buf = [j \in InodeBlock(l.out.ino) |-> inodes[j]]]
  OBVIOUS
<1>2. /\ Busy(t) /\ Head(s) = "read inodes" /\ l \in Local
      /\ Program(s) /\ s # <<>> /\ LastInv(s, l) /\ Continue(t, m)
      /\ Range(s) = {Head(s)} \cup Range(r)
      /\ r # <<>> => Follows(Head(s), Head(r))
      /\ UNCHANGED <<inodes, ibitmap>>
  BY <1>0, <1>1, HandlerAt, TreeAt DEF ReadInodes, At, TypeInv, disk
<1>3. m.op = l.op /\ m.node = l.node /\ m.ino = l.ino /\ m.out = l.out
  BY <1>1, <1>2 DEF Local
<1>4. ASSUME r # <<>> PROVE LastInv(r, m) /\ PlaceInv(r, m)
  <2>1. Head(r) = "write inodes"
    BY <1>2, <1>4 DEF Follows
  <2>2. \A x : x # "read inodes" => (x \in Range(s) <=> x \in Range(r))
    BY <1>2
  <2>3. LastInv(r, m)
    <3> SUFFICES ASSUME "root" \notin Range(r) PROVE LastInv(r, m)
      BY DEF LastInv
    <3>1. "root" \notin Range(s)
      BY <2>2
    <3>2. IF l.out.ino \in Live
          THEN l.out.ino = NoIno \/ Extends(inodes[l.out.ino], l.out)
          ELSE /\ l.out.ino = l.ino /\ l.op \in MakeOps \cup {"mkfs"}
               /\ l.op = "mkfs" => l.out.type = "directory"
               /\ ({"take ino", "add"} \cup NewSteps) \cap Range(s) = {}
      BY <1>2, <3>1 DEF LastInv, WriteiSteps
    <3>3. Range(r) \subseteq Range(s)
      BY <1>2
    <3> QED
      BY <1>3, <3>2, <3>3 DEF LastInv
  <2> QED
    BY <2>1, <2>3 DEF PlaceInv
<1>5. Head(s) \notin {"lookup", "take ino", "add", "bitmaps", "write inodes"} \cup NewSteps
  BY <1>2 DEF NewSteps
<1> QED
  BY <1>0, <1>2, <1>3, <1>4, <1>5, QuietTreeContinue

\* What writei makes of the valid inodes.
LEMMA WriteInodesLive ==
    ASSUME TypeInv, BlockInv, TreeInv, NEW t \in Thread, WriteInodes(t)
    PROVE  LET s == todo[t]
               l == loc[t]
               i == l.out.ino
           IN  /\ i \in Slot /\ l.op \in {"mkfs", "create", "mkdir", "read", "write"}
               /\ \A j \in Slot : j # i => inodes'[j] = inodes[j]
               /\ inodes'[i] = l.out
               /\ "root" \in Range(s) => l.op = "mkfs" /\ Live = {} /\ Live' = {}
               /\ "root" \notin Range(s) =>
                     /\ Live' = Live \cup {i} /\ l.out.valid
                     /\ \/ i \in Live /\ (i = NoIno \/ Extends(inodes[i], l.out))
                        \/ /\ i \notin Live /\ i = l.ino /\ l.op \in MakeOps \cup {"mkfs"}
                           /\ l.op = "mkfs" => l.out.type = "directory"
                           /\ ({"take ino", "add"} \cup NewSteps) \cap Range(s) = {}
<1>0. PICK s, l, i : s = todo[t] /\ l = loc[t] /\ i = l.out.ino
  OBVIOUS
<1>1. /\ Busy(t) /\ Head(s) = "write inodes" /\ Program(s) /\ s # <<>>
      /\ HandlerInv(s, l) /\ LastInv(s, l) /\ l \in Local
  BY <1>0, BlockAt, HandlerAt, TreeAt DEF WriteInodes, At, TypeInv
<1>2. /\ CallInv(s, l) /\ MkfsInv(s, l) /\ OutInv(s, l) /\ Head(s) \in StepsOf(l.op)
  BY <1>1, CallTail DEF HandlerInv
<1>3. /\ i \in Slot
      /\ \A j \in Slot : inodes'[j] = IF j = i THEN l.out ELSE inodes[j]
      /\ Live' = (Live \ {i}) \cup (IF l.out.valid THEN {i} ELSE {})
  BY <1>0, WriteInodesEffect
<1>4. l.op \in {"mkfs", "create", "mkdir", "read", "write"}
  BY <1>1, <1>2 DEF StepsOf, Local
<1>5. ASSUME "root" \in Range(s) PROVE l.op = "mkfs" /\ Live = {} /\ Live' = {}
  <2>1. Live = {} /\ ~l.out.valid
    BY <1>1, <1>2, <1>5 DEF MkfsInv, OutInv, WriteiSteps
  <2>2. "root" \in StepsOf(l.op)
    BY <1>2, <1>5 DEF CallInv
  <2>3. l.op = "mkfs"
    BY <2>2 DEF StepsOf, CreateSteps, MkdirSteps, NewBlockSteps, WriteiSteps, GetBlkSteps
  <2> QED
    BY <1>3, <2>1, <2>3
<1>6. ASSUME "root" \notin Range(s)
      PROVE  /\ Live' = Live \cup {i} /\ l.out.valid
             /\ \/ i \in Live /\ (i = NoIno \/ Extends(inodes[i], l.out))
                \/ /\ i \notin Live /\ i = l.ino /\ l.op \in MakeOps \cup {"mkfs"}
                   /\ l.op = "mkfs" => l.out.type = "directory"
                   /\ ({"take ino", "add"} \cup NewSteps) \cap Range(s) = {}
  <2>1. l.out.valid
    BY <1>1, <1>2, <1>6 DEF OutInv, WriteiSteps
  <2>2. Live' = Live \cup {i}
    BY <1>3, <2>1
  <2>3. Head(s) \in WriteiSteps
    BY <1>1 DEF WriteiSteps
  <2> QED
    BY <1>0, <1>1, <1>6, <2>1, <2>2, <2>3 DEF LastInv
<1>7. inodes'[i] = l.out /\ \A j \in Slot : j # i => inodes'[j] = inodes[j]
  BY <1>3
<1> QED
  BY <1>0, <1>3, <1>4, <1>5, <1>6, <1>7

LEMMA WriteInodesTree ==
    ASSUME TypeInv, BlockInv, NamesInv, TreeInv, Single, Sheltered,
           NEW t \in Thread, WriteInodes(t)
    PROVE  TreeInv'
<1>0. PICK s, r, l, i : s = todo[t] /\ r = Tail(s) /\ l = loc[t] /\ i = l.out.ino
  OBVIOUS
<1>1. /\ Busy(t) /\ Head(s) = "write inodes" /\ HandlerTypes
      /\ Program(s) /\ s # <<>> /\ Go(t, r, l) /\ ibitmap' = ibitmap
      /\ Range(s) = {Head(s)} \cup Range(r)
      /\ r # <<>> => Follows(Head(s), Head(r))
      /\ LiveInv /\ BootInv(s, l) /\ InoInv(s, l) /\ EndInv(s, l) /\ BitsNames(s, l)
  BY <1>0, HandlerAt, TreeAt, NamesWhere DEF WriteInodes, At, TypeInv, Continue
<1>2. /\ i \in Slot
      /\ \A j \in Slot : j # i => inodes'[j] = inodes[j]
      /\ inodes'[i] = l.out
      /\ "root" \in Range(s) => l.op = "mkfs" /\ Live = {} /\ Live' = {}
      /\ "root" \notin Range(s) =>
             /\ Live' = Live \cup {i}
             /\ \/ i \in Live /\ (i = NoIno \/ Extends(inodes[i], l.out))
                \/ /\ i \notin Live /\ i = l.ino /\ l.op \in MakeOps \cup {"mkfs"}
                   /\ l.op = "mkfs" => l.out.type = "directory"
                   /\ ({"take ino", "add"} \cup NewSteps) \cap Range(s) = {}
  BY <1>0, WriteInodesLive
<1>3. Root \in Slot /\ Root # NoIno
  BY SizesOfTypes DEF Root, NoIno
<1>4. ASSUME i \notin Live, i \in Live'
      PROVE  i \in ibitmap \cup {NoIno} /\ (i = Root => l.out.type = "directory")
  <2>1. /\ i = l.ino /\ l.op \in MakeOps \cup {"mkfs"}
        /\ l.op = "mkfs" => l.out.type = "directory"
        /\ "take ino" \notin Range(s) /\ "add" \notin Range(s)
    BY <1>2, <1>4
  <2>2. CASE l.op = "mkfs"
    BY <1>1, <2>1, <2>2 DEF BootInv, BitsNames
  <2>3. CASE l.op \in MakeOps
    BY <1>1, <2>1, <2>3 DEF InoInv
  <2> QED
    BY <2>1, <2>2, <2>3
<1>5. LiveInv'
  <2>1. Live' \subseteq ibitmap' \cup {NoIno}
    BY <1>1, <1>2, <1>4 DEF LiveInv
  <2>2. ASSUME Root \in Live' PROVE inodes'[Root].type = "directory"
    <3>1. CASE Root # i
      BY <1>1, <1>2, <1>3, <2>2, <3>1 DEF LiveInv
    <3>2. CASE Root = i /\ i \in Live
      BY <1>1, <1>2, <1>3, <2>2, <3>2 DEF LiveInv, Extends
    <3>3. CASE Root = i /\ i \notin Live
      BY <1>2, <1>4, <2>2, <3>3
    <3> QED
      BY <3>1, <3>2, <3>3
  <2> QED
    BY <2>1, <2>2 DEF LiveInv
<1>6. ASSUME r # <<>> PROVE MakeInv(r, l)'
  <2>1. Head(r) \in {"clear inodes", "new file", "new directory", "add dot", "add dotdot", "link"}
    BY <1>1, <1>6 DEF Follows
  <2>2. BootInv(r, l)'
    <3>1. BootInv(r, l)
      BY <1>0, <1>1, BootTail
    <3> QED
      BY <1>1, <3>1 DEF BootInv
  <2>3. ParentInv(r, l)' /\ LastInv(r, l)' /\ PlaceInv(r, l)'
    BY <2>1 DEF ParentInv, LastInv, PlaceInv, WriteiSteps
  <2>4. EndInv(r, l)'
    <3>1. EndInv(r, l)
      BY <1>0, <1>1, <1>6, EndTail
    <3> QED
      BY <3>1 DEF EndInv
  <2>5. InoInv(r, l)'
    <3> SUFFICES ASSUME l.op \in MakeOps, "take ino" \notin Range(r) PROVE InoInv(r, l)'
      BY DEF InoInv
    <3>1. /\ "take ino" \notin Range(s) /\ ("add" \in Range(s) <=> "add" \in Range(r))
          /\ NewSteps \cap Range(s) = NewSteps \cap Range(r)
      BY <1>1 DEF NewSteps
    <3>2. "root" \notin Range(s)
      BY <1>2 DEF MakeOps
    <3>3. l.ino \in ibitmap' \cup {NoIno} /\ ("add" \notin Range(r) => l.ino # Root)
      BY <1>1, <3>1 DEF InoInv
    <3>4. CASE NewSteps \cap Range(r) # {}
      <4>1. Live' = Live
        BY <1>2, <3>1, <3>2, <3>4
      <4> QED
        BY <1>1, <3>1, <3>3, <3>4, <4>1 DEF InoInv
    <3>5. CASE NewSteps \cap Range(r) = {}
      <4>1. l.ino \in Live'
        BY <1>0, <1>1, <1>2, <3>1, <3>2, <3>5 DEF InoInv
      <4> QED
        BY <3>3, <3>5, <4>1 DEF InoInv
    <3> QED
      BY <3>4, <3>5
  <2> QED
    BY <2>2, <2>3, <2>4, <2>5 DEF MakeInv
<1> QED
  BY <1>1, <1>5, <1>6, TreeGo

\* dir_add's calls: the directory is as it is on the disk, and only a new name counts.
LEMMA AddCalls ==
    ASSUME TypeInv, BlockInv, NamesInv, NEW t \in Thread,
           AddName(t) \/ AddDot(t) \/ AddDotdot(t)
    PROVE  /\ Busy(t) /\ Head(todo[t]) \in {"add", "add dot", "add dotdot"}
           /\ loc[t].op \in {"mkfs", "create", "mkdir"}
           /\ \E dir, name, ino :
                 /\ AddEntry(t, dir, name, ino) /\ dir \in Inode
                 /\ [name |-> name, ino |-> ino] \in Entry
                 /\ dir.valid => dir.ino \in Live /\ inodes[dir.ino] = dir
                 /\ Head(todo[t]) # "add" => name \notin Names
                 /\ Head(todo[t]) = "add" =>
                       /\ loc[t].op \in MakeOps /\ dir = loc[t].node /\ name \in Names
                       /\ ino = loc[t].ino
                       /\ dir.valid => Unnamed(ino) /\ Absent(dir.ino, name)
<1>0. PICK s, l : s = todo[t] /\ l = loc[t]
  OBVIOUS
<1>1. /\ Busy(t) /\ Head(s) \in {"add", "add dot", "add dotdot"}
      /\ l \in Local /\ LocAt(s, l) /\ HandlerInv(s, l) /\ DiskInv /\ DiskTypes
      /\ Program(s) /\ s # <<>> /\ PathNames(s, l)
      /\ Range(s) = {Head(s)} \cup Range(Tail(s))
      /\ \A b \in Range(Tail(s)) : Before(Head(s), b)
  BY <1>0, BlockAt, HandlerAt, NamesWhere DEF AddName, AddDot, AddDotdot, At, TypeInv
<1>2. OutInv(s, l) /\ NodeInv(s, l) /\ Head(s) \in StepsOf(l.op)
  BY <1>1, HandlerAt, CallTail DEF HandlerInv
<1>3. l.op \in {"mkfs", "create", "mkdir"}
  BY <1>1, <1>2 DEF StepsOf, WriteiSteps, GetBlkSteps, Local
<1>4. "take ino" \notin Range(s)
  <2>1. ~Before(Head(s), "take ino")
    BY <1>1 DEF Before, Past
  <2> QED
    BY ONLY <1>1, <2>1
<1>5. l.ino \in Slot /\ l.node \in Inode /\ l.out \in Inode /\ inodes \in [Slot -> Inode]
  BY <1>1, <1>4 DEF LocAt, Local, DiskTypes
<1>6. \A n \in Inode : n.ino \in Slot /\ (n.valid /\ inodes[n.ino] = n => n.ino \in Live)
  BY DEF Inode, Live
<1>10. /\ \A name \in Names, ino \in Slot : [name |-> name, ino |-> ino] \in Entry
       /\ \A ino \in Slot : /\ [name |-> ".", ino |-> ino] \in Entry
                            /\ [name |-> "..", ino |-> ino] \in Entry
       /\ "." \notin Names /\ ".." \notin Names
  BY Dots DEF Entry
<1> DEFINE Good(dir, name, ino) ==
             /\ AddEntry(t, dir, name, ino) /\ dir \in Inode
             /\ [name |-> name, ino |-> ino] \in Entry
             /\ dir.valid => dir.ino \in Live /\ inodes[dir.ino] = dir
             /\ Head(s) # "add" => name \notin Names
             /\ Head(s) = "add" =>
                   /\ l.op \in MakeOps /\ dir = l.node /\ name \in Names
                   /\ ino = l.ino
                   /\ dir.valid => Unnamed(ino) /\ Absent(dir.ino, name)
<1>7. CASE AddName(t)
  <2>1. Head(s) = "add" /\ AddEntry(t, l.node, Basename(l.path), l.ino)
    BY <1>0, <1>7 DEF AddName, At
  <2>2. l.op \in {"create", "mkdir"}
    BY <1>2, <2>1 DEF StepsOf, MkfsSteps, NewBlockSteps, WriteiSteps, GetBlkSteps
  <2>3. l.node.valid => /\ inodes[l.node.ino] = l.node
                        /\ Absent(l.node.ino, Basename(l.path)) /\ Unnamed(l.ino)
    BY <1>1, <1>2, <2>1, <2>2 DEF NodeInv, PathNames
  <2>4. Basename(l.path) \in Names
    <3>1. l.path \in Paths
      BY <1>1, <2>1 DEF LocAt
    <3> QED
      BY <3>1, NamesOfPaths
  <2>5. Good(l.node, Basename(l.path), l.ino)
    BY <1>5, <1>6, <1>10, <2>1, <2>2, <2>3, <2>4 DEF MakeOps
  <2> HIDE DEF Good
  <2>6. \E dir, name, ino : Good(dir, name, ino)
    BY <2>5
  <2> QED
    BY <1>0, <1>1, <1>3, <2>6 DEF Good
<1>8. CASE AddDot(t)
  <2>1. Head(s) = "add dot" /\ AddEntry(t, l.out, ".", l.ino)
    BY <1>0, <1>8 DEF AddDot, At
  <2>2. inodes[l.out.ino] = l.out
    BY <1>2, <2>1 DEF OutInv
  <2>3. Good(l.out, ".", l.ino)
    BY <1>5, <1>6, <1>10, <2>1, <2>2
  <2> HIDE DEF Good
  <2>4. \E dir, name, ino : Good(dir, name, ino)
    BY <2>3
  <2> QED
    BY <1>0, <1>1, <1>3, <2>4 DEF Good
<1>9. CASE AddDotdot(t)
  <2>1. Head(s) = "add dotdot" /\ AddEntry(t, inodes[l.ino], "..", l.node.ino)
    BY <1>0, <1>9 DEF AddDotdot, At
  <2>2. inodes[l.ino] \in Inode /\ l.node.ino \in Slot
    BY <1>5, <1>6
  <2>3. inodes[l.ino].valid => l.ino \in Live /\ inodes[l.ino].ino = l.ino
    BY <1>1, <1>5 DEF DiskInv, Live
  <2>4. Good(inodes[l.ino], "..", l.node.ino)
    BY <1>5, <1>10, <2>1, <2>2, <2>3
  <2> HIDE DEF Good
  <2>5. \E dir, name, ino : Good(dir, name, ino)
    BY <2>4
  <2> QED
    BY <1>0, <1>1, <1>3, <2>5 DEF Good
<1> QED
  BY <1>7, <1>8, <1>9

\* What dir_add does with the entry in m: nothing, a new block first, or an entry in the
\* place of something that is none.
Added(t, m) ==
    LET r == Tail(todo[t])
    IN  /\ m.op = loc[t].op /\ m.node = loc[t].node /\ m.ino = loc[t].ino
        /\ \/ /\ data' = data /\ (~m.dir.valid \/ Room(m.dir) = {})
              /\ IF Head(todo[t]) = "add" THEN Return(t) ELSE Go(t, r, m)
           \/ /\ data' = data /\ m.dir.valid /\ \E k \in Ptr : m.dir.ptr[k] = INVALID
              /\ Go(t, GetAvailBlkno \o <<"new block">> \o Writei \o r, m)
           \/ /\ m.dir.valid /\ Go(t, r, m)
              /\ \E k \in Ptr, c \in Cell :
                    /\ m.dir.ptr[k] # INVALID /\ ~IsEntry(BioRead(m.dir.ptr[k])[c])
                    /\ BioWrite(m.dir.ptr[k], [BioRead(m.dir.ptr[k]) EXCEPT ![c] = m.entry])

LEMMA AddMoves ==
    ASSUME HandlerTypes, NEW t \in Thread, Busy(t), NEW dir, NEW name, NEW ino,
           AddEntry(t, dir, name, ino)
    PROVE  /\ UNCHANGED <<found, ibitmap, dbitmap, inodes, crashes>>
           /\ \E m : m.dir = dir /\ m.entry = [name |-> name, ino |-> ino] /\ Added(t, m)
<1> DEFINE k == Min(Room(dir))
           b == dir.ptr[k]
           c == Min({d \in Cell : ~IsEntry(BioRead(b)[d])})
<1>0. PICK r, e : r = Tail(todo[t]) /\ e = [name |-> name, ino |-> ino]
  OBVIOUS
<1>1. PICK m : m = [loc[t] EXCEPT !.dir = dir, !.entry = e]
  OBVIOUS
<1>2. /\ m.op = loc[t].op /\ m.node = loc[t].node /\ m.ino = loc[t].ino
      /\ m.dir = dir /\ m.entry = e
  BY <1>1, HandlerAt DEF Local
<1>3. /\ UNCHANGED <<found, ibitmap, dbitmap, inodes, crashes>>
      /\ \/ /\ ~dir.valid \/ Room(dir) = {}
            /\ data' = data
            /\ IF Head(todo[t]) = "add" THEN Return(t) ELSE Go(t, r, m)
         \/ /\ dir.valid /\ Room(dir) # {} /\ b = INVALID /\ data' = data
            /\ Go(t, GetAvailBlkno \o <<"new block">> \o Writei \o r, m)
         \/ /\ dir.valid /\ Room(dir) # {} /\ b # INVALID /\ Go(t, r, m)
            /\ BioWrite(b, [BioRead(b) EXCEPT ![c] = e])
  BY <1>0, <1>1, <1>2 DEF AddEntry, At, Continue
<1>4. Room(dir) # {} => k \in Ptr /\ (b # INVALID => c \in Cell /\ ~IsEntry(BioRead(b)[c]))
  BY RoomPlace
<1> HIDE DEF k, b, c
<1>5. CASE dir.valid /\ Room(dir) # {} /\ b = INVALID /\ data' = data
  BY <1>0, <1>2, <1>3, <1>4, <1>5 DEF b, k, Added
<1>6. CASE dir.valid /\ Room(dir) # {} /\ b # INVALID
  <2>1. k \in Ptr /\ c \in Cell /\ ~IsEntry(BioRead(b)[c]) /\ Go(t, r, m)
        /\ BioWrite(b, [BioRead(b) EXCEPT ![c] = e])
    BY <1>3, <1>4, <1>6
  <2>2. \E j \in Ptr, d \in Cell :
           /\ dir.ptr[j] # INVALID /\ ~IsEntry(BioRead(dir.ptr[j])[d])
           /\ BioWrite(dir.ptr[j], [BioRead(dir.ptr[j]) EXCEPT ![d] = e])
    BY ONLY <1>6, <2>1 DEF b
  <2>3. Added(t, m)
    BY <1>0, <1>2, <1>6, <2>1, <2>2 DEF Added
  <2> QED
    BY <1>0, <1>2, <1>3, <2>3
<1>7. CASE (~dir.valid \/ Room(dir) = {}) /\ data' = data
  BY <1>0, <1>2, <1>3, <1>7 DEF Added
<1> QED
  BY <1>3, <1>5, <1>6, <1>7

\* dir_add's new block keeps what the call ends with.
LEMMA AddFinal ==
    ASSUME HandlerTypes, NEW t \in Thread, Busy(t),
           Head(todo[t]) \in {"add", "add dot", "add dotdot"},
           NEW r, r = Tail(todo[t]), r # <<>>,
           NEW q, q = GetAvailBlkno \o <<"new block">> \o Writei \o r
    PROVE  Final(q) = Final(r)
<1>1. Follows("write inodes", Head(r)) /\ Program(r)
  BY HandlerAt DEF Follows
<1>2. \A x \in NewBlockSteps, y \in Range(r) : Before(x, y)
  BY DEF NewBlockSteps, Before, Past
<1>3. PICK p : p = GetAvailBlkno \o <<"new block">> \o Writei
  OBVIOUS
<1>4. Fits(p, "read dbitmap", "write inodes", NewBlockSteps)
  BY <1>3, NewBlockFits
<1>5. Final(p \o r) = Final(r)
  BY <1>1, <1>2, <1>4, ProgramJoin DEF Fits
<1> QED
  BY ONLY <1>3, <1>5, q = GetAvailBlkno \o <<"new block">> \o Writei \o r

LEMMA AddsTree ==
    ASSUME TypeInv, BlockInv, NamesInv, TreeInv, Single, NEW t \in Thread,
           AddName(t) \/ AddDot(t) \/ AddDotdot(t)
    PROVE  TreeInv'
<1>0. PICK s, r, l : s = todo[t] /\ r = Tail(s) /\ l = loc[t]
  OBVIOUS
<1>1. /\ Busy(t) /\ Head(s) \in {"add", "add dot", "add dotdot"}
      /\ l.op \in {"mkfs", "create", "mkdir"} /\ HandlerTypes
  BY <1>0, AddCalls DEF TypeInv
<1>2. PICK dir, name, ino :
         /\ AddEntry(t, dir, name, ino)
         /\ Head(s) = "add" => ino = l.ino /\ (dir.valid => Unnamed(ino))
  BY <1>0, AddCalls
<1>3. /\ UNCHANGED <<ibitmap, inodes>>
      /\ \E m : m.dir = dir /\ m.entry = [name |-> name, ino |-> ino] /\ Added(t, m)
  <2>1. Busy(t) /\ HandlerTypes /\ AddEntry(t, dir, name, ino)
    BY <1>1, <1>2
  <2> QED
    BY <2>1, AddMoves
<1>4. PICK m, q : /\ q = GetAvailBlkno \o <<"new block">> \o Writei \o r
                  /\ m.op = l.op /\ m.node = l.node /\ m.ino = l.ino /\ m.dir = dir
                  /\ \/ /\ ~dir.valid \/ Room(dir) = {}
                        /\ IF Head(s) = "add" THEN Return(t) ELSE Go(t, r, m)
                     \/ /\ dir.valid /\ Go(t, q, m) /\ \E k \in Ptr : dir.ptr[k] = INVALID
                     \/ dir.valid /\ Go(t, r, m)
  BY <1>0, <1>3 DEF Added
<1>5. /\ Program(s) /\ s # <<>> /\ HandlerInv(s, l)
      /\ Range(s) = {Head(s)} \cup Range(r) /\ \A x \in Range(r) : Before(Head(s), x)
      /\ r # <<>> => Follows(Head(s), Head(r)) /\ Head(r) \in Range(r)
      /\ BootInv(s, l) /\ ParentInv(s, l) /\ InoInv(s, l) /\ EndInv(s, l)
      /\ CallInv(s, l)
  BY <1>0, <1>1, BlockAt, HandlerAt, TreeAt DEF HandlerInv
<1>6. /\ "take ino" \notin Range(s) /\ (Head(s) # "add" => "add" \notin Range(s))
      /\ "add" \notin Range(r)
  <2>1. ~Before(Head(s), "take ino") /\ ~Before(Head(s), "add")
    BY <1>1 DEF Before, Past
  <2> QED
    BY ONLY <1>1, <1>5, <2>1
<1>7. r # <<>> => /\ Head(s) = "add" => Head(r) \in NewSteps
                  /\ Head(r) \in {"new file", "new directory", "add dotdot", "link"}
  BY <1>1, <1>5 DEF Follows, NewSteps
<1>8. ASSUME l.op \in MakeOps, Head(s) = "add" => dir.valid
      PROVE  l.ino # Root
  <2>1. CASE Head(s) = "add"
    BY <1>2, <1>8, <2>1 DEF Unnamed, Root, NoIno
  <2>2. CASE Head(s) # "add"
    BY <1>5, <1>6, <1>8, <2>2 DEF InoInv
  <2> QED
    BY <2>1, <2>2
<1>9. ASSUME r # <<>>, Head(s) = "add" => dir.valid
      PROVE  MakeInv(r, m)
  <2>1. BootInv(r, m) /\ ParentInv(r, m) /\ EndInv(r, m) /\ LastInv(r, m) /\ PlaceInv(r, m)
    <3>1. Head(s) \notin {"take ino", "bitmaps", "lookup", "read dbitmap", "take block"}
      BY <1>1
    <3>2. Head(s) \notin NewSteps \cup {"root", "link", "new block", "read inodes"}
      BY <1>1 DEF NewSteps
    <3> QED
      BY <1>0, <1>4, <1>5, <1>9, <3>1, <3>2, BootTail, ParentTail, EndTail, LastTail, PlaceLast
  <2>2. InoInv(r, m)
    <3>1. CASE Head(s) # "add"
      <4>1. Head(s) \notin {"take ino", "add", "write inodes", "read inodes"} \cup NewSteps
        BY <1>1, <3>1 DEF NewSteps
      <4> QED
        BY <1>0, <1>4, <1>5, <1>9, <4>1, InoTail
    <3>2. CASE Head(s) = "add"
      <4>1. NewSteps \cap Range(r) # {} /\ NewSteps \cap Range(s) # {}
        BY <1>5, <1>7, <1>9, <3>2
      <4> QED
        BY <1>4, <1>5, <1>6, <1>8, <1>9, <4>1 DEF InoInv
    <3> QED
      BY <3>1, <3>2
  <2> QED
    BY <2>1, <2>2 DEF MakeInv
<1>10. ASSUME dir.valid, \E k \in Ptr : dir.ptr[k] = INVALID
       PROVE  q # <<>> /\ MakeInv(q, m) /\ Head(q) = "read dbitmap"
  <2>1. q # <<>> /\ Head(q) = "read dbitmap" /\ Range(q) = NewBlockSteps \cup Range(r)
    BY <1>0, <1>1, <1>4, AddSteps
  <2>2. /\ \A x \in {"take ino", "bitmaps", "root"} : x \in Range(q) <=> x \in Range(s)
        /\ NewSteps \cap Range(q) = NewSteps \cap Range(s)
        /\ "add" \notin Range(q)
    BY <1>1, <1>5, <1>6, <2>1 DEF NewBlockSteps, NewSteps
  <2>3. BootInv(q, m)
    BY <1>4, <1>5, <2>2 DEF BootInv
  <2>4. ParentInv(q, m) /\ LastInv(q, m)
    BY <2>1 DEF ParentInv, LastInv, WriteiSteps
  <2>5. PlaceInv(q, m)
    BY <1>4, <1>10 DEF PlaceInv
  <2>6. InoInv(q, m)
    <3> SUFFICES ASSUME l.op \in MakeOps PROVE InoInv(q, m)
      BY <1>4 DEF InoInv
    <3>1. l.ino # Root
      BY <1>8, <1>10
    <3>2. Head(s) \notin WriteiSteps
      BY <1>1 DEF WriteiSteps
    <3>3. /\ l.ino \in ibitmap \cup {NoIno}
          /\ IF NewSteps \cap Range(s) # {} THEN l.ino \notin Live \ {NoIno} ELSE l.ino \in Live
      BY <1>5, <1>6, <3>2 DEF InoInv
    <3> QED
      BY <1>4, <2>2, <3>1, <3>3 DEF InoInv
  <2>7. EndInv(q, m)
    <3> SUFFICES ASSUME l.op \in MakeOps PROVE Final(q) = "write inodes"
      BY <1>4, <2>1 DEF EndInv
    <3>1. Final(s) = "write inodes"
      BY <1>5 DEF EndInv
    <3>2. r # <<>>
      BY <1>0, <1>1, <1>5, <3>1, FinalTail
    <3>3. Final(r) = Final(s)
      BY <1>0, <1>5, <3>2, FinalTail
    <3>4. Final(q) = Final(r)
      BY <1>0, <1>1, <1>4, <3>2, AddFinal
    <3> QED
      BY <3>1, <3>3, <3>4
  <2> QED
    BY <2>1, <2>3, <2>4, <2>5, <2>6, <2>7 DEF MakeInv
<1>11. CASE Return(t)
  BY <1>3, <1>11, ReturnTree
<1>12. CASE Go(t, r, m) /\ (Head(s) = "add" => dir.valid)
  <2>1. r # <<>> => MakeInv(r, m) /\ Head(r) # "lookup"
    BY <1>7, <1>9, <1>12
  <2> QED
    BY <1>3, <1>12, <2>1, QuietTreeGo
<1>13. CASE Go(t, q, m) /\ dir.valid /\ \E k \in Ptr : dir.ptr[k] = INVALID
  <2>1. q # <<>> /\ MakeInv(q, m) /\ Head(q) # "lookup"
    BY <1>10, <1>13
  <2> QED
    BY <1>3, <1>13, <2>1, QuietTreeGo
<1> QED
  BY <1>4, <1>11, <1>12, <1>13

\* The pointer that dir_add gives to a new block was not used.
LEMMA NewPointer ==
    ASSUME NEW dir, \E j \in Ptr : dir.ptr[j] = INVALID,
           NEW k, k = Min({j \in Ptr : dir.ptr[j] = INVALID})
    PROVE  k \in Ptr /\ dir.ptr[k] = INVALID
<1>1. PICK S : S = {j \in Ptr : dir.ptr[j] = INVALID}
  OBVIOUS
<1>2. S \in SUBSET Nat /\ S # {}
  <2>1. Ptr \subseteq Nat
    BY SizesOfTypes
  <2> QED
    BY <1>1, <2>1
<1>3. k \in S
  BY <1>1, <1>2, MinProperties
<1> QED
  BY <1>1, <1>3

\* The new block k of the directory, and what is to be written.
NewOut(t, k, o, m) ==
    LET l == loc[t]
    IN  /\ Busy(t) /\ Head(todo[t]) = "new block" /\ l \in Local
        /\ l.op \in {"mkfs", "create", "mkdir"}
        /\ k \in Ptr /\ l.dir \in Inode /\ l.dir.ptr[k] = INVALID
        /\ l.dir.ino \in Live /\ inodes[l.dir.ino] = l.dir
        /\ l.blk = NoBlock \/ Taken(l.blk)
        /\ o \in Inode /\ o.ptr = [l.dir.ptr EXCEPT ![k] = l.blk]
        /\ o.ino = l.dir.ino /\ o.type = l.dir.type /\ o.valid
        /\ m.out = o /\ m.op = l.op /\ m.node = l.node /\ m.ino = l.ino
        /\ Continue(t, m) /\ UNCHANGED <<inodes, ibitmap>>
        /\ BioWrite(l.blk, [Zeroed EXCEPT ![0] = l.entry])

LEMMA NewBlockOut ==
    ASSUME TypeInv, BlockInv, TreeInv, NEW t \in Thread, NewBlock(t)
    PROVE  \E k, o, m : NewOut(t, k, o, m)
<1>0. PICK s, l : s = todo[t] /\ l = loc[t]
  OBVIOUS
<1>1. /\ Busy(t) /\ Head(s) = "new block" /\ l \in Local /\ DiskInv
      /\ TakenInv(s, l) /\ PlaceInv(s, l) /\ CallInv(s, l)
      /\ Program(s) /\ s # <<>>
  BY <1>0, BlockAt, HandlerAt, TreeAt DEF NewBlock, At, TypeInv, HandlerInv
<1>2. l.op \in {"mkfs", "create", "mkdir"}
  <2>1. Head(s) \in StepsOf(l.op)
    BY <1>1, CallTail
  <2> QED
    BY <1>1, <2>1 DEF StepsOf, WriteiSteps, GetBlkSteps, Local
<1>3. /\ l.dir.valid /\ inodes[l.dir.ino] = l.dir /\ \E k \in Ptr : l.dir.ptr[k] = INVALID
      /\ l.blk = NoBlock \/ Taken(l.blk)
  BY <1>1, <1>2 DEF TakenInv, PlaceInv
<1>4. l.dir \in Inode /\ l.dir.ino \in Live /\ l.blk \in Block \cup {NoBlock}
  BY <1>1, <1>3 DEF Local, Inode, Live
<1>5. PICK k : k = Min({j \in Ptr : l.dir.ptr[j] = INVALID})
  OBVIOUS
<1>6. k \in Ptr /\ l.dir.ptr[k] = INVALID
  BY <1>3, <1>5, NewPointer
<1>7. PICK o : o = [l.dir EXCEPT !.ptr[k] = l.blk]
  OBVIOUS
<1>8. PICK m : m = [l EXCEPT !.out = o]
  OBVIOUS
<1>9. /\ o \in Inode /\ o.ptr = [l.dir.ptr EXCEPT ![k] = l.blk]
      /\ o.ino = l.dir.ino /\ o.type = l.dir.type /\ o.valid
  BY <1>3, <1>4, <1>6, <1>7 DEF Inode
<1>10. m.op = l.op /\ m.node = l.node /\ m.ino = l.ino /\ m.out = o
  BY <1>1, <1>8 DEF Local
<1>11. /\ Continue(t, m) /\ UNCHANGED <<inodes, ibitmap>>
       /\ BioWrite(l.blk, [Zeroed EXCEPT ![0] = l.entry])
  BY <1>0, <1>5, <1>7, <1>8 DEF NewBlock
<1>12. NewOut(t, k, o, m)
  BY <1>0, <1>1, <1>2, <1>3, <1>4, <1>6, <1>9, <1>10, <1>11 DEF NewOut
<1> QED
  BY <1>12

LEMMA NewBlockTree ==
    ASSUME TypeInv, BlockInv, TreeInv, Single, NEW t \in Thread, NewBlock(t)
    PROVE  TreeInv'
<1>0. PICK s, r, l : s = todo[t] /\ r = Tail(s) /\ l = loc[t]
  OBVIOUS
<1>1. PICK k, o, m : NewOut(t, k, o, m)
  BY NewBlockOut
<1>2. /\ Busy(t) /\ Head(s) = "new block"
      /\ l.dir.ptr[k] = INVALID /\ l.dir \in Inode
      /\ l.dir.ino \in Live /\ inodes[l.dir.ino] = l.dir
      /\ o.ptr = [l.dir.ptr EXCEPT ![k] = l.blk]
      /\ o.ino = l.dir.ino /\ o.type = l.dir.type
      /\ m.out = o /\ m.op = l.op /\ m.node = l.node /\ m.ino = l.ino
      /\ Continue(t, m) /\ UNCHANGED <<inodes, ibitmap>>
  BY <1>0, <1>1 DEF NewOut
<1>3. Extends(l.dir, o)
  <2>1. \A j \in Ptr : l.dir.ptr[j] # INVALID => o.ptr[j] = l.dir.ptr[j]
    BY <1>2 DEF Inode
  <2> QED
    BY <1>2, <2>1 DEF Extends
<1>4. ASSUME r # <<>> PROVE LastInv(r, m) /\ PlaceInv(r, m)
  <2>1. Head(r) = "read inodes"
    BY <1>0, <1>2, <1>4, HandlerAt DEF TypeInv, Follows
  <2>2. LastInv(r, m)
    BY <1>2, <1>3 DEF LastInv
  <2> QED
    BY <2>1, <2>2 DEF PlaceInv
<1>5. Head(s) \notin {"lookup", "take ino", "add", "bitmaps", "write inodes", "read inodes"} \cup NewSteps
  BY <1>2 DEF NewSteps
<1> QED
  BY <1>0, <1>2, <1>4, <1>5, QuietTreeContinue

LEMMA NewInodeTree ==
    ASSUME TypeInv, BlockInv, TreeInv, Single, NEW t \in Thread, NewInode(t)
    PROVE  TreeInv'
<1>0. PICK s, r, l, n : /\ s = todo[t] /\ r = Tail(s) /\ l = loc[t]
                        /\ n = [inodes[l.ino] EXCEPT !.valid = TRUE, !.ino = l.ino, !.ptr = NoPtrs]
  OBVIOUS
<1>1. /\ Busy(t) /\ Head(s) \in {"new file", "new directory", "root"}
      /\ DiskTypes /\ l \in Local /\ LocAt(s, l)
      /\ Program(s) /\ s # <<>> /\ CallInv(s, l) /\ MkfsInv(s, l)
      /\ BootInv(s, l) /\ ParentInv(s, l) /\ InoInv(s, l) /\ EndInv(s, l)
      /\ Range(s) = {Head(s)} \cup Range(r)
      /\ \A x \in Range(r) : Before(Head(s), x)
      /\ r # <<>> => Follows(Head(s), Head(r))
      /\ UNCHANGED <<inodes, ibitmap>>
  BY <1>0, BlockAt, HandlerAt, TreeAt DEF NewInode, At, TypeInv, disk, HandlerInv
<1>2. /\ \A x \in {"take ino", "add"} : x \notin Range(s) /\ x \notin Range(r)
      /\ \A x \in NewSteps : x \notin Range(r)
  <2>1. \A x \in {"take ino", "add"} \cup NewSteps : ~Before(Head(s), x)
    BY <1>1 DEF Before, Past, NewSteps
  <2>2. \A x \in {"take ino", "add"} \cup NewSteps : x \notin Range(r)
    BY ONLY <1>1, <2>1
  <2>3. \A x \in {"take ino", "add"} : x # Head(s)
    BY <1>1
  <2> QED
    BY ONLY <1>1, <2>2, <2>3
<1>3. l.ino \in Slot /\ n \in Inode /\ n.ino = l.ino
  <2>1. l.ino \in Slot
    BY <1>1, <1>2 DEF LocAt
  <2>2. inodes[l.ino] \in Inode
    BY <1>1, <2>1 DEF DiskTypes
  <2>3. NoPtrs \in [Ptr -> Block \cup {NoBlock}]
    BY SizesOfTypes DEF NoPtrs
  <2> QED
    BY <1>0, <2>1, <2>2, <2>3 DEF Inode
<1>4. PICK o : /\ \/ Head(s) # "root" /\ o = [n EXCEPT !.type = "file", !.size = 0]
                  \/ o = [n EXCEPT !.type = "directory"]
               /\ Continue(t, [l EXCEPT !.out = o])
  BY <1>0 DEF NewInode, At
<1>5. PICK m : m = [l EXCEPT !.out = o]
  OBVIOUS
<1>6. m.op = l.op /\ m.node = l.node /\ m.ino = l.ino /\ m.out = o
  BY <1>1, <1>5 DEF Local
<1>7. o.ino = l.ino /\ (Head(s) = "root" => o.type = "directory")
  BY <1>3, <1>4 DEF Inode
<1>8. l.op \in MakeOps \cup {"mkfs"} /\ (l.op = "mkfs" <=> Head(s) = "root")
  <2>1. Head(s) \in StepsOf(l.op)
    BY <1>1, CallTail
  <2> QED
    BY <1>1, <2>1 DEF StepsOf, MakeOps, Local, MkfsSteps, CreateSteps, MkdirSteps,
                      NewBlockSteps, WriteiSteps, GetBlkSteps
<1>9. l.ino \notin Live \ {NoIno}
  <2>1. CASE Head(s) = "root"
    BY <1>1, <2>1 DEF MkfsInv
  <2>2. CASE Head(s) # "root"
    <3>1. NewSteps \cap Range(s) # {}
      BY <1>1, <2>2 DEF NewSteps
    <3>2. l.op \in MakeOps /\ "take ino" \notin Range(s)
      BY <1>2, <1>8, <2>2
    <3> QED
      BY <1>1, <3>1, <3>2 DEF InoInv
  <2> QED
    BY <2>1, <2>2
<1>10. ASSUME r # <<>> PROVE MakeInv(r, m) /\ Head(r) # "lookup"
  <2>1. Head(r) = "read inodes"
    BY <1>1, <1>10 DEF Follows
  <2>2. BootInv(r, m) /\ ParentInv(r, m) /\ EndInv(r, m)
    <3>1. Head(s) \notin {"take ino", "bitmaps", "lookup"}
      BY <1>1
    <3> QED
      BY <1>0, <1>1, <1>6, <1>10, <3>1, BootTail, ParentTail, EndTail
  <2>3. LastInv(r, m)
    <3>1. ({"take ino", "add"} \cup NewSteps) \cap Range(r) = {}
      BY <1>2
    <3>2. m.op = "mkfs" => m.out.type = "directory"
      BY <1>6, <1>7, <1>8
    <3> QED
      BY <1>6, <1>7, <1>8, <1>9, <3>1, <3>2 DEF LastInv
  <2>4. PlaceInv(r, m)
    BY <2>1 DEF PlaceInv
  <2>5. InoInv(r, m)
    <3> SUFFICES ASSUME l.op \in MakeOps PROVE InoInv(r, m)
      BY <1>6 DEF InoInv
    <3>1. l.ino \in ibitmap \cup {NoIno} /\ l.ino # Root
      BY <1>1, <1>2 DEF InoInv
    <3>2. NewSteps \cap Range(r) = {}
      BY <1>2
    <3> QED
      BY <1>6, <1>7, <2>1, <3>1, <3>2 DEF InoInv, WriteiSteps
  <2> QED
    BY <2>1, <2>2, <2>3, <2>4, <2>5 DEF MakeInv
<1>11. Go(t, r, m)
  BY <1>0, <1>4, <1>5 DEF Continue
<1> QED
  BY <1>1, <1>10, <1>11, QuietTreeGo

LEMMA LinkTree ==
    ASSUME TypeInv, BlockInv, TreeInv, Single, NEW t \in Thread, LinkParent(t)
    PROVE  TreeInv'
<1>0. PICK s, r, l, m : /\ s = todo[t] /\ r = Tail(s) /\ l = loc[t]
                        /\ m = [l EXCEPT !.out = inodes[l.node.ino]]
  OBVIOUS
<1>1. /\ Busy(t) /\ Head(s) = "link" /\ l \in Local /\ DiskInv
      /\ Program(s) /\ s # <<>> /\ CallInv(s, l) /\ NodeInv(s, l)
      /\ Range(s) = {Head(s)} \cup Range(r)
      /\ \A x \in Range(r) : Before(Head(s), x)
      /\ r # <<>> => Follows(Head(s), Head(r))
      /\ Continue(t, m) /\ UNCHANGED <<inodes, ibitmap>>
  BY <1>0, BlockAt, HandlerAt DEF LinkParent, At, TypeInv, disk, HandlerInv
<1>2. m.op = l.op /\ m.node = l.node /\ m.ino = l.ino /\ m.out = inodes[l.node.ino]
  BY <1>0, <1>1 DEF Local
<1>3. l.node.ino \in Live
  <2>1. "add" \notin Range(s)
    <3>1. ~Before(Head(s), "add")
      BY <1>1 DEF Before, Past
    <3>2. Head(s) # "add"
      BY <1>1
    <3> QED
      BY ONLY <1>1, <3>1, <3>2
  <2>2. Head(s) \in StepsOf(l.op)
    BY <1>1, CallTail
  <2>3. l.op = "mkdir"
    BY <1>1, <2>2 DEF StepsOf, MkfsSteps, CreateSteps, NewBlockSteps, WriteiSteps, GetBlkSteps
  <2>4. l.node \in Inode
    BY <1>1 DEF Local
  <2> QED
    BY <1>1, <2>1, <2>3, <2>4 DEF NodeInv, Inode, Live
<1>4. m.out.ino \in Live /\ Extends(inodes[m.out.ino], m.out)
  BY <1>1, <1>2, <1>3 DEF DiskInv, Extends
<1>5. ASSUME r # <<>> PROVE LastInv(r, m) /\ PlaceInv(r, m)
  <2>1. Head(r) = "read inodes"
    BY <1>1, <1>5 DEF Follows
  <2> QED
    BY <1>4, <2>1 DEF LastInv, PlaceInv
<1>6. Head(s) \notin {"lookup", "take ino", "add", "bitmaps", "write inodes", "read inodes"} \cup NewSteps
  BY <1>1 DEF NewSteps
<1> QED
  BY <1>0, <1>1, <1>2, <1>5, <1>6, QuietTreeContinue

LEMMA FormatTree ==
    ASSUME TypeInv, BlockInv, TreeInv, Single, NEW t \in Thread, Format(t)
    PROVE  TreeInv'
<1>0. PICK s, r, l : s = todo[t] /\ r = Tail(s) /\ l = loc[t]
  OBVIOUS
<1>1. /\ Busy(t) /\ Head(s) = "format" /\ Program(s) /\ s # <<>> /\ Continue(t, l)
      /\ UNCHANGED <<inodes, ibitmap>>
  BY <1>0, HandlerAt DEF Format, At, TypeInv
<1>2. /\ Head(s) \notin {"lookup", "take ino", "add", "bitmaps", "write inodes", "read inodes",
                         "root", "link", "new block", "read dbitmap", "take block"}
      /\ Head(s) \notin NewSteps
  BY <1>1 DEF NewSteps
<1>3. r # <<>> => LastInv(r, l) /\ PlaceInv(r, l)
  BY <1>0, <1>1, <1>2, LastTail, PlaceLast
<1> QED
  BY <1>0, <1>1, <1>2, <1>3, QuietTreeContinue

LEMMA ClearTree ==
    ASSUME TypeInv, BlockInv, TreeInv, Single, NEW t \in Thread, ClearInodes(t)
    PROVE  TreeInv'
<1>0. PICK s, r, l, q, m : /\ s = todo[t] /\ r = Tail(s) /\ l = loc[t] /\ q = Writei \o s
                           /\ m = [l EXCEPT !.out = Blank(l.ino), !.ino = @ + 1]
  OBVIOUS
<1>1. /\ Busy(t) /\ Head(s) = "clear inodes" /\ l \in Local /\ Program(s) /\ s # <<>>
      /\ CallInv(s, l) /\ LocAt(s, l) /\ BootInv(s, l)
      /\ Range(s) = {Head(s)} \cup Range(r)
      /\ UNCHANGED <<inodes, ibitmap>>
  BY <1>0, BlockAt, HandlerAt, TreeAt DEF ClearInodes, At, TypeInv, disk, HandlerInv
<1>2. Continue(t, l) \/ Go(t, q, m)
  BY <1>0 DEF ClearInodes
<1>3. l.op = "mkfs" /\ "root" \in Range(s) /\ "take ino" \in Range(s)
  <2>1. Head(s) \in StepsOf(l.op)
    BY <1>1, CallTail
  <2>2. l.op = "mkfs"
    BY <1>1, <2>1 DEF StepsOf, CreateSteps, MkdirSteps, NewBlockSteps, WriteiSteps, GetBlkSteps
  <2> QED
    BY <1>1, <2>2 DEF CallInv, LocAt
<1>4. CASE Continue(t, l)
  <2>1. /\ Head(s) \notin {"lookup", "take ino", "add", "bitmaps", "write inodes", "read inodes",
                           "root", "link", "new block", "read dbitmap", "take block"}
        /\ Head(s) \notin NewSteps
    BY <1>1 DEF NewSteps
  <2>2. r # <<>> => LastInv(r, l) /\ PlaceInv(r, l)
    BY <1>0, <1>1, <2>1, LastTail, PlaceLast
  <2> QED
    BY <1>0, <1>1, <1>4, <2>1, <2>2, QuietTreeContinue
<1>5. CASE Go(t, q, m)
  <2>1. /\ q # <<>> /\ Head(q) = "read inodes" /\ Range(q) = WriteiSteps \cup Range(s)
    BY <1>0, <1>1, ClearSteps
  <2>2. m.op = "mkfs"
    BY <1>0, <1>1, <1>3 DEF Local
  <2>3. BootInv(q, m)
    <3>1. \A x \in {"bitmaps", "take ino"} : x \in Range(q) <=> x \in Range(s)
      BY <2>1 DEF WriteiSteps
    <3> QED
      BY <1>1, <1>3, <2>2, <3>1 DEF BootInv
  <2>4. ParentInv(q, m) /\ InoInv(q, m) /\ EndInv(q, m)
    BY <2>2 DEF ParentInv, InoInv, EndInv, MakeOps
  <2>5. LastInv(q, m) /\ PlaceInv(q, m)
    BY <1>3, <2>1 DEF LastInv, PlaceInv
  <2> QED
    BY <1>1, <1>5, <2>1, <2>3, <2>4, <2>5, QuietTreeGo DEF MakeInv
<1> QED
  BY <1>2, <1>4, <1>5

LEMMA WriteBitmapsTree ==
    ASSUME TypeInv, BlockInv, NamesInv, TreeInv, Single, NEW t \in Thread, WriteBitmaps(t)
    PROVE  TreeInv'
<1>0. PICK s, r, l : s = todo[t] /\ r = Tail(s) /\ l = loc[t]
  OBVIOUS
<1>1. /\ Busy(t) /\ Head(s) = "bitmaps" /\ HandlerTypes /\ Go(t, r, l)
      /\ inodes' = inodes /\ ibitmap' = {}
      /\ Program(s) /\ s # <<>> /\ CallInv(s, l) /\ MkfsInv(s, l) /\ BitsNames(s, l)
      /\ Range(s) = {Head(s)} \cup Range(r)
      /\ r # <<>> => Follows(Head(s), Head(r))
  BY <1>0, BlockAt, HandlerAt, NamesWhere DEF WriteBitmaps, At, TypeInv, Continue, HandlerInv
<1>2. l.op = "mkfs" /\ Live = {} /\ Live' = {}
  <2>1. Head(s) \in StepsOf(l.op)
    BY <1>1, CallTail
  <2>2. l.op = "mkfs"
    BY <1>1, <2>1 DEF StepsOf, CreateSteps, MkdirSteps, NewBlockSteps, WriteiSteps, GetBlkSteps
  <2>3. "root" \in Range(s)
    BY <1>1 DEF CallInv
  <2>4. Live = {}
    BY <1>1, <2>3 DEF MkfsInv
  <2> QED
    BY <1>1, <2>2, <2>4 DEF Live
<1>3. LiveInv'
  BY <1>2 DEF LiveInv
<1>4. ASSUME r # <<>> PROVE MakeInv(r, l)'
  <2>1. Head(r) = "read ibitmap"
    BY <1>1, <1>4 DEF Follows
  <2>2. "take ino" \in Range(r)
    <3>1. "take ino" \in Range(s)
      BY <1>1 DEF BitsNames
    <3> QED
      BY <1>1, <3>1
  <2>3. BootInv(r, l)'
    BY <1>1, <2>2 DEF BootInv
  <2>4. ParentInv(r, l)' /\ InoInv(r, l)' /\ EndInv(r, l)'
    BY <1>2 DEF ParentInv, InoInv, EndInv, MakeOps
  <2>5. LastInv(r, l)' /\ PlaceInv(r, l)'
    BY <2>1 DEF LastInv, PlaceInv, WriteiSteps
  <2> QED
    BY <2>3, <2>4, <2>5 DEF MakeInv
<1> QED
  BY <1>1, <1>3, <1>4, TreeGo

\* rufs_read and rufs_write make nothing.
LEMMA TransferTree ==
    ASSUME TypeInv, TreeInv, Single, NEW t \in Thread, NEW q, NEW m, Go(t, q, m),
           UNCHANGED <<inodes, ibitmap>>, m.op \in {"read", "write"},
           q # <<>> => /\ Head(q) # "lookup" /\ (m.op = "read" => Head(q) \in WriteiSteps)
                       /\ LastInv(q, m)
    PROVE  TreeInv'
<1>1. ASSUME q # <<>> PROVE MakeInv(q, m)
  <2>1. BootInv(q, m) /\ ParentInv(q, m) /\ InoInv(q, m) /\ EndInv(q, m)
    BY DEF BootInv, ParentInv, InoInv, EndInv, MakeOps
  <2>2. PlaceInv(q, m)
    BY <1>1 DEF PlaceInv, WriteiSteps
  <2> QED
    BY <1>1, <2>1, <2>2 DEF MakeInv
<1> QED
  BY <1>1, QuietTreeGo

\* They write a file's inode.
LEMMA WriteOutTree ==
    ASSUME TypeInv, BlockInv, NamesInv, TreeInv, Single, NEW t \in Thread, Busy(t),
           Head(todo[t]) \in {"read", "write"}, NEW o,
           o.type = loc[t].node.type, o.ino = loc[t].node.ino,
           Go(t, Writei, [loc[t] EXCEPT !.out = o]),
           UNCHANGED <<inodes, ibitmap>>
    PROVE  TreeInv'
<1>0. PICK l, q, m : l = loc[t] /\ q = Writei /\ m = [l EXCEPT !.out = o]
  OBVIOUS
<1>1. /\ l.op \in {"read", "write"} /\ m.op = l.op /\ m.out = o
      /\ inodes[l.node.ino].valid /\ l.node.ino \in Slot
  BY <1>0, TransferAt DEF Local
<1>2. q # <<>> /\ Head(q) = "read inodes"
  BY <1>0, Pieces DEF Fits
<1>3. l.node.type = "file" /\ inodes[l.node.ino].type = "file"
  BY <1>0, <1>1, NamesWhere DEF PathNames, TypeInv
<1>4. LastInv(q, m)
  <2>1. m.out.ino \in Live /\ Extends(inodes[m.out.ino], m.out)
    BY <1>0, <1>1, <1>3 DEF Live, Extends
  <2> QED
    BY <2>1 DEF LastInv
<1>5. Head(q) # "lookup" /\ Head(q) \in WriteiSteps
  BY <1>2 DEF WriteiSteps
<1> QED
  BY <1>0, <1>1, <1>4, <1>5, TransferTree

LEMMA ReadFileTree ==
    ASSUME TypeInv, BlockInv, NamesInv, TreeInv, Single, NEW t \in Thread, ReadFile(t)
    PROVE  TreeInv'
<1>1. Busy(t) /\ Head(todo[t]) = "read" /\ UNCHANGED <<inodes, ibitmap>>
  BY DEF ReadFile, At, disk
<1>2. Return(t) \/ Go(t, Writei, [loc[t] EXCEPT !.out = loc[t].node])
  BY DEF ReadFile
<1> QED
  BY <1>1, <1>2, ReturnTree, WriteOutTree

LEMMA WriteLoopTree ==
    ASSUME TypeInv, BlockInv, NamesInv, TreeInv, Single, NEW t \in Thread, WriteLoop(t)
    PROVE  TreeInv'
<1> DEFINE l == loc[t]
           s == todo[t]
           o == [l.node EXCEPT !.size = @ + l.done]
           x == IF l.node.ptr[Pointer(l)] = INVALID THEN GetAvailBlkno ELSE <<>>
<1>0. PICK q : q = x \o <<"fill">> \o s
  OBVIOUS
<1>1. /\ Busy(t) /\ Head(s) = "write" /\ UNCHANGED <<inodes, ibitmap>>
      /\ Program(s) /\ s # <<>> /\ HandlerTypes
  BY HandlerAt DEF WriteLoop, At, disk, TypeInv
<1>2. Go(t, Writei, [l EXCEPT !.out = o]) \/ Go(t, q, l)
  BY <1>0 DEF WriteLoop
<1>3. l.op = "write" /\ l.node \in Inode
  BY <1>1, TransferAt
<1>4. CASE Go(t, Writei, [l EXCEPT !.out = o])
  <2>1. o.type = l.node.type /\ o.ino = l.node.ino
    BY <1>3 DEF Inode
  <2> QED
    BY <1>1, <1>4, <2>1, WriteOutTree
<1>5. CASE Go(t, q, l)
  <2>1. Range(s) = {"write"}
    BY <1>1, TransferLast
  <2>2. q # <<>> /\ Head(q) \in {"read dbitmap", "fill"}
    BY <1>0, <1>1, <2>1, LoopSteps
  <2>3. LastInv(q, l)
    BY <2>2 DEF LastInv, WriteiSteps
  <2>4. Head(q) # "lookup" /\ l.op \in {"read", "write"} /\ l.op # "read"
    BY <1>3, <2>2
  <2> QED
    BY <1>1, <1>5, <2>2, <2>3, <2>4, TransferTree
<1> QED
  BY <1>2, <1>4, <1>5

LEMMA FillTree ==
    ASSUME TypeInv, BlockInv, TreeInv, Single, NEW t \in Thread, FillBlock(t)
    PROVE  TreeInv'
<1>0. PICK s, r, l : s = todo[t] /\ r = Tail(s) /\ l = loc[t]
  OBVIOUS
<1>1. /\ Busy(t) /\ Head(s) = "fill" /\ UNCHANGED <<inodes, ibitmap>>
      /\ r # <<>> => Follows(Head(s), Head(r))
  BY <1>0, HandlerAt DEF FillBlock, At, TypeInv
<1>2. l.op = "write" /\ l \in Local
  BY <1>0, <1>1, TransferAt
<1>3. \E b, k, n : Continue(t, [l EXCEPT !.node.ptr[k] = b, !.done = @ + n])
  BY <1>0 DEF FillBlock
<1>4. PICK b, k, n : Continue(t, [l EXCEPT !.node.ptr[k] = b, !.done = @ + n])
  BY <1>3
<1>5. PICK m : m = [l EXCEPT !.node.ptr[k] = b, !.done = @ + n]
  OBVIOUS
<1>6. m.op = "write"
  BY <1>2, <1>5 DEF Local
<1>7. Go(t, r, m)
  BY <1>0, <1>4, <1>5 DEF Continue
<1>8. ASSUME r # <<>> PROVE Head(r) # "lookup" /\ LastInv(r, m)
  BY <1>1, <1>8 DEF Follows, LastInv, WriteiSteps
<1> QED
  BY <1>1, <1>6, <1>7, <1>8, TransferTree

LEMMA StillTree ==
    ASSUME TypeInv, TreeInv, Single, UNCHANGED <<disk, todo, loc>>
    PROVE  TreeInv'
<1>1. UNCHANGED <<todo, loc, inodes, data, ibitmap>>
  BY DEF disk
<1>2. CASE \E t \in Thread : todo[t] # <<>>
  <2>1. PICK t \in Thread : todo[t] # <<>>
    BY <1>2
  <2>2. PICK q, m : q = todo[t] /\ m = loc[t]
    OBVIOUS
  <2>3. MakeInv(q, m) /\ q # <<>> /\ HandlerTypes
    BY <2>1, <2>2 DEF TreeInv, TypeInv
  <2>4. Go(t, q, m)
    BY <1>1, <2>2, <2>3 DEF Go, HandlerTypes
  <2>5. Head(q) = "lookup" => m.path \in Paths
    BY <2>1, <2>2, <2>3, LookUpPath DEF Busy
  <2> QED
    BY <1>1, <2>3, <2>4, <2>5, QuietTreeGo
<1>3. CASE \A t \in Thread : todo[t] = <<>>
  <2>1. LiveInv'
    BY <1>1 DEF TreeInv, LiveInv, Live
  <2> QED
    BY <1>1, <1>3, <2>1 DEF TreeInv
<1> QED
  BY <1>2, <1>3

LEMMA CallTree ==
    ASSUME TypeInv, TreeInv, Single, NEW t \in Thread, CallStep(t)
    PROVE  TreeInv'
<1>1. CASE Mount(t)
  <2>1. CASE found
    BY <1>1, <2>1, StillTree DEF Mount
  <2>2. CASE ~found
    <3>0. PICK q, m : q = Mkfs /\ m = [Rest EXCEPT !.op = "mkfs", !.ino = 1]
      OBVIOUS
    <3>1. Go(t, q, m) /\ UNCHANGED <<inodes, data, ibitmap>>
      BY <1>1, <2>2, <3>0 DEF Mount, disk
    <3>2. q # <<>> /\ Head(q) = "format" /\ Range(q) = MkfsSteps
      BY <3>0, MkfsFits DEF Fits
    <3>3. m.op = "mkfs"
      BY <3>0 DEF Rest
    <3>4. BootInv(q, m)
      BY <3>2 DEF BootInv, MkfsSteps
    <3>5. ParentInv(q, m) /\ InoInv(q, m) /\ EndInv(q, m)
      BY <3>3 DEF ParentInv, InoInv, EndInv, MakeOps
    <3>6. LastInv(q, m) /\ PlaceInv(q, m)
      BY <3>2 DEF LastInv, PlaceInv, WriteiSteps
    <3> QED
      BY <3>1, <3>2, <3>4, <3>5, <3>6, QuietTreeGo DEF MakeInv
  <2> QED
    BY <2>1, <2>2
<1>2. ASSUME NEW op \in {"create", "mkdir"}, NEW path \in Paths, CallNew(t, op, path)
      PROVE  TreeInv'
  <2>0. PICK q, m : /\ q = IF op = "create" THEN Create ELSE Mkdir
                    /\ m = [Rest EXCEPT !.op = op, !.path = path]
    OBVIOUS
  <2>1. /\ Go(t, q, m) /\ UNCHANGED <<inodes, data, ibitmap>>
        /\ Dirname(path) = <<>> \/ Holds("directory", Dirname(path))
    BY <1>2, <2>0 DEF CallNew, disk
  <2>2. /\ q # <<>> /\ Head(q) = "lookup" /\ Final(q) = "write inodes"
        /\ Range(q) = IF op = "create" THEN CreateSteps ELSE MkdirSteps
    BY <2>0, CreateFits, MkdirFits DEF Fits
  <2>3. m.op = op /\ m.path = path
    BY <2>0 DEF Rest
  <2>4. "take ino" \in Range(q)
    BY <2>2 DEF CreateSteps, MkdirSteps
  <2>5. BootInv(q, m) /\ InoInv(q, m) /\ EndInv(q, m)
    BY <2>2, <2>3, <2>4 DEF BootInv, InoInv, EndInv
  <2>6. ParentInv(q, m)
    BY <2>1, <2>2, <2>3 DEF ParentInv
  <2>7. LastInv(q, m) /\ PlaceInv(q, m)
    BY <2>2 DEF LastInv, PlaceInv, WriteiSteps
  <2> QED
    BY <2>1, <2>3, <2>5, <2>6, <2>7, QuietTreeGo DEF MakeInv
<1>3. ASSUME NEW op \in {"read", "write"}, NEW path \in Paths, NEW at, NEW v,
             CallTransfer(t, op, path, at, v)
      PROVE  TreeInv'
  <2>0. PICK q, m : /\ q = <<"lookup", op>>
                    /\ m = [Rest EXCEPT !.op = op, !.path = path, !.off = at[1],
                                        !.len = at[2], !.val = v]
    OBVIOUS
  <2>1. Go(t, q, m) /\ UNCHANGED <<inodes, data, ibitmap>>
    BY <1>3, <2>0 DEF CallTransfer, disk
  <2>2. q # <<>> /\ Head(q) = "lookup"
    BY <2>0, TransferFits DEF Fits
  <2>3. m.op = op /\ m.path = path
    BY <2>0 DEF Rest
  <2>4. BootInv(q, m) /\ ParentInv(q, m) /\ InoInv(q, m) /\ EndInv(q, m)
    BY <2>3 DEF BootInv, ParentInv, InoInv, EndInv, MakeOps
  <2>5. LastInv(q, m) /\ PlaceInv(q, m)
    BY <2>2 DEF LastInv, PlaceInv, WriteiSteps
  <2> QED
    BY <2>1, <2>3, <2>4, <2>5, QuietTreeGo DEF MakeInv
<1> QED
  BY <1>1, <1>2, <1>3 DEF CallStep, Paths

LEMMA EndTree ==
    ASSUME TreeInv, Unmount \/ Crash
    PROVE  TreeInv'
<1>1. UNCHANGED <<inodes, ibitmap>>
  BY DEF Unmount, Crash, disk
<1>2. LiveInv'
  BY <1>1 DEF TreeInv, LiveInv, Live
<1>3. \A t \in Thread : todo'[t] = <<>>
  BY DEF Unmount, Crash, Busy
<1> QED
  BY <1>2, <1>3 DEF TreeInv

LEMMA TreeInit == Init => TreeInv
<1> SUFFICES ASSUME Init PROVE TreeInv
  OBVIOUS
<1>1. \A i \in Slot : ~inodes[i].valid
  BY DEF Init, Blank
<1>2. Live = {}
  BY <1>1 DEF Live
<1>3. \A t \in Thread : todo[t] = <<>>
  BY DEF Init
<1> QED
  BY <1>2, <1>3 DEF TreeInv, LiveInv

LEMMA TreeNext ==
    ASSUME Single
    PROVE  TypeInv /\ BlockInv /\ NamesInv /\ TreeInv /\ Sheltered /\ [Next]_vars => TreeInv'
<1> SUFFICES ASSUME TypeInv, BlockInv, NamesInv, TreeInv, Sheltered, [Next]_vars
             PROVE  TreeInv'
  OBVIOUS
<1>1. CASE UNCHANGED vars
  BY <1>1, StillTree DEF vars
<1>2. ASSUME NEW t \in Thread, DiskStep(t) PROVE TreeInv'
  BY <1>2, LookUpTree, BitmapTree, TakeInoTree, ReadInodesTree, WriteInodesTree,
     AddsTree, NewBlockTree, NewInodeTree, LinkTree, FormatTree, ClearTree,
     WriteBitmapsTree, WriteLoopTree, FillTree, ReadFileTree DEF DiskStep
<1> QED
  BY <1>1, <1>2, CallTree, EndTree DEF Next

LEMMA TreeInvariant ==
    ASSUME Single
    PROVE  Spec /\ []Sheltered => []TreeInv
  BY TypeInvariant, BlockInvariant, NamesInvariant, TreeInit, TreeNext, PTL DEF Spec

-----------------------------------------------------------------------------
(* Names last.                                                             *)

(* Inodes stay valid, and directories keep their entries.  The one that is *)
(* written when no inode was left is overwritten by the next.              *)
EntriesLast ==
    /\ NoIno \in Live => NoIno \in Live'
    /\ \A i \in Live \ {NoIno} :
          /\ i \in Live' /\ Extends(inodes[i], inodes'[i])
          /\ inodes[i].type = "directory" =>
                \A a \in EntriesAt(inodes[i]) :
                   EntryAt(inodes[i], a)' = EntryAt(inodes[i], a)

LEMMA DataLast ==
    ASSUME inodes' = inodes,
           \A i \in Live, k \in Ptr, c \in Cell :
              /\ inodes[i].type = "directory" /\ inodes[i].ptr[k] # INVALID
              /\ IsEntry(BioRead(inodes[i].ptr[k])[c])
              => BioRead(inodes[i].ptr[k])'[c] = BioRead(inodes[i].ptr[k])[c]
    PROVE  EntriesLast
<1>1. Live' = Live
  BY DEF Live
<1>2. ASSUME NEW i \in Live \ {NoIno}, inodes[i].type = "directory",
             NEW a \in EntriesAt(inodes[i])
      PROVE  EntryAt(inodes[i], a)' = EntryAt(inodes[i], a)
  <2>1. /\ a[1] \in Ptr /\ a[2] \in Cell /\ inodes[i].ptr[a[1]] # INVALID
        /\ IsEntry(BioRead(inodes[i].ptr[a[1]])[a[2]])
    BY DEF EntriesAt, EntryAt
  <2> QED
    BY <1>2, <2>1 DEF EntryAt
<1> QED
  BY <1>1, <1>2 DEF EntriesLast, Extends

LEMMA StillLast ==
    ASSUME UNCHANGED <<inodes, data>>
    PROVE  EntriesLast
<1>1. \A b : BioRead(b)' = BioRead(b)
  BY DEF BioRead
<1> QED
  BY <1>1, DataLast

LEMMA WriteInodesLast ==
    ASSUME TypeInv, BlockInv, TreeInv, Sheltered, NEW t \in Thread, WriteInodes(t)
    PROVE  EntriesLast
<1>0. PICK s, l, i : s = todo[t] /\ l = loc[t] /\ i = l.out.ino
  OBVIOUS
<1>1. /\ i \in Slot
      /\ \A j \in Slot : j # i => inodes'[j] = inodes[j]
      /\ inodes'[i] = l.out
      /\ "root" \in Range(s) => Live = {}
      /\ "root" \notin Range(s) =>
            /\ Live' = Live \cup {i}
            /\ i \in Live => i = NoIno \/ Extends(inodes[i], l.out)
  BY <1>0, WriteInodesLive
<1>2. data' = data
  BY ShelteredWrite
<1>3. CASE "root" \in Range(s)
  BY <1>1, <1>3 DEF EntriesLast
<1>4. CASE "root" \notin Range(s)
  <2>1. Live \subseteq Live' /\ Live \subseteq Slot
    BY <1>1, <1>4 DEF Live
  <2>2. ASSUME NEW j \in Live \ {NoIno} PROVE Extends(inodes[j], inodes'[j])
    <3>1. CASE j = i
      BY <1>1, <1>4, <2>2, <3>1
    <3>2. CASE j # i
      BY <1>1, <2>1, <2>2, <3>2 DEF Extends
    <3> QED
      BY <3>1, <3>2
  <2>3. ASSUME NEW j \in Live \ {NoIno}, inodes[j].type = "directory",
               NEW a \in EntriesAt(inodes[j])
        PROVE  EntryAt(inodes[j], a)' = EntryAt(inodes[j], a)
    <3>1. a[1] \in Ptr /\ inodes[j].ptr[a[1]] # INVALID
      BY DEF EntriesAt
    <3>2. inodes'[j].ptr[a[1]] = inodes[j].ptr[a[1]]
      BY <2>2, <2>3, <3>1 DEF Extends
    <3> QED
      BY <1>2, <3>2 DEF EntryAt, BioRead
  <2> QED
    BY <2>1, <2>2, <2>3 DEF EntriesLast
<1> QED
  BY <1>3, <1>4

LEMMA AddsLast ==
    ASSUME TypeInv, BlockInv, NamesInv, NEW t \in Thread,
           AddName(t) \/ AddDot(t) \/ AddDotdot(t)
    PROVE  EntriesLast
<1>1. Busy(t) /\ HandlerTypes /\ DiskTypes
  BY AddCalls DEF TypeInv
<1>2. PICK dir, name, ino : AddEntry(t, dir, name, ino)
  BY AddCalls
<1>3. inodes' = inodes /\ \E m : Added(t, m)
  BY <1>1, <1>2, AddMoves
<1>4. CASE data' = data
  BY <1>3, <1>4, StillLast
<1>5. CASE data' # data
  <2>1. \E b, c, e : ~IsEntry(BioRead(b)[c]) /\ BioWrite(b, [BioRead(b) EXCEPT ![c] = e])
    BY <1>3, <1>5 DEF Added
  <2>2. PICK b, c, e : ~IsEntry(BioRead(b)[c]) /\ BioWrite(b, [BioRead(b) EXCEPT ![c] = e])
    BY <2>1
  <2>3. b \in DataBlock
    BY <1>5, <2>2 DEF BioWrite
  <2>4. BioRead(b) \in [Cell -> CellValue] /\ BioRead(b)' = [BioRead(b) EXCEPT ![c] = e]
    BY <1>1, <2>2, <2>3, BioReadTyped, BlockWritten
  <2>5. \A d \in Cell : IsEntry(BioRead(b)[d]) => BioRead(b)'[d] = BioRead(b)[d]
    BY <2>2, <2>4
  <2>6. \A d : d # b => BioRead(d)' = BioRead(d)
    BY <1>1, <2>2, BlockWritten
  <2> QED
    <3> SUFFICES ASSUME NEW i \in Live, NEW k \in Ptr, NEW d \in Cell,
                        IsEntry(BioRead(inodes[i].ptr[k])[d])
                 PROVE  BioRead(inodes[i].ptr[k])'[d] = BioRead(inodes[i].ptr[k])[d]
      BY <1>3, DataLast
    <3>1. CASE inodes[i].ptr[k] = b
      BY <1>3, <2>5, <3>1
    <3>2. CASE inodes[i].ptr[k] # b
      BY <1>3, <2>6, <3>2
    <3> QED
      BY <3>1, <3>2
<1> QED
  BY <1>4, <1>5

LEMMA NewBlockLast ==
    ASSUME TypeInv, BlockInv, TreeInv, NEW t \in Thread, NewBlock(t)
    PROVE  EntriesLast
<1>1. \E k, o, m : NewOut(t, k, o, m)
  BY NewBlockOut
<1>2. PICK b, cells : /\ inodes' = inodes /\ DiskTypes
                      /\ b = NoBlock \/ Taken(b)
                      /\ BioWrite(b, cells)
  BY <1>1 DEF NewOut, TypeInv
<1>3. CASE b \notin DataBlock
  <2>1. data' = data
    BY <1>2, <1>3, BlockWritten
  <2> QED
    BY <1>2, <2>1, StillLast
<1>4. CASE b \in DataBlock
  <2> SUFFICES ASSUME NEW i \in Live, NEW k \in Ptr, inodes[i].ptr[k] # INVALID
               PROVE  BioRead(inodes[i].ptr[k])' = BioRead(inodes[i].ptr[k])
    BY <1>2, DataLast
  <2>1. inodes[i].ptr[k] # b
    BY <1>2, <1>4, FreeBlock
  <2>2. \A d : d # b => BioRead(d)' = BioRead(d)
    BY <1>2, BlockWritten
  <2> QED
    BY <1>2, <2>1, <2>2
<1> QED
  BY <1>3, <1>4

LEMMA FillLast ==
    ASSUME TypeInv, BlockInv, NamesInv, NEW t \in Thread, FillBlock(t)
    PROVE  EntriesLast
<1>1. inodes' = inodes
  BY DEF FillBlock
<1> QED
  BY <1>1, FillElsewhere, DataLast

LEMMA EntriesNext ==
    ASSUME TypeInv, BlockInv, NamesInv, TreeInv, Sheltered, [Next]_vars
    PROVE  EntriesLast
<1>1. CASE UNCHANGED vars
  BY <1>1, StillLast DEF vars, disk
<1>2. ASSUME NEW t \in Thread, DiskStep(t) PROVE EntriesLast
  <2>1. CASE WriteInodes(t)
    BY <2>1, WriteInodesLast
  <2>2. CASE AddName(t) \/ AddDot(t) \/ AddDotdot(t)
    BY <2>2, AddsLast
  <2>3. CASE NewBlock(t)
    BY <2>3, NewBlockLast
  <2>4. CASE FillBlock(t)
    BY <2>4, FillLast
  <2>5. CASE \/ LookUp(t) \/ ReadBitmap(t) \/ TakeIno(t) \/ TakeBlock(t) \/ ReadInodes(t)
             \/ NewInode(t) \/ LinkParent(t) \/ Format(t) \/ ClearInodes(t)
             \/ WriteBitmaps(t) \/ WriteLoop(t) \/ ReadFile(t)
    <3>1. UNCHANGED <<inodes, data>>
      BY <2>5 DEF LookUp, ReadBitmap, TakeIno, TakeBlock, ReadInodes, NewInode, LinkParent,
                  Format, ClearInodes, WriteBitmaps, WriteLoop, ReadFile, disk
    <3> QED
      BY <3>1, StillLast
  <2> QED
    BY <1>2, <2>1, <2>2, <2>3, <2>4, <2>5 DEF DiskStep
<1>3. ASSUME NEW t \in Thread, CallStep(t) PROVE EntriesLast
  <2>1. UNCHANGED <<inodes, data>>
    BY <1>3 DEF CallStep, Mount, CallNew, CallTransfer, disk
  <2> QED
    BY <2>1, StillLast
<1>4. CASE Unmount \/ Crash
  <2>1. UNCHANGED <<inodes, data>>
    BY <1>4 DEF Unmount, Crash, disk
  <2> QED
    BY <2>1, StillLast
<1> QED
  BY <1>1, <1>2, <1>3, <1>4 DEF Next

\* Where directories keep their entries, names last.
LEMMA NamesStayed ==
    ASSUME EntriesLast, NEW x \in NamesAt, x[1] # NoIno
    PROVE  x \in NamesAt' /\ Named(x)' = Named(x)
<1>0. PICK i, a : i = x[1] /\ a = x[2]
  OBVIOUS
<1>1. /\ x = <<i, a>> /\ i \in Slot /\ inodes[i].valid /\ inodes[i].type = "directory"
      /\ a \in NamesIn(inodes[i])
  BY <1>0, NamesPlaces
<1>2. /\ i \in Live \ {NoIno} /\ a \in Ptr \X Cell /\ a \in EntriesAt(inodes[i])
      /\ inodes[i].ptr[a[1]] # INVALID /\ a[1] \in Ptr
      /\ IsEntry(EntryAt(inodes[i], a)) /\ EntryAt(inodes[i], a).name \in Names
  BY <1>0, <1>1 DEF Live, NamesIn, EntriesAt
<1>3. /\ i \in Live' /\ Extends(inodes[i], inodes'[i])
      /\ EntryAt(inodes[i], a)' = EntryAt(inodes[i], a)
  BY <1>1, <1>2 DEF EntriesLast
<1>4. /\ inodes'[i].valid /\ inodes'[i].type = "directory"
      /\ inodes'[i].ptr[a[1]] # INVALID
  BY <1>1, <1>2, <1>3 DEF Live, Extends
<1>5. a \in NamesIn(inodes[i])'
  BY <1>2, <1>3, <1>4 DEF NamesIn, EntriesAt
<1>6. x \in NamesAt'
  BY <1>1, <1>4, <1>5 DEF NamesAt, NamesIn
<1> QED
  BY <1>1, <1>3, <1>6 DEF Named

\* As long as one handler runs at a time (FUSE with -s), a name stays where it is in its
\* directory and leads to the same inode, whatever a crash cuts short and however full the
\* disk is, but for inode 65535: a create without inodes left must not write over a data
\* block, as it does with the code's sizes (dir_add, writei, rufs_mkdir's second write of
\* the parent).
THEOREM NamesStayCorrect ==
    ASSUME Single
    PROVE  Spec /\ []Sheltered => NamesLast
<1>1. TypeInv /\ BlockInv /\ NamesInv /\ TreeInv /\ Sheltered /\ [Next]_vars =>
         [\A x \in NamesAt : x[1] # NoIno => x \in NamesAt' /\ Named(x)' = Named(x)]_vars
  BY EntriesNext, NamesStayed
<1> QED
  BY <1>1, TypeInvariant, BlockInvariant, NamesInvariant, TreeInvariant, PTL
     DEF Spec, NamesLast

-----------------------------------------------------------------------------
(* What a crash costs.                                                     *)

(* The inodes that are lost, and the one that a call has yet to name or to *)
(* write.                                                                  *)
Lost ==
    {i \in ibitmap \ {Root} : ~inodes[i].valid \/ \A x \in NamesAt : Named(x).ino # i}
HasName(i) == \E x \in NamesAt : Named(x).ino = i
Owed(s, l) == IF l.op \in MakeOps /\ "take ino" \notin Range(s) THEN {l.ino} ELSE {}

(* Once dir_add has begun, there is a name or one on its way: in a new     *)
(* block that dir_add takes or in the directory that it writes.            *)
NameSoon(s, l) ==
    Plenty /\ l.op \in MakeOps /\ {"take ino", "add"} \cap Range(s) = {} =>
       \/ HasName(l.ino)
       \/ /\ Head(s) \in {"read dbitmap", "take block", "new block"}
          /\ l.dir.type = "directory" /\ l.entry.name \in Names /\ l.entry.ino = l.ino
       \/ /\ Head(s) \in WriteiSteps /\ l.out.type = "directory"
          /\ \/ \E a \in NamesIn(l.out) : EntryAt(l.out, a).ino = l.ino
             \/ \E k \in Ptr : l.out.ptr[k] = NoBlock

CostInv ==
    /\ Plenty /\ (\A t \in Thread : todo[t] = <<>>) => Cardinality(Lost) <= crashes
    /\ \A t \in Thread : todo[t] # <<>> =>
          /\ NameSoon(todo[t], loc[t])
          /\ Plenty => Cardinality(Lost \ Owed(todo[t], loc[t])) <= crashes

LEMMA LostFinite ==
    ASSUME DiskTypes
    PROVE  IsFiniteSet(Lost)
<1>1. IsFiniteSet(Inum)
  BY Sizes, FS_Interval DEF Inum
<1>2. Lost \subseteq Inum
  BY DEF Lost, DiskTypes
<1> QED
  BY <1>1, <1>2, FS_Subset

LEMMA Fewer ==
    ASSUME NEW T, IsFiniteSet(T), NEW S, S \subseteq T, NEW n \in Nat, Cardinality(T) <= n
    PROVE  Cardinality(S) <= n
<1>1. /\ IsFiniteSet(S) /\ Cardinality(S) <= Cardinality(T)
  BY FS_Subset
<1>2. Cardinality(S) \in Nat /\ Cardinality(T) \in Nat
  BY <1>1, FS_CardinalityType
<1> QED
  BY <1>1, <1>2

\* Where directories keep their entries, plenty stays refused once it was.
LEMMA PlentyStays ==
    ASSUME EntriesLast, Root \in Live, Plenty'
    PROVE  Plenty
<1>1. Root # NoIno /\ NoIno \in Slot /\ NoBlock # INVALID
  BY SizesOfTypes DEF Root, NoIno, NoBlock, INVALID
<1>2. NoIno \notin Live
  <2>1. NoIno \notin Live'
    BY DEF Plenty, Live
  <2> QED
    BY <2>1 DEF EntriesLast
<1>3. inodes[Root].valid /\ ~inodes[NoIno].valid
  BY <1>1, <1>2 DEF Live
<1>4. ASSUME NEW x \in NamesAt PROVE Named(x).ino # NoIno
  <2>1. x[1] # NoIno
    BY <1>2, NamesPlaces DEF Live
  <2>2. x \in NamesAt' /\ Named(x)' = Named(x)
    BY <2>1, NamesStayed
  <2> QED
    BY <2>2 DEF Plenty
<1>5. ASSUME NEW i \in Slot, inodes[i].valid, inodes[i].type = "directory"
      PROVE  Room(inodes[i]) # {} /\ \A k \in Ptr : inodes[i].ptr[k] # NoBlock
  <2>1. i \in Live \ {NoIno}
    BY <1>2, <1>5 DEF Live
  <2>2. /\ i \in Live' /\ inodes'[i].type = "directory"
        /\ \A k \in Ptr : inodes[i].ptr[k] # INVALID => inodes'[i].ptr[k] = inodes[i].ptr[k]
        /\ \A a \in EntriesAt(inodes[i]) : EntryAt(inodes[i], a)' = EntryAt(inodes[i], a)
    BY <1>5, <2>1 DEF EntriesLast, Extends
  <2>3. Room(inodes[i])' # {} /\ \A k \in Ptr : inodes'[i].ptr[k] # NoBlock
    BY <2>2 DEF Plenty, Live
  <2>4. \A k \in Ptr : inodes[i].ptr[k] # NoBlock
    BY <1>1, <2>2, <2>3
  <2>5. PICK k \in Ptr : k \in Room(inodes[i])'
    BY <2>3 DEF Room
  <2>6. CASE inodes[i].ptr[k] = INVALID
    BY <2>4, <2>6 DEF Room
  <2>7. CASE inodes[i].ptr[k] # INVALID
    <3>1. PICK c \in Cell : ~IsEntry(EntryAt(inodes[i], <<k, c>>)')
      BY <2>2, <2>5, <2>7 DEF Room, EntryAt
    <3>2. <<k, c>> \notin EntriesAt(inodes[i])
      BY <2>2, <3>1 DEF EntriesAt
    <3>3. ~IsEntry(EntryAt(inodes[i], <<k, c>>))
      BY <2>7, <3>2 DEF EntriesAt
    <3> QED
      BY <2>4, <3>3 DEF Room, EntryAt
  <2> QED
    BY <2>4, <2>6, <2>7
<1> QED
  BY <1>3, <1>4, <1>5 DEF Plenty

LEMMA LostShrinks ==
    ASSUME DiskTypes, EntriesLast, Plenty
    PROVE  /\ \A i : HasName(i) => HasName(i)'
           /\ ibitmap' = ibitmap => Lost' \subseteq Lost
<1>1. NoIno \notin Live
  BY SizesOfTypes DEF Plenty, Live
<1>2. ASSUME NEW i, HasName(i) PROVE HasName(i)'
  <2>1. PICK x \in NamesAt : Named(x).ino = i
    BY <1>2 DEF HasName
  <2>2. x[1] # NoIno
    BY <1>1, NamesPlaces DEF Live
  <2>3. x \in NamesAt' /\ Named(x)' = Named(x)
    BY <2>2, NamesStayed
  <2> QED
    BY <2>1, <2>3 DEF HasName
<1>3. ASSUME ibitmap' = ibitmap, NEW i \in Lost' PROVE i \in Lost
  <2>1. i \in ibitmap \ {Root} /\ i \in Slot /\ (i \notin Live' \/ ~HasName(i)')
    BY <1>3, SizesOfTypes DEF Lost, Live, HasName, DiskTypes
  <2>2. i \notin Live \/ ~HasName(i)
    BY <1>1, <1>2, <2>1 DEF EntriesLast
  <2> QED
    BY <2>1, <2>2 DEF Lost, Live, HasName
<1> QED
  BY <1>2, <1>3

LEMMA CostGo ==
    ASSUME HandlerTypes, Single, NEW t \in Thread, NEW q, NEW m, Go(t, q, m),
           q # <<>> => NameSoon(q, m)',
           Plenty' => Cardinality(Lost' \ (IF q = <<>> THEN {} ELSE Owed(q, m))) <= crashes'
    PROVE  CostInv'
<1>1. todo'[t] = q /\ (q # <<>> => loc'[t] = m)
  BY DEF Go, HandlerTypes
<1>2. ASSUME Plenty', \A u \in Thread : todo'[u] = <<>> PROVE Cardinality(Lost') <= crashes'
  <2>1. q = <<>> /\ Lost' \ {} = Lost'
    BY <1>1, <1>2
  <2> QED
    BY <1>2, <2>1
<1>3. ASSUME NEW u \in Thread, todo'[u] # <<>>
      PROVE  /\ NameSoon(todo[u], loc[u])'
             /\ Plenty' => Cardinality(Lost' \ Owed(todo[u], loc[u])') <= crashes'
  <2>1. u = t
    BY DEF Single
  <2>2. Owed(todo[t], loc[t])' = Owed(q, m)
    BY <1>1, <1>3, <2>1 DEF Owed
  <2> QED
    BY <1>1, <1>3, <2>1, <2>2
<1> QED
  BY <1>2, <1>3 DEF CostInv

\* A call that makes nothing.
LEMMA CostOther ==
    ASSUME HandlerTypes, Single, NEW t \in Thread, NEW q, NEW m, Go(t, q, m),
           q # <<>> => m.op \notin MakeOps,
           Plenty' => Cardinality(Lost') <= crashes'
    PROVE  CostInv'
<1>1. q # <<>> => NameSoon(q, m)' /\ Owed(q, m) = {}
  BY DEF NameSoon, Owed
<1>2. Lost' \ (IF q = <<>> THEN {} ELSE Owed(q, m)) = Lost'
  BY <1>1
<1> QED
  BY <1>1, <1>2, CostGo

LEMMA CostAt ==
    ASSUME TypeInv, CostInv, NEW t \in Thread, Busy(t)
    PROVE  /\ NameSoon(todo[t], loc[t]) /\ crashes \in Nat /\ IsFiniteSet(Lost)
           /\ Plenty => Cardinality(Lost \ Owed(todo[t], loc[t])) <= crashes
<1>1. crashes \in Nat /\ IsFiniteSet(Lost)
  BY LostFinite, Sizes DEF TypeInv, DiskTypes
<1> QED
  BY <1>1 DEF CostInv, Busy

\* A step of a call that loses nothing and goes on owing what it owes.
LEMMA PayGo ==
    ASSUME TypeInv, CostInv, Single, NEW t \in Thread, Busy(t), EntriesLast,
           Root \in Live' => Root \in Live, UNCHANGED <<ibitmap, crashes>>,
           NEW q, NEW m, Go(t, q, m),
           q # <<>> => /\ Owed(todo[t], loc[t]) \subseteq Owed(q, m)
                       /\ Plenty => NameSoon(q, m)',
           q = <<>> => (Plenty' => Owed(todo[t], loc[t]) \cap Lost' = {})
    PROVE  CostInv'
<1>1. Plenty' => Plenty
  <2>1. Root \in Slot
    BY ONLY SizesOfTypes
  <2>2. Plenty' => Root \in Live'
    BY <2>1 DEF Plenty, Live
  <2> QED
    BY <2>2, PlentyStays
<1>2. /\ HandlerTypes /\ DiskTypes /\ crashes' = crashes /\ crashes \in Nat
      /\ IsFiniteSet(Lost)
      /\ Plenty => Cardinality(Lost \ Owed(todo[t], loc[t])) <= crashes
  BY CostAt DEF TypeInv
<1>3. ASSUME q # <<>> PROVE NameSoon(q, m)'
  BY <1>1, <1>3 DEF NameSoon
<1> DEFINE owed == IF q = <<>> THEN {} ELSE Owed(q, m)
<1>5. ASSUME Plenty' PROVE Cardinality(Lost' \ owed) <= crashes'
  <2>1. Lost' \subseteq Lost
    BY <1>1, <1>2, <1>5, LostShrinks
  <2>2. Lost' \ owed \subseteq Lost \ Owed(todo[t], loc[t])
    <3>1. CASE q = <<>>
      <4>1. Owed(todo[t], loc[t]) \cap Lost' = {}
        BY <1>5, <3>1
      <4> QED
        BY <2>1, <4>1
    <3>2. CASE q # <<>>
      BY <2>1, <3>2
    <3> QED
      BY <3>1, <3>2
  <2> HIDE DEF owed
  <2>3. IsFiniteSet(Lost \ Owed(todo[t], loc[t]))
    BY <1>2, FS_Subset
  <2>4. Cardinality(Lost \ Owed(todo[t], loc[t])) <= crashes
    BY <1>1, <1>2, <1>5
  <2> QED
    BY <1>2, <2>2, <2>3, <2>4, Fewer
<1> QED
  BY <1>2, <1>3, <1>5, CostGo

\* Only rufs_mkfs writes a root.
LEMMA RootStays ==
    ASSUME TypeInv, BlockInv, TreeInv, NEW t \in Thread, DiskStep(t), loc[t].op # "mkfs",
           Root \in Live'
    PROVE  Root \in Live
<1>1. CASE WriteInodes(t)
  <2>0. PICK s, l, i : s = todo[t] /\ l = loc[t] /\ i = l.out.ino
    OBVIOUS
  <2>1. InoInv(s, l)
    BY <1>1, <2>0, TreeAt DEF WriteInodes, At, TypeInv
  <2>2. /\ "root" \in Range(s) => l.op = "mkfs"
        /\ "root" \notin Range(s) =>
              /\ Live' = Live \cup {i}
              /\ i \notin Live => /\ i = l.ino /\ l.op \in MakeOps \cup {"mkfs"}
                                  /\ ({"take ino", "add"} \cup NewSteps) \cap Range(s) = {}
    BY <1>1, <2>0, WriteInodesLive
  <2>3. i \notin Live => i # Root
    BY <2>0, <2>1, <2>2 DEF InoInv
  <2> QED
    BY <2>0, <2>2, <2>3
<1>2. CASE ~WriteInodes(t)
  <2>1. inodes' = inodes
    BY <1>2 DEF DiskStep, LookUp, ReadBitmap, TakeIno, TakeBlock, ReadInodes, AddName, AddDot,
                AddDotdot, AddEntry, NewBlock, NewInode, LinkParent, Format, ClearInodes,
                WriteBitmaps, WriteLoop, FillBlock, ReadFile, disk
  <2> QED
    BY <2>1 DEF Live
<1> QED
  BY <1>1, <1>2

\* A handler stays in its call.
LEMMA OpKept ==
    ASSUME TypeInv, BlockInv, NamesInv, TreeInv, NEW t \in Thread, DiskStep(t)
    PROVE  /\ crashes' = crashes /\ Busy(t)
           /\ \E q, m : Go(t, q, m) /\ (q # <<>> => m.op = loc[t].op)
<1>1. crashes' = crashes /\ Busy(t)
  BY DEF DiskStep, LookUp, ReadBitmap, TakeIno, TakeBlock, ReadInodes, WriteInodes, AddName,
         AddDot, AddDotdot, AddEntry, NewBlock, NewInode, LinkParent, Format, ClearInodes,
         WriteBitmaps, WriteLoop, FillBlock, ReadFile, At
<1>2. loc[t] \in Local /\ HandlerTypes
  BY <1>1, HandlerAt DEF TypeInv
<1> DEFINE InCall == \E q, m : Go(t, q, m) /\ (q # <<>> => m.op = loc[t].op)
<1>3. \A q, m : Go(t, q, m) /\ (q # <<>> => m.op = loc[t].op) => InCall
  OBVIOUS
<1> SUFFICES InCall
  BY <1>1
<1> HIDE DEF InCall
<1>4. /\ Return(t) => InCall
      /\ \A m : Continue(t, m) /\ m.op = loc[t].op => InCall
  BY <1>3 DEF Return, Continue
<1>5. CASE AddName(t) \/ AddDot(t) \/ AddDotdot(t)
  <2>1. PICK dir, name, ino : AddEntry(t, dir, name, ino)
    BY <1>5, AddCalls
  <2>2. PICK m : Added(t, m)
    BY <1>1, <1>2, <2>1, AddMoves
  <2>3. \/ Return(t) \/ Go(t, Tail(todo[t]), m)
        \/ Go(t, GetAvailBlkno \o <<"new block">> \o Writei \o Tail(todo[t]), m)
    BY <2>2 DEF Added
  <2>4. m.op = loc[t].op
    BY <2>2 DEF Added
  <2> QED
    BY <1>3, <1>4, <2>3, <2>4
<1>6. CASE NewBlock(t)
  <2>1. \E k, o, m : NewOut(t, k, o, m)
    BY <1>6, NewBlockOut
  <2> QED
    BY <1>4, <2>1 DEF NewOut
<1>7. CASE LookUp(t) \/ ReadBitmap(t) \/ TakeIno(t) \/ TakeBlock(t) \/ ReadInodes(t)
  <2>1. Return(t) \/ \E n, b, i, x, u : Continue(t, [loc[t] EXCEPT !.node = n])
                        \/ Continue(t, [loc[t] EXCEPT !.bits = b])
                        \/ Continue(t, [loc[t] EXCEPT !.ino = i])
                        \/ Continue(t, [loc[t] EXCEPT !.blk = x])
                        \/ Continue(t, [loc[t] EXCEPT !.buf = u])
    BY <1>7 DEF LookUp, ReadBitmap, TakeIno, TakeBlock, ReadInodes
  <2>2. \A n, b, i, x, u : /\ [loc[t] EXCEPT !.node = n].op = loc[t].op
                           /\ [loc[t] EXCEPT !.bits = b].op = loc[t].op
                           /\ [loc[t] EXCEPT !.ino = i].op = loc[t].op
                           /\ [loc[t] EXCEPT !.blk = x].op = loc[t].op
                           /\ [loc[t] EXCEPT !.buf = u].op = loc[t].op
    BY <1>2 DEF Local
  <2> QED
    BY <1>4, <2>1, <2>2
<1>8. CASE WriteInodes(t) \/ Format(t) \/ WriteBitmaps(t)
  <2>1. Continue(t, loc[t])
    BY <1>8 DEF WriteInodes, Format, WriteBitmaps
  <2> QED
    BY <1>4, <2>1
<1>9. CASE NewInode(t) \/ LinkParent(t) \/ WriteLoop(t) \/ ReadFile(t)
  <2>1. Return(t) \/ \E q, o : Go(t, q, loc[t]) \/ Go(t, q, [loc[t] EXCEPT !.out = o])
    BY <1>9 DEF NewInode, LinkParent, WriteLoop, ReadFile, Continue
  <2>2. \A o : [loc[t] EXCEPT !.out = o].op = loc[t].op
    BY <1>2 DEF Local
  <2> QED
    BY <1>3, <1>4, <2>1, <2>2
<1>10. CASE ClearInodes(t)
  <2>1. \/ Continue(t, loc[t])
        \/ \E q, m : /\ m = [loc[t] EXCEPT !.out = Blank(loc[t].ino), !.ino = @ + 1]
                     /\ Go(t, q, m)
    BY <1>10 DEF ClearInodes
  <2>2. \A m : m = [loc[t] EXCEPT !.out = Blank(loc[t].ino), !.ino = @ + 1] =>
              m.op = loc[t].op
    BY <1>2 DEF Local
  <2> QED
    BY <1>3, <1>4, <2>1, <2>2
<1>11. CASE FillBlock(t)
  <2>1. \E k, b, n : Continue(t, [loc[t] EXCEPT !.node.ptr[k] = b, !.done = @ + n])
    BY <1>11 DEF FillBlock
  <2>2. PICK k, b, n : Continue(t, [loc[t] EXCEPT !.node.ptr[k] = b, !.done = @ + n])
    BY <2>1
  <2>3. PICK m : m = [loc[t] EXCEPT !.node.ptr[k] = b, !.done = @ + n]
    OBVIOUS
  <2>4. Continue(t, m)
    BY <2>2, <2>3
  <2>5. m.op = loc[t].op
    BY <1>2, <2>3 DEF Local
  <2> QED
    BY <1>4, <2>4, <2>5
<1> QED
  BY <1>5, <1>6, <1>7, <1>8, <1>9, <1>10, <1>11 DEF DiskStep

LEMMA LowestOfNone == LowestClear({}, MaxInum, NoIno) = Root
<1>1. MaxInum \in Nat /\ MaxInum > 0
  BY Sizes
<1>2. 0 \in 0..(MaxInum - 1) /\ ~(0..(MaxInum - 1) \subseteq {})
  BY <1>1
<1>3. LowestClear({}, MaxInum, NoIno) = Min((0..(MaxInum - 1)) \ {})
  BY <1>2 DEF LowestClear
<1>4. (0..(MaxInum - 1)) \ {} \in SUBSET Nat
  BY <1>1
<1>5. /\ Min((0..(MaxInum - 1)) \ {}) \in (0..(MaxInum - 1)) \ {}
      /\ \A x \in (0..(MaxInum - 1)) \ {} : Min((0..(MaxInum - 1)) \ {}) <= x
  BY <1>2, <1>4, MinProperties
<1> QED
  BY <1>2, <1>3, <1>5 DEF Root

\* rufs_mkfs loses nothing: it takes the root's inode and no other.
LEMMA MkfsCost ==
    ASSUME TypeInv, BlockInv, NamesInv, TreeInv, CostInv, Single,
           NEW t \in Thread, DiskStep(t), loc[t].op = "mkfs"
    PROVE  CostInv'
<1>0. PICK s, l : s = todo[t] /\ l = loc[t]
  OBVIOUS
<1>1. /\ crashes' = crashes /\ Busy(t) /\ HandlerTypes /\ DiskTypes /\ crashes \in Nat
      /\ \E q, m : Go(t, q, m) /\ (q # <<>> => m.op = loc[t].op)
  BY OpKept, CostAt DEF TypeInv
<1>2. /\ CallInv(s, l) /\ MkfsInv(s, l) /\ BootInv(s, l) /\ BitsNames(s, l) /\ l.op = "mkfs"
      /\ Head(s) \in Range(s)
  BY <1>0, <1>1, BlockAt, TreeAt, NamesWhere, HandlerAt DEF HandlerInv
<1>3. \/ "root" \in Range(s) /\ Live = {}
      \/ "root" \notin Range(s) /\ "bitmaps" \notin Range(s) /\ ibitmap \subseteq {Root}
  BY <1>2 DEF CallInv, MkfsInv, BootInv
<1>4. Live' = {} \/ ibitmap' \subseteq {Root}
  <2>1. CASE UNCHANGED <<inodes, ibitmap>>
    BY <1>3, <2>1 DEF Live
  <2>2. CASE WriteInodes(t)
    <3>1. ibitmap' = ibitmap
      BY <2>2 DEF WriteInodes
    <3>2. "root" \in Range(s) => Live' = {}
      BY <1>0, <2>2, WriteInodesLive
    <3> QED
      BY <1>3, <3>1, <3>2
  <2>3. CASE WriteBitmaps(t)
    BY <2>3 DEF WriteBitmaps
  <2>4. CASE TakeIno(t)
    <3>1. /\ Head(s) = "take ino" /\ inodes' = inodes
          /\ ibitmap' \in {ibitmap, l.bits \cup {LowestClear(l.bits, MaxInum, NoIno)}}
      BY <1>0, <2>4 DEF TakeIno, At
    <3>2. CASE Live = {}
      BY <3>1, <3>2 DEF Live
    <3>3. CASE "bitmaps" \notin Range(s) /\ ibitmap \subseteq {Root}
      <4>1. l.bits = {}
        BY <1>2, <3>1, <3>3 DEF BitsNames
      <4> QED
        BY <3>1, <3>3, <4>1, LowestOfNone
    <3> QED
      BY <1>3, <3>2, <3>3
  <2>5. CASE ~WriteInodes(t) /\ ~WriteBitmaps(t) /\ ~TakeIno(t)
    <3>1. UNCHANGED <<inodes, ibitmap>>
      BY <2>5 DEF DiskStep, LookUp, ReadBitmap, TakeBlock, ReadInodes, AddName, AddDot,
                  AddDotdot, AddEntry, NewBlock, NewInode, LinkParent, Format, ClearInodes,
                  WriteLoop, FillBlock, ReadFile, disk
    <3> QED
      BY <2>1, <3>1
  <2> QED
    BY <2>2, <2>3, <2>4, <2>5
<1>5. Plenty' => Cardinality(Lost') <= crashes'
  <2>1. CASE Live' = {}
    <3>1. Root \in Slot
      BY ONLY SizesOfTypes
    <3> QED
      BY <2>1, <3>1 DEF Plenty, Live
  <2>2. CASE ibitmap' \subseteq {Root}
    <3>1. Lost' = {}
      BY <2>2 DEF Lost
    <3>2. Cardinality({}) = 0
      BY FS_EmptySet
    <3> QED
      BY <1>1, <3>1, <3>2
  <2> QED
    BY <1>4, <2>1, <2>2
<1>6. PICK q, m : Go(t, q, m) /\ (q # <<>> => m.op = "mkfs")
  BY <1>1
<1>7. q # <<>> => m.op \notin MakeOps
  BY <1>6 DEF MakeOps
<1> QED
  BY <1>1, <1>5, <1>6, <1>7, CostOther

\* rufs_read and rufs_write take no inode.
LEMMA TransferCost ==
    ASSUME TypeInv, BlockInv, NamesInv, TreeInv, CostInv, Single, EntriesLast,
           NEW t \in Thread, DiskStep(t), loc[t].op \in {"read", "write"}
    PROVE  CostInv'
<1>1. /\ crashes' = crashes /\ Busy(t) /\ HandlerTypes /\ DiskTypes
      /\ \E q, m : Go(t, q, m) /\ (q # <<>> => m.op = loc[t].op)
  BY OpKept DEF TypeInv
<1>2. Head(todo[t]) \in StepsOf(loc[t].op)
  BY <1>1, HandlerAt, BlockAt, CallTail DEF HandlerInv
<1>3. Head(todo[t]) \notin {"take ino", "bitmaps"}
  BY <1>2 DEF StepsOf, GetBlkSteps, WriteiSteps
<1>4. ibitmap' = ibitmap
  BY <1>3 DEF DiskStep, LookUp, ReadBitmap, TakeIno, TakeBlock, ReadInodes, WriteInodes,
              AddName, AddDot, AddDotdot, AddEntry, NewBlock, NewInode, LinkParent, Format,
              ClearInodes, WriteBitmaps, WriteLoop, FillBlock, ReadFile, disk, At
<1>5. Root \in Live' => Root \in Live
  BY RootStays
<1>6. Plenty' => Plenty
  <2>1. Root \in Slot
    BY ONLY SizesOfTypes
  <2>2. Plenty' => Root \in Live'
    BY <2>1 DEF Plenty, Live
  <2> QED
    BY <1>5, <2>2, PlentyStays
<1>7. ASSUME Plenty' PROVE Cardinality(Lost') <= crashes'
  <2>1. Owed(todo[t], loc[t]) = {}
    BY DEF Owed, MakeOps
  <2>2. Lost' \subseteq Lost /\ Lost \ {} = Lost
    BY <1>1, <1>4, <1>6, <1>7, LostShrinks
  <2>3. /\ crashes \in Nat /\ IsFiniteSet(Lost)
        /\ Plenty => Cardinality(Lost \ Owed(todo[t], loc[t])) <= crashes
    BY <1>1, CostAt
  <2>4. Cardinality(Lost) <= crashes
    BY <1>6, <1>7, <2>1, <2>2, <2>3
  <2> QED
    BY <1>1, <2>2, <2>3, <2>4, Fewer
<1>8. PICK q, m : Go(t, q, m) /\ (q # <<>> => m.op = loc[t].op)
  BY <1>1
<1>9. q # <<>> => m.op \notin MakeOps
  BY <1>8 DEF MakeOps
<1> QED
  BY <1>1, <1>7, <1>8, <1>9, CostOther

\* The steps of a call that makes something; it ends with writei.
LEMMA MakeSteps ==
    ASSUME TypeInv, BlockInv, TreeInv, NEW t \in Thread, Busy(t), loc[t].op \in MakeOps
    PROVE  /\ Head(todo[t]) \in {"lookup", "read ibitmap", "take ino", "add", "new file",
                                 "new directory", "read inodes", "write inodes", "add dot",
                                 "add dotdot", "link", "read dbitmap", "take block",
                                 "new block"}
           /\ Tail(todo[t]) = <<>> => Head(todo[t]) = "write inodes"
           /\ Tail(todo[t]) # <<>> => Head(Tail(todo[t])) # "fill"
<1>0. PICK s, r, l : s = todo[t] /\ r = Tail(s) /\ l = loc[t]
  OBVIOUS
<1>1. /\ Program(s) /\ s # <<>> /\ CallInv(s, l) /\ EndInv(s, l) /\ l.op \in MakeOps
  BY <1>0, HandlerAt, BlockAt, TreeAt DEF TypeInv, HandlerInv
<1>2. Head(s) \in StepsOf(l.op) /\ (r # <<>> => Head(r) \in StepsOf(l.op))
  <2>1. Head(s) \in StepsOf(l.op) /\ Range(r) \subseteq StepsOf(l.op)
    BY <1>0, <1>1, CallTail
  <2>2. r # <<>> => Head(r) \in Range(r)
    BY <1>0, <1>1, ProgramTail
  <2> QED
    BY <2>1, <2>2
<1>3. StepsOf(l.op) \subseteq
         {"lookup", "read ibitmap", "take ino", "add", "new file", "new directory",
          "read inodes", "write inodes", "add dot", "add dotdot", "link", "read dbitmap",
          "take block", "new block"}
  BY <1>1 DEF MakeOps, StepsOf, CreateSteps, MkdirSteps, NewBlockSteps
<1>4. r = <<>> => Head(s) = "write inodes"
  BY <1>0, <1>1, FinalTail DEF EndInv
<1>5. "fill" \notin StepsOf(l.op)
  BY <1>3
<1> QED
  BY <1>0, <1>2, <1>3, <1>4, <1>5

LEMMA PayTail ==
    ASSUME TypeInv, BlockInv, NamesInv, TreeInv, CostInv, Single, EntriesLast,
           NEW t \in Thread, DiskStep(t), loc[t].op \in MakeOps,
           ibitmap' = ibitmap, NEW r, r = Tail(todo[t]), r # <<>>, NEW m, Continue(t, m), m.op = loc[t].op, m.ino = loc[t].ino,
           Plenty => NameSoon(r, m)'
    PROVE  CostInv'
<1>1. crashes' = crashes /\ Busy(t) /\ (Root \in Live' => Root \in Live)
  BY OpKept, RootStays DEF MakeOps
<1>2. Range(todo[t]) = {Head(todo[t])} \cup Range(r)
  BY <1>1, HandlerAt DEF TypeInv
<1>3. Go(t, r, m)
  BY DEF Continue
<1>4. Owed(todo[t], loc[t]) \subseteq Owed(r, m)
  BY <1>2 DEF Owed
<1> QED
  BY <1>1, <1>3, <1>4, PayGo

\* A name that is there stays.
LEMMA NameTail ==
    ASSUME DiskTypes, EntriesLast, Plenty, NEW s, NEW l, NEW r, NEW m,
           Program(s), s # <<>>, r = Tail(s), m.op = l.op, m.ino = l.ino, NameSoon(s, l),
           Head(s) \notin {"take ino", "add", "read dbitmap", "take block", "new block"},
           Head(s) \notin WriteiSteps
    PROVE  NameSoon(r, m)'
<1>1. Range(s) = {Head(s)} \cup Range(r)
  BY ProgramTail
<1> SUFFICES ASSUME m.op \in MakeOps, {"take ino", "add"} \cap Range(r) = {}
             PROVE  HasName(m.ino)'
  BY DEF NameSoon
<1>2. {"take ino", "add"} \cap Range(s) = {}
  BY <1>1
<1>3. HasName(l.ino)
  BY <1>2 DEF NameSoon
<1> QED
  BY <1>3, LostShrinks

LEMMA LookUpCost ==
    ASSUME TypeInv, BlockInv, NamesInv, TreeInv, CostInv, Single, EntriesLast,
           NEW t \in Thread, LookUp(t), loc[t].op \in MakeOps
    PROVE  CostInv'
<1>0. PICK s, r, l, i : /\ s = todo[t] /\ r = Tail(s) /\ l = loc[t]
                        /\ i = Walk(IF l.op \in {"create", "mkdir"} THEN Dirname(l.path) ELSE l.path)
  OBVIOUS
<1>1. /\ Busy(t) /\ Head(s) = "lookup" /\ l \in Local /\ EndInv(s, l) /\ l.op \in MakeOps
      /\ Range(s) = {Head(s)} \cup Range(r)
      /\ UNCHANGED <<inodes, ibitmap, crashes>>
  BY <1>0, HandlerAt, TreeAt DEF LookUp, At, TypeInv, disk
<1>2. "take ino" \in Range(s) /\ "take ino" \in Range(r)
  BY <1>1 DEF EndInv
<1>3. CASE Return(t)
  <2>1. Owed(s, l) = {}
    BY <1>2 DEF Owed
  <2>2. Root \in Live' => Root \in Live
    BY <1>1 DEF Live
  <2> QED
    BY <1>0, <1>1, <1>3, <2>1, <2>2, PayGo DEF Return
<1>4. CASE ~Return(t)
  <2>1. PICK m : m = [l EXCEPT !.node = inodes[i]]
    OBVIOUS
  <2>2. Continue(t, m)
    BY <1>0, <1>4, <2>1 DEF LookUp
  <2>3. m.op = l.op /\ m.ino = l.ino
    BY <1>1, <2>1 DEF Local
  <2>4. NameSoon(r, m)'
    BY <1>2 DEF NameSoon
  <2>5. r # <<>> /\ DiskStep(t) /\ ibitmap' = ibitmap
    BY <1>0, <1>1, MakeSteps DEF DiskStep
  <2> QED
    BY <1>0, <2>2, <2>3, <2>4, <2>5, PayTail
<1> QED
  BY <1>3, <1>4

LEMMA BitmapCost ==
    ASSUME TypeInv, BlockInv, NamesInv, TreeInv, CostInv, Single, EntriesLast,
           NEW t \in Thread, ReadBitmap(t) \/ TakeBlock(t), loc[t].op \in MakeOps
    PROVE  CostInv'
<1>0. PICK s, r, l : s = todo[t] /\ r = Tail(s) /\ l = loc[t]
  OBVIOUS
<1>1. /\ Busy(t) /\ Head(s) \in {"read ibitmap", "read dbitmap", "take block"}
      /\ l \in Local /\ UNCHANGED <<inodes, data, ibitmap>> /\ DiskTypes
      /\ Program(s) /\ s # <<>> /\ Range(s) = {Head(s)} \cup Range(r)
      /\ r # <<>> => Follows(Head(s), Head(r)) /\ Head(r) \in Range(r)
      /\ NameSoon(s, l) /\ DiskStep(t)
  BY <1>0, HandlerAt, CostAt DEF ReadBitmap, TakeBlock, At, TypeInv, disk, DiskStep
<1>2. r # <<>>
  BY <1>0, <1>1, MakeSteps
<1>3. Head(r) # "fill"
  BY <1>0, <1>1, <1>2, MakeSteps
<1>4. \E m : /\ Continue(t, m) /\ m.op = l.op /\ m.ino = l.ino
             /\ m.dir = l.dir /\ m.entry = l.entry
  <2>1. CASE ReadBitmap(t)
    <3>1. PICK b : Continue(t, [l EXCEPT !.bits = b])
      BY <1>0, <2>1 DEF ReadBitmap
    <3> WITNESS [l EXCEPT !.bits = b]
    <3> QED
      BY <1>1, <3>1 DEF Local
  <2>2. CASE TakeBlock(t)
    <3>1. PICK b : Continue(t, [l EXCEPT !.blk = b])
      BY <1>0, <2>2 DEF TakeBlock
    <3> WITNESS [l EXCEPT !.blk = b]
    <3> QED
      BY <1>1, <3>1 DEF Local
  <2> QED
    BY <2>1, <2>2
<1>5. PICK m : /\ Continue(t, m) /\ m.op = l.op /\ m.ino = l.ino
               /\ m.dir = l.dir /\ m.entry = l.entry
  BY <1>4
<1>6. ASSUME Plenty PROVE NameSoon(r, m)'
  <2>1. CASE Head(s) = "read ibitmap"
    <3>1. "take ino" \in Range(r)
      BY <1>1, <1>2, <2>1 DEF Follows
    <3> QED
      BY <3>1 DEF NameSoon
  <2>2. CASE Head(s) \in {"read dbitmap", "take block"}
    <3>1. Head(r) \in {"take block", "new block"}
      BY <1>1, <1>2, <1>3, <2>2 DEF Follows
    <3> SUFFICES ASSUME m.op \in MakeOps, {"take ino", "add"} \cap Range(r) = {}
                 PROVE  \/ HasName(m.ino)'
                        \/ /\ m.dir.type = "directory" /\ m.entry.name \in Names
                           /\ m.entry.ino = m.ino
      BY <3>1 DEF NameSoon
    <3>2. {"take ino", "add"} \cap Range(s) = {} /\ Head(s) \notin WriteiSteps
      BY <1>1, <2>2 DEF WriteiSteps
    <3>3. \/ HasName(l.ino)
          \/ l.dir.type = "directory" /\ l.entry.name \in Names /\ l.entry.ino = l.ino
      BY <1>1, <1>5, <1>6, <3>2 DEF NameSoon
    <3> QED
      BY <1>1, <1>5, <1>6, <3>3, LostShrinks
  <2> QED
    BY <1>1, <2>1, <2>2
<1>7. DiskStep(t) /\ ibitmap' = ibitmap
  BY <1>1
<1> QED
  BY <1>0, <1>2, <1>5, <1>6, <1>7, PayTail

LEMMA ReadInodesCost ==
    ASSUME TypeInv, BlockInv, NamesInv, TreeInv, CostInv, Single, EntriesLast,
           NEW t \in Thread, ReadInodes(t), loc[t].op \in MakeOps
    PROVE  CostInv'
<1>0. PICK s, r, l : s = todo[t] /\ r = Tail(s) /\ l = loc[t]
  OBVIOUS
<1>1. PICK m : m = [l EXCEPT !.buf = [j \in InodeBlock(l.out.ino) |-> inodes[j]]]
  OBVIOUS
<1>2. /\ Busy(t) /\ Head(s) = "read inodes" /\ l \in Local /\ DiskTypes
      /\ Program(s) /\ s # <<>> /\ Continue(t, m)
      /\ Range(s) = {Head(s)} \cup Range(r)
      /\ r # <<>> => Follows(Head(s), Head(r))
      /\ UNCHANGED <<inodes, data, ibitmap>> /\ NameSoon(s, l) /\ DiskStep(t)
  BY <1>0, <1>1, HandlerAt, CostAt DEF ReadInodes, At, TypeInv, disk, DiskStep
<1>3. r # <<>>
  BY <1>0, <1>2, MakeSteps
<1>4. m.op = l.op /\ m.ino = l.ino /\ m.out = l.out
  BY <1>1, <1>2 DEF Local
<1>5. ASSUME Plenty PROVE NameSoon(r, m)'
  <2>1. Head(r) \in WriteiSteps
    BY <1>2, <1>3 DEF Follows, WriteiSteps
  <2> SUFFICES ASSUME m.op \in MakeOps, {"take ino", "add"} \cap Range(r) = {}
               PROVE  \/ HasName(m.ino)'
                      \/ /\ m.out.type = "directory"
                         /\ \/ \E a \in NamesIn(m.out)' : EntryAt(m.out, a)'.ino = m.ino
                            \/ \E k \in Ptr : m.out.ptr[k] = NoBlock
    BY <2>1 DEF NameSoon
  <2>2. {"take ino", "add"} \cap Range(s) = {}
    BY <1>2
  <2>3. \/ HasName(l.ino)
        \/ /\ l.out.type = "directory"
           /\ \/ \E a \in NamesIn(l.out) : EntryAt(l.out, a).ino = l.ino
              \/ \E k \in Ptr : l.out.ptr[k] = NoBlock
    BY <1>2, <1>4, <1>5, <2>2 DEF NameSoon
  <2>4. /\ \A n : NamesIn(n)' = NamesIn(n)
        /\ \A n, a : EntryAt(n, a)' = EntryAt(n, a)
    BY <1>2, NamesStay
  <2>5. HasName(l.ino) => HasName(l.ino)'
    BY <1>2, <1>5, LostShrinks
  <2> QED
    BY <1>4, <2>3, <2>4, <2>5
<1>6. DiskStep(t) /\ ibitmap' = ibitmap
  BY <1>2
<1> QED
  BY <1>0, <1>2, <1>3, <1>4, <1>5, <1>6, PayTail

\* The steps that fill in the inode to be written.
LEMMA SetOutCost ==
    ASSUME TypeInv, BlockInv, NamesInv, TreeInv, CostInv, Single, EntriesLast,
           NEW t \in Thread, NewInode(t) \/ LinkParent(t), loc[t].op \in MakeOps
    PROVE  CostInv'
<1>0. PICK s, r, l : s = todo[t] /\ r = Tail(s) /\ l = loc[t]
  OBVIOUS
<1>1. /\ Busy(t) /\ Head(s) \in {"new file", "new directory", "root", "link"}
      /\ l \in Local /\ DiskTypes /\ Program(s) /\ s # <<>> /\ ibitmap' = ibitmap
      /\ NameSoon(s, l) /\ DiskStep(t)
      /\ \E o : Continue(t, [l EXCEPT !.out = o])
  BY <1>0, HandlerAt, CostAt DEF NewInode, LinkParent, At, TypeInv, disk, DiskStep
<1>2. r # <<>>
  BY <1>0, <1>1, MakeSteps
<1>3. PICK o : Continue(t, [l EXCEPT !.out = o])
  BY <1>1
<1>4. PICK m : m = [l EXCEPT !.out = o]
  OBVIOUS
<1>5. m.op = l.op /\ m.ino = l.ino /\ Continue(t, m)
  BY <1>1, <1>3, <1>4 DEF Local
<1>6. /\ Head(s) \notin {"take ino", "add", "read dbitmap", "take block", "new block"}
      /\ Head(s) \notin WriteiSteps
  BY <1>1 DEF WriteiSteps
<1>7. Plenty => NameSoon(r, m)'
  BY <1>0, <1>1, <1>5, <1>6, NameTail
<1>8. DiskStep(t) /\ ibitmap' = ibitmap
  BY <1>1
<1> QED
  BY <1>0, <1>2, <1>5, <1>7, <1>8, PayTail

LEMMA EntryIs == \A e \in Entry : IsEntry(e)
  BY CellAssumption DEF IsEntry

\* What a name in a block of a directory is.
LEMMA EntryPlaced ==
    ASSUME NEW b \in DataBlock, NEW e \in Entry, e.name \in Names,
           NEW o, NEW k \in Ptr, o.ptr[k] = b, NEW c \in Cell, BioRead(b)'[c] = e
    PROVE  <<k, c>> \in NamesIn(o)' /\ EntryAt(o, <<k, c>>)' = e
<1>1. EntryAt(o, <<k, c>>)' = e
  BY DEF EntryAt
<1>2. b # INVALID /\ IsEntry(e)
  BY EntryIs, SizesOfTypes
<1> QED
  BY <1>1, <1>2 DEF NamesIn, EntriesAt

LEMMA NewBlockCost ==
    ASSUME TypeInv, BlockInv, NamesInv, TreeInv, CostInv, Single, EntriesLast,
           NEW t \in Thread, NewBlock(t), loc[t].op \in MakeOps
    PROVE  CostInv'
<1>0. PICK s, r, l : s = todo[t] /\ r = Tail(s) /\ l = loc[t]
  OBVIOUS
<1>1. \E k, o, m : NewOut(t, k, o, m)
  BY NewBlockOut
<1>2. PICK k, o, m : NewOut(t, k, o, m)
  BY <1>1
<1>3. /\ Busy(t) /\ Head(s) = "new block" /\ l \in Local /\ k \in Ptr /\ l.dir \in Inode
      /\ l.blk = NoBlock \/ Taken(l.blk)
      /\ o.ptr = [l.dir.ptr EXCEPT ![k] = l.blk] /\ o.type = l.dir.type
      /\ m.out = o /\ m.op = l.op /\ m.ino = l.ino
      /\ Continue(t, m) /\ ibitmap' = ibitmap
      /\ BioWrite(l.blk, [Zeroed EXCEPT ![0] = l.entry])
      /\ Program(s) /\ s # <<>> /\ Range(s) = {Head(s)} \cup Range(r)
      /\ r # <<>> => Follows(Head(s), Head(r))
      /\ NameSoon(s, l) /\ DiskTypes /\ DiskStep(t)
  BY <1>0, <1>2, HandlerAt, CostAt DEF NewOut, TypeInv, DiskStep
<1>4. r # <<>>
  BY <1>0, <1>3, MakeSteps
<1>5. o.ptr[k] = l.blk /\ l.entry \in Entry
  BY <1>3 DEF Inode, Local
<1>6. ASSUME Plenty PROVE NameSoon(r, m)'
  <2>1. Head(r) \in WriteiSteps
    BY <1>3, <1>4 DEF Follows, WriteiSteps
  <2> SUFFICES ASSUME m.op \in MakeOps, {"take ino", "add"} \cap Range(r) = {}
               PROVE  \/ HasName(m.ino)'
                      \/ /\ o.type = "directory"
                         /\ \/ \E a \in NamesIn(o)' : EntryAt(o, a)'.ino = m.ino
                            \/ \E j \in Ptr : o.ptr[j] = NoBlock
    BY <1>3, <2>1 DEF NameSoon
  <2>2. {"take ino", "add"} \cap Range(s) = {} /\ Head(s) \notin WriteiSteps
    BY <1>3 DEF WriteiSteps
  <2>3. \/ HasName(l.ino)
        \/ l.dir.type = "directory" /\ l.entry.name \in Names /\ l.entry.ino = l.ino
    BY <1>3, <1>6, <2>2 DEF NameSoon
  <2>4. HasName(l.ino) => HasName(l.ino)'
    BY <1>3, <1>6, LostShrinks
  <2>5. CASE l.blk = NoBlock
    BY <1>3, <1>5, <2>3, <2>4, <2>5
  <2>6. CASE Taken(l.blk) /\ l.entry.name \in Names /\ l.entry.ino = l.ino
    <3>1. <<k, 0>> \in NamesIn(o)' /\ EntryAt(o, <<k, 0>>)' = l.entry
      <4>1. l.blk \in DataBlock
        BY <2>6 DEF Taken
      <4>2. 0 \in Cell /\ Zeroed \in [Cell -> CellValue]
        BY ONLY SizesOfTypes, ZeroedTyped
      <4>3. PICK b, e : b = l.blk /\ e = l.entry
        OBVIOUS
      <4>4. BioWrite(b, [Zeroed EXCEPT ![0] = e]) /\ DiskTypes /\ k \in Ptr
        BY <1>3, <4>3
      <4>5. e \in Entry /\ e.name \in Names /\ o.ptr[k] = b /\ b \in DataBlock
        BY <1>5, <2>6, <4>1, <4>3
      <4>6. BioRead(b)'[0] = e
        <5>1. BioRead(b)' = [Zeroed EXCEPT ![0] = e]
          BY ONLY <4>4, <4>5, BlockWritten
        <5> QED
          BY ONLY <4>2, <5>1
      <4>7. <<k, 0>> \in NamesIn(o)' /\ EntryAt(o, <<k, 0>>)' = e
        BY ONLY <4>2, <4>4, <4>5, <4>6, EntryPlaced
      <4> QED
        BY <4>3, <4>7
    <3> QED
      BY <1>3, <2>3, <2>4, <2>6, <3>1
  <2> QED
    BY <1>3, <2>3, <2>4, <2>5, <2>6
<1>7. DiskStep(t) /\ ibitmap' = ibitmap
  BY <1>3
<1> QED
  BY <1>0, <1>3, <1>4, <1>6, <1>7, PayTail

LEMMA TakeInoCost ==
    ASSUME TypeInv, BlockInv, NamesInv, TreeInv, CostInv, Single, EntriesLast,
           NEW t \in Thread, TakeIno(t), loc[t].op \in MakeOps
    PROVE  CostInv'
<1>0. PICK s, r, l, i : /\ s = todo[t] /\ r = Tail(s) /\ l = loc[t]
                        /\ i = LowestClear(l.bits, MaxInum, NoIno)
  OBVIOUS
<1>1. PICK m : m = [l EXCEPT !.ino = i]
  OBVIOUS
<1>2. /\ Busy(t) /\ Head(s) = "take ino" /\ HandlerTypes /\ DiskTypes /\ l \in Local
      /\ Go(t, r, m) /\ UNCHANGED <<inodes, data, crashes>>
      /\ ibitmap' = IF i = NoIno THEN ibitmap ELSE l.bits \cup {i}
      /\ Program(s) /\ s # <<>> /\ BitsNames(s, l)
      /\ Range(s) = {Head(s)} \cup Range(r)
      /\ \A x \in Range(r) : Before(Head(s), x)
      /\ r # <<>> => Follows(Head(s), Head(r)) /\ Head(r) \in Range(r)
  BY <1>0, <1>1, HandlerAt, NamesWhere DEF TakeIno, At, TypeInv, Continue
<1>3. l.bits = ibitmap
  BY <1>2 DEF BitsNames
<1>4. m.op = l.op /\ m.ino = i
  BY <1>1, <1>2 DEF Local
<1>5. r # <<>>
  BY <1>0, <1>2, MakeSteps
<1>6. "take ino" \notin Range(r)
  <2>1. ~Before("take ino", "take ino")
    BY DEF Before, Past
  <2> QED
    BY ONLY <1>2, <2>1
<1>7. "add" \in Range(r)
  <2>1. Head(r) \in {"add", "root"}
    BY <1>2, <1>5 DEF Follows
  <2>2. Head(r) \in StepsOf(l.op)
    <3>1. CallInv(s, l)
      BY <1>0, <1>2, BlockAt DEF HandlerInv
    <3>2. Range(r) \subseteq StepsOf(l.op)
      BY <1>0, <1>2, <3>1, CallTail
    <3> QED
      BY <1>2, <1>5, <3>2
  <2>3. "root" \notin StepsOf(l.op)
    BY <1>0 DEF MakeOps, StepsOf, CreateSteps, MkdirSteps, NewBlockSteps
  <2> QED
    BY <1>2, <1>5, <2>1, <2>2, <2>3
<1>8. NameSoon(r, m)'
  BY <1>7 DEF NameSoon
<1>9. Owed(s, l) = {} /\ Owed(r, m) = {i}
  BY <1>0, <1>2, <1>4, <1>6 DEF Owed
<1>10. Lost' \ {i} \subseteq Lost \ {}
  <2>1. ibitmap' \subseteq ibitmap \cup {i}
    BY <1>2, <1>3
  <2>2. NamesAt' = NamesAt /\ \A x : Named(x)' = Named(x)
    BY <1>2, NamesStay
  <2> QED
    BY <1>2, <2>1, <2>2 DEF Lost
<1>11. Plenty' => Plenty
  <2>1. Root \in Slot
    BY ONLY SizesOfTypes
  <2>2. Plenty' => Root \in Live
    BY <1>2, <2>1 DEF Plenty, Live
  <2> QED
    BY <2>2, PlentyStays
<1>12. Plenty' => Cardinality(Lost' \ {i}) <= crashes'
  <2>1. /\ crashes \in Nat /\ IsFiniteSet(Lost)
        /\ Plenty => Cardinality(Lost \ Owed(s, l)) <= crashes
    BY <1>0, <1>2, CostAt
  <2>2. IsFiniteSet(Lost \ {})
    BY <2>1, FS_Subset
  <2>3. crashes' = crashes
    BY <1>2
  <2>4. Plenty' => Cardinality(Lost \ {}) <= crashes
    BY <1>9, <1>11, <2>1
  <2> QED
    BY ONLY <1>10, <2>1, <2>2, <2>3, <2>4, Fewer
<1> QED
  BY <1>2, <1>5, <1>8, <1>9, <1>12, CostGo

LEMMA WriteInodesCost ==
    ASSUME TypeInv, BlockInv, NamesInv, TreeInv, CostInv, Single, EntriesLast, Sheltered,
           NEW t \in Thread, WriteInodes(t), loc[t].op \in MakeOps
    PROVE  CostInv'
<1>0. PICK s, r, l, i : s = todo[t] /\ r = Tail(s) /\ l = loc[t] /\ i = l.out.ino
  OBVIOUS
<1>1. /\ Busy(t) /\ Head(s) = "write inodes" /\ DiskTypes /\ l.op \in MakeOps
      /\ Program(s) /\ s # <<>> /\ Go(t, r, l)
      /\ UNCHANGED <<data, ibitmap, crashes>>
      /\ Range(s) = {Head(s)} \cup Range(r)
      /\ InoInv(s, l) /\ NameSoon(s, l) /\ DiskStep(t)
  BY <1>0, HandlerAt, TreeAt, CostAt, ShelteredWrite
     DEF WriteInodes, At, TypeInv, Continue, DiskStep
<1>2. /\ i \in Slot /\ inodes'[i] = l.out
      /\ "root" \in Range(s) => l.op = "mkfs"
      /\ "root" \notin Range(s) => Live' = Live \cup {i} /\ l.out.valid
  BY <1>0, WriteInodesLive
<1>3. Live' = Live \cup {i} /\ l.out.valid
  BY <1>1, <1>2 DEF MakeOps
<1>4. Root \in Live' => Root \in Live
  BY <1>0, <1>1, RootStays DEF MakeOps
<1>5. Plenty' => Plenty
  <2>1. Root \in Slot
    BY ONLY SizesOfTypes
  <2>2. Plenty' => Root \in Live'
    BY <2>1 DEF Plenty, Live
  <2> QED
    BY <1>4, <2>2, PlentyStays
<1>6. ASSUME Plenty', {"take ino", "add"} \cap Range(s) = {} PROVE HasName(l.ino)'
  <2>1. \/ HasName(l.ino)
        \/ /\ l.out.type = "directory"
           /\ \/ \E a \in NamesIn(l.out) : EntryAt(l.out, a).ino = l.ino
              \/ \E k \in Ptr : l.out.ptr[k] = NoBlock
    BY <1>1, <1>5, <1>6 DEF NameSoon
  <2>2. CASE HasName(l.ino)
    BY <1>1, <1>5, <1>6, <2>2, LostShrinks
  <2>3. CASE l.out.type = "directory" /\ \E k \in Ptr : l.out.ptr[k] = NoBlock
    BY <1>2, <1>3, <1>6, <2>3 DEF Plenty
  <2>4. ASSUME l.out.type = "directory", NEW a \in NamesIn(l.out),
               EntryAt(l.out, a).ino = l.ino
        PROVE  HasName(l.ino)'
    <3>1. \A n, b : EntryAt(n, b)' = EntryAt(n, b)
      BY <1>1 DEF EntryAt, BioRead
    <3>2. a \in NamesIn(l.out)'
      BY <3>1 DEF NamesIn, EntriesAt
    <3>3. <<i, a>> \in NamesAt'
      BY <1>2, <1>3, <2>4, <3>2 DEF NamesAt, NamesIn
    <3>4. Named(<<i, a>>)' = EntryAt(l.out, a)
      BY <1>2, <3>1 DEF Named
    <3> QED
      BY <2>4, <3>3, <3>4 DEF HasName
  <2> QED
    BY <2>1, <2>2, <2>3, <2>4
<1>7. ASSUME r # <<>>
      PROVE  Owed(s, l) \subseteq Owed(r, l) /\ NameSoon(r, l)'
  <2>1. \A x \in {"take ino", "add"} : x \in Range(r) <=> x \in Range(s)
    BY <1>1
  <2>2. Owed(s, l) \subseteq Owed(r, l)
    BY <2>1 DEF Owed
  <2>3. {"take ino", "add"} \cap Range(s) = {"take ino", "add"} \cap Range(r)
    BY <2>1
  <2>4. NameSoon(r, l)'
    BY <1>6, <2>3 DEF NameSoon
  <2> QED
    BY <2>2, <2>4
<1>8. ASSUME r = <<>>, Plenty' PROVE Owed(s, l) \cap Lost' = {}
  <2>1. Range(s) = {"write inodes"}
    BY <1>0, <1>1, <1>8, FinalTail
  <2>2. Owed(s, l) = {l.ino}
    BY <1>1, <2>1 DEF Owed
  <2>3. HasName(l.ino)'
    BY <1>6, <1>8, <2>1
  <2>4. l.ino \in Live'
    BY <1>0, <1>1, <1>3, <2>1 DEF InoInv, NewSteps
  <2>5. l.ino \notin Lost'
    BY <2>3, <2>4 DEF Lost, HasName, Live
  <2> QED
    BY <2>2, <2>5
<1> QED
  BY <1>0, <1>1, <1>4, <1>7, <1>8, PayGo

LEMMA AddsCost ==
    ASSUME TypeInv, BlockInv, NamesInv, TreeInv, CostInv, Single, EntriesLast,
           NEW t \in Thread, AddName(t) \/ AddDot(t) \/ AddDotdot(t), loc[t].op \in MakeOps
    PROVE  CostInv'
<1>0. PICK s, r, l : s = todo[t] /\ r = Tail(s) /\ l = loc[t]
  OBVIOUS
<1>1. /\ Busy(t) /\ Head(s) \in {"add", "add dot", "add dotdot"} /\ HandlerTypes
      /\ DiskTypes /\ DiskInv /\ crashes' = crashes /\ l.op \in MakeOps
  BY <1>0, AddCalls, OpKept DEF TypeInv, BlockInv, DiskStep
<1>2. PICK dir, name, ino :
         /\ AddEntry(t, dir, name, ino) /\ dir \in Inode
         /\ [name |-> name, ino |-> ino] \in Entry
         /\ dir.valid => dir.ino \in Live /\ inodes[dir.ino] = dir
         /\ Head(s) = "add" => dir = l.node /\ name \in Names /\ ino = l.ino
  BY <1>0, AddCalls
<1>3. /\ UNCHANGED <<ibitmap, inodes>>
      /\ \E m : m.dir = dir /\ m.entry = [name |-> name, ino |-> ino] /\ Added(t, m)
  <2>1. Busy(t) /\ HandlerTypes /\ AddEntry(t, dir, name, ino)
    BY <1>1, <1>2
  <2> QED
    BY <2>1, AddMoves
<1>4. PICK m, q : /\ q = GetAvailBlkno \o <<"new block">> \o Writei \o r
                  /\ m.dir = dir /\ m.entry = [name |-> name, ino |-> ino] /\ Added(t, m)
  BY <1>3
<1>5. m.op = l.op /\ m.ino = l.ino
  BY <1>0, <1>4 DEF Added
<1>6. m.entry \in Entry /\ m.entry.name = name /\ m.entry.ino = ino
  <2>1. m.entry = [name |-> name, ino |-> ino] /\ [name |-> name, ino |-> ino] \in Entry
    BY <1>2, <1>4
  <2> QED
    BY ONLY <2>1
<1>7. Head(s) = "add" => name \in Names /\ ino = l.ino
  BY <1>2
<1>8. /\ Program(s) /\ s # <<>> /\ NameSoon(s, l) /\ ParentInv(s, l)
      /\ Range(s) = {Head(s)} \cup Range(r) /\ \A x \in Range(r) : Before(Head(s), x)
  BY <1>0, <1>1, HandlerAt, TreeAt, CostAt
<1>9. /\ "take ino" \notin Range(s) /\ "take ino" \notin Range(r)
      /\ Head(s) # "add" => "add" \notin Range(s)
  <2>1. ~Before(Head(s), "take ino") /\ ~Before(Head(s), "add")
    BY <1>1 DEF Before, Past
  <2> QED
    BY ONLY <1>1, <1>8, <2>1
<1>10. Root \in Live' => Root \in Live
  BY <1>3 DEF Live
<1>11. ASSUME Plenty' PROVE Plenty /\ Root \in Live
  <2>1. Root \in Slot
    BY ONLY SizesOfTypes
  <2>2. Root \in Live'
    BY <1>11, <2>1 DEF Plenty, Live
  <2> QED
    BY <1>10, <1>11, <2>2, PlentyStays
<1>12. ASSUME Plenty', Head(s) = "add"
       PROVE  /\ dir.valid /\ dir.type = "directory" /\ Room(dir) # {}
              /\ \A k \in Ptr : dir.ptr[k] # NoBlock
  <2>1. dir.valid /\ dir.type = "directory"
    BY <1>1, <1>2, <1>8, <1>11, <1>12 DEF ParentInv
  <2>2. dir.ino \in Slot /\ inodes[dir.ino] = dir
    BY <1>2, <2>1 DEF Live
  <2> QED
    BY <1>11, <1>12, <2>1, <2>2 DEF Plenty
<1>13. ASSUME Plenty, Head(s) # "add" PROVE HasName(l.ino)'
  <2>1. HasName(l.ino)
    <3>1. {"take ino", "add"} \cap Range(s) = {}
      BY <1>9, <1>13
    <3>2. /\ Head(s) \notin {"read dbitmap", "take block", "new block"}
          /\ Head(s) \notin WriteiSteps
      BY <1>1 DEF WriteiSteps
    <3> QED
      BY <1>1, <1>8, <1>13, <3>1, <3>2 DEF NameSoon
  <2> QED
    BY <1>1, <1>13, <2>1, LostShrinks
<1>14. \/ /\ Return(t) /\ Head(s) = "add" /\ (~dir.valid \/ Room(dir) = {})
       \/ Go(t, r, m) /\ Head(s) # "add"
       \/ Go(t, q, m)
       \/ /\ Go(t, r, m)
          /\ \E k \in Ptr, c \in Cell :
                /\ dir.ptr[k] # INVALID
                /\ BioWrite(dir.ptr[k], [BioRead(dir.ptr[k]) EXCEPT ![c] = m.entry])
  BY <1>0, <1>4 DEF Added
<1>15. ASSUME Go(t, r, m), Plenty => NameSoon(r, m)' PROVE CostInv'
  <2>1. r # <<>>
    BY <1>0, <1>1, MakeSteps
  <2>2. Continue(t, m) /\ DiskStep(t) /\ ibitmap' = ibitmap
    BY <1>0, <1>3, <1>15 DEF Continue, DiskStep
  <2> QED
    BY <1>0, <1>5, <1>15, <2>1, <2>2, PayTail
<1>16. CASE Return(t) /\ Head(s) = "add" /\ (~dir.valid \/ Room(dir) = {})
  <2>1. ~Plenty'
    BY <1>12, <1>16
  <2>2. Go(t, <<>>, Rest) /\ UNCHANGED <<ibitmap, crashes>>
    BY <1>1, <1>3, <1>16 DEF Return
  <2> QED
    BY <1>1, <1>10, <2>1, <2>2, PayGo
<1>17. CASE Go(t, r, m) /\ Head(s) # "add"
  <2>1. Plenty => NameSoon(r, m)'
    BY <1>5, <1>13, <1>17 DEF NameSoon
  <2> QED
    BY <1>15, <1>17, <2>1
<1>18. CASE Go(t, q, m)
  <2>1. q # <<>> /\ Head(q) = "read dbitmap" /\ Range(q) = NewBlockSteps \cup Range(r)
    BY <1>0, <1>1, <1>4, AddSteps
  <2>2. "take ino" \notin Range(q)
    BY <1>9, <2>1 DEF NewBlockSteps
  <2>3. Owed(s, l) \subseteq Owed(q, m)
    BY <1>5, <2>2 DEF Owed
  <2>4. CASE Head(s) # "add"
    <3>1. Plenty => NameSoon(q, m)'
      BY <1>5, <1>13, <2>4 DEF NameSoon
    <3>2. UNCHANGED <<ibitmap, crashes>> /\ q # <<>>
      BY <1>1, <1>3, <2>1
    <3> QED
      BY <1>0, <1>1, <1>10, <1>18, <2>3, <3>1, <3>2, PayGo
  <2>5. CASE Head(s) = "add"
    <3>1. m.entry.name \in Names /\ m.entry.ino = m.ino
      BY <1>5, <1>6, <1>7, <2>5
    <3>2. Plenty' => m.dir.type = "directory"
      BY <1>4, <1>12, <2>5
    <3>3. NameSoon(q, m)'
      BY <2>1, <3>1, <3>2 DEF NameSoon
    <3>4. UNCHANGED <<ibitmap, crashes>> /\ q # <<>>
      BY <1>1, <1>3, <2>1
    <3> QED
      BY <1>0, <1>1, <1>10, <1>18, <2>3, <3>3, <3>4, PayGo
  <2> QED
    BY <2>4, <2>5
<1>19. ASSUME Head(s) = "add", NEW k \in Ptr, NEW c \in Cell, dir.ptr[k] # INVALID,
              BioWrite(dir.ptr[k], [BioRead(dir.ptr[k]) EXCEPT ![c] = m.entry]), Plenty'
       PROVE  HasName(l.ino)'
  <2>1. PICK b, e : b = dir.ptr[k] /\ e = m.entry
    OBVIOUS
  <2>2. /\ dir.valid /\ dir.type = "directory" /\ b # NoBlock
        /\ dir.ino \in Live /\ inodes[dir.ino] = dir
    BY <1>2, <1>12, <1>19, <2>1
  <2>3. b \in DataBlock
    <3>1. b \in Uses(dir)
      BY <1>19, <2>1, <2>2 DEF Uses
    <3> QED
      BY <1>1, <2>2, <3>1 DEF DiskInv, Own
  <2>4. e \in Entry /\ e.name \in Names /\ e.ino = l.ino
    BY <1>19, <1>6, <1>7, <2>1
  <2>5. BioRead(b)'[c] = e
    <3>1. BioRead(b) \in [Cell -> CellValue]
      BY <1>1, BioReadTyped
    <3>2. BioWrite(b, [BioRead(b) EXCEPT ![c] = e])
      BY <1>19, <2>1
    <3>3. BioRead(b)' = [BioRead(b) EXCEPT ![c] = e]
      BY <1>1, <2>3, <3>2, BlockWritten
    <3> QED
      BY <1>19, <3>1, <3>3
  <2>6. <<k, c>> \in NamesIn(dir)' /\ EntryAt(dir, <<k, c>>)' = e
    BY <1>19, <2>1, <2>3, <2>4, <2>5, EntryPlaced
  <2>7. <<dir.ino, <<k, c>>>> \in NamesAt' /\ Named(<<dir.ino, <<k, c>>>>)' = e
    <3>1. /\ dir.ino \in Slot /\ inodes'[dir.ino] = dir
      BY <1>3, <2>2 DEF Live
    <3> QED
      BY <2>2, <2>6, <3>1 DEF NamesAt, NamesIn, Named
  <2> QED
    BY <2>4, <2>7 DEF HasName
<1>20. CASE /\ Go(t, r, m) /\ Head(s) = "add"
            /\ \E k \in Ptr, c \in Cell :
                  /\ dir.ptr[k] # INVALID
                  /\ BioWrite(dir.ptr[k], [BioRead(dir.ptr[k]) EXCEPT ![c] = m.entry])
  <2>1. Plenty' => HasName(l.ino)'
    BY <1>19, <1>20
  <2>2. Plenty => NameSoon(r, m)'
    BY <1>5, <2>1 DEF NameSoon
  <2> QED
    BY <1>15, <1>20, <2>2
<1> QED
  BY <1>14, <1>16, <1>17, <1>18, <1>20

LEMMA LostOne ==
    ASSUME NEW S, IsFiniteSet(S), NEW s, NEW l
    PROVE  /\ Cardinality(S) <= Cardinality(S \ Owed(s, l)) + 1
           /\ Cardinality(S) \in Nat /\ Cardinality(S \ Owed(s, l)) \in Nat
<1>1. IsFiniteSet(S \ Owed(s, l))
  BY FS_Subset
<1>2. Cardinality(S) \in Nat /\ Cardinality(S \ Owed(s, l)) \in Nat
  BY <1>1, FS_CardinalityType
<1>3. PICK x : S = S \ Owed(s, l) \/ S = (S \ Owed(s, l)) \cup {x}
  BY DEF Owed
<1>4. CASE S = S \ Owed(s, l)
  BY <1>2, <1>4
<1>5. CASE S = (S \ Owed(s, l)) \cup {x}
  <2>1. PICK T : T = S \ Owed(s, l)
    OBVIOUS
  <2>2. Cardinality(T \cup {x}) \in {Cardinality(T), Cardinality(T) + 1}
    BY <1>1, <2>1, FS_AddElement
  <2> QED
    BY <1>2, <1>5, <2>1, <2>2
<1> QED
  BY <1>2, <1>3, <1>4, <1>5

\* A step that leaves the disk alone.
LEMMA SameLost ==
    ASSUME DiskTypes, UNCHANGED <<inodes, data, ibitmap>>
    PROVE  /\ Plenty' => Plenty /\ Lost' \subseteq Lost
           /\ \A s, l : Plenty /\ NameSoon(s, l) => NameSoon(s, l)'
<1>1. EntriesLast
  BY StillLast
<1>2. Plenty' => Plenty
  <2>1. Root \in Slot
    BY ONLY SizesOfTypes
  <2>2. Plenty' => Root \in Live
    BY <2>1 DEF Plenty, Live
  <2> QED
    BY <1>1, <2>2, PlentyStays
<1>3. Plenty => Lost' \subseteq Lost /\ \A i : HasName(i) => HasName(i)'
  BY <1>1, LostShrinks
<1>4. /\ \A n : NamesIn(n)' = NamesIn(n)
      /\ \A n, a : EntryAt(n, a)' = EntryAt(n, a)
  BY NamesStay
<1>5. ASSUME NEW s, NEW l, Plenty, NameSoon(s, l) PROVE NameSoon(s, l)'
  BY <1>3, <1>4, <1>5 DEF NameSoon
<1> QED
  BY <1>2, <1>3, <1>5

LEMMA RestCost ==
    ASSUME TypeInv, CostInv, \A t \in Thread : todo[t] = <<>>,
           UNCHANGED <<inodes, data, ibitmap, crashes>>
    PROVE  Plenty' => Cardinality(Lost') <= crashes'
<1>1. Plenty => Cardinality(Lost) <= crashes
  BY DEF CostInv
<1>2. /\ DiskTypes /\ crashes' = crashes /\ crashes \in Nat /\ IsFiniteSet(Lost)
  BY LostFinite, Sizes DEF TypeInv, DiskTypes
<1>3. Plenty' => Plenty /\ Lost' \subseteq Lost
  BY <1>2, SameLost
<1> QED
  BY <1>1, <1>2, <1>3, Fewer

LEMMA StillCost ==
    ASSUME TypeInv, CostInv, Single, UNCHANGED <<disk, todo, loc, crashes>>
    PROVE  CostInv'
<1>1. UNCHANGED <<todo, loc, inodes, data, ibitmap, crashes>> /\ DiskTypes /\ HandlerTypes
  BY DEF disk, TypeInv
<1>2. CASE \E t \in Thread : todo[t] # <<>>
  <2>1. PICK t \in Thread : todo[t] # <<>>
    BY <1>2
  <2>2. PICK q, m : q = todo[t] /\ m = loc[t]
    OBVIOUS
  <2>3. /\ NameSoon(q, m) /\ crashes \in Nat /\ IsFiniteSet(Lost)
        /\ Plenty => Cardinality(Lost \ Owed(q, m)) <= crashes
    BY <2>1, <2>2, CostAt DEF Busy
  <2>4. Go(t, q, m) /\ q # <<>>
    BY <1>1, <2>1, <2>2 DEF Go, HandlerTypes
  <2>5. /\ Plenty' => Plenty /\ Lost' \subseteq Lost
        /\ Plenty => NameSoon(q, m)'
    BY <1>1, <2>3, SameLost
  <2>6. NameSoon(q, m)'
    BY <2>5 DEF NameSoon
  <2>7. ASSUME Plenty' PROVE Cardinality(Lost' \ Owed(q, m)) <= crashes'
    <3>1. Lost' \ Owed(q, m) \subseteq Lost \ Owed(q, m)
      BY <2>5, <2>7
    <3>2. IsFiniteSet(Lost \ Owed(q, m)) /\ Cardinality(Lost \ Owed(q, m)) <= crashes
      BY <2>3, <2>5, <2>7, FS_Subset
    <3>3. crashes' = crashes
      BY <1>1
    <3> QED
      BY <2>3, <3>1, <3>2, <3>3, Fewer
  <2> QED
    BY <1>1, <2>4, <2>6, <2>7, CostGo
<1>3. CASE \A t \in Thread : todo[t] = <<>>
  <2>1. Plenty' => Cardinality(Lost') <= crashes'
    BY <1>1, <1>3, RestCost
  <2> QED
    BY <1>1, <1>3, <2>1 DEF CostInv
<1> QED
  BY <1>2, <1>3

LEMMA CallCost ==
    ASSUME TypeInv, BlockInv, CostInv, Single, NEW t \in Thread, CallStep(t)
    PROVE  CostInv'
<1>0. HandlerTypes /\ DiskTypes
  BY DEF TypeInv
<1>1. CASE Mount(t)
  <2>1. CASE found
    BY <1>1, <2>1, StillCost DEF Mount
  <2>2. CASE ~found
    <3>0. PICK q, m : q = Mkfs /\ m = [Rest EXCEPT !.op = "mkfs", !.ino = 1]
      OBVIOUS
    <3>1. Go(t, q, m) /\ inodes' = inodes
      BY <1>1, <2>2, <3>0 DEF Mount, disk
    <3>2. m.op \notin MakeOps
      BY <3>0 DEF Rest, MakeOps
    <3>3. ~Plenty'
      <4>1. Live = {}
        BY <2>2 DEF BlockInv, DiskInv, Formatted
      <4>2. Root \in Slot
        BY ONLY SizesOfTypes
      <4> QED
        BY <3>1, <4>1, <4>2 DEF Plenty, Live
    <3> QED
      BY <1>0, <3>1, <3>2, <3>3, CostOther
  <2> QED
    BY <2>1, <2>2
<1>2. ASSUME NEW op \in {"create", "mkdir"}, NEW path \in Paths, CallNew(t, op, path)
      PROVE  CostInv'
  <2>0. PICK q, m : /\ q = IF op = "create" THEN Create ELSE Mkdir
                    /\ m = [Rest EXCEPT !.op = op, !.path = path]
    OBVIOUS
  <2>1. /\ Go(t, q, m) /\ UNCHANGED <<inodes, data, ibitmap, crashes>>
        /\ \A u \in Thread : todo[u] = <<>>
    BY <1>2, <2>0 DEF CallNew, disk, Ready, Busy, Single
  <2>2. /\ q # <<>> /\ Range(q) = IF op = "create" THEN CreateSteps ELSE MkdirSteps
    BY <2>0, CreateFits, MkdirFits DEF Fits
  <2>3. "take ino" \in Range(q)
    BY <2>2 DEF CreateSteps, MkdirSteps
  <2>4. NameSoon(q, m)' /\ Owed(q, m) = {}
    BY <2>3 DEF NameSoon, Owed
  <2>5. Plenty' => Cardinality(Lost') <= crashes'
    BY <2>1, RestCost
  <2>6. Lost' \ (IF q = <<>> THEN {} ELSE Owed(q, m)) = Lost'
    BY <2>4
  <2> QED
    BY <1>0, <2>1, <2>4, <2>5, <2>6, CostGo
<1>3. ASSUME NEW op \in {"read", "write"}, NEW path \in Paths, NEW at, NEW v,
             CallTransfer(t, op, path, at, v)
      PROVE  CostInv'
  <2>0. PICK q, m : /\ q = <<"lookup", op>>
                    /\ m = [Rest EXCEPT !.op = op, !.path = path, !.off = at[1],
                                        !.len = at[2], !.val = v]
    OBVIOUS
  <2>1. /\ Go(t, q, m) /\ UNCHANGED <<inodes, data, ibitmap, crashes>>
        /\ \A u \in Thread : todo[u] = <<>>
    BY <1>3, <2>0 DEF CallTransfer, disk, Ready, Busy, Single
  <2>2. m.op \notin MakeOps
    BY <2>0 DEF Rest, MakeOps
  <2>3. Plenty' => Cardinality(Lost') <= crashes'
    BY <2>1, RestCost
  <2> QED
    BY <1>0, <2>1, <2>2, <2>3, CostOther
<1> QED
  BY <1>1, <1>2, <1>3 DEF CallStep, Paths

LEMMA CrashKeepsCost ==
    ASSUME TypeInv, CostInv, Crash
    PROVE  CostInv'
<1>1. /\ UNCHANGED <<inodes, data, ibitmap>> /\ crashes' = crashes + 1
      /\ DiskTypes /\ crashes \in Nat /\ IsFiniteSet(Lost)
      /\ \A t \in Thread : todo'[t] = <<>>
  BY LostFinite, Sizes DEF Crash, disk, TypeInv, DiskTypes
<1>2. PICK t \in Thread : Busy(t)
  BY DEF Crash
<1>3. PICK s, l : s = todo[t] /\ l = loc[t]
  OBVIOUS
<1>4. Plenty => Cardinality(Lost \ Owed(s, l)) <= crashes
  BY <1>2, <1>3, CostAt
<1>5. Plenty' => Plenty /\ Lost' \subseteq Lost
  BY <1>1, SameLost
<1>6. Plenty' => Cardinality(Lost) <= crashes + 1
  <2>1. /\ Cardinality(Lost) <= Cardinality(Lost \ Owed(s, l)) + 1
        /\ Cardinality(Lost) \in Nat /\ Cardinality(Lost \ Owed(s, l)) \in Nat
    BY <1>1, LostOne
  <2> QED
    BY <1>1, <1>4, <1>5, <2>1
<1>7. Plenty' => Cardinality(Lost') <= crashes'
  <2>1. crashes + 1 \in Nat
    BY <1>1
  <2>2. Plenty' => Cardinality(Lost') <= crashes + 1
    BY <1>1, <1>5, <1>6, <2>1, Fewer
  <2> QED
    BY <1>1, <2>2
<1> QED
  BY <1>1, <1>7 DEF CostInv

LEMMA CostInit == Init => CostInv
<1> SUFFICES ASSUME Init PROVE CostInv
  OBVIOUS
<1>1. Root \in Slot
  BY ONLY SizesOfTypes
<1>2. ~Plenty
  BY <1>1 DEF Init, Plenty, Blank
<1>3. \A t \in Thread : todo[t] = <<>>
  BY DEF Init
<1> QED
  BY <1>2, <1>3 DEF CostInv

LEMMA CostNext ==
    ASSUME Single
    PROVE  TypeInv /\ BlockInv /\ NamesInv /\ TreeInv /\ CostInv /\ Sheltered /\ [Next]_vars
              => CostInv'
<1> SUFFICES ASSUME TypeInv, BlockInv, NamesInv, TreeInv, CostInv, Sheltered, [Next]_vars
             PROVE  CostInv'
  OBVIOUS
<1>1. EntriesLast
  BY EntriesNext
<1>2. CASE UNCHANGED vars
  BY <1>2, StillCost DEF vars
<1>3. ASSUME NEW t \in Thread, DiskStep(t) PROVE CostInv'
  <2>1. Busy(t) /\ loc[t] \in Local
    BY <1>3, OpKept, HandlerAt DEF TypeInv
  <2>2. CASE loc[t].op = "mkfs"
    BY <1>3, <2>2, MkfsCost
  <2>3. CASE loc[t].op \in {"read", "write"}
    BY <1>1, <1>3, <2>3, TransferCost
  <2>4. CASE loc[t].op \in MakeOps
    <3>1. ~Format(t) /\ ~ClearInodes(t) /\ ~WriteBitmaps(t) /\ ~WriteLoop(t)
          /\ ~FillBlock(t) /\ ~ReadFile(t)
      <4>1. Head(todo[t]) \notin {"format", "clear inodes", "bitmaps", "write", "fill", "read"}
        BY <2>1, <2>4, MakeSteps
      <4> QED
        BY <4>1 DEF Format, ClearInodes, WriteBitmaps, WriteLoop, FillBlock, ReadFile, At
    <3> QED
      BY <1>1, <1>3, <2>4, <3>1, LookUpCost, BitmapCost, TakeInoCost, ReadInodesCost,
         WriteInodesCost, AddsCost, NewBlockCost, SetOutCost DEF DiskStep
  <2>5. loc[t].op # "none"
    <3>1. Head(todo[t]) \in StepsOf(loc[t].op)
      BY <2>1, HandlerAt, BlockAt, CallTail DEF HandlerInv, TypeInv
    <3> QED
      BY <3>1 DEF StepsOf
  <2> QED
    BY <2>1, <2>2, <2>3, <2>4, <2>5 DEF Local, MakeOps
<1>4. ASSUME NEW t \in Thread, CallStep(t) PROVE CostInv'
  BY <1>4, CallCost
<1>5. CASE Unmount
  BY <1>5, StillCost DEF Unmount
<1> QED
  BY <1>2, <1>3, <1>4, <1>5, CrashKeepsCost DEF Next

LEMMA CostInvariant ==
    ASSUME Single
    PROVE  Spec /\ []Sheltered => []CostInv
  BY TypeInvariant, BlockInvariant, NamesInvariant, TreeInvariant, CostInit, CostNext, PTL
     DEF Spec

\* As long as one handler runs at a time (FUSE with -s) and nothing was refused for want of
\* an inode, a block or a pointer, a crash costs at most one inode that is marked and has no
\* name, or has a name and was never written (get_avail_ino, dir_add, rufs_create,
\* rufs_mkdir).  Where inode 65535 lies in a data block, no call may have come to it.
THEOREM CrashCostCorrect ==
    ASSUME Single
    PROVE  Spec /\ []Sheltered => []CrashCost
<1>1. TypeInv /\ CostInv => CrashCost
  <2> SUFFICES ASSUME TypeInv, CostInv, Plenty
               PROVE  Cardinality(Lost) <= crashes + Cardinality({t \in Thread : Busy(t)})
    BY DEF CrashCost, Lost
  <2>1. crashes \in Nat /\ IsFiniteSet(Lost)
    BY LostFinite, Sizes DEF TypeInv, DiskTypes
  <2>2. CASE \A t \in Thread : ~Busy(t)
    <3>1. {t \in Thread : Busy(t)} = {}
      BY <2>2
    <3>2. Cardinality({}) = 0
      BY FS_EmptySet
    <3>3. Cardinality(Lost) <= crashes
      BY <2>2 DEF CostInv, Busy
    <3> QED
      BY <2>1, <3>1, <3>2, <3>3
  <2>3. CASE \E t \in Thread : Busy(t)
    <3>1. PICK t \in Thread : Busy(t)
      BY <2>3
    <3>2. {u \in Thread : Busy(u)} = {t}
      BY <3>1 DEF Single
    <3>3. Cardinality({t}) = 1
      BY FS_Singleton
    <3>4. PICK s, l : s = todo[t] /\ l = loc[t]
      OBVIOUS
    <3>5. Cardinality(Lost \ Owed(s, l)) <= crashes
      BY <3>1, <3>4, CostAt
    <3>6. /\ Cardinality(Lost) <= Cardinality(Lost \ Owed(s, l)) + 1
          /\ Cardinality(Lost) \in Nat /\ Cardinality(Lost \ Owed(s, l)) \in Nat
      BY <2>1, LostOne
    <3> QED
      BY <2>1, <3>2, <3>3, <3>5, <3>6
  <2> QED
    BY <2>2, <2>3
<1> QED
  BY <1>1, TypeInvariant, CostInvariant, PTL
=============================================================================
