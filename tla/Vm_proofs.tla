------------------------------ MODULE Vm_proofs ------------------------------
(***************************************************************************)
(* Theorems about Vm, for every number of threads, pages and cache         *)
(* entries, and for careful and careless clients.                          *)
(***************************************************************************)
EXTENDS Vm, Lemmas

-----------------------------------------------------------------------------
(* The translation cache: what its operators do, for every cache, every page *)
(* and every cell.                                                         *)

(* Every entry holds a page of P, with the cell the tables have for it; no  *)
(* page has two; and there are TlbEntries of them at most.                  *)
Coherent(list, P, table) ==
    /\ list \in Seq([page : P, cell : {table[p] : p \in P}])
    /\ Len(list) <= TlbEntries
    /\ \A i \in 1..Len(list) : list[i].cell = table[list[i].page]
    /\ \A i, j \in 1..Len(list) : list[i].page = list[j].page => i = j

\* search_and_remove finds the entry of a page, if there is one.
LEMMA PositionProperties ==
    ASSUME NEW S, NEW list \in Seq(S), NEW p
    PROVE  /\ PositionOf(list, p) \in 0..Len(list)
           /\ PositionOf(list, p) = 0 => \A i \in 1..Len(list) : list[i].page # p
           /\ PositionOf(list, p) # 0 => list[PositionOf(list, p)].page = p
<1> DEFINE I == {i \in 1..Len(list) : list[i].page = p}
<1>1. PositionOf(list, p) = IF I # {} THEN Min(I) ELSE 0
  BY DEF PositionOf, SelectInSeq
<1>2. Len(list) \in Nat /\ I \in SUBSET Nat
  OBVIOUS
<1>3. I # {} => Min(I) \in I
  BY <1>2, MinProperties
<1> QED
  BY <1>1, <1>2, <1>3

(* A page's entry is taken out of a cache, and no other.                    *)
LEMMA WithoutCoherent ==
    ASSUME NEW P, NEW table, NEW list, Coherent(list, P, table), NEW p
    PROVE  /\ Coherent(Without(list, p), P, table)
           /\ \A i \in 1..Len(Without(list, p)) : Without(list, p)[i].page # p
           /\ Len(Without(list, p)) <= Len(list)
           /\ PositionOf(list, p) # 0 => Len(Without(list, p)) = Len(list) - 1
<1> DEFINE S == [page : P, cell : {table[q] : q \in P}]
           n == PositionOf(list, p)
<1>0. list \in Seq(S)
  BY DEF Coherent
<1>1. /\ n \in 0..Len(list)
      /\ n = 0 => \A i \in 1..Len(list) : list[i].page # p
      /\ n # 0 => list[n].page = p
  BY <1>0, PositionProperties
<1> HIDE DEF n, S
<1>2. CASE n = 0
  BY <1>1, <1>2 DEF Without, n
<1>3. CASE n # 0
  <2> DEFINE rest == RemoveAt(list, n)
  <2>1. Without(list, p) = rest
    BY <1>3 DEF Without, n
  <2>2. /\ rest \in Seq(S) /\ Len(rest) = Len(list) - 1
        /\ \A i \in 1..(Len(list) - 1) : rest[i] = IF i < n THEN list[i] ELSE list[i + 1]
    BY <1>0, <1>1, <1>3, RemoveAtKeeps
  <2> HIDE DEF rest
  <2>3. Len(list) \in Nat /\ Len(list) <= TlbEntries
    BY <1>0 DEF Coherent
  <2>4. Len(rest) <= TlbEntries
    BY <2>2, <2>3, TlbAssumption
  <2> DEFINE was(i) == IF i < n THEN i ELSE i + 1
  <2>5. /\ \A i \in 1..Len(rest) : was(i) \in 1..Len(list) /\ was(i) # n /\ rest[i] = list[was(i)]
        /\ \A i, j \in 1..Len(rest) : was(i) = was(j) => i = j
    BY ONLY <1>1, <1>3, <2>2, <2>3
  <2> HIDE DEF was
  <2>6. /\ \A i \in 1..Len(list) : list[i].cell = table[list[i].page]
        /\ \A i, j \in 1..Len(list) : list[i].page = list[j].page => i = j
    BY DEF Coherent
  <2>7. ASSUME NEW i \in 1..Len(rest)
        PROVE  rest[i].cell = table[rest[i].page] /\ rest[i].page # p
    <3>1. was(i) \in 1..Len(list) /\ was(i) # n /\ rest[i] = list[was(i)]
      BY <2>5
    <3>2. list[was(i)].page # p
      BY <1>1, <1>3, <2>6, <3>1
    <3> QED
      BY <2>6, <3>1, <3>2
  <2>8. ASSUME NEW i \in 1..Len(rest), NEW j \in 1..Len(rest), rest[i].page = rest[j].page
        PROVE  i = j
    BY <2>5, <2>6, <2>8
  <2> QED
    BY <1>3, <2>1, <2>2, <2>3, <2>4, <2>7, <2>8 DEF Coherent, S, n
<1> QED
  BY <1>2, <1>3

(* Eviction makes room for one.                                             *)
LEMMA EvictedCoherent ==
    ASSUME NEW P, NEW table, NEW list, Coherent(list, P, table)
    PROVE  /\ Coherent(Evicted(list), P, table)
           /\ Len(Evicted(list)) < TlbEntries
           /\ \A p : PositionOf(list, p) = 0 =>
                 \A i \in 1..Len(Evicted(list)) : Evicted(list)[i].page # p
<1> DEFINE S == [page : P, cell : {table[q] : q \in P}]
<1>0. list \in Seq(S) /\ Len(list) \in Nat /\ Len(list) <= TlbEntries
  BY DEF Coherent
<1>1. \A p : PositionOf(list, p) = 0 => \A i \in 1..Len(list) : list[i].page # p
  BY <1>0, PositionProperties
<1> HIDE DEF S
<1>2. /\ Evicted(list) \in Seq(S)
      /\ Len(Evicted(list)) < TlbEntries /\ Len(Evicted(list)) <= Len(list)
      /\ \A i \in 1..Len(Evicted(list)) : Evicted(list)[i] = list[i]
  BY <1>0, TlbAssumption DEF Evicted, Front
<1> DEFINE rest == Evicted(list)
<1> HIDE DEF rest
<1>3. \A i \in 1..Len(rest) : i \in 1..Len(list) /\ rest[i] = list[i]
  BY <1>0, <1>2 DEF rest
<1>4. /\ \A i \in 1..Len(rest) : rest[i].cell = table[rest[i].page]
      /\ \A i, j \in 1..Len(rest) : rest[i].page = rest[j].page => i = j
  BY <1>3 DEF Coherent
<1>5. Len(rest) <= TlbEntries
  BY <1>0, <1>2, TlbAssumption DEF rest
<1>6. Coherent(rest, P, table)
  BY <1>2, <1>4, <1>5 DEF Coherent, S, rest
<1>7. ASSUME NEW p, PositionOf(list, p) = 0, NEW i \in 1..Len(rest)
      PROVE  rest[i].page # p
  BY <1>1, <1>3, <1>7
<1> QED
  BY <1>2, <1>6, <1>7 DEF rest

(* What a translation returns is what the tables say ...                    *)
LEMMA TranslationCoherent ==
    ASSUME NEW P, NEW table, NEW list, Coherent(list, P, table), NEW p \in P
    PROVE  Translation(list, p, table[p]) = table[p]
<1> DEFINE S == [page : P, cell : {table[q] : q \in P}]
           n == PositionOf(list, p)
<1>1. list \in Seq(S)
  BY DEF Coherent
<1>2. n \in 0..Len(list) /\ (n # 0 => list[n].page = p)
  BY <1>1, PositionProperties
<1>3. n # 0 => list[n].cell = table[p]
  BY <1>1, <1>2 DEF Coherent
<1> QED
  BY <1>3 DEF Translation

(* ... and the cache it leaves is coherent, with that page in front.        *)
LEMMA CachedCoherent ==
    ASSUME NEW P, NEW table, NEW list, Coherent(list, P, table), NEW p \in P
    PROVE  Coherent(Cached(list, p, table[p]), P, table)
<1> DEFINE S == [page : P, cell : {table[q] : q \in P}]
           entry == [page |-> p, cell |-> table[p]]
           rest == IF PositionOf(list, p) = 0 THEN Evicted(list) ELSE Without(list, p)
<1>1. Cached(list, p, table[p]) = <<entry>> \o rest
  BY TranslationCoherent DEF Cached
<1>2. /\ Coherent(rest, P, table) /\ Len(rest) < TlbEntries
      /\ \A i \in 1..Len(rest) : rest[i].page # p
  <2>1. CASE PositionOf(list, p) = 0
    BY <2>1, EvictedCoherent
  <2>2. CASE PositionOf(list, p) # 0
    <3>1. Len(list) \in Nat /\ Len(list) <= TlbEntries
      BY DEF Coherent
    <3> QED
      BY <2>2, <3>1, WithoutCoherent, TlbAssumption
  <2> QED
    BY <2>1, <2>2
<1>3. rest \in Seq(S) /\ entry \in S /\ Len(rest) \in Nat
  BY <1>2 DEF Coherent
<1> DEFINE new == <<entry>> \o rest
<1>4. /\ new \in Seq(S) /\ Len(new) = Len(rest) + 1 /\ new[1] = entry
      /\ \A i \in 2..Len(new) : new[i] = rest[i - 1]
  BY <1>3
<1> HIDE DEF rest, new, S
<1>5. \A i \in 2..Len(new) : i - 1 \in 1..Len(rest)
  BY <1>3, <1>4
<1>6. \A i \in 1..Len(new) : new[i].cell = table[new[i].page]
  <2>1. new[1].cell = table[new[1].page]
    BY <1>4
  <2>2. \A i \in 2..Len(new) : new[i].cell = table[new[i].page]
    BY <1>2, <1>4, <1>5 DEF Coherent
  <2>3. \A i \in 1..Len(new) : i = 1 \/ i \in 2..Len(new)
    BY <1>3, <1>4
  <2> QED
    BY <2>1, <2>2, <2>3
<1>7. ASSUME NEW i \in 1..Len(new), NEW j \in 1..Len(new), new[i].page = new[j].page
      PROVE  i = j
  <2>1. \A k \in 2..Len(new) : new[k].page # p
    BY <1>2, <1>4, <1>5
  <2>2. CASE i = 1 \/ j = 1
    BY <1>3, <1>4, <1>7, <2>1, <2>2
  <2>3. CASE i # 1 /\ j # 1
    <3>1. i \in 2..Len(new) /\ j \in 2..Len(new)
      BY <1>3, <1>4, <2>3
    <3>2. rest[i - 1].page = rest[j - 1].page
      BY <1>4, <1>7, <3>1
    <3>3. i - 1 = j - 1
      BY <1>2, <1>5, <3>1, <3>2 DEF Coherent
    <3> QED
      BY <3>1, <3>3
  <2> QED
    BY <2>2, <2>3
<1>8. Len(new) <= TlbEntries
  BY <1>2, <1>3, <1>4, TlbAssumption
<1> QED
  BY <1>1, <1>4, <1>6, <1>7, <1>8 DEF Coherent, S, new

-----------------------------------------------------------------------------
(* The invariant.                                                          *)

Point == {"idle", "spin", "initialising", "initialised", "lock", "allocate",
          "map", "check", "free", "copy", "unlocked"}

(* One thread is past the flag of the initialisation, and the library is    *)
(* half initialised exactly while that thread is; whoever waits for         *)
(* library_lock, or holds an address, found it initialised.                 *)
LockInv ==
    /\ scheme \in {"none", "partial", "ready"}
    /\ spin \in Client \cup {NoClient}
    /\ lock \in Client \cup {NoClient}
    /\ pc \in [Client -> Point]
    /\ halted \in {"no", "exit", "wild", "segv"}
    /\ \A t \in Client : pc[t] \in {"initialising", "initialised"} => spin = t
    /\ \A t \in Client : pc[t] = "initialising" => scheme = "partial"
    /\ \A t \in Client : pc[t] \in {"initialised", "lock"} => scheme = "ready"
    /\ scheme = "partial" => spin \in Client /\ pc[spin] = "initialising"
    /\ DOMAIN content # {} => scheme = "ready"
    /\ LockExcludes

(* What a call keeps on its stack.                                          *)
Call == [op : {"none", "malloc", "free", "put", "get"},
         base : Page, size : Nat, off : 0..(Words - 1),
         val : Values \cup {NoClient}, at : Page, left : Nat,
         words : Seq((Page \X Frame) \cup Word)]

(* Pages a call that is not t_malloc comes to.                              *)
Total(c) == IF c.op = "free" THEN Pages(c.size) ELSE Pages(c.off + c.size)

(* What a call is about where a thread is.                                  *)
CallAt(where, c) ==
    /\ where = "idle" => c = NoCall
    /\ where \in {"spin", "initialising", "initialised", "allocate", "map"} =>
          c.op = "malloc"
    /\ where = "lock" => c.op # "none"
    /\ where = "check" => c.op \in {"free", "put", "get"}
    /\ where = "free" => c.op = "free"
    /\ where = "copy" => c.op \in {"put", "get"}
    /\ where = "unlocked" => c.op = "get"
    /\ c.op = "malloc" /\ where # "map" => c.words = <<>> /\ c.left = Pages(c.size)
    /\ where = "lock" /\ c.op # "malloc" => c.at = c.base /\ c.left = Total(c)
    /\ where = "check" => c.left <= Total(c)
    /\ where = "copy" => c.left \in 1..c.size
    /\ c.op \in {"put", "get"} => \E a \in Accesses : c.size = a[2]
    /\ c.op = "put" => c.val \in Values

CallInv ==
    /\ call \in [Client -> Call]
    /\ \A t \in Client : CallAt(pc[t], call[t])

(* Until the library is initialised there is nothing.                       *)
StartInv ==
    scheme # "ready" =>
        /\ vbits = {} /\ fbits = {} /\ tlb = <<>>
        /\ mem = [f \in Frame |-> Zeroed]

(* The pages in use are among those of the first table.                     *)
FirstTable == vbits \subseteq 0..(Words - 1)

(* Bitmaps and page table, where the first table is the directory itself.   *)
TableInv ==
    /\ mem \in [Frame -> [0..(Words - 1) -> Word]]
    /\ vbits \subseteq Page /\ fbits \subseteq Frame
    /\ scheme = "ready" =>
          /\ mem[0][0] = <<"frame", 0>>
          /\ 0 \in vbits /\ Reserved \subseteq fbits
          /\ \A p \in Mapped : \E f \in fbits \ Reserved : mem[0][p] = <<"frame", f>>
          /\ \A f \in fbits \ Reserved : \E p \in Mapped : mem[0][p] = <<"frame", f>>
          /\ \A p, q \in Mapped : mem[0][p] = mem[0][q] => p = q
          /\ \A p \in (Tables..(Words - 1)) \ vbits : mem[0][p] = NULL

(* The page that page p links to.  Links lead upwards: t_malloc takes pages *)
(* in ascending order, and the links it leaves stay when pages are freed.   *)
Link(p) == mem[mem[0][p][2]][0][2]

LinkInv ==
    /\ \A f \in Frame \ {0} : \E p \in Page : mem[f][0] = <<"page", p>>
    /\ \A p \in Mapped : Link(p) = 0 \/ p < Link(p)

(* The cells of the first table, and that the cache agrees with them.       *)
First == 0..(Words - 1)
Row == [p \in First |-> <<0, p>>]

CacheInv == Coherent(tlb, First, Row)

(* The links lead from b over n pages in use to e.                          *)
Run(b, n, e) ==
    \E s \in [0..n -> Page] :
        /\ s[0] = b /\ s[n] = e
        /\ \A i \in 0..(n - 1) : s[i] \in Mapped /\ s[i + 1] = Link(s[i])

(* t_malloc has counted enough pages and frames, and took the lowest ones.  *)
TakenInv(c) ==
    /\ c.left <= Cardinality(Page \ vbits)
    /\ c.left <= Cardinality(Frame \ fbits)
    /\ c.size > 0 /\ c.left + Len(c.words) = Pages(c.size)
    /\ \A j \in DOMAIN c.words :
          /\ c.words[j] \in Page \X Frame
          /\ c.words[j][1] \in Mapped
          /\ mem[0][c.words[j][1]] = <<"frame", c.words[j][2]>>
          /\ \A p \in Page \ vbits : c.words[j][1] < p
          /\ \A i \in 1..(j - 1) : c.words[i][1] < c.words[j][1]

(* What the check of a call has seen, and what is left of it for the call.  *)
ChainInv(t) ==
    LET c == call[t]
    IN  /\ pc[t] = "map" => TakenInv(c)
        /\ pc[t] = "check" => Run(c.base, Total(c) - c.left, c.at)
        /\ pc[t] = "free" => \E e \in Page : Run(c.at, c.left, e)
        /\ pc[t] = "copy" => \E e \in Page : Run(c.at, Pages(c.off + c.left), e)

MemoryInv ==
    /\ StartInv /\ TableInv /\ LinkInv /\ CacheInv
    /\ \A t \in Client : ChainInv(t)

-----------------------------------------------------------------------------
(* The locks.                                                              *)

LEMMA LockInit == Init => LockInv
  BY VmAssumption DEF Init, LockInv, Point, LockExcludes, Inside

LEMMA LockNext == LockInv /\ [Next]_vars => LockInv'
<1> SUFFICES ASSUME LockInv, [Next]_vars PROVE LockInv'
  OBVIOUS
<1> USE VmAssumption DEF LockInv, Point, LockExcludes, Inside
<1>1. ASSUME NEW t \in Client, ClientStep(t) PROVE LockInv'
  <2>1. ASSUME NEW size \in Requests, MallocCall(t, size) PROVE LockInv'
    BY <2>1 DEF MallocCall, Begin, Goto, Idle, At
  <2>2. ASSUME NEW b \in Page, NEW size \in Requests, FreeCall(t, b, size)
        PROVE  LockInv'
    BY <2>2 DEF FreeCall, Begin, Goto, Idle, At, MayFree
  <2>3. ASSUME NEW b \in Page, NEW size \in Requests, FreeNothing(t, b, size)
        PROVE  LockInv'
    BY <2>3 DEF FreeNothing
  <2>4. ASSUME NEW op, NEW b \in Page, NEW a \in Accesses, NEW v,
               AccessCall(t, op, b, a, v)
        PROVE  LockInv'
    BY <2>4 DEF AccessCall, Begin, Goto, Idle, At, MayAccess
  <2> QED
    BY <1>1, <2>1, <2>2, <2>3, <2>4 DEF ClientStep, PutCall, GetCall
<1>2. ASSUME NEW t \in Client, LibraryStep(t) PROVE LockInv'
  <2>1. CASE Spin(t)
    BY <2>1 DEF Spin, Goto, At
  <2>2. CASE Initialise(t)
    BY <2>2 DEF Initialise, Goto, At
  <2>3. CASE Unspin(t)
    BY <2>3 DEF Unspin, Goto, At
  <2>4. CASE Lock(t)
    BY <2>4 DEF Lock, Goto, At
  <2>5. ASSUME NEW value, NEW n, Inside(t), Return(t, value, n) PROVE LockInv'
    BY <2>5 DEF Return, Goto
  <2>6. ASSUME NEW where \in {"map", "check", "free", "copy"}, NEW c,
               Inside(t), Continue(t, where, c)
        PROVE  LockInv'
    BY <2>6 DEF Continue, Goto
  <2>7. CASE MallocFails(t)
    BY <2>5, <2>7 DEF MallocFails, At
  <2>8. CASE MallocFits(t) \/ MapPage(t)
    BY <2>6, <2>8 DEF MallocFits, MapPage, At
  <2>9. CASE MallocReturns(t)
    BY <2>5, <2>9 DEF MallocReturns, At
  <2>10. CASE CheckPage(t) \/ CheckPasses(t)
    BY <2>6, <2>10 DEF CheckPage, CheckPasses, At
  <2>11. CASE CheckFails(t)
    BY <2>5, <2>11 DEF CheckFails, At
  <2>12. CASE CheckFailsInGet(t)
    BY <2>12 DEF CheckFailsInGet, Goto, At
  <2>13. CASE StrayGet(t)
    BY <2>13 DEF StrayGet
  <2>14. CASE FreePage(t)
    <3>1. Inside(t) /\ \E c : Continue(t, "free", c)
      BY <2>14 DEF FreePage, At
    <3> QED
      BY <2>6, <3>1
  <2>15. CASE FreeReturns(t)
    BY <2>5, <2>15 DEF FreeReturns, At
  <2>16. CASE PutPage(t) \/ GetPage(t)
    BY <2>5, <2>6, <2>16 DEF PutPage, GetPage, At
  <2> QED
    BY <1>2, <2>1, <2>2, <2>3, <2>4, <2>7, <2>8, <2>9, <2>10, <2>11, <2>12,
       <2>13, <2>14, <2>15, <2>16 DEF LibraryStep
<1>3. CASE Exit
  BY <1>3 DEF Exit, Idle, At
<1>4. CASE UNCHANGED vars
  BY <1>4 DEF vars
<1> QED
  BY <1>1, <1>2, <1>3, <1>4 DEF Next, Halted

LEMMA LockInvariant == Spec => []LockInv
<1>1. Init => LockInv
  BY LockInit
<1>2. LockInv /\ [Next]_vars => LockInv'
  BY LockNext
<1> QED
  BY <1>1, <1>2, PTL DEF Spec

-----------------------------------------------------------------------------
(* Numbers and addresses.                                                  *)

LEMMA PagesProperties ==
    ASSUME NEW n \in Nat
    PROVE  /\ Pages(n) \in Nat
           /\ Pages(n + Payload) = Pages(n) + 1
           /\ n > 0 => Pages(n) >= 1
<1> USE VmAssumption DEF Payload, Pages
<1>1. Payload \in Nat \ {0} /\ n + Payload - 1 \in Nat
  OBVIOUS
<1>2. Pages(n) \in Nat
  BY <1>1, Division
<1>3. ((n + Payload - 1) + Payload) \div Payload = Pages(n) + 1
  BY <1>1, DivisionStep
<1>4. (n + Payload) + Payload - 1 = (n + Payload - 1) + Payload
  BY <1>1
<1>5. Pages(n + Payload) = Pages(n) + 1
  BY <1>3, <1>4
<1>6. ASSUME n > 0 PROVE Pages(n) >= 1
  <2>1. n - 1 \in Nat /\ n + Payload - 1 = (n - 1) + Payload
    BY <1>1, <1>6
  <2>2. Pages(n) = (n - 1) \div Payload + 1
    BY <1>1, <2>1, DivisionStep
  <2>3. (n - 1) \div Payload \in Nat
    BY <1>1, <2>1, Division
  <2> QED
    BY <2>2, <2>3
<1> QED
  BY <1>2, <1>5, <1>6

LEMMA FirstProperties ==
    /\ First \subseteq Page /\ 0 \in First /\ 0 \in Frame
    /\ Payload \in Nat \ {0} /\ Words = Payload + 1
    /\ Reserved \subseteq Nat /\ 0 \in Reserved
<1>1. 1 * Words <= Tables * Words
  BY VmAssumption
<1>2. Tables * Words \in Nat
  BY VmAssumption
<1> QED
  BY <1>1, <1>2, VmAssumption DEF First, Page, Frame, Payload, Reserved

(* The first table is where the walk of the tables leads to.                *)
LEMMA WalkFirst ==
    ASSUME NEW p \in First, mem[0][0] = <<"frame", 0>>
    PROVE  /\ Walk(mem, p) = <<0, p>> /\ Walk(mem, p) = Row[p]
           /\ Pte(mem, p) = mem[0][p] /\ FrameOf(mem, p) = mem[0][p][2]
<1>1. p \div Words = 0 /\ p % Words = p
  BY VmAssumption, DivisionSmall DEF First
<1> QED
  BY <1>1 DEF Walk, Pte, FrameOf, Row

(* What a translation of a page of the first table returns, and leaves.     *)
LEMMA TranslateFirst ==
    ASSUME CacheInv, NEW p \in First, mem[0][0] = <<"frame", 0>>
    PROVE  /\ Cell(p) = <<0, p>> /\ FrameAt(p) = mem[0][p][2]
           /\ Coherent(Touched(tlb, p), First, Row)
           /\ Translation(Without(tlb, p), p, Walk(mem, p)) = <<0, p>>
           /\ Coherent(Touched(Without(tlb, p), p), First, Row)
<1>1. Walk(mem, p) = Row[p] /\ Row[p] = <<0, p>>
  BY WalkFirst DEF Row
<1>2. Cell(p) = Row[p] /\ Coherent(Touched(tlb, p), First, Row)
  BY <1>1, TranslationCoherent, CachedCoherent DEF CacheInv, Cell, Touched
<1>3. Coherent(Without(tlb, p), First, Row)
  BY WithoutCoherent DEF CacheInv
<1>4. /\ Translation(Without(tlb, p), p, Row[p]) = Row[p]
      /\ Coherent(Cached(Without(tlb, p), p, Row[p]), First, Row)
  BY <1>3, TranslationCoherent, CachedCoherent
<1> QED
  BY <1>1, <1>2, <1>4 DEF FrameAt, Touched

(* The holder of library_lock is alone.                                     *)
LEMMA Alone ==
    ASSUME LockInv, NEW t \in Client, Inside(t)
    PROVE  /\ scheme = "ready" /\ lock = t
           /\ \A u \in Client : Inside(u) => u = t
  BY DEF LockInv, LockExcludes

-----------------------------------------------------------------------------
(* What the steps do to bitmaps and memory.                                *)

LEMMA FreeBits ==
    ASSUME NEW bits \in SUBSET Page
    PROVE  /\ Cardinality(Page \ bits) \in Nat
           /\ Cardinality(Page \ bits) > 0 =>
                 /\ LowestFree(bits) \in Page \ bits
                 /\ \A q \in Page \ bits : LowestFree(bits) <= q
           /\ \A p \in Page \ bits :
                 Cardinality(Page \ (bits \cup {p})) = Cardinality(Page \ bits) - 1
<1>1. IsFiniteSet(Page \ bits) /\ Page \ bits \in SUBSET Nat
  <2>1. Tables * Words - 1 \in Int
    BY VmAssumption
  <2>2. IsFiniteSet(Page)
    BY <2>1, FS_Interval DEF Page
  <2>3. Page \ bits \subseteq Page /\ Page \subseteq Nat
    BY DEF Page
  <2> QED
    BY <2>2, <2>3, FS_Subset
<1>2. Cardinality(Page \ bits) \in Nat
  BY <1>1, FS_CardinalityType
<1>3. Cardinality(Page \ bits) > 0 => Page \ bits # {}
  BY FS_EmptySet
<1>4. ASSUME NEW p \in Page \ bits
      PROVE  Cardinality(Page \ (bits \cup {p})) = Cardinality(Page \ bits) - 1
  <2>1. Page \ (bits \cup {p}) = (Page \ bits) \ {p}
    OBVIOUS
  <2> QED
    BY <1>1, <2>1, FS_RemoveElement
<1> QED
  BY <1>1, <1>2, <1>3, <1>4, MinProperties DEF LowestFree

\* Where the step maps the lowest free page onto the lowest free frame.
LEMMA MapPageEffect ==
    ASSUME LockInv, MemoryInv, FirstTable', CallInv, NEW t \in Client, MapPage(t),
           NEW p, p = LowestFree(vbits), NEW f, f = LowestFree(fbits)
    PROVE  /\ p \in First \ vbits /\ f \in Frame \ fbits
           /\ p > 0 /\ f \notin Reserved
           /\ \A q \in Page \ vbits : p <= q
           /\ vbits' = vbits \cup {p} /\ fbits' = fbits \cup {f}
           /\ mem' \in [Frame -> [0..(Words - 1) -> Word]]
           /\ mem'[0] = [mem[0] EXCEPT ![p] = <<"frame", f>>]
           /\ mem'[f] = Zeroed
           /\ \A g \in Frame \ {0, f} : mem'[g] = mem[g]
           /\ Coherent(tlb', First, Row)
<1>1. scheme = "ready" /\ TakenInv(call[t]) /\ call[t].left > 0 /\ call[t].left \in Nat
  BY Alone DEF MapPage, At, Inside, MemoryInv, ChainInv, CallInv, CallAt, Call
<1>2. vbits \in SUBSET Page /\ fbits \in SUBSET Page /\ Frame = Page
  BY DEF MemoryInv, TableInv, Frame
<1>3. /\ p \in Page \ vbits /\ \A q \in Page \ vbits : p <= q
      /\ f \in Frame \ fbits
  BY <1>1, <1>2, FreeBits DEF TakenInv
<1>4. vbits' = vbits \cup {p} /\ fbits' = fbits \cup {f} /\ tlb' = Touched(tlb, p)
  BY DEF MapPage
<1>5. p \in First
  BY <1>4 DEF FirstTable, First
<1>6. mem[0][0] = <<"frame", 0>> /\ 0 \in vbits /\ Reserved \subseteq fbits
  BY <1>1 DEF MemoryInv, TableInv
<1>7. Cell(p) = <<0, p>> /\ Coherent(Touched(tlb, p), First, Row)
  BY <1>5, <1>6, TranslateFirst DEF MemoryInv
<1>8. p > 0 /\ f \notin Reserved /\ f # 0
  BY <1>3, <1>6, FirstProperties DEF Page
<1>9. mem' = [[mem EXCEPT ![f] = Zeroed] EXCEPT ![0][p] = <<"frame", f>>]
  BY <1>7 DEF MapPage
<1>10. mem \in [Frame -> [0..(Words - 1) -> Word]]
  BY DEF MemoryInv, TableInv
<1>11. Zeroed \in [0..(Words - 1) -> Word] /\ <<"frame", f>> \in Word
  BY <1>3, FirstProperties DEF Zeroed, Word, NULL
<1>12. /\ mem'[0] = [mem[0] EXCEPT ![p] = <<"frame", f>>]
       /\ mem'[f] = Zeroed
       /\ \A g \in Frame \ {0, f} : mem'[g] = mem[g]
  BY <1>3, <1>8, <1>9, <1>10, FirstProperties
<1>13. mem' \in [Frame -> [0..(Words - 1) -> Word]]
  BY <1>9, <1>10, <1>11
<1> QED
  BY <1>3, <1>4, <1>5, <1>7, <1>8, <1>12, <1>13

(* Runs along the links.                                                   *)
LEMMA RunStart == \A b \in Page : Run(b, 0, b)
<1> TAKE b \in Page
<1> DEFINE s == [i \in 0..0 |-> b]
<1>1. s \in [0..0 -> Page] /\ s[0] = b
  OBVIOUS
<1>2. \A i \in 0..(0 - 1) : s[i] \in Mapped /\ s[i + 1] = Link(s[i])
  OBVIOUS
<1> QED
  BY <1>1, <1>2 DEF Run

LEMMA RunFirst ==
    ASSUME NEW b \in Page, NEW n \in Nat \ {0}, NEW e \in Page, Run(b, n, e)
    PROVE  b \in Mapped /\ Link(b) \in Page /\ Run(Link(b), n - 1, e)
<1>1. PICK s \in [0..n -> Page] :
             /\ s[0] = b /\ s[n] = e
             /\ \A i \in 0..(n - 1) : s[i] \in Mapped /\ s[i + 1] = Link(s[i])
  BY DEF Run
<1>2. b \in Mapped /\ s[1] = Link(b) /\ s[1] \in Page
  BY <1>1
<1> DEFINE r == [i \in 0..(n - 1) |-> s[i + 1]]
<1>3. r \in [0..(n - 1) -> Page] /\ r[0] = Link(b) /\ r[n - 1] = e
  BY <1>1, <1>2
<1>4. \A i \in 0..((n - 1) - 1) : r[i] \in Mapped /\ r[i + 1] = Link(r[i])
  BY <1>1
<1> QED
  BY <1>2, <1>3, <1>4 DEF Run

LEMMA RunOnward ==
    ASSUME NEW b \in Page, NEW n \in Nat, NEW e \in Mapped, Run(b, n, e), Link(e) \in Page
    PROVE  Run(b, n + 1, Link(e))
<1>1. PICK s \in [0..n -> Page] :
             /\ s[0] = b /\ s[n] = e
             /\ \A i \in 0..(n - 1) : s[i] \in Mapped /\ s[i + 1] = Link(s[i])
  BY DEF Run
<1> DEFINE r == [i \in 0..(n + 1) |-> IF i <= n THEN s[i] ELSE Link(e)]
<1>2. r \in [0..(n + 1) -> Page] /\ r[0] = b /\ r[n + 1] = Link(e)
  BY <1>1
<1>3. \A i \in 0..((n + 1) - 1) : r[i] \in Mapped /\ r[i + 1] = Link(r[i])
  BY <1>1
<1> QED
  BY <1>2, <1>3 DEF Run

\* A run from above p stays above p, since links lead upwards.
LEMMA RunAbove ==
    ASSUME LinkInv, NEW n \in Nat, NEW s \in [0..n -> Page], NEW p \in Nat,
           \A i \in 0..(n - 1) : s[i] \in Mapped /\ s[i + 1] = Link(s[i]),
           s[0] > p \/ s[0] = 0
    PROVE  \A i \in 0..(n - 1) : s[i] > p
<1> DEFINE S == {i \in Nat : i <= n - 1 => s[i] > p}
<1>1. 0 \in S
  <2>1. n > 0 => s[0] # 0
    BY DEF Mapped
  <2> QED
    BY <2>1
<1>2. ASSUME NEW i \in Nat, i \in S PROVE i + 1 \in S
  <2> SUFFICES ASSUME i + 1 <= n - 1 PROVE s[i + 1] > p
    OBVIOUS
  <2>1. s[i] > p /\ s[i] \in Mapped /\ s[i + 1] \in Mapped /\ s[i + 1] = Link(s[i])
    BY <1>2
  <2>2. s[i + 1] # 0 /\ s[i] < s[i + 1]
    BY <2>1 DEF LinkInv, Mapped
  <2>3. s[i] \in Nat /\ s[i + 1] \in Nat
    BY FirstProperties DEF Page
  <2> QED
    BY <2>1, <2>2, <2>3
<1> HIDE DEF S
<1>3. Nat \subseteq S
  BY <1>1, <1>2, InductionOverNat
<1> QED
  BY <1>3 DEF S

LEMMA RunStable ==
    ASSUME NEW b, NEW n \in Nat, NEW e, Run(b, n, e),
           \A q \in Mapped : q \in Mapped' /\ Link(q)' = Link(q)
    PROVE  Run(b, n, e)'
  BY DEF Run

(* Where a page in use is mapped to, and where its entry lies.              *)
LEMMA MappedFrame ==
    ASSUME MemoryInv, FirstTable, scheme = "ready", NEW p \in Mapped
    PROVE  /\ p \in First /\ p > 0 /\ mem[0][0] = <<"frame", 0>>
           /\ mem[0][p][2] \in fbits \ Reserved /\ mem[0][p][2] # 0
           /\ mem[0][p][2] \in Frame
           /\ mem[0][p] = <<"frame", mem[0][p][2]>>
           /\ \A q \in Mapped : mem[0][q][2] = mem[0][p][2] => p = q
           /\ Link(p) \in Page /\ mem[mem[0][p][2]][0] = <<"page", Link(p)>>
           /\ Cell(p) = <<0, p>> /\ FrameAt(p) = mem[0][p][2]
<1>1. p \in First /\ p > 0 /\ mem[0][0] = <<"frame", 0>>
  BY DEF MemoryInv, TableInv, FirstTable, First, Mapped
<1>2. \A q \in Mapped : \E f \in fbits \ Reserved : mem[0][q] = <<"frame", f>>
  BY DEF MemoryInv, TableInv
<1>3. \A q \in Mapped : /\ mem[0][q][2] \in fbits \ Reserved
                        /\ mem[0][q] = <<"frame", mem[0][q][2]>>
  BY <1>2
<1>4. /\ mem[0][p][2] \in fbits \ Reserved /\ mem[0][p][2] # 0
      /\ mem[0][p][2] \in Frame
      /\ mem[0][p] = <<"frame", mem[0][p][2]>>
  BY <1>3, FirstProperties DEF MemoryInv, TableInv
<1>5. \A q \in Mapped : mem[0][q][2] = mem[0][p][2] => p = q
  BY <1>3 DEF MemoryInv, TableInv
<1>6. Link(p) \in Page /\ mem[mem[0][p][2]][0] = <<"page", Link(p)>>
  BY <1>4 DEF MemoryInv, LinkInv, Link
<1>7. Cell(p) = <<0, p>> /\ FrameAt(p) = mem[0][p][2]
  BY <1>1, TranslateFirst DEF MemoryInv
<1> QED
  BY <1>1, <1>4, <1>5, <1>6, <1>7

\* The step unmaps a page, zeroes its frame, and goes on to where it linked.
LEMMA FreePageEffect ==
    ASSUME LockInv, MemoryInv, FirstTable, CallInv, NEW t \in Client, FreePage(t),
           NEW p, p = call[t].at, NEW f, f = mem[0][p][2]
    PROVE  /\ p \in Mapped /\ scheme = "ready" /\ Inside(t)
           /\ vbits' = vbits \ {p} /\ fbits' = fbits \ {f}
           /\ mem' \in [Frame -> [0..(Words - 1) -> Word]]
           /\ mem'[0] = [mem[0] EXCEPT ![p] = NULL]
           /\ mem'[f] = Zeroed
           /\ \A g \in Frame \ {0, f} : mem'[g] = mem[g]
           /\ Coherent(tlb', First, Row)
           /\ call'[t].at = Link(p) /\ call'[t].left = call[t].left - 1
<1> DEFINE c == call[t]
<1>1. /\ scheme = "ready" /\ Inside(t) /\ pc[t] = "free"
      /\ c.at \in Page /\ c.left \in Nat \ {0}
  <2>1. pc[t] = "free" /\ c.left > 0
    BY DEF FreePage, At
  <2>2. c \in Call
    BY DEF CallInv, CallAt
  <2>3. scheme = "ready" /\ Inside(t)
    BY <2>1, Alone DEF Inside
  <2> QED
    BY <2>1, <2>2, <2>3 DEF Call
<1>2. PICK e \in Page : Run(c.at, c.left, e)
  BY <1>1 DEF MemoryInv, ChainInv
<1>3. p \in Mapped
  BY <1>1, <1>2, RunFirst
<1>4. /\ p \in First /\ p > 0 /\ mem[0][0] = <<"frame", 0>>
      /\ f \in fbits \ Reserved /\ f # 0 /\ f \in Frame
      /\ mem[0][p] = <<"frame", f>> /\ mem[f][0] = <<"page", Link(p)>>
  BY <1>1, <1>3, MappedFrame
<1>5. /\ Translation(Without(tlb, p), p, Walk(mem, p)) = <<0, p>>
      /\ Coherent(Touched(Without(tlb, p), p), First, Row)
  BY <1>4, TranslateFirst DEF MemoryInv
<1>6. mem \in [Frame -> [0..(Words - 1) -> Word]] /\ 0 \in Frame
  BY FirstProperties DEF MemoryInv, TableInv
<1> DEFINE m == [mem EXCEPT ![0][p] = NULL]
<1>7. /\ tlb' = Touched(Without(tlb, p), p)
      /\ vbits' = vbits \ {p} /\ fbits' = fbits \ {f}
      /\ mem' = [m EXCEPT ![f] = Zeroed]
      /\ Continue(t, "free", [c EXCEPT !.at = m[f][0][2], !.left = c.left - 1])
  <2> DEFINE cell == Translation(Without(tlb, p), p, Walk(mem, p))
  <2>1. cell[1] = 0 /\ cell[2] = p
    BY <1>5
  <2> HIDE DEF cell
  <2>2. FreePage(t) =>
          /\ tlb' = Touched(Without(tlb, p), p)
          /\ vbits' = vbits \ {p}
          /\ fbits' = fbits \ {mem[cell[1]][cell[2]][2]}
          /\ mem' = [[mem EXCEPT ![cell[1]][cell[2]] = NULL]
                          EXCEPT ![mem[cell[1]][cell[2]][2]] = Zeroed]
          /\ Continue(t, "free", [c EXCEPT
                !.at = [mem EXCEPT ![cell[1]][cell[2]] = NULL][mem[cell[1]][cell[2]][2]][0][2],
                !.left = c.left - 1])
    BY Zenon DEF FreePage, FramesWithout, cell
  <2> QED
    BY <2>1, <2>2
<1>8. m[f] = mem[f] /\ m[0] = [mem[0] EXCEPT ![p] = NULL]
      /\ \A g \in Frame \ {0} : m[g] = mem[g]
  BY <1>4, <1>6
<1>9. Zeroed \in [0..(Words - 1) -> Word] /\ NULL \in Word
  BY FirstProperties DEF Zeroed, Word, NULL
<1>10. m \in [Frame -> [0..(Words - 1) -> Word]]
  BY <1>6, <1>9
<1>11. /\ mem' \in [Frame -> [0..(Words - 1) -> Word]]
       /\ mem'[0] = m[0] /\ mem'[f] = Zeroed
       /\ \A g \in Frame \ {0, f} : mem'[g] = m[g]
  BY <1>4, <1>6, <1>7, <1>9, <1>10
<1>12. m[f][0][2] = Link(p)
  <2>1. m[f][0] = mem[f][0]
    BY <1>8
  <2>2. mem[f][0] = <<"page", Link(p)>>
    BY <1>4
  <2>3. <<"page", Link(p)>>[2] = Link(p)
    OBVIOUS
  <2> HIDE DEF m
  <2> QED
    BY ONLY <2>1, <2>2, <2>3, Zenon
<1>13. call'[t].at = Link(p) /\ call'[t].left = c.left - 1
  <2>1. call \in [Client -> Call] /\ c \in Call
    BY DEF CallInv, CallAt
  <2>2. call' = [call EXCEPT ![t] = [c EXCEPT !.at = m[f][0][2], !.left = c.left - 1]]
    BY <1>7 DEF Continue
  <2> QED
    BY <1>12, <2>1, <2>2 DEF Call
<1> QED
  BY <1>1, <1>3, <1>5, <1>7, <1>8, <1>11, <1>12, <1>13

\* The step writes behind the link of the page's frame.
LEMMA PutPageEffect ==
    ASSUME LockInv, MemoryInv, FirstTable, CallInv, NEW t \in Client, PutPage(t),
           NEW p, p = call[t].at, NEW f, f = mem[0][p][2]
    PROVE  /\ p \in Mapped /\ scheme = "ready" /\ Inside(t)
           /\ UNCHANGED <<vbits, fbits>>
           /\ mem' \in [Frame -> [0..(Words - 1) -> Word]]
           /\ \A g \in Frame \ {f} : mem'[g] = mem[g]
           /\ mem'[f][0] = mem[f][0]
           /\ Coherent(tlb', First, Row)
<1> DEFINE c == call[t]
           here == (c.off + 1)..(c.off + Min({c.left, Room(c)}))
<1>1. /\ scheme = "ready" /\ Inside(t) /\ pc[t] = "copy" /\ c.op = "put"
      /\ c \in Call /\ c.left \in 1..c.size /\ c.val \in Values
  BY Alone DEF PutPage, At, Inside, CallInv, CallAt
<1>2. /\ c.at \in Page /\ c.left \in Nat /\ c.size \in Nat /\ c.off \in Nat
      /\ Room(c) \in Nat
  BY <1>1, FirstProperties DEF Call, Room
<1>3. PICK e \in Page : Run(c.at, Pages(c.off + c.left), e)
  BY <1>1 DEF MemoryInv, ChainInv
<1>4. Pages(c.off + c.left) \in Nat \ {0}
  BY <1>1, <1>2, PagesProperties
<1>5. p \in Mapped
  BY <1>2, <1>3, <1>4, RunFirst
<1>6. /\ p \in First /\ mem[0][0] = <<"frame", 0>> /\ f \in Frame /\ FrameAt(c.at) = f
  BY <1>1, <1>5, MappedFrame
<1>7. mem \in [Frame -> [0..(Words - 1) -> Word]]
  BY DEF MemoryInv, TableInv
<1>8. /\ mem' = [mem EXCEPT ![f] = [k \in DOMAIN @ |->
                    IF k \in here THEN Datum(c.val, c.size - c.left + k - c.off) ELSE @[k]]]
      /\ tlb' = Touched(tlb, p) /\ UNCHANGED <<vbits, fbits>>
  BY <1>6 DEF PutPage
<1>9. Min({c.left, Room(c)}) \in {c.left, Room(c)} /\ Min({c.left, Room(c)}) <= c.left
  BY <1>2, MinProperties
<1>10. 0 \notin here
  BY <1>2
<1>11. ASSUME NEW k \in here PROVE Datum(c.val, c.size - c.left + k - c.off) \in Word
  <2>1. c.size - c.left + k - c.off \in 1..c.size
    BY <1>1, <1>2, <1>9
  <2>2. PICK a \in Accesses : c.size = a[2]
    BY <1>1 DEF CallInv, CallAt
  <2>3. c.size - c.left + k - c.off \in UNION {1..x[2] : x \in Accesses}
    BY <2>1, <2>2
  <2> QED
    BY <1>1, <2>3 DEF Word
<1> HIDE DEF here
<1>12. /\ mem' \in [Frame -> [0..(Words - 1) -> Word]]
       /\ \A g \in Frame \ {f} : mem'[g] = mem[g]
       /\ \A k \in 0..(Words - 1) : k \notin here => mem'[f][k] = mem[f][k]
  BY <1>6, <1>7, <1>8, <1>11
<1>13. mem'[f][0] = mem[f][0]
  BY <1>10, <1>12, FirstProperties DEF First
<1>14. Coherent(tlb', First, Row)
  BY <1>6, <1>8, TranslateFirst DEF MemoryInv
<1> QED
  BY <1>1, <1>5, <1>8, <1>12, <1>13, <1>14

\* The step links each page that was taken to the next one, which is above it.
LEMMA MallocReturnsEffect ==
    ASSUME LockInv, MemoryInv, FirstTable, CallInv, NEW t \in Client, MallocReturns(t)
    PROVE  /\ scheme = "ready" /\ Inside(t)
           /\ UNCHANGED <<vbits, fbits, tlb>>
           /\ mem' \in [Frame -> [0..(Words - 1) -> Word]]
           /\ mem'[0] = mem[0]
           /\ \A f \in Frame \ {0} : \E p \in Page : mem'[f][0] = <<"page", p>>
           /\ \A p \in Mapped : Link(p)' = 0 \/ p < Link(p)'
<1> DEFINE taken == call[t].words
           next  == 1..(Len(taken) - 1)
<1>1. scheme = "ready" /\ Inside(t) /\ TakenInv(call[t])
  BY Alone DEF MallocReturns, At, Inside, MemoryInv, ChainInv
<1>2. UNCHANGED <<vbits, fbits, tlb>> /\ mem' = Linked(mem, taken)
  BY DEF MallocReturns
<1>3. DOMAIN taken = 1..Len(taken) /\ Len(taken) \in Nat
  BY DEF CallInv, CallAt, Call
<1>4. \A j \in 1..Len(taken) :
          /\ taken[j][1] \in Page /\ taken[j][2] \in Frame
          /\ taken[j][1] \in Mapped
          /\ mem[0][taken[j][1]] = <<"frame", taken[j][2]>>
          /\ \A i \in 1..(j - 1) : taken[i][1] < taken[j][1]
  BY <1>1, <1>3 DEF TakenInv
<1>5. mem \in [Frame -> [0..(Words - 1) -> Word]]
  BY DEF MemoryInv, TableInv
<1>6. \A j \in next : /\ j \in 1..Len(taken) /\ j + 1 \in 1..Len(taken)
                      /\ taken[j + 1][1] \in Page
                      /\ taken[j][1] < taken[j + 1][1]
                      /\ <<"page", taken[j + 1][1]>> \in Word
  BY <1>3, <1>4 DEF Word
<1>7. ASSUME NEW f \in Frame
      PROVE  /\ (~ \E j \in next : taken[j][2] = f) => mem'[f] = mem[f]
             /\ (\E j \in next : taken[j][2] = f) =>
                   \E j \in next : /\ taken[j][2] = f
                                   /\ mem'[f] = [mem[f] EXCEPT ![0] = <<"page", taken[j + 1][1]>>]
  <2>1. mem'[f] = IF \E j \in next : taken[j][2] = f
                  THEN LET j == CHOOSE j \in next : taken[j][2] = f
                       IN  [mem[f] EXCEPT ![0] = <<"page", taken[j + 1][1]>>]
                  ELSE mem[f]
    BY <1>2 DEF Linked
  <2> QED
    BY <2>1
<1> HIDE DEF next, taken
<1>8. mem' \in [Frame -> [0..(Words - 1) -> Word]]
  <2>1. ASSUME NEW f \in Frame PROVE mem'[f] \in [0..(Words - 1) -> Word]
    <3>1. CASE \E j \in next : taken[j][2] = f
      <4> PICK j \in next : mem'[f] = [mem[f] EXCEPT ![0] = <<"page", taken[j + 1][1]>>]
        BY <1>7, <3>1
      <4> QED
        BY <1>5, <1>6
    <3>2. CASE ~ \E j \in next : taken[j][2] = f
      BY <1>5, <1>7, <3>2
    <3> QED
      BY <3>1, <3>2
  <2>2. mem' = [f \in Frame |-> mem'[f]]
    BY <1>2 DEF Linked
  <2> QED
    BY <2>1, <2>2
<1>9. \A j \in next : taken[j][2] # 0
  <2> TAKE j \in next
  <2>1. taken[j][1] \in Mapped /\ mem[0][taken[j][1]] = <<"frame", taken[j][2]>>
    BY <1>4, <1>6
  <2> QED
    BY <1>1, <2>1, MappedFrame
<1>10. mem'[0] = mem[0]
  BY <1>7, <1>9, FirstProperties
<1>11. ASSUME NEW f \in Frame \ {0} PROVE \E p \in Page : mem'[f][0] = <<"page", p>>
  <2>1. CASE \E j \in next : taken[j][2] = f
    <3> PICK j \in next : mem'[f] = [mem[f] EXCEPT ![0] = <<"page", taken[j + 1][1]>>]
      BY <1>7, <2>1
    <3>1. mem'[f][0] = <<"page", taken[j + 1][1]>>
      BY <1>5, FirstProperties DEF First
    <3> QED
      BY <1>6, <3>1
  <2>2. CASE ~ \E j \in next : taken[j][2] = f
    BY <1>7, <2>2 DEF MemoryInv, LinkInv
  <2> QED
    BY <2>1, <2>2
<1>12. ASSUME NEW p \in Mapped PROVE Link(p)' = 0 \/ p < Link(p)'
  <2> DEFINE f == mem[0][p][2]
  <2>1. /\ f \in Frame /\ mem[0][p] = <<"frame", f>>
        /\ \A q \in Mapped : mem[0][q][2] = f => p = q
    BY <1>1, MappedFrame
  <2>2. Link(p)' = mem'[f][0][2]
    BY <1>10 DEF Link
  <2>3. CASE \E j \in next : taken[j][2] = f
    <3> PICK j \in next : /\ taken[j][2] = f
                          /\ mem'[f] = [mem[f] EXCEPT ![0] = <<"page", taken[j + 1][1]>>]
      BY <1>7, <2>1, <2>3
    <3>1. taken[j][1] = p
      <4>1. taken[j][1] \in Mapped /\ mem[0][taken[j][1]] = <<"frame", f>>
        BY <1>4, <1>6
      <4>2. mem[0][taken[j][1]][2] = f
        BY <4>1
      <4> HIDE DEF f
      <4> QED
        BY <2>1, <4>1, <4>2
    <3>2. mem'[f][0] = <<"page", taken[j + 1][1]>>
      BY <1>5, <2>1, FirstProperties DEF First
    <3> QED
      BY <1>6, <2>2, <3>1, <3>2
  <2>4. CASE ~ \E j \in next : taken[j][2] = f
    <3>1. Link(p)' = Link(p)
      BY <1>7, <2>1, <2>2, <2>4 DEF Link
    <3> QED
      BY <3>1 DEF MemoryInv, LinkInv
  <2> QED
    BY <2>3, <2>4
<1> QED
  BY <1>1, <1>2, <1>8, <1>10, <1>11, <1>12

-----------------------------------------------------------------------------
(* The invariant of the memory.                                            *)

LEMMA MapPageTable ==
    ASSUME LockInv, MemoryInv, FirstTable, FirstTable', CallInv, NEW t \in Client, MapPage(t)
    PROVE  TableInv' /\ LinkInv'
<1>0. PICK p, f : p = LowestFree(vbits) /\ f = LowestFree(fbits)
  OBVIOUS
<1>1. /\ p \in First \ vbits /\ f \in Frame \ fbits
      /\ p > 0 /\ f \notin Reserved
      /\ vbits' = vbits \cup {p} /\ fbits' = fbits \cup {f}
      /\ mem' \in [Frame -> [0..(Words - 1) -> Word]]
      /\ mem'[0] = [mem[0] EXCEPT ![p] = <<"frame", f>>]
      /\ mem'[f] = Zeroed
      /\ \A g \in Frame \ {0, f} : mem'[g] = mem[g]
  BY <1>0, MapPageEffect
<1>2. scheme = "ready" /\ scheme' = "ready"
  BY Alone DEF MapPage, At, Inside, Continue
<1>3. Mapped' = Mapped \cup {p} /\ p \notin Mapped
  BY <1>1 DEF Mapped
<1>4. mem[0] \in [0..(Words - 1) -> Word] /\ First = 0..(Words - 1)
  BY FirstProperties DEF MemoryInv, TableInv, First
<1>5. mem'[0][p] = <<"frame", f>> /\ \A q \in First \ {p} : mem'[0][q] = mem[0][q]
  BY <1>1, <1>4
<1>6. \A q \in Mapped : /\ q \in First \ {p} /\ mem[0][q][2] \in Frame
                        /\ mem[0][q] = <<"frame", mem[0][q][2]>>
                        /\ mem[0][q][2] \in fbits \ Reserved /\ mem[0][q][2] # 0
  BY <1>2, <1>3, MappedFrame
<1>7. mem'[0][0] = <<"frame", 0>>
  BY <1>1, <1>2, <1>5, FirstProperties DEF MemoryInv, TableInv
<1>8. \A q \in Mapped' : \E g \in fbits' \ Reserved : mem'[0][q] = <<"frame", g>>
  BY <1>1, <1>3, <1>5, <1>6
<1>9. \A g \in fbits' \ Reserved : \E q \in Mapped' : mem'[0][q] = <<"frame", g>>
  <2> TAKE g \in fbits' \ Reserved
  <2>1. CASE g = f
    BY <1>3, <1>5, <2>1
  <2>2. CASE g # f
    <3>1. PICK q \in Mapped : mem[0][q] = <<"frame", g>>
      BY <1>1, <1>2, <2>2 DEF MemoryInv, TableInv
    <3> QED
      BY <1>3, <1>5, <1>6, <3>1
  <2> QED
    BY <2>1, <2>2
<1>10. \A q, r \in Mapped' : mem'[0][q] = mem'[0][r] => q = r
  <2>1. \A q, r \in Mapped : mem[0][q] = mem[0][r] => q = r
    BY <1>2 DEF MemoryInv, TableInv
  <2>2. \A q \in Mapped : mem'[0][q] = mem[0][q] /\ mem'[0][q] # <<"frame", f>>
    BY <1>1, <1>5, <1>6
  <2> QED
    BY <1>3, <1>5, <2>1, <2>2
<1>11. \A q \in (Tables..(Words - 1)) \ vbits' : mem'[0][q] = NULL
  <2> TAKE q \in (Tables..(Words - 1)) \ vbits'
  <2>1. q \in (Tables..(Words - 1)) \ vbits /\ q # p /\ q \in First
    BY <1>1, VmAssumption DEF First
  <2> QED
    BY <1>2, <1>5, <2>1 DEF MemoryInv, TableInv
<1>12. TableInv'
  <2>1. vbits' \subseteq Page /\ fbits' \subseteq Frame
    BY <1>1, FirstProperties DEF MemoryInv, TableInv
  <2>2. 0 \in vbits' /\ Reserved \subseteq fbits'
    BY <1>1, <1>2 DEF MemoryInv, TableInv
  <2> QED
    BY <1>1, <1>7, <1>8, <1>9, <1>10, <1>11, <2>1, <2>2 DEF TableInv
<1>13. \A g \in Frame \ {0} : \E q \in Page : mem'[g][0] = <<"page", q>>
  <2>1. mem'[f][0] = <<"page", 0>>
    BY <1>1, FirstProperties DEF Zeroed, NULL, First
  <2> QED
    BY <1>1, <2>1, FirstProperties DEF MemoryInv, LinkInv
<1>14. \A q \in Mapped' : Link(q)' = 0 \/ q < Link(q)'
  <2>1. Link(p)' = 0
    <3>1. mem'[0][p][2] = f /\ mem'[f][0] = <<"page", 0>>
      BY <1>1, <1>5, FirstProperties DEF Zeroed, NULL, First
    <3> QED
      BY <3>1 DEF Link
  <2>2. \A q \in Mapped : Link(q)' = Link(q)
    BY <1>1, <1>5, <1>6 DEF Link
  <2>3. \A q \in Mapped : Link(q) = 0 \/ q < Link(q)
    BY DEF MemoryInv, LinkInv
  <2> TAKE q \in Mapped'
  <2>4. CASE q = p
    BY <2>1, <2>4
  <2>5. CASE q \in Mapped
    BY <2>2, <2>3, <2>5
  <2> QED
    BY <1>3, <2>4, <2>5
<1> QED
  BY <1>12, <1>13, <1>14 DEF LinkInv

LEMMA MapPageChain ==
    ASSUME LockInv, MemoryInv, FirstTable, FirstTable', CallInv, NEW t \in Client, MapPage(t)
    PROVE  ChainInv(t)'
<1> DEFINE p == LowestFree(vbits)
           f == LowestFree(fbits)
           c == call[t]
           d == call'[t]
<1>1. /\ p \in First \ vbits /\ f \in Frame \ fbits
      /\ \A q \in Page \ vbits : p <= q
      /\ vbits' = vbits \cup {p} /\ fbits' = fbits \cup {f}
      /\ mem'[0] = [mem[0] EXCEPT ![p] = <<"frame", f>>]
  BY MapPageEffect
<1>2. scheme = "ready" /\ TakenInv(c) /\ c.left > 0 /\ pc[t] = "map"
  BY Alone DEF MapPage, At, Inside, MemoryInv, ChainInv
<1>3. c \in Call /\ call \in [Client -> Call] /\ pc \in [Client -> Point]
  BY DEF CallInv, LockInv
<1>4. d = [c EXCEPT !.left = c.left - 1, !.words = Append(c.words, <<p, f>>)]
  BY <1>3 DEF MapPage, Continue
<1>5. pc'[t] = "map"
  BY <1>3 DEF MapPage, Continue, Goto
<1>6. /\ d.left = c.left - 1 /\ d.words = Append(c.words, <<p, f>>) /\ d.size = c.size
      /\ c.left \in Nat /\ c.words \in Seq((Page \X Frame) \cup Word)
  BY <1>3, <1>4 DEF Call
<1> HIDE DEF p, f, c, d
<1>7. p \in Page /\ vbits \in SUBSET Page /\ fbits \in SUBSET Page /\ Frame = Page
      /\ Page \subseteq Nat
  <2>1. Page \subseteq Nat
    BY DEF Page
  <2> QED
    BY <1>1, <2>1, FirstProperties DEF MemoryInv, TableInv, Frame
<1>8. d.left <= Cardinality(Page \ vbits')
  <2>1. /\ Cardinality(Page \ vbits) \in Nat
        /\ Cardinality(Page \ (vbits \cup {p})) = Cardinality(Page \ vbits) - 1
    BY <1>1, <1>7, FreeBits
  <2>2. c.left <= Cardinality(Page \ vbits)
    BY <1>2 DEF TakenInv
  <2> QED
    BY <1>1, <1>6, <2>1, <2>2
<1>9. d.left <= Cardinality(Frame \ fbits')
  <2>1. /\ Cardinality(Page \ fbits) \in Nat
        /\ Cardinality(Page \ (fbits \cup {f})) = Cardinality(Page \ fbits) - 1
    BY <1>1, <1>7, FreeBits
  <2>2. c.left <= Cardinality(Frame \ fbits)
    BY <1>2 DEF TakenInv
  <2> QED
    BY <1>1, <1>6, <1>7, <2>1, <2>2
<1>10. /\ Len(d.words) = Len(c.words) + 1 /\ DOMAIN d.words = 1..(Len(c.words) + 1)
       /\ d.words[Len(c.words) + 1] = <<p, f>>
       /\ \A j \in 1..Len(c.words) : d.words[j] = c.words[j]
       /\ Len(c.words) \in Nat /\ DOMAIN c.words = 1..Len(c.words)
  BY <1>1, <1>6, <1>7
<1>11. d.size > 0 /\ d.left + Len(d.words) = Pages(d.size)
  <2>1. c.size > 0 /\ c.left + Len(c.words) = Pages(c.size)
    BY <1>2 DEF TakenInv
  <2>2. d.left + Len(d.words) = c.left + Len(c.words)
    BY <1>6, <1>10
  <2> QED
    BY <1>6, <2>1, <2>2
<1>12. mem[0] \in [0..(Words - 1) -> Word] /\ First = 0..(Words - 1)
  BY FirstProperties DEF MemoryInv, TableInv, First
<1>13. mem'[0][p] = <<"frame", f>> /\ \A q \in First \ {p} : mem'[0][q] = mem[0][q]
  BY <1>1, <1>12
<1>14. Mapped \subseteq Mapped' /\ p \in Mapped' /\ Mapped \subseteq First \ {p}
  BY <1>1, <1>2 DEF Mapped, MemoryInv, TableInv, FirstTable, First
<1> DEFINE Good(j) == /\ d.words[j] \in Page \X Frame
                      /\ d.words[j][1] \in Mapped'
                      /\ mem'[0][d.words[j][1]] = <<"frame", d.words[j][2]>>
                      /\ \A q \in Page \ vbits' : d.words[j][1] < q
                      /\ \A i \in 1..(j - 1) : d.words[i][1] < d.words[j][1]
<1>15. ASSUME NEW j \in 1..Len(c.words) PROVE Good(j)
  <2>1. /\ c.words[j] \in Page \X Frame
        /\ c.words[j][1] \in Mapped
        /\ mem[0][c.words[j][1]] = <<"frame", c.words[j][2]>>
        /\ \A q \in Page \ vbits : c.words[j][1] < q
        /\ \A i \in 1..(j - 1) : c.words[i][1] < c.words[j][1]
    BY <1>2, <1>10 DEF TakenInv
  <2>2. \A i \in 1..(j - 1) : d.words[i] = c.words[i]
    BY <1>10
  <2> QED
    BY <1>1, <1>10, <1>13, <1>14, <2>1, <2>2
<1>16. Good(Len(c.words) + 1)
  <2>1. \A i \in 1..Len(c.words) : c.words[i][1] < p
    BY <1>1, <1>2, <1>7, <1>10 DEF TakenInv
  <2>2. \A q \in Page \ vbits' : p < q
    BY <1>1, <1>7
  <2>3. \A i \in 1..((Len(c.words) + 1) - 1) : d.words[i][1] < p
    BY <1>10, <2>1
  <2> QED
    BY <1>1, <1>7, <1>10, <1>13, <1>14, <2>2, <2>3
<1>17. \A j \in DOMAIN d.words : Good(j)
  <2>1. \A j \in DOMAIN d.words : j \in 1..Len(c.words) \/ j = Len(c.words) + 1
    BY <1>10
  <2> HIDE DEF Good
  <2> QED
    BY <1>15, <1>16, <2>1
<1>18. TakenInv(call[t])'
  BY <1>8, <1>9, <1>11, <1>17 DEF TakenInv, d
<1> QED
  BY <1>5, <1>18 DEF ChainInv

LEMMA FreePageTable ==
    ASSUME LockInv, MemoryInv, FirstTable, CallInv, NEW t \in Client, FreePage(t)
    PROVE  TableInv' /\ LinkInv'
<1>0. PICK p, f : p = call[t].at /\ f = mem[0][p][2]
  OBVIOUS
<1>1. /\ p \in Mapped /\ scheme = "ready"
      /\ vbits' = vbits \ {p} /\ fbits' = fbits \ {f}
      /\ mem' \in [Frame -> [0..(Words - 1) -> Word]]
      /\ mem'[0] = [mem[0] EXCEPT ![p] = NULL]
      /\ mem'[f] = Zeroed
      /\ \A g \in Frame \ {0, f} : mem'[g] = mem[g]
  BY <1>0, FreePageEffect
<1>2. Mapped' = Mapped \ {p}
  BY <1>1 DEF Mapped
<1>3. /\ p \in First /\ p > 0 /\ f \in Frame \ {0} /\ f \in fbits \ Reserved
      /\ mem[0][p] = <<"frame", f>>
      /\ \A q \in Mapped : mem[0][q][2] = f => p = q
  BY <1>0, <1>1, MappedFrame
<1>4. mem[0] \in [0..(Words - 1) -> Word] /\ First = 0..(Words - 1)
  BY FirstProperties DEF MemoryInv, TableInv, First
<1>5. mem'[0][p] = NULL /\ \A q \in First \ {p} : mem'[0][q] = mem[0][q]
  BY <1>1, <1>3, <1>4
<1>6. \A q \in Mapped : /\ q \in First /\ mem[0][q][2] \in Frame
                        /\ mem[0][q] = <<"frame", mem[0][q][2]>>
                        /\ mem[0][q][2] \in fbits \ Reserved /\ mem[0][q][2] # 0
  BY <1>1, MappedFrame
<1>7. mem'[0][0] = <<"frame", 0>>
  BY <1>1, <1>3, <1>5, FirstProperties DEF MemoryInv, TableInv
<1>8. ASSUME NEW q \in Mapped' PROVE \E g \in fbits' \ Reserved : mem'[0][q] = <<"frame", g>>
  <2>1. q \in Mapped /\ q # p /\ mem[0][q][2] # f
    BY <1>2, <1>3
  <2> QED
    BY <1>1, <1>5, <1>6, <2>1
<1>9. ASSUME NEW g \in fbits' \ Reserved PROVE \E q \in Mapped' : mem'[0][q] = <<"frame", g>>
  <2>1. g \in fbits \ Reserved /\ g # f
    BY <1>1
  <2>2. PICK q \in Mapped : mem[0][q] = <<"frame", g>>
    BY <1>1, <2>1 DEF MemoryInv, TableInv
  <2>3. q # p
    BY <1>3, <2>1, <2>2
  <2> QED
    BY <1>2, <1>5, <1>6, <2>2, <2>3
<1>10. \A q, r \in Mapped' : mem'[0][q] = mem'[0][r] => q = r
  <2>1. \A q, r \in Mapped : mem[0][q] = mem[0][r] => q = r
    BY <1>1 DEF MemoryInv, TableInv
  <2> QED
    BY <1>2, <1>5, <1>6, <2>1
<1>11. \A q \in (Tables..(Words - 1)) \ vbits' : mem'[0][q] = NULL
  <2> TAKE q \in (Tables..(Words - 1)) \ vbits'
  <2>1. q \in First /\ (q # p => q \in (Tables..(Words - 1)) \ vbits)
    BY <1>1, VmAssumption DEF First
  <2> QED
    BY <1>1, <1>5, <2>1 DEF MemoryInv, TableInv
<1>12. TableInv'
  <2>1. vbits' \subseteq Page /\ fbits' \subseteq Frame
    BY <1>1 DEF MemoryInv, TableInv
  <2>2. 0 \in vbits' /\ Reserved \subseteq fbits'
    BY <1>1, <1>3 DEF MemoryInv, TableInv
  <2> QED
    BY <1>1, <1>7, <1>8, <1>9, <1>10, <1>11, <2>1, <2>2 DEF TableInv
<1>13. \A g \in Frame \ {0} : \E q \in Page : mem'[g][0] = <<"page", q>>
  <2>1. mem'[f][0] = <<"page", 0>>
    BY <1>1, FirstProperties DEF Zeroed, NULL, First
  <2> QED
    BY <1>1, <2>1, FirstProperties DEF MemoryInv, LinkInv
<1>14. \A q \in Mapped' : Link(q)' = 0 \/ q < Link(q)'
  <2>1. \A q \in Mapped' : q \in Mapped /\ q # p /\ mem[0][q][2] # f
    BY <1>2, <1>3
  <2>2. \A q \in Mapped' : Link(q)' = Link(q)
    BY <1>1, <1>5, <1>6, <2>1 DEF Link
  <2> QED
    BY <2>1, <2>2 DEF MemoryInv, LinkInv
<1> QED
  BY <1>12, <1>13, <1>14 DEF LinkInv

\* The chain goes on above the page that was freed, so that its rest is intact.
LEMMA FreePageChain ==
    ASSUME LockInv, MemoryInv, FirstTable, CallInv, NEW t \in Client, FreePage(t)
    PROVE  ChainInv(t)'
<1>0. PICK p, f, n : p = call[t].at /\ f = mem[0][p][2] /\ n = call[t].left
  OBVIOUS
<1>1. /\ p \in Mapped /\ scheme = "ready"
      /\ vbits' = vbits \ {p}
      /\ mem' \in [Frame -> [0..(Words - 1) -> Word]]
      /\ mem'[0] = [mem[0] EXCEPT ![p] = NULL]
      /\ mem'[f] = Zeroed
      /\ \A g \in Frame \ {0, f} : mem'[g] = mem[g]
      /\ call'[t].at = Link(p) /\ call'[t].left = n - 1
  BY <1>0, FreePageEffect
<1>2. Mapped' = Mapped \ {p}
  BY <1>1 DEF Mapped
<1>3. pc[t] = "free" /\ n \in Nat \ {0} /\ call[t] \in Call /\ p \in Page
  <2>1. pc[t] = "free" /\ call[t].left > 0
    BY DEF FreePage, At
  <2>2. call[t] \in Call
    BY DEF CallInv, CallAt
  <2> QED
    BY <1>0, <2>1, <2>2 DEF Call
<1>4. call \in [Client -> Call] /\ pc \in [Client -> Point]
  BY DEF CallInv, LockInv
<1>5. PICK e \in Page : Run(p, n, e)
  BY <1>0, <1>3 DEF MemoryInv, ChainInv
<1>6. Link(p) \in Page /\ Run(Link(p), n - 1, e)
  BY <1>3, <1>5, RunFirst
<1>7. PICK s \in [0..(n - 1) -> Page] :
             /\ s[0] = Link(p) /\ s[n - 1] = e
             /\ \A i \in 0..((n - 1) - 1) : s[i] \in Mapped /\ s[i + 1] = Link(s[i])
  BY <1>6 DEF Run
<1>8. \A i \in 0..((n - 1) - 1) : s[i] > p
  <2>1. s[0] > p \/ s[0] = 0
    BY <1>1, <1>6, <1>7, FirstProperties DEF MemoryInv, LinkInv, Mapped, Page
  <2>2. n - 1 \in Nat /\ p \in Nat
    BY <1>3 DEF Page
  <2> QED
    BY <1>7, <2>1, <2>2, RunAbove DEF MemoryInv
<1>9. \A q \in Mapped : q # p => Link(q)' = Link(q)
  <2>1. \A q \in Mapped : /\ q \in First /\ mem[0][q][2] \in Frame \ {0}
                          /\ \A r \in Mapped : mem[0][r][2] = mem[0][q][2] => q = r
    BY <1>1, MappedFrame
  <2>2. mem[0] \in [0..(Words - 1) -> Word] /\ First = 0..(Words - 1)
    BY FirstProperties DEF MemoryInv, TableInv, First
  <2>3. \A q \in First \ {p} : mem'[0][q] = mem[0][q]
    BY <1>1, <2>2
  <2> QED
    BY <1>0, <1>1, <2>1, <2>3 DEF Link
<1>10. PICK b : b = Link(p)
  OBVIOUS
<1>11. \A i \in 0..((n - 1) - 1) : s[i] \in Mapped' /\ s[i + 1] = Link(s[i])'
  BY <1>2, <1>3, <1>7, <1>8, <1>9 DEF Page
<1>12. Run(b, n - 1, e)'
  BY <1>7, <1>10, <1>11 DEF Run
<1>13. pc'[t] = "free" /\ call'[t].at = b /\ call'[t].left = n - 1
  BY <1>1, <1>3, <1>4, <1>10 DEF FreePage, Continue, Goto
<1> QED
  BY <1>12, <1>13 DEF ChainInv

\* Nobody else has a chain to keep while a call holds the lock.
LEMMA Others ==
    ASSUME LockInv, NEW t \in Client, Inside(t), NEW where, Goto(t, where),
           NEW u \in Client, u # t
    PROVE  ChainInv(u)'
<1>1. ~ Inside(u)
  BY Alone
<1>2. pc'[u] = pc[u]
  BY DEF LockInv, Goto
<1> QED
  BY <1>1, <1>2 DEF ChainInv, Inside

\* Steps that leave the table alone.
LEMMA SameTable ==
    ASSUME TableInv, mem' \in [Frame -> [0..(Words - 1) -> Word]], mem'[0] = mem[0],
           UNCHANGED <<vbits, fbits>>, scheme' = "ready" => scheme = "ready"
    PROVE  TableInv'
  BY DEF TableInv, Mapped

\* Steps that leave everything but the cache alone.
LEMMA SameMemory ==
    ASSUME MemoryInv, UNCHANGED <<vbits, fbits, mem>>,
           scheme' = "ready" => scheme = "ready"
    PROVE  TableInv' /\ LinkInv' /\ \A b, n, e : Run(b, n, e)' <=> Run(b, n, e)
<1>1. TableInv'
  BY DEF MemoryInv, TableInv, Mapped
<1>2. LinkInv'
  BY DEF MemoryInv, LinkInv, Mapped, Link
<1>3. \A b, n, e : Run(b, n, e)' <=> Run(b, n, e)
  BY DEF Run, Mapped, Link
<1> QED
  BY <1>1, <1>2, <1>3

LEMMA MemoryInit == Init => MemoryInv
<1> SUFFICES ASSUME Init PROVE MemoryInv
  OBVIOUS
<1> USE DEF Init
<1>1. StartInv
  BY DEF StartInv
<1>2. NULL \in Word /\ 0 \in Page
  BY FirstProperties DEF NULL, Word
<1>3. TableInv
  BY <1>2 DEF TableInv, Zeroed
<1>4. LinkInv
  BY <1>2, FirstProperties DEF LinkInv, Mapped, Zeroed, NULL, First
<1>5. CacheInv
  BY TlbAssumption DEF CacheInv, Coherent
<1>6. \A t \in Client : ChainInv(t)
  BY DEF ChainInv
<1> QED
  BY <1>1, <1>3, <1>4, <1>5, <1>6 DEF MemoryInv

\* The directory and the tables take their frames.
LEMMA InitialiseMemory ==
    ASSUME LockInv, MemoryInv, NEW t \in Client, Initialise(t)
    PROVE  MemoryInv'
<1>1. pc[t] = "initialising" /\ scheme = "partial"
  BY DEF Initialise, At, LockInv
<1>2. vbits = {} /\ fbits = {} /\ tlb = <<>> /\ mem = [f \in Frame |-> Zeroed]
  BY <1>1 DEF MemoryInv, StartInv
<1> DEFINE table == [k \in 0..(Words - 1) |-> IF k < Tables THEN <<"frame", 0>> ELSE NULL]
<1>3. /\ scheme' = "ready" /\ vbits' = {0} /\ fbits' = Reserved /\ tlb' = tlb
      /\ mem' = [mem EXCEPT ![0] = table]
  BY <1>2, FirstProperties DEF Initialise, Zeroed
<1>4. NULL \in Word /\ <<"frame", 0>> \in Word /\ 0 \in Page /\ 0 \in Frame /\ 0 \in First
  BY FirstProperties DEF NULL, Word
<1>5. table \in [0..(Words - 1) -> Word] /\ table[0] = <<"frame", 0>>
      /\ \A p \in Tables..(Words - 1) : table[p] = NULL
  BY <1>4, VmAssumption DEF First
<1> HIDE DEF table
<1>6. mem' \in [Frame -> [0..(Words - 1) -> Word]] /\ mem'[0] = table
      /\ \A f \in Frame \ {0} : mem'[f] = Zeroed
  BY <1>2, <1>3, <1>4, <1>5 DEF Zeroed
<1>7. Mapped' = {} /\ fbits' \ Reserved = {}
  BY <1>3 DEF Mapped
<1>8. Reserved \subseteq Frame
  <2>1. Tables * 2 <= Tables * Words
    BY VmAssumption
  <2>2. Tables * Words \in Nat
    BY VmAssumption
  <2> QED
    BY <2>1, <2>2, VmAssumption DEF Reserved, Frame, Page
<1>9. TableInv'
  BY <1>3, <1>4, <1>5, <1>6, <1>7, <1>8 DEF TableInv
<1>10. LinkInv'
  BY <1>4, <1>6, <1>7 DEF LinkInv, Zeroed, NULL, First
<1>11. StartInv' /\ CacheInv'
  BY <1>3 DEF StartInv, CacheInv, MemoryInv
<1>12. \A u \in Client : ChainInv(u)'
  <2> TAKE u \in Client
  <2>1. pc[u] \notin {"map", "check", "free", "copy"}
    BY <1>1 DEF LockInv, LockExcludes, Inside
  <2>2. pc'[u] \in {pc[u], "initialised"}
    BY DEF Initialise, Goto, LockInv
  <2> QED
    BY <2>1, <2>2 DEF ChainInv
<1> QED
  BY <1>9, <1>10, <1>11, <1>12 DEF MemoryInv

\* Steps of no call that holds the lock, and those that end one: memory stays.
LEMMA QuietMemory ==
    ASSUME MemoryInv, UNCHANGED memory, scheme' = "ready" <=> scheme = "ready",
           \A u \in Client : \/ pc'[u] = pc[u] /\ call'[u] = call[u]
                             \/ pc'[u] \notin {"map", "check", "free", "copy"}
    PROVE  MemoryInv'
<1>1. TableInv' /\ LinkInv' /\ \A b, n, e : Run(b, n, e)' <=> Run(b, n, e)
  BY SameMemory DEF memory
<1>2. StartInv' /\ CacheInv'
  BY DEF MemoryInv, StartInv, CacheInv, memory
<1>3. ASSUME NEW u \in Client PROVE ChainInv(u)'
  <2>1. CASE pc'[u] \notin {"map", "check", "free", "copy"}
    BY <2>1 DEF ChainInv
  <2>2. CASE pc'[u] = pc[u] /\ call'[u] = call[u]
    <3>1. ChainInv(u)
      BY DEF MemoryInv
    <3>2. pc[u] = "map" => TakenInv(call[u])'
      BY <2>2, <3>1 DEF ChainInv, TakenInv, Mapped, memory
    <3>3. pc[u] = "check" => Run(call[u].base, Total(call[u]) - call[u].left, call[u].at)'
      BY <1>1, <2>2, <3>1 DEF ChainInv, Total
    <3>4. pc[u] = "free" => (\E e \in Page : Run(call[u].at, call[u].left, e))'
      BY <1>1, <2>2, <3>1 DEF ChainInv
    <3>5. pc[u] = "copy" =>
             (\E e \in Page : Run(call[u].at, Pages(call[u].off + call[u].left), e))'
      BY <1>1, <2>2, <3>1 DEF ChainInv
    <3> QED
      BY <2>2, <3>2, <3>3, <3>4, <3>5 DEF ChainInv
  <2> QED
    BY <2>1, <2>2
<1> QED
  BY <1>1, <1>2, <1>3 DEF MemoryInv

\* t_malloc has counted: everything is there to be taken.
LEMMA MallocFitsMemory ==
    ASSUME LockInv, MemoryInv, CallInv, NEW t \in Client, MallocFits(t)
    PROVE  MemoryInv'
<1> DEFINE c == call[t]
<1>1. pc[t] = "allocate" /\ Inside(t) /\ scheme = "ready"
  BY Alone DEF MallocFits, At, Inside
<1>2. /\ UNCHANGED memory /\ scheme' = scheme /\ Goto(t, "map")
      /\ call' = [call EXCEPT ![t] = c] /\ Fits(c)
  BY DEF MallocFits, Continue
<1>3. c \in Call /\ c.op = "malloc" /\ c.words = <<>> /\ c.left = Pages(c.size)
      /\ call'[t] = c /\ pc'[t] = "map"
  BY <1>1, <1>2 DEF CallInv, CallAt, LockInv, Goto
<1>4. TableInv' /\ LinkInv'
  BY <1>2, SameMemory DEF memory
<1>5. StartInv' /\ CacheInv'
  BY <1>2 DEF MemoryInv, StartInv, CacheInv, memory
<1>6. TakenInv(c)
  <2>1. c.size > 0 /\ Cardinality(Page \ vbits) >= c.left /\ Cardinality(Page \ fbits) >= c.left
    BY <1>2 DEF Fits, Available
  <2>2. Cardinality(Page \ vbits) \in Nat /\ Cardinality(Page \ fbits) \in Nat /\ c.left \in Nat
    BY <1>3, FreeBits DEF MemoryInv, TableInv, Frame, Call
  <2> QED
    BY <1>3, <2>1, <2>2 DEF TakenInv, Frame
<1>7. ChainInv(t)'
  <2>1. TakenInv(call[t])'
    BY <1>2, <1>3, <1>6 DEF TakenInv, Mapped, memory
  <2> QED
    BY <1>3, <2>1 DEF ChainInv
<1>8. \A u \in Client : ChainInv(u)'
  BY <1>1, <1>2, <1>7, Others
<1> QED
  BY <1>4, <1>5, <1>8 DEF MemoryInv

LEMMA MapPageMemory ==
    ASSUME LockInv, MemoryInv, FirstTable, FirstTable', CallInv, NEW t \in Client, MapPage(t)
    PROVE  MemoryInv'
<1>1. Inside(t) /\ scheme = "ready" /\ scheme' = scheme /\ Goto(t, "map")
  BY Alone DEF MapPage, At, Inside, Continue
<1>2. CacheInv'
  BY MapPageEffect DEF CacheInv
<1>3. StartInv'
  BY <1>1 DEF StartInv
<1>4. \A u \in Client : ChainInv(u)'
  BY <1>1, MapPageChain, Others
<1> QED
  BY <1>2, <1>3, <1>4, MapPageTable DEF MemoryInv

LEMMA FreePageMemory ==
    ASSUME LockInv, MemoryInv, FirstTable, CallInv, NEW t \in Client, FreePage(t)
    PROVE  MemoryInv'
<1>1. Inside(t) /\ scheme = "ready"
  BY Alone DEF FreePage, At, Inside
<1>2. scheme' = scheme /\ Goto(t, "free")
  <2>1. \E c : Continue(t, "free", c)
    BY DEF FreePage
  <2> QED
    BY <2>1 DEF Continue
<1>3. CacheInv'
  BY FreePageEffect DEF CacheInv
<1>4. StartInv'
  BY <1>1, <1>2 DEF StartInv
<1>5. \A u \in Client : ChainInv(u)'
  BY <1>1, <1>2, FreePageChain, Others
<1> QED
  BY <1>3, <1>4, <1>5, FreePageTable DEF MemoryInv

LEMMA MallocReturnsMemory ==
    ASSUME LockInv, MemoryInv, FirstTable, CallInv, NEW t \in Client, MallocReturns(t)
    PROVE  MemoryInv'
<1>1. /\ Inside(t) /\ scheme = "ready"
      /\ UNCHANGED <<vbits, fbits, tlb>>
      /\ mem' \in [Frame -> [0..(Words - 1) -> Word]]
      /\ mem'[0] = mem[0]
      /\ \A f \in Frame \ {0} : \E p \in Page : mem'[f][0] = <<"page", p>>
      /\ \A p \in Mapped : Link(p)' = 0 \/ p < Link(p)'
  BY MallocReturnsEffect
<1>2. scheme' = scheme /\ Goto(t, "idle")
  BY DEF MallocReturns, Return
<1>3. TableInv'
  BY <1>1, <1>2, SameTable DEF MemoryInv
<1>4. LinkInv'
  BY <1>1 DEF LinkInv, Mapped
<1>5. StartInv' /\ CacheInv'
  BY <1>1, <1>2 DEF StartInv, CacheInv, MemoryInv
<1>6. ChainInv(t)'
  BY <1>2 DEF LockInv, Goto, ChainInv
<1>7. \A u \in Client : ChainInv(u)'
  BY <1>1, <1>2, <1>6, Others
<1> QED
  BY <1>3, <1>4, <1>5, <1>7 DEF MemoryInv

\* The check goes one page on ...
LEMMA CheckPageMemory ==
    ASSUME LockInv, MemoryInv, FirstTable, CallInv, NEW t \in Client, CheckPage(t)
    PROVE  MemoryInv' /\ mem[FrameAt(call[t].at)][0][2] \in Page
<1>0. PICK p, n, b, k : /\ p = call[t].at /\ n = call[t].left /\ b = call[t].base
                        /\ k = Total(call[t])
  OBVIOUS
<1>1. pc[t] = "check" /\ Inside(t) /\ scheme = "ready" /\ p \in Mapped /\ n > 0
  BY <1>0, Alone DEF CheckPage, At, Inside, UsablePage, Mapped
<1>2. /\ UNCHANGED <<vbits, fbits, mem>> /\ scheme' = scheme /\ Goto(t, "check")
      /\ tlb' = Touched(tlb, p)
      /\ call' = [call EXCEPT ![t] = [call[t] EXCEPT !.at = mem[FrameAt(p)][0][2],
                                                     !.left = n - 1]]
  BY <1>0 DEF CheckPage, Continue
<1>3. /\ p \in First /\ mem[0][0] = <<"frame", 0>>
      /\ FrameAt(p) = mem[0][p][2] /\ Link(p) \in Page
  BY <1>1, MappedFrame
<1>4. /\ call[t] \in Call /\ call \in [Client -> Call]
      /\ call[t].op \in {"free", "put", "get"} /\ n <= k /\ n \in Nat
      /\ b \in Page
  BY <1>0, <1>1 DEF CallInv, CallAt, Call
<1>5. k \in Nat
  <2>1. call[t].size \in Nat /\ call[t].off + call[t].size \in Nat
    BY <1>4 DEF Call
  <2> QED
    BY <1>0, <2>1, PagesProperties DEF Total
<1>6. /\ pc'[t] = "check" /\ call'[t].at = Link(p) /\ call'[t].left = n - 1
      /\ call'[t].base = b /\ Total(call'[t]) = k
  BY <1>0, <1>2, <1>3, <1>4 DEF Goto, LockInv, Call, Total, Link
<1>7. TableInv' /\ LinkInv' /\ \A x, y, z : Run(x, y, z)' <=> Run(x, y, z)
  BY <1>2, SameMemory
<1>8. StartInv'
  BY <1>1, <1>2 DEF StartInv
<1>9. CacheInv'
  BY <1>2, <1>3, TranslateFirst DEF MemoryInv, CacheInv
<1>10. Run(b, k - n, p)
  BY <1>0, <1>1 DEF MemoryInv, ChainInv
<1>11. Run(b, k - (n - 1), Link(p))
  <2>1. k - n \in Nat /\ (k - n) + 1 = k - (n - 1)
    BY <1>4, <1>5
  <2>2. Run(b, (k - n) + 1, Link(p))
    BY <1>1, <1>3, <1>4, <1>10, <2>1, RunOnward
  <2> QED
    BY <2>1, <2>2
<1>12. ChainInv(t)'
  <2>1. PICK q : q = Link(p)
    OBVIOUS
  <2>2. Run(b, k - (n - 1), q)'
    BY <1>7, <1>11, <2>1
  <2>3. Run(call[t].base, Total(call[t]) - call[t].left, call[t].at)'
    BY <1>6, <2>1, <2>2
  <2> QED
    BY <1>6, <2>3 DEF ChainInv
<1>13. \A u \in Client : ChainInv(u)'
  BY <1>1, <1>2, <1>12, Others
<1> QED
  BY <1>0, <1>3, <1>7, <1>8, <1>9, <1>13 DEF MemoryInv, Link

\* ... and when it is through, the call has its pages before it.
LEMMA CheckPassesMemory ==
    ASSUME LockInv, MemoryInv, CallInv, NEW t \in Client, CheckPasses(t)
    PROVE  MemoryInv'
<1>0. PICK c, d : c = call[t] /\ d = call'[t]
  OBVIOUS
<1>1. /\ pc[t] = "check" /\ Inside(t) /\ scheme = "ready" /\ c.left = 0
      /\ UNCHANGED memory
  BY <1>0, Alone DEF CheckPasses, At, Inside
<1>2. c \in Call /\ call \in [Client -> Call] /\ pc \in [Client -> Point]
      /\ c.op \in {"free", "put", "get"} /\ c.base \in Page
  BY <1>0, <1>1 DEF CallInv, CallAt, LockInv, Call
<1>3. PICK e \in Page : Run(c.base, Total(c), e)
  <2>1. Run(c.base, Total(c) - c.left, c.at) /\ c.at \in Page
    BY <1>0, <1>1, <1>2 DEF MemoryInv, ChainInv, Call
  <2>2. Total(c) \in Nat
    <3>1. c.size \in Nat /\ c.off + c.size \in Nat
      BY <1>2 DEF Call
    <3> QED
      BY <3>1, PagesProperties DEF Total
  <2> QED
    BY <1>1, <2>1, <2>2
<1>4. /\ TableInv' /\ LinkInv' /\ StartInv' /\ CacheInv'
      /\ Run(c.base, Total(c), e)' /\ scheme' = scheme
      /\ \E where : Goto(t, where)
  <2>1. scheme' = scheme /\ \E where : Goto(t, where)
    BY DEF CheckPasses, Continue
  <2>2. TableInv' /\ LinkInv' /\ Run(c.base, Total(c), e)'
    BY <1>1, <1>3, <2>1, SameMemory DEF memory
  <2> QED
    BY <1>1, <2>1, <2>2 DEF MemoryInv, StartInv, CacheInv, memory
<1>5. ChainInv(t)'
  <2>1. CASE c.op = "free"
    <3>1. Continue(t, "free", [c EXCEPT !.at = c.base, !.left = Pages(c.size)])
      BY <1>0, <2>1 DEF CheckPasses
    <3>2. pc'[t] = "free" /\ d.at = c.base /\ d.left = Total(c)
      BY <1>0, <1>2, <2>1, <3>1 DEF Continue, Goto, Call, Total
    <3> QED
      BY <1>0, <1>4, <3>2 DEF ChainInv
  <2>2. CASE c.op # "free"
    <3>1. Continue(t, "copy", [c EXCEPT !.at = c.base, !.left = c.size])
      BY <1>0, <2>2 DEF CheckPasses
    <3>2. pc'[t] = "copy" /\ d.at = c.base /\ Pages(d.off + d.left) = Total(c)
      BY <1>0, <1>2, <2>2, <3>1 DEF Continue, Goto, Call, Total
    <3> QED
      BY <1>0, <1>4, <3>2 DEF ChainInv
  <2> QED
    BY <2>1, <2>2
<1>6. \A u \in Client : ChainInv(u)'
  BY <1>1, <1>4, <1>5, Others
<1> QED
  BY <1>4, <1>6 DEF MemoryInv

\* put_value_aux and get_value_aux: the page they are at, and the rest.
LEMMA CopyAhead ==
    ASSUME LockInv, MemoryInv, FirstTable, CallInv, NEW t \in Client, pc[t] = "copy",
           NEW c, c = call[t]
    PROVE  /\ c.at \in Mapped /\ FrameAt(c.at) = mem[0][c.at][2]
           /\ c \in Call /\ Link(c.at) \in Page
           /\ c.left > Room(c) =>
                 /\ c.left - Room(c) \in 1..c.size
                 /\ \E e \in Page : Run(Link(c.at), Pages(0 + (c.left - Room(c))), e)
<1>1. /\ scheme = "ready" /\ c \in Call /\ c.left \in 1..c.size
  BY Alone DEF Inside, CallInv, CallAt
<1>2. /\ c.at \in Page /\ c.left \in Nat /\ c.size \in Nat /\ c.off \in Nat
      /\ Room(c) \in Nat /\ Room(c) = Payload - c.off
  BY <1>1, FirstProperties DEF Call, Room
<1>3. PICK e \in Page : Run(c.at, Pages(c.off + c.left), e)
  BY DEF MemoryInv, ChainInv
<1>4. Pages(c.off + c.left) \in Nat \ {0}
  BY <1>1, <1>2, PagesProperties
<1>5. /\ c.at \in Mapped /\ Link(c.at) \in Page
      /\ Run(Link(c.at), Pages(c.off + c.left) - 1, e)
  BY <1>2, <1>3, <1>4, RunFirst
<1>6. FrameAt(c.at) = mem[0][c.at][2]
  BY <1>1, <1>5, MappedFrame
<1>7. ASSUME c.left > Room(c)
      PROVE  /\ c.left - Room(c) \in 1..c.size
             /\ Run(Link(c.at), Pages(0 + (c.left - Room(c))), e)
  <2>1. c.left - Room(c) \in 1..c.size /\ 0 + (c.left - Room(c)) \in Nat
    BY <1>1, <1>2, <1>7
  <2>2. c.off + c.left = (0 + (c.left - Room(c))) + Payload
    BY <1>2, FirstProperties
  <2>3. Pages(c.off + c.left) = Pages(0 + (c.left - Room(c))) + 1
    BY <2>1, <2>2, PagesProperties
  <2>4. Pages(c.off + c.left) - 1 = Pages(0 + (c.left - Room(c)))
    BY <2>1, <2>3, PagesProperties
  <2> QED
    BY <1>5, <2>1, <2>4
<1> QED
  BY <1>1, <1>5, <1>6, <1>7

LEMMA PutPageMemory ==
    ASSUME LockInv, MemoryInv, FirstTable, CallInv, NEW t \in Client, PutPage(t)
    PROVE  MemoryInv'
<1>0. PICK c, p, f, n : /\ c = call[t] /\ p = c.at /\ f = mem[0][p][2]
                        /\ n = c.left - Room(c)
  OBVIOUS
<1>1. /\ p \in Mapped /\ scheme = "ready" /\ Inside(t)
      /\ UNCHANGED <<vbits, fbits>>
      /\ mem' \in [Frame -> [0..(Words - 1) -> Word]]
      /\ \A g \in Frame \ {f} : mem'[g] = mem[g]
      /\ mem'[f][0] = mem[f][0]
      /\ Coherent(tlb', First, Row)
  BY <1>0, PutPageEffect
<1>2. pc[t] = "copy"
  BY DEF PutPage, At
<1>3. /\ c \in Call /\ Link(p) \in Page /\ FrameAt(p) = f
      /\ c.left > Room(c) => \E e \in Page : Run(Link(p), Pages(0 + n), e)
  BY <1>0, <1>2, CopyAhead
<1>4. \A q \in Mapped : mem[0][q][2] \in Frame \ {0}
  BY <1>1, MappedFrame
<1>5. mem'[0] = mem[0]
  BY <1>0, <1>1, <1>4, FirstProperties
<1>6. \A g \in Frame : mem'[g][0] = mem[g][0]
  BY <1>1
<1>7. \A q \in Mapped : Link(q)' = Link(q)
  BY <1>4, <1>5, <1>6 DEF Link
<1>8. Mapped' = Mapped
  BY <1>1 DEF Mapped
<1>9. scheme' = scheme /\ \E where : Goto(t, where)
  BY DEF PutPage, Return, Continue
<1>10. TableInv'
  BY <1>1, <1>5, <1>9, SameTable DEF MemoryInv
<1>11. LinkInv'
  BY <1>6, <1>7, <1>8 DEF MemoryInv, LinkInv
<1>12. StartInv' /\ CacheInv'
  BY <1>1, <1>9 DEF StartInv, CacheInv
<1>13. ChainInv(t)'
  <2>1. CASE c.left <= Room(c)
    <3>1. Goto(t, "idle")
      BY <1>0, <2>1 DEF PutPage, Return
    <3> QED
      BY <3>1 DEF ChainInv, Goto, LockInv
  <2>2. CASE ~ (c.left <= Room(c))
    <3>1. Continue(t, "copy", Onto(c, f))
      BY <1>0, <1>3, <2>2 DEF PutPage
    <3>2. c.left > Room(c)
      BY <1>3, <2>2, FirstProperties DEF Call, Room
    <3>3. PICK b, e \in Page : b = Link(p) /\ Run(b, Pages(0 + n), e)
      BY <1>3, <3>2
    <3>4. /\ pc'[t] = "copy" /\ call'[t].at = b /\ call'[t].off = 0
          /\ call'[t].left = n
      BY <1>0, <1>3, <3>1, <3>3 DEF Continue, Goto, Onto, Call, CallInv, LockInv, Link
    <3>5. Pages(0 + n) \in Nat
      <4>1. 0 + n \in Nat
        BY <1>0, <1>2, <3>2, CopyAhead
      <4> QED
        BY <4>1, PagesProperties
    <3>6. Run(b, Pages(0 + n), e)'
      BY <1>7, <1>8, <3>3, <3>5, RunStable
    <3> QED
      BY <3>4, <3>6 DEF ChainInv
  <2> QED
    BY <2>1, <2>2
<1>14. \A u \in Client : ChainInv(u)'
  BY <1>1, <1>9, <1>13, Others
<1> QED
  BY <1>10, <1>11, <1>12, <1>14 DEF MemoryInv

LEMMA GetPageMemory ==
    ASSUME LockInv, MemoryInv, FirstTable, CallInv, NEW t \in Client, GetPage(t)
    PROVE  MemoryInv'
<1>0. PICK c, p, f, n : /\ c = call[t] /\ p = c.at /\ f = mem[0][p][2]
                        /\ n = c.left - Room(c)
  OBVIOUS
<1>1. pc[t] = "copy" /\ Inside(t) /\ scheme = "ready" /\ UNCHANGED <<vbits, fbits, mem>>
      /\ tlb' = Touched(tlb, p)
  BY <1>0, Alone DEF GetPage, At, Inside
<1>2. /\ c \in Call /\ Link(p) \in Page /\ FrameAt(p) = f /\ p \in Mapped
      /\ c.left > Room(c) => \E e \in Page : Run(Link(p), Pages(0 + n), e)
  BY <1>0, <1>1, CopyAhead
<1>3. scheme' = scheme /\ \E where : Goto(t, where)
  BY DEF GetPage, Return, Continue
<1>4. TableInv' /\ LinkInv' /\ \A x, y, z : Run(x, y, z)' <=> Run(x, y, z)
  BY <1>1, <1>3, SameMemory
<1>5. StartInv' /\ CacheInv'
  <2>1. p \in First /\ mem[0][0] = <<"frame", 0>>
    BY <1>1, <1>2, MappedFrame
  <2> QED
    BY <1>1, <1>3, <2>1, TranslateFirst DEF MemoryInv, StartInv, CacheInv
<1>6. ChainInv(t)'
  <2>1. CASE c.left <= Room(c)
    <3>1. Goto(t, "idle")
      BY <1>0, <2>1 DEF GetPage, Return
    <3> QED
      BY <3>1 DEF ChainInv, Goto, LockInv
  <2>2. CASE ~ (c.left <= Room(c))
    <3>1. PICK read : Continue(t, "copy", [Onto(c, f) EXCEPT !.words = read])
      BY <1>0, <1>2, <2>2 DEF GetPage
    <3>2. c.left > Room(c)
      BY <1>2, <2>2, FirstProperties DEF Call, Room
    <3>3. PICK b, e \in Page : b = Link(p) /\ Run(b, Pages(0 + n), e)
      BY <1>2, <3>2
    <3>4. /\ pc'[t] = "copy" /\ call'[t].at = b /\ call'[t].off = 0
          /\ call'[t].left = n
      <4> DEFINE d == [Onto(c, f) EXCEPT !.words = read]
      <4>1. d.at = b /\ d.off = 0 /\ d.left = n
        BY <1>0, <1>2, <3>3 DEF Onto, Call, Link
      <4> HIDE DEF d
      <4>2. call' = [call EXCEPT ![t] = d] /\ pc' = [pc EXCEPT ![t] = "copy"]
        BY <3>1 DEF Continue, Goto, d
      <4> QED
        BY <4>1, <4>2 DEF CallInv, LockInv
    <3>5. Run(b, Pages(0 + n), e)'
      BY <1>4, <3>3
    <3> QED
      BY <3>4, <3>5 DEF ChainInv
  <2> QED
    BY <2>1, <2>2
<1>7. \A u \in Client : ChainInv(u)'
  BY <1>1, <1>3, <1>6, Others
<1> QED
  BY <1>4, <1>5, <1>7 DEF MemoryInv

-----------------------------------------------------------------------------
(* The invariant of the calls.                                             *)

LEMMA NoCallType == NoCall \in Call
<1>1. 0 \in Page /\ 0 \in 0..(Words - 1)
  BY FirstProperties DEF First
<1> QED
  BY <1>1 DEF NoCall, Call

LEMMA CallInit == Init => CallInv
  BY NoCallType DEF Init, CallInv, CallAt, NoCall

LEMMA CallStep ==
    ASSUME CallInv, LockInv, NEW t \in Client, NEW where, NEW c \in Call, CallAt(where, c),
           Begin(t, where, c)
    PROVE  CallInv'
  BY DEF CallInv, LockInv, Begin, Goto

\* A step that returns.
LEMMA CallReturns ==
    ASSUME CallInv, LockInv, NEW t \in Client, NEW value, NEW n, Return(t, value, n)
    PROVE  CallInv'
<1>1. Begin(t, "idle", NoCall) /\ CallAt("idle", NoCall)
  BY DEF Return, Begin, CallAt, NoCall
<1> QED
  BY <1>1, NoCallType, CallStep

LEMMA CallBegins ==
    ASSUME CallInv, LockInv, NEW t \in Client, ClientStep(t)
    PROVE  CallInv'
<1>0. 0 \in Page /\ 0 \in 0..(Words - 1) /\ Words - 1 \in Nat
  BY FirstProperties, VmAssumption DEF First
<1>1. ASSUME NEW size \in Requests, MallocCall(t, size) PROVE CallInv'
  <2> DEFINE c == [NoCall EXCEPT !.op = "malloc", !.size = size, !.left = Pages(size)]
  <2>1. size \in Nat /\ Pages(size) \in Nat
    BY VmAssumption, PagesProperties
  <2>2. c \in Call
    BY <2>1, NoCallType DEF Call
  <2>3. CallAt("spin", c)
    BY <2>1 DEF NoCall, CallAt
  <2>4. Begin(t, "spin", c)
    BY <1>1 DEF MallocCall
  <2> QED
    BY <2>2, <2>3, <2>4, CallStep
<1>2. ASSUME NEW b \in Page, NEW size \in Requests, FreeCall(t, b, size) PROVE CallInv'
  <2> DEFINE c == [NoCall EXCEPT !.op = "free", !.base = b, !.size = size,
                                 !.at = b, !.left = Pages(size)]
  <2>1. size \in Nat /\ Pages(size) \in Nat
    BY VmAssumption, PagesProperties
  <2>2. c \in Call
    BY <2>1, NoCallType DEF Call
  <2>3. CallAt("lock", c)
    BY <2>1 DEF NoCall, CallAt, Total
  <2>4. Begin(t, "lock", c)
    BY <1>2 DEF FreeCall
  <2> QED
    BY <2>2, <2>3, <2>4, CallStep
<1>3. ASSUME NEW b \in Page, NEW size \in Requests, FreeNothing(t, b, size) PROVE CallInv'
  BY <1>3 DEF FreeNothing, CallInv
<1>4. ASSUME NEW op \in {"put", "get"}, NEW b \in Page, NEW a \in Accesses,
             NEW v \in Values \cup {NoClient}, op = "put" => v \in Values,
             AccessCall(t, op, b, a, v)
      PROVE  CallInv'
  <2> DEFINE c == [NoCall EXCEPT !.op = op, !.base = b, !.size = a[2], !.off = a[1],
                                 !.val = v, !.at = b, !.left = Pages(a[1] + a[2])]
  <2>1. a[1] \in 0..(Words - 1) /\ a[2] \in Nat /\ a[1] + a[2] \in Nat
    BY <1>0, VmAssumption
  <2>2. Pages(a[1] + a[2]) \in Nat
    BY <2>1, PagesProperties
  <2>3. c \in Call
    BY <1>4, <2>1, <2>2, NoCallType DEF Call
  <2>4. CallAt("lock", c)
    BY <1>4, <2>1, <2>2 DEF NoCall, CallAt, Total
  <2>5. Begin(t, "lock", c)
    BY <1>4 DEF AccessCall
  <2> QED
    BY <2>3, <2>4, <2>5, CallStep
<1> QED
  BY <1>1, <1>2, <1>3, <1>4 DEF ClientStep, PutCall, GetCall

\* Through the initialisation, and to the lock.
LEMMA CallMoves ==
    ASSUME CallInv, LockInv, NEW t \in Client,
           Spin(t) \/ Initialise(t) \/ Unspin(t) \/ Lock(t) \/ CheckFailsInGet(t) \/ StrayGet(t)
    PROVE  CallInv'
<1>1. CallAt(pc[t], call[t]) /\ call[t] \in Call
  BY DEF CallInv
<1>2. ASSUME NEW where, Goto(t, where), CallAt(where, call[t]), call' = call
      PROVE  CallInv'
  BY <1>2 DEF Goto, CallInv, LockInv
<1>3. CASE Spin(t)
  BY <1>1, <1>2, <1>3 DEF Spin, At, CallAt
<1>4. CASE Initialise(t)
  BY <1>1, <1>2, <1>4 DEF Initialise, At, CallAt
<1>5. CASE Unspin(t)
  BY <1>1, <1>2, <1>5 DEF Unspin, At, CallAt
<1>6. CASE Lock(t)
  <2>1. call[t].op # "malloc" => call[t].left <= Total(call[t])
    <3>1. call[t].left \in Nat
      BY <1>1 DEF Call
    <3> QED
      BY <1>1, <1>6, <3>1 DEF Lock, At, CallAt
  <2> QED
    BY <1>1, <1>2, <1>6, <2>1 DEF Lock, At, CallAt, Call
<1>7. CASE CheckFailsInGet(t)
  BY <1>1, <1>2, <1>7 DEF CheckFailsInGet, At, CallAt
<1>8. CASE StrayGet(t)
  BY <1>8 DEF StrayGet, CallInv
<1> QED
  BY <1>3, <1>4, <1>5, <1>6, <1>7, <1>8

\* Under the lock.
LEMMA CallContinues ==
    ASSUME CallInv, LockInv, NEW t \in Client, NEW where, NEW c \in Call, CallAt(where, c),
           Continue(t, where, c)
    PROVE  CallInv'
<1>1. Begin(t, where, c)
  BY DEF Continue, Begin
<1> QED
  BY <1>1, CallStep

LEMMA MallocCalls ==
    ASSUME LockInv, MemoryInv, FirstTable', CallInv, NEW t \in Client,
           MallocFails(t) \/ MallocFits(t) \/ MapPage(t) \/ MallocReturns(t)
    PROVE  CallInv'
<1>0. call[t] \in Call /\ CallAt(pc[t], call[t])
  BY DEF CallInv
<1>1. CASE MallocFails(t)
  BY <1>1, CallReturns DEF MallocFails
<1>2. CASE MallocFits(t)
  <2>1. Continue(t, "map", call[t]) /\ CallAt("map", call[t])
    BY <1>0, <1>2 DEF MallocFits, At, CallAt
  <2> QED
    BY <1>0, <2>1, CallContinues
<1>3. CASE MapPage(t)
  <2>0. PICK p, f : p = LowestFree(vbits) /\ f = LowestFree(fbits)
    OBVIOUS
  <2>1. p \in Page /\ f \in Frame
    BY <1>3, <2>0, MapPageEffect, FirstProperties
  <2> DEFINE c == call[t]
             d == [c EXCEPT !.left = c.left - 1, !.words = Append(c.words, <<p, f>>)]
  <2>2. Continue(t, "map", d) /\ c.left > 0 /\ pc[t] = "map"
    BY <1>3, <2>0 DEF MapPage, At
  <2>3. c.left - 1 \in Nat /\ Append(c.words, <<p, f>>) \in Seq((Page \X Frame) \cup Word)
    BY <1>0, <2>1, <2>2 DEF Call
  <2>4. d \in Call
    BY <1>0, <2>3 DEF Call
  <2>5. CallAt("map", d)
    BY <1>0, <2>2 DEF CallAt, Call
  <2> HIDE DEF d
  <2> QED
    BY <2>2, <2>4, <2>5, CallContinues
<1>4. CASE MallocReturns(t)
  BY <1>4, CallReturns DEF MallocReturns
<1> QED
  BY <1>1, <1>2, <1>3, <1>4

LEMMA CheckCalls ==
    ASSUME LockInv, MemoryInv, FirstTable, CallInv, NEW t \in Client,
           CheckPage(t) \/ CheckPasses(t) \/ CheckFails(t)
    PROVE  CallInv'
<1> DEFINE c == call[t]
<1>0. c \in Call /\ CallAt(pc[t], c)
  BY DEF CallInv
<1>1. CASE CheckPage(t)
  <2> DEFINE at == mem[FrameAt(c.at)][0][2]
             d  == [c EXCEPT !.at = at, !.left = c.left - 1]
  <2>1. Continue(t, "check", d) /\ pc[t] = "check" /\ c.left > 0
    BY <1>1 DEF CheckPage, At
  <2>2. at \in Page
    BY <1>1, CheckPageMemory
  <2> HIDE DEF at
  <2>3. d \in Call
    <3>1. c.left - 1 \in Nat
      BY <1>0, <2>1 DEF Call
    <3> QED
      BY <1>0, <2>2, <3>1 DEF Call
  <2>4. CallAt("check", d)
    <3>1. Total(d) = Total(c) /\ d.left <= Total(c) /\ d.op = c.op /\ d.size = c.size
          /\ d.val = c.val
      <4>1. c.left <= Total(c) /\ c.left \in Nat /\ Total(c) \in Nat
        <5>1. c.size \in Nat /\ c.off + c.size \in Nat
          BY <1>0 DEF Call
        <5> QED
          BY <1>0, <2>1, <5>1, PagesProperties DEF Total, CallAt, Call
      <4>2. Total(d) = Total(c) /\ d.left = c.left - 1 /\ d.op = c.op /\ d.size = c.size
            /\ d.val = c.val
        BY <1>0 DEF Call, Total
      <4> QED
        BY <4>1, <4>2
    <3> QED
      BY <1>0, <2>1, <3>1 DEF CallAt
  <2> HIDE DEF d
  <2> QED
    BY <2>1, <2>3, <2>4, CallContinues
<1>2. CASE CheckPasses(t)
  <2>0. pc[t] = "check" /\ c.op \in {"free", "put", "get"} /\ c.size \in Nat /\ c.base \in Page
    BY <1>0, <1>2 DEF CheckPasses, At, CallAt, Call
  <2>1. CASE c.op = "free"
    <3> DEFINE d == [c EXCEPT !.at = c.base, !.left = Pages(c.size)]
    <3>1. Continue(t, "free", d)
      BY <1>2, <2>1 DEF CheckPasses
    <3>2. Pages(c.size) \in Nat
      BY <2>0, PagesProperties
    <3>3. d \in Call
      BY <1>0, <2>0, <3>2 DEF Call
    <3>4. CallAt("free", d)
      BY <1>0, <2>1 DEF CallAt, Call
    <3> HIDE DEF d
    <3> QED
      BY <3>1, <3>3, <3>4, CallContinues
  <2>2. CASE c.op \in {"put", "get"}
    <3> DEFINE d == [c EXCEPT !.at = c.base, !.left = c.size]
    <3>1. Continue(t, "copy", d)
      BY <1>2, <2>2 DEF CheckPasses
    <3>2. d \in Call
      BY <1>0, <2>0 DEF Call
    <3>3. CallAt("copy", d)
      <4>1. PICK a \in Accesses : c.size = a[2]
        BY <1>0, <2>2 DEF CallAt
      <4>2. c.size \in Nat \ {0}
        BY <4>1, VmAssumption
      <4>3. d.left = c.size /\ d.size = c.size /\ d.op = c.op /\ d.val = c.val
        BY <1>0 DEF Call
      <4> HIDE DEF d
      <4> QED
        BY <1>0, <2>2, <4>1, <4>2, <4>3 DEF CallAt
    <3> HIDE DEF d
    <3> QED
      BY <3>1, <3>2, <3>3, CallContinues
  <2> QED
    BY <2>0, <2>1, <2>2
<1>3. CASE CheckFails(t)
  BY <1>3, CallReturns DEF CheckFails
<1> QED
  BY <1>1, <1>2, <1>3

LEMMA FreeCalls ==
    ASSUME LockInv, MemoryInv, FirstTable, CallInv, NEW t \in Client,
           FreePage(t) \/ FreeReturns(t)
    PROVE  CallInv'
<1>0. call[t] \in Call /\ CallAt(pc[t], call[t])
  BY DEF CallInv
<1>1. CASE FreePage(t)
  <2> DEFINE c == call'[t]
  <2>0. PICK p, f : p = call[t].at /\ f = mem[0][p][2]
    OBVIOUS
  <2>1. p \in Mapped /\ scheme = "ready" /\ c.at = Link(p) /\ c.left = call[t].left - 1
    BY <1>1, <2>0, FreePageEffect
  <2>2. Link(p) \in Page
    BY <2>1, MappedFrame
  <2>3. pc[t] = "free" /\ call[t].left > 0
        /\ \E at : Continue(t, "free", [call[t] EXCEPT !.at = at, !.left = call[t].left - 1])
    BY <1>1 DEF FreePage, At
  <2>4. PICK at : Continue(t, "free", [call[t] EXCEPT !.at = at, !.left = call[t].left - 1])
    BY <2>3
  <2> DEFINE d == [call[t] EXCEPT !.at = at, !.left = call[t].left - 1]
  <2>5. c = d
    BY <2>4 DEF Continue, CallInv
  <2>6. d.at = at /\ at \in Page
    BY <1>0, <2>1, <2>2, <2>5 DEF Call
  <2>7. d \in Call
    <3>1. call[t].left - 1 \in Nat
      BY <1>0, <2>3 DEF Call
    <3> QED
      BY <1>0, <2>6, <3>1 DEF Call
  <2>8. CallAt("free", d)
    BY <1>0, <2>3 DEF CallAt, Call
  <2> HIDE DEF d
  <2> QED
    BY <2>4, <2>7, <2>8, CallContinues DEF d
<1>2. CASE FreeReturns(t)
  BY <1>2, CallReturns DEF FreeReturns
<1> QED
  BY <1>1, <1>2

LEMMA CopyCalls ==
    ASSUME LockInv, MemoryInv, FirstTable, CallInv, NEW t \in Client,
           PutPage(t) \/ GetPage(t)
    PROVE  CallInv'
<1> DEFINE c == call[t]
           f == mem[0][c.at][2]
           onto == Onto(c, f)
<1>0. c \in Call /\ CallAt(pc[t], c) /\ pc[t] = "copy" /\ c.op \in {"put", "get"}
  BY DEF CallInv, PutPage, GetPage, At
<1>1. /\ c.at \in Mapped /\ FrameAt(c.at) = f /\ Link(c.at) \in Page
      /\ c.left > Room(c) => c.left - Room(c) \in 1..c.size
  BY <1>0, CopyAhead
<1>2. ASSUME c.left > Room(c) PROVE onto \in Call /\ CallAt("copy", onto)
  <2>1. onto.at = Link(c.at) /\ onto.off = 0 /\ onto.left = c.left - Room(c)
        /\ onto = [c EXCEPT !.at = Link(c.at), !.off = 0, !.left = c.left - Room(c)]
        /\ onto.op = c.op /\ onto.size = c.size /\ onto.val = c.val
    BY <1>0 DEF Onto, Call, Link
  <2>2. c.left - Room(c) \in Nat /\ 0 \in 0..(Words - 1)
    BY <1>1, <1>2, FirstProperties DEF First
  <2> HIDE DEF onto
  <2>3. onto \in Call
    BY <1>0, <1>1, <2>1, <2>2 DEF Call
  <2>4. CallAt("copy", onto)
    BY <1>0, <1>1, <1>2, <2>1 DEF CallAt
  <2> QED
    BY <2>3, <2>4
<1>3. ~ (c.left <= Room(c)) => c.left > Room(c)
  BY <1>0, FirstProperties DEF Call, Room
<1>4. CASE PutPage(t)
  <2>1. CASE c.left <= Room(c)
    <3>1. Return(t, <<>>, Allocations)
      BY <1>4, <2>1 DEF PutPage
    <3> QED
      BY <3>1, CallReturns
  <2>2. CASE ~ (c.left <= Room(c))
    <3>1. Continue(t, "copy", onto)
      BY <1>1, <1>4, <2>2 DEF PutPage
    <3> HIDE DEF onto
    <3> QED
      BY <1>2, <1>3, <2>2, <3>1, CallContinues
  <2> QED
    BY <2>1, <2>2
<1>5. CASE GetPage(t)
  <2> DEFINE n == Min({c.left, Room(c)})
             read == c.words \o [i \in 1..n |-> mem[f][c.off + i]]
  <2>1. CASE c.left <= Room(c)
    <3>1. \E value : Return(t, value, Allocations)
      BY <1>5, <2>1 DEF GetPage
    <3> QED
      BY <3>1, CallReturns
  <2>2. CASE ~ (c.left <= Room(c))
    <3> DEFINE d == [onto EXCEPT !.words = read]
    <3>1. Continue(t, "copy", d)
      BY <1>1, <1>5, <2>2 DEF GetPage
    <3>2. read \in Seq((Page \X Frame) \cup Word)
      <4>1. /\ c.left \in Nat /\ c.off \in 0..(Words - 1) /\ Room(c) = Payload - c.off
            /\ c.words \in Seq((Page \X Frame) \cup Word) /\ Room(c) \in Nat
        BY <1>0, FirstProperties DEF Call, Room
      <4>2. n \in Nat /\ n <= Room(c)
        BY <4>1, MinProperties
      <4>3. f \in Frame
        BY <1>0, <1>1, Alone, MappedFrame DEF Inside
      <4>4. mem[f] \in [0..(Words - 1) -> Word]
        BY <4>3 DEF MemoryInv, TableInv
      <4> HIDE DEF n, f
      <4>5. \A i \in 1..n : mem[f][c.off + i] \in Word
        <5> TAKE i \in 1..n
        <5>1. c.off + i \in 0..(Words - 1)
          <6>1. /\ Words - 1 = Payload /\ Payload \in Nat
                /\ c.off \in Nat /\ i \in Nat /\ i <= Payload - c.off
            BY <4>1, <4>2, FirstProperties
          <6> QED
            BY <6>1
        <5> QED
          BY <4>4, <5>1
      <4>6. [i \in 1..n |-> mem[f][c.off + i]] \in Seq((Page \X Frame) \cup Word)
        BY <4>2, <4>5
      <4> QED
        BY <4>1, <4>6
    <3>3. onto \in Call /\ CallAt("copy", onto)
      BY <1>2, <1>3, <2>2
    <3> HIDE DEF onto, read
    <3>4. d \in Call
      BY <3>2, <3>3 DEF Call
    <3>5. CallAt("copy", d)
      <4>1. d.op = onto.op /\ d.left = onto.left /\ d.size = onto.size /\ d.val = onto.val
        BY <3>3 DEF Call
      <4> HIDE DEF d
      <4>2. onto.op \in {"put", "get"}
        BY <3>3 DEF CallAt
      <4> QED
        BY <3>3, <4>1, <4>2 DEF CallAt
    <3> HIDE DEF d
    <3> QED
      BY <3>1, <3>4, <3>5, CallContinues
  <2> QED
    BY <2>1, <2>2
<1> QED
  BY <1>4, <1>5

-----------------------------------------------------------------------------
(* The whole.                                                              *)

Inv == LockInv /\ CallInv /\ MemoryInv

LEMMA CallNext ==
    ASSUME Inv, FirstTable, FirstTable', [Next]_vars
    PROVE  CallInv'
<1> USE DEF Inv
<1>1. ASSUME NEW t \in Client, LibraryStep(t) PROVE CallInv'
  BY <1>1, CallMoves, MallocCalls, CheckCalls, FreeCalls, CopyCalls DEF LibraryStep
<1>2. ASSUME NEW t \in Client, ClientStep(t) PROVE CallInv'
  BY <1>2, CallBegins
<1>3. CASE Exit \/ UNCHANGED vars
  BY <1>3 DEF Exit, vars, CallInv
<1> QED
  BY <1>1, <1>2, <1>3 DEF Next, Halted

\* Steps that do not touch the memory.
LEMMA QuietNext ==
    ASSUME Inv, NEW t \in Client,
           \/ ClientStep(t) \/ Spin(t) \/ Unspin(t)
           \/ MallocFails(t) \/ CheckFails(t) \/ CheckFailsInGet(t) \/ FreeReturns(t)
           \/ StrayGet(t)
    PROVE  MemoryInv'
<1> USE DEF Inv
<1> DEFINE Quiet == {"idle", "spin", "initialising", "initialised", "lock", "unlocked"}
<1>0. call \in [Client -> Call] /\ pc \in [Client -> Point]
  BY DEF CallInv, LockInv
<1>1. ASSUME NEW where \in Quiet, NEW c, Begin(t, where, c), UNCHANGED memory,
             scheme' = "ready" <=> scheme = "ready"
      PROVE  MemoryInv'
  BY <1>0, <1>1, QuietMemory DEF Begin, Goto
<1>2. ASSUME NEW where \in Quiet, Goto(t, where), UNCHANGED <<memory, call>>,
             scheme' = "ready" <=> scheme = "ready"
      PROVE  MemoryInv'
  BY <1>0, <1>2, QuietMemory DEF Goto
<1>3. ASSUME NEW value, NEW n, Return(t, value, n), UNCHANGED memory PROVE MemoryInv'
  BY <1>1, <1>3 DEF Return, Begin
<1> HIDE DEF Quiet
<1>4. {"idle", "spin", "initialising", "initialised", "lock", "unlocked"} \subseteq Quiet
  BY DEF Quiet
<1>5. ASSUME NEW size \in Requests, MallocCall(t, size) PROVE MemoryInv'
  BY <1>1, <1>4, <1>5 DEF MallocCall
<1>6. ASSUME NEW b \in Page, NEW size \in Requests, FreeCall(t, b, size) PROVE MemoryInv'
  BY <1>1, <1>4, <1>6 DEF FreeCall
<1>7. ASSUME NEW b \in Page, NEW size \in Requests, FreeNothing(t, b, size) PROVE MemoryInv'
  BY <1>7, QuietMemory DEF FreeNothing
<1>8. ASSUME NEW op, NEW b \in Page, NEW a \in Accesses, NEW v, AccessCall(t, op, b, a, v)
      PROVE  MemoryInv'
  BY <1>1, <1>4, <1>8 DEF AccessCall
<1>9. CASE ClientStep(t)
  BY <1>5, <1>6, <1>7, <1>8, <1>9 DEF ClientStep, PutCall, GetCall
<1>10. CASE Spin(t)
  <2>1. pc' = [pc EXCEPT ![t] = pc'[t]] /\ pc'[t] \in {"initialising", "initialised"}
    BY <1>0, <1>10 DEF Spin, Goto
  <2>2. UNCHANGED <<memory, call>> /\ (scheme' = "ready" <=> scheme = "ready")
    BY <1>10 DEF Spin
  <2> QED
    BY <1>0, <2>1, <2>2, QuietMemory
<1>11. CASE Unspin(t)
  BY <1>2, <1>4, <1>11 DEF Unspin
<1>12. CASE MallocFails(t)
  BY <1>3, <1>12 DEF MallocFails
<1>13. CASE CheckFails(t)
  BY <1>3, <1>13 DEF CheckFails
<1>14. CASE CheckFailsInGet(t)
  BY <1>2, <1>4, <1>14 DEF CheckFailsInGet
<1>15. CASE FreeReturns(t)
  BY <1>3, <1>15 DEF FreeReturns
<1>16. CASE StrayGet(t)
  BY <1>16, QuietMemory DEF StrayGet
<1> QED
  BY <1>9, <1>10, <1>11, <1>12, <1>13, <1>14, <1>15, <1>16

\* A call that gets the lock has nothing behind it yet.
LEMMA LockMemory ==
    ASSUME Inv, NEW t \in Client, Lock(t)
    PROVE  MemoryInv'
<1> USE DEF Inv
<1>0. PICK c : c = call[t]
  OBVIOUS
<1>1. /\ pc[t] = "lock" /\ scheme = "ready" /\ scheme' = scheme /\ UNCHANGED <<memory, call>>
      /\ pc' = [pc EXCEPT ![t] = IF c.op = "malloc" THEN "allocate" ELSE "check"]
  BY <1>0 DEF Lock, At, LockInv, Goto
<1>2. c \in Call /\ CallAt("lock", c) /\ pc \in [Client -> Point]
  BY <1>0, <1>1 DEF CallInv, LockInv
<1>3. CASE c.op = "malloc"
  BY <1>1, <1>2, <1>3, QuietMemory
<1>4. CASE c.op # "malloc"
  <2>1. TableInv' /\ LinkInv' /\ (\A x, y, z : Run(x, y, z)' <=> Run(x, y, z))
    BY <1>1, SameMemory DEF memory
  <2>2. StartInv' /\ CacheInv'
    BY <1>1 DEF MemoryInv, StartInv, CacheInv, memory
  <2>3. ChainInv(t)'
    <3>1. c.at = c.base /\ c.left = Total(c) /\ c.left \in Nat /\ c.at \in Page
      BY <1>2, <1>4 DEF CallAt, Call
    <3>2. Run(c.base, Total(c) - c.left, c.at)
      <4>1. Total(c) - c.left = 0
        BY <3>1
      <4> QED
        BY <3>1, <4>1, RunStart
    <3>3. Run(c.base, Total(c) - c.left, c.at)'
      BY <2>1, <3>2
    <3>4. pc'[t] = "check" /\ call'[t] = c
      BY <1>0, <1>1, <1>2, <1>4
    <3> QED
      BY <3>3, <3>4 DEF ChainInv
  <2>4. ASSUME NEW u \in Client, u # t PROVE ChainInv(u)'
    <3>1. ~ Inside(u)
      BY VmAssumption DEF LockInv, LockExcludes, Lock
    <3>2. pc'[u] = pc[u]
      BY <1>1, <1>2, <2>4
    <3> QED
      BY <3>1, <3>2 DEF Inside, ChainInv
  <2> QED
    BY <2>1, <2>2, <2>3, <2>4 DEF MemoryInv
<1> QED
  BY <1>3, <1>4

LEMMA MemoryNext ==
    ASSUME Inv, FirstTable, FirstTable', [Next]_vars
    PROVE  MemoryInv'
<1> USE DEF Inv
<1>1. ASSUME NEW t \in Client, LibraryStep(t) PROVE MemoryInv'
  <2>1. CASE \/ Spin(t) \/ Unspin(t) \/ MallocFails(t) \/ CheckFails(t)
             \/ CheckFailsInGet(t) \/ FreeReturns(t) \/ StrayGet(t)
    BY <2>1, QuietNext
  <2>2. CASE Initialise(t) \/ Lock(t)
    BY <2>2, InitialiseMemory, LockMemory
  <2>3. CASE MallocFits(t) \/ MapPage(t) \/ MallocReturns(t)
    BY <2>3, MallocFitsMemory, MapPageMemory, MallocReturnsMemory
  <2>4. CASE CheckPage(t) \/ CheckPasses(t)
    BY <2>4, CheckPageMemory, CheckPassesMemory
  <2>5. CASE FreePage(t) \/ PutPage(t) \/ GetPage(t)
    BY <2>5, FreePageMemory, PutPageMemory, GetPageMemory
  <2> QED
    BY <1>1, <2>1, <2>2, <2>3, <2>4, <2>5 DEF LibraryStep
<1>2. ASSUME NEW t \in Client, ClientStep(t) PROVE MemoryInv'
  BY <1>2, QuietNext
<1>3. CASE Exit
  <2>1. UNCHANGED <<vbits, fbits, mem, scheme, pc, call>> /\ tlb' = <<>>
    BY <1>3 DEF Exit
  <2>2. TableInv' /\ LinkInv'
    BY <2>1, SameMemory
  <2>3. StartInv' /\ CacheInv'
    BY <2>1, TlbAssumption DEF MemoryInv, StartInv, CacheInv, Coherent
  <2>4. \A u \in Client : pc'[u] = "idle"
    BY <1>3, <2>1 DEF Exit, Idle, At
  <2> QED
    BY <2>2, <2>3, <2>4 DEF MemoryInv, ChainInv
<1>4. CASE UNCHANGED vars
  BY <1>4, QuietMemory DEF vars
<1> QED
  BY <1>1, <1>2, <1>3, <1>4 DEF Next, Halted

\* Nothing but t_malloc takes pages, and it takes those there are.
LEMMA PagesStay ==
    ASSUME Inv, [Next]_vars
    PROVE  vbits' \subseteq Page
<1> USE DEF Inv
<1>0. vbits \subseteq Page /\ 0 \in Page
  BY FirstProperties DEF MemoryInv, TableInv
<1>1. ASSUME NEW t \in Client, MapPage(t) PROVE vbits' \subseteq Page
  <2>1. scheme = "ready" /\ TakenInv(call[t]) /\ call[t].left > 0 /\ call[t].left \in Nat
    BY <1>1, Alone DEF MapPage, At, Inside, MemoryInv, ChainInv, CallInv, Call
  <2>2. LowestFree(vbits) \in Page
    BY <1>0, <2>1, FreeBits DEF TakenInv
  <2> QED
    BY <1>0, <1>1, <2>2 DEF MapPage
<1>2. ASSUME NEW t \in Client, FreePage(t) PROVE vbits' \subseteq Page
  <2>1. \E p : vbits' = vbits \ {p}
    BY <1>2 DEF FreePage
  <2> QED
    BY <1>0, <2>1
<1>3. ASSUME NEW t \in Client, LibraryStep(t), ~ MapPage(t), ~ FreePage(t)
      PROVE  vbits' \subseteq Page
  BY <1>0, <1>3 DEF LibraryStep, Spin, Initialise, Unspin, Lock, MallocFails, MallocFits,
     MallocReturns, CheckPage, CheckPasses, CheckFails, CheckFailsInGet, StrayGet,
     FreeReturns, PutPage, GetPage, memory
<1>4. ASSUME NEW t \in Client, ClientStep(t) PROVE vbits' \subseteq Page
  BY <1>0, <1>4 DEF ClientStep, MallocCall, FreeCall, FreeNothing, PutCall, GetCall,
     AccessCall, memory
<1>5. CASE Exit \/ UNCHANGED vars
  BY <1>0, <1>5 DEF Exit, vars, memory
<1> QED
  BY <1>1, <1>2, <1>3, <1>4, <1>5 DEF Next, Halted

LEMMA InvInit == Init => Inv
  BY LockInit, CallInit, MemoryInit DEF Inv

LEMMA InvNext == Inv /\ FirstTable /\ FirstTable' /\ [Next]_vars => Inv'
  BY LockNext, CallNext, MemoryNext DEF Inv

LEMMA Invariant == Spec /\ []FirstTable => []Inv
  BY InvInit, InvNext, PTL DEF Spec

\* With one table, there are no other pages.
LEMMA OneTable ==
    ASSUME Tables = 1
    PROVE  Spec => [](Inv /\ FirstTable)
<1>1. Page = 0..(Words - 1)
  BY VmAssumption DEF Page
<1>2. Init => FirstTable
  BY DEF Init, FirstTable
<1>3. Inv /\ FirstTable /\ [Next]_vars => Inv' /\ FirstTable'
  BY <1>1, PagesStay, InvNext DEF FirstTable
<1> QED
  BY <1>2, <1>3, InvInit, PTL DEF Spec

-----------------------------------------------------------------------------
(* What clients and callers rely on.                                       *)

LEMMA CacheEntries ==
    ASSUME CacheInv
    PROVE  DOMAIN tlb = 1..Len(tlb) /\ \A i \in DOMAIN tlb : tlb[i].page \in First
<1>1. tlb \in Seq([page : First, cell : {Row[p] : p \in First}])
  BY DEF CacheInv, Coherent
<1>2. \A e \in [page : First, cell : {Row[p] : p \in First}] : e.page \in First
  OBVIOUS
<1>3. DOMAIN tlb = 1..Len(tlb)
  BY <1>1
<1>4. \A i \in 1..Len(tlb) : tlb[i] \in [page : First, cell : {Row[p] : p \in First}]
  BY <1>1, ElementOfSeq
<1> QED
  BY <1>2, <1>3, <1>4

\* The invariant implies what the runs check: the types, ...
LEMMA InvTypes == Inv => TypeOK
<1> SUFFICES ASSUME Inv PROVE TypeOK
  OBVIOUS
<1> USE DEF Inv
<1>1. Len(tlb) <= TlbEntries /\ \A i \in DOMAIN tlb : tlb[i].page \in Page
  BY CacheEntries, FirstProperties DEF MemoryInv, CacheInv, Coherent
<1>2. \A t \in Client : call[t].at \in Page /\ call[t].left \in Nat
  BY DEF CallInv, Call
<1>3. vbits \subseteq Page /\ fbits \subseteq Frame
      /\ mem \in [Frame -> [0..(Words - 1) -> Word]]
  BY DEF MemoryInv, TableInv
<1> QED
  BY <1>1, <1>2, <1>3 DEF TypeOK, LockInv, Point

\* ... the cache, ...
LEMMA InvCache == Inv => TlbCoherent
<1> SUFFICES ASSUME Inv PROVE TlbCoherent
  OBVIOUS
<1> USE DEF Inv
<1>1. CASE scheme # "ready"
  BY <1>1 DEF MemoryInv, StartInv, TlbCoherent
<1>2. CASE scheme = "ready"
  <2>1. mem[0][0] = <<"frame", 0>>
    BY <1>2 DEF MemoryInv, TableInv
  <2>2. DOMAIN tlb = 1..Len(tlb) /\ \A i \in DOMAIN tlb : tlb[i].page \in First
    BY CacheEntries DEF MemoryInv
  <2>3. \A i \in DOMAIN tlb : Walk(mem, tlb[i].page) = Row[tlb[i].page]
    BY <2>1, <2>2, WalkFirst
  <2> QED
    BY <2>2, <2>3 DEF TlbCoherent, MemoryInv, CacheInv, Coherent
<1> QED
  BY <1>1, <1>2

\* ... and that no call comes to a page that is not in use.
LEMMA InvChecks == Inv => ChecksSuffice
<1> SUFFICES ASSUME Inv, NEW t \in Client, pc[t] \in {"free", "copy"}, call[t].left > 0
             PROVE  call[t].at \in Mapped
  BY DEF ChecksSuffice
<1> USE DEF Inv
<1>1. call[t] \in Call /\ CallAt(pc[t], call[t])
  BY DEF CallInv
<1>2. CASE pc[t] = "free"
  <2>1. call[t].left \in Nat \ {0} /\ call[t].at \in Page
    BY <1>1 DEF Call
  <2>2. PICK e \in Page : Run(call[t].at, call[t].left, e)
    BY <1>2 DEF MemoryInv, ChainInv
  <2> QED
    BY <2>1, <2>2, RunFirst
<1>3. CASE pc[t] = "copy"
  <2> DEFINE n == call[t].off + call[t].left
  <2>1. call[t].at \in Page /\ n \in Nat \ {0}
    BY <1>1, <1>3 DEF Call
  <2>2. PICK e \in Page : Run(call[t].at, Pages(n), e)
    BY <1>3 DEF MemoryInv, ChainInv
  <2>3. Pages(n) \in Nat \ {0}
    BY <2>1, PagesProperties
  <2> QED
    BY <2>1, <2>2, <2>3, RunFirst
<1> QED
  BY <1>2, <1>3

(* MappingsAgree, of the pages and entries of the first table: those of the *)
(* directory's entries in use (k < Tables) name tables.                     *)
FirstMappingsAgree ==
    scheme = "ready" =>
        /\ {FrameOf(mem, p) : p \in Mapped} = fbits \ Reserved
        /\ \A p, q \in Mapped : FrameOf(mem, p) = FrameOf(mem, q) => p = q
        /\ \A p \in (Tables..(Words - 1)) \ vbits : Pte(mem, p) = NULL

LEMMA InvMappings == Inv /\ FirstTable => FirstMappingsAgree
<1> SUFFICES ASSUME Inv, FirstTable, scheme = "ready"
             PROVE  /\ {FrameOf(mem, p) : p \in Mapped} = fbits \ Reserved
                    /\ \A p, q \in Mapped : FrameOf(mem, p) = FrameOf(mem, q) => p = q
                    /\ \A p \in (Tables..(Words - 1)) \ vbits : Pte(mem, p) = NULL
  BY DEF FirstMappingsAgree
<1> USE DEF Inv
<1>1. ASSUME NEW p \in Mapped
      PROVE  /\ FrameOf(mem, p) = mem[0][p][2] /\ mem[0][p][2] \in fbits \ Reserved
             /\ \A q \in Mapped : mem[0][q][2] = mem[0][p][2] => p = q
  BY MappedFrame, WalkFirst
<1>2. ASSUME NEW f \in fbits \ Reserved PROVE \E p \in Mapped : FrameOf(mem, p) = f
  <2>1. PICK p \in Mapped : mem[0][p] = <<"frame", f>>
    BY DEF MemoryInv, TableInv
  <2> QED
    BY <1>1, <2>1
<1>3. ASSUME NEW p \in (Tables..(Words - 1)) \ vbits PROVE Pte(mem, p) = NULL
  <2>1. p \in First /\ mem[0][0] = <<"frame", 0>> /\ mem[0][p] = NULL
    BY VmAssumption DEF First, MemoryInv, TableInv
  <2> QED
    BY <2>1, WalkFirst
<1> QED
  BY <1>1, <1>2, <1>3

(* The theorems are about all behaviors in which the pages in use are those *)
(* of the first table, FirstTable: with the next one, the entries of two    *)
(* pages are the same cell, since all entries of the directory name the     *)
(* directory (my_vm.c:56), and the properties fail.  With one table, there  *)
(* are no other pages: OneTableCorrect assumes nothing of the behavior.     *)

(* The types hold; the cache does not outgrow its bound.                    *)
THEOREM TypeCorrect == Spec /\ []FirstTable => []TypeOK
<1>1. Inv => TypeOK
  BY InvTypes
<1> QED
  BY <1>1, Invariant, PTL

(* Pages in use and frames in use correspond one to one, and free pages     *)
(* have no frame, through every t_malloc and t_free (my_vm.c:297-309,       *)
(* 441-467).                                                                *)
THEOREM MappingsCorrect == Spec /\ []FirstTable => []FirstMappingsAgree
<1>1. Inv /\ FirstTable => FirstMappingsAgree
  BY InvMappings
<1> QED
  BY <1>1, Invariant, PTL

(* The cache is coherent with the page table, also for pages that were      *)
(* freed and handed out again (my_vm.c:178-218, 448-450).                   *)
THEOREM CacheCorrect == Spec /\ []FirstTable => []TlbCoherent
<1>1. Inv => TlbCoherent
  BY InvCache
<1> QED
  BY <1>1, Invariant, PTL

(* A t_free, put_value or get_value that passed its check never comes to a  *)
(* page that is not in use, careless as the clients may be (my_vm.c:436,    *)
(* 565, 630).                                                               *)
THEOREM ChecksCorrect == Spec /\ []FirstTable => []ChecksSuffice
<1>1. Inv => ChecksSuffice
  BY InvChecks
<1> QED
  BY <1>1, Invariant, PTL

(* All of this in every behavior of a memory of one table (my_vm.c:178-218, *)
(* 297-309, 436-467, 565, 630).                                             *)
THEOREM OneTableCorrect ==
    ASSUME Tables = 1
    PROVE  Spec => [](TypeOK /\ MappingsAgree /\ TlbCoherent /\ ChecksSuffice)
<1>1. ASSUME Inv, FirstTable PROVE MappingsAgree
  <2> SUFFICES ASSUME scheme = "ready", NEW p \in Page \ vbits
               PROVE  p \in (Tables..(Words - 1)) \ vbits
    BY <1>1, InvMappings DEF FirstMappingsAgree, MappingsAgree
  <2>1. 0 \in vbits /\ Page = 0..(Words - 1)
    BY <1>1, VmAssumption DEF Inv, MemoryInv, TableInv, Page
  <2> QED
    BY <2>1, VmAssumption
<1>2. Inv /\ FirstTable => TypeOK /\ MappingsAgree /\ TlbCoherent /\ ChecksSuffice
  BY <1>1, InvTypes, InvCache, InvChecks
<1> QED
  BY <1>2, OneTable, PTL

-----------------------------------------------------------------------------
(* The chains of allocations, for clients that keep to them.               *)

\* Pages in use, each of which links to the next, above it, and the last to none.
IsChain(s) ==
    /\ s \in Seq(Page)
    /\ \A i \in 1..Len(s) : s[i] \in Mapped /\ Link(s[i]) = IF i < Len(s) THEN s[i + 1] ELSE 0
    /\ \A i, j \in 1..Len(s) : i < j => s[i] < s[j]

\* The pages in use are those of own and of the chains ch, one for each b with n[b]
\* pages, and no two of these have a page in common.
Chains(ch, n, own) ==
    /\ \A b \in DOMAIN n : IsChain(ch[b]) /\ Len(ch[b]) = n[b] /\ n[b] > 0 /\ ch[b][1] = b
    /\ Mapped = own \cup UNION {ToSet(ch[b]) : b \in DOMAIN n}
    /\ \A b, d \in DOMAIN n : ToSet(ch[b]) \cap ToSet(ch[d]) # {} => b = d
    /\ \A b \in DOMAIN n : ToSet(ch[b]) \cap own = {}
Held(n, own) == \E ch : Chains(ch, n, own)

But(n, b) == Restrict(n, DOMAIN n \ {b})
TakenPages(c) == {c.words[j][1] : j \in DOMAIN c.words}

\* What t_free has before it.
Ahead(s, c) == IsChain(s) /\ Len(s) = c.left /\ (c.left > 0 => s[1] = c.at)

\* Between calls the pages in use are those of the allocations; t_malloc adds those
\* that it takes, which link to nothing yet, and t_free takes its chain apart.
HeldInv ==
    scheme = "ready" =>
        /\ (\A t \in Client : pc[t] \notin {"map", "free"}) => Held(Allocations, {})
        /\ \A t \in Client : pc[t] = "map" =>
              /\ Held(Allocations, TakenPages(call[t]))
              /\ \A p \in TakenPages(call[t]) : Link(p) = 0
        /\ \A t \in Client : pc[t] = "free" =>
              \E s : Ahead(s, call[t]) /\ Held(But(Allocations, call[t].base), ToSet(s))

\* Who frees an allocation has the right number of pages, and is alone with it.
UseInv ==
    \A t \in Client : call[t].op = "free" =>
        /\ call[t].base \in DOMAIN Allocations
        /\ Allocations[call[t].base] = Pages(call[t].size)
        /\ \A u \in Client :
              call[u].op = "free" /\ call[u].base = call[t].base => u = t


-----------------------------------------------------------------------------
(* What the steps do to the links.                                         *)

\* A step that leaves the frames' first words and the table's entries alone.
LEMMA LinkSame ==
    ASSUME NEW q, mem'[0][q] = mem[0][q], mem'[mem[0][q][2]][0] = mem[mem[0][q][2]][0]
    PROVE  Link(q)' = Link(q)
  BY DEF Link

LEMMA MapPageLinks ==
    ASSUME Inv, FirstTable, FirstTable', NEW t \in Client, MapPage(t),
           NEW p, p = LowestFree(vbits)
    PROVE  /\ \A q \in Mapped : Link(q)' = Link(q)
           /\ Link(p)' = 0
           /\ p \notin Mapped /\ Mapped' = Mapped \cup {p}
<1> USE DEF Inv
<1>0. PICK f : f = LowestFree(fbits)
  OBVIOUS
<1>1. /\ p \in First \ vbits /\ f \in Frame \ fbits /\ p > 0 /\ f \notin Reserved
      /\ vbits' = vbits \cup {p}
      /\ mem'[0] = [mem[0] EXCEPT ![p] = <<"frame", f>>]
      /\ mem'[f] = Zeroed
      /\ \A g \in Frame \ {0, f} : mem'[g] = mem[g]
  BY <1>0, MapPageEffect
<1>2. scheme = "ready"
  BY Alone DEF MapPage, At, Inside
<1>3. p \notin Mapped /\ Mapped' = Mapped \cup {p}
  BY <1>1 DEF Mapped
<1>4. mem[0] \in [0..(Words - 1) -> Word] /\ First = 0..(Words - 1)
  BY FirstProperties DEF MemoryInv, TableInv, First
<1>5. ASSUME NEW q \in Mapped PROVE Link(q)' = Link(q)
  <2>1. /\ q \in First /\ mem[0][q][2] \in Frame /\ mem[0][q][2] \in fbits
        /\ mem[0][q][2] # 0
    BY <1>2, MappedFrame
  <2>2. q # p /\ mem[0][q][2] # f
    BY <1>1, <1>3, <2>1
  <2>3. mem'[0][q] = mem[0][q]
    BY <1>1, <1>4, <2>1, <2>2
  <2>4. mem'[mem[0][q][2]] = mem[mem[0][q][2]]
    BY <1>1, <2>1, <2>2
  <2> QED
    BY <2>3, <2>4, LinkSame
<1>6. Link(p)' = 0
  <2>1. mem'[0][p] = <<"frame", f>>
    BY <1>1, <1>4
  <2>2. Zeroed[0] = <<"page", 0>>
    BY FirstProperties DEF Zeroed, NULL, First
  <2>3. mem'[0][p][2] = f
    BY <2>1
  <2>4. mem'[f][0] = <<"page", 0>>
    BY <1>1, <2>2
  <2>5. Link(p)' = mem'[mem'[0][p][2]][0][2]
    BY DEF Link
  <2>6. mem'[f][0][2] = 0
    BY <2>4
  <2> QED
    BY ONLY <2>3, <2>5, <2>6
<1> QED
  BY <1>3, <1>5, <1>6

LEMMA FreePageLinks ==
    ASSUME Inv, FirstTable, NEW t \in Client, FreePage(t), NEW p, p = call[t].at
    PROVE  /\ \A q \in Mapped \ {p} : Link(q)' = Link(q)
           /\ p \in Mapped /\ Mapped' = Mapped \ {p}
<1> USE DEF Inv
<1>0. PICK f : f = mem[0][p][2]
  OBVIOUS
<1>1. /\ p \in Mapped /\ scheme = "ready" /\ vbits' = vbits \ {p}
      /\ mem'[0] = [mem[0] EXCEPT ![p] = NULL]
      /\ \A g \in Frame \ {0, f} : mem'[g] = mem[g]
  BY <1>0, FreePageEffect
<1>2. Mapped' = Mapped \ {p}
  BY <1>1 DEF Mapped
<1>3. mem[0] \in [0..(Words - 1) -> Word] /\ First = 0..(Words - 1)
  BY FirstProperties DEF MemoryInv, TableInv, First
<1>4. ASSUME NEW q \in Mapped \ {p} PROVE Link(q)' = Link(q)
  <2>1. /\ q \in First /\ mem[0][q][2] \in Frame /\ mem[0][q][2] # 0
        /\ \A r \in Mapped : mem[0][r][2] = mem[0][q][2] => q = r
    BY <1>1, MappedFrame
  <2>2. mem[0][q][2] # f
    BY <1>0, <1>1, <2>1
  <2>3. mem'[0][q] = mem[0][q]
    BY <1>1, <1>3, <2>1
  <2>4. mem'[mem[0][q][2]] = mem[mem[0][q][2]]
    BY <1>1, <2>1, <2>2
  <2> QED
    BY <2>3, <2>4, LinkSame
<1> QED
  BY <1>1, <1>2, <1>4

LEMMA PutPageLinks ==
    ASSUME Inv, FirstTable, NEW t \in Client, PutPage(t)
    PROVE  Mapped' = Mapped /\ \A q \in Mapped : Link(q)' = Link(q)
<1> USE DEF Inv
<1>0. PICK p, f : p = call[t].at /\ f = mem[0][p][2]
  OBVIOUS
<1>1. /\ p \in Mapped /\ scheme = "ready" /\ UNCHANGED <<vbits, fbits>>
      /\ \A g \in Frame \ {f} : mem'[g] = mem[g]
      /\ mem'[f][0] = mem[f][0]
  BY <1>0, PutPageEffect
<1>2. f # 0 /\ 0 \in Frame
  BY <1>0, <1>1, MappedFrame, FirstProperties
<1>3. ASSUME NEW q \in Mapped PROVE Link(q)' = Link(q)
  <2>1. mem[0][q][2] \in Frame
    BY <1>1, MappedFrame
  <2>2. mem'[0] = mem[0]
    BY <1>1, <1>2
  <2>3. mem'[mem[0][q][2]][0] = mem[mem[0][q][2]][0]
    BY <1>1, <2>1
  <2> QED
    BY <2>2, <2>3, LinkSame
<1> QED
  BY <1>1, <1>3 DEF Mapped

\* The pages that were taken are linked in the order in which they were taken.
LEMMA MallocLinks ==
    ASSUME Inv, FirstTable, NEW t \in Client, MallocReturns(t),
           NEW s, s = [j \in 1..Len(call[t].words) |-> call[t].words[j][1]],
           \A p \in TakenPages(call[t]) : Link(p) = 0
    PROVE  /\ IsChain(s)' /\ Len(s) = Pages(call[t].size) /\ Len(s) > 0
           /\ ToSet(s) = TakenPages(call[t]) /\ s[1] = call[t].words[1][1]
           /\ Mapped' = Mapped
           /\ \A q \in Mapped \ TakenPages(call[t]) : Link(q)' = Link(q)
<1> USE DEF Inv
<1>0. PICK taken, next : taken = call[t].words /\ next = 1..(Len(taken) - 1)
  OBVIOUS
<1>1. scheme = "ready" /\ Inside(t) /\ TakenInv(call[t]) /\ call[t].left = 0
  BY Alone DEF MallocReturns, At, Inside, MemoryInv, ChainInv
<1>2. UNCHANGED <<vbits, fbits, tlb>> /\ mem' = Linked(mem, taken)
  BY <1>0 DEF MallocReturns
<1>3. /\ taken \in Seq((Page \X Frame) \cup Word)
      /\ DOMAIN taken = 1..Len(taken) /\ Len(taken) \in Nat
      /\ call[t].size \in Nat
  BY <1>0 DEF CallInv, CallAt, Call
<1>4. \A j \in 1..Len(taken) :
          /\ taken[j][1] \in Page /\ taken[j][2] \in Frame
          /\ taken[j][1] \in Mapped
          /\ mem[0][taken[j][1]] = <<"frame", taken[j][2]>>
          /\ \A i \in 1..(j - 1) : taken[i][1] < taken[j][1]
  BY <1>0, <1>1, <1>3 DEF TakenInv
<1>5. Len(taken) = Pages(call[t].size) /\ Len(taken) > 0
  <2>1. call[t].size > 0 /\ call[t].left + Len(taken) = Pages(call[t].size)
    BY <1>0, <1>1 DEF TakenInv
  <2>2. Len(taken) = Pages(call[t].size)
    BY ONLY <1>1, <1>3, <2>1
  <2>3. Pages(call[t].size) \in Nat /\ Pages(call[t].size) >= 1
    BY <1>3, <2>1, PagesProperties
  <2> QED
    BY ONLY <1>3, <2>2, <2>3
<1>6. mem \in [Frame -> [0..(Words - 1) -> Word]] /\ 0 \in 0..(Words - 1)
  BY FirstProperties DEF MemoryInv, TableInv, First
<1>7. /\ DOMAIN s = 1..Len(taken) /\ Len(s) = Len(taken) /\ s \in Seq(Page)
      /\ \A j \in 1..Len(taken) : s[j] = taken[j][1]
  BY <1>0, <1>3, <1>4
<1>8. ToSet(s) = TakenPages(call[t])
  BY <1>0, <1>3, <1>7 DEF ToSet, TakenPages
<1>9. ASSUME NEW f \in Frame
      PROVE  /\ (~ \E j \in next : taken[j][2] = f) => mem'[f] = mem[f]
             /\ (\E j \in next : taken[j][2] = f) =>
                   \E j \in next : /\ taken[j][2] = f
                                   /\ mem'[f] = [mem[f] EXCEPT ![0] = <<"page", taken[j + 1][1]>>]
  <2>1. mem'[f] = IF \E j \in next : taken[j][2] = f
                  THEN LET j == CHOOSE j \in next : taken[j][2] = f
                       IN  [mem[f] EXCEPT ![0] = <<"page", taken[j + 1][1]>>]
                  ELSE mem[f]
    BY <1>0, <1>2 DEF Linked
  <2> QED
    BY <2>1
<1>10. \A j \in next : j \in 1..Len(taken) /\ j + 1 \in 1..Len(taken) /\ Len(taken) \notin next
  BY <1>0, <1>3
<1>11. ASSUME NEW i \in 1..Len(taken), NEW j \in 1..Len(taken), taken[i][2] = taken[j][2]
       PROVE  i = j
  <2>1. taken[i][1] = taken[j][1]
    BY <1>1, <1>4, <1>11, MappedFrame
  <2>2. taken[i][1] \in Nat /\ taken[j][1] \in Nat
    BY <1>4 DEF Page
  <2>3. i < j => taken[i][1] < taken[j][1]
    BY <1>4
  <2>4. j < i => taken[j][1] < taken[i][1]
    BY <1>4
  <2> QED
    BY <2>1, <2>2, <2>3, <2>4
<1>12. mem'[0] = mem[0]
  BY MallocReturnsEffect
<1>13. ASSUME NEW q \in Mapped, \A j \in next : taken[j][1] # q PROVE Link(q)' = Link(q)
  <2>1. PICK f : f = mem[0][q][2]
    OBVIOUS
  <2>2. f \in Frame /\ \A r \in Mapped : mem[0][r][2] = f => q = r
    BY <1>1, <2>1, MappedFrame
  <2>3. ~ \E j \in next : taken[j][2] = f
    <3> SUFFICES ASSUME NEW j \in next, taken[j][2] = f PROVE FALSE
      OBVIOUS
    <3>1. taken[j][1] \in Mapped /\ mem[0][taken[j][1]] = <<"frame", taken[j][2]>>
      BY <1>4, <1>10
    <3>2. mem[0][taken[j][1]][2] = f
      BY <3>1
    <3> QED
      BY <1>13, <2>2, <3>1, <3>2
  <2>4. mem'[f] = mem[f]
    BY <1>9, <2>2, <2>3
  <2> QED
    BY <1>12, <2>1, <2>4, LinkSame
<1>14. ASSUME NEW j \in next PROVE Link(s[j])' = s[j + 1]
  <2>1. PICK q, f : q = taken[j][1] /\ f = taken[j][2]
    OBVIOUS
  <2>2. mem[0][q] = <<"frame", f>> /\ f \in Frame
    BY <1>4, <1>10, <2>1
  <2>3. PICK i \in next : /\ taken[i][2] = f
                          /\ mem'[f] = [mem[f] EXCEPT ![0] = <<"page", taken[i + 1][1]>>]
    BY <1>9, <2>1, <2>2
  <2>4. i = j
    BY <1>10, <1>11, <2>1, <2>3
  <2>5. mem'[f][0] = <<"page", taken[j + 1][1]>>
    <3>1. mem'[f] = [mem[f] EXCEPT ![0] = <<"page", taken[j + 1][1]>>]
      BY <2>3, <2>4
    <3>2. mem[f] \in [0..(Words - 1) -> Word]
      BY <1>6, <2>2
    <3> QED
      BY <1>6, <3>1, <3>2
  <2>6. mem'[0][q][2] = f
    BY <1>12, <2>2
  <2>7. Link(q)' = mem'[mem'[0][q][2]][0][2]
    BY DEF Link
  <2>8. Link(q)' = taken[j + 1][1]
    BY <2>5, <2>6, <2>7
  <2> QED
    BY <1>7, <1>10, <2>1, <2>8
<1>15. Link(s[Len(taken)])' = 0
  <2>1. PICK q : q = s[Len(taken)]
    OBVIOUS
  <2>2. Len(taken) \in 1..Len(taken) /\ q = taken[Len(taken)][1] /\ q \in Mapped
    <3>1. Len(taken) \in 1..Len(taken)
      BY ONLY <1>3, <1>5
    <3>2. s[Len(taken)] = taken[Len(taken)][1] /\ taken[Len(taken)][1] \in Mapped
      BY <1>4, <1>7, <3>1
    <3> QED
      BY <2>1, <3>1, <3>2
  <2>3. \A j \in next : taken[j][1] # q
    <3> SUFFICES ASSUME NEW j \in next, taken[j][1] = q PROVE FALSE
      OBVIOUS
    <3>1. j \in 1..(Len(taken) - 1) /\ taken[j][1] \in Nat
      BY <1>0, <1>4, <1>10 DEF Page
    <3> QED
      BY <1>4, <2>2, <3>1
  <2>4. q \in TakenPages(call[t])
    BY <1>0, <1>3, <2>2 DEF TakenPages
  <2> QED
    BY <1>13, <2>1, <2>2, <2>3, <2>4
<1>16. Mapped' = Mapped
  BY <1>2 DEF Mapped
<1>17. IsChain(s)'
  <2>1. ASSUME NEW i \in 1..Len(s)
        PROVE  s[i] \in Mapped' /\ Link(s[i])' = IF i < Len(s) THEN s[i + 1] ELSE 0
    <3>1. s[i] \in Mapped'
      BY <1>4, <1>7, <1>16
    <3>2. CASE i < Len(s)
      <4>1. i \in next
        BY ONLY <1>0, <1>3, <1>7, <2>1, <3>2
      <4>2. Link(s[i])' = s[i + 1]
        BY <1>14, <4>1
      <4> QED
        BY <3>1, <3>2, <4>2
    <3>3. CASE ~ i < Len(s)
      <4>1. i = Len(taken)
        <5>1. i \in 1..Len(taken) /\ ~ (i < Len(taken)) /\ Len(taken) \in Nat
          BY ONLY <1>3, <1>7, <2>1, <3>3
        <5> QED
          BY ONLY <5>1
      <4> QED
        BY <1>15, <3>1, <3>3, <4>1
    <3> QED
      BY <3>2, <3>3
  <2>2. ASSUME NEW i \in 1..Len(s), NEW j \in 1..Len(s), i < j PROVE s[i] < s[j]
    <3>1. i \in 1..Len(taken) /\ j \in 1..Len(taken) /\ i \in 1..(j - 1)
      BY ONLY <1>3, <1>7, <2>2
    <3> QED
      BY <1>4, <1>7, <3>1
  <2> QED
    BY <1>7, <2>1, <2>2 DEF IsChain
<1>18. \A q \in Mapped \ TakenPages(call[t]) : Link(q)' = Link(q)
  <2> TAKE q \in Mapped \ TakenPages(call[t])
  <2>1. \A j \in next : taken[j][1] # q
    BY <1>0, <1>3, <1>10 DEF TakenPages
  <2> QED
    BY <1>13, <2>1
<1>19. s[1] = call[t].words[1][1]
  BY <1>0, <1>3, <1>5, <1>7
<1> QED
  BY <1>0, <1>5, <1>7, <1>8, <1>16, <1>17, <1>18, <1>19


-----------------------------------------------------------------------------
(* Chains and what clients hold.                                           *)

LEMMA ChainSet ==
    ASSUME NEW s \in Seq(Page)
    PROVE  /\ Len(s) \in Nat /\ DOMAIN s = 1..Len(s)
           /\ ToSet(s) = {s[i] : i \in 1..Len(s)} /\ ToSet(s) \subseteq Page
  BY DEF ToSet

LEMMA ChainAt ==
    ASSUME NEW s, IsChain(s)
    PROVE  ToSet(s) \subseteq Mapped /\ \A i \in 1..Len(s) : s[i] \in ToSet(s)
<1>1. s \in Seq(Page) /\ \A i \in 1..Len(s) : s[i] \in Mapped
  BY DEF IsChain
<1> QED
  BY <1>1, ChainSet

\* A chain stays one where its pages stay in use and go on linking to the same.
LEMMA ChainStays ==
    ASSUME NEW s, IsChain(s), \A q \in ToSet(s) : q \in Mapped' /\ Link(q)' = Link(q)
    PROVE  IsChain(s)'
<1>1. \A i \in 1..Len(s) : s[i] \in Mapped' /\ Link(s[i])' = Link(s[i])
  BY ChainAt
<1> QED
  BY <1>1 DEF IsChain

\* Steps that change which pages are in use only among those on the way.
LEMMA ChainsStay ==
    ASSUME NEW ch, NEW n, NEW own, NEW rest, Chains(ch, n, own),
           \A q \in Mapped \ own : Link(q)' = Link(q),
           Mapped' = (Mapped \ own) \cup rest, rest \cap (Mapped \ own) = {}
    PROVE  Chains(ch, n, rest)'
<1>1. ASSUME NEW b \in DOMAIN n PROVE ToSet(ch[b]) \subseteq Mapped \ own /\ IsChain(ch[b])
  BY <1>1, ChainAt DEF Chains
<1>2. ASSUME NEW b \in DOMAIN n PROVE IsChain(ch[b])'
  <2> DEFINE s == ch[b]
  <2>1. \A q \in ToSet(s) : q \in Mapped' /\ Link(q)' = Link(q)
    BY <1>1
  <2>2. IsChain(s)
    BY <1>1
  <2> HIDE DEF s
  <2>3. IsChain(s)'
    BY <2>1, <2>2, ChainStays
  <2> QED
    BY <2>3 DEF s
<1>3. Mapped \ own = UNION {ToSet(ch[b]) : b \in DOMAIN n}
  BY <1>1 DEF Chains
<1>4. Mapped' = rest \cup UNION {ToSet(ch[b]) : b \in DOMAIN n}
  BY <1>3
<1>5. \A b \in DOMAIN n : ToSet(ch[b]) \cap rest = {}
  BY <1>1
<1> QED
  BY <1>2, <1>4, <1>5 DEF Chains

LEMMA HeldStays ==
    ASSUME NEW n, NEW own, NEW rest, Held(n, own),
           \A q \in Mapped \ own : Link(q)' = Link(q),
           Mapped' = (Mapped \ own) \cup rest, rest \cap (Mapped \ own) = {}
    PROVE  Held(n, rest)'
<1>1. PICK ch : Chains(ch, n, own)
  BY DEF Held
<1>2. Chains(ch, n, rest)'
  BY <1>1, ChainsStay
<1> QED
  BY <1>2 DEF Held

\* t_malloc's chain is one more.
LEMMA HeldGrows ==
    ASSUME NEW n, NEW s, NEW b, Held(n, ToSet(s))', IsChain(s)', Len(s) > 0, s[1] = b
    PROVE  Held(With(n, b, Len(s)), {})' /\ b \notin DOMAIN n
<1>1. PICK ch : Chains(ch, n, ToSet(s))'
  BY DEF Held
<1>2. s \in Seq(Page) /\ Len(s) \in Nat /\ 1 \in 1..Len(s) /\ b \in ToSet(s)
  BY ChainSet DEF IsChain
<1>3. b \notin DOMAIN n
  <2> SUFFICES ASSUME b \in DOMAIN n PROVE FALSE
    OBVIOUS
  <2>1. /\ ch[b] \in Seq(Page) /\ Len(ch[b]) = n[b] /\ n[b] > 0 /\ ch[b][1] = b
        /\ ToSet(ch[b]) \cap ToSet(s) = {}
    BY <1>1 DEF Chains, IsChain
  <2>2. b \in ToSet(ch[b])
    <3>1. 1 \in 1..Len(ch[b])
      BY <2>1, ChainSet
    <3> QED
      BY <2>1, <3>1, ChainSet
  <2> QED
    BY <1>2, <2>1, <2>2
<1> DEFINE m == With(n, b, Len(s))
           x == [d \in DOMAIN n \cup {b} |-> IF d = b THEN s ELSE ch[d]]
<1>4. /\ DOMAIN m = DOMAIN n \cup {b} /\ m[b] = Len(s) /\ x[b] = s
      /\ \A d \in DOMAIN n : m[d] = n[d] /\ x[d] = ch[d]
  BY <1>3 DEF With
<1> HIDE DEF m, x
<1>5. \A d \in DOMAIN m : d \in DOMAIN n \/ d = b
  BY <1>4
<1>6. ASSUME NEW d \in DOMAIN m
      PROVE  IsChain(x[d])' /\ Len(x[d]) = m[d] /\ m[d] > 0 /\ x[d][1] = d
  <2>1. CASE d = b
    BY <1>4, <2>1 DEF IsChain
  <2>2. CASE d \in DOMAIN n
    BY <1>1, <1>4, <2>2 DEF Chains, IsChain
  <2> QED
    BY <1>5, <2>1, <2>2
<1>7. Mapped' = {} \cup UNION {ToSet(x[d]) : d \in DOMAIN m}
  <2>1. Mapped' = ToSet(s) \cup UNION {ToSet(ch[d]) : d \in DOMAIN n}
    BY <1>1 DEF Chains
  <2>2. UNION {ToSet(x[d]) : d \in DOMAIN m}
            = ToSet(s) \cup UNION {ToSet(ch[d]) : d \in DOMAIN n}
    BY <1>4
  <2> QED
    BY <2>1, <2>2
<1>8. ASSUME NEW d \in DOMAIN m, NEW e \in DOMAIN m, ToSet(x[d]) \cap ToSet(x[e]) # {}
      PROVE  d = e
  BY <1>1, <1>4, <1>5, <1>8 DEF Chains
<1>9. Chains(x, m, {})'
  BY <1>6, <1>7, <1>8 DEF Chains
<1>10. Held(m, {})'
  BY <1>9 DEF Held
<1> QED
  BY <1>3, <1>10 DEF m

\* t_free's chain is one less.
LEMMA HeldShrinks ==
    ASSUME NEW n, NEW b \in DOMAIN n, Held(n, {})
    PROVE  \E s : IsChain(s) /\ Len(s) = n[b] /\ s[1] = b /\ Held(But(n, b), ToSet(s))
<1>1. PICK ch : Chains(ch, n, {})
  BY DEF Held
<1> DEFINE m == But(n, b)
           s == ch[b]
<1>2. DOMAIN m = DOMAIN n \ {b} /\ \A d \in DOMAIN m : m[d] = n[d]
  BY DEF But, Restrict
<1>3. IsChain(s) /\ Len(s) = n[b] /\ s[1] = b
  BY <1>1 DEF Chains
<1> HIDE DEF m
<1>4. \A d \in DOMAIN m : IsChain(ch[d]) /\ Len(ch[d]) = m[d] /\ m[d] > 0 /\ ch[d][1] = d
  BY <1>1, <1>2 DEF Chains
<1>5. Mapped = ToSet(s) \cup UNION {ToSet(ch[d]) : d \in DOMAIN m}
  BY <1>1, <1>2 DEF Chains
<1>6. \A d \in DOMAIN m : ToSet(ch[d]) \cap ToSet(s) = {}
  BY <1>1, <1>2 DEF Chains
<1>7. \A d, e \in DOMAIN m : ToSet(ch[d]) \cap ToSet(ch[e]) # {} => d = e
  BY <1>1, <1>2 DEF Chains
<1>8. Held(m, ToSet(s))
  BY <1>4, <1>5, <1>6, <1>7 DEF Held, Chains
<1> QED
  BY <1>3, <1>8 DEF m

LEMMA HeldSizes ==
    ASSUME NEW n, NEW own, Held(n, own)
    PROVE  \A b \in DOMAIN n : n[b] \in Nat \ {0}
<1>1. PICK ch : Chains(ch, n, own)
  BY DEF Held
<1> TAKE b \in DOMAIN n
<1>2. ch[b] \in Seq(Page) /\ Len(ch[b]) = n[b] /\ n[b] > 0
  BY <1>1 DEF Chains, IsChain
<1> QED
  BY <1>2, ChainSet

LEMMA DivisionExact ==
    ASSUME NEW n \in Nat, NEW d \in Nat \ {0}
    PROVE  (n * d) \div d = n
<1> DEFINE S == {k \in Nat : (k * d) \div d = k}
<1>1. 0 \in S
  BY DivisionSmall
<1>2. ASSUME NEW k \in Nat, k \in S PROVE k + 1 \in S
  <2>1. k * d \in Nat /\ (k + 1) * d = k * d + d
    OBVIOUS
  <2>2. (k * d + d) \div d = (k * d) \div d + 1
    BY <2>1, DivisionStep
  <2> QED
    BY <1>2, <2>1, <2>2
<1> HIDE DEF S
<1>3. n \in S
  BY <1>1, <1>2, InductionOverNat
<1> QED
  BY <1>3 DEF S

\* What clients hold after a call returned.
LEMMA Returned ==
    ASSUME ~ Careless, NEW t \in Client, NEW value, NEW n, Return(t, value, n),
           n = [b \in DOMAIN n |-> n[b]], \A b \in DOMAIN n : n[b] \in Nat
    PROVE  Allocations' = n
<1>1. content' = Contents(mem', n)
  BY DEF Return
<1>2. DOMAIN content' = DOMAIN n
  BY <1>1 DEF Contents
<1>3. ASSUME NEW b \in DOMAIN n PROVE Len(content'[b]) \div Payload = n[b]
  <2>1. n[b] * Payload \in Nat
    BY FirstProperties
  <2>2. Len(content'[b]) = n[b] * Payload
    BY <1>1, <2>1 DEF Contents
  <2> QED
    BY <2>2, DivisionExact, FirstProperties
<1>4. Allocations' = [b \in DOMAIN content' |-> Len(content'[b]) \div Payload]
  BY DEF Allocations
<1> QED
  BY <1>2, <1>3, <1>4


-----------------------------------------------------------------------------
(* Following the links from page to page.                                  *)

IsTrail(f, m, b, n) ==
    f = [k \in 0..n |-> IF k = 0 THEN b ELSE m[FrameOf(m, f[k - 1])][0][2]]

LEMMA ChainPageIs ==
    ASSUME NEW m, NEW b, NEW n \in Nat, NEW s, s[0] = b,
           \A k \in 0..(n - 1) : s[k + 1] = m[FrameOf(m, s[k])][0][2]
    PROVE  ChainPage(m, b, n) = s[n]
<1> DEFINE g == [k \in 0..n |-> s[k]]
           page == CHOOSE f : IsTrail(f, m, b, n)
<1>1. IsTrail(g, m, b, n)
  <2>1. ASSUME NEW k \in 0..n
        PROVE  g[k] = IF k = 0 THEN b ELSE m[FrameOf(m, g[k - 1])][0][2]
    <3>1. CASE k = 0
      BY <3>1
    <3>2. CASE k # 0
      <4>1. k - 1 \in 0..(n - 1) /\ k - 1 \in 0..n /\ (k - 1) + 1 = k
        BY <3>2
      <4>2. s[k] = m[FrameOf(m, s[k - 1])][0][2]
        BY <4>1
      <4>3. g[k] = s[k] /\ g[k - 1] = s[k - 1]
        BY <4>1
      <4> QED
        BY <3>2, <4>2, <4>3
    <3> QED
      BY <3>1, <3>2
  <2> QED
    BY <2>1 DEF IsTrail
<1>2. IsTrail(page, m, b, n)
  BY <1>1
<1>3. ChainPage(m, b, n) = page[n]
  BY DEF ChainPage, IsTrail
<1> HIDE DEF page, g
<1> DEFINE S == {k \in Nat : k <= n => page[k] = s[k]}
<1>4. 0 \in S
  BY <1>2 DEF IsTrail
<1>5. ASSUME NEW k \in Nat, k \in S PROVE k + 1 \in S
  <2> SUFFICES ASSUME k + 1 <= n PROVE page[k + 1] = s[k + 1]
    OBVIOUS
  <2>1. k + 1 \in 0..n /\ k + 1 # 0 /\ (k + 1) - 1 = k /\ k \in 0..(n - 1)
    OBVIOUS
  <2>2. page[k + 1] = m[FrameOf(m, page[k])][0][2]
    BY <1>2, <2>1 DEF IsTrail
  <2>3. page[k] = s[k]
    BY <1>5, <2>1
  <2> QED
    BY <2>1, <2>2, <2>3
<1> HIDE DEF S
<1>6. n \in S
  BY <1>4, <1>5, InductionOverNat
<1> QED
  BY <1>3, <1>6 DEF S

\* The pages that clients' chains have, and their end.
LEMMA ChainIs ==
    ASSUME Inv, FirstTable, scheme = "ready", NEW s, IsChain(s), Len(s) > 0,
           NEW b, s[1] = b
    PROVE  /\ \A i \in 0..(Len(s) - 1) : ChainPage(mem, b, i) = s[i + 1]
           /\ ChainPage(mem, b, Len(s)) = 0
<1> USE DEF Inv
<1> DEFINE n == Len(s)
           r == [k \in 0..n |-> IF k < n THEN s[k + 1] ELSE 0]
<1>1. s \in Seq(Page) /\ n \in Nat /\ n > 0
  BY ChainSet DEF IsChain
<1>2. ASSUME NEW k \in 0..(n - 1) PROVE r[k + 1] = mem[FrameOf(mem, r[k])][0][2]
  <2>1. PICK p : p = s[k + 1]
    OBVIOUS
  <2>2. k + 1 \in 1..n /\ k \in 0..n /\ k + 1 \in 0..n /\ k < n /\ r[k] = p
    BY ONLY <1>1, <1>2, <2>1
  <2>3. p \in Mapped /\ Link(p) = IF k + 1 < n THEN s[k + 2] ELSE 0
    <3>1. \A i \in 1..n : s[i] \in Mapped /\ Link(s[i]) = IF i < n THEN s[i + 1] ELSE 0
      BY DEF IsChain
    <3>2. (k + 1) + 1 = k + 2
      BY <1>2
    <3> QED
      BY <2>1, <2>2, <3>1, <3>2
  <2>4. r[k + 1] = IF k + 1 < n THEN s[k + 2] ELSE 0
    <3>1. (k + 1) + 1 = k + 2
      BY <1>2
    <3> QED
      BY <2>2, <3>1
  <2>5. p \in First /\ mem[0][0] = <<"frame", 0>>
    BY <2>3, MappedFrame
  <2>6. FrameOf(mem, p) = mem[0][p][2]
    BY <2>5, WalkFirst
  <2> HIDE DEF r, n
  <2> QED
    BY <2>2, <2>3, <2>4, <2>6 DEF Link
<1>3. r[0] = b /\ r[n] = 0
  BY <1>1
<1>4. ASSUME NEW i \in 0..n PROVE ChainPage(mem, b, i) = r[i]
  <2>1. i \in Nat /\ \A k \in 0..(i - 1) : k \in 0..(n - 1)
    BY <1>1
  <2> HIDE DEF r
  <2> QED
    BY <1>2, <1>3, <2>1, ChainPageIs
<1>5. n \in 0..n /\ \A i \in 0..(n - 1) : i \in 0..n /\ r[i] = s[i + 1]
  BY <1>1
<1> QED
  BY <1>3, <1>4, <1>5

LEMMA HeldCovers ==
    ASSUME Inv, FirstTable, scheme = "ready", Held(Allocations, {})
    PROVE  /\ UNION {ChainPages(b) : b \in DOMAIN content} = Mapped
           /\ \A b \in DOMAIN content :
                 /\ Cardinality(ChainPages(b)) = Allocations[b]
                 /\ Chain(b)[Allocations[b]] = 0
                 /\ \A d \in DOMAIN content : ChainPages(b) \cap ChainPages(d) # {} => b = d
<1>1. PICK ch : Chains(ch, Allocations, {})
  BY DEF Held
<1>2. DOMAIN Allocations = DOMAIN content
  BY DEF Allocations
<1>3. ASSUME NEW b \in DOMAIN content
      PROVE  /\ ChainPages(b) = ToSet(ch[b]) /\ Chain(b)[Allocations[b]] = 0
             /\ Cardinality(ChainPages(b)) = Allocations[b]
  <2>0. PICK s, n : s = ch[b] /\ n = Allocations[b]
    OBVIOUS
  <2>1. IsChain(s) /\ Len(s) = n /\ n > 0 /\ s[1] = b
    BY <1>1, <1>2, <2>0 DEF Chains
  <2>2. s \in Seq(Page) /\ n \in Nat /\ ToSet(s) = {s[i] : i \in 1..n} /\ ToSet(s) \subseteq Page
    BY <2>1, ChainSet DEF IsChain
  <2>3. /\ \A i \in 0..(n - 1) : ChainPage(mem, b, i) = s[i + 1]
        /\ ChainPage(mem, b, n) = 0
    BY <2>1, ChainIs
  <2>4. /\ \A i \in 0..n : Chain(b)[i] = ChainPage(mem, b, i)
        /\ ChainPages(b) = {Chain(b)[i] : i \in 0..(n - 1)}
    BY <2>0 DEF Chain, ChainPages
  <2>5. n \in 0..n /\ \A i \in 0..(n - 1) : i \in 0..n
    BY <2>2
  <2>6. ChainPages(b) = {s[i + 1] : i \in 0..(n - 1)}
    BY <2>3, <2>4, <2>5
  <2>7. {s[i + 1] : i \in 0..(n - 1)} = {s[i] : i \in 1..n}
    <3>1. \A i \in 0..(n - 1) : i + 1 \in 1..n
      BY <2>2
    <3>2. \A i \in 1..n : i - 1 \in 0..(n - 1) /\ (i - 1) + 1 = i
      BY <2>2
    <3> QED
      BY ONLY <3>1, <3>2
  <2>8. ChainPages(b) = ToSet(s)
    BY <2>2, <2>6, <2>7
  <2>9. Cardinality(ToSet(s)) = n
    <3> DEFINE T == ToSet(s)
               f == [i \in 1..n |-> s[i]]
    <3>1. f \in Bijection(1..n, T)
      <4>1. f \in [1..n -> T] /\ \A e \in T : \E i \in 1..n : f[i] = e
        BY <2>2
      <4>2. ASSUME NEW i \in 1..n, NEW j \in 1..n, f[i] = f[j] PROVE i = j
        <5>1. s[i] \in Nat /\ s[j] \in Nat /\ s[i] = s[j]
          BY <2>2, <4>2 DEF Page
        <5>2. i < j => s[i] < s[j]
          BY <2>1 DEF IsChain
        <5>3. j < i => s[j] < s[i]
          BY <2>1 DEF IsChain
        <5> QED
          BY <5>1, <5>2, <5>3
      <4> QED
        BY <4>1, <4>2 DEF Bijection, Injection, Surjection, IsInjective
    <3>2. ExistsBijection(1..n, T)
      BY <3>1 DEF ExistsBijection
    <3>3. IsFiniteSet(1..n) /\ Cardinality(1..n) = n
      BY <2>2, FS_Interval
    <3> HIDE DEF T
    <3> QED
      BY <3>2, <3>3, FS_Bijection DEF T
  <2> QED
    BY <2>0, <2>3, <2>4, <2>5, <2>8, <2>9
<1>4. UNION {ChainPages(b) : b \in DOMAIN content} = Mapped
  <2>1. Mapped = UNION {ToSet(ch[b]) : b \in DOMAIN content}
    BY <1>1, <1>2 DEF Chains
  <2> QED
    BY <1>3, <2>1
<1>5. \A b, d \in DOMAIN content : ChainPages(b) \cap ChainPages(d) # {} => b = d
  BY <1>1, <1>2, <1>3 DEF Chains
<1> QED
  BY <1>3, <1>4, <1>5

LEMMA HeldGivesCover ==
    ASSUME Inv, FirstTable, HeldInv
    PROVE  ChainsCoverPages
<1> SUFFICES ASSUME lock = NoClient, scheme = "ready" PROVE Held(Allocations, {})
  BY HeldCovers DEF ChainsCoverPages
<1>1. \A t \in Client : pc[t] \notin {"map", "free"}
  BY VmAssumption DEF Inv, LockInv, LockExcludes, Inside
<1> QED
  BY <1>1 DEF HeldInv


-----------------------------------------------------------------------------
(* What each step does to the chains.                                      *)

AllocInv == HeldInv /\ UseInv

LEMMA HeldSame ==
    ASSUME UNCHANGED <<vbits, mem>>, NEW n, NEW own, Held(n, own)
    PROVE  Held(n, own)'
<1>1. \A q : Link(q)' = Link(q)
  BY DEF Link
<1>2. Mapped' = Mapped
  BY DEF Mapped
<1>3. PICK ch : Chains(ch, n, own)
  BY DEF Held
<1>4. own \subseteq Mapped
  BY <1>3 DEF Chains
<1>5. Mapped' = (Mapped \ own) \cup own /\ own \cap (Mapped \ own) = {}
  BY <1>2, <1>4
<1> QED
  BY <1>1, <1>5, HeldStays

\* How the invariant follows from what a step leaves.
LEMMA HeldIdle ==
    ASSUME NEW n, Allocations' = n, Held(n, {})',
           \A t \in Client : pc'[t] \notin {"map", "free"}
    PROVE  HeldInv'
<1>1. Held(Allocations, {})'
  BY DEF Held, Chains
<1> QED
  BY <1>1 DEF HeldInv

LEMMA HeldMap ==
    ASSUME NEW t \in Client, NEW n, NEW own, Allocations' = n, TakenPages(call[t])' = own,
           Held(n, own)', \A p \in own : Link(p)' = 0, pc'[t] = "map",
           \A u \in Client \ {t} : pc'[u] \notin {"map", "free"}
    PROVE  HeldInv'
<1>1. Held(Allocations, TakenPages(call[t]))'
  BY DEF Held, Chains
<1>2. (\A p \in TakenPages(call[t]) : Link(p) = 0)'
  OBVIOUS
<1> QED
  BY <1>1, <1>2 DEF HeldInv

LEMMA HeldFree ==
    ASSUME NEW t \in Client, NEW n, NEW c, NEW s, Allocations' = n, call'[t] = c,
           Ahead(s, c)', Held(But(n, c.base), ToSet(s))', pc'[t] = "free",
           \A u \in Client \ {t} : pc'[u] \notin {"map", "free"}
    PROVE  HeldInv'
<1>1. Held(But(Allocations, call[t].base), ToSet(s))'
  <2>1. PICK m : m = But(n, c.base)
    OBVIOUS
  <2>2. Held(m, ToSet(s))'
    BY <2>1
  <2>3. But(Allocations, call[t].base)' = m
    BY <2>1 DEF But, Restrict
  <2> QED
    BY ONLY <2>2, <2>3 DEF Held, Chains
<1>2. Ahead(s, call[t])'
  BY DEF Ahead
<1> QED
  BY <1>1, <1>2 DEF HeldInv

LEMMA OthersOut ==
    ASSUME LockInv, NEW t \in Client, Inside(t), NEW where, Goto(t, where)
    PROVE  /\ \A u \in Client \ {t} : pc'[u] \notin {"map", "free"} /\ pc[u] \notin {"map", "free"}
           /\ pc'[t] = where
  BY Alone DEF Inside, LockInv, Goto

LEMMA HeldNow ==
    ASSUME LockInv, HeldInv, NEW t \in Client, Inside(t)
    PROVE  pc[t] \notin {"map", "free"} => Held(Allocations, {})
<1> SUFFICES ASSUME pc[t] \notin {"map", "free"} PROVE Held(Allocations, {})
  OBVIOUS
<1>1. \A u \in Client : pc[u] \notin {"map", "free"}
  BY Alone DEF Inside
<1> QED
  BY <1>1, Alone DEF HeldInv

\* A step that leaves everything but calls outside of t_malloc and t_free alone.
LEMMA QuietHeld ==
    ASSUME HeldInv, UNCHANGED <<vbits, mem, content>>, scheme' = "ready" => scheme = "ready",
           \A u \in Client : \/ pc'[u] = pc[u] /\ call'[u] = call[u]
                             \/ {pc[u], pc'[u]} \cap {"map", "free"} = {}
    PROVE  HeldInv'
<1> SUFFICES ASSUME scheme' = "ready" PROVE HeldInv'
  BY DEF HeldInv
<1>0. PICK n : n = Allocations
  OBVIOUS
<1>1. Allocations' = n
  BY <1>0 DEF Allocations
<1>2. \A q : Link(q)' = Link(q)
  BY DEF Link
<1>3. Mapped' = Mapped
  BY DEF Mapped
<1>4. ASSUME \A u \in Client : pc'[u] \notin {"map", "free"} PROVE Held(Allocations, {})'
  <2>1. \A u \in Client : pc[u] \notin {"map", "free"}
    BY <1>4
  <2>2. Held(n, {})
    BY <1>0, <2>1 DEF HeldInv
  <2>3. Held(n, {})'
    BY <2>2, HeldSame
  <2> QED
    BY <1>1, <2>3 DEF Held, Chains
<1>5. ASSUME NEW u \in Client, pc'[u] = "map"
      PROVE  (/\ Held(Allocations, TakenPages(call[u]))
              /\ \A p \in TakenPages(call[u]) : Link(p) = 0)'
  <2>1. PICK own : own = TakenPages(call[u])
    OBVIOUS
  <2>2. pc[u] = "map" /\ call'[u] = call[u]
    BY <1>5
  <2>3. Held(n, own) /\ \A p \in own : Link(p) = 0
    BY <1>0, <2>1, <2>2 DEF HeldInv
  <2>4. Held(n, own)' /\ (\A p \in own : Link(p)' = 0) /\ TakenPages(call[u])' = own
    BY <1>2, <2>1, <2>2, <2>3, HeldSame DEF TakenPages
  <2> QED
    BY <1>1, <2>4 DEF Held, Chains
<1>6. ASSUME NEW u \in Client, pc'[u] = "free"
      PROVE  (\E s : Ahead(s, call[u]) /\ Held(But(Allocations, call[u].base), ToSet(s)))'
  <2>1. PICK c : c = call[u]
    OBVIOUS
  <2>2. pc[u] = "free" /\ call'[u] = c
    BY <1>6, <2>1
  <2>3. PICK s : Ahead(s, c) /\ Held(But(n, c.base), ToSet(s))
    BY <1>0, <2>1, <2>2 DEF HeldInv
  <2>4. Held(But(n, c.base), ToSet(s))'
    BY <2>3, HeldSame
  <2>5. Ahead(s, c)'
    BY <1>2, <1>3, <2>3 DEF Ahead, IsChain
  <2>6. Held(But(Allocations, call[u].base), ToSet(s))'
    <3>1. PICK m : m = But(n, c.base)
      OBVIOUS
    <3>2. Held(m, ToSet(s))'
      BY <2>4, <3>1
    <3>3. But(Allocations, call[u].base)' = m
      BY <1>1, <2>2, <3>1 DEF But, Restrict
    <3> QED
      BY ONLY <3>2, <3>3 DEF Held, Chains
  <2>7. Ahead(s, call[u])'
    BY <2>2, <2>5 DEF Ahead
  <2> QED
    BY <2>6, <2>7
<1> QED
  BY <1>4, <1>5, <1>6 DEF HeldInv

LEMMA UseStays ==
    ASSUME UseInv, NEW t \in Client, \A u \in Client \ {t} : call'[u] = call[u],
           call'[t].op = "free" => /\ call[t].op = "free" /\ call'[t].base = call[t].base
                                   /\ call'[t].size = call[t].size,
           \A u \in Client : call'[u].op = "free" =>
              /\ call[u].base \in DOMAIN Allocations'
              /\ Allocations'[call[u].base] = Allocations[call[u].base]
    PROVE  UseInv'
<1>1. \A u \in Client : call'[u].op = "free" =>
         /\ call[u].op = "free" /\ call'[u].base = call[u].base /\ call'[u].size = call[u].size
  OBVIOUS
<1>2. ASSUME NEW u \in Client, call'[u].op = "free"
      PROVE  /\ call'[u].base \in DOMAIN Allocations'
             /\ Allocations'[call'[u].base] = Pages(call'[u].size)
             /\ \A w \in Client :
                  call'[w].op = "free" /\ call'[w].base = call'[u].base => w = u
  BY <1>1, <1>2 DEF UseInv
<1> QED
  BY <1>2 DEF UseInv

\* A call that goes on.
LEMMA UseContinues ==
    ASSUME CallInv, UseInv, NEW t \in Client, NEW where, NEW c, Continue(t, where, c),
           c.op = call[t].op, c.base = call[t].base, c.size = call[t].size
    PROVE  UseInv' /\ Allocations' = Allocations /\ call'[t] = c /\ Goto(t, where)
<1>1. Allocations' = Allocations /\ Goto(t, where)
  BY DEF Continue, Allocations
<1>2. call'[t] = c /\ \A u \in Client \ {t} : call'[u] = call[u]
  BY DEF Continue, CallInv
<1>3. \A u \in Client : call'[u].op = "free" => call[u].op = "free"
  BY <1>2
<1>4. \A u \in Client : call'[u].op = "free" =>
              /\ call[u].base \in DOMAIN Allocations'
              /\ Allocations'[call[u].base] = Allocations[call[u].base]
  BY <1>1, <1>3 DEF UseInv
<1>5. UseInv'
  BY <1>2, <1>4, UseStays
<1> QED
  BY <1>1, <1>2, <1>5

\* A call that returns.
LEMMA AllocReturns ==
    ASSUME ~ Careless, LockInv, CallInv, UseInv, NEW t \in Client, Inside(t), NEW value, NEW n,
           Return(t, value, n), n = [b \in DOMAIN n |-> n[b]],
           \A b \in DOMAIN n : n[b] \in Nat, Held(n, {})',
           \A u \in Client \ {t} : call[u].op = "free" =>
              call[u].base \in DOMAIN n /\ n[call[u].base] = Allocations[call[u].base]
    PROVE  AllocInv'
<1>1. Allocations' = n
  BY Returned
<1>2. Goto(t, "idle") /\ call' = [call EXCEPT ![t] = NoCall]
  BY DEF Return
<1>3. HeldInv'
  BY <1>1, <1>2, OthersOut, HeldIdle
<1>4. call'[t] = NoCall /\ \A u \in Client \ {t} : call'[u] = call[u]
  BY <1>2 DEF CallInv
<1>5. call'[t].op # "free"
  BY <1>4 DEF NoCall
<1>6. UseInv'
  BY <1>1, <1>4, <1>5, UseStays
<1> QED
  BY <1>3, <1>6 DEF AllocInv

\* ... and leaves what clients hold as it was.
LEMMA AllocSame ==
    ASSUME ~ Careless, LockInv, CallInv, UseInv, NEW t \in Client, Inside(t), NEW value,
           Return(t, value, Allocations), Held(Allocations, {}),
           Mapped' = Mapped, \A q \in Mapped : Link(q)' = Link(q)
    PROVE  AllocInv'
<1>0. PICK n : n = Allocations
  OBVIOUS
<1>1. n = [b \in DOMAIN n |-> n[b]] /\ Return(t, value, n)
  BY <1>0 DEF Allocations
<1>2. \A b \in DOMAIN n : n[b] \in Nat
  BY <1>0, HeldSizes
<1>3. Held(n, {})'
  BY <1>0, HeldStays
<1>4. \A u \in Client \ {t} : call[u].op = "free" =>
         call[u].base \in DOMAIN n /\ n[call[u].base] = Allocations[call[u].base]
  BY <1>0 DEF UseInv
<1> QED
  BY <1>1, <1>2, <1>3, <1>4, AllocReturns


\* t_malloc.
LEMMA MallocFitsAlloc ==
    ASSUME Inv, AllocInv, NEW t \in Client, MallocFits(t)
    PROVE  AllocInv'
<1> USE DEF Inv, AllocInv
<1>0. PICK n, c : n = Allocations /\ c = call[t]
  OBVIOUS
<1>1. /\ pc[t] = "allocate" /\ Inside(t) /\ Continue(t, "map", c)
      /\ UNCHANGED <<vbits, mem>>
  BY <1>0 DEF MallocFits, At, Inside, memory
<1>2. c.words = <<>>
  BY <1>0, <1>1 DEF CallInv, CallAt
<1>3. UseInv' /\ Allocations' = n /\ call'[t] = c /\ Goto(t, "map")
  BY <1>0, <1>1, UseContinues
<1>4. Held(n, {})
  BY <1>0, <1>1, HeldNow
<1>5. Held(n, {})'
  BY <1>1, <1>4, HeldSame
<1>6. TakenPages(call[t])' = {}
  BY <1>2, <1>3 DEF TakenPages
<1>7. HeldInv'
  BY <1>1, <1>3, <1>5, <1>6, OthersOut, HeldMap
<1> QED
  BY <1>3, <1>7

LEMMA MapPageAlloc ==
    ASSUME Inv, AllocInv, FirstTable, FirstTable', NEW t \in Client, MapPage(t)
    PROVE  AllocInv'
<1> USE DEF Inv, AllocInv
<1>0. PICK n, c, p, f, own, d :
           /\ n = Allocations /\ c = call[t] /\ p = LowestFree(vbits) /\ f = LowestFree(fbits)
           /\ own = TakenPages(c)
           /\ d = [c EXCEPT !.left = c.left - 1, !.words = Append(c.words, <<p, f>>)]
  OBVIOUS
<1>1. pc[t] = "map" /\ Inside(t) /\ scheme = "ready" /\ Continue(t, "map", d)
  BY <1>0, Alone DEF MapPage, At, Inside
<1>2. c \in Call
  BY <1>0 DEF CallInv
<1>3. /\ d.op = c.op /\ d.base = c.base /\ d.size = c.size
      /\ d.words = Append(c.words, <<p, f>>) /\ c.words \in Seq((Page \X Frame) \cup Word)
  BY <1>0, <1>2 DEF Call
<1>4. UseInv' /\ Allocations' = n /\ call'[t] = d /\ Goto(t, "map")
  <2>1. d.op = call[t].op /\ d.base = call[t].base /\ d.size = call[t].size
    BY <1>0, <1>3
  <2>2. t \in Client /\ CallInv /\ UseInv /\ n = Allocations /\ Continue(t, "map", d)
    BY <1>0, <1>1
  <2> QED
    BY ONLY <2>1, <2>2, UseContinues
<1>5. /\ \A q \in Mapped : Link(q)' = Link(q)
      /\ Link(p)' = 0 /\ p \notin Mapped /\ Mapped' = Mapped \cup {p}
  BY <1>0, MapPageLinks
<1>6. Held(n, own) /\ \A q \in own : Link(q) = 0
  BY <1>0, <1>1 DEF HeldInv
<1>7. own \subseteq Mapped
  BY <1>6 DEF Held, Chains
<1>8. Held(n, own \cup {p})'
  <2>1. PICK more : more = own \cup {p}
    OBVIOUS
  <2>2. Mapped' = (Mapped \ own) \cup more /\ more \cap (Mapped \ own) = {}
    BY <1>5, <1>7, <2>1
  <2>3. Held(n, more)'
    BY <1>5, <1>6, <2>2, HeldStays
  <2> QED
    BY <2>1, <2>3
<1>9. TakenPages(call[t])' = own \cup {p}
  <2>1. PICK w, e : w = c.words /\ e = Append(w, <<p, f>>)
    OBVIOUS
  <2>2. /\ w \in Seq((Page \X Frame) \cup Word) /\ Len(w) \in Nat /\ DOMAIN w = 1..Len(w)
    BY <1>3, <2>1
  <2>3. /\ DOMAIN e = 1..(Len(w) + 1) /\ e[Len(w) + 1] = <<p, f>>
        /\ \A j \in 1..Len(w) : e[j] = w[j]
    BY <2>1, <2>2
  <2>4. {e[j][1] : j \in 1..(Len(w) + 1)} = {w[j][1] : j \in 1..Len(w)} \cup {p}
    <3>1. 1..(Len(w) + 1) = 1..Len(w) \cup {Len(w) + 1}
      BY <2>2
    <3>2. e[Len(w) + 1][1] = p
      BY <2>3
    <3>3. \A j \in 1..Len(w) : e[j][1] = w[j][1]
      BY <2>3
    <3> QED
      BY ONLY <3>1, <3>2, <3>3
  <2>5. own = {w[j][1] : j \in 1..Len(w)}
    BY <1>0, <2>1, <2>2 DEF TakenPages
  <2>6. TakenPages(call[t])' = {e[j][1] : j \in 1..(Len(w) + 1)}
    <3>1. call'[t].words = e /\ DOMAIN e = 1..(Len(w) + 1)
      BY <1>3, <1>4, <2>1, <2>3
    <3> QED
      BY ONLY <3>1 DEF TakenPages
  <2> QED
    BY <2>4, <2>5, <2>6
<1>10. \A q \in own \cup {p} : Link(q)' = 0
  BY <1>5, <1>6, <1>7
<1>11. HeldInv'
  <2>1. PICK more : more = own \cup {p}
    OBVIOUS
  <2>2. /\ Held(n, more)' /\ TakenPages(call[t])' = more /\ \A q \in more : Link(q)' = 0
    BY <1>8, <1>9, <1>10, <2>1
  <2>3. pc'[t] = "map" /\ \A u \in Client \ {t} : pc'[u] \notin {"map", "free"}
    BY <1>1, <1>4, OthersOut
  <2> QED
    BY <1>4, <2>2, <2>3, HeldMap
<1> QED
  BY <1>4, <1>11

LEMMA MallocReturnsAlloc ==
    ASSUME ~ Careless, Inv, AllocInv, FirstTable, NEW t \in Client, MallocReturns(t)
    PROVE  AllocInv'
<1> USE DEF Inv, AllocInv
<1>0. PICK n, s, b, m :
           /\ n = Allocations /\ b = call[t].words[1][1]
           /\ s = [j \in 1..Len(call[t].words) |-> call[t].words[j][1]]
           /\ m = With(n, b, Len(s))
  OBVIOUS
<1>1. pc[t] = "map" /\ Inside(t) /\ scheme = "ready"
  BY Alone DEF MallocReturns, At, Inside
<1>2. Held(n, TakenPages(call[t])) /\ \A p \in TakenPages(call[t]) : Link(p) = 0
  BY <1>0, <1>1 DEF HeldInv
<1>3. /\ IsChain(s)' /\ Len(s) > 0
      /\ ToSet(s) = TakenPages(call[t]) /\ s[1] = b
      /\ Mapped' = Mapped
      /\ \A q \in Mapped \ TakenPages(call[t]) : Link(q)' = Link(q)
  BY <1>0, <1>2, MallocLinks
<1>4. Len(s) \in Nat /\ Len(s) = Len(call[t].words)
  <2>1. s \in Seq(Page)
    BY <1>3 DEF IsChain
  <2>2. call[t].words \in Seq((Page \X Frame) \cup Word)
    BY DEF CallInv, Call
  <2> QED
    BY <1>0, <2>1, <2>2
<1>5. Held(n, ToSet(s))'
  <2>1. PICK own : own = ToSet(s)
    OBVIOUS
  <2>2. own \subseteq Mapped
    BY <1>2, <1>3, <2>1 DEF Held, Chains
  <2>3. Held(n, own) /\ \A q \in Mapped \ own : Link(q)' = Link(q)
    BY <1>2, <1>3, <2>1
  <2>4. Mapped' = (Mapped \ own) \cup own /\ own \cap (Mapped \ own) = {}
    BY <1>3, <2>2
  <2>5. Held(n, own)'
    BY <2>3, <2>4, HeldStays
  <2> QED
    BY <2>1, <2>5
<1>6. Held(m, {})' /\ b \notin DOMAIN n
  BY <1>0, <1>3, <1>5, HeldGrows
<1>7. \E value : Return(t, value, m)
  BY <1>0, <1>4 DEF MallocReturns
<1>8. /\ DOMAIN m = DOMAIN n \cup {b} /\ m = [d \in DOMAIN m |-> m[d]] /\ m[b] = Len(s)
      /\ \A d \in DOMAIN n : m[d] = n[d]
  BY <1>0, <1>6 DEF With
<1>9. \A d \in DOMAIN n : n[d] \in Nat
  BY <1>2, HeldSizes
<1>10. \A d \in DOMAIN m : m[d] \in Nat
  BY <1>4, <1>8, <1>9
<1>11. \A u \in Client \ {t} : call[u].op = "free" =>
          call[u].base \in DOMAIN m /\ m[call[u].base] = Allocations[call[u].base]
  BY <1>0, <1>8 DEF UseInv
<1> HIDE DEF Inv, AllocInv
<1>12. LockInv /\ CallInv /\ UseInv
  BY DEF Inv, AllocInv
<1> QED
  BY <1>1, <1>6, <1>7, <1>8, <1>10, <1>11, <1>12, AllocReturns

\* t_free.
LEMMA CheckPassesAlloc ==
    ASSUME Inv, AllocInv, NEW t \in Client, CheckPasses(t)
    PROVE  AllocInv'
<1> USE DEF Inv, AllocInv
<1>0. PICK n, c : n = Allocations /\ c = call[t]
  OBVIOUS
<1>1. pc[t] = "check" /\ Inside(t) /\ UNCHANGED <<vbits, mem>> /\ c \in Call
  BY <1>0 DEF CheckPasses, At, Inside, memory, CallInv
<1>2. Held(n, {})
  BY <1>0, <1>1, HeldNow
<1>3. CASE c.op = "free"
  <2>1. PICK d : d = [c EXCEPT !.at = c.base, !.left = Pages(c.size)]
    OBVIOUS
  <2>2. Continue(t, "free", d)
    BY <1>0, <1>3, <2>1 DEF CheckPasses
  <2>3. /\ d.op = c.op /\ d.base = c.base /\ d.size = c.size /\ d.at = c.base
        /\ d.left = Pages(c.size)
    BY <1>1, <2>1 DEF Call
  <2>4. UseInv' /\ Allocations' = n /\ call'[t] = d /\ Goto(t, "free")
    BY <1>0, <2>2, <2>3, UseContinues
  <2>5. c.base \in DOMAIN n /\ n[c.base] = Pages(c.size)
    BY <1>0, <1>3 DEF UseInv
  <2>6. PICK s : IsChain(s) /\ Len(s) = n[c.base] /\ s[1] = c.base /\ Held(But(n, c.base), ToSet(s))
    BY <1>2, <2>5, HeldShrinks
  <2>7. Held(But(n, d.base), ToSet(s))'
    BY <1>1, <2>3, <2>6, HeldSame
  <2>8. Ahead(s, d)'
    <3>1. IsChain(s)'
      BY <1>1, <2>6 DEF IsChain, Mapped, Link
    <3> QED
      BY <2>3, <2>5, <2>6, <3>1 DEF Ahead
  <2>9. HeldInv'
    BY <1>1, <2>4, <2>7, <2>8, OthersOut, HeldFree
  <2> QED
    BY <2>4, <2>9
<1>4. CASE c.op # "free"
  <2>1. PICK d : d = [c EXCEPT !.at = c.base, !.left = c.size]
    OBVIOUS
  <2>2. Continue(t, "copy", d)
    BY <1>0, <1>4, <2>1 DEF CheckPasses
  <2>3. /\ d.op = c.op /\ d.base = c.base /\ d.size = c.size
    BY <1>1, <2>1 DEF Call
  <2>4. UseInv' /\ Allocations' = n /\ Goto(t, "copy")
    BY <1>0, <2>2, <2>3, UseContinues
  <2>5. Held(n, {})'
    BY <1>1, <1>2, HeldSame
  <2>6. HeldInv'
    BY <1>1, <2>4, <2>5, OthersOut, HeldIdle
  <2> QED
    BY <2>4, <2>6
<1> QED
  BY <1>3, <1>4

LEMMA FreePageAlloc ==
    ASSUME Inv, AllocInv, FirstTable, NEW t \in Client, FreePage(t)
    PROVE  AllocInv'
<1> USE DEF Inv, AllocInv
<1>0. PICK n, c, p, k : n = Allocations /\ c = call[t] /\ p = c.at /\ k = c.left
  OBVIOUS
<1>1. pc[t] = "free" /\ Inside(t) /\ scheme = "ready" /\ k > 0
  BY <1>0, Alone DEF FreePage, At, Inside
<1>2. c \in Call /\ k \in Nat
  BY <1>0 DEF CallInv, Call
<1>3. \E at : Continue(t, "free", [c EXCEPT !.at = at, !.left = c.left - 1])
  BY <1>0 DEF FreePage
<1>4. PICK at, d : d = [c EXCEPT !.at = at, !.left = k - 1] /\ Continue(t, "free", d)
  BY <1>0, <1>3
<1>5. d.op = c.op /\ d.base = c.base /\ d.size = c.size /\ d.left = k - 1
  BY <1>2, <1>4 DEF Call
<1>6. UseInv' /\ Allocations' = n /\ call'[t] = d /\ Goto(t, "free")
  <2>1. d.op = call[t].op /\ d.base = call[t].base /\ d.size = call[t].size
    BY <1>0, <1>5
  <2>2. t \in Client /\ CallInv /\ UseInv /\ n = Allocations /\ Continue(t, "free", d)
    BY <1>0, <1>4
  <2> QED
    BY ONLY <2>1, <2>2, UseContinues
<1>7. d.at = Link(p)
  BY <1>0, <1>6, FreePageEffect
<1>8. /\ \A q \in Mapped \ {p} : Link(q)' = Link(q)
      /\ p \in Mapped /\ Mapped' = Mapped \ {p}
  BY <1>0, FreePageLinks
<1>9. PICK s : Ahead(s, c) /\ Held(But(n, c.base), ToSet(s))
  BY <1>0, <1>1 DEF HeldInv
<1>10. /\ IsChain(s) /\ s \in Seq(Page) /\ Len(s) = k /\ s[1] = p
       /\ \A i \in 1..k : s[i] \in Mapped /\ Link(s[i]) = IF i < k THEN s[i + 1] ELSE 0
       /\ \A i, j \in 1..k : i < j => s[i] < s[j]
  BY <1>0, <1>1, <1>9 DEF Ahead, IsChain
<1>11. PICK r : r = [i \in 1..(k - 1) |-> s[i + 1]]
  OBVIOUS
<1>12. r \in Seq(Page) /\ Len(r) = k - 1 /\ \A i \in 1..(k - 1) : r[i] = s[i + 1] /\ r[i] # p
  <2>1. k - 1 \in Nat
    BY <1>1, <1>2
  <2>2. \A i \in 1..(k - 1) : s[i + 1] \in Page
    BY <1>2, <1>10
  <2>3. ASSUME NEW i \in 1..(k - 1) PROVE s[i + 1] # p
    <3>1. 1 \in 1..k /\ i + 1 \in 1..k /\ 1 < i + 1
      BY <1>1, <1>2
    <3>2. s[1] < s[i + 1]
      BY <1>10, <3>1
    <3>3. p \in Page
      BY <1>8 DEF Inv, MemoryInv, TableInv, Mapped
    <3>4. p \in Nat
      BY <3>3 DEF Page
    <3> QED
      BY <1>10, <3>2, <3>4
  <2> QED
    BY <1>11, <2>1, <2>2, <2>3
<1>13. ToSet(s) = {p} \cup ToSet(r) /\ p \notin ToSet(r) /\ p \in ToSet(s)
  <2>1. ToSet(s) = {s[i] : i \in 1..k} /\ ToSet(r) = {r[i] : i \in 1..(k - 1)}
    BY <1>10, <1>12, ChainSet
  <2>2. \A i \in 1..k : i = 1 \/ (i - 1 \in 1..(k - 1) /\ (i - 1) + 1 = i)
    BY <1>2
  <2>3. \A i \in 1..(k - 1) : i + 1 \in 1..k
    BY <1>2
  <2>4. 1 \in 1..k /\ s[1] = p
    BY <1>1, <1>2, <1>10
  <2>5. \A i \in 1..(k - 1) : r[i] = s[i + 1] /\ r[i] # p
    BY <1>12
  <2>6. ASSUME NEW i \in 1..k PROVE s[i] \in {p} \cup ToSet(r)
    <3>1. CASE i = 1
      BY ONLY <2>4, <3>1
    <3>2. CASE i - 1 \in 1..(k - 1) /\ (i - 1) + 1 = i
      <4>1. r[i - 1] = s[i]
        BY ONLY <2>5, <3>2
      <4> QED
        BY ONLY <2>1, <3>2, <4>1
    <3> QED
      BY <2>2, <3>1, <3>2
  <2>7. ASSUME NEW i \in 1..(k - 1) PROVE r[i] \in ToSet(s)
    BY ONLY <2>1, <2>3, <2>5
  <2>8. p \in ToSet(s) /\ p \notin ToSet(r)
    BY ONLY <2>1, <2>4, <2>5
  <2>9. ToSet(s) \subseteq {p} \cup ToSet(r)
    BY ONLY <2>1, <2>6
  <2>10. ToSet(r) \subseteq ToSet(s)
    BY ONLY <2>1, <2>7
  <2> QED
    BY ONLY <2>8, <2>9, <2>10
<1>14. IsChain(r)'
  <2>1. ASSUME NEW i \in 1..(k - 1)
        PROVE  r[i] \in Mapped' /\ Link(r[i])' = IF i < k - 1 THEN r[i + 1] ELSE 0
    <3>1. /\ i + 1 \in 1..k /\ (i + 1 < k <=> i < k - 1)
          /\ i < k - 1 => i + 1 \in 1..(k - 1)
      BY <1>2
    <3>2. PICK q : q = r[i]
      OBVIOUS
    <3>3. q = s[i + 1] /\ q \in Mapped /\ q # p
          /\ Link(q) = IF i + 1 < k THEN s[(i + 1) + 1] ELSE 0
      BY <1>10, <1>12, <3>1, <3>2
    <3>4. Link(q)' = Link(q) /\ q \in Mapped'
      BY <1>8, <3>3
    <3>5. i < k - 1 => r[i + 1] = s[(i + 1) + 1]
      BY <1>12, <3>1
    <3> QED
      BY <3>1, <3>2, <3>3, <3>4, <3>5
  <2>2. ASSUME NEW i \in 1..(k - 1), NEW j \in 1..(k - 1), i < j PROVE r[i] < r[j]
    <3>1. i + 1 \in 1..k /\ j + 1 \in 1..k /\ i + 1 < j + 1
      BY <1>2, <2>2
    <3> QED
      BY <1>10, <1>12, <3>1
  <2> QED
    BY <1>12, <2>1, <2>2 DEF IsChain
<1>15. k - 1 > 0 => r[1] = Link(p)
  <2> SUFFICES ASSUME k - 1 > 0 PROVE r[1] = Link(p)
    OBVIOUS
  <2>1. 1 \in 1..k /\ 1 < k /\ 1 \in 1..(k - 1)
    BY <1>2
  <2> QED
    BY <1>10, <1>12, <2>1
<1>16. Ahead(r, d)'
  BY <1>5, <1>7, <1>12, <1>14, <1>15 DEF Ahead
<1>17. Held(But(n, d.base), ToSet(r))'
  <2>1. PICK m, own, rest : m = But(n, c.base) /\ own = ToSet(s) /\ rest = ToSet(r)
    OBVIOUS
  <2>2. Held(m, own) /\ own \subseteq Mapped
    BY <1>9, <1>10, <2>1, ChainAt
  <2>3. Mapped' = (Mapped \ own) \cup rest /\ rest \cap (Mapped \ own) = {}
    BY <1>8, <1>13, <2>1, <2>2
  <2>4. \A q \in Mapped \ own : Link(q)' = Link(q)
    BY <1>8, <1>13, <2>1
  <2>5. Held(m, rest)'
    BY <2>2, <2>3, <2>4, HeldStays
  <2> QED
    BY <1>5, <2>1, <2>5
<1>18. HeldInv'
  BY <1>1, <1>6, <1>16, <1>17, OthersOut, HeldFree
<1> QED
  BY <1>6, <1>18

LEMMA FreeReturnsAlloc ==
    ASSUME ~ Careless, Inv, AllocInv, NEW t \in Client, FreeReturns(t)
    PROVE  AllocInv'
<1> USE DEF Inv, AllocInv
<1>0. PICK n, c, m : n = Allocations /\ c = call[t] /\ m = But(n, c.base)
  OBVIOUS
<1>1. /\ pc[t] = "free" /\ Inside(t) /\ scheme = "ready" /\ (c.left = 0 \/ c.at = 0)
      /\ UNCHANGED <<vbits, mem>>
  BY <1>0, Alone DEF FreeReturns, At, Inside, memory
<1>2. c \in Call /\ c.left \in Nat /\ c.op = "free"
  BY <1>0, <1>1 DEF CallInv, CallAt, Call
<1>3. PICK s : Ahead(s, c) /\ Held(m, ToSet(s))
  BY <1>0, <1>1 DEF HeldInv
<1>4. s \in Seq(Page) /\ Len(s) = c.left
  BY <1>3 DEF Ahead, IsChain
<1>5. c.left = 0
  <2> SUFFICES ASSUME c.left > 0 PROVE FALSE
    BY <1>2
  <2>1. s[1] = c.at /\ 1 \in 1..Len(s) /\ s[1] \in Mapped
    BY <1>2, <1>3, <1>4 DEF Ahead, IsChain
  <2> QED
    BY <1>1, <2>1 DEF Mapped
<1>6. ToSet(s) = {}
  <2>1. ToSet(s) = {s[i] : i \in 1..0}
    BY <1>4, <1>5, ChainSet
  <2>2. 1..0 = {}
    OBVIOUS
  <2> QED
    BY ONLY <2>1, <2>2
<1>7. Held(m, {})'
  BY <1>1, <1>3, <1>6, HeldSame
<1>8. Return(t, <<>>, m)
  BY <1>0 DEF FreeReturns, But
<1>9. DOMAIN m = DOMAIN n \ {c.base} /\ m = [b \in DOMAIN m |-> m[b]]
      /\ \A b \in DOMAIN m : m[b] = n[b]
  BY <1>0 DEF But, Restrict
<1>10. \A b \in DOMAIN m : m[b] \in Nat
  BY <1>3, HeldSizes
<1>11. \A u \in Client \ {t} : call[u].op = "free" =>
          call[u].base \in DOMAIN m /\ m[call[u].base] = Allocations[call[u].base]
  BY <1>0, <1>2, <1>9 DEF UseInv
<1>12. LockInv /\ CallInv /\ UseInv
  OBVIOUS
<1> HIDE DEF Inv, AllocInv
<1> QED
  BY <1>1, <1>7, <1>8, <1>9, <1>10, <1>11, <1>12, AllocReturns


\* The other steps.
LEMMA QuietAlloc ==
    ASSUME Inv, AllocInv, NEW t \in Client, UNCHANGED <<vbits, mem, content>>,
           scheme' = "ready" => scheme = "ready",
           \A u \in Client \ {t} : pc'[u] = pc[u] /\ call'[u] = call[u],
           {pc[t], pc'[t]} \cap {"map", "free"} = {},
           call'[t].op = "free" => /\ call[t].op = "free" /\ call'[t].base = call[t].base
                                   /\ call'[t].size = call[t].size
    PROVE  AllocInv'
<1>1. HeldInv'
  <2>1. \A u \in Client : \/ pc'[u] = pc[u] /\ call'[u] = call[u]
                          \/ {pc[u], pc'[u]} \cap {"map", "free"} = {}
    OBVIOUS
  <2> QED
    BY <2>1, QuietHeld DEF AllocInv
<1>2. Allocations' = Allocations
  BY DEF Allocations
<1>3. \A u \in Client : call'[u].op = "free" => call[u].op = "free"
  OBVIOUS
<1>4. \A u \in Client : call'[u].op = "free" =>
         /\ call[u].base \in DOMAIN Allocations'
         /\ Allocations'[call[u].base] = Allocations[call[u].base]
  BY <1>2, <1>3 DEF AllocInv, UseInv
<1>5. UseInv'
  BY <1>4, UseStays DEF AllocInv
<1> QED
  BY <1>1, <1>5 DEF AllocInv

\* A call that goes on, with what it does to others.
LEMMA QuietContinues ==
    ASSUME Inv, AllocInv, NEW t \in Client, NEW where \in {"check", "copy"}, NEW c,
           pc[t] \in {"check", "copy"}, UNCHANGED <<vbits, mem>>, Continue(t, where, c),
           c.op = call[t].op, c.base = call[t].base, c.size = call[t].size
    PROVE  AllocInv'
<1>1. /\ pc'[t] = where /\ call'[t] = c
      /\ \A u \in Client \ {t} : pc'[u] = pc[u] /\ call'[u] = call[u]
      /\ UNCHANGED <<scheme, content>>
  BY DEF Continue, Goto, Inv, LockInv, CallInv
<1> QED
  BY <1>1, QuietAlloc

LEMMA QuietReturns ==
    ASSUME ~ Careless, Inv, AllocInv, NEW t \in Client, NEW value, Inside(t),
           pc[t] \notin {"map", "free"}, UNCHANGED <<vbits, mem>>,
           Return(t, value, Allocations)
    PROVE  AllocInv'
<1>1. Held(Allocations, {})
  BY HeldNow DEF Inv, AllocInv
<1>2. Mapped' = Mapped /\ \A q \in Mapped : Link(q)' = Link(q)
  BY DEF Mapped, Link
<1>3. LockInv /\ CallInv /\ UseInv
  BY DEF Inv, AllocInv
<1> QED
  BY <1>1, <1>2, <1>3, AllocSame

LEMMA CheckAlloc ==
    ASSUME ~ Careless, Inv, AllocInv, NEW t \in Client,
           MallocFails(t) \/ CheckPage(t) \/ CheckFails(t)
    PROVE  AllocInv'
<1>1. CASE MallocFails(t)
  <2>1. /\ Inside(t) /\ pc[t] \notin {"map", "free"} /\ UNCHANGED <<vbits, mem>>
        /\ Return(t, <<NULL>>, Allocations)
    BY <1>1 DEF MallocFails, At, Inside, memory
  <2> QED
    BY <2>1, QuietReturns
<1>2. CASE CheckFails(t)
  <2>1. /\ Inside(t) /\ pc[t] \notin {"map", "free"} /\ UNCHANGED <<vbits, mem>>
        /\ \E value : Return(t, value, Allocations)
    BY <1>2 DEF CheckFails, At, Inside, memory
  <2> QED
    BY <2>1, QuietReturns
<1>3. CASE CheckPage(t)
  <2>1. PICK c : c = call[t]
    OBVIOUS
  <2>2. PICK at, d : /\ d = [c EXCEPT !.at = at, !.left = c.left - 1]
                     /\ Continue(t, "check", d)
    BY <1>3, <2>1 DEF CheckPage
  <2>3. d.op = call[t].op /\ d.base = call[t].base /\ d.size = call[t].size
    BY <2>1, <2>2 DEF Inv, CallInv, Call
  <2>4. pc[t] = "check" /\ UNCHANGED <<vbits, mem>>
    BY <1>3 DEF CheckPage, At
  <2>5. t \in Client /\ Inv /\ AllocInv /\ Continue(t, "check", d)
    BY <2>2
  <2> QED
    BY ONLY <2>3, <2>4, <2>5, QuietContinues
<1> QED
  BY <1>1, <1>2, <1>3

LEMMA OntoCall ==
    ASSUME NEW c \in Call, NEW f, NEW w
    PROVE  /\ Onto(c, f).op = c.op /\ Onto(c, f).base = c.base /\ Onto(c, f).size = c.size
           /\ [Onto(c, f) EXCEPT !.words = w].op = c.op
           /\ [Onto(c, f) EXCEPT !.words = w].base = c.base
           /\ [Onto(c, f) EXCEPT !.words = w].size = c.size
  BY DEF Onto, Call

LEMMA CopyAlloc ==
    ASSUME ~ Careless, Inv, AllocInv, FirstTable, NEW t \in Client, PutPage(t) \/ GetPage(t)
    PROVE  AllocInv'
<1>0. PICK c, f, n : c = call[t] /\ f = FrameAt(c.at) /\ n = Allocations
  OBVIOUS
<1>1. pc[t] = "copy" /\ Inside(t) /\ c \in Call
  BY <1>0 DEF PutPage, GetPage, At, Inside, Inv, CallInv
<1>2. LockInv /\ CallInv /\ UseInv /\ HeldInv
  BY DEF Inv, AllocInv
<1>3. Held(n, {})
  BY <1>0, <1>1, <1>2, HeldNow
<1>4. CASE PutPage(t)
  <2>1. Mapped' = Mapped /\ \A q \in Mapped : Link(q)' = Link(q)
    BY <1>4, PutPageLinks
  <2>2. CASE c.left <= Room(c)
    <3>1. Return(t, <<>>, Allocations)
      BY <1>0, <1>4, <2>2 DEF PutPage
    <3> QED
      BY <1>0, <1>1, <1>2, <1>3, <2>1, <3>1, AllocSame
  <2>3. CASE ~ (c.left <= Room(c))
    <3>1. PICK d : d = Onto(c, f)
      OBVIOUS
    <3>2. Continue(t, "copy", d)
      BY <1>0, <1>4, <2>3, <3>1 DEF PutPage
    <3>3. d.op = call[t].op /\ d.base = call[t].base /\ d.size = call[t].size
      BY <1>0, <1>1, <3>1, OntoCall
    <3>4. UseInv' /\ Allocations' = n /\ Goto(t, "copy")
      BY <1>0, <1>2, <3>2, <3>3, UseContinues
    <3>5. Held(n, {})'
      BY <1>3, <2>1, HeldStays
    <3>6. HeldInv'
      BY <1>1, <1>2, <3>4, <3>5, OthersOut, HeldIdle
    <3> QED
      BY <3>4, <3>6 DEF AllocInv
  <2> QED
    BY <2>2, <2>3
<1>5. CASE GetPage(t)
  <2>1. UNCHANGED <<vbits, mem>>
    BY <1>5 DEF GetPage
  <2>2. CASE c.left <= Room(c)
    <3>1. \E value : Return(t, value, Allocations)
      BY <1>0, <1>5, <2>2 DEF GetPage
    <3> QED
      BY <1>1, <2>1, <3>1, QuietReturns
  <2>3. CASE ~ (c.left <= Room(c))
    <3>1. PICK w, d : d = [Onto(c, f) EXCEPT !.words = w] /\ Continue(t, "copy", d)
      BY <1>0, <1>5, <2>3 DEF GetPage
    <3>2. d.op = call[t].op /\ d.base = call[t].base /\ d.size = call[t].size
      BY <1>0, <1>1, <3>1, OntoCall
    <3>3. t \in Client /\ Inv /\ AllocInv /\ Continue(t, "copy", d)
      BY <3>1
    <3> QED
      BY ONLY <1>1, <2>1, <3>2, <3>3, QuietContinues
  <2> QED
    BY <2>2, <2>3
<1> QED
  BY <1>4, <1>5

\* The first t_malloc: nothing is in use, and nothing is held.
LEMMA InitialiseAlloc ==
    ASSUME Inv, AllocInv, NEW t \in Client, Initialise(t)
    PROVE  AllocInv'
<1>1. pc[t] = "initialising" /\ scheme = "partial"
  BY DEF Initialise, At, Inv, LockInv
<1>2. DOMAIN content = {} /\ content' = content /\ Mapped' = {}
  BY <1>1 DEF Initialise, Inv, LockInv, Mapped
<1>3. PICK n : n = Allocations
  OBVIOUS
<1>4. Allocations' = n /\ DOMAIN n = {}
  BY <1>2, <1>3 DEF Allocations
<1>5. Chains(<<>>, n, {})'
  BY <1>2, <1>4 DEF Chains
<1>6. Held(n, {})'
  BY <1>5 DEF Held
<1>7. \A u \in Client : pc'[u] \notin {"map", "free"}
  <2> TAKE u \in Client
  <2>1. pc[u] \notin {"map", "free"}
    BY <1>1 DEF Inv, LockInv, LockExcludes, Inside
  <2>2. pc'[u] \in {pc[u], "initialised"}
    BY DEF Initialise, Goto, Inv, LockInv
  <2> QED
    BY <2>1, <2>2
<1>8. HeldInv'
  BY <1>4, <1>6, <1>7, HeldIdle
<1>9. call' = call
  BY DEF Initialise
<1>10. UseInv'
  BY <1>3, <1>4, <1>9 DEF AllocInv, UseInv
<1> QED
  BY <1>8, <1>10 DEF AllocInv

LEMMA MoveAlloc ==
    ASSUME Inv, AllocInv, NEW t \in Client,
           Spin(t) \/ Unspin(t) \/ Lock(t) \/ CheckFailsInGet(t) \/ StrayGet(t)
    PROVE  AllocInv'
<1>1. UNCHANGED <<vbits, mem, content, call>> /\ (scheme' = "ready" => scheme = "ready")
  BY DEF Spin, Unspin, Lock, CheckFailsInGet, StrayGet, memory
<1>2. pc[t] \in {"spin", "initialised", "lock", "check", "unlocked"}
  BY DEF Spin, Unspin, Lock, CheckFailsInGet, StrayGet, At
<1>3. /\ pc'[t] \in {"initialising", "initialised", "lock", "allocate", "check", "unlocked"}
      /\ \A u \in Client \ {t} : pc'[u] = pc[u]
  <2>1. pc \in [Client -> Point]
    BY DEF Inv, LockInv
  <2> QED
    BY <2>1, <1>2 DEF Spin, Unspin, Lock, CheckFailsInGet, StrayGet, At, Goto
<1> QED
  BY <1>1, <1>2, <1>3, QuietAlloc

\* Clients free what they hold, while nobody else uses it.
LEMMA FreeCallAlloc ==
    ASSUME ~ Careless, Inv, AllocInv, NEW t \in Client, NEW b \in Page, NEW size \in Requests,
           FreeCall(t, b, size)
    PROVE  AllocInv'
<1>0. PICK c : c = [NoCall EXCEPT !.op = "free", !.base = b, !.size = size,
                                  !.at = b, !.left = Pages(size)]
  OBVIOUS
<1>1. c.op = "free" /\ c.base = b /\ c.size = size
  BY <1>0 DEF NoCall
<1>2. /\ pc[t] = "idle" /\ Begin(t, "lock", c) /\ MayFree(b, size)
      /\ UNCHANGED <<scheme, vbits, mem, content>>
  BY <1>0 DEF FreeCall, Idle, At, memory
<1>3. /\ pc'[t] = "lock" /\ call'[t] = c
      /\ \A u \in Client \ {t} : pc'[u] = pc[u] /\ call'[u] = call[u]
  BY <1>2 DEF Begin, Goto, Inv, LockInv, CallInv
<1>4. HeldInv'
  BY <1>2, <1>3, QuietHeld DEF AllocInv
<1>5. Allocations' = Allocations /\ b \in DOMAIN Allocations /\ Allocations[b] = Pages(size)
  BY <1>2 DEF Allocations, MayFree
<1>6. ASSUME NEW u \in Client \ {t}, call[u].op = "free", call[u].base = b
      PROVE  FALSE
  <2>1. pc[u] # "idle"
    BY <1>6 DEF Inv, CallInv, CallAt, NoCall
  <2> QED
    BY <1>2, <1>6, <2>1 DEF MayFree, InUse
<1>7. UseInv'
  <2>1. ASSUME NEW u \in Client, call'[u].op = "free"
        PROVE  /\ call'[u].base \in DOMAIN Allocations
               /\ Allocations[call'[u].base] = Pages(call'[u].size)
               /\ \A w \in Client :
                     call'[w].op = "free" /\ call'[w].base = call'[u].base => w = u
    <3>1. CASE u = t
      BY <1>1, <1>3, <1>5, <1>6, <3>1
    <3>2. CASE u # t
      <4>1. u \in Client \ {t} /\ call'[u] = call[u] /\ call[u].op = "free"
        BY <1>3, <2>1, <3>2
      <4>2. call[u].base # b
        BY <1>6, <4>1
      <4> QED
        BY <1>1, <1>3, <4>1, <4>2 DEF AllocInv, UseInv
    <3> QED
      BY <3>1, <3>2
  <2> QED
    BY <1>5, <2>1 DEF UseInv
<1> QED
  BY <1>4, <1>7 DEF AllocInv

LEMMA ClientAlloc ==
    ASSUME ~ Careless, Inv, AllocInv, NEW t \in Client, ClientStep(t)
    PROVE  AllocInv'
<1>1. ASSUME NEW c, c.op # "free", Idle(t), \E where \in {"spin", "lock"} : Begin(t, where, c),
             UNCHANGED <<scheme, memory, content>>
      PROVE  AllocInv'
  <2>1. /\ pc[t] = "idle" /\ pc'[t] \in {"spin", "lock"} /\ call'[t] = c
        /\ \A u \in Client \ {t} : pc'[u] = pc[u] /\ call'[u] = call[u]
    BY <1>1 DEF Idle, At, Begin, Goto, Inv, LockInv, CallInv
  <2>2. UNCHANGED <<vbits, mem, content, scheme>>
    BY <1>1 DEF memory
  <2> QED
    BY <1>1, <2>1, <2>2, QuietAlloc
<1>2. ASSUME NEW size \in Requests, MallocCall(t, size) PROVE AllocInv'
  <2>1. PICK c : c = [NoCall EXCEPT !.op = "malloc", !.size = size, !.left = Pages(size)]
    OBVIOUS
  <2>2. c.op # "free"
    BY <2>1 DEF NoCall
  <2> QED
    BY <1>1, <1>2, <2>1, <2>2 DEF MallocCall
<1>3. ASSUME NEW b \in Page, NEW size \in Requests, FreeNothing(t, b, size) PROVE AllocInv'
  <2>1. pc[t] = "idle" /\ UNCHANGED <<scheme, vbits, mem, pc, call, content>>
    BY <1>3 DEF FreeNothing, Idle, At, memory
  <2> QED
    BY <2>1, QuietAlloc
<1>4. ASSUME NEW op \in {"put", "get"}, NEW b \in Page, NEW a \in Accesses, NEW v,
             AccessCall(t, op, b, a, v)
      PROVE  AllocInv'
  <2>1. PICK c : c = [NoCall EXCEPT !.op = op, !.base = b, !.size = a[2], !.off = a[1],
                                    !.val = v, !.at = b, !.left = Pages(a[1] + a[2])]
    OBVIOUS
  <2>2. c.op # "free"
    BY <2>1 DEF NoCall
  <2> QED
    BY <1>1, <1>4, <2>1, <2>2 DEF AccessCall
<1> QED
  BY <1>2, <1>3, <1>4, FreeCallAlloc DEF ClientStep, PutCall, GetCall

LEMMA AllocInit == Init => AllocInv
  BY DEF Init, AllocInv, HeldInv, UseInv, NoCall

LEMMA AllocNext ==
    ASSUME ~ Careless, Inv, FirstTable, FirstTable', AllocInv, [Next]_vars
    PROVE  AllocInv'
<1>1. ASSUME NEW t \in Client, LibraryStep(t) PROVE AllocInv'
  <2>1. CASE Spin(t) \/ Unspin(t) \/ Lock(t) \/ CheckFailsInGet(t) \/ StrayGet(t)
    BY <2>1, MoveAlloc
  <2>2. CASE Initialise(t)
    BY <2>2, InitialiseAlloc
  <2>3. CASE MallocFits(t) \/ MapPage(t) \/ MallocReturns(t)
    BY <2>3, MallocFitsAlloc, MapPageAlloc, MallocReturnsAlloc
  <2>4. CASE MallocFails(t) \/ CheckPage(t) \/ CheckFails(t)
    BY <2>4, CheckAlloc
  <2>5. CASE CheckPasses(t) \/ FreePage(t) \/ FreeReturns(t)
    BY <2>5, CheckPassesAlloc, FreePageAlloc, FreeReturnsAlloc
  <2>6. CASE PutPage(t) \/ GetPage(t)
    BY <2>6, CopyAlloc
  <2> QED
    BY <1>1, <2>1, <2>2, <2>3, <2>4, <2>5, <2>6 DEF LibraryStep
<1>2. ASSUME NEW t \in Client, ClientStep(t) PROVE AllocInv'
  BY <1>2, ClientAlloc
<1>3. CASE Exit \/ UNCHANGED vars
  <2>1. UNCHANGED <<vbits, mem, content, scheme, pc, call>>
    BY <1>3 DEF Exit, vars, memory
  <2>2. HeldInv'
    BY <2>1, QuietHeld DEF AllocInv
  <2>3. UseInv'
    BY <2>1 DEF AllocInv, UseInv, Allocations
  <2> QED
    BY <2>2, <2>3 DEF AllocInv
<1> QED
  BY <1>1, <1>2, <1>3 DEF Next, Halted

(* Where clients keep to what they got, every page in use belongs to just   *)
(* one allocation, linked in full and ended: t_malloc leaks no page of a    *)
(* chain it links, and t_free returns all of it (my_vm.c:385-392, 466).     *)
THEOREM ChainsCorrect ==
    ASSUME ~ Careless
    PROVE  Spec /\ []FirstTable => []ChainsCoverPages
<1>1. Inv /\ FirstTable /\ FirstTable' /\ AllocInv /\ [Next]_vars => AllocInv'
  BY AllocNext
<1>2. Inv /\ FirstTable /\ AllocInv => ChainsCoverPages
  BY HeldGivesCover DEF AllocInv
<1> QED
  BY <1>1, <1>2, AllocInit, Invariant, PTL DEF Spec

(* And so in every behavior of a memory of one table (my_vm.c:385-392,      *)
(* 466).                                                                    *)
THEOREM OneTableChains ==
    ASSUME Tables = 1, ~ Careless
    PROVE  Spec => []ChainsCoverPages
<1>1. Spec => []FirstTable
  BY OneTable, PTL
<1> QED
  BY <1>1, ChainsCorrect, PTL
=============================================================================
