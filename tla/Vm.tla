--------------------------------- MODULE Vm ---------------------------------
(***************************************************************************)
(* The virtual memory of p3/code/my_vm.c: t_malloc, t_free, put_value and  *)
(* get_value, called by several threads, down to the page tables inside    *)
(* the simulated physical memory and the translation cache.                *)
(*                                                                         *)
(* Sizes and offsets are in words of sizeof(void * ).  One pass of a loop  *)
(* (one level of a recursion) is one step; library_lock keeps other calls  *)
(* away in between.  The directory's entries all name the directory's own  *)
(* frame (c:56), so that it serves as the page table as well.              *)
(***************************************************************************)
EXTENDS Tlb, FiniteSets, FiniteSetsExt, Functions, TLC

CONSTANTS
    Client, NoClient,  \* the threads
    Words,             \* PGSIZE, and the entries of a page table
    Tables,            \* 2^page_dir: entries of the directory in use
    Requests,          \* the sizes clients ask for
    Accesses,          \* the <<offset, length>> that clients put and get
    Values,            \* what they put
    Careless           \* do they use freed addresses and wrong sizes too?

ASSUME VmAssumption ==
    /\ NoClient \notin Client
    /\ Words \in Nat /\ Tables \in Nat /\ 1 < Words /\ 0 < Tables /\ Tables <= Words
    /\ Requests \subseteq Nat
    /\ Accesses \subseteq (0..(Words - 1)) \X (Nat \ {0})
    /\ Careless \in BOOLEAN

Payload == Words - 1                 \* PAYLOAD_BYTES
Page == 0..(Tables * Words - 1)
Frame == Page                        \* MEMSIZE is the smaller space
Reserved == 0..Tables                \* frames of the directory and the tables

NULL == <<"page", 0>>
Datum(v, i) == <<"data", <<v, i>>>>
Word == {<<"page", p>> : p \in Page} \cup {<<"frame", f>> : f \in Frame}
        \cup {Datum(v, i) : v \in Values, i \in UNION {1..a[2] : a \in Accesses}}
Failed == <<"error", 1>>              \* put_value's -1
Zeroed == [k \in 0..(Words - 1) |-> NULL]

VARIABLES
    scheme,    \* paging_scheme: "none", "partial" (set, the rest is not), "ready"
    spin,      \* who is past first_invocation
    lock,      \* who holds library_lock
    vbits,     \* virtual_bitmap: pages in use
    fbits,     \* frame_bitmap
    mem,       \* vm_start: the words of every frame
    tlb,       \* tlb_cache
    pc,        \* per client: where it is
    call,      \* per client: its call's arguments and local variables
    content,   \* per allocation: its words when library_lock was last released
    result,    \* who returned last, and with which words
    halted     \* how the process ended

memory == <<vbits, fbits, mem, tlb>>
vars == <<scheme, spin, lock, memory, pc, call, content, result, halted>>

NoCall == [op |-> "none", base |-> 0, size |-> 0, off |-> 0, val |-> NoClient,
           at |-> 0, left |-> 0, words |-> <<>>]

Init ==
    /\ scheme = "none" /\ spin = NoClient /\ lock = NoClient
    /\ vbits = {} /\ fbits = {} /\ tlb = <<>>
    /\ mem = [f \in Frame |-> Zeroed]
    /\ pc = [t \in Client |-> "idle"]
    /\ call = [t \in Client |-> NoCall]
    /\ content = <<>> /\ result = <<>> /\ halted = "no"

-----------------------------------------------------------------------------
(* Addresses.  word[2] is what a pointer names.                            *)

\* Pages for so many words.
Pages(size) == (size + Payload - 1) \div Payload

\* fetch_pte_from: the cell of page p's table entry.
Walk(m, p) == <<m[0][p \div Words][2], p % Words>>

\* The entry itself, and the frame it names.
Pte(m, p) == LET cell == Walk(m, p) IN m[cell[1]][cell[2]]
FrameOf(m, p) == Pte(m, p)[2]

\* translate, as the code reaches it through the cache.
Cell(p) == Translation(tlb, p, Walk(mem, p))
Touched(list, p) == Cached(list, p, Walk(mem, p))
FrameAt(p) == LET cell == Cell(p) IN mem[cell[1]][cell[2]][2]

\* The i-th page of the chain that starts at b.
ChainPage(m, b, i) ==
    LET page[k \in 0..i] ==
            IF k = 0 THEN b ELSE m[FrameOf(m, page[k - 1])][0][2]
    IN  page[i]

\* What clients see of the memory m: n[b] pages of payload from each b on.
Contents(m, n) ==
    [b \in DOMAIN n |->
        [i \in 1..(n[b] * Payload) |->
            m[FrameOf(m, ChainPage(m, b, (i - 1) \div Payload))]
             [((i - 1) % Payload) + 1]]]

Allocations == [b \in DOMAIN content |-> Len(content[b]) \div Payload]

-----------------------------------------------------------------------------
(* Clients.  Unless they are careless, they use addresses they got, within *)
(* the allocation, and nobody uses one while somebody frees it.            *)

At(t, where) == halted = "no" /\ pc[t] = where
Idle(t) == At(t, "idle")

InUse(b) == \E u \in Client : pc[u] # "idle" /\ call[u].op # "malloc" /\ call[u].base = b
Freeing(b) == \E u \in Client : call[u].op = "free" /\ call[u].base = b

MayFree(b, size) ==
    IF Careless
    THEN scheme # "partial"
    ELSE b \in DOMAIN content /\ ~InUse(b) /\ Pages(size) = Allocations[b]

MayAccess(b, a) ==
    IF Careless
    THEN scheme = "ready" /\ (b = 0 => a[1] = 0)
    ELSE b \in DOMAIN content /\ ~Freeing(b) /\ a[1] + a[2] <= Len(content[b])

Goto(t, where) == pc' = [pc EXCEPT ![t] = where]
Begin(t, where, c) ==
    /\ Goto(t, where)
    /\ call' = [call EXCEPT ![t] = c]

\* Out of a call that holds the lock; n is what the clients hold then.
Return(t, value, n) ==
    /\ Goto(t, "idle")
    /\ call' = [call EXCEPT ![t] = NoCall]
    /\ lock' = NoClient
    /\ result' = <<t, value>>
    /\ content' = IF Careless THEN content ELSE Contents(mem', n)
    /\ UNCHANGED <<scheme, spin, halted>>

Continue(t, where, c) ==
    /\ Goto(t, where)
    /\ call' = [call EXCEPT ![t] = c]
    /\ UNCHANGED <<scheme, spin, lock, content, result, halted>>

MallocCall(t, size) ==
    /\ Idle(t)
    /\ Begin(t, "spin", [NoCall EXCEPT !.op = "malloc", !.size = size, !.left = Pages(size)])
    /\ UNCHANGED <<scheme, spin, lock, memory, content, result, halted>>

FreeCall(t, b, size) ==
    /\ Idle(t)
    /\ MayFree(b, size)
    /\ size > 0 /\ scheme # "none"
    /\ Begin(t, "lock", [NoCall EXCEPT !.op = "free", !.base = b, !.size = size,
                                       !.at = b, !.left = Pages(size)])
    /\ UNCHANGED <<scheme, spin, lock, memory, content, result, halted>>

\* ... nothing to free, or no library yet.
FreeNothing(t, b, size) ==
    /\ Idle(t)
    /\ MayFree(b, size)
    /\ size = 0 \/ scheme = "none"
    /\ result' = <<t, <<>>>>
    /\ UNCHANGED <<scheme, spin, lock, memory, pc, call, content, halted>>

AccessCall(t, op, b, a, v) ==
    /\ Idle(t)
    /\ MayAccess(b, a)
    /\ Begin(t, "lock", [NoCall EXCEPT !.op = op, !.base = b, !.size = a[2], !.off = a[1],
                                       !.val = v, !.at = b, !.left = Pages(a[1] + a[2])])
    /\ UNCHANGED <<scheme, spin, lock, memory, content, result, halted>>

PutCall(t) == \E b \in Page, a \in Accesses, v \in Values : AccessCall(t, "put", b, a, v)
GetCall(t) == \E b \in Page, a \in Accesses : AccessCall(t, "get", b, a, NoClient)

-----------------------------------------------------------------------------
(* Initialisation and the locks.                                           *)

\* Variant: the flag is not tested.
SpinUntested(t) ==
    /\ At(t, "spin")
    /\ spin' = t
    /\ scheme' = IF scheme = "none" THEN "partial" ELSE scheme
    /\ Goto(t, IF scheme = "none" THEN "initialising" ELSE "initialised")
    /\ UNCHANGED <<lock, memory, call, content, result, halted>>

\* The first one past the flag sets paging_scheme ...
Spin(t) ==
    /\ At(t, "spin") /\ spin = NoClient
    /\ spin' = t
    /\ scheme' = IF scheme = "none" THEN "partial" ELSE scheme
    /\ Goto(t, IF scheme = "none" THEN "initialising" ELSE "initialised")
    /\ UNCHANGED <<lock, memory, call, content, result, halted>>

\* ... and everything else: the directory and the tables take their frames,
\* page 0 is never handed out, and the lock is created free.
Initialise(t) ==
    /\ At(t, "initialising")
    /\ scheme' = "ready"
    /\ vbits' = {0} /\ fbits' = Reserved
    /\ mem' = [mem EXCEPT ![0] = [k \in DOMAIN @ |-> IF k < Tables THEN <<"frame", 0>>
                                                                  ELSE NULL]]
    /\ lock' = NoClient
    /\ Goto(t, "initialised")
    /\ UNCHANGED <<spin, tlb, call, content, result, halted>>

Unspin(t) ==
    /\ At(t, "initialised")
    /\ spin' = NoClient
    /\ Goto(t, "lock")
    /\ UNCHANGED <<scheme, lock, memory, call, content, result, halted>>

Lock(t) ==
    /\ At(t, "lock") /\ lock = NoClient
    /\ lock' = t
    /\ Goto(t, IF call[t].op = "malloc" THEN "allocate" ELSE "check")
    /\ UNCHANGED <<scheme, spin, memory, call, content, result, halted>>

-----------------------------------------------------------------------------
(* t_malloc                                                                *)

\* n_bits_available
Available(bits, n) == Cardinality(Page \ bits) >= n

\* first_available_position
LowestFree(bits) == Min(Page \ bits)

Fits(c) == c.size > 0 /\ Available(vbits, c.left) /\ Available(fbits, c.left)

MallocFails(t) ==
    /\ At(t, "allocate") /\ ~Fits(call[t])
    /\ UNCHANGED memory
    /\ Return(t, <<NULL>>, Allocations)

MallocFits(t) ==
    /\ At(t, "allocate") /\ Fits(call[t])
    /\ UNCHANGED memory
    /\ Continue(t, "map", call[t])

\* Take a page and a frame, and map the one to the other.
MapPage(t) ==
    LET c    == call[t]
        p    == LowestFree(vbits)
        f    == LowestFree(fbits)
        cell == Cell(p)
    IN  /\ At(t, "map") /\ c.left > 0
        /\ vbits' = vbits \cup {p}
        /\ fbits' = fbits \cup {f}
        /\ mem' = [[mem EXCEPT ![f] = Zeroed] EXCEPT ![cell[1]][cell[2]] = <<"frame", f>>]
        /\ tlb' = Touched(tlb, p)
        /\ Continue(t, "map", [c EXCEPT !.left = c.left - 1,
                                        !.words = Append(c.words, <<p, f>>)])

\* Variant: the last page is linked to the first.
RingLinked(m, taken) ==
    [f \in Frame |->
        IF \E j \in DOMAIN taken : taken[j][2] = f
        THEN LET j == CHOOSE j \in DOMAIN taken : taken[j][2] = f
             IN  [m[f] EXCEPT ![0] = <<"page", taken[(j % Len(taken)) + 1][1]>>]
        ELSE m[f]]

\* The first word of each frame but the last names the next page.
Linked(m, taken) ==
    [f \in Frame |->
        IF \E j \in 1..(Len(taken) - 1) : taken[j][2] = f
        THEN LET j == CHOOSE j \in 1..(Len(taken) - 1) : taken[j][2] = f
             IN  [m[f] EXCEPT ![0] = <<"page", taken[j + 1][1]>>]
        ELSE m[f]]

\* n with one more allocation.
With(n, b, pages) == [d \in DOMAIN n \cup {b} |-> IF d = b THEN pages ELSE n[d]]

MallocReturns(t) ==
    LET c     == call[t]
        first == c.words[1][1]
    IN  /\ At(t, "map") /\ c.left = 0
        /\ mem' = Linked(mem, c.words)
        /\ UNCHANGED <<vbits, fbits, tlb>>
        /\ Return(t, <<<<"page", first>>>>, With(Allocations, first, Len(c.words)))

-----------------------------------------------------------------------------
(* valid_pages_linked_together_from, before t_free, put_value, get_value   *)

\* Variant: only NULL is refused.
UsableUnlessNull(p) == p # 0

\* A page in use always has a frame: see MappingsAgree.
UsablePage(p) == p # 0 /\ p \in vbits /\ Pte(mem, p) # NULL

CheckPage(t) ==
    LET c == call[t]
    IN  /\ At(t, "check") /\ c.left > 0 /\ UsablePage(c.at)
        /\ tlb' = Touched(tlb, c.at)
        /\ UNCHANGED <<vbits, fbits, mem>>
        /\ Continue(t, "check", [c EXCEPT !.at = mem[FrameAt(c.at)][0][2],
                                          !.left = c.left - 1])

\* All pages are there: back to the first.
CheckPasses(t) ==
    LET c == call[t]
    IN  /\ At(t, "check") /\ c.left = 0
        /\ UNCHANGED memory
        /\ IF c.op = "free"
           THEN Continue(t, "free", [c EXCEPT !.at = c.base, !.left = Pages(c.size)])
           ELSE Continue(t, "copy", [c EXCEPT !.at = c.base, !.left = c.size])

\* t_free does nothing; put_value reports the failure ...
CheckFails(t) ==
    LET c == call[t]
    IN  /\ At(t, "check") /\ c.left > 0 /\ ~UsablePage(c.at)
        /\ c.op # "get"
        /\ UNCHANGED memory
        /\ Return(t, IF c.op = "put" THEN <<Failed>> ELSE <<>>, Allocations)

\* ... and get_value releases the lock and goes on.
CheckFailsInGet(t) ==
    LET c == call[t]
    IN  /\ At(t, "check") /\ c.left > 0 /\ ~UsablePage(c.at)
        /\ c.op = "get"
        /\ lock' = NoClient
        /\ Goto(t, "unlocked")
        /\ UNCHANGED <<scheme, spin, memory, call, content, result, halted>>

\* It reads through the missing translation of an unmapped page, or memory
\* beyond the chain, and would then release the lock once more, whoever holds
\* it (line 643); the model ends here and leaves that second unlock out.
StrayGet(t) ==
    /\ At(t, "unlocked")
    /\ halted' = IF call[t].base \in vbits THEN "wild" ELSE "segv"
    /\ UNCHANGED <<scheme, spin, lock, memory, pc, call, content, result>>

-----------------------------------------------------------------------------
(* t_free_aux                                                              *)

\* Variant: the frame stays taken.
FramesKept(f) == fbits

\* The frame's bit is cleared.
FramesWithout(f) == fbits \ {f}

\* The page's translation leaves the cache, is looked up and so comes back.
FreePage(t) ==
    LET c    == call[t]
        rest == Without(tlb, c.at)
        cell == Translation(rest, c.at, Walk(mem, c.at))
        f    == mem[cell[1]][cell[2]][2]
        m    == [mem EXCEPT ![cell[1]][cell[2]] = NULL]
    IN  /\ At(t, "free") /\ c.left > 0 /\ c.at # 0
        /\ tlb' = Touched(rest, c.at)
        /\ vbits' = vbits \ {c.at}
        /\ fbits' = FramesWithout(f)
        /\ mem' = [m EXCEPT ![f] = Zeroed]
        /\ Continue(t, "free", [c EXCEPT !.at = m[f][0][2], !.left = c.left - 1])

FreeReturns(t) ==
    LET c == call[t]
    IN  /\ At(t, "free") /\ (c.left = 0 \/ c.at = 0)
        /\ UNCHANGED memory
        /\ Return(t, <<>>, Restrict(Allocations, DOMAIN Allocations \ {c.base}))

-----------------------------------------------------------------------------
(* put_value_aux and get_value_aux                                         *)

Room(c) == Payload - c.off

\* Variant: the first page's offset applies to the others.
OntoSameOffset(c, f) == [c EXCEPT !.at = mem[f][0][2], !.left = c.left - Room(c)]

\* The rest goes to the page that frame f links to, from its start.
Onto(c, f) == [c EXCEPT !.at = mem[f][0][2], !.off = 0, !.left = c.left - Room(c)]

PutPage(t) ==
    LET c == call[t]
        f == FrameAt(c.at)
        here == (c.off + 1)..(c.off + Min({c.left, Room(c)}))
    IN  /\ At(t, "copy") /\ c.op = "put"
        /\ mem' = [mem EXCEPT ![f] = [k \in DOMAIN @ |->
                      IF k \in here THEN Datum(c.val, c.size - c.left + k - c.off)
                                    ELSE @[k]]]
        /\ tlb' = Touched(tlb, c.at)
        /\ UNCHANGED <<vbits, fbits>>
        /\ IF c.left <= Room(c) THEN Return(t, <<>>, Allocations)
                                ELSE Continue(t, "copy", Onto(c, f))

GetPage(t) ==
    LET c == call[t]
        f == FrameAt(c.at)
        read == c.words \o [i \in 1..Min({c.left, Room(c)}) |-> mem[f][c.off + i]]
    IN  /\ At(t, "copy") /\ c.op = "get"
        /\ tlb' = Touched(tlb, c.at)
        /\ UNCHANGED <<vbits, fbits, mem>>
        /\ IF c.left <= Room(c) THEN Return(t, read, Allocations)
                                ELSE Continue(t, "copy", [Onto(c, f) EXCEPT !.words = read])

-----------------------------------------------------------------------------
\* The process exits when its threads are done; clean_my_vm frees everything.
Exit ==
    /\ \A t \in Client : Idle(t)
    /\ halted' = "exit"
    /\ tlb' = <<>> /\ lock' = NoClient
    /\ UNCHANGED <<scheme, spin, vbits, fbits, mem, pc, call, content, result>>

Halted == halted # "no" /\ UNCHANGED vars

ClientStep(t) ==
    \/ \E size \in Requests : MallocCall(t, size)
    \/ \E b \in Page, size \in Requests : FreeCall(t, b, size) \/ FreeNothing(t, b, size)
    \/ PutCall(t) \/ GetCall(t)

\* Inside a call.
LibraryStep(t) ==
    \/ Spin(t) \/ Initialise(t) \/ Unspin(t) \/ Lock(t)
    \/ MallocFails(t) \/ MallocFits(t) \/ MapPage(t) \/ MallocReturns(t)
    \/ CheckPage(t) \/ CheckPasses(t) \/ CheckFails(t)
    \/ CheckFailsInGet(t) \/ StrayGet(t)
    \/ FreePage(t) \/ FreeReturns(t)
    \/ PutPage(t) \/ GetPage(t)

Next == (\E t \in Client : ClientStep(t) \/ LibraryStep(t)) \/ Exit \/ Halted

Spec == Init /\ [][Next]_vars

\* The system runs every thread, and nothing is assumed of who gets a free lock.
FairSpec == Spec /\ \A t \in Client : WF_vars(LibraryStep(t))

-----------------------------------------------------------------------------
(* Properties.                                                             *)

Mapped == vbits \ {0}

\* The types; of the cache, that it never outgrows its bound.
TypeOK ==
    /\ scheme \in {"none", "partial", "ready"}
    /\ spin \in Client \cup {NoClient}
    /\ lock \in Client \cup {NoClient}
    /\ vbits \subseteq Page /\ fbits \subseteq Frame
    /\ mem \in [Frame -> [0..(Words - 1) -> Word]]
    /\ Len(tlb) <= TlbEntries
    /\ \A i \in DOMAIN tlb : tlb[i].page \in Page
    /\ pc \in [Client -> {"idle", "spin", "initialising", "initialised", "lock", "allocate",
                          "map", "check", "free", "copy", "unlocked"}]
    /\ \A t \in Client : call[t].at \in Page /\ call[t].left \in Nat
    /\ halted \in {"no", "exit", "wild", "segv"}

Inside(t) == pc[t] \in {"allocate", "map", "check", "free", "copy"}

\* Whoever is between the lock and the unlock of a call holds library_lock, and
\* the library is initialised: no initialisation resets the lock under a call,
\* although the calls race with the first t_malloc (c:331-341).
LockExcludes == \A t \in Client : Inside(t) => lock = t /\ scheme = "ready"

\* Bitmaps and page table agree after every step of t_malloc and t_free: the
\* pages in use map one to one onto the frames in use, and no entry of a page
\* that is not in use names a frame (c:297-309, c:441-467).
MappingsAgree ==
    scheme = "ready" =>
        /\ {FrameOf(mem, p) : p \in Mapped} = fbits \ Reserved
        /\ \A p, q \in Mapped : FrameOf(mem, p) = FrameOf(mem, q) => p = q
        /\ \A p \in Page \ vbits : Pte(mem, p) = NULL

\* The cache has at most one entry for a page, and that names the cell the walk
\* of the tables leads to, also when the page was freed and handed out again
\* since (c:178-218, c:448-450).
TlbCoherent ==
    \A i \in DOMAIN tlb :
        /\ tlb[i].cell = Walk(mem, tlb[i].page)
        /\ \A j \in DOMAIN tlb : tlb[i].page = tlb[j].page => i = j

Chain(b) == [i \in 0..Allocations[b] |-> ChainPage(mem, b, i)]
ChainPages(b) == {Chain(b)[i] : i \in 0..(Allocations[b] - 1)}

\* When no call is under way, every page in use belongs to exactly one chain of
\* an allocation that clients hold, which has all its pages and ends in NULL:
\* no page leaks and none is shared (c:385-392, c:466).
ChainsCoverPages ==
    lock = NoClient /\ scheme = "ready" /\ halted = "no" =>
        /\ UNION {ChainPages(b) : b \in DOMAIN content} = Mapped
        /\ \A b \in DOMAIN content :
              /\ Cardinality(ChainPages(b)) = Allocations[b]
              /\ Chain(b)[Allocations[b]] = 0
              /\ \A d \in DOMAIN content : ChainPages(b) \cap ChainPages(d) # {} => b = d

\* Once valid_pages_linked_together_from has said yes, t_free and put_value and
\* get_value find every page they come to in use, also on chains of which other
\* calls freed a part: t_free_aux never meets a page that it freed itself.
ChecksSuffice ==
    \A t \in Client :
        pc[t] \in {"free", "copy"} /\ call[t].left > 0 => call[t].at \in Mapped

\* The page tables are memory of their own: the entry of a page in use lies in
\* no frame that a client's page is mapped to (c:52, "allocate page tables").
TablesApart ==
    \A p, q \in Mapped : Walk(mem, p)[1] # FrameOf(mem, q)

\* Whoever holds library_lock or the flag of the initialisation gives it back: every
\* way out of a call unlocks, and the recursions along the links come to an end,
\* wherever an access starts (c:331-337, c:491-533, c:558-620).
LocksReleased == []<>(lock = NoClient) /\ []<>(spin = NoClient)

Abstract == INSTANCE Memory WITH Base <- Page \ {0},
                                 Requests <- {Pages(s) : s \in Requests \ {0}}

\* Clients that keep to their allocations see an ordinary memory: what they put
\* is what they get, across pages and whatever the others do in between, and
\* allocations are zeroed, whatever was in their frames before.
ImplementsMemory == Abstract!Spec
=============================================================================
