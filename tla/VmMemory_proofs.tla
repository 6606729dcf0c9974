--------------------------- MODULE VmMemory_proofs ---------------------------
(***************************************************************************)
(* Vm implements Memory: what clients that keep to their allocations see,  *)
(* for every number of threads, pages, words and cache entries.            *)
(***************************************************************************)
EXTENDS Vm_proofs

(* What clients see, for clients that keep to their allocations.           *)

\* The words of page p, and those of a chain in the memory m.
Sheet(p) == mem[mem[0][p][2]]
PageNo(i) == (i - 1) \div Payload + 1
WordNo(i) == ((i - 1) % Payload) + 1
ImageIn(m, s) == [i \in 1..(Len(s) * Payload) |-> m[m[0][s[PageNo(i)]][2]][WordNo(i)]]
Image(s) == ImageIn(mem, s)

\* s is the chain of the allocation at b.
ChainFor(s, b) ==
    /\ b \in DOMAIN content /\ IsChain(s)
    /\ Len(s) = Allocations[b] /\ Len(s) > 0 /\ s[1] = b

\* The memory holds what clients see of the allocation at b ...
Shown(b) == \E s : ChainFor(s, b) /\ content[b] = Image(s)

\* ... unless a t_free or put_value is at it.
Open(b) ==
    \E t \in Client : /\ call[t].base = b
                      /\ pc[t] = "free" \/ (pc[t] = "copy" /\ call[t].op = "put")

SizeInv ==
    /\ content = [b \in DOMAIN content |-> content[b]] /\ DOMAIN content \subseteq Page \ {0}
    /\ \A b \in DOMAIN content :
          /\ Allocations[b] \in Nat \ {0}
          /\ content[b] = [i \in 1..(Allocations[b] * Payload) |-> content[b][i]]

ShownInv == SizeInv /\ \A b \in DOMAIN content : Open(b) \/ Shown(b)

\* The words w with n words of the value v after the first o.
Written(w, o, n, v) ==
    [i \in DOMAIN w |-> IF i \in (o + 1)..(o + n) THEN Datum(v, i - o) ELSE w[i]]

\* An access that started at o is at a page of its chain, and has done its part so far.
CopyAt(c, o) ==
    \E s, k :
        /\ ChainFor(s, c.base)
        /\ k \in 1..Len(s) /\ c.at = s[k]
        /\ (k - 1) * Payload + c.off = o + (c.size - c.left)
        /\ c.op = "get" =>
              /\ content[c.base] = Image(s)
              /\ c.words = [i \in 1..(c.size - c.left) |-> content[c.base][o + i]]
        /\ c.op = "put" => Image(s) = Written(content[c.base], o, c.size - c.left, c.val)

\* An access lies within an allocation that nobody frees.
AccessInv(t) ==
    LET c == call[t]
    IN  c.op \in {"put", "get"} =>
            /\ c.base \in DOMAIN content /\ ~ Freeing(c.base)
            /\ \E a \in Accesses :
                  /\ a[2] = c.size /\ a[1] + a[2] <= Len(content[c.base])
                  /\ pc[t] \in {"lock", "check"} => a[1] = c.off /\ c.words = <<>>
                  /\ pc[t] = "copy" => CopyAt(c, a[1])

\* The pages that t_malloc has taken are zeroed.
TakingInv(t) ==
    LET c == call[t]
    IN  c.op = "malloc" =>
            /\ c.size \in Requests
            /\ pc[t] = "map" =>
                  \A p \in TakenPages(c) : \A k \in 1..Payload : Sheet(p)[k] = NULL

\* The check goes along the chain, which is long enough.
CheckAt(c) ==
    \E s : /\ ChainFor(s, c.base) /\ Total(c) <= Len(s)
           /\ c.at = IF Total(c) - c.left < Len(s) THEN s[Total(c) - c.left + 1] ELSE 0
CheckInv(t) == pc[t] = "check" => CheckAt(call[t])

TaskInv(t) == AccessInv(t) /\ TakingInv(t) /\ CheckInv(t)
DataInv == ShownInv /\ \A t \in Client : TaskInv(t)

-----------------------------------------------------------------------------
(* Words of chains.                                                        *)

LEMMA PlaceOf ==
    ASSUME NEW n \in Nat, NEW i \in 1..(n * Payload)
    PROVE  /\ PageNo(i) \in 1..n /\ WordNo(i) \in 1..Payload
           /\ i = (PageNo(i) - 1) * Payload + WordNo(i)
<1> USE FirstProperties
<1>1. n * Payload \in Nat /\ i \in Nat /\ i - 1 \in Nat /\ i <= n * Payload
  OBVIOUS
<1>2. PICK a, q, r : a = i - 1 /\ q = a \div Payload /\ r = a % Payload
  OBVIOUS
<1>3. q \in Nat /\ r \in 0..(Payload - 1) /\ r = a - Payload * q
  BY <1>1, <1>2, Division
<1>4. PICK pq : pq = q * Payload
  OBVIOUS
<1>5. pq \in Nat /\ Payload * q = pq
  BY <1>3, <1>4
<1>6. q < n
  <2> SUFFICES ASSUME q >= n PROVE FALSE
    BY <1>3
  <2>1. q * Payload >= n * Payload
    BY <1>3
  <2> QED
    BY <1>1, <1>2, <1>3, <1>4, <1>5, <2>1
<1>7. PageNo(i) = q + 1 /\ WordNo(i) = r + 1
  BY <1>2 DEF PageNo, WordNo
<1>8. q + 1 \in 1..n /\ r + 1 \in 1..Payload /\ (q + 1) - 1 = q
  BY <1>3, <1>6
<1>9. i = pq + (r + 1)
  BY <1>1, <1>2, <1>3, <1>5
<1> QED
  BY <1>4, <1>7, <1>8, <1>9

\* Places in page order are places in order.
LEMMA PlaceOrder ==
    ASSUME NEW k \in Nat, NEW l \in Nat, k < l
    PROVE  /\ (k - 1) * Payload \in Int /\ (l - 1) * Payload \in Int
           /\ (k - 1) * Payload + Payload <= (l - 1) * Payload
<1> USE FirstProperties
<1>1. PICK x, y : x = k - 1 /\ y = l - 1
  OBVIOUS
<1>2. x \in Int /\ y \in Int /\ x + 1 <= y
  BY <1>1
<1>3. (x + 1) * Payload <= y * Payload /\ x * Payload \in Int /\ y * Payload \in Int
  BY <1>2
<1>4. (x + 1) * Payload = x * Payload + Payload
  BY <1>2
<1> QED
  BY <1>1, <1>3, <1>4

\* What Contents, for any memory, shows of a chain.
LEMMA ContentsAre ==
    ASSUME NEW m, NEW n, NEW b \in DOMAIN n, NEW s \in Seq(First), m[0][0] = <<"frame", 0>>,
           Len(s) = n[b], Len(s) > 0, s[1] = b,
           \A i \in 1..(Len(s) - 1) : m[m[0][s[i]][2]][0][2] = s[i + 1]
    PROVE  Contents(m, n)[b] = ImageIn(m, s)
<1> DEFINE l == Len(s)
           r == [k \in 0..(l - 1) |-> s[k + 1]]
<1>1. l \in Nat /\ l > 0 /\ \A i \in 1..l : s[i] \in First
  OBVIOUS
<1> HIDE DEF l
<1>2. \A p \in First : FrameOf(m, p) = m[0][p][2]
  <2> TAKE p \in First
  <2>0. p \in Nat /\ p < Words /\ Words \in Nat \ {0}
    BY VmAssumption DEF First
  <2>1. p \div Words = 0 /\ p % Words = p
    BY ONLY <2>0, DivisionSmall
  <2> QED
    BY <2>1 DEF Walk, Pte, FrameOf
<1>3. ASSUME NEW k \in 0..(l - 1) PROVE ChainPage(m, b, k) = s[k + 1]
  <2>1. ASSUME NEW j \in 0..(k - 1) PROVE r[j + 1] = m[FrameOf(m, r[j])][0][2]
    <3>1. j \in 0..(l - 1) /\ j + 1 \in 0..(l - 1) /\ j + 1 \in 1..(l - 1) /\ j + 1 \in 1..l
      BY <1>1, <1>3, <2>1
    <3>2. r[j] = s[j + 1] /\ r[j + 1] = s[(j + 1) + 1]
      BY <3>1
    <3>3. m[m[0][s[j + 1]][2]][0][2] = s[(j + 1) + 1]
      BY <3>1 DEF l
    <3>4. FrameOf(m, s[j + 1]) = m[0][s[j + 1]][2]
      BY <1>1, <1>2, <3>1
    <3> QED
      BY ONLY <3>2, <3>3, <3>4
  <2>2. k \in Nat /\ r[0] = b /\ r[k] = s[k + 1]
    BY <1>1, <1>3
  <2> HIDE DEF r
  <2>3. ChainPage(m, b, k) = r[k]
    BY <2>1, <2>2, ChainPageIs
  <2> QED
    BY <2>2, <2>3
<1>4. ASSUME NEW i \in 1..(n[b] * Payload)
      PROVE  m[FrameOf(m, ChainPage(m, b, (i - 1) \div Payload))][((i - 1) % Payload) + 1]
                = m[m[0][s[PageNo(i)]][2]][WordNo(i)]
  <2>1. n[b] \in Nat
    BY <1>1 DEF l
  <2>2. PageNo(i) \in 1..l
    BY <2>1, PlaceOf DEF l
  <2>3. (i - 1) \div Payload \in 0..(l - 1)
    <3>1. PICK q : q = (i - 1) \div Payload
      OBVIOUS
    <3>2. i - 1 \in Nat
      BY <2>1, FirstProperties
    <3>3. q \in Nat /\ q + 1 \in 1..l
      BY <2>2, <3>1, <3>2, FirstProperties, Division DEF PageNo
    <3> QED
      BY <1>1, <3>1, <3>3
  <2>4. ChainPage(m, b, (i - 1) \div Payload) = s[PageNo(i)]
    BY <1>3, <2>3 DEF PageNo
  <2>5. FrameOf(m, s[PageNo(i)]) = m[0][s[PageNo(i)]][2]
    BY <1>1, <1>2, <2>2
  <2> QED
    BY <2>4, <2>5 DEF WordNo
<1>5. Contents(m, n)[b] =
         [i \in 1..(n[b] * Payload) |->
             m[FrameOf(m, ChainPage(m, b, (i - 1) \div Payload))][((i - 1) % Payload) + 1]]
  BY DEF Contents
<1> QED
  BY <1>4, <1>5 DEF ImageIn


-----------------------------------------------------------------------------
(* Chains that stay, and what they hold.                                   *)

LEMMA ChainOne ==
    ASSUME Inv, FirstTable, scheme = "ready", NEW s, NEW r, IsChain(s), IsChain(r),
           Len(s) = Len(r), Len(s) > 0, s[1] = r[1]
    PROVE  s = r
<1>1. s \in Seq(Page) /\ r \in Seq(Page)
  BY DEF IsChain
<1>2. PICK n : n = Len(s)
  OBVIOUS
<1>3. n \in Nat /\ n > 0 /\ n = Len(r)
  BY <1>1, <1>2
<1>4. \A i \in 0..(n - 1) : ChainPage(mem, s[1], i) = s[i + 1]
  BY <1>2, ChainIs
<1>5. \A i \in 0..(n - 1) : ChainPage(mem, s[1], i) = r[i + 1]
  BY <1>2, ChainIs
<1>6. \A i \in 1..n : s[i] = r[i]
  <2> TAKE i \in 1..n
  <2>1. i - 1 \in 0..(n - 1) /\ (i - 1) + 1 = i
    BY <1>3
  <2> QED
    BY ONLY <1>4, <1>5, <2>1
<1> QED
  BY <1>1, <1>2, <1>3, <1>6

LEMMA ChainForOne ==
    ASSUME Inv, FirstTable, scheme = "ready", NEW b, NEW s, NEW r,
           ChainFor(s, b), ChainFor(r, b)
    PROVE  s = r
  BY ChainOne DEF ChainFor

\* The chains of what is held are apart, and apart from what is not.
LEMMA HeldApart ==
    ASSUME Inv, FirstTable, scheme = "ready", NEW n, NEW own, Held(n, own),
           NEW b \in DOMAIN n, NEW s, IsChain(s), Len(s) = n[b], s[1] = b
    PROVE  /\ ToSet(s) \cap own = {}
           /\ \A d \in DOMAIN n \ {b} : \A r :
                 IsChain(r) /\ Len(r) = n[d] /\ r[1] = d => ToSet(s) \cap ToSet(r) = {}
<1>1. PICK ch : Chains(ch, n, own)
  BY DEF Held
<1>2. ASSUME NEW d \in DOMAIN n, NEW r, IsChain(r), Len(r) = n[d], r[1] = d
      PROVE  r = ch[d]
  <2>1. IsChain(ch[d]) /\ Len(ch[d]) = n[d] /\ n[d] > 0 /\ ch[d][1] = d
    BY <1>1 DEF Chains
  <2> QED
    BY <1>2, <2>1, ChainOne
<1>3. s = ch[b]
  BY <1>2
<1>4. ToSet(s) \cap own = {}
  BY <1>1, <1>3 DEF Chains
<1>5. ASSUME NEW d \in DOMAIN n \ {b}, NEW r, IsChain(r), Len(r) = n[d], r[1] = d
      PROVE  ToSet(s) \cap ToSet(r) = {}
  <2>1. r = ch[d]
    BY <1>2, <1>5
  <2> QED
    BY <1>1, <1>3, <1>5, <2>1 DEF Chains
<1> QED
  BY <1>4, <1>5

\* A chain and what it holds stay where its pages' links and words do.
LEMMA ChainKept ==
    ASSUME NEW s, IsChain(s), \A q \in ToSet(s) : q \in Mapped' /\ Link(q)' = Link(q),
           \A q \in ToSet(s) : \A k \in 1..Payload : Sheet(q)'[k] = Sheet(q)[k]
    PROVE  IsChain(s)' /\ Image(s)' = Image(s)
<1>1. IsChain(s)'
  BY ChainStays
<1>2. s \in Seq(Page) /\ Len(s) \in Nat
  BY DEF IsChain
<1>3. ASSUME NEW i \in 1..(Len(s) * Payload)
      PROVE  Sheet(s[PageNo(i)])'[WordNo(i)] = Sheet(s[PageNo(i)])[WordNo(i)]
  <2>1. PageNo(i) \in 1..Len(s) /\ WordNo(i) \in 1..Payload
    BY <1>2, PlaceOf
  <2>2. PICK q : q = s[PageNo(i)]
    OBVIOUS
  <2>3. q \in ToSet(s)
    BY <2>1, <2>2, ChainAt
  <2>4. Sheet(q)'[WordNo(i)] = Sheet(q)[WordNo(i)]
    BY <2>1, <2>3
  <2> QED
    BY <2>2, <2>4
<1>4. Image(s)' = [i \in 1..(Len(s) * Payload) |-> Sheet(s[PageNo(i)])'[WordNo(i)]]
  BY DEF Image, ImageIn, Sheet
<1>5. Image(s) = [i \in 1..(Len(s) * Payload) |-> Sheet(s[PageNo(i)])[WordNo(i)]]
  BY DEF Image, ImageIn, Sheet
<1> QED
  BY <1>1, <1>3, <1>4, <1>5

LEMMA ChainForKept ==
    ASSUME NEW b, NEW s, ChainFor(s, b), content' = content,
           \A q \in ToSet(s) : q \in Mapped' /\ Link(q)' = Link(q),
           \A q \in ToSet(s) : \A k \in 1..Payload : Sheet(q)'[k] = Sheet(q)[k]
    PROVE  ChainFor(s, b)' /\ Image(s)' = Image(s)
<1>1. IsChain(s)' /\ Image(s)' = Image(s)
  BY ChainKept DEF ChainFor
<1>2. Allocations' = Allocations
  BY DEF Allocations
<1> QED
  BY <1>1, <1>2 DEF ChainFor

LEMMA ShownKept ==
    ASSUME NEW b, NEW s, ChainFor(s, b), content[b] = Image(s), content' = content,
           \A q \in ToSet(s) : q \in Mapped' /\ Link(q)' = Link(q),
           \A q \in ToSet(s) : \A k \in 1..Payload : Sheet(q)'[k] = Sheet(q)[k]
    PROVE  Shown(b)'
<1>1. ChainFor(s, b)' /\ Image(s)' = Image(s)
  BY ChainForKept
<1> QED
  BY <1>1 DEF Shown

\* Nothing that a chain is made of changes.
LEMMA ChainForSame ==
    ASSUME UNCHANGED <<vbits, mem, content>>, NEW s, NEW b, ChainFor(s, b)
    PROVE  ChainFor(s, b)' /\ Image(s)' = Image(s)
<1>1. IsChain(s)' /\ Image(s)' = Image(s)
  BY DEF ChainFor, IsChain, Mapped, Link, Image
<1>2. Allocations' = Allocations
  BY DEF Allocations
<1> QED
  BY <1>1, <1>2 DEF ChainFor

\* What a call that returns lets clients see of a chain.
LEMMA ContentsNow ==
    ASSUME ~ Careless, Inv', FirstTable', scheme' = "ready", NEW t \in Client,
           NEW value, NEW n, Return(t, value, n), NEW b \in DOMAIN n,
           NEW s, IsChain(s)', Len(s) = n[b], Len(s) > 0, s[1] = b
    PROVE  content'[b] = Image(s)'
<1>1. content' = Contents(mem', n)
  BY DEF Return
<1>2. mem'[0][0] = <<"frame", 0>> /\ Mapped' \subseteq First
  BY DEF Inv, MemoryInv, TableInv, FirstTable, First, Mapped
<1>3. s \in Seq(Page) /\ Len(s) \in Nat /\ \A i \in 1..Len(s) : s[i] \in First
  BY <1>2 DEF IsChain
<1>4. s \in Seq(First)
  BY <1>3
<1>5. ASSUME NEW i \in 1..(Len(s) - 1) PROVE mem'[mem'[0][s[i]][2]][0][2] = s[i + 1]
  <2>1. i \in 1..Len(s) /\ i < Len(s)
    BY <1>3
  <2>2. Link(s[i])' = s[i + 1]
    BY <2>1 DEF IsChain
  <2> QED
    BY <2>2 DEF Link
<1>6. PICK m : m = mem'
  OBVIOUS
<1>7. /\ m[0][0] = <<"frame", 0>>
      /\ \A i \in 1..(Len(s) - 1) : m[m[0][s[i]][2]][0][2] = s[i + 1]
      /\ b \in DOMAIN n /\ Len(s) = n[b] /\ Len(s) > 0 /\ s[1] = b
  BY <1>2, <1>5, <1>6
<1>8. Contents(m, n)[b] = ImageIn(m, s)
  BY ONLY <1>4, <1>7, ContentsAre
<1> QED
  BY <1>1, <1>6, <1>8 DEF Image

\* An allocation that the call left alone.
LEMMA SeenSame ==
    ASSUME ~ Careless, Inv', FirstTable', scheme' = "ready", NEW t \in Client,
           NEW value, NEW n, Return(t, value, n), NEW b \in DOMAIN n,
           NEW s, ChainFor(s, b), n[b] = Allocations[b], content[b] = Image(s),
           \A q \in ToSet(s) : q \in Mapped' /\ Link(q)' = Link(q),
           \A q \in ToSet(s) : \A k \in 1..Payload : Sheet(q)'[k] = Sheet(q)[k]
    PROVE  content'[b] = content[b]
<1>1. IsChain(s)' /\ Image(s)' = Image(s)
  BY ChainKept DEF ChainFor
<1>2. Len(s) = n[b] /\ Len(s) > 0 /\ s[1] = b
  BY DEF ChainFor
<1>3. content'[b] = Image(s)'
  BY <1>1, <1>2, ContentsNow
<1> QED
  BY <1>1, <1>3

\* Once a call has returned, clients see what the memory holds.
LEMMA ShownAfter ==
    ASSUME ~ Careless, Inv, Inv', FirstTable', HeldInv', NEW t \in Client, Inside(t),
           NEW value, NEW n, Return(t, value, n), Allocations' = n
    PROVE  SizeInv' /\ \A b \in DOMAIN content' : Shown(b)'
<1>1. scheme' = "ready" /\ \A u \in Client : pc'[u] \notin {"map", "free"}
  <2>1. Goto(t, "idle") /\ scheme' = scheme
    BY DEF Return
  <2> QED
    BY <2>1, OthersOut, Alone DEF Inv
<1>2. Held(Allocations, {})'
  BY <1>1 DEF HeldInv
<1>3. PICK ch : Chains(ch, n, {})'
  <2>1. PICK ch : Chains(ch, Allocations, {})'
    BY <1>2 DEF Held
  <2> QED
    BY <2>1 DEF Chains
<1>4. DOMAIN content' = DOMAIN n
  BY DEF Return, Contents
<1>5. ASSUME NEW b \in DOMAIN n
      PROVE  Shown(b)' /\ n[b] \in Nat \ {0} /\ Image(ch[b])' = content'[b]
  <2>1. PICK s : s = ch[b]
    OBVIOUS
  <2>2. /\ IsChain(s)' /\ Len(s) = n[b] /\ n[b] > 0 /\ s[1] = b
    BY <1>3, <2>1 DEF Chains
  <2>3. Len(s) \in Nat
    BY <2>2 DEF IsChain
  <2>4. content'[b] = Image(s)'
    BY <1>1, <2>2, ContentsNow
  <2>5. ChainFor(s, b)'
    BY <1>4, <2>2 DEF ChainFor
  <2> QED
    BY <2>1, <2>2, <2>3, <2>4, <2>5 DEF Shown
<1>6. SizeInv'
  <2>1. ASSUME NEW b \in DOMAIN n
        PROVE  content'[b] = [i \in 1..(n[b] * Payload) |-> content'[b][i]]
    <3>1. Len(ch[b]) = n[b]
      BY <1>3 DEF Chains
    <3>2. PICK w : w = content'[b]
      OBVIOUS
    <3>3. w = [i \in 1..(n[b] * Payload) |-> Sheet(ch[b][PageNo(i)])'[WordNo(i)]]
      BY <1>5, <3>1, <3>2 DEF Image, ImageIn, Sheet
    <3>4. w = [i \in 1..(n[b] * Payload) |-> w[i]]
      BY <3>3
    <3> QED
      BY <3>2, <3>4
  <2>2. content' = [b \in DOMAIN content' |-> content'[b]]
    BY DEF Return, Contents
  <2>3. ASSUME NEW b \in DOMAIN n PROVE b \in Page \ {0}
    <3>1. IsChain(ch[b])' /\ Len(ch[b]) > 0 /\ ch[b][1] = b
      BY <1>3 DEF Chains
    <3>2. 1 \in 1..Len(ch[b])
      BY <3>1 DEF IsChain
    <3>3. b \in Mapped'
      BY <3>1, <3>2 DEF IsChain
    <3> QED
      BY <3>3 DEF Mapped, Inv, MemoryInv, TableInv
  <2> QED
    BY <1>4, <1>5, <2>1, <2>2, <2>3 DEF SizeInv
<1> QED
  BY <1>4, <1>5, <1>6

\* An image has the words of its pages, and content as many as its pages have.
LEMMA SizeOf ==
    ASSUME SizeInv, NEW b \in DOMAIN content
    PROVE  /\ Allocations[b] \in Nat \ {0} /\ Allocations[b] * Payload \in Nat
           /\ DOMAIN content[b] = 1..(Allocations[b] * Payload)
           /\ Len(content[b]) = Allocations[b] * Payload
<1>1. PICK w, n : w = content[b] /\ n = Allocations[b] * Payload
  OBVIOUS
<1>2. Allocations[b] \in Nat \ {0}
  BY DEF SizeInv
<1>3. n \in Nat
  BY <1>1, <1>2, FirstProperties
<1>4. w = [i \in 1..n |-> w[i]]
  BY <1>1 DEF SizeInv
<1>5. DOMAIN w = 1..n /\ Len(w) = n
  BY <1>3, <1>4
<1> QED
  BY <1>1, <1>2, <1>3, <1>5

LEMMA PagesBound ==
    ASSUME NEW n \in Nat, NEW l \in Nat, l <= n * Payload
    PROVE  Pages(l) <= n
<1> USE FirstProperties
<1>1. PICK a, q, r : a = l + Payload - 1 /\ q = a \div Payload /\ r = a % Payload
  OBVIOUS
<1>2. a \in Nat /\ q \in Nat /\ r \in 0..(Payload - 1) /\ r = a - Payload * q
  <2>1. a \in Nat
    BY <1>1
  <2> QED
    BY <1>1, <2>1, Division
<1>3. PICK pq, pn : pq = q * Payload /\ pn = n * Payload
  OBVIOUS
<1>4. pq \in Nat /\ Payload * q = pq /\ pn \in Nat /\ l <= pn
  BY <1>2, <1>3
<1>5. pq < pn + Payload
  BY <1>1, <1>2, <1>4
<1>6. q < n + 1
  <2> SUFFICES ASSUME q >= n + 1 PROVE FALSE
    BY <1>2
  <2>1. q * Payload >= (n + 1) * Payload
    BY <1>2
  <2>2. (n + 1) * Payload = n * Payload + Payload
    OBVIOUS
  <2> QED
    BY <1>3, <1>4, <1>5, <2>1, <2>2
<1>7. Pages(l) = q
  BY <1>1 DEF Pages
<1> QED
  BY <1>2, <1>6, <1>7

-----------------------------------------------------------------------------
(* What the steps do to the words.                                         *)

LEMMA SheetSame ==
    ASSUME NEW q, mem'[0][q] = mem[0][q], mem'[mem[0][q][2]] = mem[mem[0][q][2]]
    PROVE  Sheet(q)' = Sheet(q)
  BY DEF Sheet

LEMMA MapPageWords ==
    ASSUME Inv, FirstTable, FirstTable', NEW t \in Client, MapPage(t),
           NEW p, p = LowestFree(vbits)
    PROVE  /\ \A q \in Mapped : Sheet(q)' = Sheet(q)
           /\ \A k \in 1..Payload : Sheet(p)'[k] = NULL
<1> USE DEF Inv
<1>0. PICK f : f = LowestFree(fbits)
  OBVIOUS
<1>1. /\ p \in First \ vbits /\ f \in Frame \ fbits
      /\ mem'[0] = [mem[0] EXCEPT ![p] = <<"frame", f>>]
      /\ mem'[f] = Zeroed
      /\ \A g \in Frame \ {0, f} : mem'[g] = mem[g]
  BY <1>0, MapPageEffect
<1>2. scheme = "ready"
  BY Alone DEF MapPage, At, Inside
<1>3. mem[0] \in [0..(Words - 1) -> Word] /\ First = 0..(Words - 1)
  BY FirstProperties DEF MemoryInv, TableInv, First
<1>4. ASSUME NEW q \in Mapped PROVE Sheet(q)' = Sheet(q)
  <2>1. /\ q \in First /\ mem[0][q][2] \in Frame /\ mem[0][q][2] \in fbits
        /\ mem[0][q][2] # 0
    BY <1>2, MappedFrame
  <2>2. q # p /\ mem[0][q][2] # f
    BY <1>1, <2>1 DEF Mapped
  <2>3. mem'[0][q] = mem[0][q]
    BY <1>1, <1>3, <2>1, <2>2
  <2>4. mem'[mem[0][q][2]] = mem[mem[0][q][2]]
    BY <1>1, <2>1, <2>2
  <2> QED
    BY <2>3, <2>4, SheetSame
<1>5. ASSUME NEW k \in 1..Payload PROVE Sheet(p)'[k] = NULL
  <2>1. mem'[0][p] = <<"frame", f>>
    BY <1>1, <1>3
  <2>2. k \in 0..(Words - 1)
    BY FirstProperties
  <2>3. Zeroed[k] = NULL
    BY <2>2 DEF Zeroed
  <2>4. mem'[0][p][2] = f
    BY <2>1
  <2>5. Sheet(p)' = mem'[mem'[0][p][2]]
    BY DEF Sheet
  <2> QED
    BY <1>1, <2>3, <2>4, <2>5
<1> QED
  BY <1>4, <1>5

LEMMA FreePageWords ==
    ASSUME Inv, FirstTable, NEW t \in Client, FreePage(t), NEW p, p = call[t].at
    PROVE  \A q \in Mapped \ {p} : Sheet(q)' = Sheet(q)
<1> USE DEF Inv
<1>0. PICK f : f = mem[0][p][2]
  OBVIOUS
<1>1. /\ p \in Mapped /\ scheme = "ready"
      /\ mem'[0] = [mem[0] EXCEPT ![p] = NULL]
      /\ \A g \in Frame \ {0, f} : mem'[g] = mem[g]
  BY <1>0, FreePageEffect
<1>2. mem[0] \in [0..(Words - 1) -> Word] /\ First = 0..(Words - 1)
  BY FirstProperties DEF MemoryInv, TableInv, First
<1>3. ASSUME NEW q \in Mapped \ {p} PROVE Sheet(q)' = Sheet(q)
  <2>1. /\ q \in First /\ mem[0][q][2] \in Frame /\ mem[0][q][2] # 0
        /\ \A r \in Mapped : mem[0][r][2] = mem[0][q][2] => q = r
    BY <1>1, MappedFrame
  <2>2. mem[0][q][2] # f
    BY <1>0, <1>1, <2>1
  <2>3. mem'[0][q] = mem[0][q]
    BY <1>1, <1>2, <2>1
  <2>4. mem'[mem[0][q][2]] = mem[mem[0][q][2]]
    BY <1>1, <2>1, <2>2
  <2> QED
    BY <2>3, <2>4, SheetSame
<1> QED
  BY <1>3

LEMMA MallocWords ==
    ASSUME Inv, FirstTable, NEW t \in Client, MallocReturns(t)
    PROVE  \A q \in Mapped : \A k \in 1..Payload : Sheet(q)'[k] = Sheet(q)[k]
<1> USE DEF Inv
<1>0. PICK taken : taken = call[t].words
  OBVIOUS
<1>1. mem' = Linked(mem, taken) /\ mem'[0] = mem[0] /\ scheme = "ready"
  BY <1>0, MallocReturnsEffect DEF MallocReturns
<1>2. mem \in [Frame -> [0..(Words - 1) -> Word]]
  BY DEF MemoryInv, TableInv
<1>3. ASSUME NEW f \in Frame, NEW k \in 1..Payload PROVE mem'[f][k] = mem[f][k]
  <2>1. \A w : [mem[f] EXCEPT ![0] = w][k] = mem[f][k]
    BY <1>2, <1>3, FirstProperties
  <2>2. mem'[f] = mem[f] \/ \E w : mem'[f] = [mem[f] EXCEPT ![0] = w]
    BY <1>1 DEF Linked
  <2> QED
    BY <2>1, <2>2
<1> TAKE q \in Mapped
<1>4. mem[0][q][2] \in Frame
  BY <1>1, MappedFrame
<1> QED
  BY <1>1, <1>3, <1>4 DEF Sheet

\* What put_value writes into the page it is at.
LEMMA PutPageWords ==
    ASSUME Inv, FirstTable, NEW t \in Client, PutPage(t),
           NEW c, c = call[t], NEW n, n = Min({c.left, Room(c)})
    PROVE  /\ \A q \in Mapped \ {c.at} : Sheet(q)' = Sheet(q)
           /\ \A k \in 1..Payload :
                 Sheet(c.at)'[k] = IF k \in (c.off + 1)..(c.off + n)
                                   THEN Datum(c.val, c.size - c.left + k - c.off)
                                   ELSE Sheet(c.at)[k]
           /\ n \in Nat /\ n <= c.left /\ n <= Room(c) /\ n \in {c.left, Room(c)}
<1> USE DEF Inv
<1>0. PICK p, f : p = c.at /\ f = mem[0][p][2]
  OBVIOUS
<1>1. pc[t] = "copy" /\ scheme = "ready" /\ p \in Mapped
  BY <1>0, PutPageEffect DEF PutPage, At
<1>2. FrameAt(p) = f /\ c \in Call
  BY <1>0, <1>1, CopyAhead
<1>3. /\ \A q \in Mapped : mem[0][q][2] \in Frame \ {0}
      /\ \A q \in Mapped : mem[0][q][2] = f => q = p
  BY <1>0, <1>1, MappedFrame
<1>4. mem \in [Frame -> [0..(Words - 1) -> Word]]
  BY DEF MemoryInv, TableInv
<1>5. mem' = [mem EXCEPT ![f] = [k \in DOMAIN @ |->
                 IF k \in (c.off + 1)..(c.off + n)
                 THEN Datum(c.val, c.size - c.left + k - c.off) ELSE @[k]]]
  BY <1>0, <1>2 DEF PutPage
<1>6. /\ mem'[0] = mem[0] /\ \A g \in Frame \ {f} : mem'[g] = mem[g]
      /\ \A k \in 0..(Words - 1) :
            mem'[f][k] = IF k \in (c.off + 1)..(c.off + n)
                         THEN Datum(c.val, c.size - c.left + k - c.off) ELSE mem[f][k]
  BY <1>0, <1>1, <1>3, <1>4, <1>5, FirstProperties
<1>7. \A q \in Mapped \ {p} : Sheet(q)' = Sheet(q)
  <2> TAKE q \in Mapped \ {p}
  <2>1. mem[0][q][2] \in Frame \ {f}
    BY <1>3
  <2> QED
    BY <1>6, <2>1, SheetSame
<1>8. Sheet(p)' = mem'[f] /\ Sheet(p) = mem[f]
  BY <1>0, <1>6 DEF Sheet
<1>9. \A k \in 1..Payload : k \in 0..(Words - 1)
  BY FirstProperties
<1>10. n \in Nat /\ n <= c.left /\ n <= Room(c) /\ n \in {c.left, Room(c)}
  <2>1. c.left \in Nat /\ Room(c) \in Nat
    BY <1>2, FirstProperties DEF Call, Room
  <2> QED
    BY <2>1, MinProperties
<1> QED
  BY <1>0, <1>6, <1>7, <1>8, <1>9, <1>10


-----------------------------------------------------------------------------
(* Steps that leave what clients see alone.                                *)

LEMMA CopySame ==
    ASSUME UNCHANGED <<vbits, mem, content>>, NEW c, NEW o, CopyAt(c, o)
    PROVE  CopyAt(c, o)'
<1>1. PICK s, k :
        /\ ChainFor(s, c.base)
        /\ k \in 1..Len(s) /\ c.at = s[k]
        /\ (k - 1) * Payload + c.off = o + (c.size - c.left)
        /\ c.op = "get" =>
              /\ content[c.base] = Image(s)
              /\ c.words = [i \in 1..(c.size - c.left) |-> content[c.base][o + i]]
        /\ c.op = "put" => Image(s) = Written(content[c.base], o, c.size - c.left, c.val)
  BY DEF CopyAt
<1>2. ChainFor(s, c.base)' /\ Image(s)' = Image(s)
  BY <1>1, ChainForSame
<1>3. Written(content[c.base], o, c.size - c.left, c.val)'
         = Written(content[c.base], o, c.size - c.left, c.val)
  BY DEF Written
<1> QED
  BY <1>1, <1>2, <1>3 DEF CopyAt

LEMMA CheckSame ==
    ASSUME UNCHANGED <<vbits, mem, content>>, NEW c, CheckAt(c)
    PROVE  CheckAt(c)'
<1>1. PICK s : /\ ChainFor(s, c.base) /\ Total(c) <= Len(s)
               /\ c.at = IF Total(c) - c.left < Len(s) THEN s[Total(c) - c.left + 1] ELSE 0
  BY DEF CheckAt
<1>2. ChainFor(s, c.base)'
  BY <1>1, ChainForSame
<1> QED
  BY <1>1, <1>2 DEF CheckAt

LEMMA TaskSame ==
    ASSUME UNCHANGED <<vbits, mem, content>>, NEW u \in Client, TaskInv(u),
           pc'[u] = pc[u], call'[u] = call[u],
           call[u].op \in {"put", "get"} =>
              \A w \in Client : call'[w].op = "free" => call'[w].base # call[u].base
    PROVE  TaskInv(u)'
<1>0. PICK c : c = call[u]
  OBVIOUS
<1>1. AccessInv(u)'
  <2> SUFFICES ASSUME c.op \in {"put", "get"}
               PROVE  (/\ c.base \in DOMAIN content /\ ~ Freeing(c.base)
                       /\ \E a \in Accesses :
                             /\ a[2] = c.size /\ a[1] + a[2] <= Len(content[c.base])
                             /\ pc[u] \in {"lock", "check"} => a[1] = c.off /\ c.words = <<>>
                             /\ pc[u] = "copy" => CopyAt(c, a[1]))'
    BY <1>0 DEF AccessInv
  <2>1. c.base \in DOMAIN content
    BY <1>0 DEF TaskInv, AccessInv
  <2>2. PICK a \in Accesses :
             /\ a[2] = c.size /\ a[1] + a[2] <= Len(content[c.base])
             /\ pc[u] \in {"lock", "check"} => a[1] = c.off /\ c.words = <<>>
             /\ pc[u] = "copy" => CopyAt(c, a[1])
    BY <1>0 DEF TaskInv, AccessInv
  <2>3. ~ Freeing(c.base)'
    BY <1>0 DEF Freeing
  <2>4. pc'[u] = "copy" => CopyAt(c, a[1])'
    BY <2>2, CopySame
  <2> QED
    BY <2>1, <2>2, <2>3, <2>4
<1>2. TakingInv(u)'
  BY DEF TaskInv, TakingInv, TakenPages, Sheet
<1>3. CheckInv(u)'
  <2> SUFFICES ASSUME pc[u] = "check" PROVE CheckAt(c)'
    <3>1. CheckAt(c)' => CheckAt(call[u])'
      BY <1>0 DEF CheckAt, Total
    <3> QED
      BY <3>1 DEF CheckInv
  <2>1. CheckAt(c)
    BY <1>0 DEF TaskInv, CheckInv
  <2> QED
    BY <2>1, CheckSame
<1> QED
  BY <1>1, <1>2, <1>3 DEF TaskInv

LEMMA ShownSame ==
    ASSUME ShownInv, UNCHANGED <<vbits, mem, content>>, \A b : Open(b) => Open(b)'
    PROVE  ShownInv'
<1>1. SizeInv'
  BY DEF ShownInv, SizeInv, Allocations
<1>2. ASSUME NEW b, Shown(b) PROVE Shown(b)'
  <2>1. PICK s : ChainFor(s, b) /\ content[b] = Image(s)
    BY <1>2 DEF Shown
  <2>2. ChainFor(s, b)' /\ Image(s)' = Image(s)
    BY <2>1, ChainForSame
  <2> QED
    BY <2>1, <2>2 DEF Shown
<1> QED
  BY <1>1, <1>2 DEF ShownInv

LEMMA DataQuiet ==
    ASSUME DataInv, NEW t \in Client, UNCHANGED <<vbits, mem, content>>,
           \A u \in Client \ {t} : pc'[u] = pc[u] /\ call'[u] = call[u],
           pc[t] # "free", pc[t] = "copy" => call[t].op # "put",
           TaskInv(t)',
           \A u \in Client \ {t} : call[u].op \in {"put", "get"} /\ call'[t].op = "free" =>
              call'[t].base # call[u].base
    PROVE  DataInv'
<1>1. ASSUME NEW b, Open(b) PROVE Open(b)'
  <2>1. PICK u \in Client : /\ call[u].base = b
                            /\ pc[u] = "free" \/ (pc[u] = "copy" /\ call[u].op = "put")
    BY <1>1 DEF Open
  <2>2. u # t
    BY <2>1
  <2>3. call'[u] = call[u] /\ pc'[u] = pc[u]
    BY <2>2
  <2> QED
    BY <2>1, <2>3 DEF Open
<1>2. ShownInv'
  BY <1>1, ShownSame DEF DataInv
<1>3. ASSUME NEW u \in Client, u # t PROVE TaskInv(u)'
  <2>1. pc'[u] = pc[u] /\ call'[u] = call[u] /\ TaskInv(u)
    BY <1>3 DEF DataInv
  <2>2. ASSUME call[u].op \in {"put", "get"}, NEW w \in Client, call'[w].op = "free"
        PROVE  call'[w].base # call[u].base
    <3>1. CASE w = t
      BY <1>3, <2>2, <3>1
    <3>2. CASE w # t
      <4>1. call'[w] = call[w]
        BY <3>2
      <4>2. ~ Freeing(call[u].base)
        BY <2>1, <2>2 DEF TaskInv, AccessInv
      <4> QED
        BY <2>2, <4>1, <4>2 DEF Freeing
    <3> QED
      BY <3>1, <3>2
  <2> QED
    BY <2>1, <2>2, TaskSame
<1> QED
  BY <1>2, <1>3 DEF DataInv

\* The holder of the lock is in front of its chain.
LEMMA ChainThere ==
    ASSUME Inv, HeldInv, NEW n, n = Allocations, Held(n, {}), NEW b \in DOMAIN content
    PROVE  \E s : ChainFor(s, b)
<1>1. b \in DOMAIN n
  BY DEF Allocations
<1>2. PICK ch : Chains(ch, n, {})
  BY DEF Held
<1>3. IsChain(ch[b]) /\ Len(ch[b]) = n[b] /\ n[b] > 0 /\ ch[b][1] = b
  BY <1>1, <1>2 DEF Chains
<1> QED
  BY <1>3 DEF ChainFor

\* A thread elsewhere, or that has nothing to show for it yet.
LEMMA TaskFree ==
    ASSUME NEW t \in Client, call[t].op = "free", pc[t] # "check"
    PROVE  TaskInv(t)
  BY DEF TaskInv, AccessInv, TakingInv, CheckInv

LEMMA LockData ==
    ASSUME Inv, AllocInv, DataInv, NEW t \in Client, Lock(t)
    PROVE  DataInv'
<1>0. PICK c : c = call[t]
  OBVIOUS
<1>1. /\ pc[t] = "lock" /\ lock = NoClient /\ UNCHANGED <<vbits, mem, content, call>>
      /\ scheme = "ready" /\ c \in Call /\ CallAt("lock", c)
      /\ \A u \in Client \ {t} : pc'[u] = pc[u]
      /\ pc'[t] = IF c.op = "malloc" THEN "allocate" ELSE "check"
  BY <1>0 DEF Lock, At, Goto, Inv, LockInv, CallInv, memory
<1>2. Held(Allocations, {})
  <2>1. \A u \in Client : pc[u] \notin {"map", "free"}
    BY <1>1, VmAssumption DEF Inv, LockInv, LockExcludes, Inside
  <2> QED
    BY <1>1, <2>1 DEF AllocInv, HeldInv
<1>3. AccessInv(t)'
  <2> SUFFICES ASSUME c.op \in {"put", "get"} PROVE AccessInv(t)'
    BY <1>0, <1>1 DEF AccessInv
  <2>1. /\ c.base \in DOMAIN content /\ ~ Freeing(c.base)
        /\ \E a \in Accesses :
              /\ a[2] = c.size /\ a[1] + a[2] <= Len(content[c.base])
              /\ a[1] = c.off /\ c.words = <<>>
    BY <1>0, <1>1 DEF DataInv, TaskInv, AccessInv
  <2>2. pc'[t] # "copy" /\ call'[t] = c /\ content' = content /\ ~ Freeing(c.base)'
    BY <1>0, <1>1, <2>1 DEF Freeing
  <2> QED
    BY <2>1, <2>2 DEF AccessInv
<1>4. TakingInv(t)'
  BY <1>0, <1>1 DEF DataInv, TaskInv, TakingInv
<1>5. CheckInv(t)'
  <2> SUFFICES ASSUME c.op # "malloc" PROVE CheckAt(c)'
    <3>1. CheckAt(c)' => CheckAt(call[t])'
      BY <1>0, <1>1 DEF CheckAt, Total
    <3> QED
      BY <1>1, <3>1 DEF CheckInv
  <2>1. c.op \in {"free", "put", "get"} /\ c.at = c.base /\ c.left = Total(c) /\ c.left \in Nat
    BY <1>1 DEF CallAt, Call
  <2>2. c.base \in DOMAIN content
    BY <1>0, <2>1 DEF DataInv, TaskInv, AccessInv, AllocInv, UseInv, Allocations
  <2>3. PICK s : ChainFor(s, c.base)
    BY <1>2, <2>2, ChainThere DEF AllocInv
  <2>4. Total(c) <= Len(s)
    <3>1. CASE c.op = "free"
      BY <1>0, <2>1, <2>3, <3>1 DEF AllocInv, UseInv, Total, ChainFor
    <3>2. CASE c.op \in {"put", "get"}
      <4>1. c.off + c.size <= Len(content[c.base])
        BY <1>0, <1>1, <3>2 DEF DataInv, TaskInv, AccessInv
      <4>2. c.off + c.size \in Nat
        BY <1>1, VmAssumption DEF Call
      <4>3. PICK n : n = Allocations[c.base]
        OBVIOUS
      <4>4. n \in Nat /\ c.off + c.size <= n * Payload
        BY <2>2, <4>1, <4>3, SizeOf DEF DataInv, ShownInv
      <4>5. Pages(c.off + c.size) <= n
        BY <4>2, <4>4, PagesBound
      <4> QED
        BY <2>3, <3>2, <4>3, <4>5 DEF Total, ChainFor
    <3> QED
      BY <2>1, <3>1, <3>2
  <2>5. Total(c) - c.left = 0 /\ Len(s) > 0 /\ s[1] = c.base
    BY <2>1, <2>3 DEF ChainFor
  <2>6. c.at = IF Total(c) - c.left < Len(s) THEN s[Total(c) - c.left + 1] ELSE 0
    BY <2>1, <2>5
  <2>7. CheckAt(c)
    BY <2>3, <2>4, <2>6 DEF CheckAt
  <2> QED
    BY <1>1, <2>7, CheckSame
<1>6. TaskInv(t)'
  BY <1>3, <1>4, <1>5 DEF TaskInv
<1>7. ASSUME NEW u \in Client \ {t}, call[u].op \in {"put", "get"}, call'[t].op = "free"
      PROVE  call'[t].base # call[u].base
  <2>1. ~ Freeing(call[u].base) /\ call' = call
    BY <1>1, <1>7 DEF DataInv, TaskInv, AccessInv
  <2> QED
    BY <1>7, <2>1 DEF Freeing
<1> QED
  BY <1>1, <1>6, <1>7, DataQuiet

-----------------------------------------------------------------------------
(* The calls, and the checks.                                              *)

LEMMA TaskQuiet ==
    ASSUME DataInv, NEW t \in Client, UNCHANGED <<vbits, mem, content>>,
           \A u \in Client \ {t} : pc'[u] = pc[u] /\ call'[u] = call[u],
           pc[t] \in {"idle", "spin", "initialised", "unlocked"}, call'[t].op # "free",
           TaskInv(t)'
    PROVE  DataInv'
  BY DataQuiet

LEMMA MallocCallData ==
    ASSUME Inv, DataInv, NEW t \in Client, NEW size \in Requests, MallocCall(t, size)
    PROVE  DataInv'
<1>0. PICK c : c = [NoCall EXCEPT !.op = "malloc", !.size = size, !.left = Pages(size)]
  OBVIOUS
<1>1. c.op = "malloc" /\ c.size = size
  BY <1>0 DEF NoCall
<1>2. pc[t] = "idle" /\ Begin(t, "spin", c) /\ UNCHANGED <<vbits, mem, content>>
  BY <1>0 DEF MallocCall, Idle, At, memory
<1>3. /\ pc'[t] = "spin" /\ call'[t] = c
      /\ \A u \in Client \ {t} : pc'[u] = pc[u] /\ call'[u] = call[u]
  BY <1>2 DEF Begin, Goto, Inv, LockInv, CallInv
<1>4. TaskInv(t)'
  BY <1>1, <1>3 DEF TaskInv, AccessInv, TakingInv, CheckInv
<1> QED
  BY <1>1, <1>2, <1>3, <1>4, TaskQuiet

LEMMA FreeCallData ==
    ASSUME ~ Careless, Inv, DataInv, NEW t \in Client, NEW b \in Page, NEW size \in Requests,
           FreeCall(t, b, size)
    PROVE  DataInv'
<1>0. PICK c : c = [NoCall EXCEPT !.op = "free", !.base = b, !.size = size,
                                  !.at = b, !.left = Pages(size)]
  OBVIOUS
<1>1. c.op = "free" /\ c.base = b
  BY <1>0 DEF NoCall
<1>2. /\ pc[t] = "idle" /\ Begin(t, "lock", c) /\ MayFree(b, size)
      /\ UNCHANGED <<vbits, mem, content>>
  BY <1>0 DEF FreeCall, Idle, At, memory
<1>3. /\ pc'[t] = "lock" /\ call'[t] = c
      /\ \A u \in Client \ {t} : pc'[u] = pc[u] /\ call'[u] = call[u]
  BY <1>2 DEF Begin, Goto, Inv, LockInv, CallInv
<1>4. TaskInv(t)'
  BY <1>1, <1>3 DEF TaskInv, AccessInv, TakingInv, CheckInv
<1>5. ASSUME NEW u \in Client \ {t}, call[u].op \in {"put", "get"} PROVE call[u].base # b
  <2>1. pc[u] # "idle"
    BY <1>5 DEF Inv, CallInv, CallAt, NoCall
  <2> QED
    BY <1>2, <1>5, <2>1 DEF MayFree, InUse
<1> QED
  BY <1>1, <1>2, <1>3, <1>4, <1>5, DataQuiet

LEMMA AccessCallData ==
    ASSUME ~ Careless, Inv, DataInv, NEW t \in Client, NEW op \in {"put", "get"},
           NEW b \in Page, NEW a \in Accesses, NEW v, AccessCall(t, op, b, a, v)
    PROVE  DataInv'
<1>0. PICK c : c = [NoCall EXCEPT !.op = op, !.base = b, !.size = a[2], !.off = a[1],
                                  !.val = v, !.at = b, !.left = Pages(a[1] + a[2])]
  OBVIOUS
<1>1. c.op = op /\ c.base = b /\ c.size = a[2] /\ c.off = a[1] /\ c.words = <<>>
  BY <1>0 DEF NoCall
<1>2. /\ pc[t] = "idle" /\ Begin(t, "lock", c) /\ MayAccess(b, a)
      /\ UNCHANGED <<vbits, mem, content>>
  BY <1>0 DEF AccessCall, Idle, At, memory
<1>3. /\ pc'[t] = "lock" /\ call'[t] = c
      /\ \A u \in Client \ {t} : pc'[u] = pc[u] /\ call'[u] = call[u]
  BY <1>2 DEF Begin, Goto, Inv, LockInv, CallInv
<1>4. b \in DOMAIN content /\ ~ Freeing(b) /\ a[1] + a[2] <= Len(content[b])
  BY <1>2 DEF MayAccess
<1>5. ~ Freeing(b)'
  <2>1. \A u \in Client :
           call'[u].op = "free" => call[u].op = "free" /\ call'[u].base = call[u].base
    BY <1>1, <1>3
  <2> QED
    BY <1>4, <2>1 DEF Freeing
<1>6. AccessInv(t)'
  BY <1>1, <1>2, <1>3, <1>4, <1>5 DEF AccessInv
<1>7. TaskInv(t)'
  BY <1>1, <1>3, <1>6 DEF TaskInv, TakingInv, CheckInv
<1> QED
  BY <1>1, <1>2, <1>3, <1>7, TaskQuiet

\* Who holds an allocation has pages to free.
LEMMA FreeNothingData ==
    ASSUME ~ Careless, Inv, DataInv, NEW t \in Client, NEW b \in Page, NEW size \in Requests
    PROVE  ~ FreeNothing(t, b, size)
<1> SUFFICES ASSUME FreeNothing(t, b, size) PROVE FALSE
  OBVIOUS
<1>1. b \in DOMAIN content /\ Pages(size) = Allocations[b] /\ (size = 0 \/ scheme = "none")
  BY DEF FreeNothing, MayFree
<1>2. Allocations[b] > 0
  BY <1>1, SizeOf DEF DataInv, ShownInv
<1>3. scheme = "ready"
  BY <1>1 DEF Inv, LockInv
<1>4. Pages(0) = 0
  <2>1. PICK a : a = Payload - 1
    OBVIOUS
  <2>2. a \in Nat /\ a < Payload /\ Payload \in Nat \ {0} /\ 0 + Payload - 1 = a
    BY <2>1, FirstProperties
  <2>3. a \div Payload = 0
    BY ONLY <2>2, DivisionSmall
  <2> QED
    BY <2>2, <2>3 DEF Pages
<1> QED
  BY <1>1, <1>2, <1>3, <1>4

LEMMA MoveData ==
    ASSUME Inv, DataInv, NEW t \in Client, Spin(t) \/ Unspin(t) \/ StrayGet(t)
    PROVE  DataInv'
<1>1. UNCHANGED <<vbits, mem, content, call>>
  BY DEF Spin, Unspin, StrayGet, memory
<1>2. pc[t] \in {"spin", "initialised", "unlocked"} /\ call[t].op # "free"
  BY DEF Spin, Unspin, StrayGet, At, Inv, CallInv, CallAt
<1>3. /\ \/ pc'[t] = pc[t]
         \/ pc[t] # "unlocked" /\ pc'[t] \in {"initialising", "initialised", "lock"}
      /\ \A u \in Client \ {t} : pc'[u] = pc[u]
  <2>1. pc \in [Client -> Point]
    BY DEF Inv, LockInv
  <2> QED
    BY <2>1, <1>2 DEF Spin, Unspin, StrayGet, At, Goto
<1>4. TaskInv(t)'
  <2>1. CASE pc'[t] = pc[t]
    <3>1. TaskInv(t) /\ \A w \in Client : call'[w] = call[w]
      BY <1>1 DEF DataInv
    <3>2. call[t].op \in {"put", "get"} =>
             \A w \in Client : call'[w].op = "free" => call'[w].base # call[t].base
      BY <3>1 DEF TaskInv, AccessInv, Freeing
    <3> QED
      BY <1>1, <2>1, <3>1, <3>2, TaskSame
  <2>2. CASE pc'[t] # pc[t]
    <3>1. call[t].op = "malloc" /\ call'[t] = call[t] /\ pc'[t] \notin {"map", "check"}
      BY <1>1, <1>2, <1>3, <2>2 DEF Inv, CallInv, CallAt
    <3>2. call[t].size \in Requests
      BY <3>1 DEF DataInv, TaskInv, TakingInv
    <3> QED
      BY <3>1, <3>2 DEF TaskInv, AccessInv, TakingInv, CheckInv
  <2> QED
    BY <2>1, <2>2
<1> QED
  BY <1>1, <1>2, <1>3, <1>4, TaskQuiet

LEMMA TotalType ==
    ASSUME NEW c \in Call
    PROVE  Total(c) \in Nat
<1>1. c.size \in Nat /\ c.off + c.size \in Nat
  BY VmAssumption DEF Call
<1> QED
  BY <1>1, PagesProperties DEF Total

\* The check meets pages in use only.
LEMMA CheckPlace ==
    ASSUME Inv, FirstTable, DataInv, NEW t \in Client, pc[t] = "check",
           NEW c, c = call[t], c.left > 0
    PROVE  /\ c.at \in Mapped /\ UsablePage(c.at)
           /\ \E s : /\ ChainFor(s, c.base) /\ Total(c) <= Len(s)
                     /\ Total(c) - c.left + 1 \in 1..Len(s)
                     /\ c.at = s[Total(c) - c.left + 1]
<1>1. CheckAt(c)
  BY DEF DataInv, TaskInv, CheckInv
<1>2. PICK s : /\ ChainFor(s, c.base) /\ Total(c) <= Len(s)
               /\ c.at = IF Total(c) - c.left < Len(s) THEN s[Total(c) - c.left + 1] ELSE 0
  BY <1>1 DEF CheckAt
<1>3. c \in Call /\ c.left \in Nat /\ Total(c) \in Nat /\ c.left <= Total(c)
  BY TotalType DEF Inv, CallInv, CallAt, Call
<1>4. IsChain(s) /\ Len(s) \in Nat
  BY <1>2 DEF ChainFor, IsChain
<1>5. Total(c) - c.left < Len(s) /\ Total(c) - c.left + 1 \in 1..Len(s)
  BY <1>2, <1>3, <1>4
<1>6. c.at = s[Total(c) - c.left + 1]
  BY <1>2, <1>5
<1>7. c.at \in Mapped
  BY <1>4, <1>5, <1>6, ChainAt
<1>8. UsablePage(c.at)
  <2>1. scheme = "ready" /\ MemoryInv
    BY Alone DEF Inv, Inside
  <2>2. /\ c.at \in First /\ mem[0][0] = <<"frame", 0>>
        /\ mem[0][c.at] = <<"frame", mem[0][c.at][2]>>
    BY <1>7, <2>1, MappedFrame
  <2>3. Pte(mem, c.at) = mem[0][c.at]
    BY <2>2, WalkFirst
  <2> QED
    BY <1>7, <2>2, <2>3 DEF UsablePage, Mapped, NULL
<1> QED
  BY <1>2, <1>5, <1>6, <1>7, <1>8

LEMMA CheckNeverFails ==
    ASSUME Inv, FirstTable, DataInv, NEW t \in Client
    PROVE  ~ CheckFails(t) /\ ~ CheckFailsInGet(t)
<1> SUFFICES ASSUME CheckFails(t) \/ CheckFailsInGet(t) PROVE FALSE
  OBVIOUS
<1>1. pc[t] = "check" /\ call[t].left > 0 /\ ~ UsablePage(call[t].at)
  BY DEF CheckFails, CheckFailsInGet, At
<1> QED
  BY <1>1, CheckPlace

LEMMA MallocFitsData ==
    ASSUME Inv, DataInv, NEW t \in Client, MallocFits(t)
    PROVE  DataInv'
<1>1. /\ pc[t] = "allocate" /\ pc'[t] = "map" /\ UNCHANGED <<vbits, mem, content>>
      /\ call'[t] = call[t]
      /\ \A u \in Client \ {t} : pc'[u] = pc[u] /\ call'[u] = call[u]
  BY DEF MallocFits, Continue, Goto, At, Inv, LockInv, CallInv, memory
<1>2. call[t].op = "malloc" /\ call[t].words = <<>>
  BY <1>1 DEF Inv, CallInv, CallAt
<1>3. call[t].size \in Requests
  BY <1>2 DEF DataInv, TaskInv, TakingInv
<1>4. TaskInv(t)'
  BY <1>1, <1>2, <1>3 DEF TaskInv, AccessInv, TakingInv, CheckInv, TakenPages
<1> QED
  BY <1>1, <1>2, <1>4, DataQuiet

LEMMA CheckPageData ==
    ASSUME Inv, FirstTable, DataInv, NEW t \in Client, CheckPage(t)
    PROVE  DataInv'
<1>0. PICK c, p : c = call[t] /\ p = c.at
  OBVIOUS
<1>1. pc[t] = "check" /\ c.left > 0 /\ UNCHANGED <<vbits, mem>> /\ c \in Call
  BY <1>0 DEF CheckPage, At, Inv, CallInv
<1>2. PICK s : /\ ChainFor(s, c.base) /\ Total(c) <= Len(s)
               /\ Total(c) - c.left + 1 \in 1..Len(s)
               /\ p = s[Total(c) - c.left + 1] /\ p \in Mapped
  BY <1>0, <1>1, CheckPlace
<1>3. FrameAt(p) = mem[0][p][2]
  BY <1>1, <1>2, Alone, MappedFrame DEF Inv, Inside
<1>4. PICK d : d = [c EXCEPT !.at = Link(p), !.left = c.left - 1]
  OBVIOUS
<1>5. Continue(t, "check", d)
  BY <1>0, <1>3, <1>4 DEF CheckPage, Link
<1>6. /\ pc'[t] = "check" /\ call'[t] = d /\ content' = content
      /\ \A u \in Client \ {t} : pc'[u] = pc[u] /\ call'[u] = call[u]
  BY <1>5 DEF Continue, Goto, Inv, LockInv, CallInv
<1>7. /\ d.op = c.op /\ d.base = c.base /\ d.size = c.size /\ d.off = c.off
      /\ d.words = c.words /\ d.at = Link(p) /\ d.left = c.left - 1
  BY <1>1, <1>4 DEF Call
<1>8. CheckAt(d)
  <2>1. Total(d) = Total(c) /\ Total(c) \in Nat /\ c.left \in Nat
    BY <1>1, <1>7, TotalType DEF Total, Call
  <2>2. IsChain(s) /\ Len(s) \in Nat
    BY <1>2 DEF ChainFor, IsChain
  <2>3. PICK j : j = Total(c) - c.left + 1
    OBVIOUS
  <2>4. Total(d) - d.left = j /\ j \in 1..Len(s)
    BY <1>2, <1>7, <2>1, <2>3
  <2>5. Link(p) = IF j < Len(s) THEN s[j + 1] ELSE 0
    BY <1>2, <2>2, <2>3, <2>4 DEF IsChain
  <2> QED
    BY <1>2, <1>7, <2>1, <2>4, <2>5 DEF CheckAt
<1>9. CheckInv(t)'
  <2>1. CheckAt(d)'
    BY <1>1, <1>6, <1>8, CheckSame
  <2>2. CheckAt(d)' => CheckAt(call[t])'
    BY <1>6 DEF CheckAt, Total
  <2> QED
    BY <2>1, <2>2 DEF CheckInv
<1>10. \A w \in Client : call'[w].op = call[w].op /\ call'[w].base = call[w].base
  BY <1>0, <1>6, <1>7
<1>11. AccessInv(t)'
  <2>1. AccessInv(t)
    BY DEF DataInv, TaskInv
  <2> QED
    BY <1>0, <1>1, <1>6, <1>7, <1>10, <2>1 DEF AccessInv, Freeing
<1>12. TakingInv(t)'
  BY <1>0, <1>1, <1>6, <1>7 DEF TakingInv, Inv, CallInv, CallAt
<1>13. TaskInv(t)'
  BY <1>9, <1>11, <1>12 DEF TaskInv
<1>14. ASSUME NEW u \in Client \ {t}, call[u].op \in {"put", "get"}, call'[t].op = "free"
       PROVE  call'[t].base # call[u].base
  <2>1. ~ Freeing(call[u].base)
    BY <1>14 DEF DataInv, TaskInv, AccessInv
  <2> QED
    BY <1>10, <1>14, <2>1 DEF Freeing
<1> QED
  BY <1>1, <1>6, <1>13, <1>14, DataQuiet

-----------------------------------------------------------------------------
(* Along a chain, word by word.                                            *)

LEMMA PlaceIs ==
    ASSUME NEW k \in Nat \ {0}, NEW w \in 1..Payload, NEW i, i = (k - 1) * Payload + w
    PROVE  PageNo(i) = k /\ WordNo(i) = w
<1> USE FirstProperties
<1>1. PICK b, kp : b = (k - 1) * Payload /\ kp = k * Payload
  OBVIOUS
<1>2. k - 1 \in Nat
  OBVIOUS
<1>3. b \in Nat /\ kp = b + Payload
  <2>1. PICK x : x = k - 1
    OBVIOUS
  <2>2. x \in Nat /\ k = x + 1
    BY <2>1
  <2>3. x * Payload \in Nat /\ (x + 1) * Payload = x * Payload + Payload
    BY <2>2
  <2> QED
    BY <1>1, <2>1, <2>2, <2>3
<1>4. i \in 1..(k * Payload)
  BY <1>1, <1>3
<1>5. PICK j, v : j = PageNo(i) /\ v = WordNo(i)
  OBVIOUS
<1>6. j \in 1..k /\ v \in 1..Payload /\ i = (j - 1) * Payload + v
  BY <1>4, <1>5, PlaceOf
<1>7. j = k
  <2> SUFFICES ASSUME j < k PROVE FALSE
    BY <1>6
  <2>1. (j - 1) * Payload \in Int /\ (j - 1) * Payload + Payload <= (k - 1) * Payload
    BY <1>6, PlaceOrder
  <2> QED
    BY <1>1, <1>3, <1>6, <2>1
<1>8. v = w
  BY <1>1, <1>3, <1>6, <1>7
<1> QED
  BY <1>5, <1>7, <1>8

LEMMA ImageAt ==
    ASSUME NEW s, Len(s) \in Nat, NEW k \in 1..Len(s), NEW w \in 1..Payload,
           NEW i, i = (k - 1) * Payload + w
    PROVE  i \in 1..(Len(s) * Payload) /\ Image(s)[i] = Sheet(s[k])[w]
<1>1. PageNo(i) = k /\ WordNo(i) = w
  BY PlaceIs
<1>2. PICK l : l = Len(s)
  OBVIOUS
<1>3. i \in 1..(l * Payload)
  <2>1. (k - 1) * Payload \in Int /\ ((l + 1) - 1) * Payload \in Int
        /\ (k - 1) * Payload + Payload <= ((l + 1) - 1) * Payload
    BY <1>2, PlaceOrder
  <2>2. (l + 1) - 1 = l /\ k - 1 \in Nat
    BY <1>2
  <2>3. (k - 1) * Payload \in Nat
    BY <2>2, FirstProperties
  <2> QED
    BY <2>1, <2>2, <2>3, FirstProperties
<1> QED
  BY <1>1, <1>2, <1>3 DEF Image, ImageIn, Sheet

\* Nothing is written yet.
LEMMA WrittenNone ==
    ASSUME SizeInv, NEW b \in DOMAIN content, NEW o \in Nat, NEW v
    PROVE  Written(content[b], o, 0, v) = content[b]
<1>1. PICK w, n : w = content[b] /\ n = 1..(Allocations[b] * Payload)
  OBVIOUS
<1>2. w = [i \in n |-> w[i]]
  BY <1>1 DEF SizeInv
<1>3. \A i : i \notin (o + 1)..(o + 0)
  OBVIOUS
<1> QED
  BY <1>1, <1>2, <1>3 DEF Written

\* The access c, which started at o, is at the k-th page of its chain s.
Progress(c, o, s, k) ==
    /\ c.base \in DOMAIN content /\ ~ Freeing(c.base)
    /\ o \in Nat /\ o + c.size <= Len(content[c.base])
    /\ ChainFor(s, c.base) /\ k \in 1..Len(s) /\ c.at = s[k]
    /\ (k - 1) * Payload + c.off = o + (c.size - c.left)
    /\ c.op = "get" =>
          /\ content[c.base] = Image(s)
          /\ c.words = [i \in 1..(c.size - c.left) |-> content[c.base][o + i]]
    /\ c.op = "put" => Image(s) = Written(content[c.base], o, c.size - c.left, c.val)

\* The chain goes on where it has to.
Onward(c, o, s, k) ==
    c.left > Room(c) =>
        /\ k + 1 \in 1..Len(s) /\ Link(c.at) = s[k + 1]
        /\ ((k + 1) - 1) * Payload = o + (c.size - (c.left - Room(c)))

LEMMA CopyPlace ==
    ASSUME Inv, FirstTable, DataInv, NEW t \in Client, pc[t] = "copy",
           NEW c, c = call[t]
    PROVE  \E a \in Accesses : \E s, k :
              a[2] = c.size /\ Progress(c, a[1], s, k) /\ Onward(c, a[1], s, k)
<1>1. c.op \in {"put", "get"} /\ c \in Call /\ c.left \in 1..c.size
  BY DEF Inv, CallInv, CallAt
<1>2. PICK a \in Accesses :
         /\ a[2] = c.size /\ a[1] + a[2] <= Len(content[c.base])
         /\ CopyAt(c, a[1])
  BY <1>1 DEF DataInv, TaskInv, AccessInv
<1>3. PICK s, k :
         /\ ChainFor(s, c.base)
         /\ k \in 1..Len(s) /\ c.at = s[k]
         /\ (k - 1) * Payload + c.off = a[1] + (c.size - c.left)
         /\ c.op = "get" =>
               /\ content[c.base] = Image(s)
               /\ c.words = [i \in 1..(c.size - c.left) |-> content[c.base][a[1] + i]]
         /\ c.op = "put" => Image(s) = Written(content[c.base], a[1], c.size - c.left, c.val)
  BY <1>2 DEF CopyAt
<1>4. /\ c.base \in DOMAIN content /\ ~ Freeing(c.base)
      /\ IsChain(s) /\ Len(s) = Allocations[c.base] /\ Len(s) \in Nat
  <2>1. c.base \in DOMAIN content /\ ~ Freeing(c.base)
    BY <1>1 DEF DataInv, TaskInv, AccessInv
  <2>2. IsChain(s) /\ Len(s) = Allocations[c.base]
    BY <1>3 DEF ChainFor
  <2> QED
    BY <2>1, <2>2 DEF IsChain
<1>5. a[1] \in Nat /\ c.size \in Nat /\ c.left \in Nat /\ c.off \in Nat
  BY <1>1, VmAssumption DEF Call
<1>6. PICK l, o, x : l = Len(s) /\ o = a[1] /\ x = (k - 1) * Payload
  OBVIOUS
<1>7. o + c.size <= l * Payload /\ l * Payload \in Nat
  <2>1. /\ Len(content[c.base]) = Allocations[c.base] * Payload
        /\ Allocations[c.base] * Payload \in Nat
    BY <1>4, SizeOf DEF DataInv, ShownInv
  <2> QED
    BY <1>2, <1>4, <1>6, <2>1
<1>8. x \in Int /\ ((k + 1) - 1) * Payload = x + Payload
  <2>1. k \in Int /\ Payload \in Int
    BY <1>3, <1>4, FirstProperties
  <2>2. ((k + 1) - 1) * Payload = k * Payload /\ k * Payload \in Int
    BY <2>1
  <2>3. (k - 1) * Payload = k * Payload - Payload
    BY <2>1
  <2> QED
    BY <1>6, <2>1, <2>2, <2>3
<1>9. ASSUME c.left > Room(c)
      PROVE  /\ k + 1 \in 1..Len(s) /\ Link(c.at) = s[k + 1]
             /\ ((k + 1) - 1) * Payload = o + (c.size - (c.left - Room(c)))
  <2>1. Room(c) = Payload - c.off /\ Payload \in Nat /\ Room(c) \in Int
    BY <1>5, FirstProperties DEF Room
  <2>2. x + c.off = o + (c.size - c.left)
    BY <1>3, <1>6
  <2>0. o \in Nat /\ x \in Int
    BY <1>5, <1>6, <1>8
  <2>3. x + Payload = o + (c.size - (c.left - Room(c)))
    BY ONLY <1>5, <2>0, <2>1, <2>2
  <2>4. x + Payload < o + c.size
    BY ONLY <1>5, <1>9, <2>0, <2>1, <2>3
  <2>5. k < l
    <3> SUFFICES ASSUME k >= l PROVE FALSE
      BY <1>3, <1>4, <1>6
    <3>1. k = l
      BY <1>3, <1>4, <1>6
    <3>2. (k + 1) - 1 = k
      BY <1>3, <1>4
    <3>3. k * Payload = x + Payload
      BY <1>8, <3>2
    <3> QED
      BY <1>5, <1>6, <1>7, <1>8, <2>1, <2>4, <3>1, <3>3
  <2>6. k + 1 \in 1..Len(s)
    BY <1>3, <1>4, <1>6, <2>5
  <2>7. Link(c.at) = s[k + 1]
    BY <1>3, <1>4, <1>6, <2>5 DEF IsChain
  <2> QED
    BY <1>8, <2>3, <2>6, <2>7
<1>10. Progress(c, a[1], s, k)
  BY <1>2, <1>3, <1>4, <1>5 DEF Progress
<1>11. Onward(c, a[1], s, k)
  BY <1>6, <1>9 DEF Onward
<1> QED
  BY <1>2, <1>10, <1>11

\* n words after the o-th.
WordsOf(w, o, n) == [i \in 1..n |-> w[o + i]]

LEMMA WordsOfTwo ==
    ASSUME NEW w, NEW o \in Nat, NEW d \in Nat, NEW n \in Nat
    PROVE  WordsOf(w, o, d) \o WordsOf(w, o + d, n) = WordsOf(w, o, d + n)
<1>1. PICK g, r : g = WordsOf(w, o, d) /\ r = WordsOf(w, o + d, n)
  OBVIOUS
<1>2. g = [i \in 1..d |-> w[o + i]] /\ r = [j \in 1..n |-> w[o + (d + j)]]
  BY <1>1 DEF WordsOf
<1>3. Len(g) = d /\ Len(r) = n
  BY <1>2
<1>4. g \o r = [i \in 1..(d + n) |-> w[o + i]]
  BY <1>2, <1>3
<1> QED
  BY <1>1, <1>4 DEF WordsOf

LEMMA WordsOfPart ==
    ASSUME NEW len \in Nat, NEW w, w = [i \in 1..len |-> w[i]],
           NEW o \in Nat, NEW n \in Nat, o + n <= len
    PROVE  SubSeq(w, o + 1, o + n) = WordsOf(w, o, n)
<1>1. PICK S, x, y : S = {w[i] : i \in 1..len} /\ x = o + 1 /\ y = o + n
  OBVIOUS
<1>2. x \in Int /\ y \in Int /\ y - x + 1 = n /\ \A i \in 1..n : x + i - 1 = o + i
  BY ONLY <1>1, o \in Nat, n \in Nat
<1>3. \A i \in x..y : w[i] \in S
  <2> TAKE i \in x..y
  <2>1. x = o + 1 /\ y = o + n /\ o \in Nat /\ n \in Nat /\ len \in Nat /\ o + n <= len
    BY <1>1
  <2>2. i \in 1..len
    BY ONLY <2>1, i \in x..y
  <2> QED
    BY <1>1, <2>2
<1>4. PICK g : g = SubSeq(w, x, y)
  OBVIOUS
<1>5. /\ g \in Seq(S) /\ Len(g) = IF x <= y THEN y - x + 1 ELSE 0
      /\ \A i \in 1..(y - x + 1) : g[i] = w[x + i - 1]
  <2>1. /\ SubSeq(w, x, y) \in Seq(S)
        /\ Len(SubSeq(w, x, y)) = IF x <= y THEN y - x + 1 ELSE 0
        /\ \A i \in 1..(y - x + 1) : SubSeq(w, x, y)[i] = w[x + i - 1]
    BY ONLY <1>2, <1>3, SubSeqProperties
  <2> QED
    BY ONLY <1>4, <2>1
<1>6. Len(g) = n
  BY <1>1, <1>2, <1>5
<1>7. \A i \in 1..n : g[i] = w[o + i]
  BY ONLY <1>2, <1>5
<1>8. g = [i \in 1..n |-> w[o + i]]
  <2>1. g = [i \in 1..n |-> g[i]]
    BY <1>5, <1>6
  <2> QED
    BY <1>7, <2>1
<1> QED
  BY <1>1, <1>4, <1>8 DEF WordsOf

LEMMA NoneOpen ==
    ASSUME Inv, DataInv, NEW t \in Client, Inside(t),
           pc[t] \notin {"free", "copy"} \/ call[t].op = "get", pc[t] # "free"
    PROVE  SizeInv /\ \A b \in DOMAIN content : Shown(b)
<1>1. ASSUME NEW b, Open(b) PROVE FALSE
  <2>1. PICK u \in Client : pc[u] = "free" \/ (pc[u] = "copy" /\ call[u].op = "put")
    BY <1>1 DEF Open
  <2>2. Inside(u)
    BY <2>1 DEF Inside
  <2>3. u = t
    BY <2>2, Alone DEF Inv
  <2> QED
    BY <2>1, <2>3
<1> QED
  BY <1>1 DEF DataInv, ShownInv

LEMMA CheckPassesData ==
    ASSUME Inv, FirstTable, DataInv, NEW t \in Client, CheckPasses(t)
    PROVE  DataInv'
<1>0. PICK c : c = call[t]
  OBVIOUS
<1>1. /\ pc[t] = "check" /\ UNCHANGED <<vbits, mem>> /\ c \in Call /\ Inside(t)
      /\ c.op \in {"free", "put", "get"}
  BY <1>0 DEF CheckPasses, At, Inv, CallInv, CallAt, memory, Inside
<1>2. ASSUME NEW d, NEW where, Continue(t, where, d), d.op = c.op, d.base = c.base, TaskInv(t)'
      PROVE  DataInv'
  <2>1. /\ pc'[t] = where /\ call'[t] = d /\ content' = content
        /\ \A u \in Client \ {t} : pc'[u] = pc[u] /\ call'[u] = call[u]
    BY <1>2 DEF Continue, Goto, Inv, LockInv, CallInv
  <2>2. ASSUME NEW u \in Client \ {t}, call[u].op \in {"put", "get"}, call'[t].op = "free"
        PROVE  call'[t].base # call[u].base
    <3>1. ~ Freeing(call[u].base)
      BY <2>2 DEF DataInv, TaskInv, AccessInv
    <3> QED
      BY <1>0, <1>2, <2>1, <2>2, <3>1 DEF Freeing
  <2> QED
    BY <1>1, <1>2, <2>1, <2>2, DataQuiet
<1>3. CASE c.op = "free"
  <2>1. PICK d : d = [c EXCEPT !.at = c.base, !.left = Pages(c.size)]
    OBVIOUS
  <2>2. Continue(t, "free", d)
    BY <1>0, <1>3, <2>1 DEF CheckPasses
  <2>3. d.op = c.op /\ d.base = c.base
    BY <1>1, <2>1 DEF Call
  <2>4. pc'[t] = "free" /\ call'[t] = d
    BY <2>2 DEF Continue, Goto, Inv, LockInv, CallInv
  <2>5. TaskInv(t)'
    BY <1>3, <2>3, <2>4 DEF TaskInv, AccessInv, TakingInv, CheckInv
  <2> QED
    BY <1>2, <2>2, <2>3, <2>5
<1>4. CASE c.op \in {"put", "get"}
  <2>1. PICK d : d = [c EXCEPT !.at = c.base, !.left = c.size]
    OBVIOUS
  <2>2. Continue(t, "copy", d)
    BY <1>0, <1>4, <2>1 DEF CheckPasses
  <2>3. /\ d.op = c.op /\ d.base = c.base /\ d.size = c.size /\ d.off = c.off /\ d.val = c.val
        /\ d.words = c.words /\ d.at = c.base /\ d.left = c.size /\ c.size \in Nat
    BY <1>1, <2>1 DEF Call
  <2>4. /\ pc'[t] = "copy" /\ call'[t] = d /\ content' = content
        /\ \A u \in Client \ {t} : pc'[u] = pc[u] /\ call'[u] = call[u]
    BY <2>2 DEF Continue, Goto, Inv, LockInv, CallInv
  <2>5. c.base \in DOMAIN content /\ ~ Freeing(c.base)
    BY <1>0, <1>4 DEF DataInv, TaskInv, AccessInv
  <2>6. PICK a \in Accesses :
           /\ a[2] = c.size /\ a[1] + a[2] <= Len(content[c.base])
           /\ a[1] = c.off /\ c.words = <<>>
    BY <1>0, <1>1, <1>4 DEF DataInv, TaskInv, AccessInv
  <2>7. SizeInv /\ Shown(c.base)
    BY <1>1, <2>5, NoneOpen
  <2>8. PICK s : ChainFor(s, c.base) /\ content[c.base] = Image(s)
    BY <2>7 DEF Shown
  <2>9. 1 \in 1..Len(s) /\ s[1] = c.base
    BY <2>8 DEF ChainFor, IsChain
  <2>10. (1 - 1) * Payload + c.off = c.off + (c.size - c.size)
    <3>1. c.off \in Nat
      BY <1>1, VmAssumption DEF Call
    <3> QED
      BY <2>3, <3>1, FirstProperties
  <2>11. c.words = [i \in 1..(c.size - c.size) |-> content[c.base][c.off + i]]
    <3>1. 1..(c.size - c.size) = {}
      BY <2>3
    <3> QED
      BY <2>6, <3>1
  <2>12. Image(s) = Written(content[c.base], c.off, c.size - c.size, c.val)
    <3>1. c.size - c.size = 0 /\ c.off \in Nat
      BY <1>1, <2>3, VmAssumption DEF Call
    <3> QED
      BY <2>5, <2>7, <2>8, <3>1, WrittenNone
  <2>13. CopyAt(d, a[1])
    BY <2>3, <2>6, <2>8, <2>9, <2>10, <2>11, <2>12 DEF CopyAt
  <2>14. CopyAt(d, a[1])'
    BY <1>1, <2>4, <2>13, CopySame
  <2>15. CopyAt(call[t], a[1])'
    BY <2>4, <2>14 DEF CopyAt
  <2>16. ~ Freeing(c.base)'
    BY <1>0, <1>4, <2>3, <2>4, <2>5 DEF Freeing
  <2>17. AccessInv(t)'
    BY <2>3, <2>4, <2>5, <2>6, <2>15, <2>16 DEF AccessInv
  <2>18. TaskInv(t)'
    BY <1>4, <2>3, <2>4, <2>17 DEF TaskInv, TakingInv, CheckInv
  <2> QED
    BY <1>2, <2>2, <2>3, <2>18
<1> QED
  BY <1>1, <1>3, <1>4

\* What get_value has read when it is done with a page.
LEMMA GetWords ==
    ASSUME Inv, FirstTable, NEW t \in Client, GetPage(t),
           NEW c, c = call[t], NEW n, n = Min({c.left, Room(c)}),
           NEW o, NEW s, NEW k, Progress(c, o, s, k)
    PROVE  /\ c.words \o [i \in 1..n |-> mem[FrameAt(c.at)][c.off + i]]
                 = WordsOf(content[c.base], o, (c.size - c.left) + n)
           /\ n \in Nat /\ n \in {c.left, Room(c)} /\ n <= c.left
<1>0. /\ o \in Nat /\ ChainFor(s, c.base) /\ k \in 1..Len(s) /\ c.at = s[k]
      /\ (k - 1) * Payload + c.off = o + (c.size - c.left)
      /\ content[c.base] = Image(s)
      /\ c.words = [i \in 1..(c.size - c.left) |-> content[c.base][o + i]]
  BY DEF Progress, GetPage
<1>1. c \in Call /\ c.op = "get" /\ c.left \in 1..c.size /\ pc[t] = "copy"
  BY DEF GetPage, At, Inv, CallInv, CallAt
<1>2. FrameAt(c.at) = mem[0][c.at][2]
  BY <1>1, CopyAhead DEF Inv
<1>3. /\ c.left \in Nat /\ c.size \in Nat /\ c.off \in Nat /\ Room(c) \in Nat
      /\ Room(c) = Payload - c.off /\ Payload \in Nat
  BY <1>1, FirstProperties, VmAssumption DEF Call, Room
<1>4. n \in Nat /\ n <= c.left /\ n <= Room(c) /\ n \in {c.left, Room(c)}
  BY ONLY <1>3, MinProperties, n = Min({c.left, Room(c)})
<1>5. PICK d : d = c.size - c.left
  OBVIOUS
<1>6. d \in Nat
  BY ONLY <1>1, <1>3, <1>5
<1>7. Len(s) \in Nat
  BY <1>0 DEF ChainFor, IsChain
<1>8. ASSUME NEW j \in 1..n
      PROVE  mem[FrameAt(c.at)][c.off + j] = content[c.base][(o + d) + j]
  <2>1. PICK x : x = (k - 1) * Payload
    OBVIOUS
  <2>2. x \in Int /\ x + c.off = o + d
    BY <1>0, <1>3, <1>5, <1>7, <2>1
  <2>3. c.off + j \in 1..Payload /\ x + (c.off + j) = (o + d) + j
    <3>1. PICK y, z : y = c.off /\ z = Room(c)
      OBVIOUS
    <3>2. /\ x \in Int /\ y \in Nat /\ o \in Nat /\ d \in Nat /\ z \in Nat /\ n \in Nat
          /\ j \in 1..n /\ n <= z /\ z = Payload - y /\ x + y = o + d
          /\ Payload \in Nat
      BY <1>0, <1>3, <1>4, <1>6, <1>8, <2>2, <3>1
    <3>3. y + j \in 1..Payload /\ x + (y + j) = (o + d) + j
      BY ONLY <3>2
    <3> QED
      BY ONLY <3>1, <3>3
  <2>4. Image(s)[x + (c.off + j)] = Sheet(s[k])[c.off + j]
    BY <1>0, <1>7, <2>1, <2>3, ImageAt
  <2> QED
    BY <1>0, <1>2, <2>3, <2>4 DEF Sheet
<1>9. PICK g, r, w : /\ g = c.words /\ r = [i \in 1..n |-> mem[FrameAt(c.at)][c.off + i]]
                     /\ w = content[c.base]
  OBVIOUS
<1>10. g \o r = WordsOf(w, o, d + n)
  <2>1. g = WordsOf(w, o, d)
    BY <1>0, <1>5, <1>9 DEF WordsOf
  <2>2. r = WordsOf(w, o + d, n)
    BY <1>8, <1>9 DEF WordsOf
  <2> QED
    <3>1. o \in Nat /\ d \in Nat /\ n \in Nat
      BY <1>0, <1>4, <1>6
    <3>2. WordsOf(w, o, d) \o WordsOf(w, o + d, n) = WordsOf(w, o, d + n)
      BY ONLY <3>1, WordsOfTwo
    <3> QED
      BY ONLY <2>1, <2>2, <3>2
<1> QED
  BY <1>4, <1>5, <1>9, <1>10

\* An access that goes on with the next page.
LEMMA OntoNext ==
    ASSUME NEW c \in Call, NEW f, NEW d,
           d = Onto(c, f) \/ \E w : d = [Onto(c, f) EXCEPT !.words = w]
    PROVE  /\ d.op = c.op /\ d.base = c.base /\ d.size = c.size /\ d.val = c.val
           /\ d.at = mem[f][0][2] /\ d.off = 0 /\ d.left = c.left - Room(c)
  BY DEF Onto, Call

LEMMA GetPageData ==
    ASSUME Inv, FirstTable, DataInv, NEW t \in Client, GetPage(t),
           ~ (call[t].left <= Room(call[t]))
    PROVE  DataInv'
<1>0. PICK c, f, n : c = call[t] /\ f = FrameAt(c.at) /\ n = Min({c.left, Room(c)})
  OBVIOUS
<1>1. pc[t] = "copy" /\ c.op = "get" /\ UNCHANGED <<vbits, mem>> /\ c \in Call
  BY <1>0 DEF GetPage, At, Inv, CallInv
<1>2. f = mem[0][c.at][2]
  BY <1>0, <1>1, CopyAhead DEF Inv
<1>3. /\ c.left \in Nat /\ c.size \in Nat /\ Room(c) \in Nat
  BY <1>1, FirstProperties, VmAssumption DEF Call, Room
<1>4. PICK a \in Accesses : \E s, k :
         a[2] = c.size /\ Progress(c, a[1], s, k) /\ Onward(c, a[1], s, k)
  BY <1>0, <1>1, CopyPlace
<1>5. PICK s, k : a[2] = c.size /\ Progress(c, a[1], s, k) /\ Onward(c, a[1], s, k)
  BY <1>4
<1>5a. /\ c.base \in DOMAIN content /\ ~ Freeing(c.base)
       /\ a[1] \in Nat /\ a[1] + c.size <= Len(content[c.base])
       /\ ChainFor(s, c.base) /\ content[c.base] = Image(s)
  BY <1>1, <1>5 DEF Progress
<1>5b. /\ k + 1 \in 1..Len(s) /\ Link(c.at) = s[k + 1]
       /\ ((k + 1) - 1) * Payload = a[1] + (c.size - (c.left - Room(c)))
  <2>1. c.left > Room(c)
    BY <1>0, <1>3
  <2> QED
    BY <1>5, <2>1 DEF Onward
<1>6. PICK read, d : /\ read = c.words \o [i \in 1..n |-> mem[f][c.off + i]]
                     /\ d = [Onto(c, f) EXCEPT !.words = read]
  OBVIOUS
<1>7. Continue(t, "copy", d)
  BY <1>0, <1>6 DEF GetPage
<1>8. /\ pc'[t] = "copy" /\ call'[t] = d /\ content' = content
      /\ \A u \in Client \ {t} : pc'[u] = pc[u] /\ call'[u] = call[u]
  BY <1>7 DEF Continue, Goto, Inv, LockInv, CallInv
<1>9. /\ d.op = c.op /\ d.base = c.base /\ d.size = c.size /\ d.words = read
      /\ d.at = Link(c.at) /\ d.off = 0 /\ d.left = c.left - Room(c)
  <2>1. d.words = read
    BY <1>1, <1>6 DEF Onto, Call
  <2>2. Link(c.at) = mem[f][0][2]
    BY <1>2 DEF Link
  <2> QED
    <3>1. \E w : d = [Onto(c, f) EXCEPT !.words = w]
      BY <1>6
    <3>2. /\ d.op = c.op /\ d.base = c.base /\ d.size = c.size /\ d.val = c.val
          /\ d.at = mem[f][0][2] /\ d.off = 0 /\ d.left = c.left - Room(c)
      BY ONLY <1>1, <3>1, OntoNext
    <3> QED
      BY ONLY <2>1, <2>2, <3>2
<1>10. read = WordsOf(content[c.base], a[1], (c.size - c.left) + n) /\ n = Room(c)
  <2>1. /\ read = WordsOf(content[c.base], a[1], (c.size - c.left) + n)
        /\ n \in {c.left, Room(c)} /\ n <= c.left
    <3>1. /\ t \in Client /\ Inv /\ FirstTable /\ GetPage(t) /\ c = call[t]
          /\ n = Min({c.left, Room(c)}) /\ Progress(c, a[1], s, k)
      BY <1>0, <1>5
    <3>2. /\ c.words \o [i \in 1..n |-> mem[FrameAt(c.at)][c.off + i]]
                = WordsOf(content[c.base], a[1], (c.size - c.left) + n)
          /\ n \in Nat /\ n \in {c.left, Room(c)} /\ n <= c.left
      BY ONLY <3>1, GetWords, ZenonT(30)
    <3> QED
      BY ONLY <1>0, <1>6, <3>2
  <2>2. n <= Room(c)
    BY <1>0, <1>3, MinProperties
  <2> QED
    BY <1>0, <1>3, <2>1, <2>2
<1>11. d.words = [i \in 1..(d.size - d.left) |-> content[d.base][a[1] + i]]
  <2>1. (c.size - c.left) + n = d.size - d.left
    BY <1>3, <1>9, <1>10
  <2> QED
    BY <1>9, <1>10, <2>1 DEF WordsOf
<1>12. ((k + 1) - 1) * Payload + d.off = a[1] + (d.size - d.left)
  <2>1. a[1] + (c.size - (c.left - Room(c))) \in Int
    BY ONLY <1>3, <1>5a
  <2> QED
    BY <1>9, <1>5b, <2>1
<1>13. CopyAt(d, a[1])
  BY <1>1, <1>9, <1>11, <1>12, <1>5a, <1>5b DEF CopyAt
<1>14. CopyAt(call[t], a[1])'
  <2>1. CopyAt(d, a[1])'
    BY <1>1, <1>8, <1>13, CopySame
  <2> QED
    BY <1>8, <2>1 DEF CopyAt
<1>15. ~ Freeing(c.base)'
  BY <1>0, <1>1, <1>8, <1>9, <1>5a DEF Freeing
<1>16. TaskInv(t)'
  <2>1. AccessInv(t)'
    BY <1>5, <1>8, <1>9, <1>14, <1>15, <1>5a DEF AccessInv
  <2> QED
    BY <1>1, <1>8, <1>9, <2>1 DEF TaskInv, TakingInv, CheckInv
<1> QED
  BY <1>0, <1>1, <1>8, <1>9, <1>16, DataQuiet

\* A call that does not hold the lock.
LEMMA TaskOutside ==
    ASSUME NEW u \in Client, ~ Inside(u), TaskInv(u), pc'[u] = pc[u], call'[u] = call[u],
           call[u].op \in {"put", "get"} =>
              /\ call[u].base \in DOMAIN content'
              /\ Len(content'[call[u].base]) = Len(content[call[u].base])
              /\ \A w \in Client : call'[w].op = "free" => call'[w].base # call[u].base
    PROVE  TaskInv(u)'
<1>0. PICK c : c = call[u]
  OBVIOUS
<1>1. AccessInv(u)'
  <2> SUFFICES ASSUME c.op \in {"put", "get"}
               PROVE  (/\ c.base \in DOMAIN content /\ ~ Freeing(c.base)
                       /\ \E a \in Accesses :
                             /\ a[2] = c.size /\ a[1] + a[2] <= Len(content[c.base])
                             /\ pc[u] \in {"lock", "check"} => a[1] = c.off /\ c.words = <<>>
                             /\ pc[u] = "copy" => CopyAt(c, a[1]))'
    BY <1>0 DEF AccessInv
  <2>1. PICK a \in Accesses :
             /\ a[2] = c.size /\ a[1] + a[2] <= Len(content[c.base])
             /\ pc[u] \in {"lock", "check"} => a[1] = c.off /\ c.words = <<>>
    BY <1>0 DEF TaskInv, AccessInv
  <2>2. ~ Freeing(c.base)' /\ c.base \in DOMAIN content'
    BY <1>0 DEF Freeing
  <2>3. pc'[u] # "copy"
    BY DEF Inside
  <2>4. Len(content'[c.base]) = Len(content[c.base])
    BY <1>0
  <2> QED
    BY <2>1, <2>2, <2>3, <2>4
<1>2. TakingInv(u)' /\ CheckInv(u)'
  BY DEF TaskInv, TakingInv, CheckInv, Inside
<1> QED
  BY <1>1, <1>2 DEF TaskInv

-----------------------------------------------------------------------------
(* The steps that change the memory.                                       *)

\* With n more words, the i-th word of the chain s is what the access c makes it.
Becomes(c, o, n, s, i) ==
    /\ i \in 1..(Len(s) * Payload)
    /\ Image(s)'[i] = IF i \in (o + 1)..(o + ((c.size - c.left) + n))
                      THEN Datum(c.val, i - o) ELSE content[c.base][i]

LEMMA OntoWords ==
    ASSUME Inv, FirstTable, NEW t \in Client, PutPage(t),
           NEW c, c = call[t], NEW n, n = Min({c.left, Room(c)}),
           NEW o, NEW s, NEW k, Progress(c, o, s, k),
           NEW j \in 1..Len(s), NEW w \in 1..Payload, NEW i, i = (j - 1) * Payload + w
    PROVE  Becomes(c, o, n, s, i)
<1> SUFFICES /\ i \in 1..(Len(s) * Payload)
             /\ Image(s)'[i] = IF i \in (o + 1)..(o + ((c.size - c.left) + n))
                               THEN Datum(c.val, i - o) ELSE content[c.base][i]
  BY DEF Becomes
<1>0. c.op = "put" /\ c \in Call /\ c.left \in 1..c.size
  BY DEF PutPage, At, Inv, CallInv, CallAt
<1>1. /\ o \in Nat /\ ChainFor(s, c.base) /\ k \in 1..Len(s) /\ c.at = s[k]
      /\ (k - 1) * Payload + c.off = o + (c.size - c.left)
      /\ Image(s) = Written(content[c.base], o, c.size - c.left, c.val)
      /\ IsChain(s) /\ Len(s) \in Nat
  BY <1>0 DEF Progress, ChainFor, IsChain
<1>2. /\ \A q \in Mapped \ {c.at} : Sheet(q)' = Sheet(q)
      /\ \A l \in 1..Payload :
            Sheet(c.at)'[l] = IF l \in (c.off + 1)..(c.off + n)
                              THEN Datum(c.val, c.size - c.left + l - c.off)
                              ELSE Sheet(c.at)[l]
      /\ n \in Nat /\ n <= c.left /\ n <= Room(c)
  BY PutPageWords
<1>3. i \in 1..(Len(s) * Payload) /\ Image(s)[i] = Sheet(s[j])[w]
  BY <1>1, ImageAt
<1>4. Image(s)'[i] = Sheet(s[j])'[w]
  <2>1. PageNo(i) = j /\ WordNo(i) = w
    BY <1>1, PlaceIs
  <2>2. Image(s)' = [l \in 1..(Len(s) * Payload) |-> Sheet(s[PageNo(l)])'[WordNo(l)]]
    BY DEF Image, ImageIn, Sheet
  <2> QED
    BY <1>3, <2>1, <2>2
<1>5. PICK done, off, x : done = c.size - c.left /\ off = c.off /\ x = (k - 1) * Payload
  OBVIOUS
<1>6. /\ done \in Nat /\ off \in Nat /\ x \in Int /\ Payload \in Nat
      /\ x + off = o + done /\ off + n <= Payload
  <2>1. c.size \in Nat /\ c.left \in Nat /\ c.left <= c.size /\ c.off \in Nat
    BY <1>0, VmAssumption DEF Call
  <2>2. Payload \in Nat /\ Room(c) = Payload - c.off
    BY FirstProperties DEF Room
  <2>3. (k - 1) * Payload \in Int
    BY <1>1, <2>2
  <2>4. c.size - c.left \in Nat
    BY ONLY <2>1
  <2>5. c.off + n <= Payload
    BY ONLY <1>2, <2>1, <2>2
  <2> QED
    BY <1>1, <1>5, <2>1, <2>2, <2>3, <2>4, <2>5
<1>7. Image(s)[i] = IF i \in (o + 1)..(o + done) THEN Datum(c.val, i - o) ELSE content[c.base][i]
  <2>1. DOMAIN Image(s) = DOMAIN content[c.base]
    BY <1>1 DEF Written
  <2>2. i \in DOMAIN content[c.base]
    BY <1>3, <2>1 DEF Image, ImageIn
  <2> QED
    BY <1>1, <1>5, <2>2 DEF Written
<1>8. CASE j = k
  <2>1. i = x + w /\ s[j] = c.at
    BY <1>1, <1>5, <1>8
  <2>2. Sheet(c.at)'[w] = IF w \in (off + 1)..(off + n)
                          THEN Datum(c.val, done + w - off) ELSE Sheet(c.at)[w]
    BY <1>2, <1>5
  <2>3. w \in Nat /\ o \in Nat /\ n \in Nat
    BY <1>1, <1>2, FirstProperties
  <2>4. i \in Int /\ done + w - off = i - o
    <3>1. i = x + w /\ i \in Int
      BY <1>6, <2>1, <2>3
    <3>2. done + w = i - o + off
      BY ONLY <1>6, <2>3, <3>1
    <3> QED
      BY ONLY <1>6, <2>3, <3>1, <3>2
  <2>5. w \in (off + 1)..(off + n) <=> i \in (o + done + 1)..(o + (done + n))
    BY ONLY <1>6, <2>1, <2>3
  <2>6. i \in (o + 1)..(o + (done + n)) <=>
           i \in (o + 1)..(o + done) \/ i \in (o + done + 1)..(o + (done + n))
    BY ONLY <1>6, <2>3, <2>4
  <2>7. w \in (off + 1)..(off + n) => Image(s)'[i] = Datum(c.val, i - o)
    BY <1>4, <2>1, <2>2, <2>4
  <2>8. w \notin (off + 1)..(off + n) => Image(s)'[i] = Image(s)[i]
    BY <1>3, <1>4, <2>1, <2>2
  <2> QED
    BY ONLY <1>3, <1>5, <1>7, <2>5, <2>6, <2>7, <2>8
<1>9. CASE j # k
  <2>1. s[j] \in Mapped \ {c.at}
    <3>1. s[j] \in Mapped
      BY <1>1, ChainAt
    <3>2. \A g, h \in 1..Len(s) : g < h => s[g] < s[h]
      BY <1>1 DEF IsChain
    <3>3. s \in Seq(Page) /\ \A g \in 1..Len(s) : s[g] \in Nat
      BY <1>1, VmAssumption DEF IsChain, Page
    <3>4. s[j] # s[k]
      BY <1>1, <1>9, <3>2, <3>3
    <3> QED
      BY <1>1, <3>1, <3>4
  <2>2. Image(s)'[i] = Image(s)[i]
    BY <1>2, <1>3, <1>4, <2>1
  <2>3. i \notin (o + done + 1)..(o + (done + n))
    <3>1. PICK y : y = (j - 1) * Payload
      OBVIOUS
    <3>2. y \in Int /\ i = y + w /\ w \in Nat /\ w >= 1 /\ w <= Payload /\ n \in Nat /\ o \in Nat
      <4>1. (j - 1) * Payload \in Int
        BY <1>1, <1>6
      <4> QED
        BY <1>1, <1>2, <1>6, <3>1, <4>1
    <3>3. CASE j < k
      <4>1. y + Payload <= x
        BY <1>1, <1>5, <3>1, <3>3, PlaceOrder
      <4> QED
        BY ONLY <1>6, <3>2, <4>1
    <3>4. CASE k < j
      <4>1. x + Payload <= y
        BY <1>1, <1>5, <3>1, <3>4, PlaceOrder
      <4> QED
        BY ONLY <1>6, <3>2, <4>1
    <3> QED
      BY <1>1, <1>9, <3>3, <3>4
  <2>4. i \in (o + 1)..(o + (done + n)) <=>
           i \in (o + 1)..(o + done) \/ i \in (o + done + 1)..(o + (done + n))
    <3>1. i \in Int /\ o \in Nat /\ n \in Nat
      BY <1>1, <1>2, <1>3
    <3> QED
      BY ONLY <1>6, <3>1
  <2> QED
    BY ONLY <1>3, <1>5, <1>7, <2>2, <2>3, <2>4
<1> QED
  BY <1>8, <1>9

LEMMA PutWords ==
    ASSUME Inv, FirstTable, DataInv, NEW t \in Client, PutPage(t),
           NEW c, c = call[t], NEW n, n = Min({c.left, Room(c)}),
           NEW o, NEW s, NEW k, Progress(c, o, s, k)
    PROVE  /\ IsChain(s)'
           /\ Image(s)' = Written(content[c.base], o, (c.size - c.left) + n, c.val)
<1>0. c.op = "put"
  BY DEF PutPage
<1>1. ChainFor(s, c.base) /\ IsChain(s) /\ Len(s) \in Nat /\ Len(s) = Allocations[c.base]
  BY DEF Progress, ChainFor, IsChain
<1>2. IsChain(s)'
  BY <1>1, PutPageLinks, ChainAt, ChainStays
<1>3. PICK len, w : len = (c.size - c.left) + n /\ w = content[c.base]
  OBVIOUS
<1>4. ASSUME NEW i \in 1..(Len(s) * Payload)
      PROVE  Image(s)'[i] = IF i \in (o + 1)..(o + len) THEN Datum(c.val, i - o) ELSE w[i]
  <2>1. PICK j, l : j = PageNo(i) /\ l = WordNo(i)
    OBVIOUS
  <2>2. j \in 1..Len(s) /\ l \in 1..Payload /\ i = (j - 1) * Payload + l
    BY <1>1, <2>1, PlaceOf
  <2>3. Becomes(c, o, n, s, i)
    BY <2>2, OntoWords
  <2> QED
    BY <1>3, <2>3 DEF Becomes
<1>5. DOMAIN w = 1..(Len(s) * Payload)
  BY <1>1, <1>3, SizeOf DEF DataInv, ShownInv, ChainFor
<1>6. Written(w, o, len, c.val) =
         [i \in 1..(Len(s) * Payload) |-> IF i \in (o + 1)..(o + len)
                                          THEN Datum(c.val, i - o) ELSE w[i]]
  BY <1>5 DEF Written
<1>7. PICK v : v = Image(s)'
  OBVIOUS
<1>8. v = [i \in 1..(Len(s) * Payload) |-> v[i]]
  <2>1. v = [i \in 1..(Len(s) * Payload) |-> Sheet(s[PageNo(i)])'[WordNo(i)]]
    BY <1>7 DEF Image, ImageIn, Sheet
  <2> QED
    BY <2>1
<1>9. v = Written(w, o, len, c.val)
  BY <1>4, <1>6, <1>7, <1>8
<1> QED
  BY <1>2, <1>3, <1>7, <1>9

LEMMA ButSame ==
    ASSUME NEW n, NEW b, NEW d \in DOMAIN n \ {b}
    PROVE  d \in DOMAIN But(n, b) /\ But(n, b)[d] = n[d]
  BY DEF But, Restrict

\* What is shown of the allocations that a step leaves alone.
LEMMA ShownApart ==
    ASSUME Inv, FirstTable, scheme = "ready", NEW n, NEW own, Held(n, own),
           NEW b \in DOMAIN n, n[b] = Allocations[b], Shown(b), content' = content,
           \A q \in Mapped \ own : q \in Mapped' /\ Link(q)' = Link(q),
           \A q \in Mapped \ own : \A k \in 1..Payload : Sheet(q)'[k] = Sheet(q)[k]
    PROVE  Shown(b)'
<1>1. PICK s : ChainFor(s, b) /\ content[b] = Image(s)
  BY DEF Shown
<1>2. IsChain(s) /\ Len(s) = n[b] /\ s[1] = b
  BY <1>1 DEF ChainFor
<1>3. ToSet(s) \cap own = {}
  BY <1>2, HeldApart
<1>4. ToSet(s) \subseteq Mapped \ own
  BY <1>2, <1>3, ChainAt
<1> QED
  BY <1>1, <1>4, ShownKept

\* A call that holds the lock goes on, at the allocation b, if it is open.
LEMMA DataContinues ==
    ASSUME Inv, FirstTable, DataInv, NEW t \in Client, Inside(t), NEW where, NEW d,
           Continue(t, where, d), d.op = call[t].op, d.base = call[t].base,
           TaskInv(t)',
           \A b \in DOMAIN content : ~ Open(b) => Shown(b)',
           \A b : Open(b) => where = "free" \/ (where = "copy" /\ d.op = "put")
    PROVE  DataInv'
<1>1. /\ pc'[t] = where /\ call'[t] = d /\ content' = content
      /\ \A u \in Client \ {t} : pc'[u] = pc[u] /\ call'[u] = call[u]
  BY DEF Continue, Goto, Inv, LockInv, CallInv
<1>2. ASSUME NEW b, Open(b) PROVE Open(b)'
  <2>1. PICK u \in Client : /\ call[u].base = b
                            /\ pc[u] = "free" \/ (pc[u] = "copy" /\ call[u].op = "put")
    BY <1>2 DEF Open
  <2>2. u = t
    BY <2>1, Alone DEF Inv, Inside
  <2> QED
    BY <1>1, <1>2, <2>1, <2>2 DEF Open
<1>3. SizeInv'
  BY <1>1 DEF DataInv, ShownInv, SizeInv, Allocations
<1>4. ShownInv'
  BY <1>1, <1>2, <1>3 DEF ShownInv
<1>5. ASSUME NEW u \in Client \ {t} PROVE TaskInv(u)'
  <2>1. ~ Inside(u)
    BY Alone DEF Inv
  <2>2. \A w \in Client : call'[w].op = call[w].op /\ call'[w].base = call[w].base
    BY <1>1
  <2>3. TaskInv(u)
    BY DEF DataInv
  <2>4. call[u].op \in {"put", "get"} =>
           /\ call[u].base \in DOMAIN content'
           /\ Len(content'[call[u].base]) = Len(content[call[u].base])
           /\ \A w \in Client : call'[w].op = "free" => call'[w].base # call[u].base
    BY <1>1, <2>2, <2>3 DEF TaskInv, AccessInv, Freeing
  <2> QED
    BY <1>1, <2>1, <2>3, <2>4, TaskOutside
<1> QED
  BY <1>4, <1>5 DEF DataInv

\* What put_value leaves alone.
LEMMA PutApart ==
    ASSUME Inv, FirstTable, HeldInv, NEW t \in Client, PutPage(t),
           NEW c, c = call[t], NEW s, ChainFor(s, c.base), c.at \in ToSet(s)
    PROVE  /\ Held(But(Allocations, c.base), ToSet(s)) /\ scheme = "ready"
           /\ \A q \in Mapped \ ToSet(s) : q \in Mapped' /\ Link(q)' = Link(q)
           /\ \A q \in Mapped \ ToSet(s) : \A l \in 1..Payload : Sheet(q)'[l] = Sheet(q)[l]
<1>1. pc[t] = "copy" /\ Inside(t)
  BY DEF PutPage, At, Inside
<1>2. scheme = "ready"
  BY <1>1, Alone DEF Inv
<1>3. PICK n : n = Allocations
  OBVIOUS
<1>4. Held(n, {})
  BY <1>1, <1>3, HeldNow DEF Inv
<1>5. c.base \in DOMAIN n /\ IsChain(s) /\ Len(s) = n[c.base] /\ Len(s) > 0 /\ s[1] = c.base
  BY <1>3 DEF ChainFor, Allocations
<1>6. PICK r : IsChain(r) /\ Len(r) = n[c.base] /\ r[1] = c.base /\ Held(But(n, c.base), ToSet(r))
  BY <1>4, <1>5, HeldShrinks
<1>7. s = r
  BY <1>2, <1>5, <1>6, ChainOne
<1>8. \A q \in Mapped \ {c.at} : Sheet(q)' = Sheet(q)
  BY PutPageWords
<1> QED
  BY <1>2, <1>3, <1>6, <1>7, <1>8, PutPageLinks

LEMMA PutPageData ==
    ASSUME Inv, FirstTable, AllocInv, DataInv, NEW t \in Client, PutPage(t),
           ~ (call[t].left <= Room(call[t]))
    PROVE  DataInv'
<1>0. PICK c, f, n, d : /\ c = call[t] /\ f = FrameAt(c.at) /\ n = Min({c.left, Room(c)})
                        /\ d = Onto(c, f)
  OBVIOUS
<1>1. pc[t] = "copy" /\ c.op = "put" /\ c \in Call /\ Inside(t)
  BY <1>0 DEF PutPage, At, Inv, CallInv, Inside
<1>2. f = mem[0][c.at][2]
  BY <1>0, <1>1, CopyAhead DEF Inv
<1>3. /\ c.left \in Nat /\ c.size \in Nat /\ Room(c) \in Nat
  BY <1>1, FirstProperties, VmAssumption DEF Call, Room
<1>4. PICK a \in Accesses : \E s, k :
         a[2] = c.size /\ Progress(c, a[1], s, k) /\ Onward(c, a[1], s, k)
  BY <1>0, <1>1, CopyPlace
<1>5. PICK s, k : a[2] = c.size /\ Progress(c, a[1], s, k) /\ Onward(c, a[1], s, k)
  BY <1>4
<1>6. /\ c.base \in DOMAIN content /\ ~ Freeing(c.base)
      /\ a[1] \in Nat /\ a[1] + c.size <= Len(content[c.base])
      /\ ChainFor(s, c.base) /\ k \in 1..Len(s) /\ c.at = s[k]
  BY <1>5 DEF Progress
<1>7. /\ k + 1 \in 1..Len(s) /\ Link(c.at) = s[k + 1]
      /\ ((k + 1) - 1) * Payload = a[1] + (c.size - (c.left - Room(c)))
  <2>1. c.left > Room(c)
    BY <1>0, <1>3
  <2> QED
    BY <1>5, <2>1 DEF Onward
<1>8. Continue(t, "copy", d)
  BY <1>0 DEF PutPage
<1>9. /\ pc'[t] = "copy" /\ call'[t] = d /\ content' = content
      /\ \A u \in Client \ {t} : pc'[u] = pc[u] /\ call'[u] = call[u]
  BY <1>8 DEF Continue, Goto, Inv, LockInv, CallInv
<1>10. /\ d.op = c.op /\ d.base = c.base /\ d.size = c.size /\ d.val = c.val
       /\ d.at = Link(c.at) /\ d.off = 0 /\ d.left = c.left - Room(c)
  <2>1. Link(c.at) = mem[f][0][2]
    BY <1>2 DEF Link
  <2>2. /\ d.op = c.op /\ d.base = c.base /\ d.size = c.size /\ d.val = c.val
        /\ d.at = mem[f][0][2] /\ d.off = 0 /\ d.left = c.left - Room(c)
    <3>1. c \in Call /\ d = Onto(c, f)
      BY <1>0, <1>1
    <3> QED
      BY ONLY <3>1, OntoNext
  <2> QED
    BY ONLY <2>1, <2>2
<1>11. n = Room(c)
  <2>1. n \in {c.left, Room(c)} /\ n <= Room(c)
    BY <1>0, PutPageWords
  <2> QED
    BY <1>0, <1>3, <2>1
<1>12. IsChain(s)' /\ Image(s)' = Written(content[c.base], a[1], (c.size - c.left) + n, c.val)
  BY <1>0, <1>5, PutWords
<1>13. ChainFor(s, c.base)'
  <2>1. Allocations' = Allocations
    BY <1>9 DEF Allocations
  <2> QED
    BY <1>6, <1>9, <1>12, <2>1 DEF ChainFor
<1>14. (c.size - c.left) + n = d.size - d.left
  BY <1>3, <1>10, <1>11
<1>15. ((k + 1) - 1) * Payload + d.off = a[1] + (d.size - d.left)
  <2>1. a[1] + (c.size - (c.left - Room(c))) \in Int
    BY ONLY <1>3, <1>6
  <2> QED
    BY <1>7, <1>10, <2>1
<1>16. Image(s)' = Written(content'[d.base], a[1], d.size - d.left, d.val)
  BY <1>9, <1>10, <1>12, <1>14
<1>17. CopyAt(call[t], a[1])'
  <2>1. Written(content'[d.base], a[1], d.size - d.left, d.val)
           = Written(content[d.base], a[1], d.size - d.left, d.val)'
    BY DEF Written
  <2> QED
    BY <1>1, <1>7, <1>9, <1>10, <1>13, <1>15, <1>16, <2>1 DEF CopyAt
<1>18. ~ Freeing(c.base)'
  BY <1>0, <1>1, <1>6, <1>9, <1>10 DEF Freeing
<1>19. TaskInv(t)'
  <2>1. AccessInv(t)'
    BY <1>5, <1>6, <1>9, <1>10, <1>17, <1>18 DEF AccessInv
  <2> QED
    BY <1>1, <1>9, <1>10, <2>1 DEF TaskInv, TakingInv, CheckInv
<1>20. ASSUME NEW b \in DOMAIN content, ~ Open(b) PROVE Shown(b)'
  <2>1. b # c.base
    BY <1>0, <1>1, <1>20 DEF Open
  <2>2. Shown(b)
    BY <1>20 DEF DataInv, ShownInv
  <2>3. c.at \in ToSet(s)
    BY <1>6, ChainAt DEF ChainFor
  <2>4. PICK m, own : m = But(Allocations, c.base) /\ own = ToSet(s)
    OBVIOUS
  <2>5. /\ Held(m, own) /\ scheme = "ready"
        /\ \A q \in Mapped \ own : q \in Mapped' /\ Link(q)' = Link(q)
        /\ \A q \in Mapped \ own : \A l \in 1..Payload : Sheet(q)'[l] = Sheet(q)[l]
    BY <1>0, <1>6, <2>3, <2>4, PutApart DEF AllocInv
  <2>6. b \in DOMAIN m /\ m[b] = Allocations[b]
    BY <1>20, <2>1, <2>4, ButSame DEF Allocations
  <2> QED
    BY <1>9, <2>2, <2>5, <2>6, ShownApart
<1>21. d.op = call[t].op /\ d.base = call[t].base
  BY <1>0, <1>10
<1> QED
  BY <1>1, <1>8, <1>10, <1>19, <1>20, <1>21, DataContinues

LEMMA MapPageData ==
    ASSUME Inv, AllocInv, DataInv, FirstTable, FirstTable', NEW t \in Client, MapPage(t)
    PROVE  DataInv'
<1>0. PICK n, c, p, f, own, d :
           /\ n = Allocations /\ c = call[t] /\ p = LowestFree(vbits) /\ f = LowestFree(fbits)
           /\ own = TakenPages(c)
           /\ d = [c EXCEPT !.left = c.left - 1, !.words = Append(c.words, <<p, f>>)]
  OBVIOUS
<1>1. pc[t] = "map" /\ Inside(t) /\ Continue(t, "map", d)
  BY <1>0 DEF MapPage, At, Inside
<1>2. scheme = "ready" /\ c \in Call /\ c.op = "malloc"
  BY <1>0, <1>1, Alone DEF Inv, CallInv, CallAt
<1>3. d.op = c.op /\ d.base = c.base /\ d.size = c.size /\ d.words = Append(c.words, <<p, f>>)
  BY <1>0, <1>2 DEF Call
<1>4. /\ pc'[t] = "map" /\ call'[t] = d /\ content' = content
      /\ \A u \in Client \ {t} : pc'[u] = pc[u] /\ call'[u] = call[u]
  BY <1>1 DEF Continue, Goto, Inv, LockInv, CallInv
<1>5. Held(n, own)
  BY <1>0, <1>1, <1>2 DEF AllocInv, HeldInv
<1>6. /\ \A q \in Mapped : Link(q)' = Link(q) /\ q \in Mapped'
      /\ \A q \in Mapped : Sheet(q)' = Sheet(q)
      /\ \A k \in 1..Payload : Sheet(p)'[k] = NULL
  BY <1>0, MapPageLinks, MapPageWords
<1>7. ASSUME NEW b \in DOMAIN content PROVE Shown(b)'
  <2>1. Shown(b)
    BY <1>1, <1>7, NoneOpen
  <2>2. b \in DOMAIN n /\ n[b] = Allocations[b]
    BY <1>0, <1>7 DEF Allocations
  <2>3. /\ \A q \in Mapped \ own : q \in Mapped' /\ Link(q)' = Link(q)
        /\ \A q \in Mapped \ own : \A k \in 1..Payload : Sheet(q)'[k] = Sheet(q)[k]
    BY <1>6
  <2> QED
    BY <1>2, <1>4, <1>5, <2>1, <2>2, <2>3, ShownApart
<1>8. ASSUME NEW q \in TakenPages(d) PROVE q = p \/ q \in own
  <2>1. PICK w, e : w = c.words /\ e = Append(w, <<p, f>>)
    OBVIOUS
  <2>2. PICK j \in DOMAIN e : q = e[j][1]
    BY <1>3, <1>8, <2>1 DEF TakenPages
  <2>3. w \in Seq((Page \X Frame) \cup Word)
    BY <1>2, <2>1 DEF Call
  <2>4. \/ j \in DOMAIN w /\ e[j] = w[j]
        \/ e[j] = <<p, f>>
    BY <2>1, <2>2, <2>3
  <2> QED
    BY <1>0, <2>1, <2>2, <2>4 DEF TakenPages
<1>9. own \subseteq Mapped
  BY <1>5 DEF Held, Chains
<1>10. \A q \in TakenPages(d) : \A k \in 1..Payload : Sheet(q)'[k] = NULL
  <2>1. \A q \in own : \A k \in 1..Payload : Sheet(q)[k] = NULL
    BY <1>0, <1>1, <1>2 DEF DataInv, TaskInv, TakingInv
  <2>2. \A q \in own : \A k \in 1..Payload : Sheet(q)'[k] = NULL
    BY <1>6, <1>9, <2>1
  <2> QED
    BY <1>6, <1>8, <2>2
<1>11. TaskInv(t)'
  <2>1. d.size \in Requests
    BY <1>0, <1>2, <1>3 DEF DataInv, TaskInv, TakingInv
  <2>2. TakenPages(call[t])' = TakenPages(d)
    BY <1>4 DEF TakenPages
  <2>3. TakingInv(t)'
    BY <1>4, <1>10, <2>1, <2>2 DEF TakingInv
  <2> QED
    BY <1>2, <1>3, <1>4, <2>3 DEF TaskInv, AccessInv, CheckInv
<1>12. ASSUME NEW b, Open(b) PROVE FALSE
  <2>1. PICK u \in Client : pc[u] = "free" \/ (pc[u] = "copy" /\ call[u].op = "put")
    BY <1>12 DEF Open
  <2>2. u = t
    BY <1>1, <2>1, Alone DEF Inv, Inside
  <2> QED
    BY <1>1, <2>1, <2>2
<1> QED
  BY <1>0, <1>1, <1>3, <1>7, <1>11, <1>12, DataContinues

LEMMA FreePageData ==
    ASSUME Inv, AllocInv, DataInv, FirstTable, NEW t \in Client, FreePage(t)
    PROVE  DataInv'
<1>0. PICK c, p : c = call[t] /\ p = c.at
  OBVIOUS
<1>1. pc[t] = "free" /\ Inside(t) /\ c.left > 0
  BY <1>0 DEF FreePage, At, Inside
<1>2. scheme = "ready" /\ c \in Call /\ c.op = "free"
  BY <1>0, <1>1, Alone DEF Inv, CallInv, CallAt
<1>3. PICK at, d : d = [c EXCEPT !.at = at, !.left = c.left - 1] /\ Continue(t, "free", d)
  BY <1>0 DEF FreePage
<1>4. d.op = call[t].op /\ d.base = call[t].base /\ d.op = "free"
  BY <1>0, <1>2, <1>3 DEF Call
<1>5. /\ pc'[t] = "free" /\ call'[t] = d /\ content' = content
  BY <1>3 DEF Continue, Goto, Inv, LockInv, CallInv
<1>6. PICK s : Ahead(s, c) /\ Held(But(Allocations, c.base), ToSet(s))
  BY <1>0, <1>1, <1>2 DEF AllocInv, HeldInv
<1>7. p \in ToSet(s)
  <2>1. IsChain(s) /\ Len(s) = c.left /\ s[1] = p /\ c.left \in Nat
    BY <1>0, <1>1, <1>2, <1>6 DEF Ahead, Call
  <2>2. 1 \in 1..Len(s)
    BY <1>1, <2>1
  <2> QED
    BY <2>1, <2>2, ChainAt
<1>8. /\ \A q \in Mapped \ {p} : Link(q)' = Link(q)
      /\ p \in Mapped /\ Mapped' = Mapped \ {p}
  BY <1>0, FreePageLinks
<1>9. \A q \in Mapped \ {p} : Sheet(q)' = Sheet(q)
  BY <1>0, FreePageWords
<1>10. ASSUME NEW b \in DOMAIN content, ~ Open(b) PROVE Shown(b)'
  <2>1. b # c.base
    BY <1>0, <1>1, <1>10 DEF Open
  <2>2. Shown(b)
    BY <1>10 DEF DataInv, ShownInv
  <2>3. PICK m, own : m = But(Allocations, c.base) /\ own = ToSet(s)
    OBVIOUS
  <2>4. /\ Held(m, own)
        /\ \A q \in Mapped \ own : q \in Mapped' /\ Link(q)' = Link(q)
        /\ \A q \in Mapped \ own : \A l \in 1..Payload : Sheet(q)'[l] = Sheet(q)[l]
    BY <1>6, <1>7, <1>8, <1>9, <2>3
  <2>5. b \in DOMAIN m /\ m[b] = Allocations[b]
    BY <1>10, <2>1, <2>3, ButSame DEF Allocations
  <2> QED
    BY <1>2, <1>5, <2>2, <2>4, <2>5, ShownApart
<1>11. TaskInv(t)'
  BY <1>4, <1>5 DEF TaskInv, AccessInv, TakingInv, CheckInv
<1> QED
  BY <1>1, <1>3, <1>4, <1>10, <1>11, DataContinues

LEMMA InitialiseData ==
    ASSUME Inv, DataInv, NEW t \in Client, Initialise(t)
    PROVE  DataInv'
<1>1. /\ pc[t] = "initialising" /\ scheme = "partial" /\ UNCHANGED <<content, call>>
      /\ pc' = [pc EXCEPT ![t] = "initialised"]
  BY DEF Initialise, At, Goto, Inv, LockInv
<1>2. DOMAIN content = {}
  BY <1>1 DEF Inv, LockInv
<1>3. ShownInv'
  BY <1>1, <1>2 DEF ShownInv, SizeInv
<1>4. pc \in [Client -> Point] /\ \A u \in Client : ~ Inside(u)
  BY <1>1 DEF Inv, LockInv, LockExcludes, Inside
<1>5. ASSUME NEW u \in Client PROVE TaskInv(u)'
  <2>1. pc'[u] \notin {"map", "check"} /\ call'[u] = call[u]
    BY <1>1, <1>4 DEF Inside
  <2>2. call[u].op \notin {"put", "get"}
    BY <1>2 DEF DataInv, TaskInv, AccessInv
  <2>3. call[u].op = "malloc" => call[u].size \in Requests
    BY DEF DataInv, TaskInv, TakingInv
  <2> QED
    BY <2>1, <2>2, <2>3 DEF TaskInv, AccessInv, TakingInv, CheckInv
<1> QED
  BY <1>3, <1>5 DEF DataInv

-----------------------------------------------------------------------------
(* The steps that return.                                                  *)

LEMMA ReturnData ==
    ASSUME ~ Careless, Inv, Inv', FirstTable', AllocInv', DataInv, NEW t \in Client, Inside(t),
           NEW value, NEW n, Return(t, value, n), Allocations' = n,
           \A u \in Client \ {t} : call[u].op \in {"put", "get"} =>
              call[u].base \in DOMAIN n /\ n[call[u].base] = Allocations[call[u].base]
    PROVE  DataInv'
<1>1. /\ pc'[t] = "idle" /\ call'[t] = NoCall /\ content' = Contents(mem', n)
      /\ \A u \in Client \ {t} : pc'[u] = pc[u] /\ call'[u] = call[u]
  BY DEF Return, Goto, Inv, LockInv, CallInv
<1>2. SizeInv' /\ \A b \in DOMAIN content' : Shown(b)'
  BY ShownAfter DEF AllocInv
<1>3. ShownInv'
  BY <1>2 DEF ShownInv
<1>4. DOMAIN content' = DOMAIN n
  BY <1>1 DEF Contents
<1>5. TaskInv(t)'
  BY <1>1 DEF TaskInv, AccessInv, TakingInv, CheckInv, NoCall
<1>6. ASSUME NEW b \in DOMAIN n, b \in DOMAIN content, n[b] = Allocations[b]
      PROVE  Len(content'[b]) = Len(content[b])
  <2>1. Shown(b)'
    BY <1>2, <1>4, <1>6
  <2>2. PICK s : ChainFor(s, b)' /\ content'[b] = Image(s)'
    BY <2>1 DEF Shown
  <2>3. Len(s) = n[b]
    BY <2>2 DEF ChainFor
  <2>4. PICK v, l : v = Image(s)' /\ l = Len(s) * Payload
    OBVIOUS
  <2>5. Len(content[b]) = l /\ l \in Nat
    BY <1>6, <2>3, <2>4, SizeOf DEF DataInv, ShownInv
  <2>6. v = [i \in 1..l |-> Sheet(s[PageNo(i)])'[WordNo(i)]]
    BY <2>4 DEF Image, ImageIn, Sheet
  <2>7. Len(v) = l
    BY ONLY <2>5, <2>6
  <2> QED
    BY <2>2, <2>4, <2>5, <2>7
<1>7. ASSUME NEW u \in Client \ {t} PROVE TaskInv(u)'
  <2>1. ~ Inside(u) /\ TaskInv(u)
    BY Alone DEF Inv, DataInv
  <2>2. ASSUME NEW w \in Client, call'[w].op = "free"
        PROVE  call'[w].op = call[w].op /\ call'[w].base = call[w].base
    BY <1>1, <2>2 DEF NoCall
  <2>3. ASSUME call[u].op \in {"put", "get"}
        PROVE  /\ call[u].base \in DOMAIN content'
               /\ Len(content'[call[u].base]) = Len(content[call[u].base])
               /\ \A w \in Client : call'[w].op = "free" => call'[w].base # call[u].base
    <3>1. call[u].base \in DOMAIN content /\ ~ Freeing(call[u].base)
      BY <2>1, <2>3 DEF TaskInv, AccessInv
    <3>2. call[u].base \in DOMAIN n /\ n[call[u].base] = Allocations[call[u].base]
      BY <2>3
    <3> QED
      BY <1>4, <1>6, <2>2, <3>1, <3>2 DEF Freeing
  <2> QED
    BY <1>1, <2>1, <2>3, TaskOutside
<1> QED
  BY <1>3, <1>5, <1>7 DEF DataInv

\* What others see of the allocations that a call leaves alone.
LEMMA SeenApart ==
    ASSUME ~ Careless, Inv, FirstTable, Inv', FirstTable', NEW t \in Client, Inside(t),
           NEW value, NEW m, Return(t, value, m),
           NEW n, NEW own, Held(n, own), NEW b \in DOMAIN n, n[b] = Allocations[b],
           b \in DOMAIN m, m[b] = Allocations[b], Shown(b),
           \A q \in Mapped \ own : q \in Mapped' /\ Link(q)' = Link(q),
           \A q \in Mapped \ own : \A k \in 1..Payload : Sheet(q)'[k] = Sheet(q)[k]
    PROVE  content'[b] = content[b]
<1>1. PICK s : ChainFor(s, b) /\ content[b] = Image(s)
  BY DEF Shown
<1>2. IsChain(s) /\ Len(s) = n[b] /\ s[1] = b
  BY <1>1 DEF ChainFor
<1>3. scheme = "ready" /\ scheme' = "ready"
  BY Alone DEF Inv, Return
<1>4. ToSet(s) \cap own = {}
  BY <1>2, <1>3, HeldApart
<1>5. ToSet(s) \subseteq Mapped \ own
  BY <1>2, <1>4, ChainAt
<1>6. /\ \A q \in ToSet(s) : q \in Mapped' /\ Link(q)' = Link(q)
      /\ \A q \in ToSet(s) : \A k \in 1..Payload : Sheet(q)'[k] = Sheet(q)[k]
  BY <1>5
<1> QED
  BY <1>1, <1>3, <1>6, SeenSame

LEMMA SeenAll ==
    ASSUME ~ Careless, Inv, FirstTable, Inv', FirstTable', AllocInv, DataInv,
           NEW t \in Client, Inside(t),
           pc[t] \notin {"map", "free"}, pc[t] = "copy" => call[t].op = "get",
           NEW value, Return(t, value, Allocations), UNCHANGED <<vbits, mem>>
    PROVE  content' = content
<1>1. PICK n : n = Allocations
  OBVIOUS
<1>2. Held(n, {})
  BY <1>1, HeldNow DEF Inv, AllocInv
<1>3. DOMAIN n = DOMAIN content /\ content' = [b \in DOMAIN content |-> content'[b]]
  BY <1>1 DEF Allocations, Return, Contents
<1>4. ASSUME NEW b \in DOMAIN content PROVE content'[b] = content[b]
  <2>1. Shown(b)
    BY NoneOpen
  <2>2. Return(t, value, n) /\ n[b] = Allocations[b]
    BY <1>1
  <2>3. PICK own : own = {}
    OBVIOUS
  <2>4. /\ \A q \in Mapped \ own : q \in Mapped' /\ Link(q)' = Link(q)
        /\ \A q \in Mapped \ own : \A k \in 1..Payload : Sheet(q)'[k] = Sheet(q)[k]
    BY DEF Mapped, Link, Sheet
  <2>5. Held(n, own)
    BY <1>2, <2>3
  <2> QED
    BY <1>3, <1>4, <2>1, <2>2, <2>4, <2>5, SeenApart
<1>5. content = [b \in DOMAIN content |-> content[b]]
  BY DEF DataInv, ShownInv, SizeInv
<1> QED
  BY <1>3, <1>4, <1>5

LEMMA MallocFailsData ==
    ASSUME ~ Careless, Inv, FirstTable, Inv', FirstTable', AllocInv, AllocInv', DataInv,
           NEW t \in Client, MallocFails(t)
    PROVE  DataInv' /\ Abstract!Next
<1>1. /\ pc[t] = "allocate" /\ Inside(t) /\ UNCHANGED <<vbits, mem>>
      /\ Return(t, <<NULL>>, Allocations)
  BY DEF MallocFails, At, Inside, memory
<1>2. content' = content
  BY <1>1, SeenAll
<1>3. Allocations' = Allocations
  BY <1>2 DEF Allocations
<1>4. \A u \in Client \ {t} : call[u].op \in {"put", "get"} => call[u].base \in DOMAIN Allocations
  BY DEF DataInv, TaskInv, AccessInv, Allocations
<1>5. PICK n : n = Allocations
  OBVIOUS
<1>6. DataInv'
  BY <1>1, <1>3, <1>4, <1>5, ReturnData
<1>7. result' = <<t, <<NULL>>>>
  BY <1>1 DEF Return
<1>8. Abstract!MallocFails(t)
  BY <1>2, <1>7 DEF Abstract!MallocFails, Abstract!NULL, NULL
<1> QED
  BY <1>6, <1>8 DEF Abstract!Next

LEMMA GetPageReturns ==
    ASSUME ~ Careless, Inv, FirstTable, Inv', FirstTable', AllocInv, AllocInv', DataInv,
           NEW t \in Client, GetPage(t), call[t].left <= Room(call[t])
    PROVE  DataInv' /\ Abstract!Next
<1>0. PICK c, n, read : /\ c = call[t] /\ n = Min({c.left, Room(c)})
                        /\ read = c.words \o [i \in 1..n |-> mem[FrameAt(c.at)][c.off + i]]
  OBVIOUS
<1>1. /\ pc[t] = "copy" /\ c.op = "get" /\ c \in Call /\ Inside(t) /\ UNCHANGED <<vbits, mem>>
      /\ Return(t, read, Allocations)
  BY <1>0 DEF GetPage, At, Inside, Inv, CallInv
<1>2. content' = content
  BY <1>0, <1>1, SeenAll
<1>3. Allocations' = Allocations
  BY <1>2 DEF Allocations
<1>4. \A u \in Client \ {t} : call[u].op \in {"put", "get"} => call[u].base \in DOMAIN Allocations
  BY DEF DataInv, TaskInv, AccessInv, Allocations
<1>5. DataInv'
  <2>1. PICK m : m = Allocations
    OBVIOUS
  <2> QED
    BY <1>1, <1>3, <1>4, <2>1, ReturnData
<1>6. PICK a \in Accesses : \E s, k :
         a[2] = c.size /\ Progress(c, a[1], s, k) /\ Onward(c, a[1], s, k)
  BY <1>0, <1>1, CopyPlace
<1>7. PICK s, k : a[2] = c.size /\ Progress(c, a[1], s, k)
  BY <1>6
<1>8. /\ c.base \in DOMAIN content /\ a[1] \in Nat /\ a[1] + c.size <= Len(content[c.base])
      /\ c.size \in Nat /\ c.left \in Nat /\ Room(c) \in Nat
  BY <1>1, <1>7, FirstProperties, VmAssumption DEF Progress, Call, Room
<1>9. read = WordsOf(content[c.base], a[1], c.size)
  <2>1. /\ t \in Client /\ Inv /\ FirstTable /\ GetPage(t) /\ c = call[t]
        /\ n = Min({c.left, Room(c)}) /\ Progress(c, a[1], s, k)
    BY <1>0, <1>7
  <2>2. /\ c.words \o [i \in 1..n |-> mem[FrameAt(c.at)][c.off + i]]
              = WordsOf(content[c.base], a[1], (c.size - c.left) + n)
        /\ n \in Nat /\ n \in {c.left, Room(c)} /\ n <= c.left
    BY ONLY <2>1, GetWords, ZenonT(30)
  <2>3. n = c.left
    <3>1. c.left <= Room(c)
      BY <1>0
    <3> QED
      BY ONLY <1>8, <2>2, <3>1
  <2>4. (c.size - c.left) + n = c.size
    BY ONLY <1>8, <2>3
  <2> QED
    BY ONLY <1>0, <2>2, <2>4
<1>10. read = SubSeq(content[c.base], a[1] + 1, a[1] + a[2])
  <2>1. PICK w, o, l : w = content[c.base] /\ o = a[1] /\ l = a[2]
    OBVIOUS
  <2>2. o \in Nat /\ l \in Nat /\ read = WordsOf(w, o, l) /\ o + l <= Len(w)
    BY <1>7, <1>8, <1>9, <2>1
  <2>3. PICK len : len = Allocations[c.base] * Payload
    OBVIOUS
  <2>4. len \in Nat /\ Len(w) = len /\ w = [i \in 1..len |-> w[i]]
    BY <1>8, <2>1, <2>3, SizeOf DEF DataInv, ShownInv, SizeInv
  <2>5. read = SubSeq(w, o + 1, o + l)
    BY <2>2, <2>4, WordsOfPart
  <2> QED
    BY <2>1, <2>5
<1>11. Abstract!Get(t, c.base, a[1], a[2])
  BY <1>1, <1>2, <1>7, <1>8, <1>10 DEF Abstract!Get, Return
<1>12. c.base \in Page \ {0}
  <2>1. ChainFor(s, c.base)
    BY <1>7 DEF Progress
  <2>2. 1 \in 1..Len(s) /\ s[1] = c.base /\ IsChain(s)
    <3>1. IsChain(s) /\ Len(s) > 0 /\ s[1] = c.base
      BY <2>1 DEF ChainFor
    <3>2. Len(s) \in Nat
      BY <3>1 DEF IsChain
    <3> QED
      BY <3>1, <3>2
  <2>3. c.base \in Mapped
    BY <2>2, ChainAt
  <2> QED
    BY <1>1, <2>3 DEF Mapped, Call
<1> QED
  BY <1>5, <1>11, <1>12 DEF Abstract!Next

\* An allocation's address is a page in use.
LEMMA BaseIsPage ==
    ASSUME Inv, NEW s, NEW b, ChainFor(s, b)
    PROVE  b \in Page \ {0} /\ b \in ToSet(s)
<1>1. IsChain(s) /\ Len(s) > 0 /\ s[1] = b
  BY DEF ChainFor
<1>2. Len(s) \in Nat
  BY <1>1 DEF IsChain
<1>3. 1 \in 1..Len(s)
  BY <1>1, <1>2
<1>4. b \in Mapped /\ b \in ToSet(s)
  BY <1>1, <1>3, ChainAt
<1> QED
  BY <1>4 DEF Mapped, Inv, MemoryInv, TableInv

LEMMA PutPageReturns ==
    ASSUME ~ Careless, Inv, FirstTable, Inv', FirstTable', AllocInv, AllocInv', DataInv,
           NEW t \in Client, PutPage(t), call[t].left <= Room(call[t])
    PROVE  DataInv' /\ Abstract!Next
<1>0. PICK c, n, m : /\ c = call[t] /\ n = Min({c.left, Room(c)}) /\ m = Allocations
  OBVIOUS
<1>1. /\ pc[t] = "copy" /\ c.op = "put" /\ c \in Call /\ Inside(t) /\ c.val \in Values
      /\ Return(t, <<>>, m)
  BY <1>0 DEF PutPage, At, Inside, Inv, CallInv, CallAt
<1>2. scheme = "ready" /\ scheme' = "ready"
  BY <1>1, Alone DEF Inv, Return
<1>3. PICK a \in Accesses : \E s, k :
         a[2] = c.size /\ Progress(c, a[1], s, k) /\ Onward(c, a[1], s, k)
  BY <1>0, <1>1, CopyPlace
<1>4. PICK s, k : a[2] = c.size /\ Progress(c, a[1], s, k)
  BY <1>3
<1>5. /\ c.base \in DOMAIN content /\ a[1] \in Nat /\ a[1] + c.size <= Len(content[c.base])
      /\ ChainFor(s, c.base) /\ c.at \in ToSet(s)
      /\ c.size \in Nat /\ c.left \in Nat /\ Room(c) \in Nat
  <2>1. /\ c.base \in DOMAIN content /\ a[1] \in Nat /\ a[1] + c.size <= Len(content[c.base])
        /\ ChainFor(s, c.base) /\ k \in 1..Len(s) /\ c.at = s[k]
    BY <1>4 DEF Progress
  <2>2. c.at \in ToSet(s)
    BY <2>1, ChainAt DEF ChainFor
  <2> QED
    BY <1>1, <2>1, <2>2, FirstProperties, VmAssumption DEF Call, Room
<1>6. /\ m = [b \in DOMAIN content |-> m[b]] /\ DOMAIN m = DOMAIN content
      /\ content' = [b \in DOMAIN content |-> content'[b]]
  BY <1>0, <1>1 DEF Allocations, Return, Contents
<1>7. \A b \in DOMAIN m : m[b] \in Nat
  BY <1>0, <1>6, SizeOf DEF DataInv, ShownInv
<1>8. Allocations' = m
  BY <1>1, <1>6, <1>7, Returned
<1>9. \A u \in Client \ {t} : call[u].op \in {"put", "get"} =>
         call[u].base \in DOMAIN m /\ m[call[u].base] = Allocations[call[u].base]
  BY <1>0, <1>6 DEF DataInv, TaskInv, AccessInv
<1>10. DataInv'
  BY <1>1, <1>8, <1>9, ReturnData
<1>11. n = c.left
  <2>1. n \in {c.left, Room(c)} /\ n <= c.left
    BY <1>0, PutPageWords
  <2> QED
    BY <1>0, <1>5, <2>1
<1>12. IsChain(s)' /\ Image(s)' = Written(content[c.base], a[1], c.size, c.val)
  <2>1. IsChain(s)' /\ Image(s)' = Written(content[c.base], a[1], (c.size - c.left) + n, c.val)
    BY <1>0, <1>4, PutWords
  <2>2. (c.size - c.left) + n = c.size
    BY ONLY <1>5, <1>11
  <2> QED
    BY <2>1, <2>2
<1>13. content'[c.base] = Written(content[c.base], a[1], c.size, c.val)
  <2>1. c.base \in DOMAIN m /\ Len(s) = m[c.base] /\ Len(s) > 0 /\ s[1] = c.base
    BY <1>0, <1>5, <1>6 DEF ChainFor
  <2>2. content'[c.base] = Image(s)'
    BY <1>1, <1>2, <1>12, <2>1, ContentsNow
  <2> QED
    BY <1>12, <2>2
<1>14. ASSUME NEW b \in DOMAIN content \ {c.base} PROVE content'[b] = content[b]
  <2>1. ~ Open(b)
    <3> SUFFICES ASSUME Open(b) PROVE FALSE
      OBVIOUS
    <3>1. PICK u \in Client : /\ call[u].base = b
                              /\ pc[u] = "free" \/ (pc[u] = "copy" /\ call[u].op = "put")
      BY DEF Open
    <3>2. u = t
      BY <1>1, <3>1, Alone DEF Inv, Inside
    <3> QED
      BY <1>0, <1>14, <3>1, <3>2
  <2>2. Shown(b)
    BY <1>14, <2>1 DEF DataInv, ShownInv
  <2>3. PICK rest, own : rest = But(m, c.base) /\ own = ToSet(s)
    OBVIOUS
  <2>4. /\ Held(rest, own)
        /\ \A q \in Mapped \ own : q \in Mapped' /\ Link(q)' = Link(q)
        /\ \A q \in Mapped \ own : \A l \in 1..Payload : Sheet(q)'[l] = Sheet(q)[l]
    BY <1>0, <1>5, <2>3, PutApart DEF AllocInv
  <2>5. /\ b \in DOMAIN rest /\ rest[b] = Allocations[b]
        /\ b \in DOMAIN m /\ m[b] = Allocations[b]
    BY <1>0, <1>6, <1>14, <2>3, ButSame
  <2> QED
    BY <1>1, <2>2, <2>4, <2>5, SeenApart
<1>15. content' = [content EXCEPT ![c.base] = Written(content[c.base], a[1], c.size, c.val)]
  <2>1. content = [b \in DOMAIN content |-> content[b]]
    BY DEF DataInv, ShownInv, SizeInv
  <2> QED
    BY <1>5, <1>6, <1>13, <1>14, <2>1
<1>16. Abstract!Put(t, c.base, a[1], a[2], c.val)
  <2>1. Written(content[c.base], a[1], c.size, c.val)
           = [i \in DOMAIN content[c.base] |->
                 IF i \in (a[1] + 1)..(a[1] + a[2]) THEN Abstract!Datum(c.val, i - a[1])
                                                    ELSE content[c.base][i]]
    BY <1>4 DEF Written, Datum, Abstract!Datum
  <2>2. result' = <<t, <<>>>>
    BY <1>1 DEF Return
  <2> QED
    BY <1>4, <1>5, <1>15, <2>1, <2>2 DEF Abstract!Put
<1>17. c.base \in Page \ {0}
  BY <1>5, BaseIsPage
<1> QED
  BY <1>1, <1>10, <1>16, <1>17 DEF Abstract!Next

\* Nobody but the client in a call is at an allocation.
LEMMA OpenOnly ==
    ASSUME Inv, NEW t \in Client, Inside(t), NEW b, b # call[t].base
    PROVE  ~ Open(b)
<1> SUFFICES ASSUME Open(b) PROVE FALSE
  OBVIOUS
<1>1. PICK u \in Client : call[u].base = b /\ pc[u] \in {"free", "copy"}
  BY DEF Open
<1>2. u = t
  BY <1>1, Alone DEF Inv, Inside
<1> QED
  BY <1>1, <1>2

LEMMA FreeReturnsData ==
    ASSUME ~ Careless, Inv, FirstTable, Inv', FirstTable', AllocInv, AllocInv', DataInv,
           NEW t \in Client, FreeReturns(t)
    PROVE  DataInv' /\ Abstract!Next
<1>0. PICK n, c, m : n = Allocations /\ c = call[t] /\ m = But(n, c.base)
  OBVIOUS
<1>1. /\ pc[t] = "free" /\ Inside(t) /\ (c.left = 0 \/ c.at = 0) /\ UNCHANGED <<vbits, mem>>
      /\ scheme = "ready"
  BY <1>0, Alone DEF FreeReturns, At, Inside, memory, Inv
<1>2. c \in Call /\ c.left \in Nat /\ c.op = "free"
  BY <1>0, <1>1 DEF Inv, CallInv, CallAt, Call
<1>3. PICK s : Ahead(s, c) /\ Held(m, ToSet(s))
  BY <1>0, <1>1 DEF AllocInv, HeldInv
<1>4. Return(t, <<>>, m)
  BY <1>0 DEF FreeReturns, But
<1>5. /\ DOMAIN m = DOMAIN content \ {c.base} /\ m = [b \in DOMAIN m |-> m[b]]
      /\ \A b \in DOMAIN m : m[b] = n[b]
  BY <1>0 DEF But, Restrict, Allocations
<1>6. \A b \in DOMAIN m : m[b] \in Nat
  BY <1>3, HeldSizes
<1>7. Allocations' = m
  BY <1>4, <1>5, <1>6, Returned
<1>8. ASSUME NEW u \in Client \ {t}, call[u].op \in {"put", "get"}
      PROVE  call[u].base \in DOMAIN m /\ m[call[u].base] = Allocations[call[u].base]
  <2>1. call[u].base \in DOMAIN content /\ ~ Freeing(call[u].base)
    BY <1>8 DEF DataInv, TaskInv, AccessInv
  <2>2. call[u].base # c.base
    BY <1>0, <1>2, <2>1 DEF Freeing
  <2> QED
    BY <1>0, <1>5, <2>1, <2>2
<1>9. DataInv'
  BY <1>1, <1>4, <1>7, <1>8, ReturnData
<1>10. ASSUME NEW b \in DOMAIN m PROVE content'[b] = content[b]
  <2>1. b \in DOMAIN content /\ b # c.base
    BY <1>5, <1>10
  <2>2. Shown(b)
    BY <1>0, <1>1, <2>1, OpenOnly DEF DataInv, ShownInv
  <2>3. PICK own : own = ToSet(s)
    OBVIOUS
  <2>4. /\ Held(m, own)
        /\ \A q \in Mapped \ own : q \in Mapped' /\ Link(q)' = Link(q)
        /\ \A q \in Mapped \ own : \A k \in 1..Payload : Sheet(q)'[k] = Sheet(q)[k]
    BY <1>1, <1>3, <2>3 DEF Mapped, Link, Sheet
  <2>5. m[b] = Allocations[b]
    BY <1>0, <1>5, <1>10
  <2> QED
    BY <1>1, <1>4, <1>10, <2>2, <2>4, <2>5, SeenApart
<1>11. content' = Restrict(content, DOMAIN content \ {c.base})
  <2>1. content' = [b \in DOMAIN m |-> content'[b]]
    BY <1>4 DEF Return, Contents
  <2>2. content' = [b \in DOMAIN m |-> content[b]]
    BY <1>10, <2>1
  <2>3. \A b \in DOMAIN content \ {c.base} : b \in DOMAIN m
    BY <1>5
  <2> QED
    BY <1>5, <2>2, <2>3 DEF Restrict
<1>12. c.base \in DOMAIN content /\ c.base \in Page \ {0}
  <2>1. c.base \in DOMAIN content
    BY <1>0, <1>2 DEF AllocInv, UseInv, Allocations
  <2> QED
    BY <2>1 DEF DataInv, ShownInv, SizeInv
<1>13. Abstract!Free(t, c.base)
  <2>1. result' = <<t, <<>>>>
    BY <1>4 DEF Return
  <2> QED
    BY <1>11, <1>12, <2>1 DEF Abstract!Free, Abstract!Restrict, Restrict
<1> QED
  BY <1>9, <1>12, <1>13 DEF Abstract!Next

LEMMA MallocReturnsData ==
    ASSUME ~ Careless, Inv, FirstTable, Inv', FirstTable', AllocInv, AllocInv', DataInv,
           NEW t \in Client, MallocReturns(t)
    PROVE  DataInv' /\ Abstract!Next
<1>0. PICK c, n, s, b, m, own :
           /\ c = call[t] /\ n = Allocations /\ b = c.words[1][1]
           /\ s = [j \in 1..Len(c.words) |-> c.words[j][1]]
           /\ m = With(n, b, Len(s)) /\ own = TakenPages(c)
  OBVIOUS
<1>1. /\ pc[t] = "map" /\ Inside(t) /\ scheme = "ready" /\ c \in Call /\ c.op = "malloc"
      /\ TakenInv(c)
  BY <1>0, Alone DEF MallocReturns, At, Inside, Inv, CallInv, CallAt, MemoryInv, ChainInv
<1>2. Held(n, own) /\ \A p \in own : Link(p) = 0
  BY <1>0, <1>1 DEF AllocInv, HeldInv
<1>3. /\ IsChain(s)' /\ Len(s) = Pages(c.size) /\ Len(s) > 0 /\ ToSet(s) = own /\ s[1] = b
      /\ Mapped' = Mapped /\ \A q \in Mapped \ own : Link(q)' = Link(q)
  BY <1>0, <1>2, MallocLinks
<1>4. Len(s) \in Nat /\ Len(s) = Len(c.words)
  <2>1. s \in Seq(Page)
    BY <1>3 DEF IsChain
  <2>2. c.words \in Seq((Page \X Frame) \cup Word)
    BY <1>1 DEF Call
  <2> QED
    BY <1>0, <2>1, <2>2
<1>5. Return(t, <<<<"page", b>>>>, m)
  BY <1>0, <1>4 DEF MallocReturns
<1>6. Held(n, ToSet(s))'
  <2>1. own \subseteq Mapped
    BY <1>2 DEF Held, Chains
  <2>2. Mapped' = (Mapped \ own) \cup own /\ own \cap (Mapped \ own) = {}
    BY <1>3, <2>1
  <2>3. Held(n, own)'
    BY <1>2, <1>3, <2>2, HeldStays
  <2> QED
    BY <1>3, <2>3
<1>7. b \notin DOMAIN n
  BY <1>3, <1>6, HeldGrows
<1>8. /\ DOMAIN m = DOMAIN n \cup {b} /\ m = [d \in DOMAIN m |-> m[d]] /\ m[b] = Len(s)
      /\ \A d \in DOMAIN n : m[d] = n[d]
  BY <1>0, <1>7 DEF With
<1>9. \A d \in DOMAIN m : m[d] \in Nat
  BY <1>2, <1>4, <1>8, HeldSizes
<1>10. Allocations' = m
  BY <1>5, <1>8, <1>9, Returned
<1>11. DOMAIN n = DOMAIN content
  BY <1>0 DEF Allocations
<1>12. DataInv'
  <2>1. \A u \in Client \ {t} : call[u].op \in {"put", "get"} =>
           call[u].base \in DOMAIN m /\ m[call[u].base] = Allocations[call[u].base]
    BY <1>0, <1>8, <1>11 DEF DataInv, TaskInv, AccessInv
  <2> QED
    BY <1>1, <1>5, <1>10, <2>1, ReturnData
<1>13. \A q \in Mapped : \A k \in 1..Payload : Sheet(q)'[k] = Sheet(q)[k]
  BY MallocWords
<1>14. ASSUME NEW d \in DOMAIN content PROVE content'[d] = content[d]
  <2>1. ~ Open(d)
    <3> SUFFICES ASSUME Open(d) PROVE FALSE
      OBVIOUS
    <3>1. PICK u \in Client : pc[u] \in {"free", "copy"}
      BY DEF Open
    <3>2. u = t
      BY <1>1, <3>1, Alone DEF Inv, Inside
    <3> QED
      BY <1>1, <3>1, <3>2
  <2>2. Shown(d)
    BY <1>14, <2>1 DEF DataInv, ShownInv
  <2>3. /\ \A q \in Mapped \ own : q \in Mapped' /\ Link(q)' = Link(q)
        /\ \A q \in Mapped \ own : \A k \in 1..Payload : Sheet(q)'[k] = Sheet(q)[k]
    BY <1>3, <1>13
  <2>4. d \in DOMAIN n /\ n[d] = Allocations[d] /\ d \in DOMAIN m /\ m[d] = Allocations[d]
    BY <1>0, <1>8, <1>11, <1>14
  <2> QED
    BY <1>1, <1>2, <1>5, <2>2, <2>3, <2>4, SeenApart
<1>15. content'[b] = [i \in 1..(Pages(c.size) * Payload) |-> NULL]
  <2>1. content'[b] = Image(s)'
    <3>1. b \in DOMAIN m /\ Len(s) = m[b] /\ scheme' = "ready"
      BY <1>1, <1>5, <1>8 DEF Return
    <3> QED
      BY <1>3, <1>5, <3>1, ContentsNow
  <2>2. ASSUME NEW i \in 1..(Len(s) * Payload)
        PROVE  Sheet(s[PageNo(i)])'[WordNo(i)] = NULL
    <3>1. PageNo(i) \in 1..Len(s) /\ WordNo(i) \in 1..Payload
      BY <1>4, <2>2, PlaceOf
    <3>2. PICK q, k : q = s[PageNo(i)] /\ k = WordNo(i)
      OBVIOUS
    <3>3. q \in own /\ q \in Mapped /\ k \in 1..Payload
      <4>1. PICK j \in 1..Len(s) : j = PageNo(i)
        BY <3>1
      <4>2. q = c.words[j][1] /\ j \in DOMAIN c.words
        BY <1>0, <1>1, <1>4, <3>2, <4>1 DEF Call
      <4> QED
        BY <1>0, <1>1, <3>1, <3>2, <4>2 DEF TakenPages, TakenInv
    <3>4. Sheet(q)[k] = NULL
      BY <1>0, <1>1, <3>3 DEF DataInv, TaskInv, TakingInv
    <3>5. Sheet(q)'[k] = Sheet(q)[k]
      BY <1>13, <3>3
    <3> QED
      BY <3>2, <3>4, <3>5
  <2>3. Image(s)' = [i \in 1..(Len(s) * Payload) |-> Sheet(s[PageNo(i)])'[WordNo(i)]]
    BY DEF Image, ImageIn, Sheet
  <2>4. Image(s)' = [i \in 1..(Len(s) * Payload) |-> NULL]
    BY <2>2, <2>3
  <2> QED
    BY <1>3, <2>1, <2>4
<1>16. content' = [d \in DOMAIN content \cup {b} |->
                      IF d \in DOMAIN content THEN content[d]
                      ELSE [i \in 1..(Pages(c.size) * Payload) |-> NULL]]
  <2>1. content' = [d \in DOMAIN content \cup {b} |-> content'[d]]
    BY <1>5, <1>8, <1>11 DEF Return, Contents
  <2>2. \A d \in DOMAIN content \cup {b} : d \in DOMAIN content \/ d = b
    OBVIOUS
  <2>3. PICK w : w = [i \in 1..(Pages(c.size) * Payload) |-> NULL]
    OBVIOUS
  <2>4. \A d \in DOMAIN content \cup {b} :
           content'[d] = IF d \in DOMAIN content THEN content[d] ELSE w
    BY <1>7, <1>11, <1>14, <1>15, <2>2, <2>3
  <2>5. content' = [d \in DOMAIN content \cup {b} |->
                       IF d \in DOMAIN content THEN content[d] ELSE w]
    BY <2>1, <2>4
  <2> QED
    BY <2>3, <2>5
<1>17. Abstract!Malloc(t, b, Pages(c.size))
  <2>1. result' = <<t, <<<<"page", b>>>>>>
    BY <1>5 DEF Return
  <2>2. PICK w : w = [i \in 1..(Pages(c.size) * Payload) |-> NULL]
    OBVIOUS
  <2>3. content' = [d \in DOMAIN content \cup {b} |->
                       IF d \in DOMAIN content THEN content[d] ELSE w]
    BY <1>16, <2>2
  <2>4. w = [i \in 1..(Pages(c.size) * Payload) |-> Abstract!NULL]
    BY <2>2 DEF Abstract!NULL, NULL
  <2> QED
    BY <1>7, <1>11, <2>1, <2>3, <2>4 DEF Abstract!Malloc
<1>18. b \in Page \ {0}
  <2>1. DOMAIN content' \subseteq Page \ {0}
    BY <1>12 DEF DataInv, ShownInv, SizeInv
  <2>2. b \in DOMAIN content'
    BY <1>16
  <2> QED
    BY <2>1, <2>2
<1>19. Pages(c.size) \in {Pages(size) : size \in Requests \ {0}}
  <2>1. c.size \in Requests /\ c.size > 0
    BY <1>0, <1>1 DEF DataInv, TaskInv, TakingInv, TakenInv
  <2> QED
    BY <2>1
<1> QED
  BY <1>12, <1>17, <1>18, <1>19 DEF Abstract!Next

-----------------------------------------------------------------------------
(* Every step.                                                             *)

LEMMA DataInit == Init => DataInv /\ Abstract!Init
<1> SUFFICES ASSUME Init PROVE DataInv /\ Abstract!Init
  OBVIOUS
<1>1. /\ content = <<>> /\ result = <<>>
      /\ \A t \in Client : pc[t] = "idle" /\ call[t] = NoCall
  BY DEF Init
<1>2. DOMAIN content = {} /\ content = [b \in DOMAIN content |-> content[b]]
  BY <1>1
<1>3. ShownInv
  BY <1>2 DEF ShownInv, SizeInv
<1>4. \A t \in Client : TaskInv(t)
  BY <1>1 DEF TaskInv, AccessInv, TakingInv, CheckInv, NoCall
<1> QED
  BY <1>1, <1>3, <1>4 DEF DataInv, Abstract!Init

\* The process ends, or nothing happens.
LEMMA DataStill ==
    ASSUME DataInv, UNCHANGED <<vbits, mem, pc, call, content>>
    PROVE  DataInv'
<1>1. ASSUME NEW t \in Client PROVE TaskInv(t)'
  <2>1. TaskInv(t) /\ pc'[t] = pc[t] /\ call'[t] = call[t]
    BY DEF DataInv
  <2>2. call[t].op \in {"put", "get"} =>
           \A w \in Client : call'[w].op = "free" => call'[w].base # call[t].base
    BY <2>1 DEF TaskInv, AccessInv, Freeing
  <2> QED
    BY <2>1, <2>2, TaskSame
<1>2. SizeInv'
  BY DEF DataInv, ShownInv, SizeInv, Allocations
<1>3. ASSUME NEW b \in DOMAIN content PROVE (Open(b) \/ Shown(b))'
  <2>1. CASE Open(b)
    BY <2>1 DEF Open
  <2>2. CASE Shown(b)
    BY <2>2, ChainForSame DEF Shown
  <2> QED
    BY <1>3, <2>1, <2>2 DEF DataInv, ShownInv
<1> QED
  BY <1>1, <1>2, <1>3 DEF DataInv, ShownInv

LEMMA ClientData ==
    ASSUME ~ Careless, Inv, DataInv, NEW t \in Client, ClientStep(t)
    PROVE  DataInv' /\ UNCHANGED <<content, result>>
<1>1. CASE \E size \in Requests : MallocCall(t, size)
  BY <1>1, MallocCallData DEF MallocCall
<1>2. CASE \E b \in Page, size \in Requests : FreeCall(t, b, size)
  BY <1>2, FreeCallData DEF FreeCall
<1>3. CASE PutCall(t) \/ GetCall(t)
  <2>1. \E op \in {"put", "get"}, b \in Page, a \in Accesses : \E v : AccessCall(t, op, b, a, v)
    BY <1>3 DEF PutCall, GetCall
  <2> QED
    BY <2>1, AccessCallData DEF AccessCall
<1> QED
  BY <1>1, <1>2, <1>3, FreeNothingData DEF ClientStep

\* A step in a call is one of the memory that clients see, or they see nothing of it.
LEMMA LibraryData ==
    ASSUME ~ Careless, Inv, FirstTable, Inv', FirstTable', AllocInv, AllocInv', DataInv,
           NEW t \in Client, LibraryStep(t)
    PROVE  DataInv' /\ (Abstract!Next \/ UNCHANGED <<content, result>>)
<1>1. CASE Spin(t) \/ Unspin(t) \/ StrayGet(t)
  BY <1>1, MoveData DEF Spin, Unspin, StrayGet
<1>2. CASE Initialise(t)
  BY <1>2, InitialiseData DEF Initialise
<1>3. CASE Lock(t)
  BY <1>3, LockData DEF Lock
<1>4. CASE MallocFails(t)
  BY <1>4, MallocFailsData
<1>5. CASE MallocFits(t)
  BY <1>5, MallocFitsData DEF MallocFits, Continue
<1>6. CASE MapPage(t)
  BY <1>6, MapPageData DEF MapPage, Continue
<1>7. CASE MallocReturns(t)
  BY <1>7, MallocReturnsData
<1>8. CASE CheckPage(t)
  BY <1>8, CheckPageData DEF CheckPage, Continue
<1>9. CASE CheckPasses(t)
  BY <1>9, CheckPassesData DEF CheckPasses, Continue
<1>10. CASE CheckFails(t) \/ CheckFailsInGet(t)
  BY <1>10, CheckNeverFails
<1>11. CASE FreePage(t)
  BY <1>11, FreePageData DEF FreePage, Continue
<1>12. CASE FreeReturns(t)
  BY <1>12, FreeReturnsData
<1>13. CASE PutPage(t)
  <2>1. CASE call[t].left <= Room(call[t])
    BY <1>13, <2>1, PutPageReturns
  <2>2. CASE ~ (call[t].left <= Room(call[t]))
    BY <1>13, <2>2, PutPageData DEF PutPage, Continue
  <2> QED
    BY <2>1, <2>2
<1>14. CASE GetPage(t)
  <2>1. CASE call[t].left <= Room(call[t])
    BY <1>14, <2>1, GetPageReturns
  <2>2. CASE ~ (call[t].left <= Room(call[t]))
    BY <1>14, <2>2, GetPageData DEF GetPage, Continue
  <2> QED
    BY <2>1, <2>2
<1> QED
  BY <1>1, <1>2, <1>3, <1>4, <1>5, <1>6, <1>7, <1>8, <1>9, <1>10, <1>11, <1>12, <1>13, <1>14
     DEF LibraryStep

LEMMA DataNext ==
    ASSUME ~ Careless, Inv, FirstTable, FirstTable', AllocInv, DataInv, [Next]_vars
    PROVE  DataInv' /\ (Abstract!Next \/ UNCHANGED <<content, result>>)
<1>1. Inv' /\ AllocInv'
  BY InvNext, AllocNext
<1>2. CASE \E t \in Client : ClientStep(t)
  BY <1>2, ClientData
<1>3. CASE \E t \in Client : LibraryStep(t)
  BY <1>1, <1>3, LibraryData
<1>4. CASE Exit \/ UNCHANGED vars
  <2>1. UNCHANGED <<vbits, mem, pc, call, content, result>>
    BY <1>4 DEF Exit, vars, memory
  <2> QED
    BY <2>1, DataStill
<1> QED
  BY <1>2, <1>3, <1>4 DEF Next, Halted

\* What a call finds when it has passed its checks is there when it comes to it.
GetsHold == \A t \in Client : pc[t] # "unlocked"

LEMMA GetsNext ==
    ASSUME Inv, FirstTable, DataInv, GetsHold, [Next]_vars
    PROVE  GetsHold'
<1> USE DEF GetsHold
<1>0. pc \in [Client -> Point]
  BY DEF Inv, LockInv
<1>1. ASSUME NEW t \in Client, NEW where, where # "unlocked", Goto(t, where)
      PROVE  GetsHold'
  BY <1>0, <1>1 DEF Goto
<1>2. ASSUME NEW t \in Client, LibraryStep(t) PROVE GetsHold'
  <2>1. ~ CheckFailsInGet(t) /\ ~ StrayGet(t)
    BY CheckNeverFails DEF StrayGet, At
  <2> QED
    BY <1>1, <1>2, <2>1 DEF LibraryStep, Spin, Initialise, Unspin, Lock, MallocFails,
       MallocFits, MapPage, MallocReturns, CheckPage, CheckPasses, CheckFails, FreePage,
       FreeReturns, PutPage, GetPage, Return, Continue
<1>3. ASSUME NEW t \in Client, ClientStep(t) PROVE GetsHold'
  BY <1>1, <1>3 DEF ClientStep, MallocCall, FreeCall, FreeNothing, PutCall, GetCall,
     AccessCall, Begin
<1>4. CASE Exit \/ UNCHANGED vars
  BY <1>4 DEF Exit, vars
<1> QED
  BY <1>2, <1>3, <1>4 DEF Next, Halted

(* Where clients keep to what they got, a call between its lock and its     *)
(* unlock has the library to itself, and finds it initialised, however many *)
(* threads race with the first t_malloc; and no get_value comes to unlock a *)
(* second time (my_vm.c:331-341, 639-645).  Careless clients can make it do *)
(* so, and free while the library is half initialised.                      *)
THEOREM LockCorrect ==
    ASSUME ~ Careless
    PROVE  Spec /\ []FirstTable => [](LockExcludes /\ GetsHold)
<1>1. Inv /\ FirstTable /\ FirstTable' /\ AllocInv /\ [Next]_vars => AllocInv'
  BY AllocNext
<1>2. Inv /\ FirstTable /\ FirstTable' /\ AllocInv /\ DataInv /\ [Next]_vars => DataInv'
  BY DataNext
<1>3. Inv /\ FirstTable /\ DataInv /\ GetsHold /\ [Next]_vars => GetsHold'
  BY GetsNext
<1>4. Init => DataInv /\ GetsHold
  BY DataInit DEF Init, GetsHold
<1>5. Inv => LockExcludes
  BY DEF Inv, LockInv
<1> QED
  BY <1>1, <1>2, <1>3, <1>4, <1>5, AllocInit, Invariant, PTL DEF Spec

(* And so in every behavior of a memory of one table (my_vm.c:331-341,      *)
(* 639-645).                                                                *)
THEOREM OneTableLock ==
    ASSUME Tables = 1, ~ Careless
    PROVE  Spec => [](LockExcludes /\ GetsHold)
<1>1. Spec => []FirstTable
  BY OneTable, PTL
<1> QED
  BY <1>1, LockCorrect, PTL

(* Clients that keep to their allocations see an ordinary memory: every     *)
(* step of the library is one of it, or they see nothing of it.  t_malloc   *)
(* hands out zeroed words that are nobody else's (my_vm.c:358-392), and     *)
(* get_value returns what put_value wrote last, across the links from page  *)
(* to page and whatever happens to other allocations meanwhile              *)
(* (my_vm.c:491-555, 558-646).                                              *)
THEOREM MemoryImplemented ==
    ASSUME ~ Careless
    PROVE  Spec /\ []FirstTable => ImplementsMemory
<1>1. Inv /\ FirstTable /\ FirstTable' /\ AllocInv /\ [Next]_vars => AllocInv'
  BY AllocNext
<1>2. Inv /\ FirstTable /\ FirstTable' /\ AllocInv /\ DataInv /\ [Next]_vars
      => DataInv' /\ [Abstract!Next]_<<content, result>>
  BY DataNext
<1>3. Init => DataInv /\ Abstract!Init
  BY DataInit
<1> QED
  BY <1>1, <1>2, <1>3, AllocInit, Invariant, PTL
     DEF Spec, ImplementsMemory, Abstract!Spec, Abstract!vars

(* And so in every behavior of a memory of one table (my_vm.c:358-392,      *)
(* 491-555, 558-646).                                                       *)
THEOREM OneTableMemory ==
    ASSUME Tables = 1, ~ Careless
    PROVE  Spec => ImplementsMemory
<1>1. Spec => []FirstTable
  BY OneTable, PTL
<1> QED
  BY <1>1, MemoryImplemented, PTL
=============================================================================
