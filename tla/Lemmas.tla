------------------------------- MODULE Lemmas -------------------------------
(***************************************************************************)
(* Facts about numbers and sets that the proofs of several components use. *)
(* Induction is stated over sets, without operators as parameters, so that *)
(* a proof can cite it: what is to be proved of every number becomes the   *)
(* set of numbers it holds for.                                            *)
(***************************************************************************)
EXTENDS Integers, SequencesExt, SequenceTheorems, FiniteSetTheorems, TLAPS

\* Every non-empty set of natural numbers has a least element.
LEMMA LeastElement ==
    ASSUME NEW T \in SUBSET Nat, T # {}
    PROVE  \E x \in T : \A y \in T : x <= y
<1> DEFINE R == {pair \in Nat \X Nat : pair[1] < pair[2]}
<1>1. IsWellFoundedOn(R, Nat)
  BY NatLessThanWellFounded DEF OpToRel
<1>2. \A x, y \in Nat : x < y => <<x, y>> \in R
  OBVIOUS
<1> HIDE DEF R
<1>3. PICK x \in T : \A y \in T : <<y, x>> \notin R
  BY <1>1, WFMin
<1>4. ASSUME NEW y \in T PROVE x <= y
  <2>1. ~ (y < x)
    BY <1>2, <1>3
  <2> QED
    BY <2>1
<1> QED
  BY <1>3, <1>4

\* Induction over the natural numbers.
LEMMA InductionOverNat ==
    ASSUME NEW S, 0 \in S, \A n \in Nat : n \in S => n + 1 \in S
    PROVE  Nat \subseteq S
<1> SUFFICES ASSUME Nat \ S # {} PROVE FALSE
  OBVIOUS
<1>1. PICK x \in Nat \ S : \A y \in Nat \ S : x <= y
  BY LeastElement
<1>2. x - 1 \in Nat /\ x - 1 \in S
  BY <1>1
<1> QED
  BY <1>1, <1>2

\* What Min returns.
LEMMA MinProperties ==
    ASSUME NEW S \in SUBSET Nat, S # {}
    PROVE  Min(S) \in S /\ \A x \in S : Min(S) <= x
  BY LeastElement DEF Min

-----------------------------------------------------------------------------
\* Quotient and remainder.
LEMMA Division ==
    ASSUME NEW a \in Nat, NEW d \in Nat \ {0}
    PROVE  /\ a \div d \in Nat /\ a % d \in 0..(d - 1)
           /\ a % d = a - d * (a \div d)
<1>1. a \div d \in Int /\ a % d \in 0..(d - 1)
  OBVIOUS
<1>2. a % d = a - d * (a \div d)
  OBVIOUS
<1>3. a \div d >= 0
  <2> SUFFICES ASSUME a \div d <= -1 PROVE FALSE
    BY <1>1
  <2>1. d * (a \div d) <= -d
    BY <1>1
  <2> QED
    BY <1>1, <1>2, <2>1
<1> QED
  BY <1>1, <1>2, <1>3

\* One divisor more, one more.
LEMMA DivisionStep ==
    ASSUME NEW a \in Nat, NEW d \in Nat \ {0}
    PROVE  (a + d) \div d = a \div d + 1 /\ (a + d) % d = a % d
<1> DEFINE b == a + d
<1>1. b \in Nat /\ b >= d /\ b - d = a
  OBVIOUS
<1>2. (b - d) \div d = b \div d - 1
  BY <1>1
<1>3. b \div d = a \div d + 1
  BY <1>1, <1>2
<1>4. b % d = b - d * (b \div d) /\ a % d = a - d * (a \div d)
  BY <1>1, Division
<1>5. a \div d \in Int
  BY Division
<1>6. d * (a \div d + 1) = d * (a \div d) + d
  BY <1>5
<1> QED
  BY <1>3, <1>4, <1>5, <1>6

\* Less than a divisor.
LEMMA DivisionSmall ==
    ASSUME NEW a \in Nat, NEW d \in Nat \ {0}, a < d
    PROVE  a \div d = 0 /\ a % d = a
  OBVIOUS

-----------------------------------------------------------------------------
\* What RemoveAt leaves.
LEMMA RemoveAtKeeps ==
    ASSUME NEW S, NEW list \in Seq(S), NEW n \in 1..Len(list)
    PROVE  /\ RemoveAt(list, n) \in Seq(S)
           /\ Len(RemoveAt(list, n)) = Len(list) - 1
           /\ \A i \in 1..(Len(list) - 1) :
                 RemoveAt(list, n)[i] = IF i < n THEN list[i] ELSE list[i + 1]
<1> DEFINE front == SubSeq(list, 1, n - 1)
           back  == SubSeq(list, n + 1, Len(list))
<1>1. /\ front \in Seq(S) /\ Len(front) = n - 1
      /\ \A i \in 1..(n - 1) : front[i] = list[i]
  OBVIOUS
<1>2. /\ back \in Seq(S) /\ Len(back) = Len(list) - n
      /\ \A i \in 1..(Len(list) - n) : back[i] = list[i + n]
  OBVIOUS
<1>3. RemoveAt(list, n) = front \o back
  BY DEF RemoveAt
<1> HIDE DEF front, back
<1>4. /\ front \o back \in Seq(S)
      /\ Len(front \o back) = Len(list) - 1
  BY <1>1, <1>2
<1>5. ASSUME NEW i \in 1..(Len(list) - 1)
      PROVE  (front \o back)[i] = IF i < n THEN list[i] ELSE list[i + 1]
  <2>1. CASE i < n
    BY <1>1, <1>2, <2>1
  <2>2. CASE i >= n
    <3>1. (front \o back)[i] = back[i - (n - 1)]
      BY <1>1, <1>2, <2>2
    <3>2. i - (n - 1) \in 1..(Len(list) - n)
      BY <2>2
    <3>3. back[i - (n - 1)] = list[(i - (n - 1)) + n]
      BY <1>2, <3>2
    <3>4. (i - (n - 1)) + n = i + 1
      OBVIOUS
    <3> QED
      BY <2>2, <3>1, <3>3, <3>4
  <2>3. i < n \/ i >= n
    OBVIOUS
  <2> QED
    BY <2>1, <2>2, <2>3
<1> QED
  BY <1>3, <1>4, <1>5

\* What InsertAt returns; at the end, it is Append.
LEMMA InsertAtKeeps ==
    ASSUME NEW S, NEW list \in Seq(S), NEW e \in S, NEW n \in 1..Len(list)
    PROVE  /\ InsertAt(list, n, e) \in Seq(S)
           /\ Len(InsertAt(list, n, e)) = Len(list) + 1
           /\ \A i \in 1..(Len(list) + 1) :
                 InsertAt(list, n, e)[i] =
                     IF i < n THEN list[i] ELSE IF i = n THEN e ELSE list[i - 1]
<1> DEFINE front == SubSeq(list, 1, n - 1)
           back  == SubSeq(list, n, Len(list))
           one   == <<e>>
<1>1. /\ front \in Seq(S) /\ Len(front) = n - 1
      /\ \A i \in 1..(n - 1) : front[i] = list[i]
  OBVIOUS
<1>2. /\ back \in Seq(S) /\ Len(back) = Len(list) - n + 1
      /\ \A i \in 1..(Len(list) - n + 1) : back[i] = list[i + n - 1]
  OBVIOUS
<1>3. InsertAt(list, n, e) = (front \o one) \o back
  BY DEF InsertAt
<1>4. one \in Seq(S) /\ Len(one) = 1 /\ one[1] = e
  OBVIOUS
<1> HIDE DEF front, back, one
<1> DEFINE left == front \o one
<1>5. /\ left \in Seq(S) /\ Len(left) = n /\ left[n] = e
      /\ \A i \in 1..(n - 1) : left[i] = list[i]
  <2>1. n - 1 \in Nat /\ (n - 1) + 1 = n /\ n - (n - 1) = 1
    OBVIOUS
  <2>2. /\ left \in Seq(S) /\ Len(left) = Len(front) + Len(one)
        /\ \A i \in 1..(Len(front) + Len(one)) :
              left[i] = IF i <= Len(front) THEN front[i] ELSE one[i - Len(front)]
    BY <1>1, <1>4, ConcatProperties
  <2> HIDE DEF left
  <2>3. Len(left) = n
    BY <1>1, <1>4, <2>1, <2>2
  <2>4. left[n] = e
    BY <1>1, <1>4, <2>1, <2>2
  <2>5. \A i \in 1..(n - 1) : left[i] = list[i]
    BY <1>1, <1>4, <2>1, <2>2
  <2> QED
    BY <2>2, <2>3, <2>4, <2>5
<1> HIDE DEF left
<1>6. left \o back \in Seq(S) /\ Len(left \o back) = Len(list) + 1
  <2>1. left \o back \in Seq(S) /\ Len(left \o back) = Len(left) + Len(back)
    BY <1>2, <1>5, ConcatProperties
  <2>2. n + (Len(list) - n + 1) = Len(list) + 1
    OBVIOUS
  <2> QED
    BY <1>2, <1>5, <2>1, <2>2
<1>7. ASSUME NEW i \in 1..(Len(list) + 1)
      PROVE  (left \o back)[i] = IF i < n THEN list[i] ELSE IF i = n THEN e ELSE list[i - 1]
  <2>1. CASE i <= n
    BY <1>2, <1>5, <2>1
  <2>2. CASE i > n
    <3>1. (left \o back)[i] = back[i - n]
      BY <1>2, <1>5, <2>2
    <3>2. i - n \in 1..(Len(list) - n + 1)
      BY <2>2
    <3>3. back[i - n] = list[(i - n) + n - 1]
      BY <1>2, <3>2
    <3>4. (i - n) + n - 1 = i - 1
      OBVIOUS
    <3> QED
      BY <2>2, <3>1, <3>3, <3>4
  <2>3. i <= n \/ i > n
    OBVIOUS
  <2> QED
    BY <2>1, <2>2, <2>3
<1> QED
  BY <1>3, <1>6, <1>7 DEF left

\* The elements of a sequence.
LEMMA ToSetProperties ==
    ASSUME NEW S, NEW list \in Seq(S)
    PROVE  /\ ToSet(list) = {list[i] : i \in 1..Len(list)}
           /\ ToSet(list) \subseteq S
           /\ \A e : ToSet(Append(list, e)) = ToSet(list) \cup {e}
           /\ ToSet(<<>>) = {}
<1>1. DOMAIN list = 1..Len(list) /\ Len(list) \in Nat
  OBVIOUS
<1>2. ToSet(list) = {list[i] : i \in 1..Len(list)}
  BY <1>1 DEF ToSet
<1>3. ASSUME NEW e PROVE ToSet(Append(list, e)) = ToSet(list) \cup {e}
  <2> DEFINE new == Append(list, e)
  <2>1. list \in Seq(S \cup {e})
    OBVIOUS
  <2>2. /\ DOMAIN new = 1..(Len(list) + 1) /\ new[Len(list) + 1] = e
        /\ \A i \in 1..Len(list) : new[i] = list[i]
    BY <2>1
  <2> HIDE DEF new
  <2>3. ToSet(new) = {new[i] : i \in 1..(Len(list) + 1)}
    BY <2>2 DEF ToSet
  <2> QED
    BY <1>1, <1>2, <2>2, <2>3 DEF new
<1>4. ToSet(<<>>) = {}
  BY DEF ToSet
<1> QED
  BY <1>2, <1>3, <1>4, ElementOfSeq

\* SelectInSeq finds the first that passes; I is the set of positions that do.
LEMMA FirstOf ==
    ASSUME NEW n \in Nat, NEW I \in SUBSET (1..n),
           NEW i, i = (IF I # {} THEN Min(I) ELSE 0)
    PROVE  /\ i \in 0..n
           /\ i = 0 <=> I = {}
           /\ i # 0 => i \in I /\ \A j \in 1..n : j < i => j \notin I
<1>1. I \in SUBSET Nat
  OBVIOUS
<1>2. CASE I = {}
  BY <1>2
<1>3. CASE I # {}
  <2>1. Min(I) \in I /\ \A x \in I : Min(I) <= x
    BY <1>1, <1>3, MinProperties
  <2>2. i \in I /\ i \in 1..n
    BY <1>3, <2>1
  <2>3. ASSUME NEW j \in I PROVE ~ (j < i)
    <3>1. i <= j
      BY <1>3, <2>1
    <3> QED
      BY <2>2, <3>1
  <2> QED
    BY <1>3, <2>2, <2>3
<1> QED
  BY <1>2, <1>3

\* What Max returns, where the sets of the folds need it.
LEMMA MaxOfInterval ==
    ASSUME NEW n \in Nat, NEW s \in SUBSET (1..(n + 1)), n + 1 \in s
    PROVE  Max(s) = n + 1
<1>1. \A x \in s : x <= n + 1 /\ x \in Int
  OBVIOUS
<1>2. Max(s) \in s /\ \A y \in s : Max(s) >= y
  BY <1>1 DEF Max
<1>3. Max(s) <= n + 1 /\ Max(s) \in Int /\ Max(s) >= n + 1
  BY <1>1, <1>2
<1> QED
  BY <1>3

-----------------------------------------------------------------------------
\* A list in which nothing occurs twice.
Distinct(list) == \A i, j \in 1..Len(list) : i # j => list[i] # list[j]

\* The concatenation of two lists.
LEMMA ConcatKeeps ==
    ASSUME NEW S, NEW a \in Seq(S), NEW b \in Seq(S)
    PROVE  /\ a \o b \in Seq(S)
           /\ ToSet(a \o b) = ToSet(a) \cup ToSet(b)
           /\ Distinct(a) /\ Distinct(b) /\ ToSet(a) \cap ToSet(b) = {}
                 => Distinct(a \o b)
<1> DEFINE both == a \o b
<1>1. /\ both \in Seq(S) /\ Len(both) = Len(a) + Len(b)
      /\ Len(a) \in Nat /\ Len(b) \in Nat
      /\ \A i \in 1..Len(both) : both[i] = IF i <= Len(a) THEN a[i] ELSE b[i - Len(a)]
  BY ConcatProperties
<1> HIDE DEF both
<1>2. /\ ToSet(a) = {a[i] : i \in 1..Len(a)}
      /\ ToSet(b) = {b[i] : i \in 1..Len(b)}
  BY ToSetProperties
<1>3. ToSet(both) = {both[i] : i \in 1..Len(both)}
  BY <1>1, ToSetProperties
<1>4. \A i \in 1..Len(both) :
         \/ i <= Len(a) /\ i \in 1..Len(a) /\ both[i] = a[i]
         \/ i > Len(a) /\ i - Len(a) \in 1..Len(b) /\ both[i] = b[i - Len(a)]
  BY <1>1
<1>5. \A i \in 1..Len(a) : i \in 1..Len(both) /\ both[i] = a[i]
  BY <1>1
<1>6. ASSUME NEW i \in 1..Len(b)
      PROVE  i + Len(a) \in 1..Len(both) /\ both[i + Len(a)] = b[i]
  <2>1. /\ i + Len(a) \in 1..Len(both) /\ ~ (i + Len(a) <= Len(a))
        /\ (i + Len(a)) - Len(a) = i
    BY <1>1
  <2> QED
    BY <1>1, <2>1
<1>7. ToSet(both) = ToSet(a) \cup ToSet(b)
  <2>1. ToSet(both) \subseteq ToSet(a) \cup ToSet(b)
    BY <1>2, <1>3, <1>4
  <2>2. ToSet(a) \subseteq ToSet(both)
    BY <1>2, <1>3, <1>5
  <2>3. ToSet(b) \subseteq ToSet(both)
    BY <1>2, <1>3, <1>6
  <2> QED
    BY <2>1, <2>2, <2>3
<1>8. ASSUME Distinct(a), Distinct(b), ToSet(a) \cap ToSet(b) = {},
             NEW i \in 1..Len(both), NEW j \in 1..Len(both), i # j
      PROVE  both[i] # both[j]
  <2>1. CASE i <= Len(a) /\ j <= Len(a)
    BY <1>4, <1>8, <2>1 DEF Distinct
  <2>2. CASE i <= Len(a) /\ j > Len(a)
    <3>1. both[i] \in ToSet(a) /\ both[j] \in ToSet(b)
      BY <1>1, <1>2, <1>4, <2>2
    <3> QED
      BY <1>8, <3>1
  <2>3. CASE i > Len(a) /\ j <= Len(a)
    <3>1. both[i] \in ToSet(b) /\ both[j] \in ToSet(a)
      BY <1>1, <1>2, <1>4, <2>3
    <3> QED
      BY <1>8, <3>1
  <2>4. CASE i > Len(a) /\ j > Len(a)
    <3>1. i - Len(a) \in 1..Len(b) /\ both[i] = b[i - Len(a)]
      BY <1>1, <1>4, <2>4
    <3>2. j - Len(a) \in 1..Len(b) /\ both[j] = b[j - Len(a)]
      BY <1>1, <1>4, <2>4
    <3>3. i - Len(a) # j - Len(a)
      BY <1>1, <1>8
    <3> QED
      BY <1>8, <3>1, <3>2, <3>3 DEF Distinct
  <2> QED
    BY <1>1, <2>1, <2>2, <2>3, <2>4
<1> QED
  BY <1>1, <1>7, <1>8 DEF Distinct, both

\* The function that FlattenSeq defines by recursion exists.
IsFlattening(f, lists, n) ==
    f = [i \in 1..n |-> IF i = 1 THEN lists[i] ELSE f[i - 1] \o lists[i]]

LEMMA FlattenIterates ==
    ASSUME NEW lists, NEW n \in Nat
    PROVE  \E f : IsFlattening(f, lists, n)
<1> DEFINE S == {k \in Nat : \E f : IsFlattening(f, lists, k)}
<1>1. 0 \in S
  <2> DEFINE f == [i \in 1..0 |-> 0]
  <2>1. 1..0 = {}
    OBVIOUS
  <2>2. IsFlattening(f, lists, 0)
    BY <2>1 DEF IsFlattening
  <2> QED
    BY <2>2, Zenon
<1>2. ASSUME NEW k \in Nat, k \in S PROVE k + 1 \in S
  <2>1. PICK f : IsFlattening(f, lists, k)
    BY <1>2
  <2> DEFINE g == [i \in 1..(k + 1) |->
                     IF i = 1 THEN lists[i] ELSE f[i - 1] \o lists[i]]
  <2>2. ASSUME NEW i \in 1..k PROVE g[i] = f[i]
    <3>1. i \in 1..(k + 1)
      OBVIOUS
    <3>2. g[i] = IF i = 1 THEN lists[i] ELSE f[i - 1] \o lists[i]
      BY <3>1, Zenon
    <3>3. f[i] = IF i = 1 THEN lists[i] ELSE f[i - 1] \o lists[i]
      BY <2>1, Zenon DEF IsFlattening
    <3> QED
      BY <3>2, <3>3, Zenon
  <2>3. ASSUME NEW i \in 1..(k + 1)
        PROVE  g[i] = IF i = 1 THEN lists[i] ELSE g[i - 1] \o lists[i]
    <3>1. CASE i = 1
      BY <3>1, Zenon
    <3>2. CASE i # 1
      <4>1. i - 1 \in 1..k
        BY <3>2
      <4>2. g[i - 1] = f[i - 1]
        BY <2>2, <4>1, Zenon
      <4> QED
        BY <3>2, <4>2, Zenon
    <3> QED
      BY <3>1, <3>2
  <2>4. g = [i \in 1..(k + 1) |-> g[i]]
    BY Zenon
  <2> HIDE DEF g
  <2>5. IsFlattening(g, lists, k + 1)
    BY <2>3, <2>4, Zenon DEF IsFlattening
  <2>6. k + 1 \in Nat
    OBVIOUS
  <2> QED
    BY <2>5, <2>6, Zenon
<1>3. n \in S
  <2> HIDE DEF S
  <2> QED
    BY <1>1, <1>2, InductionOverNat
<1> QED
  BY <1>3

\* What FlattenSeq returns.
LEMMA FlattenKeeps ==
    ASSUME NEW S, NEW n \in Nat, NEW lists, lists \in [1..n -> Seq(S)]
    PROVE  /\ FlattenSeq(lists) \in Seq(S)
           /\ ToSet(FlattenSeq(lists)) = UNION {ToSet(lists[i]) : i \in 1..n}
           /\ /\ \A i \in 1..n : Distinct(lists[i])
              /\ \A i, j \in 1..n : i # j => ToSet(lists[i]) \cap ToSet(lists[j]) = {}
              => Distinct(FlattenSeq(lists))
<1> DEFINE Apart == /\ \A i \in 1..n : Distinct(lists[i])
                    /\ \A i, j \in 1..n : i # j => ToSet(lists[i]) \cap ToSet(lists[j]) = {}
           flat == FlattenSeq(lists)
           Union(k) == UNION {ToSet(lists[i]) : i \in 1..k}
<1>1. lists \in Seq(Seq(S)) /\ Len(lists) = n
  BY IsASeq
<1>2. CASE n = 0
  <2>1. lists = <<>> /\ Union(n) = {}
    BY <1>1, <1>2
  <2>2. flat = <<>>
    BY <1>1, <1>2, <2>1 DEF FlattenSeq
  <2>3. ToSet(flat) = {} /\ Distinct(flat)
    BY <2>2 DEF ToSet, Distinct
  <2> HIDE DEF flat, Union
  <2>4. flat \in Seq(S) /\ ToSet(flat) = Union(n)
    BY <2>1, <2>2, <2>3
  <2> QED
    BY <2>3, <2>4 DEF flat, Union
<1>3. CASE n # 0
  <2> DEFINE f == CHOOSE g : IsFlattening(g, lists, n)
  <2>1. flat = f[n]
    BY <1>1, <1>3, Zenon DEF FlattenSeq, IsFlattening
  <2>2. IsFlattening(f, lists, n)
    BY FlattenIterates, Zenon
  <2> HIDE DEF f, flat
  <2> DEFINE Good(k) == /\ f[k] \in Seq(S)
                        /\ ToSet(f[k]) = Union(k)
                        /\ Apart => Distinct(f[k])
             G == {k \in Nat : k + 1 <= n => Good(k + 1)}
  <2>3. \A k \in 1..n : lists[k] \in Seq(S)
    OBVIOUS
  <2>4. 0 \in G
    <3>1. 1 \in 1..n /\ f[1] = lists[1]
      BY <1>3, <2>2 DEF IsFlattening
    <3>2. Union(1) = ToSet(lists[1])
      <4>1. 1..1 = {1}
        OBVIOUS
      <4> QED
        BY <4>1
    <3> QED
      BY <2>3, <3>1, <3>2
  <2>5. ASSUME NEW k \in Nat, k \in G PROVE k + 1 \in G
    <3> SUFFICES ASSUME (k + 1) + 1 <= n PROVE Good((k + 1) + 1)
      OBVIOUS
    <3> DEFINE m == k + 1
               next == m + 1
    <3>1. Good(m) /\ m \in 1..n /\ next \in 1..n /\ next # 1 /\ next - 1 = m
      BY <2>5
    <3>2. f[next] = f[m] \o lists[next]
      BY <2>2, <3>1, Zenon DEF IsFlattening
    <3>3. Union(next) = Union(m) \cup ToSet(lists[next])
      <4>1. 1..next = (1..m) \cup {next}
        OBVIOUS
      <4> QED
        BY <4>1
    <3>4. lists[next] \in Seq(S)
      BY <2>3, <3>1
    <3>5. Apart => Distinct(lists[next]) /\ Union(m) \cap ToSet(lists[next]) = {}
      <4> SUFFICES ASSUME Apart PROVE Distinct(lists[next]) /\ Union(m) \cap ToSet(lists[next]) = {}
        OBVIOUS
      <4>1. \A i \in 1..m : i \in 1..n /\ i # next
        BY <3>1
      <4>2. \A i \in 1..m : ToSet(lists[i]) \cap ToSet(lists[next]) = {}
        BY <3>1, <4>1
      <4> QED
        BY <3>1, <4>2
    <3> HIDE DEF Union, next, m, Apart
    <3>6. /\ f[next] \in Seq(S) /\ ToSet(f[next]) = Union(next)
          /\ Apart => Distinct(f[next])
      BY <3>1, <3>2, <3>3, <3>4, <3>5, ConcatKeeps
    <3> QED
      BY <3>6 DEF next, m
  <2>6. n - 1 \in Nat /\ n - 1 \in G
    <3>1. n - 1 \in Nat
      BY <1>3
    <3> HIDE DEF G
    <3> QED
      BY <2>4, <2>5, <3>1, InductionOverNat
  <2>7. (n - 1) + 1 = n
    OBVIOUS
  <2> HIDE DEF Good
  <2>8. Good(n)
    BY <2>6, <2>7
  <2> QED
    BY <2>1, <2>8 DEF Good, flat
<1> QED
  BY <1>2, <1>3
=============================================================================
