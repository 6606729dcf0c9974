----------------------------- MODULE Psjf_proofs -----------------------------
(***************************************************************************)
(* Theorems about Psjf, for every number of threads and every quantum: it  *)
(* implements UserThreads, its lists lose and duplicate no thread and stay *)
(* sorted, and the thread it picks has used least.                         *)
(***************************************************************************)
EXTENDS Psjf, Lemmas

(* The theorems about UserThreads, of the threads in the lists.            *)
Facts == INSTANCE UserThreads_proofs WITH
             arrival  <- ToSet(q_arrival),
             admitted <- ToSet(tcbs) \cup ({running} \ {0})

(* The accounts are counters, so that usage is a total order.              *)
Accounts == quanta \in [Thread -> Nat] /\ used \in [Thread -> Nat]

Sorted(list) == \A i, j \in 1..Len(list) : i < j => AtMostUsage(list[i], list[j])

-----------------------------------------------------------------------------
(* Lists sorted by usage.                                                  *)

LEMMA UsageOrder ==
    ASSUME Accounts, NEW t \in Thread, NEW u \in Thread
    PROVE  /\ AtMostUsage(t, u) \/ AtMostUsage(u, t)
           /\ \A v \in Thread : AtMostUsage(t, u) /\ AtMostUsage(u, v) => AtMostUsage(t, v)
<1>1. /\ quanta[t] \in Nat /\ quanta[u] \in Nat /\ used[t] \in Nat /\ used[u] \in Nat
      /\ \A v \in Thread : quanta[v] \in Nat /\ used[v] \in Nat
  BY DEF Accounts
<1> QED
  BY <1>1 DEF AtMostUsage

(* The list new is list with t inserted at n, where t belongs.              *)
Inserted(list, t, n, new) ==
    /\ \A i \in 1..(Len(list) + 1) :
          new[i] = IF i < n THEN list[i] ELSE IF i = n THEN t ELSE list[i - 1]
    /\ \A i \in 1..Len(list) : i < n => ~ AtMostUsage(t, list[i])
    /\ n <= Len(list) => AtMostUsage(t, list[n])

(* insert_by_usage puts a thread before the first that has used as much.    *)
LEMMA InsertPosition ==
    ASSUME NEW list \in Seq(Thread), NEW t \in Thread,
           NEW new, new = InsertByUsage(list, t)
    PROVE  /\ new \in Seq(Thread) /\ Len(new) = Len(list) + 1
           /\ \E n \in 1..(Len(list) + 1) : Inserted(list, t, n, new)
<1> DEFINE I == {i \in 1..Len(list) : AtMostUsage(t, list[i])}
           k == IF I # {} THEN Min(I) ELSE 0
<1>1. k = SelectInSeq(list, LAMBDA u : AtMostUsage(t, u))
  BY DEF SelectInSeq
<1>2. new = IF k = 0 THEN Append(list, t) ELSE InsertAt(list, k, t)
  <2>1. InsertByUsage(list, t) = IF k = 0 THEN Append(list, t) ELSE InsertAt(list, k, t)
    BY <1>1, Zenon DEF InsertByUsage
  <2> QED
    BY <2>1
<1>3. /\ k \in 0..Len(list) /\ (k = 0 <=> I = {})
      /\ k # 0 => k \in I /\ \A j \in 1..Len(list) : j < k => j \notin I
  <2>1. Len(list) \in Nat /\ I \in SUBSET (1..Len(list))
    OBVIOUS
  <2> HIDE DEF I
  <2> QED
    BY <2>1, FirstOf
<1> HIDE DEF k
<1>4. CASE k = 0
  <2>1. new = Append(list, t)
    BY <1>2, <1>4
  <2>2. /\ new \in Seq(Thread) /\ Len(new) = Len(list) + 1
        /\ \A i \in 1..Len(list) : new[i] = list[i]
        /\ new[Len(list) + 1] = t
    BY <2>1
  <2>3. \A i \in 1..Len(list) : ~ AtMostUsage(t, list[i])
    BY <1>3, <1>4
  <2>4. \A i \in 1..(Len(list) + 1) : i \in 1..Len(list) \/ i = Len(list) + 1
    OBVIOUS
  <2> QED
    BY <2>2, <2>3, <2>4 DEF Inserted
<1>5. CASE k # 0
  <2>1. k \in 1..Len(list) /\ new = InsertAt(list, k, t)
    BY <1>2, <1>3, <1>5
  <2>2. /\ new \in Seq(Thread) /\ Len(new) = Len(list) + 1
        /\ \A i \in 1..(Len(list) + 1) :
              new[i] = IF i < k THEN list[i] ELSE IF i = k THEN t ELSE list[i - 1]
    BY <2>1, InsertAtKeeps
  <2>3. AtMostUsage(t, list[k]) /\ \A i \in 1..Len(list) : i < k => ~ AtMostUsage(t, list[i])
    BY <1>3, <1>5
  <2>4. k \in 1..(Len(list) + 1)
    BY <2>1
  <2> QED
    BY <2>2, <2>3, <2>4 DEF Inserted
<1> QED
  BY <1>4, <1>5

(* It loses and duplicates no thread, and keeps a sorted list sorted.       *)
LEMMA InsertKeeps ==
    ASSUME Accounts, NEW list \in Seq(Thread), NEW t \in Thread,
           NEW new, new = InsertByUsage(list, t)
    PROVE  /\ new \in Seq(Thread)
           /\ ToSet(new) = ToSet(list) \cup {t}
           /\ Distinct(list) /\ t \notin ToSet(list) => Distinct(new)
           /\ Sorted(list) => Sorted(new)
<1>1. new \in Seq(Thread) /\ Len(new) = Len(list) + 1 /\ Len(list) \in Nat
  BY InsertPosition
<1>2. PICK n \in 1..(Len(list) + 1) : Inserted(list, t, n, new)
  BY InsertPosition
<1>3. /\ ToSet(new) = {new[i] : i \in 1..Len(new)}
      /\ ToSet(list) = {list[i] : i \in 1..Len(list)}
  BY <1>1, ToSetProperties
<1>4. /\ new[n] = t
      /\ \A i \in 1..Len(list) : i < n => new[i] = list[i]
      /\ \A i \in 1..Len(list) : i >= n => new[i + 1] = list[i]
  <2>1. ASSUME NEW i \in 1..Len(list), i >= n PROVE new[i + 1] = list[i]
    <3>1. i + 1 \in 1..(Len(list) + 1) /\ ~ (i + 1 < n) /\ i + 1 # n /\ (i + 1) - 1 = i
      BY <1>1, <2>1
    <3> QED
      BY <1>2, <3>1 DEF Inserted
  <2>2. n \in 1..(Len(list) + 1) /\ ~ (n < n)
    OBVIOUS
  <2>3. new[n] = t
    BY <1>2, <2>2 DEF Inserted
  <2> QED
    BY <1>1, <1>2, <2>1, <2>3 DEF Inserted
<1>5. \A i \in 1..Len(new) :
         \/ i < n /\ i \in 1..Len(list) /\ new[i] = list[i]
         \/ i = n /\ new[i] = t
         \/ i > n /\ i - 1 \in 1..Len(list) /\ new[i] = list[i - 1]
  BY <1>1, <1>2 DEF Inserted
<1>6. ToSet(new) = ToSet(list) \cup {t}
  <2>1. ToSet(new) \subseteq ToSet(list) \cup {t}
    BY <1>3, <1>5
  <2>2. t \in ToSet(new)
    BY <1>1, <1>3, <1>4
  <2>3. ASSUME NEW i \in 1..Len(list) PROVE list[i] \in ToSet(new)
    <3>1. i \in 1..Len(new) /\ i + 1 \in 1..Len(new) /\ (i < n \/ i >= n)
      BY <1>1
    <3> QED
      BY <1>3, <1>4, <3>1
  <2> QED
    BY <1>3, <2>1, <2>2, <2>3
<1>7. ASSUME Distinct(list), t \notin ToSet(list) PROVE Distinct(new)
  <2> SUFFICES ASSUME NEW i \in 1..Len(new), NEW j \in 1..Len(new), i < j
               PROVE  new[i] # new[j]
    BY <1>1 DEF Distinct
  <2>1. \A k \in 1..Len(list) : list[k] # t
    BY <1>3, <1>7
  <2>2. CASE j < n
    <3>1. i < n
      BY <1>1, <2>2
    <3> QED
      BY <1>5, <1>7, <2>2, <3>1 DEF Distinct
  <2>3. CASE j = n
    BY <1>1, <1>5, <2>1, <2>3
  <2>4. CASE j > n /\ i = n
    BY <1>1, <1>5, <2>1, <2>4
  <2>5. CASE j > n /\ i < n
    <3>1. i # j - 1
      BY <1>1, <2>5
    <3>2. /\ i \in 1..Len(list) /\ new[i] = list[i]
          /\ j - 1 \in 1..Len(list) /\ new[j] = list[j - 1]
      BY <1>1, <1>5, <2>5
    <3> QED
      BY <1>7, <3>1, <3>2 DEF Distinct
  <2>6. CASE j > n /\ i > n
    <3>1. i - 1 # j - 1
      BY <1>1
    <3>2. /\ i - 1 \in 1..Len(list) /\ new[i] = list[i - 1]
          /\ j - 1 \in 1..Len(list) /\ new[j] = list[j - 1]
      <4>1. /\ i - 1 \in 1..Len(list) /\ new[i] = list[i - 1]
        BY <1>1, <1>5, <2>6
      <4>2. /\ j - 1 \in 1..Len(list) /\ new[j] = list[j - 1]
        BY <1>1, <1>5, <2>6
      <4> QED
        BY <4>1, <4>2
    <3> QED
      BY <1>7, <3>1, <3>2 DEF Distinct
  <2> QED
    BY <1>1, <2>2, <2>3, <2>4, <2>5, <2>6
<1>8. ASSUME Sorted(list) PROVE Sorted(new)
  <2> SUFFICES ASSUME NEW i \in 1..Len(new), NEW j \in 1..Len(new), i < j
               PROVE  AtMostUsage(new[i], new[j])
    BY DEF Sorted
  <2>0. \A k \in 1..Len(list) : list[k] \in Thread
    OBVIOUS
  <2>1. \A k, l \in 1..Len(list) : k < l => AtMostUsage(list[k], list[l])
    BY <1>8 DEF Sorted
  <2>2. \A k \in 1..Len(list) : k < n => AtMostUsage(list[k], t)
    BY <1>2, <2>0, UsageOrder DEF Inserted
  <2>3. \A k \in 1..Len(list) : k >= n => AtMostUsage(t, list[k])
    <3> SUFFICES ASSUME NEW k \in 1..Len(list), k > n PROVE AtMostUsage(t, list[k])
      BY <1>1, <1>2 DEF Inserted
    <3>1. n \in 1..Len(list) /\ AtMostUsage(t, list[n]) /\ AtMostUsage(list[n], list[k])
      BY <1>1, <1>2, <2>1 DEF Inserted
    <3> QED
      BY <2>0, <3>1, UsageOrder
  <2>4. CASE j < n
    <3>1. i < n
      BY <1>1, <2>4
    <3> QED
      BY <1>5, <2>1, <2>4, <3>1
  <2>5. CASE j = n
    BY <1>1, <1>5, <2>2, <2>5
  <2>6. CASE j > n /\ i = n
    <3>1. j - 1 >= n
      BY <1>1, <2>6
    <3> QED
      BY <1>1, <1>5, <2>3, <2>6, <3>1
  <2>7. CASE j > n /\ i < n
    <3>1. i < j - 1
      BY <1>1, <2>7
    <3>2. /\ i \in 1..Len(list) /\ new[i] = list[i]
          /\ j - 1 \in 1..Len(list) /\ new[j] = list[j - 1]
      BY <1>1, <1>5, <2>7
    <3> QED
      BY <2>1, <3>1, <3>2
  <2>8. CASE j > n /\ i > n
    <3>1. i - 1 < j - 1
      BY <1>1
    <3>2. /\ i - 1 \in 1..Len(list) /\ new[i] = list[i - 1]
          /\ j - 1 \in 1..Len(list) /\ new[j] = list[j - 1]
      BY <1>1, <1>5, <2>8
    <3> QED
      BY <2>1, <3>1, <3>2
  <2> QED
    BY <1>1, <2>4, <2>5, <2>6, <2>7, <2>8
<1> QED
  BY <1>1, <1>6, <1>7, <1>8

(* The function that the fold over a sequence q of length n evaluates.      *)
IsFold(f, list, q, n) ==
    f = [s \in SUBSET (1..n) |->
            IF s = {} THEN list ELSE InsertByUsage(f[s \ {Max(s)}], q[Max(s)])]

(* The fold over q_arrival is a sequence of insertions: the function that   *)
(* MapThenFoldSet defines on the subsets of 1..n exists, by induction.      *)
LEMMA FoldIterates ==
    ASSUME NEW list, NEW q, NEW n \in Nat
    PROVE  \E f : IsFold(f, list, q, n)
<1> DEFINE S == {k \in Nat : \E f : IsFold(f, list, q, k)}
<1>1. 0 \in S
  <2>1. SUBSET (1..0) = {{}}
    OBVIOUS
  <2> DEFINE f == [s \in {{}} |-> list]
  <2>2. IsFold(f, list, q, 0)
    BY <2>1, Zenon DEF IsFold
  <2> QED
    BY <2>2, Zenon
<1>2. ASSUME NEW k \in Nat, k \in S PROVE k + 1 \in S
  <2>1. PICK f : IsFold(f, list, q, k)
    BY <1>2
  <2> DEFINE g == [s \in SUBSET (1..(k + 1)) |->
                     IF k + 1 \in s THEN InsertByUsage(f[s \ {k + 1}], q[k + 1])
                     ELSE f[s]]
  <2>2. ASSUME NEW s \in SUBSET (1..(k + 1)), k + 1 \notin s, s # {}
        PROVE  f[s] = InsertByUsage(g[s \ {Max(s)}], q[Max(s)])
    <3>1. s \in SUBSET (1..k) /\ s \ {Max(s)} \in SUBSET (1..(k + 1)) /\ k + 1 \notin s \ {Max(s)}
      <4>1. \A x \in 1..(k + 1) : x # k + 1 => x \in 1..k
        OBVIOUS
      <4> QED
        BY <2>2, <4>1
    <3>2. f[s] = InsertByUsage(f[s \ {Max(s)}], q[Max(s)])
      BY <2>1, <2>2, <3>1, Zenon DEF IsFold
    <3>3. g[s \ {Max(s)}] = f[s \ {Max(s)}]
      BY <3>1, Zenon
    <3> QED
      BY <3>2, <3>3, Zenon
  <2>3. ASSUME NEW s \in SUBSET (1..(k + 1)), k + 1 \in s
        PROVE  g[s] = InsertByUsage(g[s \ {Max(s)}], q[Max(s)])
    <3>1. Max(s) = k + 1
      BY <2>3, MaxOfInterval
    <3>2. s \ {k + 1} \in SUBSET (1..(k + 1)) /\ k + 1 \notin s \ {k + 1}
      OBVIOUS
    <3>3. g[s \ {k + 1}] = f[s \ {k + 1}]
      BY <3>2, Zenon
    <3> QED
      BY <2>3, <3>1, <3>3, Zenon
  <2>4. \A s \in SUBSET (1..(k + 1)) : k + 1 \in s => s # {}
    OBVIOUS
  <2>5. {} \in SUBSET (1..k) /\ k + 1 \notin {} /\ f[{}] = list
    BY <2>1, Zenon DEF IsFold
  <2>6. ASSUME NEW s \in SUBSET (1..(k + 1))
        PROVE  g[s] = IF s = {} THEN list
                      ELSE InsertByUsage(g[s \ {Max(s)}], q[Max(s)])
    <3>1. CASE k + 1 \in s
      BY <2>3, <2>4, <3>1, Zenon
    <3>2. CASE s = {}
      BY <2>5, <3>2, Zenon
    <3>3. CASE k + 1 \notin s /\ s # {}
      <4>1. g[s] = f[s]
        BY <3>3, Zenon
      <4> QED
        BY <2>2, <3>3, <4>1, Zenon
    <3> QED
      BY <3>1, <3>2, <3>3
  <2>7. g = [s \in SUBSET (1..(k + 1)) |-> g[s]]
    BY Zenon
  <2> HIDE DEF g
  <2>8. IsFold(g, list, q, k + 1)
    BY <2>6, <2>7, Zenon DEF IsFold
  <2>9. k + 1 \in Nat
    OBVIOUS
  <2> QED
    BY <2>8, <2>9, Zenon
<1>3. n \in S
  <2> HIDE DEF S
  <2> QED
    BY <1>1, <1>2, InductionOverNat
<1> QED
  BY <1>3

LEMMA FoldSteps ==
    ASSUME NEW list, NEW q \in Seq(Thread)
    PROVE  \E L : /\ L[0] = list
                  /\ \A k \in 1..Len(q) : L[k] = InsertByUsage(L[k - 1], q[k])
                  /\ FoldLeft(InsertByUsage, list, q) = L[Len(q)]
<1> DEFINE n == Len(q)
           iter == CHOOSE f : IsFold(f, list, q, n)
<1>1. DOMAIN q = 1..n /\ n \in Nat
  OBVIOUS
<1>2. FoldLeft(InsertByUsage, list, q) = iter[1..n]
  BY <1>1, Zenon DEF FoldLeft, MapThenFoldSet, IsFold
<1>3. IsFold(iter, list, q, n)
  BY <1>1, FoldIterates, Zenon
<1> HIDE DEF iter
<1> DEFINE L == [k \in 0..n |-> iter[1..k]]
<1>4. L[0] = list
  <2>1. 1..0 = {} /\ 0 \in 0..n
    BY <1>1
  <2> QED
    BY <1>3, <2>1 DEF IsFold
<1>5. ASSUME NEW k \in 1..n PROVE L[k] = InsertByUsage(L[k - 1], q[k])
  <2>1. k - 1 \in Nat /\ (k - 1) + 1 = k /\ k \in 1..k /\ k \in 0..n /\ k - 1 \in 0..n
    BY <1>1
  <2>2. Max(1..k) = k
    BY <2>1, MaxOfInterval
  <2>3. (1..k) \ {k} = 1..(k - 1) /\ 1..k # {} /\ 1..k \in SUBSET (1..n)
    <3>1. (1..k) \ {k} = 1..(k - 1)
      BY <2>1
    <3>2. k \in 1..k
      BY <2>1
    <3> QED
      BY <1>1, <3>1, <3>2
  <2>4. iter[1..k] = InsertByUsage(iter[1..(k - 1)], q[k])
    BY <1>3, <2>2, <2>3, Zenon DEF IsFold
  <2> QED
    BY <2>1, <2>4, Zenon
<1>6. L[n] = iter[1..n]
  BY <1>1
<1> HIDE DEF L
<1> QED
  BY <1>2, <1>4, <1>5, <1>6

(* No thread is in two places, or twice in one.                             *)
Apart ==
    /\ Distinct(q_arrival)
    /\ Distinct(tcbs)
    /\ ToSet(q_arrival) \cap ToSet(tcbs) = {}
    /\ running \notin ToSet(q_arrival) \cup ToSet(tcbs)

(* The list after admission: all the threads, once each, in order of usage. *)
LEMMA ReadyKeeps ==
    ASSUME Accounts, q_arrival \in Seq(Thread), tcbs \in Seq(Thread),
           running \in Thread \cup {0}, NEW ready, ready = Ready
    PROVE  /\ ready \in Seq(Thread)
           /\ ToSet(ready) = ToSet(q_arrival) \cup ToSet(tcbs) \cup ({running} \ {0})
           /\ Apart => Distinct(ready)
           /\ Sorted(tcbs) => Sorted(ready)
<1> DEFINE n == Len(q_arrival)
           From(k) == {q_arrival[i] : i \in 1..k}
<1>1. PICK L : /\ L[0] = tcbs
               /\ \A k \in 1..Len(q_arrival) : L[k] = InsertByUsage(L[k - 1], q_arrival[k])
               /\ FoldLeft(InsertByUsage, tcbs, q_arrival) = L[Len(q_arrival)]
  BY FoldSteps
<1>2. n \in Nat /\ \A k \in 1..n : q_arrival[k] \in Thread
  OBVIOUS
<1> DEFINE Good(k) == /\ L[k] \in Seq(Thread)
                      /\ ToSet(L[k]) = ToSet(tcbs) \cup From(k)
                      /\ Apart => Distinct(L[k])
                      /\ Sorted(tcbs) => Sorted(L[k])
           S == {k \in Nat : k <= n => Good(k)}
<1>3. 0 \in S
  <2>1. From(0) = {}
    OBVIOUS
  <2> QED
    BY <1>1, <2>1 DEF Apart
<1>4. ASSUME NEW k \in Nat, k \in S PROVE k + 1 \in S
  <2> SUFFICES ASSUME k + 1 <= n PROVE Good(k + 1)
    OBVIOUS
  <2>1. Good(k) /\ k + 1 \in 1..n /\ (k + 1) - 1 = k
    BY <1>2, <1>4
  <2>2. L[k + 1] = InsertByUsage(L[k], q_arrival[k + 1])
    BY <1>1, <2>1
  <2> DEFINE t == q_arrival[k + 1]
             new == L[k + 1]
             old == L[k]
  <2>3. t \in Thread
    BY <1>2, <2>1
  <2>4. From(k + 1) = From(k) \cup {t}
    <3>1. 1..(k + 1) = (1..k) \cup {k + 1}
      OBVIOUS
    <3> QED
      BY <3>1
  <2>5. Apart => t \notin ToSet(old)
    <3> SUFFICES ASSUME Apart PROVE t \notin ToSet(tcbs) \cup From(k)
      BY <2>1
    <3>1. ToSet(q_arrival) = {q_arrival[i] : i \in 1..n}
      BY ToSetProperties
    <3>2. t \notin ToSet(tcbs)
      BY <2>1, <3>1 DEF Apart
    <3>3. ASSUME NEW i \in 1..k PROVE q_arrival[i] # t
      <4>1. i \in 1..n /\ i # k + 1
        BY <2>1
      <4> QED
        BY <2>1, <4>1 DEF Apart, Distinct
    <3> QED
      BY <3>2, <3>3
  <2> HIDE DEF t, new, old, From
  <2>6. old \in Seq(Thread) /\ new = InsertByUsage(old, t)
    BY <2>1, <2>2 DEF old, new, t
  <2>7. /\ new \in Seq(Thread)
        /\ ToSet(new) = ToSet(old) \cup {t}
        /\ Distinct(old) /\ t \notin ToSet(old) => Distinct(new)
        /\ Sorted(old) => Sorted(new)
    BY <2>3, <2>6, InsertKeeps
  <2>8. /\ ToSet(old) = ToSet(tcbs) \cup From(k)
        /\ Apart => Distinct(old)
        /\ Sorted(tcbs) => Sorted(old)
    BY <2>1 DEF old
  <2>9. /\ new \in Seq(Thread)
        /\ ToSet(new) = ToSet(tcbs) \cup From(k + 1)
        /\ Apart => Distinct(new)
        /\ Sorted(tcbs) => Sorted(new)
    BY <2>4, <2>5, <2>7, <2>8
  <2> QED
    BY <2>9 DEF new
<1>5. Good(n)
  <2>1. n \in S
    <3> HIDE DEF S
    <3> QED
      BY <1>2, <1>3, <1>4, InductionOverNat
  <2> HIDE DEF Good
  <2> QED
    BY <1>2, <2>1
<1> DEFINE list == L[n]
<1>6. From(n) = ToSet(q_arrival)
  BY ToSetProperties
<1>7. /\ list \in Seq(Thread)
      /\ ToSet(list) = ToSet(tcbs) \cup ToSet(q_arrival)
      /\ Apart => Distinct(list)
      /\ Sorted(tcbs) => Sorted(list)
  BY <1>5, <1>6
<1>8. ready = IF running = 0 THEN list ELSE InsertByUsage(list, running)
  BY <1>1, Zenon DEF Ready, Core!NoThread
<1> HIDE DEF list
<1>9. CASE running = 0
  BY <1>7, <1>8, <1>9
<1>10. CASE running # 0
  <2>1. running \in Thread /\ ready = InsertByUsage(list, running)
    BY <1>8, <1>10
  <2>2. /\ ready \in Seq(Thread)
        /\ ToSet(ready) = ToSet(list) \cup {running}
        /\ Distinct(list) /\ running \notin ToSet(list) => Distinct(ready)
        /\ Sorted(list) => Sorted(ready)
    BY <1>7, <2>1, InsertKeeps
  <2> QED
    BY <1>7, <1>10, <2>2 DEF Apart
<1> QED
  BY <1>9, <1>10

-----------------------------------------------------------------------------
(* The system that UserThreads_proofs is about is the one that Psjf names   *)
(* Core: the definitions are the same, letter by letter.                    *)
LEMMA SameSystem ==
    /\ Core!Init <=> Facts!Init
    /\ [Core!Next]_(Core!vars) <=> [Facts!Next]_(Facts!vars)
<1>1. Core!Init <=> Facts!Init
  BY Zenon
  DEF Core!Init, Facts!Init, Core!Thread, Facts!Thread, Core!Mutex,
      Facts!Mutex, Core!Main, Facts!Main, Core!NoThread, Facts!NoThread,
      Core!NoMutex, Facts!NoMutex
<1>2. UNCHANGED Core!vars <=> UNCHANGED Facts!vars
  BY Zenon
  DEF Core!vars, Facts!vars, Core!cpuVars, Facts!cpuVars, Core!joinVars,
      Facts!joinVars, Core!rosterVars, Facts!rosterVars, Core!mutexVars,
      Facts!mutexVars, Core!timerVars, Facts!timerVars
<1>3. Core!Next <=> Facts!Next
  BY Zenon
  DEF Core!Thread, Facts!Thread, Core!Mutex, Facts!Mutex, Core!NoThread,
      Facts!NoThread, Core!Main, Facts!Main, Core!NoMutex, Facts!NoMutex,
      Core!joinVars, Facts!joinVars, Core!rosterVars, Facts!rosterVars,
      Core!mutexVars, Facts!mutexVars, Core!timerVars, Facts!timerVars,
      Core!cpuVars, Facts!cpuVars, Core!vars, Facts!vars, Core!Known,
      Facts!Known, Core!Blocked, Facts!Blocked, Core!Unmasked, Facts!Unmasked,
      Core!Executing, Facts!Executing, Core!At, Facts!At, Core!InitialCall,
      Facts!InitialCall, Core!Goto, Facts!Goto, Core!Waiters, Facts!Waiters,
      Core!Broadcast, Facts!Broadcast, Core!Joiners, Facts!Joiners,
      Core!RemainingBlocked, Facts!RemainingBlocked, Core!CreateTid,
      Facts!CreateTid, Core!CreateEnqueue, Facts!CreateEnqueue,
      Core!JoinEnded, Facts!JoinEnded, Core!JoinMiss, Facts!JoinMiss,
      Core!JoinSetTid, Facts!JoinSetTid, Core!JoinSetRetval,
      Facts!JoinSetRetval, Core!JoinReturn, Facts!JoinReturn, Core!YieldClock,
      Facts!YieldClock, Core!YieldCharge, Facts!YieldCharge, Core!YieldSwap,
      Facts!YieldSwap, Core!MutexInit, Facts!MutexInit, Core!InLock,
      Facts!InLock, Core!IsFree, Facts!IsFree, Core!LockAcquire,
      Facts!LockAcquire, Core!LockWait, Facts!LockWait, Core!Missed,
      Facts!Missed, Core!LockMissing, Facts!LockMissing, Core!Unlock,
      Facts!Unlock, Core!UnlockAssertFails, Facts!UnlockAssertFails,
      Core!DestroyFree, Facts!DestroyFree, Core!DestroyHeld,
      Facts!DestroyHeld, Core!DestroyRemove, Facts!DestroyRemove, Core!Exit,
      Facts!Exit, Core!Delivered, Facts!Delivered, Core!NullWrite,
      Facts!NullWrite, Core!StrayWrite, Facts!StrayWrite, Core!Reap,
      Facts!Reap, Core!Finish, Facts!Finish, Core!NothingLeft,
      Facts!NothingLeft, Core!MainReturn, Facts!MainReturn, Core!CleanupFree,
      Facts!CleanupFree, Core!CleanupAbort, Facts!CleanupAbort,
      Core!CleanupEnd, Facts!CleanupEnd, Core!DestroyMissing,
      Facts!DestroyMissing, Core!SetTimer, Facts!SetTimer, Core!TimerExpires,
      Facts!TimerExpires, Core!Preempt, Facts!Preempt, Core!Schedule,
      Facts!Schedule, Core!ScheduleStuck, Facts!ScheduleStuck, Core!Halted,
      Facts!Halted, Core!CallStep, Facts!CallStep, Core!MutexStep,
      Facts!MutexStep, Core!Next, Facts!Next
<1> QED
  BY <1>1, <1>2, <1>3
-----------------------------------------------------------------------------
(* The choice of find_first_unblocked_thread.                               *)
LEMMA FirstUnblockedIs ==
    ASSUME NEW ready \in Seq(Thread), ready = Ready, NEW n, n = FirstUnblocked
    PROVE  /\ n \in 0..Len(ready)
           /\ n = 0 <=> \A t \in ToSet(ready) : Core!Blocked(t)
           /\ n # 0 => /\ n \in 1..Len(ready)
                       /\ ~ Core!Blocked(ready[n])
                       /\ \A j \in 1..Len(ready) : j < n => Core!Blocked(ready[j])
<1> DEFINE I == {i \in 1..Len(ready) : ~ Core!Blocked(ready[i])}
<1>1. n = (IF I # {} THEN Min(I) ELSE 0)
  BY DEF FirstUnblocked, SelectInSeq
<1>2. Len(ready) \in Nat /\ I \in SUBSET (1..Len(ready))
  OBVIOUS
<1>3. /\ n \in 0..Len(ready)
      /\ n = 0 <=> I = {}
      /\ n # 0 => n \in I /\ \A j \in 1..Len(ready) : j < n => j \notin I
  <2> HIDE DEF I
  <2> QED
    BY <1>1, <1>2, FirstOf
<1>4. ToSet(ready) = {ready[i] : i \in 1..Len(ready)}
  BY ToSetProperties
<1> QED
  BY <1>3, <1>4

(* The removal of a thread from a list without duplicates.                  *)
LEMMA RemovalKeeps ==
    ASSUME NEW list \in Seq(Thread), NEW n \in 1..Len(list),
           NEW rest, rest = RemoveAt(list, n)
    PROVE  /\ rest \in Seq(Thread)
           /\ ToSet(rest) \cup {list[n]} = ToSet(list)
           /\ Distinct(list) => Distinct(rest) /\ list[n] \notin ToSet(rest)
           /\ Sorted(list) => Sorted(rest)
<1>1. /\ rest \in Seq(Thread) /\ Len(rest) = Len(list) - 1 /\ Len(list) \in Nat
      /\ \A i \in 1..(Len(list) - 1) : rest[i] = IF i < n THEN list[i] ELSE list[i + 1]
  BY RemoveAtKeeps
<1>2. /\ ToSet(rest) = {rest[i] : i \in 1..Len(rest)}
      /\ ToSet(list) = {list[i] : i \in 1..Len(list)}
  BY <1>1, ToSetProperties
<1>3. \A i \in 1..Len(rest) :
         \/ i < n /\ i \in 1..Len(list) /\ rest[i] = list[i]
         \/ i >= n /\ i + 1 \in 1..Len(list) /\ rest[i] = list[i + 1]
  BY <1>1
<1>4. ToSet(rest) \cup {list[n]} = ToSet(list)
  <2>1. ToSet(rest) \subseteq ToSet(list)
    BY <1>2, <1>3
  <2>2. ASSUME NEW i \in 1..Len(list), i # n PROVE list[i] \in ToSet(rest)
    <3>1. CASE i < n
      <4>1. i \in 1..Len(rest) /\ rest[i] = list[i]
        BY <1>1, <3>1
      <4> QED
        BY <1>2, <4>1
    <3>2. CASE i > n
      <4>1. i - 1 \in 1..Len(rest) /\ ~ (i - 1 < n) /\ (i - 1) + 1 = i
        BY <1>1, <3>2
      <4>2. rest[i - 1] = list[i]
        BY <1>1, <4>1
      <4> QED
        BY <1>2, <4>1, <4>2
    <3> QED
      BY <2>2, <3>1, <3>2
  <2> QED
    BY <1>2, <2>1, <2>2
<1>5. ASSUME Distinct(list) PROVE Distinct(rest) /\ list[n] \notin ToSet(rest)
  <2>1. \A i, j \in 1..Len(list) : i # j => list[i] # list[j]
    BY <1>5 DEF Distinct
  <2>2. ASSUME NEW i \in 1..Len(rest), NEW j \in 1..Len(rest), i # j
        PROVE  rest[i] # rest[j]
    <3>1. PICK k \in 1..Len(list) : rest[i] = list[k] /\ k = IF i < n THEN i ELSE i + 1
      BY <1>1, <1>3
    <3>2. PICK l \in 1..Len(list) : rest[j] = list[l] /\ l = IF j < n THEN j ELSE j + 1
      BY <1>1, <1>3
    <3>3. k # l
      BY <1>1, <2>2, <3>1, <3>2
    <3> QED
      BY <2>1, <3>1, <3>2, <3>3
  <2>3. ASSUME NEW i \in 1..Len(rest) PROVE rest[i] # list[n]
    <3>1. PICK k \in 1..Len(list) : rest[i] = list[k] /\ k = IF i < n THEN i ELSE i + 1
      BY <1>1, <1>3
    <3>2. k # n
      BY <1>1, <3>1
    <3> QED
      BY <2>1, <3>1, <3>2
  <2> QED
    BY <1>2, <2>2, <2>3 DEF Distinct
<1>6. ASSUME Sorted(list) PROVE Sorted(rest)
  <2>1. \A i, j \in 1..Len(list) : i < j => AtMostUsage(list[i], list[j])
    BY <1>6 DEF Sorted
  <2>2. ASSUME NEW i \in 1..Len(rest), NEW j \in 1..Len(rest), i < j
        PROVE  AtMostUsage(rest[i], rest[j])
    <3>1. PICK k \in 1..Len(list) : rest[i] = list[k] /\ k = IF i < n THEN i ELSE i + 1
      BY <1>1, <1>3
    <3>2. PICK l \in 1..Len(list) : rest[j] = list[l] /\ l = IF j < n THEN j ELSE j + 1
      BY <1>1, <1>3
    <3>3. k < l
      BY <1>1, <2>2, <3>1, <3>2
    <3> QED
      BY <2>1, <3>1, <3>2, <3>3
  <2> QED
    BY <2>2 DEF Sorted
<1> QED
  BY <1>1, <1>4, <1>5, <1>6

-----------------------------------------------------------------------------
(* The invariant.                                                           *)

ListTypes ==
    /\ q_arrival \in Seq(Thread)
    /\ tcbs \in Seq(Thread)
    /\ running \in Thread \cup {0}

(* The threads in the lists are different, and tcbs is sorted.              *)
ListInv ==
    /\ ListTypes
    /\ Distinct(q_arrival)
    /\ Distinct(tcbs)
    /\ running \notin ToSet(tcbs)
    /\ Sorted(tcbs)

(* No account exceeds the total, and the total respects its bound once the  *)
(* pending signal is counted.                                               *)
AccountInv ==
    /\ Accounts
    /\ total \in Nat
    /\ \A t \in Thread : quanta[t] <= total /\ used[t] < TimeQuantum
    /\ total + (IF pending THEN 1 ELSE 0) <= MaxQuanta

CoreInv == Facts!TypeInv /\ Facts!RosterPartition

Inv == ListInv /\ AccountInv /\ CoreInv

(* Every step is a step of UserThreads: a turn of the scheduler admits the  *)
(* arrivals, loses no thread and picks one that is not blocked.             *)
LEMMA ScheduleImplements ==
    ASSUME Accounts, ListTypes, Schedule
    PROVE  Core!Schedule(running')
<1>1. PICK ready, n : ready = Ready /\ n = FirstUnblocked
  OBVIOUS
<1>2. /\ ready \in Seq(Thread)
      /\ ToSet(ready) = ToSet(q_arrival) \cup ToSet(tcbs) \cup ({running} \ {0})
  BY <1>1, ReadyKeeps DEF ListTypes
<1>3. /\ n # 0 /\ running' = ready[n] /\ tcbs' = RemoveAt(ready, n)
      /\ q_arrival' = <<>>
      /\ armed' = ~Core!RemainingBlocked(ToSet(tcbs'), running')
  BY <1>1 DEF Schedule
<1>4. n \in 1..Len(ready) /\ ~ Core!Blocked(ready[n])
  BY <1>1, <1>2, <1>3, FirstUnblockedIs
<1>5. ToSet(tcbs') \cup {running'} = ToSet(ready)
  BY <1>2, <1>3, <1>4, RemovalKeeps
<1>6. ToSet(q_arrival') = {}
  BY <1>3 DEF ToSet
<1>7. running' \in Thread /\ 0 \notin Thread
  <2>1. running' \in Thread
    BY <1>2, <1>3, <1>4
  <2>2. 0 \notin Thread
    BY CoreAssumption DEF Thread, Core!Thread, Core!ConstantsAssumption
  <2> QED
    BY <2>1, <2>2
<1> DEFINE roster == ToSet(tcbs) \cup ({running} \ {0}) \cup ToSet(q_arrival)
<1>8. ToSet(tcbs') \cup ({running'} \ {0}) = roster
  BY <1>2, <1>5, <1>7
<1>9. running' \in roster /\ ~ Core!Blocked(running')
  BY <1>3, <1>4, <1>7, <1>8
<1>10. armed' = ~Core!RemainingBlocked(roster, running')
  BY <1>3, <1>8 DEF Core!RemainingBlocked
<1> QED
  BY <1>6, <1>8, <1>9, <1>10 DEF Schedule, Core!Schedule, Core!joinVars, Core!mutexVars

LEMMA StuckImplements ==
    ASSUME Accounts, ListTypes, ScheduleStuck
    PROVE  Core!ScheduleStuck
<1>1. PICK ready, n : ready = Ready /\ n = FirstUnblocked
  OBVIOUS
<1>2. /\ ready \in Seq(Thread)
      /\ ToSet(ready) = ToSet(q_arrival) \cup ToSet(tcbs) \cup ({running} \ {0})
  BY <1>1, ReadyKeeps DEF ListTypes
<1>3. n = 0
  BY <1>1 DEF ScheduleStuck
<1>4. \A t \in ToSet(ready) : Core!Blocked(t)
  BY <1>1, <1>2, <1>3, FirstUnblockedIs
<1>5. UNCHANGED <<q_arrival, tcbs, running>>
  BY DEF ScheduleStuck, listVars
<1>6. \A t \in ToSet(tcbs) \cup ({running} \ {0}) \cup ToSet(q_arrival) : Core!Blocked(t)
  BY <1>2, <1>4
<1> QED
  BY <1>5, <1>6 DEF ScheduleStuck, Core!ScheduleStuck, Core!cpuVars, Core!joinVars,
     Core!rosterVars, Core!mutexVars, Core!timerVars

LEMMA StepImplements ==
    ASSUME Accounts, ListTypes, [Next]_vars
    PROVE  [Core!Next]_(Core!vars)
<1> USE DEF Core!vars, Core!cpuVars, Core!joinVars, Core!rosterVars,
            Core!mutexVars, Core!timerVars
<1>1. ASSUME NEW t \in Thread,
             \/ CreateEnqueue(t) \/ YieldCharge(t) \/ Finish(t)
             \/ \E m \in Core!Mutex : LockWait(t, m)
             \/ OtherCall(t) \/ OtherMutexCall(t) \/ Preempt(t)
      PROVE  Core!Next
  <2>1. CASE CreateEnqueue(t) \/ YieldCharge(t) \/ Finish(t)
    BY <2>1, Zenon DEF CreateEnqueue, YieldCharge, Finish, Thread,
       Core!CallStep, Core!Next
  <2>2. CASE \E m \in Core!Mutex : LockWait(t, m)
    BY <2>2, Zenon DEF LockWait, Thread, Core!MutexStep, Core!Next
  <2>3. CASE OtherCall(t)
    BY <2>3, Zenon DEF OtherCall, Thread, Core!CallStep, Core!Next
  <2>4. CASE OtherMutexCall(t)
    BY <2>4, Zenon DEF OtherMutexCall, Thread, Core!MutexStep, Core!Next
  <2>5. CASE Preempt(t)
    BY <2>5, Zenon DEF Preempt, Thread, Core!Next
  <2> QED
    BY <1>1, <2>1, <2>2, <2>3, <2>4, <2>5
<1>2. CASE TimerExpires
  BY <1>2, Zenon DEF TimerExpires, Core!Next
<1>3. CASE Schedule
  <2>1. Core!Schedule(running') /\ running' \in Core!Thread
    <3>1. Core!Schedule(running')
      BY <1>3, ScheduleImplements
    <3>2. ToSet(q_arrival) \cup ToSet(tcbs) \cup ({running} \ {0}) \subseteq Thread
      BY ToSetProperties DEF ListTypes
    <3> QED
      BY <3>1, <3>2 DEF Core!Schedule, Thread
  <2> QED
    BY <2>1, Zenon DEF Core!Next
<1>4. CASE ScheduleStuck
  BY <1>4, StuckImplements, Zenon DEF Core!Next
<1>5. CASE Halted \/ UNCHANGED vars
  BY <1>5 DEF Halted, vars, listVars, coreVars
<1> QED
  BY <1>1, <1>2, <1>3, <1>4, <1>5, Zenon DEF Next

-----------------------------------------------------------------------------
(* The invariant is inductive.                                              *)

LEMMA CoreNext ==
    ASSUME Accounts, ListTypes, CoreInv, [Next]_vars
    PROVE  CoreInv'
<1>1. [Facts!Next]_(Facts!vars)
  BY StepImplements, SameSystem, Zenon
<1> QED
  BY <1>1, CoreAssumption, Facts!TypeInvNext, Facts!RosterNext, Zenon
     DEF CoreInv, Core!ConstantsAssumption

(* The disjointness that RosterPartition states, of the lists themselves.   *)
LEMMA InvApart ==
    ASSUME ListInv, CoreInv
    PROVE  Apart
<1>1. (ToSet(tcbs) \cup ({running} \ {0})) \cap ToSet(q_arrival) = {}
  BY DEF CoreInv, Facts!RosterPartition
<1>2. ToSet(q_arrival) \subseteq Thread /\ 0 \notin Thread
  BY CoreAssumption, ToSetProperties
     DEF ListInv, ListTypes, Thread, Core!Thread, Core!ConstantsAssumption
<1> QED
  BY <1>1, <1>2 DEF ListInv, Apart

(* A step that charges no thread but the running one leaves tcbs sorted.    *)
LEMMA SortedFrame ==
    ASSUME ListInv, UNCHANGED <<tcbs, running>>,
           \A u \in Thread : u # running => quanta'[u] = quanta[u] /\ used'[u] = used[u]
    PROVE  Sorted(tcbs)'
<1>1. \A i \in 1..Len(tcbs) : tcbs[i] \in Thread /\ tcbs[i] # running
  BY ToSetProperties DEF ListInv, ListTypes
<1> QED
  BY <1>1 DEF ListInv, Sorted, AtMostUsage

LEMMA ListFrame ==
    ASSUME ListInv, UNCHANGED <<listVars, running>>,
           \A u \in Thread : u # running => quanta'[u] = quanta[u] /\ used'[u] = used[u]
    PROVE  ListInv'
<1>1. Sorted(tcbs)'
  BY SortedFrame DEF listVars
<1> QED
  BY <1>1 DEF ListInv, ListTypes, listVars, Distinct, Thread

LEMMA ListSchedule ==
    ASSUME ListInv, Accounts, CoreInv, Schedule
    PROVE  ListInv'
<1>1. PICK ready, n : ready = Ready /\ n = FirstUnblocked
  OBVIOUS
<1>2. /\ ready \in Seq(Thread) /\ Distinct(ready) /\ Sorted(ready)
  BY <1>1, ReadyKeeps, InvApart DEF ListInv, ListTypes
<1>3. /\ n # 0 /\ running' = ready[n] /\ tcbs' = RemoveAt(ready, n)
      /\ q_arrival' = <<>> /\ UNCHANGED usageVars
  BY <1>1 DEF Schedule
<1>4. n \in 1..Len(ready)
  BY <1>1, <1>2, <1>3, FirstUnblockedIs
<1>5. /\ tcbs' \in Seq(Thread) /\ Distinct(tcbs') /\ ready[n] \notin ToSet(tcbs')
      /\ Sorted(tcbs')
  BY <1>2, <1>3, <1>4, RemovalKeeps
<1>6. Sorted(tcbs)'
  BY <1>3, <1>5 DEF Sorted, AtMostUsage, usageVars
<1>7. ready[n] \in Thread
  BY <1>2, <1>4
<1> QED
  BY <1>3, <1>5, <1>6, <1>7 DEF ListInv, ListTypes, Distinct, Thread

LEMMA ListCreate ==
    ASSUME ListInv, CoreInv, NEW t \in Thread, CreateEnqueue(t)
    PROVE  ListInv'
<1>1. /\ q_arrival' = Append(q_arrival, arg[t])
      /\ UNCHANGED <<tcbs, usageVars, running>>
      /\ pc[t] = "creating"
  BY DEF CreateEnqueue, Core!CreateEnqueue, Core!At
<1>2. arg[t] \in Thread /\ pc[arg[t]] = "absent"
  BY <1>1 DEF CoreInv, Facts!TypeInv, Facts!CreationInv, Thread, Core!Thread, Facts!Thread
<1>3. arg[t] \notin ToSet(q_arrival)
  BY <1>2 DEF CoreInv, Facts!RosterPartition, Facts!Thread, Thread, Core!Thread
<1> DEFINE u == arg[t]
<1>4. ToSet(q_arrival) = {q_arrival[i] : i \in 1..Len(q_arrival)}
  BY ToSetProperties DEF ListInv, ListTypes
<1> HIDE DEF u
<1>5. /\ Append(q_arrival, u) \in Seq(Thread)
      /\ Distinct(Append(q_arrival, u))
  BY <1>2, <1>3, <1>4 DEF ListInv, ListTypes, Distinct, u
<1>6. Sorted(tcbs)'
  BY <1>1 DEF ListInv, Sorted, AtMostUsage, usageVars
<1> QED
  BY <1>1, <1>5, <1>6 DEF ListInv, ListTypes, Distinct, Thread, u

LEMMA ChargeChanges ==
    ASSUME AccountInv, NEW t \in Thread,
           ChargeQuantum(t) \/ \E elapsed \in Elapsed : Charge(t, elapsed)
    PROVE  /\ Accounts'
           /\ \A u \in Thread : u # t => quanta'[u] = quanta[u] /\ used'[u] = used[u]
           /\ \A u \in Thread : quanta'[u] <= total' /\ used'[u] < TimeQuantum
           /\ \/ total' = total
              \/ total' = total + 1 /\ (ChargeQuantum(t) \/ QuantaLeft)
<1>1. TimeQuantum \in Nat \ {0}
  BY QuantumAssumption
<1>2. /\ quanta \in [Thread -> Nat] /\ used \in [Thread -> Nat] /\ total \in Nat
      /\ \A u \in Thread : quanta[u] <= total /\ used[u] < TimeQuantum
  BY DEF AccountInv, Accounts
<1>3. CASE ChargeQuantum(t)
  BY <1>1, <1>2, <1>3 DEF ChargeQuantum, Accounts, Thread
<1>4. ASSUME NEW elapsed \in Elapsed, Charge(t, elapsed), ~ ChargeQuantum(t)
      PROVE  /\ used' = [used EXCEPT ![t] = @ + elapsed]
             /\ UNCHANGED <<quanta, total>>
             /\ used[t] + elapsed < TimeQuantum
             /\ elapsed \in Nat
  BY <1>1, <1>2, <1>4 DEF Charge, Elapsed
<1>5. ASSUME NEW elapsed \in Elapsed, Charge(t, elapsed), ~ ChargeQuantum(t)
      PROVE  /\ Accounts'
             /\ \A u \in Thread : u # t => quanta'[u] = quanta[u] /\ used'[u] = used[u]
             /\ \A u \in Thread : quanta'[u] <= total' /\ used'[u] < TimeQuantum
             /\ total' = total
  BY <1>1, <1>2, <1>4, <1>5 DEF Accounts, Thread
<1>6. ChargeQuantum(t) => total' = total + 1
  BY DEF ChargeQuantum
<1> QED
  BY <1>3, <1>5, <1>6

(* The steps that charge nobody leave the timer's signal alone, too.        *)
LEMMA OtherFrame ==
    ASSUME NEW t \in Thread, OtherCall(t) \/ OtherMutexCall(t)
    PROVE  UNCHANGED <<listVars, usageVars, running, pending>>
<1> USE DEF Core!timerVars
<1>1. CASE OtherCall(t)
  BY <1>1 DEF OtherCall, Core!CreateTid, Core!JoinEnded, Core!JoinMiss, Core!JoinSetTid,
     Core!JoinSetRetval, Core!JoinReturn, Core!YieldClock, Core!YieldSwap, Core!Exit,
     Core!MainReturn, Core!CleanupFree, Core!CleanupEnd
<1>2. CASE OtherMutexCall(t)
  BY <1>2 DEF OtherMutexCall, Core!MutexInit, Core!LockAcquire, Core!LockMissing,
     Core!Unlock, Core!UnlockAssertFails, Core!DestroyFree, Core!DestroyHeld,
     Core!DestroyRemove, Core!DestroyMissing
<1> QED
  BY <1>1, <1>2

(* Who is charged is the running thread.                                    *)
LEMMA ChargeFrame ==
    ASSUME NEW t \in Thread,
           \/ YieldCharge(t) \/ Preempt(t)
           \/ \E m \in Core!Mutex : LockWait(t, m)
    PROVE  /\ UNCHANGED <<listVars, running>> /\ running = t
           /\ \/ pending /\ ~pending' /\ ChargeQuantum(t)
              \/ UNCHANGED pending /\ \E elapsed \in Elapsed : Charge(t, elapsed)
<1>1. CASE YieldCharge(t)
  BY <1>1 DEF YieldCharge, Core!YieldCharge, Core!At, Core!Executing, Core!timerVars
<1>2. CASE Preempt(t)
  BY <1>2 DEF Preempt, Core!Preempt
<1>3. CASE \E m \in Core!Mutex : LockWait(t, m)
  BY <1>3 DEF LockWait, Core!LockWait, Core!InLock, Core!At, Core!Executing, Core!timerVars
<1> QED
  BY <1>1, <1>2, <1>3

LEMMA ListNext ==
    ASSUME Inv, [Next]_vars
    PROVE  ListInv'
<1> USE DEF Inv
<1>1. ASSUME NEW t \in Thread, CreateEnqueue(t) PROVE ListInv'
  BY <1>1, ListCreate
<1>2. ASSUME NEW t \in Thread,
             \/ YieldCharge(t) \/ Preempt(t)
             \/ \E m \in Core!Mutex : LockWait(t, m)
      PROVE  ListInv'
  <2>1. UNCHANGED <<listVars, running>> /\ running = t
    BY <1>2, ChargeFrame
  <2>2. \A u \in Thread : u # t => quanta'[u] = quanta[u] /\ used'[u] = used[u]
    BY <1>2, ChargeFrame, ChargeChanges
  <2> QED
    BY <2>1, <2>2, ListFrame
<1>3. ASSUME NEW t \in Thread, OtherCall(t) \/ OtherMutexCall(t)
      PROVE  ListInv'
  BY <1>3, OtherFrame, ListFrame DEF usageVars
<1>4. ASSUME NEW t \in Thread, Finish(t) PROVE ListInv'
  <2>1. running' = 0 /\ UNCHANGED <<listVars, usageVars>>
    BY <1>4 DEF Finish, Core!Finish, Core!NoThread
  <2>2. 0 \notin ToSet(tcbs)
    BY CoreAssumption, ToSetProperties
       DEF ListInv, ListTypes, Thread, Core!Thread, Core!ConstantsAssumption
  <2> QED
    BY <2>1, <2>2 DEF ListInv, ListTypes, Distinct, Sorted, AtMostUsage, Thread,
       listVars, usageVars
<1>5. CASE Schedule
  BY <1>5, ListSchedule DEF AccountInv
<1>6. CASE TimerExpires \/ ScheduleStuck \/ Halted \/ UNCHANGED vars
  <2>1. UNCHANGED <<listVars, usageVars, running>>
    BY <1>6 DEF TimerExpires, ScheduleStuck, Halted, vars, coreVars
  <2> QED
    BY <2>1, ListFrame DEF usageVars
<1> QED
  BY <1>1, <1>2, <1>3, <1>4, <1>5, <1>6, Zenon DEF Next

LEMMA AccountFrame ==
    ASSUME AccountInv, UNCHANGED <<usageVars, pending>>
    PROVE  AccountInv'
  BY DEF AccountInv, Accounts, usageVars, Thread

LEMMA AccountNext ==
    ASSUME AccountInv, [Next]_vars
    PROVE  AccountInv'
<1>1. ASSUME NEW t \in Thread, CreateEnqueue(t) \/ Finish(t) PROVE AccountInv'
  <2>1. UNCHANGED <<usageVars, pending>>
    BY <1>1 DEF CreateEnqueue, Finish, Core!CreateEnqueue, Core!Finish, Core!timerVars
  <2> QED
    BY <2>1, AccountFrame
<1>2. ASSUME NEW t \in Thread,
             \/ YieldCharge(t) \/ Preempt(t)
             \/ \E m \in Core!Mutex : LockWait(t, m)
      PROVE  AccountInv'
  <2>1. ChargeQuantum(t) \/ \E elapsed \in Elapsed : Charge(t, elapsed)
    BY <1>2, ChargeFrame
  <2>2. /\ Accounts'
        /\ \A u \in Thread : quanta'[u] <= total' /\ used'[u] < TimeQuantum
    BY <2>1, ChargeChanges
  <2>3. total \in Nat /\ MaxQuanta \in Nat /\ total + (IF pending THEN 1 ELSE 0) <= MaxQuanta
    BY QuantumAssumption DEF AccountInv
  <2>4. CASE pending /\ ~pending' /\ ChargeQuantum(t)
    <3>1. total' = total + 1
      BY <2>4 DEF ChargeQuantum
    <3> QED
      BY <2>2, <2>3, <2>4, <3>1 DEF AccountInv, Thread
  <2>5. CASE UNCHANGED pending /\ \E elapsed \in Elapsed : Charge(t, elapsed)
    <3>1. total' = total \/ (total' = total + 1 /\ QuantaLeft)
      BY <2>5 DEF Charge, ChargeQuantum
    <3> QED
      BY <2>2, <2>3, <2>5, <3>1 DEF AccountInv, Thread, QuantaLeft
  <2> QED
    BY <1>2, <2>4, <2>5, ChargeFrame
<1>3. ASSUME NEW t \in Thread, OtherCall(t) \/ OtherMutexCall(t)
      PROVE  AccountInv'
  BY <1>3, OtherFrame, AccountFrame
<1>4. CASE TimerExpires
  <2>1. QuantaLeft /\ UNCHANGED usageVars /\ pending'
    BY <1>4 DEF TimerExpires, Core!TimerExpires
  <2> QED
    BY <2>1, QuantumAssumption DEF AccountInv, Accounts, usageVars, Thread, QuantaLeft
<1>5. CASE Schedule \/ ScheduleStuck \/ Halted \/ UNCHANGED vars
  BY <1>5, AccountFrame DEF Schedule, ScheduleStuck, Halted, vars, coreVars
<1> QED
  BY <1>1, <1>2, <1>3, <1>4, <1>5, Zenon DEF Next

-----------------------------------------------------------------------------
(* Theorems.                                                                *)

LEMMA InvInit == Init => Inv
<1> SUFFICES ASSUME Init PROVE Inv
  OBVIOUS
<1>1. Facts!Init
  BY SameSystem DEF Init
<1>2. CoreInv
  BY <1>1, CoreAssumption, Facts!TypeInvInit, Facts!RosterInit, Zenon
     DEF CoreInv, Core!ConstantsAssumption
<1>3. ListInv
  <2>1. /\ q_arrival = <<>> /\ tcbs = <<>> /\ running = 1
        /\ ToSet(tcbs) = {} /\ Len(tcbs) = 0
    BY DEF Init, Core!Main, ToSet
  <2>2. 1 \in Thread
    BY CoreAssumption DEF Thread, Core!Thread, Core!ConstantsAssumption
  <2> QED
    BY <2>1, <2>2 DEF ListInv, ListTypes, Distinct, Sorted
<1>4. AccountInv
  <2>1. pending = FALSE
    BY DEF Init, Core!Init
  <2> QED
    BY <2>1, QuantumAssumption DEF Init, AccountInv, Accounts
<1> QED
  BY <1>2, <1>3, <1>4 DEF Inv

LEMMA InvNext == Inv /\ [Next]_vars => Inv'
<1> SUFFICES ASSUME Inv, [Next]_vars PROVE Inv'
  OBVIOUS
<1>1. ListInv'
  BY ListNext
<1>2. AccountInv'
  BY AccountNext DEF Inv
<1>3. CoreInv'
  BY CoreNext DEF Inv, ListInv, AccountInv
<1> QED
  BY <1>1, <1>2, <1>3 DEF Inv

LEMMA Invariant == Spec => []Inv
  BY InvInit, InvNext, PTL DEF Spec

(* The types of the lists and the accounts that timer_signal_handler and    *)
(* worker_yield keep.  (That nothing reaches a whole quantum is             *)
(* QuantumCorrect.)                                                         *)
THEOREM TypeCorrect == Spec => []TypeOK
<1>1. Inv => TypeOK
  <2> SUFFICES ASSUME Inv PROVE TypeOK
    OBVIOUS
  <2>1. /\ q_arrival \in Seq(Thread) /\ tcbs \in Seq(Thread)
        /\ quanta \in [Thread -> Nat] /\ used \in [Thread -> Nat]
        /\ total \in Nat /\ \A t \in Thread : quanta[t] <= total
        /\ total <= MaxQuanta
    BY QuantumAssumption DEF Inv, ListInv, ListTypes, AccountInv, Accounts
  <2> QED
    BY <2>1, QuantumAssumption DEF TypeOK
<1> QED
  BY <1>1, Invariant, PTL

(* What insert_by_usage asserts: no thread is in the lists twice, and tcbs  *)
(* is sorted, because no account changes while its thread waits.            *)
THEOREM ListsCorrect == Spec => []ListsConsistent
<1>1. Inv => ListsConsistent
  <2> SUFFICES ASSUME Inv PROVE ListsConsistent
    OBVIOUS
  <2>1. Apart /\ ListTypes /\ Sorted(tcbs)
    BY InvApart DEF Inv, ListInv
  <2> DEFINE last == IF running = 0 THEN <<>> ELSE <<running>>
             front == q_arrival \o tcbs
             known == front \o last
  <2>2. /\ ToSet(q_arrival) = {q_arrival[i] : i \in 1..Len(q_arrival)}
        /\ ToSet(tcbs) = {tcbs[i] : i \in 1..Len(tcbs)}
    BY <2>1, ToSetProperties DEF ListTypes
  <2>3. /\ front \in Seq(Thread) /\ Len(front) = Len(q_arrival) + Len(tcbs)
        /\ Len(q_arrival) \in Nat /\ Len(tcbs) \in Nat
        /\ \A i \in 1..Len(front) :
              front[i] = IF i <= Len(q_arrival) THEN q_arrival[i]
                         ELSE tcbs[i - Len(q_arrival)]
    BY <2>1, ConcatProperties DEF ListTypes
  <2>4. ASSUME NEW i \in 1..Len(front), NEW j \in 1..Len(front), i < j
        PROVE  front[i] # front[j]
    <3>1. CASE j <= Len(q_arrival)
      <4>1. /\ i \in 1..Len(q_arrival) /\ j \in 1..Len(q_arrival) /\ i # j
            /\ front[i] = q_arrival[i] /\ front[j] = q_arrival[j]
        BY <2>3, <2>4, <3>1
      <4> QED
        BY <2>1, <4>1 DEF Apart, Distinct
    <3>2. CASE i <= Len(q_arrival) /\ j > Len(q_arrival)
      <4>1. /\ i \in 1..Len(q_arrival) /\ j - Len(q_arrival) \in 1..Len(tcbs)
            /\ front[i] = q_arrival[i] /\ front[j] = tcbs[j - Len(q_arrival)]
        BY <2>3, <3>2
      <4>2. front[i] \in ToSet(q_arrival) /\ front[j] \in ToSet(tcbs)
        BY <2>2, <4>1
      <4> QED
        BY <2>1, <4>2 DEF Apart
    <3>3. CASE i > Len(q_arrival)
      <4>1. /\ i - Len(q_arrival) \in 1..Len(tcbs) /\ j - Len(q_arrival) \in 1..Len(tcbs)
            /\ i - Len(q_arrival) # j - Len(q_arrival)
        BY <2>3, <2>4, <3>3
      <4>2. front[i] = tcbs[i - Len(q_arrival)] /\ front[j] = tcbs[j - Len(q_arrival)]
        BY <2>3, <2>4, <3>3
      <4> QED
        BY <2>1, <4>1, <4>2 DEF Apart, Distinct
    <3> QED
      BY <2>3, <3>1, <3>2, <3>3
  <2>5. ASSUME NEW i \in 1..Len(front) PROVE front[i] # running
    <3>1. CASE i <= Len(q_arrival)
      <4>1. i \in 1..Len(q_arrival) /\ front[i] = q_arrival[i]
        BY <2>3, <3>1
      <4> QED
        BY <2>1, <2>2, <4>1 DEF Apart
    <3>2. CASE i > Len(q_arrival)
      <4>1. i - Len(q_arrival) \in 1..Len(tcbs) /\ front[i] = tcbs[i - Len(q_arrival)]
        BY <2>3, <3>2
      <4> QED
        BY <2>1, <2>2, <4>1 DEF Apart
    <3> QED
      BY <2>3, <3>1, <3>2
  <2>6. \A i, j \in 1..Len(front) : i # j => front[i] # front[j]
    <3> SUFFICES ASSUME NEW i \in 1..Len(front), NEW j \in 1..Len(front), i # j
                 PROVE  front[i] # front[j]
      OBVIOUS
    <3>1. i < j \/ j < i
      BY <2>3
    <3> QED
      BY <2>4, <3>1
  <2>7. \A i, j \in 1..Len(known) : i # j => known[i] # known[j]
    <3>1. CASE running = 0
      <4>1. last = <<>>
        BY <3>1
      <4> HIDE DEF last, front
      <4>2. known = front
        BY <2>3, <4>1
      <4> QED
        BY <2>6, <4>2
    <3>2. CASE running # 0
      <4>1. last = <<running>>
        BY <3>2
      <4> HIDE DEF last, front
      <4>2. /\ Len(known) = Len(front) + 1 /\ Len(front) \in Nat
            /\ \A i \in 1..Len(front) : known[i] = front[i]
            /\ known[Len(front) + 1] = running
        BY <2>3, <4>1
      <4> HIDE DEF known
      <4>3. \A i \in 1..Len(known) : i \in 1..Len(front) \/ i = Len(front) + 1
        BY <4>2
      <4> QED
        BY <2>5, <2>6, <4>2, <4>3
    <3> QED
      BY <3>1, <3>2
  <2> HIDE DEF known
  <2>8. \A i, j \in 1..Len(tcbs) : i < j => AtMostUsage(tcbs[i], tcbs[j])
    BY <2>1 DEF Sorted
  <2> QED
    BY <2>7, <2>8, Zenon DEF ListsConsistent, known, front, last
<1> QED
  BY <1>1, Invariant, PTL

(* set_timer never gets a remaining quantum of zero.                        *)
THEOREM QuantumCorrect == Spec => []QuantumLeft
<1>1. Inv => QuantumLeft
  BY DEF Inv, AccountInv, QuantumLeft
<1> QED
  BY <1>1, Invariant, PTL

(* find_first_unblocked_thread returns a thread that has used least among   *)
(* all the unblocked ones, those just created or preempted included.        *)
THEOREM LeastUsageCorrect == Spec => LeastUsageFirst
<1> DEFINE Least ==
             cpu = "scheduler" /\ cpu' = "thread" =>
                 \A t \in ToSet(q_arrival) \cup ToSet(tcbs) \cup ({running} \ {0}) :
                     ~Core!Blocked(t) => AtMostUsage(running', t)
<1>1. Inv /\ [Next]_vars => [Least]_vars
  <2> SUFFICES ASSUME Inv, [Next]_vars, cpu = "scheduler", cpu' = "thread",
                      NEW t \in ToSet(q_arrival) \cup ToSet(tcbs) \cup ({running} \ {0}),
                      ~ Core!Blocked(t)
               PROVE  AtMostUsage(running', t)
    OBVIOUS
  <2>1. Schedule
    <3>1. \A u \in Thread : ~ CreateEnqueue(u) /\ ~ YieldCharge(u)
                            /\ ~ Finish(u) /\ ~ Preempt(u)
      BY DEF CreateEnqueue, Core!CreateEnqueue, YieldCharge, Core!YieldCharge,
         Finish, Core!Finish, Preempt, Core!Preempt,
         Core!At, Core!Executing
    <3>2. \A u \in Thread : ~ OtherCall(u)
      BY DEF OtherCall, Core!CreateTid, Core!JoinEnded, Core!JoinMiss, Core!JoinSetTid,
         Core!JoinSetRetval, Core!JoinReturn, Core!YieldClock, Core!YieldSwap, Core!Exit,
         Core!MainReturn, Core!CleanupFree, Core!CleanupEnd, Core!InitialCall, Core!At, Core!Executing
    <3>3. \A u \in Thread : ~ OtherMutexCall(u)
      BY DEF OtherMutexCall, Core!MutexInit, Core!LockAcquire, Core!LockMissing,
         Core!Unlock, Core!UnlockAssertFails, Core!DestroyFree, Core!DestroyHeld,
         Core!DestroyRemove, Core!DestroyMissing, Core!InLock, Core!InitialCall, Core!At, Core!Executing
    <3>4. \A u \in Thread, m \in Core!Mutex : ~ LockWait(u, m)
      BY DEF LockWait, Core!LockWait, Core!InLock, Core!At, Core!Executing
    <3>5. ~ TimerExpires /\ ~ ScheduleStuck /\ ~ Halted /\ cpu' # cpu
      BY DEF TimerExpires, Core!TimerExpires, Core!cpuVars, ScheduleStuck, Halted,
         vars, coreVars
    <3>6. ~ UNCHANGED vars
      BY <3>5 DEF vars, coreVars
    <3> QED
      BY <3>1, <3>2, <3>3, <3>4, <3>5, <3>6, Zenon DEF Next
  <2>2. PICK ready, n : ready = Ready /\ n = FirstUnblocked
    OBVIOUS
  <2>3. /\ ready \in Seq(Thread) /\ Sorted(ready)
        /\ ToSet(ready) = ToSet(q_arrival) \cup ToSet(tcbs) \cup ({running} \ {0})
    BY <2>2, ReadyKeeps DEF Inv, ListInv, ListTypes, AccountInv
  <2>4. n # 0 /\ running' = ready[n]
    BY <2>1, <2>2 DEF Schedule
  <2>5. /\ n \in 1..Len(ready)
        /\ \A j \in 1..Len(ready) : j < n => Core!Blocked(ready[j])
    BY <2>2, <2>3, <2>4, FirstUnblockedIs
  <2>6. PICK i \in 1..Len(ready) : t = ready[i]
    BY <2>3, ToSetProperties
  <2>7. i = n \/ n < i
    BY <2>5, <2>6
  <2>8. CASE i = n
    <3>1. t \in Thread
      BY <2>3, <2>6
    <3> QED
      BY <2>4, <2>6, <2>8, <3>1, UsageOrder DEF Inv, AccountInv
  <2>9. CASE n < i
    BY <2>3, <2>4, <2>5, <2>6, <2>9 DEF Sorted
  <2> QED
    BY <2>7, <2>8, <2>9
<1> QED
  BY <1>1, Invariant, PTL DEF Spec, LeastUsageFirst

(* The library with this policy is one of those that UserThreads describes: *)
(* its lists are the arrival and admitted sets.                             *)
THEOREM ImplementationCorrect == Spec => ImplementsUserThreads
<1>1. Init => Core!Init
  BY DEF Init
<1>2. Inv /\ [Next]_vars => [Core!Next]_(Core!vars)
  BY StepImplements DEF Inv, ListInv, AccountInv
<1> QED
  BY <1>1, <1>2, Invariant, PTL DEF Spec, ImplementsUserThreads, Core!Spec

(* Hence what UserThreads guarantees holds with this policy, in particular  *)
(* that its calls exclude and wake, and that its timer is not forgotten.    *)
THEOREM GuaranteesCarryOver ==
    Spec => [](/\ Facts!RosterPartition /\ Facts!MutualExclusion
               /\ Facts!JoinAfterEnd /\ Facts!JoinValueOfTarget
               /\ Facts!HolderKeepsMutex /\ Facts!SeekersAwaitHolder
               /\ Facts!TimerOffOnlyIfOthersJoin /\ Facts!CleanExitTimerOff)
<1>1. Init => Facts!Init
  BY SameSystem DEF Init
<1>2. Inv /\ [Next]_vars => [Facts!Next]_(Facts!vars)
  BY StepImplements, SameSystem, Zenon DEF Inv, ListInv, AccountInv
<1>3. Spec => Facts!Spec
  BY <1>1, <1>2, Invariant, PTL DEF Spec, Facts!Spec
<1>4. Facts!Spec => [](/\ Facts!RosterPartition /\ Facts!MutualExclusion
                       /\ Facts!JoinAfterEnd /\ Facts!JoinValueOfTarget
                       /\ Facts!HolderKeepsMutex /\ Facts!SeekersAwaitHolder
                       /\ Facts!TimerOffOnlyIfOthersJoin /\ Facts!CleanExitTimerOff)
  BY CoreAssumption, Facts!RosterCorrect, Facts!MutualExclusionCorrect,
     Facts!JoinCorrect, Facts!JoinValueCorrect, Facts!HolderCorrect,
     Facts!NoLostWaiter, Facts!TimerCorrect, Facts!CleanExitCorrect, PTL
     DEF Core!ConstantsAssumption
<1> QED
  BY <1>3, <1>4, PTL
=============================================================================
