----------------------------- MODULE Mlfq_proofs -----------------------------
(***************************************************************************)
(* Theorems about Mlfq, for every number of threads, of levels and every   *)
(* period of the boost: it implements UserThreads, no rotation, demotion   *)
(* or boost loses, duplicates or misplaces a thread, and the thread it     *)
(* picks is one of the highest priority.                                   *)
(***************************************************************************)
EXTENDS Mlfq, Lemmas

(* The theorems about UserThreads, of the threads in q_arrival and tcbs.   *)
Facts == INSTANCE UserThreads_proofs WITH
             arrival  <- ToSet(q_arrival),
             admitted <- tcbs \cup ({running} \ {0})

Family == [Level -> Seq(Thread)]

(* The threads of a family of queues.                                      *)
Members(queues) == UNION {ToSet(queues[l]) : l \in Level}

(* Every thread stands in the queue of its level, once.                    *)
Placed(queues, lev) ==
    \A l \in Level : /\ Distinct(queues[l])
                     /\ \A t \in ToSet(queues[l]) : lev[t] = l

-----------------------------------------------------------------------------
(* The system that UserThreads_proofs is about is the one that Mlfq names   *)
(* Core: the definitions are the same, letter by letter.                    *)
LEMMA SameSystem ==
    /\ Core!Init <=> Facts!Init
    /\ [Core!Next]_(Core!vars) <=> [Facts!Next]_(Facts!vars)
<1>1. Core!Init <=> Facts!Init
  BY Zenon
  DEF Core!Init, Facts!Init, Core!Thread, Facts!Thread, Core!Mutex,
      Facts!Mutex, Core!Main, Facts!Main, Core!NoThread, Facts!NoThread,
      Core!NoMutex, Facts!NoMutex
<1>2. UNCHANGED Core!vars <=> UNCHANGED Facts!vars
  BY Zenon
  DEF Core!vars, Facts!vars, Core!cpuVars, Facts!cpuVars, Core!joinVars,
      Facts!joinVars, Core!rosterVars, Facts!rosterVars, Core!mutexVars,
      Facts!mutexVars, Core!timerVars, Facts!timerVars
<1>3. Core!Next <=> Facts!Next
  BY Zenon
  DEF Core!Thread, Facts!Thread, Core!Mutex, Facts!Mutex, Core!NoThread,
      Facts!NoThread, Core!Main, Facts!Main, Core!NoMutex, Facts!NoMutex,
      Core!joinVars, Facts!joinVars, Core!rosterVars, Facts!rosterVars,
      Core!mutexVars, Facts!mutexVars, Core!timerVars, Facts!timerVars,
      Core!cpuVars, Facts!cpuVars, Core!vars, Facts!vars, Core!Known,
      Facts!Known, Core!Blocked, Facts!Blocked, Core!Unmasked, Facts!Unmasked,
      Core!Executing, Facts!Executing, Core!At, Facts!At, Core!InitialCall,
      Facts!InitialCall, Core!Goto, Facts!Goto, Core!Waiters, Facts!Waiters,
      Core!Broadcast, Facts!Broadcast, Core!Joiners, Facts!Joiners,
      Core!RemainingBlocked, Facts!RemainingBlocked, Core!CreateTid,
      Facts!CreateTid, Core!CreateEnqueue, Facts!CreateEnqueue,
      Core!JoinEnded, Facts!JoinEnded, Core!JoinMiss, Facts!JoinMiss,
      Core!JoinSetTid, Facts!JoinSetTid, Core!JoinSetRetval,
      Facts!JoinSetRetval, Core!JoinReturn, Facts!JoinReturn, Core!YieldClock,
      Facts!YieldClock, Core!YieldCharge, Facts!YieldCharge, Core!YieldSwap,
      Facts!YieldSwap, Core!MutexInit, Facts!MutexInit, Core!InLock,
      Facts!InLock, Core!IsFree, Facts!IsFree, Core!LockAcquire,
      Facts!LockAcquire, Core!LockWait, Facts!LockWait, Core!Missed,
      Facts!Missed, Core!LockMissing, Facts!LockMissing, Core!Unlock,
      Facts!Unlock, Core!UnlockAssertFails, Facts!UnlockAssertFails,
      Core!DestroyFree, Facts!DestroyFree, Core!DestroyHeld,
      Facts!DestroyHeld, Core!DestroyRemove, Facts!DestroyRemove, Core!Exit,
      Facts!Exit, Core!Delivered, Facts!Delivered, Core!NullWrite,
      Facts!NullWrite, Core!StrayWrite, Facts!StrayWrite, Core!Reap,
      Facts!Reap, Core!Finish, Facts!Finish, Core!NothingLeft,
      Facts!NothingLeft, Core!MainReturn, Facts!MainReturn, Core!CleanupFree,
      Facts!CleanupFree, Core!CleanupAbort, Facts!CleanupAbort,
      Core!CleanupEnd, Facts!CleanupEnd, Core!DestroyMissing,
      Facts!DestroyMissing, Core!SetTimer, Facts!SetTimer, Core!TimerExpires,
      Facts!TimerExpires, Core!Preempt, Facts!Preempt, Core!Schedule,
      Facts!Schedule, Core!ScheduleStuck, Facts!ScheduleStuck, Core!Halted,
      Facts!Halted, Core!CallStep, Facts!CallStep, Core!MutexStep,
      Facts!MutexStep, Core!Next, Facts!Next
<1> QED
  BY <1>1, <1>2, <1>3
-----------------------------------------------------------------------------
(* The scheduler's queues.                                                  *)

(* The invariant of the queues.                                             *)
QueueTypes ==
    /\ q_arrival \in Seq(Thread)
    /\ tcbs \subseteq Thread
    /\ all_queue \in Family
    /\ level \in [Thread -> Level]
    /\ running \in Thread \cup {0}

(* Every thread of tcbs but the running one is in one queue, once, and the  *)
(* threads the scheduler has not taken over yet will start at the top.      *)
QueueInv ==
    /\ QueueTypes
    /\ Placed(all_queue, level)
    /\ Members(all_queue) = tcbs \ {running}
    /\ Distinct(q_arrival)
    /\ \A t \in Thread : t \notin tcbs \cup {running} \cup ended => level[t] = 0

CoreInv == Facts!TypeInv /\ Facts!RosterPartition

LEMMA LevelZero == 0 \in Level /\ Levels \in Nat \ {0} /\ Level \subseteq Nat
  BY MlfqAssumption DEF Level

LEMMA ThreadIsNotZero == 0 \notin Thread /\ Core!NoThread = 0 /\ 1 \in Thread
  BY CoreAssumption DEF Core!ConstantsAssumption, Thread, Core!Thread, Core!NoThread

LEMMA TurnLevel ==
    ASSUME level \in [Thread -> Level], NEW t \in Thread
    PROVE  LevelAfterTurn(t) \in Level
<1>1. level[t] \in 0..(Levels - 1) /\ Levels \in Nat
  BY LevelZero DEF Level
<1> QED
  BY <1>1 DEF LevelAfterTurn, Level

(* The roster's parts are disjoint.                                         *)
LEMMA RosterApart ==
    ASSUME QueueInv, CoreInv
    PROVE  /\ tcbs \cap ToSet(q_arrival) = {}
           /\ running \notin ToSet(q_arrival)
           /\ \A t \in ToSet(q_arrival) : level[t] = 0
<1>1. /\ (tcbs \cup ({running} \ {0})) \cap ToSet(q_arrival) = {}
      /\ ended \cap ToSet(q_arrival) = {}
  BY DEF CoreInv, Facts!RosterPartition
<1>2. ToSet(q_arrival) \subseteq Thread
  BY ToSetProperties DEF QueueInv, QueueTypes
<1>3. tcbs \cap ToSet(q_arrival) = {} /\ running \notin ToSet(q_arrival)
  BY <1>1, <1>2, ThreadIsNotZero
<1> QED
  BY <1>1, <1>2, <1>3 DEF QueueInv

(* The levels once the running thread is demoted if need be.                *)
TurnLevels == [t \in Thread |-> IF t = running THEN LevelAfterTurn(t) ELSE level[t]]

(* The queues with the arrivals and the running thread hold the roster.     *)
LEMMA QueuesKeep ==
    ASSUME QueueInv, CoreInv, NEW queues, queues = Queues
    PROVE  /\ queues \in Family
           /\ Placed(queues, TurnLevels)
           /\ Members(queues) = Roster
<1> DEFINE top == all_queue[0] \o q_arrival
           arrived == [all_queue EXCEPT ![0] = top]
<1>1. /\ all_queue \in Family /\ q_arrival \in Seq(Thread) /\ level \in [Thread -> Level]
      /\ all_queue[0] \in Seq(Thread) /\ Distinct(all_queue[0]) /\ Distinct(q_arrival)
      /\ 0 \in Level
  BY LevelZero DEF QueueInv, QueueTypes, Placed, Family
<1>2. /\ \A l \in Level : ToSet(all_queue[l]) \subseteq tcbs \ {running}
      /\ Members(all_queue) = tcbs \ {running}
      /\ \A l \in Level : \A t \in ToSet(all_queue[l]) : level[t] = l
      /\ \A l \in Level : Distinct(all_queue[l])
  BY DEF QueueInv, Members, Placed
<1>3. ToSet(all_queue[0]) \cap ToSet(q_arrival) = {}
  BY <1>1, <1>2, RosterApart
<1>4. /\ top \in Seq(Thread)
      /\ ToSet(top) = ToSet(all_queue[0]) \cup ToSet(q_arrival)
      /\ Distinct(top)
  BY <1>1, <1>3, ConcatKeeps
<1> HIDE DEF top
<1>5. arrived \in Family /\ arrived[0] = top
      /\ \A l \in Level : l # 0 => arrived[l] = all_queue[l]
  BY <1>1, <1>4 DEF Family
<1> HIDE DEF arrived
<1>6. ToSet(q_arrival) \subseteq Thread
  BY <1>1, ToSetProperties
<1>7. ASSUME NEW l \in Level
      PROVE  /\ Distinct(arrived[l]) /\ running \notin ToSet(arrived[l])
             /\ arrived[l] \in Seq(Thread)
             /\ \A t \in ToSet(arrived[l]) : t \in Thread /\ TurnLevels[t] = l
  <2>1. Distinct(arrived[l]) /\ arrived[l] \in Seq(Thread)
    BY <1>2, <1>4, <1>5 DEF Family
  <2>2. ToSet(arrived[l]) \subseteq Thread
    BY <2>1, ToSetProperties
  <2>3. running \notin ToSet(arrived[l])
    BY <1>2, <1>4, <1>5, RosterApart
  <2>4. \A t \in ToSet(arrived[l]) : level[t] = l
    BY <1>2, <1>4, <1>5, RosterApart
  <2> QED
    BY <2>1, <2>2, <2>3, <2>4 DEF TurnLevels
<1>8. Members(arrived) = (tcbs \ {running}) \cup ToSet(q_arrival)
  <2>1. \A l \in Level : ToSet(arrived[l]) = ToSet(all_queue[l])
                             \cup (IF l = 0 THEN ToSet(q_arrival) ELSE {})
    BY <1>4, <1>5
  <2> QED
    BY <1>1, <1>2, <2>1 DEF Members
<1>9. queues = IF running = 0 THEN arrived
               ELSE [arrived EXCEPT ![LevelAfterTurn(running)] =
                         Append(arrived[LevelAfterTurn(running)], running)]
  BY ThreadIsNotZero DEF Queues, arrived, top
<1>10. CASE running = 0
  <2>1. Roster = (tcbs \ {running}) \cup ToSet(q_arrival)
    BY <1>10, ThreadIsNotZero DEF Roster, QueueInv, QueueTypes
  <2>2. queues = arrived
    BY <1>9, <1>10
  <2> QED
    BY <1>5, <1>7, <1>8, <2>1, <2>2 DEF Placed
<1>11. CASE running # 0
  <2> DEFINE m == LevelAfterTurn(running)
             longer == Append(arrived[m], running)
  <2>1. running \in Thread /\ m \in Level /\ TurnLevels[running] = m
    BY <1>1, <1>11, TurnLevel DEF QueueInv, QueueTypes, TurnLevels
  <2>2. arrived[m] \in Seq(Thread) /\ Distinct(arrived[m]) /\ running \notin ToSet(arrived[m])
    BY <1>7, <2>1
  <2>3. /\ queues \in Family /\ queues[m] = longer
        /\ \A l \in Level : l # m => queues[l] = arrived[l]
    <3> HIDE DEF m
    <3> QED
      BY <1>5, <1>9, <1>11, <2>1, <2>2 DEF Family, m
  <2> HIDE DEF m
  <2>4. ToSet(longer) = ToSet(arrived[m]) \cup {running} /\ Distinct(longer)
    <3> DEFINE one == <<running>>
    <3>1. /\ one \in Seq(Thread) /\ ToSet(one) = {running} /\ Distinct(one)
          /\ longer = arrived[m] \o one
      BY <2>1, <2>2 DEF ToSet, Distinct
    <3> HIDE DEF longer, one
    <3>2. ToSet(arrived[m]) \cap ToSet(one) = {}
      BY <2>2, <3>1
    <3>3. /\ ToSet(arrived[m] \o one) = ToSet(arrived[m]) \cup ToSet(one)
          /\ Distinct(arrived[m] \o one)
      BY <2>2, <3>1, <3>2, ConcatKeeps
    <3> QED
      BY <3>1, <3>3
  <2> HIDE DEF longer
  <2>5. Placed(queues, TurnLevels)
    BY <1>7, <2>1, <2>3, <2>4 DEF Placed
  <2>6. \A l \in Level : ToSet(queues[l]) = ToSet(arrived[l])
                             \cup (IF l = m THEN {running} ELSE {})
    BY <2>3, <2>4
  <2>7. Members(queues) = Members(arrived) \cup {running}
    BY <2>1, <2>6 DEF Members
  <2>8. Roster = (tcbs \ {running}) \cup ToSet(q_arrival) \cup {running}
    BY <2>1, <1>11 DEF Roster
  <2> QED
    BY <1>8, <2>3, <2>5, <2>7, <2>8
<1> QED
  BY <1>10, <1>11

(* The boost moves everybody to the top and loses nobody.                   *)
LEMMA BoostKeeps ==
    ASSUME NEW queues \in Family, queues = Queues, NEW lev, Placed(queues, lev),
           NEW boosted, boosted = Boosted
    PROVE  /\ boosted \in Family
           /\ Members(boosted) = Members(queues)
           /\ Distinct(boosted[0])
           /\ \A l \in Level : l # 0 => boosted[l] = <<>>
<1> DEFINE n == Levels - 1
           lists == [l \in 1..n |-> queues[l]]
           lower == FlattenSeq(lists)
<1>1. /\ n \in Nat /\ \A l \in 1..n : l \in Level /\ l # 0
      /\ \A l \in Level : l = 0 \/ l \in 1..n
      /\ 0 \in Level
  BY LevelZero DEF Level
<1>2. lists \in [1..n -> Seq(Thread)]
  BY <1>1 DEF Family
<1>3. \A i \in 1..n : Distinct(lists[i])
  BY <1>1 DEF Placed
<1>4. \A i, j \in 1..n : i # j => ToSet(lists[i]) \cap ToSet(lists[j]) = {}
  BY <1>1 DEF Placed
<1>5. boosted = [l \in Level |-> IF l = 0 THEN queues[0] \o lower ELSE <<>>]
  BY Zenon DEF Boosted
<1>6. \A i \in 1..n : lists[i] = queues[i]
  OBVIOUS
<1> HIDE DEF n, lists
<1>7. /\ lower \in Seq(Thread)
      /\ ToSet(lower) = UNION {ToSet(lists[i]) : i \in 1..n}
      /\ Distinct(lower)
  BY <1>1, <1>2, <1>3, <1>4, FlattenKeeps
<1> HIDE DEF lower
<1>8. queues[0] \in Seq(Thread) /\ Distinct(queues[0])
  BY <1>1 DEF Family, Placed
<1>9. ToSet(queues[0]) \cap ToSet(lower) = {}
  <2>1. ASSUME NEW i \in 1..n PROVE ToSet(queues[0]) \cap ToSet(lists[i]) = {}
    <3>1. /\ i \in Level /\ i # 0 /\ 0 \in Level /\ lists[i] = queues[i]
      BY <1>1, <1>6
    <3>2. /\ \A t \in ToSet(queues[0]) : lev[t] = 0
          /\ \A t \in ToSet(queues[i]) : lev[t] = i
      BY <3>1 DEF Placed
    <3> QED
      BY <3>1, <3>2
  <2> QED
    BY <1>7, <2>1
<1>10. /\ queues[0] \o lower \in Seq(Thread)
       /\ ToSet(queues[0] \o lower) = ToSet(queues[0]) \cup ToSet(lower)
       /\ Distinct(queues[0] \o lower)
  BY <1>7, <1>8, <1>9, ConcatKeeps
<1> DEFINE top == queues[0] \o lower
<1> HIDE DEF top
<1>11. boosted \in Family /\ boosted[0] = top /\ \A l \in Level : l # 0 => boosted[l] = <<>>
  BY <1>1, <1>5, <1>10 DEF Family, top
<1>12. Members(boosted) = ToSet(top)
  <2>1. ToSet(<<>>) = {}
    BY DEF ToSet
  <2>2. \A l \in Level : ToSet(boosted[l]) = IF l = 0 THEN ToSet(top) ELSE {}
    BY <1>11, <2>1
  <2> QED
    BY <1>1, <2>2 DEF Members
<1>13. Members(queues) = ToSet(queues[0]) \cup ToSet(lower)
  BY <1>1, <1>6, <1>7 DEF Members
<1> QED
  BY <1>10, <1>11, <1>12, <1>13 DEF top

(* The levels once the boost, if one is due, has reset them.                *)
NewLevels == [t \in Thread |-> IF t \in BoostedThreads THEN 0 ELSE TurnLevels[t]]

LEMMA ChoiceKeeps ==
    ASSUME QueueInv, CoreInv, NEW queues, queues = QueuesBeforeChoice
    PROVE  /\ queues \in Family
           /\ Placed(queues, NewLevels)
           /\ Members(queues) = Roster
<1>1. PICK before : before = Queues
  OBVIOUS
<1>2. before \in Family /\ Placed(before, TurnLevels) /\ Members(before) = Roster
  BY <1>1, QueuesKeep
<1>3. 0 \in Level
  BY LevelZero
<1>4. \A l \in Level : ToSet(before[l]) \subseteq Thread
  BY <1>2, ToSetProperties DEF Family
<1>5. CASE ~ BoostDue
  <2>1. queues = before /\ BoostedThreads = {}
    BY <1>1, <1>5 DEF QueuesBeforeChoice, BoostedThreads
  <2>2. \A t \in Thread : NewLevels[t] = TurnLevels[t]
    BY <2>1 DEF NewLevels
  <2> QED
    BY <1>2, <1>4, <2>1, <2>2 DEF Placed
<1>6. CASE BoostDue
  <2>1. PICK boosted : boosted = Boosted
    OBVIOUS
  <2>2. queues = boosted
    BY <1>6, <2>1 DEF QueuesBeforeChoice
  <2>3. /\ boosted \in Family /\ Members(boosted) = Members(before)
        /\ Distinct(boosted[0])
        /\ \A l \in Level : l # 0 => boosted[l] = <<>>
    BY <1>1, <1>2, <2>1, BoostKeeps
  <2>4. BoostedThreads = UNION {ToSet(before[l]) : l \in Level \ {0}}
    BY <1>1, <1>6, Zenon DEF BoostedThreads
  <2>5. ToSet(<<>>) = {} /\ Distinct(<<>>)
    BY DEF ToSet, Distinct
  <2>6. Members(boosted) = ToSet(boosted[0])
    <3>1. \A l \in Level : l # 0 => ToSet(boosted[l]) = {}
      BY <2>3, <2>5
    <3> QED
      BY <1>3, <3>1 DEF Members
  <2>7. ASSUME NEW t \in ToSet(boosted[0]) PROVE NewLevels[t] = 0
    <3>1. PICK l \in Level : t \in ToSet(before[l])
      BY <2>3, <2>6, <2>7 DEF Members
    <3>2. t \in Thread /\ TurnLevels[t] = l
      BY <1>2, <1>4, <3>1 DEF Placed
    <3>3. l # 0 => t \in BoostedThreads
      BY <2>4, <3>1
    <3> QED
      BY <3>2, <3>3 DEF NewLevels
  <2>8. Placed(boosted, NewLevels)
    BY <2>3, <2>5, <2>7 DEF Placed
  <2> QED
    BY <1>2, <2>2, <2>3, <2>8
<1> QED
  BY <1>5, <1>6

LEMMA NewLevelsType ==
    ASSUME QueueTypes
    PROVE  NewLevels \in [Thread -> Level]
  BY LevelZero, TurnLevel DEF QueueTypes, NewLevels, TurnLevels

(* A stretch of a list.                                                     *)
Stretch(list, a, b) == {list[k] : k \in a..b}

LEMMA StretchKeeps ==
    ASSUME NEW list \in Seq(Thread), NEW a \in 1..(Len(list) + 1), NEW b \in 0..Len(list)
    PROVE  /\ SubSeq(list, a, b) \in Seq(Thread)
           /\ ToSet(SubSeq(list, a, b)) = Stretch(list, a, b)
           /\ Distinct(list) => Distinct(SubSeq(list, a, b))
<1>0. PICK part : part = SubSeq(list, a, b)
  OBVIOUS
<1>1. /\ part \in Seq(Thread) /\ Len(part) \in Nat
      /\ Len(part) = IF a <= b THEN b - a + 1 ELSE 0
      /\ \A i \in 1..Len(part) : part[i] = list[a + i - 1]
  BY <1>0
<1>2. /\ \A i \in 1..Len(part) : a + i - 1 \in a..b /\ a + i - 1 \in 1..Len(list)
      /\ \A k \in a..b : k - a + 1 \in 1..Len(part) /\ a + (k - a + 1) - 1 = k
  BY <1>1
<1>3. ToSet(part) = {part[i] : i \in 1..Len(part)}
  <2>1. part \in Seq(Thread)
    BY <1>1
  <2> QED
    BY ONLY <2>1, ToSetProperties
<1>4. ToSet(part) = Stretch(list, a, b)
  <2>1. ASSUME NEW i \in 1..Len(part) PROVE \E k \in a..b : part[i] = list[k]
    BY <1>1, <1>2
  <2>2. ASSUME NEW k \in a..b PROVE \E i \in 1..Len(part) : part[i] = list[k]
    <3>1. /\ k - a + 1 \in 1..Len(part)
          /\ part[k - a + 1] = list[a + (k - a + 1) - 1]
          /\ a + (k - a + 1) - 1 = k
      BY <1>1, <1>2
    <3> QED
      BY <3>1
  <2> QED
    <3>1. ToSet(part) \subseteq Stretch(list, a, b)
      BY <1>3, <2>1 DEF Stretch
    <3>2. Stretch(list, a, b) \subseteq ToSet(part)
      BY <1>3, <2>2 DEF Stretch
    <3> QED
      BY <3>1, <3>2
<1>5. ASSUME Distinct(list), NEW i \in 1..Len(part), NEW j \in 1..Len(part), i # j
      PROVE  part[i] # part[j]
  <2>1. a + i - 1 # a + j - 1
    BY <1>5
  <2> QED
    BY <1>1, <1>2, <1>5, <2>1 DEF Distinct
<1> QED
  BY <1>0, <1>1, <1>4, <1>5 DEF Distinct

(* The choice takes one thread out of its queue and turns the rest around.  *)
LEMMA TakeKeeps ==
    ASSUME NEW list \in Seq(Thread), Distinct(list), NEW n \in 1..Len(list),
           NEW rest, rest = Take(list, n)
    PROVE  /\ rest \in Seq(Thread)
           /\ ToSet(rest) = ToSet(list) \ {list[n]}
           /\ Distinct(rest)
<1>1. PICK back : back = SubSeq(list, n + 1, Len(list))
  OBVIOUS
<1>2. PICK front : front = SubSeq(list, 1, n - 1)
  OBVIOUS
<1>3. /\ back \in Seq(Thread) /\ Distinct(back)
      /\ ToSet(back) = {list[k] : k \in (n + 1)..Len(list)}
  <2>1. n + 1 \in 1..(Len(list) + 1) /\ Len(list) \in 0..Len(list)
    OBVIOUS
  <2>2. back \in Seq(Thread) /\ Distinct(back) /\ ToSet(back) = Stretch(list, n + 1, Len(list))
    BY <1>1, <2>1, StretchKeeps
  <2> QED
    BY <2>2, Zenon DEF Stretch
<1>4. /\ front \in Seq(Thread) /\ Distinct(front)
      /\ ToSet(front) = {list[k] : k \in 1..(n - 1)}
  <2>1. 1 \in 1..(Len(list) + 1) /\ n - 1 \in 0..Len(list)
    OBVIOUS
  <2>2. front \in Seq(Thread) /\ Distinct(front) /\ ToSet(front) = Stretch(list, 1, n - 1)
    BY <1>2, <2>1, StretchKeeps
  <2> QED
    BY <2>2, Zenon DEF Stretch
<1>5. \A k, l \in 1..Len(list) : k # l => list[k] # list[l]
  BY DEF Distinct
<1>6. ToSet(back) \cap ToSet(front) = {}
  <2>1. ASSUME NEW k \in (n + 1)..Len(list), NEW l \in 1..(n - 1) PROVE list[k] # list[l]
    <3>1. k \in 1..Len(list) /\ l \in 1..Len(list) /\ k # l
      OBVIOUS
    <3> QED
      BY <1>5, <3>1
  <2> QED
    BY <1>3, <1>4, <2>1
<1>7. rest = back \o front
  BY <1>1, <1>2 DEF Take
<1>8. /\ rest \in Seq(Thread) /\ Distinct(rest)
      /\ ToSet(rest) = ToSet(back) \cup ToSet(front)
  <2>1. back \in Seq(Thread) /\ front \in Seq(Thread)
    BY <1>3, <1>4
  <2> QED
    BY ONLY <1>3, <1>4, <1>6, <1>7, <2>1, ConcatKeeps
<1>9. ToSet(list) = {list[k] : k \in 1..Len(list)}
  BY ToSetProperties
<1>10. ToSet(rest) = ToSet(list) \ {list[n]}
  <2>1. ASSUME NEW k \in 1..Len(list)
        PROVE  list[k] \in ToSet(rest) <=> k # n
    <3>1. CASE k < n
      <4>1. k \in 1..(n - 1)
        BY <3>1
      <4> QED
        BY <1>4, <1>8, <3>1, <4>1
    <3>2. CASE k > n
      <4>1. k \in (n + 1)..Len(list)
        BY <3>2
      <4> QED
        BY <1>3, <1>8, <3>2, <4>1
    <3>3. CASE k = n
      <4>1. list[n] \notin ToSet(back) /\ list[n] \notin ToSet(front)
        <5>1. \A l \in (n + 1)..Len(list) : l \in 1..Len(list) /\ l # n
          OBVIOUS
        <5>2. \A l \in 1..(n - 1) : l \in 1..Len(list) /\ l # n
          OBVIOUS
        <5> QED
          BY <1>3, <1>4, <1>5, <5>1, <5>2
      <4> QED
        BY <1>8, <3>3, <4>1
    <3> QED
      BY <3>1, <3>2, <3>3
  <2>2. ToSet(rest) \subseteq ToSet(list)
    <3>1. \A l \in (n + 1)..Len(list) : l \in 1..Len(list)
      OBVIOUS
    <3>2. \A l \in 1..(n - 1) : l \in 1..Len(list)
      OBVIOUS
    <3> QED
      BY <1>3, <1>4, <1>8, <1>9, <3>1, <3>2
  <2> QED
    BY <1>9, <2>1, <2>2
<1> QED
  BY <1>8, <1>10

-----------------------------------------------------------------------------
(* The choice.                                                              *)

LEMMA FirstUnblockedIs ==
    ASSUME NEW queue \in Seq(Thread), NEW n, n = FirstUnblocked(queue)
    PROVE  /\ n = 0 <=> \A t \in ToSet(queue) : Core!Blocked(t)
           /\ n # 0 => n \in 1..Len(queue) /\ ~ Core!Blocked(queue[n])
<1> DEFINE I == {i \in 1..Len(queue) : ~ Core!Blocked(queue[i])}
<1>1. n = (IF I # {} THEN Min(I) ELSE 0)
  BY DEF FirstUnblocked, SelectInSeq
<1>2. Len(queue) \in Nat /\ I \in SUBSET (1..Len(queue))
  OBVIOUS
<1>3. /\ n \in 0..Len(queue)
      /\ n = 0 <=> I = {}
      /\ n # 0 => n \in I
  <2> HIDE DEF I
  <2> QED
    BY <1>1, <1>2, FirstOf
<1>4. ToSet(queue) = {queue[i] : i \in 1..Len(queue)}
  BY ToSetProperties
<1> QED
  BY <1>3, <1>4

LEMMA CandidatesAre ==
    ASSUME NEW queues \in Family, queues = QueuesBeforeChoice
    PROVE  /\ \A l \in Level :
                 l \in Candidates <=> \E t \in ToSet(queues[l]) : ~ Core!Blocked(t)
           /\ Candidates # {} =>
                 /\ HighestCandidate \in Candidates
                 /\ \A l \in Candidates : HighestCandidate <= l
           /\ Candidates \subseteq Level
<1>1. ASSUME NEW l \in Level
      PROVE  l \in Candidates <=> \E t \in ToSet(queues[l]) : ~ Core!Blocked(t)
  <2>1. queues[l] \in Seq(Thread)
    BY DEF Family
  <2>2. PICK n : n = FirstUnblocked(queues[l])
    OBVIOUS
  <2>3. n = 0 <=> \A t \in ToSet(queues[l]) : Core!Blocked(t)
    BY <2>1, <2>2, FirstUnblockedIs
  <2> QED
    BY <2>2, <2>3 DEF Candidates
<1>2. Candidates \subseteq Level
  BY DEF Candidates
<1>3. ASSUME Candidates # {}
      PROVE  /\ HighestCandidate \in Candidates
             /\ \A l \in Candidates : HighestCandidate <= l
  <2>1. Candidates \in SUBSET Nat
    BY <1>2, LevelZero
  <2>2. \E l \in Candidates : \A k \in Candidates : l <= k
    BY <1>3, <2>1, LeastElement
  <2> QED
    BY <2>2, Zenon DEF HighestCandidate
<1> QED
  BY <1>1, <1>2, <1>3

(* What a turn of the scheduler does to the queues: every thread of the     *)
(* roster but the one it picks is in the queue of its new level, and none   *)
(* that could have been picked has a higher priority.                       *)
LEMMA ScheduleKeeps ==
    ASSUME QueueInv, CoreInv, Schedule
    PROVE  /\ all_queue' \in Family
           /\ Placed(all_queue', NewLevels)
           /\ Members(all_queue') = Roster \ {running'}
           /\ running' \in Roster /\ ~ Core!Blocked(running')
           /\ \A t \in Roster : ~ Core!Blocked(t) => NewLevels[running'] <= NewLevels[t]
           /\ level' = NewLevels
<1>1. PICK queues : queues = QueuesBeforeChoice
  OBVIOUS
<1>2. queues \in Family /\ Placed(queues, NewLevels) /\ Members(queues) = Roster
  BY <1>1, ChoiceKeeps
<1>3. PICK h : h = HighestCandidate
  OBVIOUS
<1>4. /\ \A l \in Level :
            l \in Candidates <=> \E t \in ToSet(queues[l]) : ~ Core!Blocked(t)
      /\ h \in Candidates /\ h \in Level
      /\ \A l \in Candidates : h <= l
  BY <1>1, <1>2, <1>3, CandidatesAre DEF Schedule
<1>5. PICK queue : queue = queues[h]
  OBVIOUS
<1>6. PICK i : i = FirstUnblocked(queue)
  OBVIOUS
<1>7. running' = queue[i] /\ all_queue' = [queues EXCEPT ![h] = Take(queue, i)]
  BY <1>1, <1>3, <1>5, <1>6, Zenon DEF Schedule
<1>8. queue \in Seq(Thread) /\ Distinct(queue) /\ \A t \in ToSet(queue) : NewLevels[t] = h
  BY <1>2, <1>4, <1>5 DEF Family, Placed
<1>9. i \in 1..Len(queue) /\ ~ Core!Blocked(queue[i])
  <2>1. \E t \in ToSet(queue) : ~ Core!Blocked(t)
    BY <1>4, <1>5
  <2> QED
    BY <1>6, <1>8, <2>1, FirstUnblockedIs
<1>10. queue[i] \in ToSet(queue)
  BY <1>8, <1>9, ToSetProperties
<1>11. PICK rest : rest = Take(queue, i)
  OBVIOUS
<1>12. rest \in Seq(Thread) /\ ToSet(rest) = ToSet(queue) \ {queue[i]} /\ Distinct(rest)
  BY <1>8, <1>9, <1>11, TakeKeeps
<1>13. /\ all_queue' \in Family /\ all_queue'[h] = rest
       /\ \A l \in Level : l # h => all_queue'[l] = queues[l]
  BY <1>2, <1>4, <1>7, <1>11, <1>12 DEF Family
<1>14. Placed(all_queue', NewLevels)
  BY <1>2, <1>8, <1>12, <1>13 DEF Placed
<1>15. running' \in Roster /\ NewLevels[running'] = h
  BY <1>2, <1>4, <1>5, <1>7, <1>8, <1>10 DEF Members
<1>16. Members(all_queue') = Roster \ {running'}
  <2>1. \A l \in Level : l # h => running' \notin ToSet(queues[l])
    BY <1>2, <1>15 DEF Placed
  <2>2. \A l \in Level : ToSet(all_queue'[l]) = ToSet(queues[l]) \ {running'}
    BY <1>5, <1>7, <1>12, <1>13, <2>1
  <2>3. Members(all_queue') = Members(queues) \ {running'}
    BY <2>2 DEF Members
  <2> QED
    BY <1>2, <2>3
<1>17. ASSUME NEW t \in Roster, ~ Core!Blocked(t) PROVE h <= NewLevels[t]
  <2>1. PICK l \in Level : t \in ToSet(queues[l])
    BY <1>2 DEF Members
  <2>2. NewLevels[t] = l /\ l \in Candidates
    BY <1>2, <1>4, <1>17, <2>1 DEF Placed
  <2> QED
    BY <1>4, <2>2
<1>18. level' = NewLevels
  <2>1. level' = [t \in Thread |->
                    IF t \in BoostedThreads THEN 0
                    ELSE IF t = running THEN LevelAfterTurn(t) ELSE level[t]]
    BY Zenon DEF Schedule
  <2>2. \A t \in Thread : level'[t] = NewLevels[t]
    BY <2>1, Zenon DEF NewLevels, TurnLevels
  <2> QED
    BY <2>1, <2>2 DEF NewLevels
<1> QED
  BY <1>7, <1>9, <1>13, <1>14, <1>15, <1>16, <1>17, <1>18
-----------------------------------------------------------------------------
(* Every step is a step of UserThreads.                                     *)

LEMMA RosterThreads ==
    ASSUME QueueTypes
    PROVE  /\ Roster \subseteq Thread
           /\ Roster = tcbs \cup ({running} \ {0}) \cup ToSet(q_arrival)
  BY ToSetProperties DEF QueueTypes, Roster

LEMMA ScheduleImplements ==
    ASSUME QueueInv, CoreInv, Schedule
    PROVE  Core!Schedule(running')
<1>1. running' \in Roster /\ ~ Core!Blocked(running')
  BY ScheduleKeeps
<1>2. Roster \subseteq Thread /\ Roster = tcbs \cup ({running} \ {0}) \cup ToSet(q_arrival)
  BY RosterThreads DEF QueueInv
<1>3. ToSet(q_arrival') = {} /\ tcbs' = Roster
  BY DEF Schedule, ToSet
<1>4. tcbs' \cup ({running'} \ {0}) = Roster
  BY <1>1, <1>2, <1>3
<1>5. /\ halted = "no" /\ cpu = "scheduler" /\ cpu' = "thread"
      /\ armed' = ~Core!RemainingBlocked(Roster, running')
      /\ UNCHANGED <<pc, arg, wants, joinTid, joinRet, got, ret, seeking,
                     lastTid, ended, lastMutex, mutexes, strayFront, holder,
                     critical, pending>>
      /\ Core!SetTimer
  BY DEF Schedule
<1> QED
  BY <1>1, <1>2, <1>3, <1>4, <1>5 DEF Core!Schedule, Core!joinVars, Core!mutexVars

LEMMA StuckImplements ==
    ASSUME QueueInv, CoreInv, ScheduleStuck
    PROVE  Core!ScheduleStuck
<1>1. PICK queues : queues = QueuesBeforeChoice
  OBVIOUS
<1>2. queues \in Family /\ Members(queues) = Roster
  BY <1>1, ChoiceKeeps
<1>3. \A l \in Level : \A t \in ToSet(queues[l]) : Core!Blocked(t)
  BY <1>1, <1>2, CandidatesAre DEF ScheduleStuck
<1>4. \A t \in Roster : Core!Blocked(t)
  BY <1>2, <1>3 DEF Members
<1>5. Roster = tcbs \cup ({running} \ {0}) \cup ToSet(q_arrival)
  BY RosterThreads DEF QueueInv
<1> QED
  BY <1>4, <1>5 DEF ScheduleStuck, Core!ScheduleStuck, queueVars, Core!cpuVars,
     Core!joinVars, Core!rosterVars, Core!mutexVars, Core!timerVars

LEMMA StepImplements ==
    ASSUME QueueInv, CoreInv, [Next]_vars
    PROVE  [Core!Next]_(Core!vars)
<1> USE DEF Core!vars, Core!cpuVars, Core!joinVars, Core!rosterVars,
            Core!mutexVars, Core!timerVars
<1>1. ASSUME NEW t \in Thread,
             \/ CreateEnqueue(t) \/ YieldCharge(t) \/ Finish(t)
             \/ CleanupFree(t) \/ CleanupAbort(t)
             \/ \E m \in Core!Mutex : LockWait(t, m)
             \/ FirstStep(t) \/ LaterStep(t) \/ Preempt(t)
      PROVE  Core!Next
  <2>1. CASE CreateEnqueue(t) \/ YieldCharge(t) \/ Finish(t)
    BY <2>1, Zenon DEF CreateEnqueue, YieldCharge, Finish, Thread,
       Core!CallStep, Core!Next
  <2>6. CASE CleanupFree(t) \/ CleanupAbort(t)
    BY <2>6, Zenon DEF CleanupFree, CleanupAbort, Thread, Core!CallStep, Core!Next
  <2>2. CASE \E m \in Core!Mutex : LockWait(t, m)
    BY <2>2, Zenon DEF LockWait, Thread, Core!MutexStep, Core!Next
  <2>3. CASE FirstStep(t)
    BY <2>3, Zenon DEF FirstStep, Thread, Core!CallStep, Core!MutexStep, Core!Next
  <2>4. CASE LaterStep(t)
    BY <2>4, Zenon DEF LaterStep, Thread, Core!CallStep, Core!MutexStep, Core!Next
  <2>5. CASE Preempt(t)
    BY <2>5, Zenon DEF Preempt, Thread, Core!Next
  <2> QED
    BY <1>1, <2>1, <2>2, <2>3, <2>4, <2>5, <2>6
<1>2. CASE TimerExpires
  BY <1>2, Zenon DEF TimerExpires, Core!Next
<1>3. CASE Schedule
  <2>1. Core!Schedule(running')
    BY <1>3, ScheduleImplements
  <2>2. running' \in Core!Thread
    BY <1>3, ScheduleKeeps, RosterThreads DEF QueueInv, Thread
  <2> QED
    BY <2>1, <2>2, Zenon DEF Core!Next
<1>4. CASE ScheduleStuck
  BY <1>4, StuckImplements, Zenon DEF Core!Next
<1>5. CASE Halted \/ UNCHANGED vars
  BY <1>5 DEF Halted, vars, queueVars, coreVars
<1> QED
  BY <1>1, <1>2, <1>3, <1>4, <1>5, Zenon DEF Next

LEMMA CoreNext ==
    ASSUME QueueInv, CoreInv, [Next]_vars
    PROVE  CoreInv'
<1>1. [Facts!Next]_(Facts!vars)
  BY StepImplements, SameSystem, Zenon
<1> QED
  BY <1>1, CoreAssumption, Facts!TypeInvNext, Facts!RosterNext, Zenon
     DEF CoreInv, Core!ConstantsAssumption

-----------------------------------------------------------------------------
(* The invariant is inductive.                                              *)

AccountInv ==
    /\ used \in [Thread -> 0..(TimeQuantum - 1)]
    /\ full \in [Thread -> BOOLEAN]
    /\ total \in Nat

(* A turn is charged at most twice: once by worker_yield, and once by a     *)
(* signal that arrives before the swap.                                     *)
TurnInv ==
    /\ total <= BoostPeriod + 1
    /\ cpu = "thread" => total <= BoostPeriod
    /\ \A t \in Thread :
          cpu = "thread" /\ running = t /\ pc[t] # "swapping" => total < BoostPeriod

Inv == QueueInv /\ AccountInv /\ TurnInv /\ CoreInv

(* The steps that touch neither queues nor accounts.                        *)
LEMMA OtherFrame ==
    ASSUME NEW t \in Thread, FirstStep(t) \/ LaterStep(t) \/ CleanupAbort(t)
    PROVE  /\ UNCHANGED <<queueVars, usageVars, running, ended>>
           /\ cpu = "thread" /\ running = t
           /\ cpu' = "scheduler" \/ pc[t] # "swapping"
<1> USE DEF Core!rosterVars, Core!At, Core!Executing
<1>1. CASE FirstStep(t)
  BY <1>1 DEF FirstStep, Core!InitialCall, Core!InLock, Core!CreateTid, Core!JoinEnded,
     Core!JoinMiss, Core!YieldClock, Core!Exit, Core!MutexInit, Core!LockAcquire,
     Core!LockMissing, Core!Unlock, Core!UnlockAssertFails, Core!DestroyFree,
     Core!DestroyHeld, Core!MainReturn
<1>2. CASE LaterStep(t)
  BY <1>2 DEF LaterStep, Core!JoinSetTid, Core!JoinSetRetval, Core!JoinReturn,
     Core!YieldSwap, Core!DestroyRemove, Core!DestroyMissing, Core!CleanupEnd
<1>3. CASE CleanupAbort(t)
  BY <1>3 DEF CleanupAbort, Core!CleanupAbort
<1> QED
  BY <1>1, <1>2, <1>3

(* The step that takes main out of tcbs.                                    *)
LEMMA CleanupFrame ==
    ASSUME NEW t \in Thread, CleanupFree(t)
    PROVE  /\ UNCHANGED <<usageVars, running, ended, cpu>>
           /\ cpu = "thread" /\ running = t /\ pc[t] = "cleaning"
  BY DEF CleanupFree, Core!CleanupFree, Core!rosterVars, Core!cpuVars, Core!At,
     Core!Executing

(* The steps that charge the running thread.                                *)
LEMMA ChargeFrame ==
    ASSUME NEW t \in Thread,
           \/ YieldCharge(t) \/ Preempt(t)
           \/ \E m \in Core!Mutex : LockWait(t, m)
    PROVE  /\ UNCHANGED <<queueVars, running, ended>> /\ running = t /\ cpu = "thread"
           /\ ChargeQuantum(t) \/ \E elapsed \in Elapsed : Charge(t, elapsed)
           /\ \/ cpu' = "scheduler"
              \/ cpu' = cpu /\ pc[t] = "yielding" /\ pc' = [pc EXCEPT ![t] = "swapping"]
           /\ pc[t] = "swapping" => cpu' = "scheduler"
<1> USE DEF Core!rosterVars, Core!cpuVars, Core!At, Core!Executing, Core!Goto
<1>1. CASE YieldCharge(t)
  BY <1>1 DEF YieldCharge, Core!YieldCharge
<1>2. CASE Preempt(t)
  BY <1>2 DEF Preempt, Core!Preempt
<1>3. CASE \E m \in Core!Mutex : LockWait(t, m)
  BY <1>3 DEF LockWait, Core!LockWait, Core!InLock
<1> QED
  BY <1>1, <1>2, <1>3

LEMMA FamilyFrame ==
    ASSUME UNCHANGED <<all_queue, level>>, Placed(all_queue, level)
    PROVE  Placed(all_queue, level)' /\ Members(all_queue)' = Members(all_queue)
<1>1. Placed(all_queue, level)'
  BY DEF Placed, ToSet, Distinct, Level
<1>2. Members(all_queue)' = Members(all_queue)
  BY DEF Members, ToSet, Level
<1> QED
  BY <1>1, <1>2

LEMMA QueueFrame ==
    ASSUME QueueInv, UNCHANGED <<queueVars, running, ended>>
    PROVE  QueueInv'
<1>1. UNCHANGED <<q_arrival, tcbs, all_queue, level, running, ended>>
  BY DEF queueVars
<1>2. Placed(all_queue, level)' /\ Members(all_queue)' = Members(all_queue)
  BY <1>1, FamilyFrame DEF QueueInv
<1>3. QueueTypes' /\ Distinct(q_arrival)'
  BY <1>1 DEF QueueInv, QueueTypes, Family, Thread, Level, Distinct
<1>4. (\A v \in Thread : v \notin tcbs \cup {running} \cup ended => level[v] = 0)'
  BY <1>1 DEF QueueInv, Thread
<1>5. (Members(all_queue) = tcbs \ {running})'
  BY <1>1, <1>2 DEF QueueInv
<1> QED
  BY <1>2, <1>3, <1>4, <1>5 DEF QueueInv

LEMMA QueueCreate ==
    ASSUME QueueInv, CoreInv, NEW t \in Thread, CreateEnqueue(t)
    PROVE  QueueInv'
<1>1. /\ q_arrival' = Append(q_arrival, arg[t])
      /\ UNCHANGED <<tcbs, all_queue, level, running, ended>>
      /\ pc[t] = "creating"
  BY DEF CreateEnqueue, Core!CreateEnqueue, Core!At
<1>2. arg[t] \in Thread /\ pc[arg[t]] = "absent"
  BY <1>1 DEF CoreInv, Facts!TypeInv, Facts!CreationInv, Thread, Core!Thread, Facts!Thread
<1>3. arg[t] \notin ToSet(q_arrival)
  BY <1>2 DEF CoreInv, Facts!RosterPartition, Facts!Thread, Thread, Core!Thread
<1> DEFINE u == arg[t]
<1>4. ToSet(q_arrival) = {q_arrival[i] : i \in 1..Len(q_arrival)}
  BY ToSetProperties DEF QueueInv, QueueTypes
<1> HIDE DEF u
<1>5. /\ Append(q_arrival, u) \in Seq(Thread)
      /\ Distinct(Append(q_arrival, u))
  BY <1>2, <1>3, <1>4 DEF QueueInv, QueueTypes, Distinct, u
<1>6. /\ QueueTypes' /\ Distinct(q_arrival')
  BY <1>1, <1>5 DEF QueueInv, QueueTypes, u, Family, Thread, Level
<1>7. Placed(all_queue, level)' /\ Members(all_queue)' = Members(all_queue)
  BY <1>1, FamilyFrame DEF QueueInv
<1>8. (\A v \in Thread : v \notin tcbs \cup {running} \cup ended => level[v] = 0)'
  BY <1>1 DEF QueueInv, Thread
<1>9. (Members(all_queue) = tcbs \ {running})'
  BY <1>1, <1>7 DEF QueueInv
<1> QED
  BY <1>6, <1>7, <1>8, <1>9 DEF QueueInv, Distinct

LEMMA QueueFinish ==
    ASSUME QueueInv, NEW t \in Thread, Finish(t)
    PROVE  QueueInv'
<1>1. /\ running = t /\ running' = 0 /\ tcbs' = tcbs \ {t} /\ ended' = ended \cup {t}
      /\ UNCHANGED <<q_arrival, all_queue, level>>
  BY DEF Finish, Core!Finish, Core!At, Core!Executing, Core!NoThread
<1>2. 0 \notin tcbs
  BY ThreadIsNotZero DEF QueueInv, QueueTypes
<1>3. QueueTypes' /\ Distinct(q_arrival)'
  BY <1>1 DEF QueueInv, QueueTypes, Family, Thread, Level, Distinct
<1>4. Placed(all_queue, level)' /\ Members(all_queue)' = Members(all_queue)
  BY <1>1, FamilyFrame DEF QueueInv
<1>5. (Members(all_queue) = tcbs \ {running})'
  BY <1>1, <1>2, <1>4 DEF QueueInv
<1>6. (\A v \in Thread : v \notin tcbs \cup {running} \cup ended => level[v] = 0)'
  BY <1>1 DEF QueueInv, Thread
<1> QED
  BY <1>3, <1>4, <1>5, <1>6 DEF QueueInv

LEMMA QueueCleanup ==
    ASSUME QueueInv, NEW t \in Thread, CleanupFree(t)
    PROVE  QueueInv'
<1>1. /\ running = t /\ running' = t /\ tcbs' = tcbs \ {t}
      /\ UNCHANGED <<q_arrival, all_queue, level, ended>>
  BY CleanupFrame DEF CleanupFree
<1>2. QueueTypes' /\ Distinct(q_arrival)'
  BY <1>1 DEF QueueInv, QueueTypes, Family, Thread, Level, Distinct
<1>3. Placed(all_queue, level)' /\ Members(all_queue)' = Members(all_queue)
  BY <1>1, FamilyFrame DEF QueueInv
<1>4. (Members(all_queue) = tcbs \ {running})'
  BY <1>1, <1>3 DEF QueueInv
<1>5. (\A v \in Thread : v \notin tcbs \cup {running} \cup ended => level[v] = 0)'
  BY <1>1 DEF QueueInv, Thread
<1> QED
  BY <1>2, <1>3, <1>4, <1>5 DEF QueueInv

LEMMA QueueSchedule ==
    ASSUME QueueInv, CoreInv, Schedule
    PROVE  QueueInv'
<1>1. /\ all_queue' \in Family
      /\ Placed(all_queue', NewLevels)
      /\ Members(all_queue') = Roster \ {running'}
      /\ running' \in Roster
      /\ level' = NewLevels
  BY ScheduleKeeps
<1>2. q_arrival' = <<>> /\ tcbs' = Roster /\ ended' = ended
  BY DEF Schedule
<1>3. /\ Roster \subseteq Thread
      /\ Roster = tcbs \cup ({running} \ {0}) \cup ToSet(q_arrival)
      /\ NewLevels \in [Thread -> Level]
  BY RosterThreads, NewLevelsType DEF QueueInv
<1>4. QueueTypes' /\ Distinct(q_arrival')
  BY <1>1, <1>2, <1>3 DEF QueueTypes, Family, Thread, Level, Distinct
<1>5. Placed(all_queue, level)'
  BY <1>1 DEF Placed, Level, ToSet, Distinct
<1>6. (Members(all_queue) = tcbs \ {running})'
  <2>1. Members(all_queue') = tcbs' \ {running'}
    BY <1>1, <1>2
  <2> QED
    BY <2>1 DEF Members, Level, ToSet
<1>7. ASSUME NEW v \in Thread, v \notin tcbs' \cup {running'} \cup ended' PROVE level'[v] = 0
  <2>1. v \notin tcbs \cup {running} \cup ended
    BY <1>2, <1>3, <1>7, ThreadIsNotZero
  <2> QED
    BY <1>1, <2>1 DEF NewLevels, TurnLevels, QueueInv
<1> QED
  BY <1>4, <1>5, <1>6, <1>7 DEF QueueInv, Thread, Distinct

LEMMA QueueNext ==
    ASSUME QueueInv, CoreInv, [Next]_vars
    PROVE  QueueInv'
<1>1. ASSUME NEW t \in Thread, CreateEnqueue(t) PROVE QueueInv'
  BY <1>1, QueueCreate
<1>2. ASSUME NEW t \in Thread,
             \/ YieldCharge(t) \/ Preempt(t)
             \/ \E m \in Core!Mutex : LockWait(t, m)
      PROVE  QueueInv'
  BY <1>2, ChargeFrame, QueueFrame
<1>3. ASSUME NEW t \in Thread, FirstStep(t) \/ LaterStep(t) \/ CleanupAbort(t)
      PROVE  QueueInv'
  BY <1>3, OtherFrame, QueueFrame
<1>4. ASSUME NEW t \in Thread, Finish(t) PROVE QueueInv'
  BY <1>4, QueueFinish
<1>7. ASSUME NEW t \in Thread, CleanupFree(t) PROVE QueueInv'
  BY <1>7, QueueCleanup
<1>5. CASE Schedule
  BY <1>5, QueueSchedule
<1>6. CASE TimerExpires \/ ScheduleStuck \/ Halted \/ UNCHANGED vars
  <2>1. UNCHANGED <<queueVars, running, ended>>
    BY <1>6 DEF TimerExpires, Core!TimerExpires, Core!rosterVars, ScheduleStuck, Halted,
       vars, coreVars
  <2> QED
    BY <2>1, QueueFrame
<1> QED
  BY <1>1, <1>2, <1>3, <1>4, <1>5, <1>6, <1>7, Zenon DEF Next

LEMMA ChargeChanges ==
    ASSUME AccountInv, NEW t \in Thread,
           ChargeQuantum(t) \/ \E elapsed \in Elapsed : Charge(t, elapsed)
    PROVE  AccountInv' /\ total' \in {total, total + 1}
<1>1. TimeQuantum \in Nat \ {0} /\ \A elapsed \in Elapsed : elapsed \in Nat
  BY MlfqAssumption DEF Elapsed
<1>2. CASE ChargeQuantum(t)
  BY <1>1, <1>2 DEF ChargeQuantum, AccountInv, Thread
<1>3. ASSUME NEW elapsed \in Elapsed, Charge(t, elapsed), ~ ChargeQuantum(t)
      PROVE  AccountInv' /\ total' = total
  <2>1. /\ used' = [used EXCEPT ![t] = @ + elapsed] /\ full' = full /\ total' = total
        /\ used[t] + elapsed < TimeQuantum
    BY <1>1, <1>3 DEF Charge, AccountInv
  <2>2. used[t] \in Nat /\ used[t] + elapsed \in 0..(TimeQuantum - 1)
    BY <1>1, <2>1 DEF AccountInv
  <2> QED
    BY <2>1, <2>2 DEF AccountInv, Thread
<1> QED
  BY <1>2, <1>3 DEF ChargeQuantum

LEMMA AccountNext ==
    ASSUME Inv, [Next]_vars
    PROVE  AccountInv' /\ TurnInv'
<1> USE DEF Inv
<1>0. BoostPeriod \in Nat \ {0} /\ total \in Nat
  BY MlfqAssumption DEF AccountInv
<1>1. ASSUME NEW t \in Thread, CreateEnqueue(t) PROVE AccountInv' /\ TurnInv'
  <2>1. /\ UNCHANGED <<usageVars, running, cpu>> /\ pc[t] = "creating" /\ running = t
        /\ cpu = "thread"
    BY <1>1 DEF CreateEnqueue, Core!CreateEnqueue, Core!cpuVars, Core!At, Core!Executing
  <2>2. total < BoostPeriod
    BY <2>1 DEF TurnInv
  <2> QED
    BY <1>0, <2>1, <2>2 DEF AccountInv, TurnInv, usageVars, Thread
<1>2. ASSUME NEW t \in Thread,
             \/ YieldCharge(t) \/ Preempt(t)
             \/ \E m \in Core!Mutex : LockWait(t, m)
      PROVE  AccountInv' /\ TurnInv'
  <2>1. /\ running = t /\ running' = t /\ cpu = "thread"
        /\ \/ cpu' = "scheduler"
           \/ cpu' = cpu /\ pc[t] = "yielding" /\ pc' = [pc EXCEPT ![t] = "swapping"]
        /\ pc[t] = "swapping" => cpu' = "scheduler"
    BY <1>2, ChargeFrame
  <2>2. AccountInv' /\ total' \in {total, total + 1}
    BY <1>2, ChargeFrame, ChargeChanges
  <2>3. CASE cpu' = "scheduler"
    BY <1>0, <2>1, <2>2, <2>3 DEF TurnInv
  <2>4. CASE cpu' = cpu /\ pc[t] = "yielding" /\ pc' = [pc EXCEPT ![t] = "swapping"]
    <3>1. total < BoostPeriod
      BY <2>1, <2>4 DEF TurnInv
    <3>2. pc \in [Thread -> Facts!Point]
      BY DEF CoreInv, Facts!TypeInv, Facts!TypeOK, Facts!Thread, Thread, Core!Thread
    <3>3. pc'[t] = "swapping"
      BY <2>4, <3>2
    <3> QED
      BY <1>0, <2>1, <2>2, <3>1, <3>3 DEF TurnInv
  <2> QED
    BY <2>1, <2>3, <2>4
<1>3. ASSUME NEW t \in Thread, FirstStep(t) \/ LaterStep(t) \/ CleanupAbort(t)
      PROVE  AccountInv' /\ TurnInv'
  <2>1. /\ UNCHANGED <<usageVars, running>> /\ cpu = "thread" /\ running = t
        /\ cpu' = "scheduler" \/ pc[t] # "swapping"
    BY <1>3, OtherFrame
  <2>2. cpu' = "scheduler" \/ total < BoostPeriod
    BY <2>1 DEF TurnInv
  <2> QED
    BY <1>0, <2>1, <2>2 DEF AccountInv, TurnInv, usageVars, Thread
<1>8. ASSUME NEW t \in Thread, CleanupFree(t) PROVE AccountInv' /\ TurnInv'
  <2>1. /\ UNCHANGED <<usageVars, running, cpu>>
        /\ cpu = "thread" /\ running = t /\ pc[t] # "swapping"
    BY <1>8, CleanupFrame
  <2>2. total < BoostPeriod
    BY <2>1 DEF TurnInv
  <2> QED
    BY <1>0, <2>1, <2>2 DEF AccountInv, TurnInv, usageVars, Thread
<1>4. ASSUME NEW t \in Thread, Finish(t) PROVE AccountInv' /\ TurnInv'
  <2>1. UNCHANGED usageVars /\ cpu' = "scheduler"
    BY <1>4 DEF Finish, Core!Finish
  <2> QED
    BY <2>1 DEF AccountInv, TurnInv, usageVars, Thread
<1>5. CASE Schedule
  <2>1. /\ used' = [t \in Thread |->
                      IF t \in BoostedThreads \/ (t = running /\ full[t])
                      THEN 0 ELSE used[t]]
        /\ full' = [t \in Thread |->
                      full[t] /\ t \notin BoostedThreads \cup {running}]
        /\ total' = IF BoostDue THEN total % BoostPeriod ELSE total
    BY <1>5, Zenon DEF Schedule
  <2>2. total' \in Nat /\ total' < BoostPeriod
    <3>1. total % BoostPeriod \in 0..(BoostPeriod - 1)
      BY <1>0, Division
    <3> QED
      BY <1>0, <2>1, <3>1 DEF BoostDue
  <2>3. 0 \in 0..(TimeQuantum - 1)
    BY MlfqAssumption
  <2>4. used' \in [Thread -> 0..(TimeQuantum - 1)]
    BY <2>1, <2>3 DEF AccountInv
  <2>5. full' \in [Thread -> BOOLEAN]
    BY <2>1, Zenon
  <2> QED
    BY <1>0, <2>2, <2>4, <2>5 DEF AccountInv, TurnInv, Thread
<1>6. CASE TimerExpires \/ ScheduleStuck \/ Halted \/ UNCHANGED vars
  <2>1. UNCHANGED <<usageVars, running, cpu, pc>>
    BY <1>6 DEF TimerExpires, Core!TimerExpires, Core!cpuVars, ScheduleStuck, Halted,
       vars, coreVars
  <2> QED
    BY <2>1 DEF AccountInv, TurnInv, usageVars, Thread
<1> QED
  BY <1>1, <1>2, <1>3, <1>4, <1>5, <1>6, <1>8, Zenon DEF Next
-----------------------------------------------------------------------------
(* Theorems.                                                                *)

LEMMA InvInit == Init => Inv
<1> SUFFICES ASSUME Init PROVE Inv
  OBVIOUS
<1>1. Facts!Init
  BY SameSystem DEF Init
<1>2. CoreInv
  BY <1>1, CoreAssumption, Facts!TypeInvInit, Facts!RosterInit, Zenon
     DEF CoreInv, Core!ConstantsAssumption
<1>3. QueueInv
  <2>1. /\ q_arrival = <<>> /\ tcbs = {} /\ running = 1
        /\ all_queue = [l \in Level |-> <<>>]
        /\ level = [t \in Thread |-> 0]
        /\ ToSet(<<>>) = {} /\ Distinct(<<>>)
    BY DEF Init, Core!Main, ToSet, Distinct
  <2>2. \A l \in Level : all_queue[l] = <<>>
    BY <2>1
  <2>3. Placed(all_queue, level) /\ Members(all_queue) = {}
    BY <2>1, <2>2 DEF Placed, Members
  <2>4. QueueTypes
    BY <2>1, LevelZero, ThreadIsNotZero DEF QueueTypes, Family
  <2> QED
    BY <2>1, <2>3, <2>4 DEF QueueInv
<1>4. AccountInv /\ TurnInv
  BY MlfqAssumption DEF Init, AccountInv, TurnInv
<1> QED
  BY <1>2, <1>3, <1>4 DEF Inv

LEMMA InvNext == Inv /\ [Next]_vars => Inv'
<1> SUFFICES ASSUME Inv, [Next]_vars PROVE Inv'
  OBVIOUS
<1>1. QueueInv' /\ CoreInv'
  BY QueueNext, CoreNext DEF Inv
<1>2. AccountInv' /\ TurnInv'
  BY AccountNext
<1> QED
  BY <1>1, <1>2 DEF Inv

LEMMA Invariant == Spec => []Inv
  BY InvInit, InvNext, PTL DEF Spec

(* The types of the queues and the accounts; in particular, the count of    *)
(* quanta never runs more than two past the one that makes a boost due.     *)
THEOREM TypeCorrect == Spec => []TypeOK
<1>1. Inv => TypeOK
  BY MlfqAssumption DEF Inv, QueueInv, QueueTypes, AccountInv, TurnInv, TypeOK, Family
<1> QED
  BY <1>1, Invariant, PTL

(* The queues hold every thread of tcbs but the running one, once, at its   *)
(* priority_level (boost_all_queues asserts a consequence of it).           *)
THEOREM QueuesCorrect == Spec => []QueuesConsistent
<1>1. Inv => QueuesConsistent
  <2> SUFFICES ASSUME Inv PROVE QueuesConsistent
    OBVIOUS
  <2>1. all_queue \in Family /\ Placed(all_queue, level)
        /\ Members(all_queue) = tcbs \ {running}
    BY DEF Inv, QueueInv, QueueTypes
  <2>2. ASSUME NEW l \in Level, NEW i \in 1..Len(all_queue[l])
        PROVE  /\ level[all_queue[l][i]] = l
               /\ all_queue[l][i] # running
               /\ \A j \in 1..Len(all_queue[l]) :
                     i # j => all_queue[l][i] # all_queue[l][j]
    <3>1. all_queue[l] \in Seq(Thread)
      BY <2>1 DEF Family
    <3>2. all_queue[l][i] \in ToSet(all_queue[l])
      BY <3>1, ToSetProperties
    <3>3. all_queue[l][i] \in Members(all_queue)
      BY <3>2 DEF Members
    <3> QED
      BY <2>1, <3>2, <3>3 DEF Placed, Distinct
  <2> QED
    BY <2>1, <2>2 DEF QueuesConsistent, Members
<1> QED
  BY <1>1, Invariant, PTL

(* The scheduler picks a thread of the highest priority among all that are  *)
(* not blocked, after the demotion and the boost of the same turn.          *)
THEOREM PriorityCorrect == Spec => HighestPriorityFirst
<1> DEFINE Highest ==
             cpu = "scheduler" /\ cpu' = "thread" =>
                 \A t \in tcbs' :
                     ~Core!Blocked(t) => level'[running'] <= level'[t]
<1>1. Inv /\ [Next]_vars => [Highest]_vars
  <2> SUFFICES ASSUME Inv, [Next]_vars, cpu = "scheduler", cpu' = "thread",
                      NEW t \in tcbs', ~ Core!Blocked(t)
               PROVE  level'[running'] <= level'[t]
    OBVIOUS
  <2>1. Schedule
    <3>1. \A u \in Thread : ~ CreateEnqueue(u) /\ ~ Finish(u)
      BY DEF CreateEnqueue, Core!CreateEnqueue, Finish, Core!Finish,
         Core!At, Core!Executing
    <3>2. \A u \in Thread : ~ YieldCharge(u) /\ ~ Preempt(u)
                            /\ \A m \in Core!Mutex : ~ LockWait(u, m)
      BY ChargeFrame
    <3>3. \A u \in Thread : ~ FirstStep(u) /\ ~ LaterStep(u) /\ ~ CleanupAbort(u)
                            /\ ~ CleanupFree(u)
      BY OtherFrame, CleanupFrame
    <3>4. ~ TimerExpires /\ ~ ScheduleStuck /\ ~ Halted /\ ~ UNCHANGED vars
      BY DEF TimerExpires, Core!TimerExpires, Core!cpuVars, ScheduleStuck, Halted,
         vars, coreVars
    <3> QED
      BY <3>1, <3>2, <3>3, <3>4, Zenon DEF Next
  <2>2. tcbs' = Roster
    BY <2>1 DEF Schedule
  <2> QED
    BY <2>1, <2>2, ScheduleKeeps DEF Inv
<1> QED
  BY <1>1, Invariant, PTL DEF Spec, HighestPriorityFirst

(* The library with this policy is one of those that UserThreads describes. *)
THEOREM ImplementationCorrect == Spec => ImplementsUserThreads
<1>1. Init => Core!Init
  BY DEF Init
<1>2. Inv /\ [Next]_vars => [Core!Next]_(Core!vars)
  BY StepImplements DEF Inv
<1> QED
  BY <1>1, <1>2, Invariant, PTL DEF Spec, ImplementsUserThreads, Core!Spec

(* Hence what UserThreads guarantees holds with this policy too.            *)
THEOREM GuaranteesCarryOver ==
    Spec => [](/\ Facts!RosterPartition /\ Facts!MutualExclusion
               /\ Facts!JoinAfterEnd /\ Facts!JoinValueOfTarget
               /\ Facts!HolderKeepsMutex /\ Facts!SeekersAwaitHolder
               /\ Facts!TimerOffOnlyIfOthersJoin /\ Facts!CleanExitTimerOff)
<1>1. Init => Facts!Init
  BY SameSystem DEF Init
<1>2. Inv /\ [Next]_vars => [Facts!Next]_(Facts!vars)
  BY StepImplements, SameSystem, Zenon DEF Inv
<1>3. Spec => Facts!Spec
  BY <1>1, <1>2, Invariant, PTL DEF Spec, Facts!Spec
<1>4. Facts!Spec => [](/\ Facts!RosterPartition /\ Facts!MutualExclusion
                       /\ Facts!JoinAfterEnd /\ Facts!JoinValueOfTarget
                       /\ Facts!HolderKeepsMutex /\ Facts!SeekersAwaitHolder
                       /\ Facts!TimerOffOnlyIfOthersJoin /\ Facts!CleanExitTimerOff)
  BY CoreAssumption, Facts!RosterCorrect, Facts!MutualExclusionCorrect,
     Facts!JoinCorrect, Facts!JoinValueCorrect, Facts!HolderCorrect,
     Facts!NoLostWaiter, Facts!TimerCorrect, Facts!CleanExitCorrect, PTL
     DEF Core!ConstantsAssumption
<1> QED
  BY <1>3, <1>4, PTL
=============================================================================
