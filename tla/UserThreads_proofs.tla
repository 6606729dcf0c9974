------------------------- MODULE UserThreads_proofs -------------------------
(***************************************************************************)
(* Theorems about UserThreads, for every number of threads and mutexes.    *)
(*                                                                         *)
(* The inductive invariant is built in layers: the types together with the *)
(* freshness of thread identifiers, then the roster, the joins, the timer  *)
(* and the mutexes, each layer using the ones before it.                   *)
(***************************************************************************)
EXTENDS UserThreads, TLAPS

(* Identifiers that cross a preemption: the one a preempted creation holds  *)
(* is fresh, no two creations hold the same, and a join holds a thread's.   *)
CreationInv ==
    /\ \A t \in Thread : t > lastTid => pc[t] = "absent"
    /\ \A t \in Thread : pc[t] = "creating" =>
          /\ arg[t] \in Thread
          /\ arg[t] <= lastTid
          /\ pc[arg[t]] = "absent"
    /\ \A t, u \in Thread :
          pc[t] = "creating" /\ pc[u] = "creating" /\ arg[t] = arg[u] => t = u
    /\ \A t \in Thread : pc[t] = "joinMiss" => arg[t] \in Thread

TypeInv == TypeOK /\ CreationInv

(* Where a thread stands inside worker_join, its target is either still     *)
(* recorded in its join_tid or already in ended_tcbs; on the CPU after the  *)
(* swap, it is no longer recorded.                                          *)
JoinPending(t) ==
    \/ pc[t] \in {"joinTid", "joinSet", "joined"}
    \/ pc[t] \in {"yielding", "swapping"} /\ arg[t] # NoThread

JoinInv ==
    /\ \A t \in Thread : pc[t] \in {"absent", "entering", "user"} => arg[t] = 0
    /\ \A t \in Thread : JoinPending(t) =>
          arg[t] \in Thread /\ (joinTid[t] = arg[t] \/ arg[t] \in ended)
    /\ \A t \in Thread :
          cpu = "thread" /\ running = t /\ pc[t] = "joined" =>
              joinTid[t] = NoThread

(* A thread waits for the target of the join it is in, and what its         *)
(* variable holds is that target's, which has ended and keeps its value.    *)
ValueInv ==
    \A t \in Thread :
        /\ joinTid[t] # NoThread => JoinPending(t) /\ joinTid[t] = arg[t]
        /\ pc[t] = "joinMiss" \/ JoinPending(t) =>
              \/ got[t] = NULL
              \/ arg[t] \in ended /\ got[t] = ret[arg[t]]

(* A timer counts down only for a thread that shares the scheduler, and     *)
(* main keeps the CPU once its tcb is freed, unless the process ends.       *)
TimerInv ==
    /\ TimerOffOnlyIfOthersJoin
    /\ cpu = "thread" /\ armed => admitted # {running}
    /\ pc[Main] = "freed" => running = Main /\ (cpu = "thread" \/ halted # "no")
    /\ CleanExitTimerOff

(* Mutex identifiers are handed out once.                                   *)
MutexBound == \A m \in mutexes : m <= lastMutex

(* The mutexes a thread has locked name it as their holder, even after the  *)
(* node of one has been freed.                                              *)
CriticalInv ==
    /\ MutexBound
    /\ \A t \in Thread :
          \A m \in critical[t] : m <= lastMutex /\ holder[m] = t

(* A thread that seeks a mutex is suspended inside worker_mutex_lock.       *)
SeekInv ==
    \A t \in Thread : seeking[t] # NoMutex =>
        /\ pc[t] = "locking"
        /\ arg[t] = seeking[t]
        /\ t \in admitted
        /\ ~(cpu = "thread" /\ running = t)

HeldInv ==
    /\ \A t \in Thread : pc[t] = "destroying" => arg[t] \in Careless
    /\ HolderKeepsMutex
    /\ SeekersAwaitHolder

-----------------------------------------------------------------------------
(* Types and fresh identifiers.                                            *)

LEMMA TypeInvInit == Init => TypeInv
<1> USE ConstantsAssumption DEF Thread, Mutex, Main, NoThread, NoMutex
<1>1. ASSUME Init PROVE TypeOK
  <2>1. joinRet \in [Thread -> {"null", "here", "stale"}]
    <3> PICK junk \in {"null", "stale"} :
               joinRet = [t \in Thread |-> IF t = Main THEN junk ELSE "null"]
      BY <1>1 DEF Init
    <3> QED
      OBVIOUS
  <2>2. /\ pc \in [Thread -> Point]
        /\ arg \in [Thread -> Nat]
        /\ joinTid \in [Thread -> Thread \cup {NoThread}]
        /\ seeking \in [Thread -> Mutex \cup {NoMutex}]
        /\ holder \in [Mutex -> Thread \cup {NoThread}]
    BY <1>1 DEF Init, Point
  <2>3. /\ wants \in [Thread -> BOOLEAN]
        /\ got \in [Thread -> Values \cup {NULL}]
        /\ ret \in [Thread -> Values \cup {NULL}]
        /\ critical \in [Thread -> SUBSET Mutex]
    BY <1>1 DEF Init
  <2>4. /\ running \in Thread \cup {NoThread}
        /\ cpu \in {"thread", "scheduler"}
        /\ lastTid \in Thread
        /\ arrival \subseteq Thread
        /\ admitted \subseteq Thread
        /\ ended \subseteq Thread
    BY <1>1 DEF Init
  <2>5. /\ lastMutex \in Nat /\ lastMutex <= MaxMutex
        /\ mutexes \subseteq Mutex
        /\ strayFront \in BOOLEAN
    BY <1>1, ConstantsAssumption DEF Init
  <2>6. /\ armed \in BOOLEAN
        /\ pending \in BOOLEAN
        /\ halted \in {"no", "exit", "abort", "segv", "wild", "stuck"}
    BY <1>1 DEF Init
  <2> QED
    BY <2>1, <2>2, <2>3, <2>4, <2>5, <2>6 DEF TypeOK
<1>2. ASSUME Init PROVE CreationInv
  BY <1>2 DEF Init, CreationInv
<1> QED
  BY <1>1, <1>2 DEF TypeInv

(* Every step keeps the types, and no step hands out an identifier twice.  *)
LEMMA TypeInvNext == TypeInv /\ [Next]_vars => TypeInv'
<1> SUFFICES ASSUME TypeInv, [Next]_vars PROVE TypeInv'
  OBVIOUS
<1> USE ConstantsAssumption
    DEF TypeInv, TypeOK, CreationInv, Thread, Mutex, Main, NoThread, NoMutex,
        Point, Goto, At, Executing, cpuVars, joinVars, rosterVars, mutexVars,
        timerVars
<1>1. ASSUME NEW t \in Thread, CreateTid(t)
      PROVE  TypeInv'
  <2>1. TypeOK'
    BY <1>1 DEF CreateTid, InitialCall
  <2>2. CreationInv'
    BY <1>1 DEF CreateTid, InitialCall
  <2> QED
    BY <2>1, <2>2
<1>2. ASSUME NEW t \in Thread, CreateEnqueue(t)
      PROVE  TypeInv'
  <2>1. TypeOK'
    BY <1>2 DEF CreateEnqueue
  <2>2. /\ arg[t] \in Thread /\ arg[t] <= lastTid
        /\ pc[t] = "creating" /\ pc[arg[t]] = "absent"
    BY <1>2 DEF CreateEnqueue
  <2>3. /\ pc' = [pc EXCEPT ![t] = "user", ![arg[t]] = "user"]
        /\ arg' = [arg EXCEPT ![t] = 0]
        /\ lastTid' = lastTid
    BY <1>2 DEF CreateEnqueue
  <2>4. \A u \in Thread : u > lastTid' => pc'[u] = "absent"
    BY <2>2, <2>3
  <2>5. ASSUME NEW u \in Thread, pc'[u] = "creating"
        PROVE  /\ pc[u] = "creating" /\ arg'[u] = arg[u]
               /\ arg[u] \in Thread /\ arg[u] <= lastTid
               /\ u # t /\ arg[u] # arg[t] /\ arg[u] # t
               /\ pc[arg[u]] = "absent"
    BY <2>2, <2>3, <2>5
  <2>6. \A u \in Thread : pc'[u] = "creating" =>
            arg'[u] \in Thread /\ arg'[u] <= lastTid' /\ pc'[arg'[u]] = "absent"
    BY <2>2, <2>3, <2>5
  <2>7. \A u, w \in Thread :
            pc'[u] = "creating" /\ pc'[w] = "creating" /\ arg'[u] = arg'[w]
                => u = w
    BY <2>5
  <2>8. \A u \in Thread : pc'[u] = "joinMiss" => arg'[u] \in Thread
    BY <2>2, <2>3
  <2> QED
    BY <2>1, <2>4, <2>6, <2>7, <2>8
<1>3. ASSUME NEW t \in Thread, NEW u \in Thread, NEW p \in JoinPointers,
             JoinEnded(t, u, p)
      PROVE  TypeInv'
  BY <1>3 DEF JoinEnded, Known
<1>4. ASSUME NEW t \in Thread, NEW u \in Thread, NEW p \in JoinPointers,
             JoinMiss(t, u, p)
      PROVE  TypeInv'
  <2>1. TypeOK'
    <3>1. pc' \in [Thread -> Point] /\ arg' \in [Thread -> Nat]
      BY <1>4 DEF JoinMiss
    <3>2. /\ wants' \in [Thread -> BOOLEAN]
          /\ got' \in [Thread -> Values \cup {NULL}]
          /\ joinRet' \in [Thread -> {"null", "here", "stale"}]
      BY <1>4 DEF JoinMiss
    <3> QED
      BY <3>1, <3>2, <1>4 DEF JoinMiss
  <2>2. CreationInv'
    BY <1>4 DEF JoinMiss, Known
  <2> QED
    BY <2>1, <2>2
<1>5. ASSUME NEW t \in Thread, JoinSetTid(t)
      PROVE  TypeInv'
  <2>1. TypeOK'
    BY <1>5 DEF JoinSetTid
  <2>2. CreationInv'
    BY <1>5 DEF JoinSetTid
  <2> QED
    BY <2>1, <2>2
<1>6. ASSUME NEW t \in Thread, JoinSetRetval(t)
      PROVE  TypeInv'
  BY <1>6 DEF JoinSetRetval
<1>7. ASSUME NEW t \in Thread, JoinReturn(t)
      PROVE  TypeInv'
  BY <1>7 DEF JoinReturn
<1>8. ASSUME NEW t \in Thread, YieldClock(t)
      PROVE  TypeInv'
  BY <1>8 DEF YieldClock
<1>9. ASSUME NEW t \in Thread, YieldCharge(t)
      PROVE  TypeInv'
  BY <1>9 DEF YieldCharge
<1>10. ASSUME NEW t \in Thread, YieldSwap(t)
      PROVE  TypeInv'
  BY <1>10 DEF YieldSwap
<1>11. ASSUME NEW t \in Thread, NEW v \in Values, Exit(t, v)
      PROVE  TypeInv'
  BY <1>11 DEF Exit
<1>12. ASSUME NEW t \in Thread, Finish(t)
      PROVE  TypeInv'
  BY <1>12 DEF Finish, Delivered, Joiners, Reap
<1>13. ASSUME NEW t \in Thread,
              MainReturn(t) \/ CleanupFree(t) \/ CleanupAbort(t) \/ CleanupEnd(t)
      PROVE  TypeInv'
  <2>1. CASE MainReturn(t)
    BY <2>1 DEF MainReturn
  <2>2. CASE CleanupFree(t)
    BY <2>2 DEF CleanupFree
  <2>3. CASE CleanupAbort(t)
    BY <2>3 DEF CleanupAbort
  <2>4. CASE CleanupEnd(t)
    <3>1. halted' \in {"exit", "abort"}
      BY <2>4 DEF CleanupEnd
    <3> QED
      BY <2>4, <3>1 DEF CleanupEnd
  <2> QED
    BY <1>13, <2>1, <2>2, <2>3, <2>4
<1>14. ASSUME NEW t \in Thread, MutexInit(t)
      PROVE  TypeInv'
  <2>1. TypeOK'
    BY <1>14 DEF MutexInit, InitialCall
  <2>2. CreationInv'
    BY <1>14 DEF MutexInit, InitialCall
  <2> QED
    BY <2>1, <2>2
<1>15. ASSUME NEW t \in Thread, NEW m \in Mutex, LockAcquire(t, m)
      PROVE  TypeInv'
  <2>1. TypeOK'
    BY <1>15 DEF LockAcquire, InLock, IsFree
  <2>2. CreationInv'
    BY <1>15 DEF LockAcquire, InLock, IsFree
  <2> QED
    BY <2>1, <2>2
<1>16. ASSUME NEW t \in Thread, NEW m \in Mutex, LockWait(t, m)
      PROVE  TypeInv'
  <2>1. TypeOK'
    <3>1. pc' \in [Thread -> Point] /\ arg' \in [Thread -> Nat]
      BY <1>16 DEF LockWait
    <3>2. seeking' \in [Thread -> Mutex \cup {NoMutex}]
      BY <1>16 DEF LockWait
    <3> QED
      BY <3>1, <3>2, <1>16 DEF LockWait
  <2>2. CreationInv'
    BY <1>16 DEF LockWait, InLock, IsFree
  <2> QED
    BY <2>1, <2>2
<1>17. ASSUME NEW t \in Thread, NEW m \in Mutex, LockMissing(t, m)
      PROVE  TypeInv'
  <2>1. halted' \in {"abort", "wild"}
    BY <1>17 DEF LockMissing, Missed
  <2> QED
    BY <1>17, <2>1 DEF LockMissing, InLock
<1>18. ASSUME NEW t \in Thread, NEW m \in Mutex, Unlock(t, m)
      PROVE  TypeInv'
  BY <1>18 DEF Unlock, Broadcast, Waiters
<1>19. ASSUME NEW t \in Thread, NEW m \in Mutex, UnlockAssertFails(t, m)
      PROVE  TypeInv'
  <2>1. halted' \in {"abort", "wild"}
    BY <1>19 DEF UnlockAssertFails, Missed
  <2> QED
    BY <1>19, <2>1 DEF UnlockAssertFails
<1>20. ASSUME NEW t \in Thread, NEW m \in Mutex, DestroyFree(t, m)
      PROVE  TypeInv'
  <2>1. TypeOK'
    BY <1>20 DEF DestroyFree
  <2>2. CreationInv'
    BY <1>20 DEF DestroyFree
  <2> QED
    BY <2>1, <2>2
<1>21. ASSUME NEW t \in Thread, NEW m \in Mutex, DestroyHeld(t, m)
      PROVE  TypeInv'
  <2>1. TypeOK'
    <3>1. pc' \in [Thread -> Point] /\ arg' \in [Thread -> Nat]
      BY <1>21 DEF DestroyHeld
    <3>2. /\ seeking' \in [Thread -> Mutex \cup {NoMutex}]
          /\ holder' \in [Mutex -> Thread \cup {NoThread}]
          /\ critical' \in [Thread -> SUBSET Mutex]
      BY <1>21 DEF DestroyHeld, Broadcast
    <3> QED
      BY <3>1, <3>2, <1>21 DEF DestroyHeld
  <2>2. CreationInv'
    BY <1>21 DEF DestroyHeld, Broadcast, Waiters
  <2> QED
    BY <2>1, <2>2
<1>22. ASSUME NEW t \in Thread, DestroyRemove(t) \/ DestroyMissing(t)
      PROVE  TypeInv'
  <2>1. CASE DestroyRemove(t)
    BY <2>1 DEF DestroyRemove
  <2>2. CASE DestroyMissing(t)
    BY <2>2 DEF DestroyMissing
  <2> QED
    BY <1>22, <2>1, <2>2
<1>23. ASSUME NEW t \in Thread, Preempt(t)
      PROVE  TypeInv'
  BY <1>23 DEF Preempt
<1>24. ASSUME NEW t \in Thread, Schedule(t)
      PROVE  TypeInv'
  <2>1. halted' \in {"no", "wild"}
    BY <1>24 DEF Schedule, SetTimer
  <2> QED
    BY <1>24, <2>1 DEF Schedule
<1>25. CASE TimerExpires
  BY <1>25 DEF TimerExpires
<1>26. CASE ScheduleStuck
  BY <1>26 DEF ScheduleStuck
<1>27. CASE UNCHANGED vars
  BY <1>27 DEF vars
<1> QED
  BY <1>1, <1>2, <1>3, <1>4, <1>5, <1>6, <1>7, <1>8, <1>9, <1>10, <1>11,
     <1>12, <1>13, <1>14, <1>15, <1>16, <1>17, <1>18, <1>19, <1>20, <1>21,
     <1>22, <1>23, <1>24, <1>25, <1>26, <1>27
  DEF Next, CallStep, MutexStep, Halted
-----------------------------------------------------------------------------
(* The roster.                                                             *)

(* A step that moves no thread between the lists, creates none and puts     *)
(* none on the CPU.                                                         *)
LEMMA RosterFrame ==
    ASSUME RosterPartition,
           UNCHANGED <<running, arrival, admitted, ended>>,
           cpu' = "thread" => cpu = "thread",
           \A t \in Thread : pc'[t] = "absent" <=> pc[t] = "absent"
    PROVE  RosterPartition'
  BY DEF RosterPartition

LEMMA RosterInit == Init => RosterPartition
  BY ConstantsAssumption DEF Init, RosterPartition, Thread, Main

(* Only CreateEnqueue, Finish and the scheduler move threads.               *)
LEMMA RosterNext ==
    TypeInv /\ RosterPartition /\ [Next]_vars => RosterPartition'
<1> SUFFICES ASSUME TypeInv, RosterPartition, [Next]_vars PROVE RosterPartition'
  OBVIOUS
<1> USE DEF TypeInv, TypeOK, Goto, At, Executing, cpuVars, joinVars,
            rosterVars, mutexVars, timerVars
<1>1. ASSUME NEW t \in Thread, CreateEnqueue(t)
      PROVE  RosterPartition'
  BY <1>1 DEF CreateEnqueue, CreationInv, RosterPartition
<1>2. ASSUME NEW t \in Thread, Finish(t)
      PROVE  RosterPartition'
  BY <1>2 DEF Finish, Reap, RosterPartition, NoThread
<1>3. ASSUME NEW t \in Thread, Schedule(t)
      PROVE  RosterPartition'
  BY <1>3 DEF Schedule, RosterPartition
<1>4. CASE ScheduleStuck
  BY <1>4 DEF ScheduleStuck, RosterPartition
<1>5. ASSUME NEW t \in Thread, CreateTid(t)
      PROVE  RosterPartition'
  BY <1>5, RosterFrame DEF CreateTid, InitialCall
<1>6. ASSUME NEW t \in Thread, NEW u \in Thread, NEW p \in JoinPointers,
             JoinEnded(t, u, p) \/ JoinMiss(t, u, p)
      PROVE  RosterPartition'
  BY <1>6, RosterFrame DEF JoinEnded, JoinMiss
<1>7. ASSUME NEW t \in Thread,
             JoinSetTid(t) \/ JoinSetRetval(t) \/ JoinReturn(t)
      PROVE  RosterPartition'
  BY <1>7, RosterFrame DEF JoinSetTid, JoinSetRetval, JoinReturn
<1>8. ASSUME NEW t \in Thread,
             YieldClock(t) \/ YieldCharge(t) \/ YieldSwap(t)
      PROVE  RosterPartition'
  BY <1>8, RosterFrame DEF YieldClock, YieldCharge, YieldSwap
<1>9. ASSUME NEW t \in Thread, NEW v \in Values, Exit(t, v)
      PROVE  RosterPartition'
  BY <1>9, RosterFrame DEF Exit
<1>10. ASSUME NEW t \in Thread, MutexInit(t) \/ Preempt(t)
       PROVE  RosterPartition'
  BY <1>10, RosterFrame DEF MutexInit, InitialCall, Preempt
<1>11. ASSUME NEW t \in Thread, NEW m \in Mutex,
              LockAcquire(t, m) \/ LockWait(t, m) \/ LockMissing(t, m)
       PROVE  RosterPartition'
  BY <1>11, RosterFrame DEF LockAcquire, LockWait, LockMissing, InLock
<1>12. ASSUME NEW t \in Thread, NEW m \in Mutex,
              Unlock(t, m) \/ UnlockAssertFails(t, m)
       PROVE  RosterPartition'
  BY <1>12, RosterFrame DEF Unlock, UnlockAssertFails
<1>13. ASSUME NEW t \in Thread, NEW m \in Mutex,
              DestroyFree(t, m) \/ DestroyHeld(t, m)
       PROVE  RosterPartition'
  BY <1>13, RosterFrame DEF DestroyFree, DestroyHeld
<1>14. ASSUME NEW t \in Thread, DestroyRemove(t) \/ DestroyMissing(t)
       PROVE  RosterPartition'
  BY <1>14, RosterFrame DEF DestroyRemove, DestroyMissing
<1>15. CASE TimerExpires \/ UNCHANGED vars
  BY <1>15, RosterFrame DEF TimerExpires, vars
<1>16. ASSUME NEW t \in Thread,
              MainReturn(t) \/ CleanupFree(t) \/ CleanupAbort(t) \/ CleanupEnd(t)
       PROVE  RosterPartition'
  BY <1>16, RosterFrame DEF MainReturn, CleanupFree, CleanupAbort, CleanupEnd
<1> QED
  BY <1>1, <1>2, <1>3, <1>4, <1>5, <1>6, <1>7, <1>8, <1>9, <1>10, <1>11,
     <1>12, <1>13, <1>14, <1>15, <1>16
  DEF Next, CallStep, MutexStep, Halted

-----------------------------------------------------------------------------
(* Joins.                                                                  *)

LEMMA JoinFrame ==
    ASSUME JoinInv,
           UNCHANGED <<pc, arg, joinTid, ended, running>>,
           cpu' = "thread" => cpu = "thread"
    PROVE  JoinInv'
  BY DEF JoinInv, JoinPending

LEMMA JoinInit == Init => JoinInv
  BY DEF Init, JoinInv, JoinPending

(* A join_tid is set to the target that arg holds, and reset only by the    *)
(* end of that target: afterwards the target is in ended_tcbs.              *)
LEMMA JoinNext ==
    TypeInv /\ RosterPartition /\ JoinInv /\ [Next]_vars => JoinInv'
<1> SUFFICES ASSUME TypeInv, RosterPartition, JoinInv, [Next]_vars
             PROVE  JoinInv'
  OBVIOUS
<1> USE DEF TypeInv, TypeOK, Goto, At, Executing, cpuVars, joinVars,
            rosterVars, mutexVars, timerVars
<1>1. ASSUME NEW t \in Thread, CreateTid(t)
      PROVE  JoinInv'
  BY <1>1 DEF CreateTid, InitialCall, JoinInv, JoinPending, NoThread
<1>2. ASSUME NEW t \in Thread, CreateEnqueue(t)
      PROVE  JoinInv'
  BY <1>2 DEF CreateEnqueue, JoinInv, JoinPending, NoThread, CreationInv
<1>3. ASSUME NEW t \in Thread, NEW u \in Thread, NEW p \in JoinPointers,
             JoinMiss(t, u, p)
      PROVE  JoinInv'
  BY <1>3 DEF JoinMiss, JoinInv, JoinPending, NoThread
<1>4. ASSUME NEW t \in Thread, NEW u \in Thread, NEW p \in JoinPointers,
             JoinEnded(t, u, p)
      PROVE  JoinInv'
  BY <1>4, JoinFrame DEF JoinEnded
<1>5. ASSUME NEW t \in Thread, JoinSetTid(t)
      PROVE  JoinInv'
  BY <1>5 DEF JoinSetTid, JoinInv, JoinPending, NoThread, CreationInv, Thread
<1>6. ASSUME NEW t \in Thread, JoinSetRetval(t)
      PROVE  JoinInv'
  BY <1>6 DEF JoinSetRetval, JoinInv, JoinPending, NoThread
<1>7. ASSUME NEW t \in Thread, JoinReturn(t)
      PROVE  JoinInv'
  BY <1>7 DEF JoinReturn, JoinInv, JoinPending, NoThread
<1>8. ASSUME NEW t \in Thread, YieldClock(t)
      PROVE  JoinInv'
  BY <1>8 DEF YieldClock, JoinInv, JoinPending, NoThread
<1>9. ASSUME NEW t \in Thread, YieldCharge(t)
      PROVE  JoinInv'
  BY <1>9 DEF YieldCharge, JoinInv, JoinPending, NoThread
<1>10. ASSUME NEW t \in Thread, YieldSwap(t)
       PROVE  JoinInv'
  BY <1>10 DEF YieldSwap, JoinInv, JoinPending, NoThread
<1>11. ASSUME NEW t \in Thread, NEW v \in Values, Exit(t, v)
       PROVE  JoinInv'
  BY <1>11, JoinFrame DEF Exit
<1>12. ASSUME NEW t \in Thread, Finish(t)
       PROVE  JoinInv'
  BY <1>12 DEF Finish, JoinInv, JoinPending, NoThread, Joiners
<1>13. ASSUME NEW t \in Thread,
              MainReturn(t) \/ CleanupFree(t) \/ CleanupAbort(t) \/ CleanupEnd(t)
       PROVE  JoinInv'
  <2>1. CASE MainReturn(t) \/ CleanupFree(t)
    BY <2>1 DEF MainReturn, CleanupFree, JoinInv, JoinPending, NoThread
  <2>2. CASE CleanupAbort(t) \/ CleanupEnd(t)
    BY <2>2, JoinFrame DEF CleanupAbort, CleanupEnd
  <2> QED
    BY <1>13, <2>1, <2>2
<1>14. ASSUME NEW t \in Thread, MutexInit(t)
       PROVE  JoinInv'
  BY <1>14 DEF MutexInit, InitialCall, JoinInv, JoinPending
<1>15. ASSUME NEW t \in Thread, NEW m \in Mutex, LockAcquire(t, m)
       PROVE  JoinInv'
  BY <1>15 DEF LockAcquire, JoinInv, JoinPending, NoThread, InLock
<1>16. ASSUME NEW t \in Thread, NEW m \in Mutex, LockWait(t, m)
       PROVE  JoinInv'
  BY <1>16 DEF LockWait, JoinInv, JoinPending, NoThread, InLock
<1>17. ASSUME NEW t \in Thread, NEW m \in Mutex, LockMissing(t, m)
       PROVE  JoinInv'
  BY <1>17, JoinFrame DEF LockMissing, InLock
<1>18. ASSUME NEW t \in Thread, NEW m \in Mutex,
              Unlock(t, m) \/ UnlockAssertFails(t, m)
       PROVE  JoinInv'
  BY <1>18, JoinFrame DEF Unlock, UnlockAssertFails
<1>19. ASSUME NEW t \in Thread, NEW m \in Mutex, DestroyHeld(t, m)
       PROVE  JoinInv'
  BY <1>19 DEF DestroyHeld, JoinInv, JoinPending, NoThread
<1>20. ASSUME NEW t \in Thread, NEW m \in Mutex, DestroyFree(t, m)
       PROVE  JoinInv'
  BY <1>20, JoinFrame DEF DestroyFree
<1>21. ASSUME NEW t \in Thread, DestroyRemove(t) \/ DestroyMissing(t)
       PROVE  JoinInv'
  BY <1>21 DEF DestroyRemove, DestroyMissing, JoinInv, JoinPending, NoThread
<1>22. ASSUME NEW t \in Thread, Preempt(t)
       PROVE  JoinInv'
  BY <1>22, JoinFrame DEF Preempt
<1>23. ASSUME NEW t \in Thread, Schedule(t)
       PROVE  JoinInv'
  BY <1>23 DEF Schedule, JoinInv, JoinPending, NoThread, Blocked
<1>24. CASE TimerExpires \/ UNCHANGED vars
  BY <1>24, JoinFrame DEF TimerExpires, vars
<1>25. CASE ScheduleStuck
  BY <1>25, JoinFrame DEF ScheduleStuck
<1> QED
  BY <1>1, <1>2, <1>3, <1>4, <1>5, <1>6, <1>7, <1>8, <1>9, <1>10, <1>11,
     <1>12, <1>13, <1>14, <1>15, <1>16, <1>17, <1>18, <1>19, <1>20, <1>21,
     <1>22, <1>23, <1>24, <1>25
  DEF Next, CallStep, MutexStep, Halted

-----------------------------------------------------------------------------
(* The values of joins.                                                    *)

LEMMA ValueFrame ==
    ASSUME ValueInv,
           UNCHANGED <<pc, arg, joinTid, got, ret, ended>>
    PROVE  ValueInv'
  BY DEF ValueInv, JoinPending

LEMMA ValueInit == Init => ValueInv
  BY DEF Init, ValueInv, JoinPending

(* The value a join receives is written by the end of its target, which     *)
(* never runs again; a thread stores its own value while it runs.           *)
LEMMA ValueNext ==
    TypeInv /\ RosterPartition /\ JoinInv /\ ValueInv /\ [Next]_vars => ValueInv'
<1> SUFFICES ASSUME TypeInv, RosterPartition, JoinInv, ValueInv, [Next]_vars
             PROVE  ValueInv'
  OBVIOUS
<1> USE DEF TypeInv, TypeOK, Goto, At, Executing, cpuVars, joinVars,
            rosterVars, mutexVars, timerVars
<1>1. ASSUME NEW t \in Thread, CreateTid(t)
      PROVE  ValueInv'
  BY <1>1 DEF CreateTid, JoinInv, InitialCall, ValueInv, JoinPending, NoThread
<1>2. ASSUME NEW t \in Thread, CreateEnqueue(t)
      PROVE  ValueInv'
  BY <1>2 DEF CreateEnqueue, ValueInv, JoinPending, NoThread, CreationInv
<1>3. ASSUME NEW t \in Thread, NEW u \in Thread, NEW p \in JoinPointers,
             JoinMiss(t, u, p)
      PROVE  ValueInv'
  BY <1>3 DEF JoinMiss, JoinInv, ValueInv, JoinPending, NoThread
<1>4. ASSUME NEW t \in Thread, NEW u \in Thread, NEW p \in JoinPointers,
             JoinEnded(t, u, p)
      PROVE  ValueInv'
  BY <1>4 DEF JoinEnded, ValueInv, JoinPending, JoinInv
<1>5. ASSUME NEW t \in Thread, JoinSetTid(t)
      PROVE  ValueInv'
  BY <1>5 DEF JoinSetTid, JoinInv, ValueInv, JoinPending, NoThread, CreationInv, Thread
<1>6. ASSUME NEW t \in Thread, JoinSetRetval(t)
      PROVE  ValueInv'
  BY <1>6 DEF JoinSetRetval, ValueInv, JoinPending, NoThread
<1>7. ASSUME NEW t \in Thread, JoinReturn(t)
      PROVE  ValueInv'
  BY <1>7 DEF JoinReturn, JoinInv, ValueInv, JoinPending, NoThread
<1>8. ASSUME NEW t \in Thread, YieldClock(t)
      PROVE  ValueInv'
  BY <1>8 DEF YieldClock, JoinInv, ValueInv, JoinPending, NoThread
<1>9. ASSUME NEW t \in Thread, YieldCharge(t)
      PROVE  ValueInv'
  BY <1>9 DEF YieldCharge, JoinInv, ValueInv, JoinPending, NoThread
<1>10. ASSUME NEW t \in Thread, YieldSwap(t)
       PROVE  ValueInv'
  BY <1>10 DEF YieldSwap, JoinInv, ValueInv, JoinPending, NoThread
<1>11. ASSUME NEW t \in Thread, NEW v \in Values, Exit(t, v)
       PROVE  ValueInv'
  <2>1. t \notin ended
    BY <1>11 DEF Exit, RosterPartition
  <2>2. \A u \in ended : ret'[u] = ret[u]
    BY <2>1, <1>11 DEF Exit
  <2> QED
    BY <2>2, <1>11 DEF Exit, ValueInv, JoinPending
<1>12. ASSUME NEW t \in Thread, Finish(t)
       PROVE  ValueInv'
  <2>1. /\ UNCHANGED <<pc, arg, ret>>
        /\ ended' = ended \cup {t}
        /\ got' = Delivered(t)
        /\ joinTid' = [u \in Thread |->
                         IF u \in Joiners(t) THEN NoThread ELSE joinTid[u]]
    BY <1>12 DEF Finish
  <2>2. ASSUME NEW u \in Thread, joinTid'[u] # NoThread
        PROVE  JoinPending(u)' /\ joinTid'[u] = arg'[u]
    BY <2>1, <2>2 DEF ValueInv, JoinPending
  <2>3. ASSUME NEW u \in Thread, u \in Joiners(t)
        PROVE  arg[u] = t
    BY <2>3, <1>12 DEF Joiners, ValueInv, NoThread, Thread
  <2>4. ASSUME NEW u \in Thread, pc[u] = "joinMiss" \/ JoinPending(u)
        PROVE  \/ got'[u] = NULL
               \/ arg'[u] \in ended' /\ got'[u] = ret'[arg'[u]]
    BY <2>1, <2>3, <2>4 DEF Delivered, ValueInv
  <2> QED
    BY <2>1, <2>2, <2>4 DEF ValueInv, JoinPending
<1>13. ASSUME NEW t \in Thread,
              MainReturn(t) \/ CleanupFree(t) \/ CleanupAbort(t) \/ CleanupEnd(t)
       PROVE  ValueInv'
  <2>1. CASE MainReturn(t) \/ CleanupFree(t)
    BY <2>1 DEF MainReturn, CleanupFree, ValueInv, JoinPending, NoThread
  <2>2. CASE CleanupAbort(t) \/ CleanupEnd(t)
    BY <2>2, ValueFrame DEF CleanupAbort, CleanupEnd
  <2> QED
    BY <1>13, <2>1, <2>2
<1>14. ASSUME NEW t \in Thread, MutexInit(t)
       PROVE  ValueInv'
  BY <1>14 DEF MutexInit, InitialCall, ValueInv, JoinPending
<1>15. ASSUME NEW t \in Thread, NEW m \in Mutex, LockAcquire(t, m)
       PROVE  ValueInv'
  BY <1>15 DEF LockAcquire, ValueInv, JoinPending, NoThread, InLock
<1>16. ASSUME NEW t \in Thread, NEW m \in Mutex, LockWait(t, m)
       PROVE  ValueInv'
  BY <1>16 DEF LockWait, ValueInv, JoinPending, NoThread, InLock
<1>17. ASSUME NEW t \in Thread, NEW m \in Mutex, LockMissing(t, m)
       PROVE  ValueInv'
  BY <1>17, ValueFrame DEF LockMissing, InLock
<1>18. ASSUME NEW t \in Thread, NEW m \in Mutex,
              Unlock(t, m) \/ UnlockAssertFails(t, m)
       PROVE  ValueInv'
  BY <1>18, ValueFrame DEF Unlock, UnlockAssertFails
<1>19. ASSUME NEW t \in Thread, NEW m \in Mutex, DestroyHeld(t, m)
       PROVE  ValueInv'
  BY <1>19 DEF DestroyHeld, ValueInv, JoinPending, NoThread
<1>20. ASSUME NEW t \in Thread, NEW m \in Mutex, DestroyFree(t, m)
       PROVE  ValueInv'
  BY <1>20, ValueFrame DEF DestroyFree
<1>21. ASSUME NEW t \in Thread, DestroyRemove(t) \/ DestroyMissing(t)
       PROVE  ValueInv'
  BY <1>21 DEF DestroyRemove, DestroyMissing, ValueInv, JoinPending, NoThread
<1>22. ASSUME NEW t \in Thread, Preempt(t)
       PROVE  ValueInv'
  BY <1>22, ValueFrame DEF Preempt
<1>23. ASSUME NEW t \in Thread, Schedule(t)
       PROVE  ValueInv'
  BY <1>23 DEF Schedule, ValueInv, JoinPending, NoThread, Blocked
<1>24. CASE TimerExpires \/ UNCHANGED vars
  BY <1>24, ValueFrame DEF TimerExpires, vars
<1>25. CASE ScheduleStuck
  BY <1>25, ValueFrame DEF ScheduleStuck
<1> QED
  BY <1>1, <1>2, <1>3, <1>4, <1>5, <1>6, <1>7, <1>8, <1>9, <1>10, <1>11,
     <1>12, <1>13, <1>14, <1>15, <1>16, <1>17, <1>18, <1>19, <1>20, <1>21,
     <1>22, <1>23, <1>24, <1>25
  DEF Next, CallStep, MutexStep, Halted

-----------------------------------------------------------------------------
(* The timer.                                                              *)

LEMMA TimerFrame ==
    ASSUME TimerInv,
           UNCHANGED <<running, admitted, joinTid, armed, pending>>,
           pc'[Main] # "freed",
           cpu' = "thread" => cpu = "thread",
           halted' = "exit" => halted = "exit"
    PROVE  TimerInv'
  BY DEF TimerInv, TimerOffOnlyIfOthersJoin, CleanExitTimerOff

LEMMA TimerInit == Init => TimerInv
<1> SUFFICES ASSUME Init PROVE TimerInv
  OBVIOUS
<1>1. pc[Main] = "entering"
  BY ConstantsAssumption DEF Init, Main, Thread
<1> QED
  BY <1>1 DEF Init, TimerInv, TimerOffOnlyIfOthersJoin, CleanExitTimerOff

(* The scheduler decides for the thread it puts on the CPU, and while that  *)
(* thread runs nothing but its own join_tid changes.                        *)
LEMMA TimerNext ==
    TypeInv /\ RosterPartition /\ TimerInv /\ [Next]_vars => TimerInv'
<1> SUFFICES ASSUME TypeInv, RosterPartition, TimerInv, [Next]_vars
             PROVE  TimerInv'
  OBVIOUS
<1> USE DEF TypeInv, TypeOK, Goto, cpuVars, joinVars, rosterVars, mutexVars,
            timerVars
<1>0. Main \in Thread
  BY ConstantsAssumption DEF Main, Thread
<1>a. ASSUME NEW t \in Thread, NEW point, At(t, point), point # "freed"
      PROVE  pc[Main] # "freed"
  BY <1>a DEF At, Executing, TimerInv
<1>1. ASSUME NEW t \in Thread, CreateTid(t) \/ CreateEnqueue(t)
      PROVE  TimerInv'
  <2>1. pc[Main] # "freed"
    BY <1>1, <1>a DEF CreateTid, InitialCall, CreateEnqueue
  <2>2. pc'[Main] # "freed"
    BY <1>1, <2>1, <1>0 DEF CreateTid, CreateEnqueue
  <2> QED
    BY <1>1, <2>2, TimerFrame DEF CreateTid, CreateEnqueue
<1>2. ASSUME NEW t \in Thread, NEW u \in Thread, NEW p \in JoinPointers,
             JoinEnded(t, u, p) \/ JoinMiss(t, u, p)
      PROVE  TimerInv'
  <2>1. pc[Main] # "freed"
    BY <1>2, <1>a DEF JoinEnded, JoinMiss
  <2>2. pc'[Main] # "freed"
    BY <1>2, <2>1, <1>0 DEF JoinEnded, JoinMiss
  <2> QED
    BY <1>2, <2>2, TimerFrame DEF JoinEnded, JoinMiss
<1>3. ASSUME NEW t \in Thread, JoinSetTid(t)
      PROVE  TimerInv'
  <2>1. pc[Main] # "freed"
    BY <1>3, <1>a DEF JoinSetTid
  <2>2. pc'[Main] # "freed"
    BY <1>3, <2>1, <1>0 DEF JoinSetTid
  <2> QED
    BY <1>3, <2>2 DEF JoinSetTid, At, Executing, TimerInv,
       TimerOffOnlyIfOthersJoin, CleanExitTimerOff
<1>4. ASSUME NEW t \in Thread, JoinSetRetval(t) \/ JoinReturn(t)
      PROVE  TimerInv'
  <2>1. pc[Main] # "freed"
    BY <1>4, <1>a DEF JoinSetRetval, JoinReturn
  <2>2. pc'[Main] # "freed"
    BY <1>4, <2>1, <1>0 DEF JoinSetRetval, JoinReturn
  <2> QED
    BY <1>4, <2>2, TimerFrame DEF JoinSetRetval, JoinReturn
<1>5. ASSUME NEW t \in Thread, YieldClock(t) \/ YieldCharge(t) \/ YieldSwap(t)
      PROVE  TimerInv'
  <2>1. pc[Main] # "freed"
    BY <1>5, <1>a DEF YieldClock, YieldCharge, YieldSwap
  <2>2. pc'[Main] # "freed"
    BY <1>5, <2>1, <1>0 DEF YieldClock, YieldCharge, YieldSwap
  <2> QED
    BY <1>5, <2>2, TimerFrame DEF YieldClock, YieldCharge, YieldSwap
<1>6. ASSUME NEW t \in Thread, NEW v \in Values, Exit(t, v)
      PROVE  TimerInv'
  <2>1. pc[Main] # "freed"
    BY <1>6, <1>a DEF Exit
  <2> QED
    BY <1>6, <2>1, TimerFrame DEF Exit
<1>7. ASSUME NEW t \in Thread, Finish(t)
      PROVE  TimerInv'
  <2>1. pc[Main] # "freed"
    BY <1>7, <1>a DEF Finish
  <2> QED
    BY <1>7, <2>1 DEF Finish, At, Executing, TimerInv, TimerOffOnlyIfOthersJoin,
       CleanExitTimerOff
<1>8. ASSUME NEW t \in Thread, MainReturn(t) \/ CleanupAbort(t)
      PROVE  TimerInv'
  <2>1. pc[Main] # "freed"
    BY <1>8, <1>a DEF MainReturn, CleanupAbort
  <2>2. pc'[Main] # "freed"
    BY <1>8, <2>1, <1>0 DEF MainReturn, CleanupAbort
  <2> QED
    BY <1>8, <2>2, TimerFrame DEF MainReturn, CleanupAbort
\* Main was put on the CPU with a timer if others were left, and a signal that
\* is pending interrupts it before it goes on.
<1>9. ASSUME NEW t \in Thread, CleanupFree(t)
      PROVE  TimerInv'
  <2>1. pc[Main] # "freed" /\ running = t /\ cpu = "thread" /\ halted = "no"
    BY <1>9, <1>a DEF CleanupFree, At, Executing
  <2>2. ~pending
    BY <1>9 DEF CleanupFree, At, Executing, Unmasked
  <2>3. pc'[Main] = "freed" => t = Main
    BY <1>9, <2>1, <1>0 DEF CleanupFree
  <2> QED
    BY <1>9, <2>1, <2>2, <2>3 DEF CleanupFree, TimerInv,
       TimerOffOnlyIfOthersJoin, CleanExitTimerOff, NothingLeft
<1>10. ASSUME NEW t \in Thread, CleanupEnd(t)
       PROVE  TimerInv'
  <2>1. t = running /\ pc[t] = "freed" /\ cpu = "thread" /\ halted = "no" /\ ~pending
    BY <1>10 DEF CleanupEnd, At, Executing, Unmasked
  <2>2. halted' = "exit" => ~armed
    BY <1>10, <2>1 DEF CleanupEnd, NothingLeft, TimerInv, RosterPartition
  <2> QED
    BY <1>10, <2>1, <2>2 DEF CleanupEnd, TimerInv, TimerOffOnlyIfOthersJoin,
       CleanExitTimerOff, NothingLeft
<1>11. ASSUME NEW t \in Thread, MutexInit(t)
       PROVE  TimerInv'
  <2>1. pc[Main] # "freed"
    BY <1>11, <1>a DEF MutexInit, InitialCall
  <2>2. pc'[Main] # "freed"
    BY <1>11, <2>1, <1>0 DEF MutexInit
  <2> QED
    BY <1>11, <2>2, TimerFrame DEF MutexInit
<1>12. ASSUME NEW t \in Thread, NEW m \in Mutex,
              LockAcquire(t, m) \/ LockWait(t, m) \/ LockMissing(t, m)
       PROVE  TimerInv'
  <2>1. pc[Main] # "freed"
    BY <1>12, <1>a DEF LockAcquire, LockWait, LockMissing, InLock
  <2>2. pc'[Main] # "freed"
    BY <1>12, <2>1, <1>0 DEF LockAcquire, LockWait, LockMissing
  <2> QED
    BY <1>12, <2>2, TimerFrame DEF LockAcquire, LockWait, LockMissing, Missed
<1>13. ASSUME NEW t \in Thread, NEW m \in Mutex,
              Unlock(t, m) \/ UnlockAssertFails(t, m)
       PROVE  TimerInv'
  <2>1. pc[Main] # "freed"
    BY <1>13, <1>a DEF Unlock, UnlockAssertFails
  <2> QED
    BY <1>13, <2>1, TimerFrame DEF Unlock, UnlockAssertFails, Missed
<1>14. ASSUME NEW t \in Thread, NEW m \in Mutex,
              DestroyFree(t, m) \/ DestroyHeld(t, m)
       PROVE  TimerInv'
  <2>1. pc[Main] # "freed"
    BY <1>14, <1>a DEF DestroyFree, DestroyHeld
  <2>2. pc'[Main] # "freed"
    BY <1>14, <2>1, <1>0 DEF DestroyFree, DestroyHeld
  <2> QED
    BY <1>14, <2>2, TimerFrame DEF DestroyFree, DestroyHeld
<1>15. ASSUME NEW t \in Thread, DestroyRemove(t) \/ DestroyMissing(t)
       PROVE  TimerInv'
  <2>1. pc[Main] # "freed"
    BY <1>15, <1>a DEF DestroyRemove, DestroyMissing
  <2>2. pc'[Main] # "freed"
    BY <1>15, <2>1, <1>0 DEF DestroyRemove, DestroyMissing
  <2> QED
    BY <1>15, <2>2, TimerFrame DEF DestroyRemove, DestroyMissing
<1>16. ASSUME NEW t \in Thread, Preempt(t)
       PROVE  TimerInv'
  <2>1. pc[Main] = "freed" => halted' = "wild" /\ running = Main
    BY <1>16 DEF Preempt, TimerInv
  <2> QED
    BY <1>16, <2>1 DEF Preempt, TimerInv, TimerOffOnlyIfOthersJoin,
       CleanExitTimerOff, NothingLeft
<1>17. ASSUME NEW t \in Thread, Schedule(t)
       PROVE  TimerInv'
  <2>1. pc[Main] # "freed"
    BY <1>17 DEF Schedule, TimerInv
  <2>2. halted' # "exit"
    BY <1>17 DEF Schedule, SetTimer
  <2> QED
    BY <1>17, <2>1, <2>2
    DEF Schedule, TimerInv, TimerOffOnlyIfOthersJoin, CleanExitTimerOff,
       RemainingBlocked
<1>18. CASE TimerExpires
  BY <1>18 DEF TimerExpires, TimerInv, TimerOffOnlyIfOthersJoin,
     CleanExitTimerOff, NothingLeft
<1>19. CASE UNCHANGED vars
  BY <1>19 DEF vars, TimerInv, TimerOffOnlyIfOthersJoin, CleanExitTimerOff,
     NothingLeft
<1>20. CASE ScheduleStuck
  BY <1>20 DEF ScheduleStuck, TimerInv, TimerOffOnlyIfOthersJoin,
     CleanExitTimerOff
<1> QED
  BY <1>1, <1>2, <1>3, <1>4, <1>5, <1>6, <1>7, <1>8, <1>9, <1>10, <1>11,
     <1>12, <1>13, <1>14, <1>15, <1>16, <1>17, <1>18, <1>19, <1>20
  DEF Next, CallStep, MutexStep, Halted

-----------------------------------------------------------------------------
(* Mutual exclusion.                                                       *)

LEMMA CriticalFrame ==
    ASSUME CriticalInv,
           UNCHANGED <<critical, holder, lastMutex>>,
           mutexes' \subseteq mutexes
    PROVE  CriticalInv'
  BY DEF CriticalInv, MutexBound

LEMMA CriticalInit == Init => CriticalInv
  BY DEF Init, CriticalInv, MutexBound

(* A mutex is acquired only when it names no holder, and the name is reset  *)
(* only by the thread that leaves the critical section.                     *)
LEMMA CriticalNext ==
    TypeInv /\ CriticalInv /\ [Next]_vars => CriticalInv'
<1> SUFFICES ASSUME TypeInv, CriticalInv, [Next]_vars PROVE CriticalInv'
  OBVIOUS
<1> USE DEF TypeInv, TypeOK, Goto, At, Executing, cpuVars, joinVars,
            rosterVars, mutexVars, timerVars
<1>1. ASSUME NEW t \in Thread, CreateTid(t) \/ CreateEnqueue(t)
      PROVE  CriticalInv'
  BY <1>1, CriticalFrame DEF CreateTid, InitialCall, CreateEnqueue
<1>2. ASSUME NEW t \in Thread, NEW u \in Thread, NEW p \in JoinPointers,
             JoinEnded(t, u, p) \/ JoinMiss(t, u, p)
      PROVE  CriticalInv'
  BY <1>2, CriticalFrame DEF JoinEnded, JoinMiss
<1>3. ASSUME NEW t \in Thread,
             JoinSetTid(t) \/ JoinSetRetval(t) \/ JoinReturn(t)
      PROVE  CriticalInv'
  BY <1>3, CriticalFrame DEF JoinSetTid, JoinSetRetval, JoinReturn
<1>4. ASSUME NEW t \in Thread, YieldClock(t) \/ YieldCharge(t) \/ YieldSwap(t)
      PROVE  CriticalInv'
  BY <1>4, CriticalFrame DEF YieldClock, YieldCharge, YieldSwap
<1>5. ASSUME NEW t \in Thread, NEW v \in Values, Exit(t, v)
      PROVE  CriticalInv'
  BY <1>5, CriticalFrame DEF Exit
<1>6. ASSUME NEW t \in Thread, Finish(t)
      PROVE  CriticalInv'
  BY <1>6, CriticalFrame DEF Finish
<1>7. ASSUME NEW t \in Thread,
             MainReturn(t) \/ CleanupFree(t) \/ CleanupAbort(t) \/ CleanupEnd(t)
      PROVE  CriticalInv'
  BY <1>7, CriticalFrame DEF MainReturn, CleanupFree, CleanupAbort, CleanupEnd
<1>8. ASSUME NEW t \in Thread, MutexInit(t)
      PROVE  CriticalInv'
  BY <1>8 DEF MutexInit, InitialCall, CriticalInv, MutexBound, Mutex
<1>9. ASSUME NEW t \in Thread, NEW m \in Mutex, LockAcquire(t, m)
      PROVE  CriticalInv'
  <2>1. m <= lastMutex /\ holder[m] = NoThread
    BY <1>9 DEF LockAcquire, IsFree, CriticalInv, MutexBound
  <2>2. ASSUME NEW u \in Thread, NEW n \in critical'[u]
        PROVE  n <= lastMutex' /\ holder'[n] = u
    <3>1. CASE n \in critical[u]
      BY <1>9, <2>1, <3>1 DEF LockAcquire, CriticalInv, NoThread, Thread
    <3>2. CASE n \notin critical[u]
      BY <1>9, <2>1, <3>2 DEF LockAcquire
    <3> QED
      BY <3>1, <3>2
  <2>3. MutexBound'
    BY <1>9 DEF LockAcquire, CriticalInv, MutexBound
  <2> QED
    BY <2>2, <2>3 DEF CriticalInv
<1>10. ASSUME NEW t \in Thread, NEW m \in Mutex,
              LockWait(t, m) \/ LockMissing(t, m)
       PROVE  CriticalInv'
  BY <1>10, CriticalFrame DEF LockWait, LockMissing, InLock
<1>11. ASSUME NEW t \in Thread, NEW m \in Mutex, Unlock(t, m)
       PROVE  CriticalInv'
  BY <1>11 DEF Unlock, CriticalInv, MutexBound
<1>12. ASSUME NEW t \in Thread, NEW m \in Mutex, UnlockAssertFails(t, m)
       PROVE  CriticalInv'
  BY <1>12, CriticalFrame DEF UnlockAssertFails
<1>13. ASSUME NEW t \in Thread, NEW m \in Mutex, DestroyHeld(t, m)
       PROVE  CriticalInv'
  BY <1>13 DEF DestroyHeld, CriticalInv, MutexBound
<1>14. ASSUME NEW t \in Thread, NEW m \in Mutex, DestroyFree(t, m)
       PROVE  CriticalInv'
  BY <1>14, CriticalFrame DEF DestroyFree
<1>15. ASSUME NEW t \in Thread, DestroyRemove(t) \/ DestroyMissing(t)
       PROVE  CriticalInv'
  BY <1>15, CriticalFrame DEF DestroyRemove, DestroyMissing
<1>16. ASSUME NEW t \in Thread, Preempt(t)
       PROVE  CriticalInv'
  BY <1>16, CriticalFrame DEF Preempt
<1>17. ASSUME NEW t \in Thread, Schedule(t)
       PROVE  CriticalInv'
  BY <1>17, CriticalFrame DEF Schedule
<1>18. CASE TimerExpires \/ UNCHANGED vars
  BY <1>18, CriticalFrame DEF TimerExpires, vars
<1>19. CASE ScheduleStuck
  BY <1>19, CriticalFrame DEF ScheduleStuck
<1> QED
  BY <1>1, <1>2, <1>3, <1>4, <1>5, <1>6, <1>7, <1>8, <1>9, <1>10, <1>11,
     <1>12, <1>13, <1>14, <1>15, <1>16, <1>17, <1>18, <1>19
  DEF Next, CallStep, MutexStep, Halted

-----------------------------------------------------------------------------
(* Lock waiters.                                                           *)

LEMMA SeekFrame ==
    ASSUME SeekInv,
           UNCHANGED <<seeking, pc, arg, admitted, running>>,
           cpu' = "thread" => cpu = "thread"
    PROVE  SeekInv'
  BY DEF SeekInv

LEMMA SeekInit == Init => SeekInv
  BY DEF Init, SeekInv

(* The scheduler does not pick a thread that seeks a mutex, so the thread   *)
(* neither leaves worker_mutex_lock nor ends meanwhile.                     *)
LEMMA SeekNext ==
    TypeInv /\ RosterPartition /\ SeekInv /\ [Next]_vars => SeekInv'
<1> SUFFICES ASSUME TypeInv, RosterPartition, SeekInv, [Next]_vars
             PROVE  SeekInv'
  OBVIOUS
<1> USE DEF TypeInv, TypeOK, Goto, At, Executing, cpuVars, joinVars,
            rosterVars, mutexVars, timerVars
<1>1. ASSUME NEW t \in Thread, CreateTid(t)
      PROVE  SeekInv'
  BY <1>1 DEF CreateTid, InitialCall, SeekInv, NoMutex
<1>2. ASSUME NEW t \in Thread, CreateEnqueue(t)
      PROVE  SeekInv'
  BY <1>2 DEF CreateEnqueue, SeekInv, NoMutex, CreationInv
<1>3. ASSUME NEW t \in Thread, NEW u \in Thread, NEW p \in JoinPointers,
             JoinMiss(t, u, p)
      PROVE  SeekInv'
  BY <1>3 DEF JoinMiss, SeekInv, NoMutex
<1>4. ASSUME NEW t \in Thread, NEW u \in Thread, NEW p \in JoinPointers,
             JoinEnded(t, u, p)
      PROVE  SeekInv'
  BY <1>4, SeekFrame DEF JoinEnded
<1>5. ASSUME NEW t \in Thread, JoinSetTid(t)
      PROVE  SeekInv'
  BY <1>5 DEF JoinSetTid, SeekInv, NoMutex
<1>6. ASSUME NEW t \in Thread, JoinSetRetval(t)
      PROVE  SeekInv'
  BY <1>6 DEF JoinSetRetval, SeekInv, NoMutex
<1>7. ASSUME NEW t \in Thread, JoinReturn(t)
      PROVE  SeekInv'
  BY <1>7 DEF JoinReturn, SeekInv, NoMutex
<1>8. ASSUME NEW t \in Thread, YieldClock(t)
      PROVE  SeekInv'
  BY <1>8 DEF YieldClock, SeekInv, NoMutex
<1>9. ASSUME NEW t \in Thread, YieldCharge(t)
      PROVE  SeekInv'
  BY <1>9 DEF YieldCharge, SeekInv, NoMutex
<1>10. ASSUME NEW t \in Thread, YieldSwap(t)
       PROVE  SeekInv'
  BY <1>10 DEF YieldSwap, SeekInv, NoMutex
<1>11. ASSUME NEW t \in Thread, NEW v \in Values, Exit(t, v)
       PROVE  SeekInv'
  BY <1>11, SeekFrame DEF Exit
<1>12. ASSUME NEW t \in Thread, Finish(t)
       PROVE  SeekInv'
  BY <1>12 DEF Finish, Reap, SeekInv, NoMutex
<1>13. ASSUME NEW t \in Thread,
              MainReturn(t) \/ CleanupFree(t) \/ CleanupAbort(t) \/ CleanupEnd(t)
       PROVE  SeekInv'
  <2>1. CASE MainReturn(t) \/ CleanupFree(t)
    BY <2>1 DEF MainReturn, CleanupFree, SeekInv, NoMutex
  <2>2. CASE CleanupAbort(t) \/ CleanupEnd(t)
    BY <2>2, SeekFrame DEF CleanupAbort, CleanupEnd
  <2> QED
    BY <1>13, <2>1, <2>2
<1>14. ASSUME NEW t \in Thread, MutexInit(t)
       PROVE  SeekInv'
  BY <1>14 DEF MutexInit, InitialCall, SeekInv, NoMutex
<1>15. ASSUME NEW t \in Thread, NEW m \in Mutex, LockAcquire(t, m)
       PROVE  SeekInv'
  BY <1>15 DEF LockAcquire, SeekInv, NoMutex, InLock
<1>16. ASSUME NEW t \in Thread, NEW m \in Mutex, LockWait(t, m)
       PROVE  SeekInv'
  BY <1>16 DEF LockWait, SeekInv, NoMutex, InLock, RosterPartition
<1>17. ASSUME NEW t \in Thread, NEW m \in Mutex, LockMissing(t, m)
       PROVE  SeekInv'
  BY <1>17, SeekFrame DEF LockMissing, InLock
<1>18. ASSUME NEW t \in Thread, NEW m \in Mutex, Unlock(t, m)
       PROVE  SeekInv'
  BY <1>18 DEF Unlock, SeekInv, NoMutex, Broadcast
<1>19. ASSUME NEW t \in Thread, NEW m \in Mutex, UnlockAssertFails(t, m)
       PROVE  SeekInv'
  BY <1>19, SeekFrame DEF UnlockAssertFails
<1>20. ASSUME NEW t \in Thread, NEW m \in Mutex, DestroyHeld(t, m)
       PROVE  SeekInv'
  BY <1>20 DEF DestroyHeld, SeekInv, NoMutex, Broadcast
<1>21. ASSUME NEW t \in Thread, NEW m \in Mutex, DestroyFree(t, m)
       PROVE  SeekInv'
  BY <1>21, SeekFrame DEF DestroyFree
<1>22. ASSUME NEW t \in Thread, DestroyRemove(t) \/ DestroyMissing(t)
       PROVE  SeekInv'
  BY <1>22 DEF DestroyRemove, DestroyMissing, SeekInv, NoMutex
<1>23. ASSUME NEW t \in Thread, Preempt(t)
       PROVE  SeekInv'
  BY <1>23, SeekFrame DEF Preempt
<1>24. ASSUME NEW t \in Thread, Schedule(t)
       PROVE  SeekInv'
  BY <1>24 DEF Schedule, SeekInv, NoMutex, Blocked
<1>25. CASE TimerExpires \/ UNCHANGED vars
  BY <1>25, SeekFrame DEF TimerExpires, vars
<1>26. CASE ScheduleStuck
  BY <1>26 DEF ScheduleStuck, SeekInv, NoMutex
<1> QED
  BY <1>1, <1>2, <1>3, <1>4, <1>5, <1>6, <1>7, <1>8, <1>9, <1>10, <1>11,
     <1>12, <1>13, <1>14, <1>15, <1>16, <1>17, <1>18, <1>19, <1>20, <1>21,
     <1>22, <1>23, <1>24, <1>25, <1>26
  DEF Next, CallStep, MutexStep, Halted

LEMMA HeldFrame ==
    ASSUME HeldInv,
           UNCHANGED <<seeking, mutexes, holder, critical, lastMutex>>,
           \A t \in Thread :
              pc'[t] = "destroying" => arg'[t] \in Careless
    PROVE  HeldInv'
  BY DEF HeldInv, HolderKeepsMutex, SeekersAwaitHolder

LEMMA HeldInit == Init => HeldInv
<1> SUFFICES ASSUME Init PROVE HeldInv
  OBVIOUS
<1>1. HolderKeepsMutex
  BY DEF Init, HolderKeepsMutex
<1>2. SeekersAwaitHolder
  BY DEF Init, SeekersAwaitHolder, NoMutex, Mutex
<1>3. \A t \in Thread : pc[t] = "destroying" => arg[t] \in Careless
  BY DEF Init
<1> QED
  BY <1>1, <1>2, <1>3 DEF HeldInv

(* A locked mutex that clients do not destroy while they hold it keeps its  *)
(* node and its holder, and an unlock wakes all of the mutex's waiters.     *)
LEMMA HeldNext ==
    /\ TypeInv /\ CriticalInv /\ SeekInv /\ HeldInv
    /\ [Next]_vars
    => HeldInv'
<1> SUFFICES ASSUME TypeInv, CriticalInv, SeekInv, HeldInv, [Next]_vars
             PROVE  HeldInv'
  OBVIOUS
<1> USE DEF TypeInv, TypeOK, Goto, At, Executing, cpuVars, joinVars,
            rosterVars, mutexVars, timerVars, HeldInv
<1>1. ASSUME NEW t \in Thread, CreateEnqueue(t)
      PROVE  HeldInv'
  BY <1>1, HeldFrame DEF CreateEnqueue, HeldInv
<1>2. ASSUME NEW t \in Thread, CreateTid(t)
      PROVE  HeldInv'
  BY <1>2, HeldFrame DEF CreateTid, InitialCall
<1>3. ASSUME NEW t \in Thread, NEW u \in Thread, NEW p \in JoinPointers,
             JoinEnded(t, u, p) \/ JoinMiss(t, u, p)
      PROVE  HeldInv'
  BY <1>3, HeldFrame DEF JoinEnded, JoinMiss
<1>4. ASSUME NEW t \in Thread,
             JoinSetTid(t) \/ JoinSetRetval(t) \/ JoinReturn(t)
      PROVE  HeldInv'
  BY <1>4, HeldFrame DEF JoinSetTid, JoinSetRetval, JoinReturn
<1>5. ASSUME NEW t \in Thread, YieldClock(t) \/ YieldCharge(t) \/ YieldSwap(t)
      PROVE  HeldInv'
  BY <1>5, HeldFrame DEF YieldClock, YieldCharge, YieldSwap
<1>6. ASSUME NEW t \in Thread, NEW v \in Values, Exit(t, v)
      PROVE  HeldInv'
  BY <1>6, HeldFrame DEF Exit
<1>7. ASSUME NEW t \in Thread, Finish(t)
      PROVE  HeldInv'
  BY <1>7, HeldFrame DEF Finish
<1>8. ASSUME NEW t \in Thread,
             MainReturn(t) \/ CleanupFree(t) \/ CleanupAbort(t) \/ CleanupEnd(t)
      PROVE  HeldInv'
  BY <1>8, HeldFrame DEF MainReturn, CleanupFree, CleanupAbort, CleanupEnd
<1>9. ASSUME NEW t \in Thread, MutexInit(t)
      PROVE  HeldInv'
  BY <1>9
  DEF MutexInit, InitialCall, HolderKeepsMutex, SeekersAwaitHolder, NoMutex,
      NoThread, MutexBound, CriticalInv
<1>10. ASSUME NEW t \in Thread, NEW m \in Mutex, LockAcquire(t, m)
       PROVE  HeldInv'
  <2>1. HolderKeepsMutex'
    BY <1>10 DEF LockAcquire, IsFree, HolderKeepsMutex, NoThread, Thread
  <2>2. SeekersAwaitHolder'
    BY <1>10 DEF LockAcquire, SeekersAwaitHolder, NoThread, Thread
  <2>3. \A u \in Thread :
           pc'[u] = "destroying" => arg'[u] \in Careless
    BY <1>10 DEF LockAcquire
  <2> QED
    BY <2>1, <2>2, <2>3
<1>11. ASSUME NEW t \in Thread, NEW m \in Mutex, LockWait(t, m)
       PROVE  HeldInv'
  BY <1>11
  DEF LockWait, HolderKeepsMutex, SeekersAwaitHolder, NoMutex,
      NoThread, IsFree, InLock
<1>12. ASSUME NEW t \in Thread, NEW m \in Mutex, LockMissing(t, m)
       PROVE  HeldInv'
  BY <1>12, HeldFrame DEF LockMissing, InLock
<1>13. ASSUME NEW t \in Thread, NEW m \in Mutex, Unlock(t, m)
       PROVE  HeldInv'
  <2>1. HolderKeepsMutex'
    BY <1>13 DEF Unlock, HolderKeepsMutex, CriticalInv, MutualExclusion
  <2>2. SeekersAwaitHolder'
    <3> SUFFICES ASSUME NEW u \in Thread, seeking'[u] \in Mutex \ Careless
                 PROVE  /\ seeking'[u] \in mutexes'
                        /\ holder'[seeking'[u]] # NoThread
      BY DEF SeekersAwaitHolder
    <3>1. NoMutex \notin Mutex
      BY DEF NoMutex, Mutex
    <3>2. seeking'[u] = seeking[u] /\ ~(u \in Waiters(m))
      BY <1>13, <3>1 DEF Unlock, Broadcast
    <3>3. seeking[u] # m
      BY <3>1, <3>2 DEF Waiters, SeekInv
    <3> QED
      BY <1>13, <3>2, <3>3 DEF Unlock, SeekersAwaitHolder
  <2>3. \A u \in Thread :
           pc'[u] = "destroying" => arg'[u] \in Careless
    BY <1>13 DEF Unlock
  <2> QED
    BY <2>1, <2>2, <2>3
<1>14. ASSUME NEW t \in Thread, NEW m \in Mutex, UnlockAssertFails(t, m)
       PROVE  HeldInv'
  BY <1>14, HeldFrame DEF UnlockAssertFails
<1>15. ASSUME NEW t \in Thread, NEW m \in Mutex, DestroyFree(t, m)
       PROVE  HeldInv'
  <2>1. HolderKeepsMutex'
    BY <1>15 DEF DestroyFree, HolderKeepsMutex, NoThread, Thread
  <2>2. SeekersAwaitHolder'
    BY <1>15 DEF DestroyFree, SeekersAwaitHolder, SeekInv
  <2>3. \A u \in Thread :
           pc'[u] = "destroying" => arg'[u] \in Careless
    BY <1>15 DEF DestroyFree
  <2> QED
    BY <2>1, <2>2, <2>3
<1>16. ASSUME NEW t \in Thread, NEW m \in Mutex, DestroyHeld(t, m)
       PROVE  HeldInv'
  <2>1. HolderKeepsMutex'
    BY <1>16 DEF DestroyHeld, HolderKeepsMutex
  <2>2. SeekersAwaitHolder'
    <3>1. NoMutex \notin Mutex
      BY DEF NoMutex, Mutex
    <3> QED
      BY <1>16, <3>1 DEF DestroyHeld, SeekersAwaitHolder, Broadcast
  <2>3. \A u \in Thread :
           pc'[u] = "destroying" => arg'[u] \in Careless
    BY <1>16 DEF DestroyHeld
  <2> QED
    BY <2>1, <2>2, <2>3
<1>17. ASSUME NEW t \in Thread, DestroyRemove(t) \/ DestroyMissing(t)
       PROVE  HeldInv'
  <2>1. CASE DestroyRemove(t)
    BY <2>1
    DEF DestroyRemove, HolderKeepsMutex, SeekersAwaitHolder, NoMutex,
        NoThread
  <2>2. CASE DestroyMissing(t)
    BY <2>2, HeldFrame DEF DestroyMissing
  <2> QED
    BY <1>17, <2>1, <2>2
<1>18. ASSUME NEW t \in Thread, Preempt(t)
       PROVE  HeldInv'
  BY <1>18, HeldFrame DEF Preempt
<1>19. ASSUME NEW t \in Thread, Schedule(t)
       PROVE  HeldInv'
  BY <1>19, HeldFrame DEF Schedule
<1>20. CASE TimerExpires \/ UNCHANGED vars
  BY <1>20, HeldFrame DEF TimerExpires, vars
<1>21. CASE ScheduleStuck
  BY <1>21, HeldFrame DEF ScheduleStuck
<1> QED
  BY <1>1, <1>2, <1>3, <1>4, <1>5, <1>6, <1>7, <1>8, <1>9, <1>10, <1>11,
     <1>12, <1>13, <1>14, <1>15, <1>16, <1>17, <1>18, <1>19, <1>20, <1>21
  DEF Next, CallStep, MutexStep, Halted

-----------------------------------------------------------------------------
(* The theorems.                                                           *)

(* In every reachable state the variables have their types and preempted    *)
(* creations hold fresh, distinct identifiers (worker_create).              *)
THEOREM TypeInvariant == Spec => []TypeInv
<1>1. Init => TypeInv
  BY TypeInvInit
<1>2. TypeInv /\ [Next]_vars => TypeInv'
  BY TypeInvNext
<1> QED
  BY <1>1, <1>2, PTL DEF Spec

(* The types alone.                                                         *)
THEOREM TypeCorrect == Spec => []TypeOK
<1>1. TypeInv => TypeOK
  BY DEF TypeInv
<1> QED
  BY <1>1, TypeInvariant, PTL

(* No thread is lost or duplicated between q_arrival, the scheduler's lists *)
(* and ended_tcbs (worker_create, sched_*, clean_exited_worker_thread).     *)
THEOREM RosterCorrect == Spec => []RosterPartition
<1>1. Init => RosterPartition
  BY RosterInit
<1>2. TypeInv /\ RosterPartition /\ [Next]_vars => RosterPartition'
  BY RosterNext
<1> QED
  BY <1>1, <1>2, TypeInvariant, PTL DEF Spec

LEMMA JoinInvariant == Spec => []JoinInv
<1>1. Init => JoinInv
  BY JoinInit
<1>2. TypeInv /\ RosterPartition /\ JoinInv /\ [Next]_vars => JoinInv'
  BY JoinNext
<1> QED
  BY <1>1, <1>2, TypeInvariant, RosterCorrect, PTL DEF Spec

(* worker_join never returns before its target has ended, wherever it is    *)
(* preempted.                                                               *)
THEOREM JoinCorrect == Spec => []JoinAfterEnd
<1>1. JoinInv => JoinAfterEnd
  BY DEF JoinInv, JoinPending, JoinAfterEnd, Thread, NoThread
<1> QED
  BY <1>1, JoinInvariant, PTL

LEMMA ValueInvariant == Spec => []ValueInv
<1>1. Init => ValueInv
  BY ValueInit
<1>2. TypeInv /\ RosterPartition /\ JoinInv /\ ValueInv /\ [Next]_vars => ValueInv'
  BY ValueNext
<1> QED
  BY <1>1, <1>2, TypeInvariant, RosterCorrect, JoinInvariant, PTL DEF Spec

(* The variable of a join holds its target's value or nothing, although the *)
(* code stores its address preemptibly and after the target's identifier.   *)
THEOREM JoinValueCorrect == Spec => []JoinValueOfTarget
<1>1. ValueInv => JoinValueOfTarget
  BY DEF ValueInv, JoinPending, JoinValueOfTarget
<1> QED
  BY <1>1, ValueInvariant, PTL

LEMMA TimerInvariant == Spec => []TimerInv
<1>1. Init => TimerInv
  BY TimerInit
<1>2. TypeInv /\ RosterPartition /\ TimerInv /\ [Next]_vars => TimerInv'
  BY TimerNext
<1> QED
  BY <1>1, <1>2, TypeInvariant, RosterCorrect, PTL DEF Spec

(* A thread runs without a timer only if every other thread the scheduler   *)
(* knows waits in worker_join (remaining_threads_blocked).                  *)
THEOREM TimerCorrect == Spec => []TimerOffOnlyIfOthersJoin
<1>1. TimerInv => TimerOffOnlyIfOthersJoin
  BY DEF TimerInv
<1> QED
  BY <1>1, TimerInvariant, PTL

(* When nothing is left as cleanup_library frees the running tcb, and when  *)
(* its asserts let the process exit, no timer runs and no SIGPROF is        *)
(* pending, although nothing disarms the timer and cleanup_library itself   *)
(* may have been interrupted.                                               *)
THEOREM CleanExitCorrect == Spec => []CleanExitTimerOff
<1>1. TimerInv => CleanExitTimerOff
  BY DEF TimerInv
<1> QED
  BY <1>1, TimerInvariant, PTL

LEMMA CriticalInvariant == Spec => []CriticalInv
<1>1. Init => CriticalInv
  BY CriticalInit
<1>2. TypeInv /\ CriticalInv /\ [Next]_vars => CriticalInv'
  BY CriticalNext
<1> QED
  BY <1>1, <1>2, TypeInvariant, PTL DEF Spec

(* Mutual exclusion, whatever clients do with worker_mutex_destroy.         *)
THEOREM MutualExclusionCorrect == Spec => []MutualExclusion
<1>1. CriticalInv => MutualExclusion
  BY DEF CriticalInv, MutualExclusion
<1> QED
  BY <1>1, CriticalInvariant, PTL

LEMMA SeekInvariant == Spec => []SeekInv
<1>1. Init => SeekInv
  BY SeekInit
<1>2. TypeInv /\ RosterPartition /\ SeekInv /\ [Next]_vars => SeekInv'
  BY SeekNext
<1> QED
  BY <1>1, <1>2, TypeInvariant, RosterCorrect, PTL DEF Spec

LEMMA HeldInvariant == Spec => []HeldInv
<1>1. Init => HeldInv
  BY HeldInit
<1>2. /\ TypeInv /\ CriticalInv /\ SeekInv /\ HeldInv
      /\ [Next]_vars
      => HeldInv'
  BY HeldNext
<1> QED
  BY <1>1, <1>2, TypeInvariant, CriticalInvariant, SeekInvariant, PTL
  DEF Spec

(* A locked mutex that clients never destroy while they hold it keeps its   *)
(* node and its holder until that thread unlocks it, so that the asserts of *)
(* worker_mutex_unlock hold.                                                *)
THEOREM HolderCorrect == Spec => []HolderKeepsMutex
<1>1. HeldInv => HolderKeepsMutex
  BY DEF HeldInv
<1> QED
  BY <1>1, HeldInvariant, PTL

(* No thread that the scheduler skips for such a mutex waits for one that   *)
(* is free or gone (broadcast_lock_release wakes all of its waiters).       *)
THEOREM NoLostWaiter == Spec => []SeekersAwaitHolder
<1>1. HeldInv => SeekersAwaitHolder
  BY DEF HeldInv
<1> QED
  BY <1>1, HeldInvariant, PTL

=============================================================================
