-------------------------------- MODULE Psjf --------------------------------
(***************************************************************************)
(* The library built with the preemptive shortest-job-first policy         *)
(* (sched_psjf, the default of the Makefile): the threads that wait for    *)
(* the CPU form a list in ascending order of the CPU time they used.       *)
(*                                                                         *)
(* The calls are those of UserThreads, whose arrival and admitted sets are *)
(* here the queue q_arrival and the list tcbs with the running thread.     *)
(* CPU time is counted in units of which a time quantum has TimeQuantum.   *)
(***************************************************************************)
EXTENDS Naturals, Sequences, SequencesExt

CONSTANTS
    MaxThread, MaxMutex, Values, NULL, Joins, JoinPointers, Locks, Careless,
    StrayFronts,
    TimeQuantum,      \* TIME_QUANTUM, in units
    MaxQuanta         \* bound on total_quantums_elapsed

ASSUME QuantumAssumption == TimeQuantum \in Nat \ {0} /\ MaxQuanta \in Nat

VARIABLES
    running, cpu, pc, arg, wants, joinTid, joinRet, got, ret, seeking,
    lastTid, ended, lastMutex, mutexes, strayFront, holder, critical, armed,
    pending, halted,  \* as in UserThreads
    q_arrival,        \* the queue of new threads
    tcbs,             \* the list of threads that wait for the CPU
    quanta,           \* per thread: quantums_elapsed
    used,             \* per thread: quantum_amt_used
    total             \* total_quantums_elapsed

Core == INSTANCE UserThreads WITH
            arrival  <- ToSet(q_arrival),
            admitted <- ToSet(tcbs) \cup ({running} \ {0})

ASSUME CoreAssumption == Core!ConstantsAssumption

Thread == Core!Thread

listVars  == <<q_arrival, tcbs>>
usageVars == <<quanta, used, total>>
coreVars  == <<running, cpu, pc, arg, wants, joinTid, joinRet, got, ret,
               seeking, lastTid, ended, lastMutex, mutexes, strayFront, holder,
               critical, armed, pending, halted>>
vars == <<listVars, usageVars, coreVars>>

Init ==
    /\ q_arrival = <<>>
    /\ tcbs = <<>>
    /\ quanta = [t \in Thread |-> 0]
    /\ used = [t \in Thread |-> 0]
    /\ total = 0
    /\ running = Core!Main
    /\ Core!Init

-----------------------------------------------------------------------------
(* CPU accounting.                                                         *)

\* Signals still to be delivered count towards the bound.
QuantaLeft == total + (IF pending THEN 1 ELSE 0) < MaxQuanta

\* Variant: the count of quanta mixed up with the units.
ChargeInUnits(t) ==
    /\ quanta' = [quanta EXCEPT ![t] = @ + TimeQuantum]
    /\ used' = [used EXCEPT ![t] = 0]
    /\ total' = total + 1

\* A full quantum, charged by the signal handler.
ChargeQuantum(t) ==
    /\ quanta' = [quanta EXCEPT ![t] = @ + 1]
    /\ used' = [used EXCEPT ![t] = 0]
    /\ total' = total + 1

\* Variant: a quantum used up to its last unit is not over.
ChargeBeyond(t, elapsed) ==
    IF used[t] + elapsed > TimeQuantum
    THEN QuantaLeft /\ ChargeQuantum(t)
    ELSE /\ used' = [used EXCEPT ![t] = @ + elapsed]
         /\ UNCHANGED <<quanta, total>>

\* The units since the thread was scheduled, charged by worker_yield.  Units
\* are truncated, so elapsed may be 0, and as the clock may be read long before
\* a preempted thread yields, any amount is possible.  A clock read before the
\* thread was scheduled again gives a negative amount, which the conversion to
\* unsigned turns into a whole quantum.
Charge(t, elapsed) ==
    IF used[t] + elapsed >= TimeQuantum
    THEN QuantaLeft /\ ChargeQuantum(t)
    ELSE /\ used' = [used EXCEPT ![t] = @ + elapsed]
         /\ UNCHANGED <<quanta, total>>

Elapsed == 0..TimeQuantum

-----------------------------------------------------------------------------
(* The list of waiting threads.                                            *)

\* compare_usage: t has used no more than u.
AtMostUsage(t, u) ==
    \/ quanta[t] < quanta[u]
    \/ quanta[t] = quanta[u] /\ used[t] <= used[u]

\* Variant: the list is a queue.
InsertAtEnd(list, t) == Append(list, t)

\* insert_by_usage: before the first thread that has used as much or more.
InsertByUsage(list, t) ==
    LET i == SelectInSeq(list, LAMBDA u : AtMostUsage(t, u))
    IN  IF i = 0 THEN Append(list, t) ELSE InsertAt(list, i, t)

\* Variant: new threads queue up behind the sorted list.
ReadyArrivalsLast ==
    (IF running = Core!NoThread THEN tcbs ELSE InsertByUsage(tcbs, running))
        \o q_arrival

\* The list once sched_psjf has admitted the arrivals and the running thread.
Ready ==
    LET admittedList == FoldLeft(InsertByUsage, tcbs, q_arrival)
    IN  IF running = Core!NoThread
        THEN admittedList
        ELSE InsertByUsage(admittedList, running)

\* Variant: a thread that waits for a mutex is not skipped.
FirstNotJoining == SelectInSeq(Ready, LAMBDA t : joinTid[t] = Core!NoThread)

\* find_first_unblocked_thread: its position in the list, 0 if there is none.
FirstUnblocked == SelectInSeq(Ready, LAMBDA t : ~Core!Blocked(t))

-----------------------------------------------------------------------------
(* The library calls.                                                      *)

CreateEnqueue(t) ==
    /\ q_arrival' = Append(q_arrival, arg[t])
    /\ UNCHANGED <<tcbs, usageVars, running>>
    /\ Core!CreateEnqueue(t)

YieldCharge(t) ==
    /\ UNCHANGED <<listVars, running>>
    /\ Core!YieldCharge(t)
    /\ \E elapsed \in Elapsed : Charge(t, elapsed)

LockWait(t, m) ==
    /\ UNCHANGED <<listVars, running>>
    /\ Core!LockWait(t, m)
    /\ \E elapsed \in Elapsed : Charge(t, elapsed)

Finish(t) ==
    /\ UNCHANGED <<listVars, usageVars>>
    /\ Core!Finish(t)

\* The calls that involve neither the lists nor the accounts; cleanup_library
\* is one of them with this policy, and asserts nothing of its own.
OtherCall(t) ==
    /\ UNCHANGED <<listVars, usageVars, running>>
    /\ \/ Core!CreateTid(t)
       \/ \E u \in Thread, p \in JoinPointers :
             Core!JoinEnded(t, u, p) \/ Core!JoinMiss(t, u, p)
       \/ Core!JoinSetTid(t) \/ Core!JoinSetRetval(t) \/ Core!JoinReturn(t)
       \/ Core!YieldClock(t) \/ Core!YieldSwap(t)
       \/ \E v \in Values : Core!Exit(t, v)
       \/ Core!MainReturn(t) \/ Core!CleanupFree(t) \/ Core!CleanupEnd(t)

OtherMutexCall(t) ==
    /\ UNCHANGED <<listVars, usageVars, running>>
    /\ \/ Core!MutexInit(t)
       \/ \E m \in Core!Mutex :
             \/ Core!LockAcquire(t, m) \/ Core!LockMissing(t, m)
             \/ Core!Unlock(t, m) \/ Core!UnlockAssertFails(t, m)
             \/ Core!DestroyFree(t, m) \/ Core!DestroyHeld(t, m)
       \/ Core!DestroyRemove(t) \/ Core!DestroyMissing(t)

-----------------------------------------------------------------------------
(* The timer and the scheduler.                                            *)

TimerExpires ==
    /\ QuantaLeft
    /\ UNCHANGED <<listVars, usageVars, running>>
    /\ Core!TimerExpires

\* timer_signal_handler charges whoever runs.
Preempt(t) ==
    /\ UNCHANGED <<listVars, running>>
    /\ Core!Preempt(t)
    /\ ChargeQuantum(t)

Schedule ==
    /\ halted = "no"
    /\ cpu = "scheduler"
    /\ FirstUnblocked # 0
    /\ running' = Ready[FirstUnblocked]
    /\ tcbs' = RemoveAt(Ready, FirstUnblocked)
    /\ q_arrival' = <<>>
    /\ cpu' = "thread"
    /\ armed' = ~Core!RemainingBlocked(ToSet(tcbs'), running')
    /\ Core!SetTimer
    /\ UNCHANGED <<pc, arg, wants, joinTid, joinRet, got, ret, seeking,
                   lastTid, ended, lastMutex, mutexes, strayFront, holder,
                   critical, pending, usageVars>>

\* assert(first_unblocked_thread)
ScheduleStuck ==
    /\ halted = "no"
    /\ cpu = "scheduler"
    /\ FirstUnblocked = 0
    /\ halted' = "stuck"
    /\ UNCHANGED <<running, cpu, pc, arg, wants, joinTid, joinRet, got, ret,
                   seeking, lastTid, ended, lastMutex, mutexes, strayFront,
                   holder, critical, armed, pending, listVars, usageVars>>

Halted == halted # "no" /\ UNCHANGED vars

Next ==
    \/ \E t \in Thread :
          \/ CreateEnqueue(t) \/ YieldCharge(t) \/ Finish(t)
          \/ \E m \in Core!Mutex : LockWait(t, m)
          \/ OtherCall(t) \/ OtherMutexCall(t)
          \/ Preempt(t)
    \/ TimerExpires
    \/ Schedule
    \/ ScheduleStuck
    \/ Halted

Spec == Init /\ [][Next]_vars

-----------------------------------------------------------------------------
(* Properties.                                                             *)

\* The types of the variables this module adds.
TypeOK ==
    /\ q_arrival \in Seq(Thread)
    /\ tcbs \in Seq(Thread)
    /\ quanta \in [Thread -> 0..MaxQuanta]
    /\ used \in [Thread -> Nat]
    /\ total \in 0..MaxQuanta

\* The running thread and those in tcbs and q_arrival are all different
\* (insert_by_usage asserts it), and tcbs is sorted (it asserts that too): no
\* thread's account changes while it waits.
ListsConsistent ==
    LET known == q_arrival \o tcbs \o (IF running = 0 THEN <<>> ELSE <<running>>)
    IN  /\ \A i, j \in 1..Len(known) : i # j => known[i] # known[j]
        /\ \A i, j \in 1..Len(tcbs) :
              i < j => AtMostUsage(tcbs[i], tcbs[j])

\* Every thread starts its turn with some of its quantum left: set_timer never
\* gets a remaining time of zero, which would disarm the timer.
QuantumLeft == \A t \in Thread : used[t] < TimeQuantum

\* The scheduler picks a thread that has used least among all the unblocked
\* ones, those that have just been created or preempted included.
LeastUsageFirst ==
    [][cpu = "scheduler" /\ cpu' = "thread" =>
          \A t \in ToSet(q_arrival) \cup ToSet(tcbs) \cup ({running} \ {0}) :
              ~Core!Blocked(t) => AtMostUsage(running', t)]_vars

\* The library with this policy is one of those that UserThreads describes.
ImplementsUserThreads == Core!Spec
=============================================================================
