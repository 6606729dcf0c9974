-------------------------------- MODULE Mlfq --------------------------------
(***************************************************************************)
(* The library built with the multi-level feedback queue policy            *)
(* (sched_mlfq): a thread that uses up a time quantum moves one level      *)
(* down, and every BoostPeriod quanta all threads move back to the top.    *)
(*                                                                         *)
(* The calls are those of UserThreads.  The list tcbs, which this policy   *)
(* uses as a set, holds every live thread the scheduler has taken over,    *)
(* the running one included; main joins it when the scheduler first runs.  *)
(***************************************************************************)
EXTENDS Naturals, Sequences, SequencesExt

CONSTANTS
    MaxThread, MaxMutex, Values, NULL, Joins, JoinPointers, Locks, Careless,
    StrayFronts,
    TimeQuantum,      \* TIME_QUANTUM, in units
    MinElapsed,       \* the least time a turn is charged for, in units
    Levels,           \* QUEUE_LEVELS
    BoostPeriod       \* S_value_decay_usage_const

ASSUME MlfqAssumption ==
    /\ TimeQuantum \in Nat \ {0}
    /\ MinElapsed \in 0..TimeQuantum
    /\ Levels \in Nat \ {0}
    /\ BoostPeriod \in Nat \ {0}

VARIABLES
    running, cpu, pc, arg, wants, joinTid, joinRet, got, ret, seeking,
    lastTid, ended, lastMutex, mutexes, strayFront, holder, critical, armed,
    pending, halted,  \* as in UserThreads
    q_arrival,        \* the queue of new threads
    tcbs,             \* the threads the scheduler has taken over
    all_queue,        \* per level: the queue of threads that wait
    used,             \* per thread: quantum_amt_used
    full,             \* per thread: time_quantum_used_up_fully
    level,            \* per thread: priority_level
    total             \* total_quantums_elapsed, since the last boost

Core == INSTANCE UserThreads WITH
            arrival  <- ToSet(q_arrival),
            admitted <- tcbs \cup ({running} \ {0})

ASSUME CoreAssumption == Core!ConstantsAssumption

Thread == Core!Thread
Level  == 0..(Levels - 1)

queueVars == <<q_arrival, tcbs, all_queue, level>>
usageVars == <<used, full, total>>
coreVars  == <<running, cpu, pc, arg, wants, joinTid, joinRet, got, ret,
               seeking, lastTid, ended, lastMutex, mutexes, strayFront, holder,
               critical, armed, pending, halted>>
vars == <<queueVars, usageVars, coreVars>>

Init ==
    /\ q_arrival = <<>>
    /\ tcbs = {}
    /\ all_queue = [l \in Level |-> <<>>]
    /\ used = [t \in Thread |-> 0]
    /\ full = [t \in Thread |-> FALSE]
    /\ level = [t \in Thread |-> 0]
    /\ total = 0
    /\ running = Core!Main
    /\ Core!Init

-----------------------------------------------------------------------------
(* CPU accounting, as in Psjf with a flag in place of a count of quanta.   *)

ChargeQuantum(t) ==
    /\ full' = [full EXCEPT ![t] = TRUE]
    /\ used' = [used EXCEPT ![t] = 0]
    /\ total' = total + 1

\* Variant: the time used before the last yield is forgotten.
ChargeAnew(t, elapsed) ==
    IF elapsed >= TimeQuantum
    THEN ChargeQuantum(t)
    ELSE /\ used' = [used EXCEPT ![t] = elapsed]
         /\ UNCHANGED <<full, total>>

Charge(t, elapsed) ==
    IF used[t] + elapsed >= TimeQuantum
    THEN ChargeQuantum(t)
    ELSE /\ used' = [used EXCEPT ![t] = @ + elapsed]
         /\ UNCHANGED <<full, total>>

Elapsed == MinElapsed..TimeQuantum

-----------------------------------------------------------------------------
(* One turn of the scheduler: admission, demotion, boost, choice.          *)

\* schedule() puts main into tcbs before sched_mlfq takes over.
Roster == tcbs \cup ({running} \ {0}) \cup ToSet(q_arrival)

\* Variant: the lowest level is not the last.
LevelAfterTurnUnbounded(t) == IF full[t] THEN level[t] + 1 ELSE level[t]

LevelAfterTurn(t) ==
    IF full[t] /\ level[t] < Levels - 1 THEN level[t] + 1 ELSE level[t]

\* The queues with the arrivals and then the running thread appended.
Queues ==
    LET arrived == [all_queue EXCEPT ![0] = @ \o q_arrival]
    IN  IF running = Core!NoThread
        THEN arrived
        ELSE [arrived EXCEPT ![LevelAfterTurn(running)] =
                                 Append(@, running)]

BoostDue == total >= BoostPeriod

\* boost_all_queues: the lower levels join the top one, in order.
Boosted ==
    LET lower == FlattenSeq([l \in 1..(Levels - 1) |-> Queues[l]])
    IN  [l \in Level |-> IF l = 0 THEN Queues[0] \o lower ELSE <<>>]

\* Variant: the boost moves the queues and leaves priority_level alone.
BoostedThreadsNone == {}

\* The threads whose attributes the boost resets: those of the lower levels.
BoostedThreads ==
    IF BoostDue THEN UNION {ToSet(Queues[l]) : l \in Level \ {0}} ELSE {}

QueuesBeforeChoice == IF BoostDue THEN Boosted ELSE Queues

\* Variants: a thread that waits for a mutex, or in a join, is a candidate.
FirstNotJoining(queue) ==
    SelectInSeq(queue, LAMBDA t : joinTid[t] = Core!NoThread)
FirstNotSeeking(queue) ==
    SelectInSeq(queue, LAMBDA t : seeking[t] = Core!NoMutex)

FirstUnblocked(queue) == SelectInSeq(queue, LAMBDA t : ~Core!Blocked(t))

Candidates == {l \in Level : FirstUnblocked(QueuesBeforeChoice[l]) # 0}

\* Variant: the levels are searched from the lowest priority up.
LowestCandidate == CHOOSE l \in Candidates : \A k \in Candidates : k <= l

HighestCandidate == CHOOSE l \in Candidates : \A k \in Candidates : l <= k

\* The queue after its i-th thread is taken: the blocked ones before it have
\* been moved to the rear.
Take(queue, i) == SubSeq(queue, i + 1, Len(queue)) \o SubSeq(queue, 1, i - 1)

Schedule ==
    /\ halted = "no"
    /\ cpu = "scheduler"
    /\ Candidates # {}
    /\ LET queue == QueuesBeforeChoice[HighestCandidate]
           i     == FirstUnblocked(queue)
       IN  /\ running' = queue[i]
           /\ all_queue' = [QueuesBeforeChoice EXCEPT
                               ![HighestCandidate] = Take(queue, i)]
    /\ q_arrival' = <<>>
    /\ tcbs' = Roster
    /\ level' = [t \in Thread |->
                    IF t \in BoostedThreads THEN 0
                    ELSE IF t = running THEN LevelAfterTurn(t) ELSE level[t]]
    /\ used' = [t \in Thread |->
                   IF t \in BoostedThreads \/ (t = running /\ full[t])
                   THEN 0 ELSE used[t]]
    /\ full' = [t \in Thread |->
                   full[t] /\ t \notin BoostedThreads \cup {running}]
    /\ total' = IF BoostDue THEN total % BoostPeriod ELSE total
    /\ cpu' = "thread"
    /\ armed' = ~Core!RemainingBlocked(Roster, running')
    /\ Core!SetTimer
    /\ UNCHANGED <<pc, arg, wants, joinTid, joinRet, got, ret, seeking,
                   lastTid, ended, lastMutex, mutexes, strayFront, holder,
                   critical, pending>>

\* assert(running)
ScheduleStuck ==
    /\ halted = "no"
    /\ cpu = "scheduler"
    /\ Candidates = {}
    /\ halted' = "stuck"
    /\ UNCHANGED <<running, cpu, pc, arg, wants, joinTid, joinRet, got, ret,
                   seeking, lastTid, ended, lastMutex, mutexes, strayFront,
                   holder, critical, armed, pending, queueVars, usageVars>>

-----------------------------------------------------------------------------
(* The library calls and the timer.                                        *)

CreateEnqueue(t) ==
    /\ q_arrival' = Append(q_arrival, arg[t])
    /\ UNCHANGED <<tcbs, all_queue, level, usageVars, running>>
    /\ Core!CreateEnqueue(t)

YieldCharge(t) ==
    /\ UNCHANGED <<queueVars, running>>
    /\ Core!YieldCharge(t)
    /\ \E elapsed \in Elapsed : Charge(t, elapsed)

LockWait(t, m) ==
    /\ UNCHANGED <<queueVars, running>>
    /\ Core!LockWait(t, m)
    /\ \E elapsed \in Elapsed : Charge(t, elapsed)

\* cleanup_library removes main from tcbs, where the scheduler has put it if it
\* ever ran, and frees it.  (A signal between the two finds main gone from tcbs,
\* one after both finds it freed: Core!Preempt ends the process for either.)
CleanupFree(t) ==
    /\ t \in tcbs
    /\ tcbs' = tcbs \ {t}
    /\ UNCHANGED <<q_arrival, all_queue, level, usageVars, running>>
    /\ Core!CleanupFree(t)

\* remove_from asserts that main is there.
CleanupAbort(t) ==
    /\ t \notin tcbs
    /\ UNCHANGED <<queueVars, usageVars, running>>
    /\ Core!CleanupAbort(t)

Finish(t) ==
    /\ tcbs' = tcbs \ {t}
    /\ UNCHANGED <<q_arrival, all_queue, level, usageVars>>
    /\ Core!Finish(t)

\* The calls that involve neither the queues nor the accounts: those that
\* start a call, and those that go on with it.
FirstStep(t) ==
    /\ UNCHANGED <<queueVars, usageVars, running>>
    /\ \/ Core!CreateTid(t)
       \/ \E u \in Thread, p \in JoinPointers :
             Core!JoinEnded(t, u, p) \/ Core!JoinMiss(t, u, p)
       \/ Core!YieldClock(t)
       \/ \E v \in Values : Core!Exit(t, v)
       \/ Core!MainReturn(t)
       \/ Core!MutexInit(t)
       \/ \E m \in Core!Mutex :
             \/ Core!LockAcquire(t, m) \/ Core!LockMissing(t, m)
             \/ Core!Unlock(t, m) \/ Core!UnlockAssertFails(t, m)
             \/ Core!DestroyFree(t, m) \/ Core!DestroyHeld(t, m)

LaterStep(t) ==
    /\ UNCHANGED <<queueVars, usageVars, running>>
    /\ \/ Core!JoinSetTid(t) \/ Core!JoinSetRetval(t) \/ Core!JoinReturn(t)
       \/ Core!YieldSwap(t)
       \/ Core!DestroyRemove(t) \/ Core!DestroyMissing(t)
       \/ Core!CleanupEnd(t)

TimerExpires ==
    /\ UNCHANGED <<queueVars, usageVars, running>>
    /\ Core!TimerExpires

Preempt(t) ==
    /\ UNCHANGED <<queueVars, running>>
    /\ Core!Preempt(t)
    /\ ChargeQuantum(t)

Halted == halted # "no" /\ UNCHANGED vars

Next ==
    \/ \E t \in Thread :
          \/ CreateEnqueue(t) \/ YieldCharge(t) \/ Finish(t)
          \/ CleanupFree(t) \/ CleanupAbort(t)
          \/ \E m \in Core!Mutex : LockWait(t, m)
          \/ FirstStep(t) \/ LaterStep(t)
          \/ Preempt(t)
    \/ TimerExpires
    \/ Schedule
    \/ ScheduleStuck
    \/ Halted

Spec == Init /\ [][Next]_vars

\* What the machine guarantees: the scheduler context runs to its swap or its
\* assert (every step that satisfies SchedulerTurn is one of the two, and this
\* form spares TLC the choice of a thread), a thread inside a library call, or
\* main in cleanup_library, goes on while it has the CPU, a timer expires if the
\* thread it was set for keeps the CPU (every turn sets it anew, so that it need
\* not expire across turns), and a pending signal is delivered.  Nothing is
\* assumed of the code between library calls.
InCall(t) ==
    /\ pc[t] # "user"
    /\ \/ CreateEnqueue(t) \/ YieldCharge(t) \/ LaterStep(t)
       \/ CleanupFree(t) \/ CleanupAbort(t)
       \/ \E m \in Core!Mutex : LockWait(t, m)
       \/ FirstStep(t)

SchedulerTurn ==
    /\ halted = "no"
    /\ cpu = "scheduler"
    /\ \/ cpu' = "thread" /\ halted' \in {halted, "wild"}
       \/ halted' = "stuck" /\ UNCHANGED cpu

Fairness ==
    /\ WF_<<cpu, halted>>(SchedulerTurn)
    /\ WF_vars(cpu = "thread" /\ TimerExpires)
    /\ WF_vars(\E t \in Thread : Preempt(t))
    /\ WF_vars(\E t \in Thread : InCall(t))

FairSpec == Spec /\ Fairness

-----------------------------------------------------------------------------
(* Properties.                                                             *)

\* The types of the variables this module adds; two charges fit into a turn,
\* one by worker_yield and one by a signal before its swap.
TypeOK ==
    /\ q_arrival \in Seq(Thread)
    /\ tcbs \subseteq Thread
    /\ all_queue \in [Level -> Seq(Thread)]
    /\ used \in [Thread -> 0..(TimeQuantum - 1)]
    /\ full \in [Thread -> BOOLEAN]
    /\ level \in [Thread -> Level]
    /\ total \in 0..(BoostPeriod + 1)

\* Every thread in tcbs but the running one stands in exactly one queue, once,
\* and in that of its priority_level: no rotation, demotion or boost loses,
\* duplicates or misplaces a thread.  (boost_all_queues asserts that the top
\* queue then holds as many threads as tcbs.)
QueuesConsistent ==
    /\ \A l \in Level : \A i \in 1..Len(all_queue[l]) :
          /\ level[all_queue[l][i]] = l
          /\ all_queue[l][i] # running
          /\ \A j \in 1..Len(all_queue[l]) :
                i # j => all_queue[l][i] # all_queue[l][j]
    /\ tcbs \ {running} = UNION {ToSet(all_queue[l]) : l \in Level}

\* The scheduler picks a thread of the highest priority among all the
\* unblocked ones, after demotion and boost.
HighestPriorityFirst ==
    [][cpu = "scheduler" /\ cpu' = "thread" =>
          \A t \in tcbs' :
              ~Core!Blocked(t) => level'[running'] <= level'[t]]_vars

\* The library with this policy is one of those that UserThreads describes.
ImplementsUserThreads == Core!Spec

\* Every thread the scheduler could run does get the CPU, however the others
\* use theirs.
NoStarvation ==
    \A t \in Thread :
        t \in tcbs /\ ~Core!Blocked(t) ~>
            \/ cpu = "thread" /\ running = t
            \/ halted # "no"
=============================================================================
