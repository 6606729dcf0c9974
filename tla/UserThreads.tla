----------------------------- MODULE UserThreads -----------------------------
(***************************************************************************)
(* The user-level thread library of p2/code/thread-worker.c, with the      *)
(* scheduling policy left open: any unblocked thread may be picked.        *)
(* Psjf.tla and Mlfq.tla model the two policies and implement this module. *)
(*                                                                         *)
(* One kernel thread executes everything, so code that runs with SIGPROF   *)
(* blocked (the scheduler and cleanup contexts, the sigprocmask sections)  *)
(* is one step.  Code that runs with SIGPROF unblocked is cut wherever a   *)
(* preemption between two statements can be told apart: pc[t] is the point *)
(* at which thread t resumes when its context is swapped in.               *)
(***************************************************************************)
EXTENDS Naturals, FiniteSets

CONSTANTS
    MaxThread,        \* bound on the identifiers worker_create hands out
    MaxMutex,         \* bound on the identifiers worker_mutex_init hands out
    Values,           \* non-NULL values given to worker_exit
    NULL,             \* the NULL return value
    Joins,            \* pairs <<t, u>>: clients let thread t join thread u
    JoinPointers,     \* may the value_ptr of a join be non-NULL (TRUE), NULL?
    Locks,            \* pairs <<t, m>>: clients let thread t use mutex m
    Careless,         \* mutexes that clients also destroy while they hold them
    StrayFronts       \* may the memory of mutexes->front hold junk (TRUE), 0?

ASSUME ConstantsAssumption ==
    /\ MaxThread \in Nat \ {0, 1}
    /\ MaxMutex \in Nat
    /\ NULL \notin Values
    /\ Joins \subseteq (1..MaxThread) \X (1..MaxThread)
    /\ JoinPointers \subseteq BOOLEAN
    /\ Locks \subseteq (1..MaxThread) \X (1..MaxMutex)
    /\ Careless \subseteq 1..MaxMutex
    /\ StrayFronts \subseteq BOOLEAN

Thread   == 1..MaxThread
Mutex    == 1..MaxMutex
NoThread == 0                 \* NONEXISTENT_THREAD, and a NULL running pointer
MainIsNoThread == NoThread    \* (a variant: the two identifiers coincide)
Main     == 1                 \* MAIN_THREAD
NoMutex  == 0                 \* NONEXISTENT_MUTEX

VARIABLES
    running,     \* the running tcb (its thread_id), NoThread once reaped
    cpu,         \* the context on the CPU: a "thread" or the "scheduler"
    pc,          \* per thread: where its context resumes
    arg,         \* per thread: argument of the library call it is inside
    wants,       \* per thread: was worker_join given a non-NULL value_ptr?
    joinTid,     \* tcb join_tid
    joinRet,     \* tcb join_retval: "null", "here" (this call's) or "stale"
    got,         \* per thread: the variable value_ptr points at
    ret,         \* tcb ret_value
    seeking,     \* tcb seeking_lock
    lastTid,     \* last_created_worker_tid
    arrival,     \* threads in q_arrival
    admitted,    \* live threads the scheduler has taken over, running included
    ended,       \* threads in ended_tcbs
    lastMutex,   \* current_mutex_num
    mutexes,     \* lock numbers in the mutexes list
    strayFront,  \* does that list end in junk instead of NULL?
    holder,      \* holder_tid of each mutex node
    critical,    \* per thread: mutexes it has locked and not yet unlocked
    armed,       \* is the one-shot ITIMER_PROF counting down?
    pending,     \* has it fired with SIGPROF still undelivered?
    halted       \* "no", or how it ended ("wild": after a stray access)

joinVars  == <<wants, joinTid, joinRet, got>>
rosterVars == <<lastTid, arrival, admitted, ended>>
mutexVars == <<lastMutex, mutexes, strayFront, holder, critical>>
timerVars == <<armed, pending>>
cpuVars   == <<running, cpu>>
vars == <<cpuVars, pc, arg, joinVars, ret, seeking, rosterVars, mutexVars,
          timerVars, halted>>

-----------------------------------------------------------------------------
(* Init is the state init_library leaves: main is inside its first call,   *)
(* worker_create or worker_mutex_init.                                     *)

Init ==
    /\ running = Main
    /\ cpu = "thread"
    /\ pc = [t \in Thread |-> IF t = Main THEN "entering" ELSE "absent"]
    /\ arg = [t \in Thread |-> 0]
    /\ wants = [t \in Thread |-> FALSE]
    /\ joinTid = [t \in Thread |-> NoThread]
    \* init_library leaves main's join_retval uninitialised.
    /\ \E junk \in {"null", "stale"} :
          joinRet = [t \in Thread |-> IF t = Main THEN junk ELSE "null"]
    /\ got = [t \in Thread |-> NULL]
    /\ ret = [t \in Thread |-> NULL]
    /\ seeking = [t \in Thread |-> NoMutex]
    /\ lastTid = Main
    /\ arrival = {}
    /\ admitted = {Main}
    /\ ended = {}
    /\ lastMutex = 0
    /\ mutexes = {}
    \* Nor does it initialise mutexes->front.
    /\ strayFront \in StrayFronts
    /\ holder = [m \in Mutex |-> NoThread]
    /\ critical = [t \in Thread |-> {}]
    /\ armed = FALSE
    /\ pending = FALSE
    /\ halted = "no"

-----------------------------------------------------------------------------
(* Helpers.                                                                *)

Known == 1..lastTid

\* Variant: the scheduler forgets that a joining thread must be skipped.
BlockedOnMutexOnly(t) == seeking[t] # NoMutex

Blocked(t) == joinTid[t] # NoThread \/ seeking[t] # NoMutex

\* SIGPROF is blocked only where worker_mutex_lock waits: every other resume
\* point lies outside the sigprocmask sections, "destroying" included, since
\* the worker_mutex_unlock nested in worker_mutex_destroy unblocks it.
Unmasked(t) == pc[t] # "locking"

\* A pending SIGPROF is delivered before the next unmasked statement runs.
Executing(t) ==
    /\ halted = "no"
    /\ cpu = "thread"
    /\ running = t
    /\ ~(pending /\ Unmasked(t))

At(t, point) == Executing(t) /\ pc[t] = point

\* Where worker_create and worker_mutex_init may start.
InitialCall(t) == At(t, "user") \/ At(t, "entering")

Goto(t, point) == pc' = [pc EXCEPT ![t] = point]

Waiters(m) == {u \in admitted : seeking[u] = m}

\* Variant: the release of a mutex wakes one waiter only.
BroadcastToOne(m) ==
    [u \in Thread |-> IF /\ u \in Waiters(m)
                         /\ \A w \in Waiters(m) : u <= w
                      THEN NoMutex ELSE seeking[u]]

\* broadcast_lock_release: every waiter becomes schedulable again.
Broadcast(m) ==
    [u \in Thread |-> IF u \in Waiters(m) THEN NoMutex ELSE seeking[u]]

\* Variant: the end of any thread alerts all who wait in a join.
JoinersAny(t) == {u \in admitted : joinTid[u] # NoThread}

\* alert_waiting_threads: the threads to notify when t ends.
Joiners(t) == {u \in admitted : joinTid[u] = t}

\* Variants: threads that wait for a mutex count as blocked too; the thread
\* about to run is not left out.
RemainingJoinOrSeek(roster, t) == \A u \in roster \ {t} : Blocked(u)
RemainingWithSelf(roster, t) == \A u \in roster : joinTid[u] # NoThread

\* remaining_threads_blocked: only joins count, a mutex waiter may be freed
\* by the very thread that is about to run.
RemainingBlocked(roster, t) ==
    \A u \in roster \ {t} : joinTid[u] # NoThread

-----------------------------------------------------------------------------
(* worker_create: the tid is taken before the signal is blocked and the    *)
(* tcb enqueued.                                                           *)

CreateTid(t) ==
    /\ InitialCall(t)
    /\ lastTid < MaxThread
    /\ lastTid' = lastTid + 1
    /\ arg' = [arg EXCEPT ![t] = lastTid + 1]
    /\ Goto(t, "creating")
    /\ UNCHANGED <<cpuVars, joinVars, ret, seeking, arrival, admitted, ended,
                   mutexVars, timerVars, halted>>

CreateEnqueue(t) ==
    /\ At(t, "creating")
    /\ arrival' = arrival \cup {arg[t]}
    /\ pc' = [pc EXCEPT ![t] = "user", ![arg[t]] = "user"]
    /\ arg' = [arg EXCEPT ![t] = 0]
    /\ UNCHANGED <<cpuVars, joinVars, ret, seeking, lastTid, admitted, ended,
                   mutexVars, timerVars, halted>>

(* worker_join: the search of ended_tcbs is masked, what follows is not.   *)

JoinEnded(t, u, p) ==
    /\ At(t, "user")
    /\ <<t, u>> \in Joins
    /\ u \in ended
    /\ got' = [got EXCEPT ![t] = IF p THEN ret[u] ELSE NULL]
    /\ UNCHANGED <<cpuVars, pc, arg, wants, joinTid, joinRet, ret, seeking,
                   rosterVars, mutexVars, timerVars, halted>>

JoinMiss(t, u, p) ==
    /\ At(t, "user")
    /\ <<t, u>> \in Joins
    /\ u \in Known \ ended
    /\ Goto(t, "joinMiss")
    /\ arg' = [arg EXCEPT ![t] = u]
    /\ wants' = [wants EXCEPT ![t] = p]
    /\ got' = [got EXCEPT ![t] = NULL]
    /\ joinRet' = [joinRet EXCEPT ![t] = IF @ = "here" THEN "stale" ELSE @]
    /\ UNCHANGED <<cpuVars, joinTid, ret, seeking, rosterVars, mutexVars,
                   timerVars, halted>>

JoinSetTid(t) ==
    /\ At(t, "joinMiss")
    /\ joinTid' = [joinTid EXCEPT ![t] = arg[t]]
    /\ Goto(t, "joinTid")
    /\ UNCHANGED <<cpuVars, arg, wants, joinRet, got, ret, seeking,
                   rosterVars, mutexVars, timerVars, halted>>

JoinSetRetval(t) ==
    /\ At(t, "joinTid")
    /\ joinRet' = [joinRet EXCEPT ![t] = IF wants[t] THEN "here" ELSE "null"]
    /\ Goto(t, "joinSet")
    /\ UNCHANGED <<cpuVars, arg, wants, joinTid, got, ret, seeking,
                   rosterVars, mutexVars, timerVars, halted>>

JoinReturn(t) ==
    /\ At(t, "joined")
    /\ Goto(t, "user")
    /\ arg' = [arg EXCEPT ![t] = 0]
    /\ wants' = [wants EXCEPT ![t] = FALSE]
    /\ UNCHANGED <<cpuVars, joinTid, joinRet, got, ret, seeking, rosterVars,
                   mutexVars, timerVars, halted>>

(* worker_yield: read the clock, charge the elapsed time (the policies'    *)
(* modules keep the accounts), swap.                                       *)

YieldClock(t) ==
    /\ At(t, "user") \/ At(t, "joinSet")
    /\ Goto(t, "yielding")
    /\ UNCHANGED <<cpuVars, arg, joinVars, ret, seeking, rosterVars,
                   mutexVars, timerVars, halted>>

YieldCharge(t) ==
    /\ At(t, "yielding")
    /\ Goto(t, "swapping")
    /\ UNCHANGED <<cpuVars, arg, joinVars, ret, seeking, rosterVars,
                   mutexVars, timerVars, halted>>

YieldSwap(t) ==
    /\ At(t, "swapping")
    /\ cpu' = "scheduler"
    /\ Goto(t, IF arg[t] = NoThread THEN "user" ELSE "joined")
    /\ UNCHANGED <<running, arg, joinVars, ret, seeking, rosterVars,
                   mutexVars, timerVars, halted>>

-----------------------------------------------------------------------------
(* The mutex calls.  worker_mutex_lock tests the lock again each time the  *)
(* scheduler lets it continue.                                             *)

MutexInit(t) ==
    /\ InitialCall(t)
    /\ Goto(t, "user")
    /\ lastMutex < MaxMutex
    /\ lastMutex' = lastMutex + 1
    /\ mutexes' = mutexes \cup {lastMutex + 1}
    /\ holder' = [holder EXCEPT ![lastMutex + 1] = NoThread]
    /\ UNCHANGED <<cpuVars, arg, joinVars, ret, seeking, rosterVars,
                   strayFront, critical, timerVars, halted>>

InLock(t, m) ==
    \/ At(t, "user") /\ <<t, m>> \in Locks /\ m \in mutexes
    \/ At(t, "locking") /\ arg[t] = m

\* Variant: the lock is tested once (an if in place of the while).
IsFreeOrWaited(t, m) == holder[m] = NoThread \/ pc[t] = "locking"

IsFree(t, m) == holder[m] = NoThread

LockAcquire(t, m) ==
    /\ InLock(t, m)
    /\ m \in mutexes
    /\ IsFree(t, m)
    /\ holder' = [holder EXCEPT ![m] = t]
    /\ critical' = [critical EXCEPT ![t] = @ \cup {m}]
    /\ Goto(t, "user")
    /\ arg' = [arg EXCEPT ![t] = 0]
    /\ UNCHANGED <<cpuVars, joinVars, ret, seeking, rosterVars, lastMutex,
                   mutexes, strayFront, timerVars, halted>>

LockWait(t, m) ==
    /\ InLock(t, m)
    /\ m \in mutexes
    /\ ~IsFree(t, m)
    /\ seeking' = [seeking EXCEPT ![t] = m]
    /\ Goto(t, "locking")
    /\ arg' = [arg EXCEPT ![t] = m]
    /\ cpu' = "scheduler"
    /\ UNCHANGED <<running, joinVars, ret, rosterVars, mutexVars, timerVars,
                   halted>>

\* The search for a mutex that does not exist runs into the end of the list.
Missed == IF strayFront THEN {"abort", "wild"} ELSE {"abort"}

\* is_held_by asserts that the mutex still exists.
LockMissing(t, m) ==
    /\ InLock(t, m)
    /\ m \notin mutexes
    /\ halted' \in Missed
    /\ UNCHANGED <<cpuVars, pc, arg, joinVars, ret, seeking, rosterVars,
                   mutexVars, timerVars>>

\* Clients unlock what they have locked; worker_mutex_unlock asserts that the
\* mutex node agrees.
Unlock(t, m) ==
    /\ At(t, "user")
    /\ m \in critical[t]
    /\ m \in mutexes /\ holder[m] = t
    /\ holder' = [holder EXCEPT ![m] = NoThread]
    /\ seeking' = Broadcast(m)
    /\ critical' = [critical EXCEPT ![t] = @ \ {m}]
    /\ UNCHANGED <<cpuVars, pc, arg, joinVars, ret, rosterVars, lastMutex,
                   mutexes, strayFront, timerVars, halted>>

UnlockAssertFails(t, m) ==
    /\ At(t, "user")
    /\ m \in critical[t]
    /\ ~(m \in mutexes /\ holder[m] = t)
    /\ halted' \in IF m \in mutexes THEN {"abort"} ELSE Missed
    /\ UNCHANGED <<cpuVars, pc, arg, joinVars, ret, seeking, rosterVars,
                   mutexVars, timerVars>>

\* Variant: destroy does not look whether the mutex is held.
DestroyUnchecked(t, m) ==
    /\ At(t, "user")
    /\ m \in mutexes
    /\ mutexes' = mutexes \ {m}
    /\ UNCHANGED <<cpuVars, pc, arg, joinVars, ret, seeking, rosterVars,
                   lastMutex, strayFront, holder, critical, timerVars, halted>>

\* worker_mutex_destroy of a mutex nobody holds; clients do so only when no
\* other thread is inside worker_mutex_lock for it.
DestroyFree(t, m) ==
    /\ At(t, "user")
    /\ <<t, m>> \in Locks /\ m \in mutexes
    /\ holder[m] = NoThread
    /\ \A u \in Thread : ~(pc[u] = "locking" /\ arg[u] = m)
    /\ mutexes' = mutexes \ {m}
    /\ UNCHANGED <<cpuVars, pc, arg, joinVars, ret, seeking, rosterVars,
                   lastMutex, strayFront, holder, critical, timerVars, halted>>

\* worker_mutex_destroy by the holder: the nested worker_mutex_unlock releases
\* the mutex and unblocks SIGPROF ...
DestroyHeld(t, m) ==
    /\ At(t, "user")
    /\ m \in Careless
    /\ m \in critical[t] \cap mutexes /\ holder[m] = t
    /\ holder' = [holder EXCEPT ![m] = NoThread]
    /\ seeking' = Broadcast(m)
    /\ critical' = [critical EXCEPT ![t] = @ \ {m}]
    /\ Goto(t, "destroying")
    /\ arg' = [arg EXCEPT ![t] = m]
    /\ UNCHANGED <<cpuVars, joinVars, ret, rosterVars, lastMutex, mutexes,
                   strayFront, timerVars, halted>>

\* ... so the removal of the node is a step of its own.  If somebody else has
\* destroyed the mutex meanwhile the search passes all nodes and removes none,
\* unless junk at the end of the list leads it astray ...
DestroyRemove(t) ==
    /\ At(t, "destroying")
    /\ mutexes # {} \/ strayFront
    /\ mutexes' = mutexes \ {arg[t]}
    /\ Goto(t, "user")
    /\ arg' = [arg EXCEPT ![t] = 0]
    /\ UNCHANGED <<cpuVars, joinVars, ret, seeking, rosterVars, lastMutex,
                   strayFront, holder, critical, timerVars, halted>>

\* ... and an empty list fails an assert.
DestroyMissing(t) ==
    /\ At(t, "destroying")
    /\ arg[t] \notin mutexes
    /\ mutexes = {} \/ strayFront
    /\ halted' = IF strayFront THEN "wild" ELSE "abort"
    /\ UNCHANGED <<cpuVars, pc, arg, joinVars, ret, seeking, rosterVars,
                   mutexVars, timerVars>>

-----------------------------------------------------------------------------
(* The end of a thread, and of main.                                       *)

\* worker_exit only stores the value: the caller runs on.
Exit(t, v) ==
    /\ At(t, "user")
    /\ ret' = [ret EXCEPT ![t] = v]
    /\ UNCHANGED <<cpuVars, pc, arg, joinVars, seeking, rosterVars, mutexVars,
                   timerVars, halted>>

\* alert_waiting_threads writes the value through join_retval unless it is
\* NULL: a NULL pointer faults, a stale one hits somebody else's memory.
Delivered(t) ==
    [u \in Thread |-> IF /\ u \in Joiners(t)
                         /\ ret[t] # NULL
                         /\ joinRet[u] = "here"
                      THEN ret[t] ELSE got[u]]

NullWrite(t) ==
    ret[t] # NULL /\ \E u \in Joiners(t) : joinRet[u] = "null"

StrayWrite(t) ==
    ret[t] # NULL /\ \E u \in Joiners(t) : joinRet[u] = "stale"

\* Variant: the tcb of an ended thread stays in tcbs.
ReapKeepsTcb(t) == admitted

Reap(t) == admitted \ {t}

\* The start routine returns into clean_exited_worker_thread (uc_link).
Finish(t) ==
    /\ At(t, "user")
    /\ t # Main
    /\ running' = NoThread
    /\ cpu' = "scheduler"
    /\ admitted' = Reap(t)
    /\ ended' = ended \cup {t}
    /\ joinTid' = [u \in Thread |->
                     IF u \in Joiners(t) THEN NoThread ELSE joinTid[u]]
    /\ got' = Delivered(t)
    /\ halted' \in (IF NullWrite(t) THEN {"segv"} ELSE {halted})
                       \cup (IF StrayWrite(t) THEN {"wild"} ELSE {})
    /\ UNCHANGED <<pc, arg, wants, joinRet, ret, seeking, lastTid, arrival,
                   mutexVars, timerVars>>

NothingLeft == arrival = {} /\ admitted = {Main} /\ mutexes = {}

\* main returns into cleanup_library, which blocks no signal and leaves the
\* timer on.  It frees the memory that set_timer writes to ...
MainReturn(t) ==
    /\ At(t, "user")
    /\ t = Main
    /\ Goto(t, "cleaning")
    /\ UNCHANGED <<cpuVars, arg, joinVars, ret, seeking, rosterVars,
                   mutexVars, timerVars, halted>>

\* ... then the tcb that the signal handler writes to, which a policy takes out
\* of its lists first ...
CleanupFree(t) ==
    /\ At(t, "cleaning")
    /\ Goto(t, "freed")
    /\ UNCHANGED <<cpuVars, arg, joinVars, ret, seeking, rosterVars,
                   mutexVars, timerVars, halted>>

\* ... (and asserts that it is there) ...
CleanupAbort(t) ==
    /\ At(t, "cleaning")
    /\ halted' = "abort"
    /\ UNCHANGED <<cpuVars, pc, arg, joinVars, ret, seeking, rosterVars,
                   mutexVars, timerVars>>

\* ... and asserts that nothing is left behind.
CleanupEnd(t) ==
    /\ At(t, "freed")
    /\ halted' = IF NothingLeft /\ ~strayFront THEN "exit" ELSE "abort"
    /\ UNCHANGED <<cpuVars, pc, arg, joinVars, ret, seeking, rosterVars,
                   mutexVars, timerVars>>

-----------------------------------------------------------------------------
(* The timer and the scheduler.                                            *)

TimerExpires ==
    /\ halted = "no"
    /\ armed
    /\ armed' = FALSE
    /\ pending' = TRUE
    /\ UNCHANGED <<cpuVars, pc, arg, joinVars, ret, seeking, rosterVars,
                   mutexVars, halted>>

\* timer_signal_handler swaps to the scheduler; the handler returns to pc[t]
\* when the thread is swapped in again.  It uses running, freed or not.
Preempt(t) ==
    /\ halted = "no"
    /\ cpu = "thread"
    /\ running = t
    /\ pending /\ Unmasked(t)
    /\ pending' = FALSE
    /\ cpu' = "scheduler"
    /\ halted' = IF pc[t] = "freed" THEN "wild" ELSE halted
    /\ UNCHANGED <<running, pc, arg, joinVars, ret, seeking, rosterVars,
                   mutexVars, armed>>

\* set_timer writes to *timer: harmless or not once that is freed.
SetTimer ==
    halted' \in {halted} \cup (IF pc[Main] = "cleaning" THEN {"wild"} ELSE {})

\* One turn of the scheduler loop: admit the arrivals, pick an unblocked
\* thread, set the timer, swap.
Schedule(t) ==
    /\ halted = "no"
    /\ cpu = "scheduler"
    /\ t \in admitted \cup arrival
    /\ ~Blocked(t)
    /\ running' = t
    /\ cpu' = "thread"
    /\ admitted' = admitted \cup arrival
    /\ arrival' = {}
    /\ armed' = ~RemainingBlocked(admitted \cup arrival, t)
    /\ SetTimer
    /\ UNCHANGED <<pc, arg, joinVars, ret, seeking, lastTid, ended, mutexVars,
                   pending>>

\* The scheduler asserts that some thread is unblocked.
ScheduleStuck ==
    /\ halted = "no"
    /\ cpu = "scheduler"
    /\ \A t \in admitted \cup arrival : Blocked(t)
    /\ halted' = "stuck"
    /\ UNCHANGED <<cpuVars, pc, arg, joinVars, ret, seeking, rosterVars,
                   mutexVars, timerVars>>

\* Nothing happens once the process has ended.
Halted == halted # "no" /\ UNCHANGED vars

CallStep(t) ==
    \/ CreateTid(t) \/ CreateEnqueue(t)
    \/ \E u \in Thread, p \in JoinPointers :
          JoinEnded(t, u, p) \/ JoinMiss(t, u, p)
    \/ JoinSetTid(t) \/ JoinSetRetval(t) \/ JoinReturn(t)
    \/ YieldClock(t) \/ YieldCharge(t) \/ YieldSwap(t)
    \/ \E v \in Values : Exit(t, v)
    \/ Finish(t)
    \/ MainReturn(t) \/ CleanupFree(t) \/ CleanupAbort(t) \/ CleanupEnd(t)

MutexStep(t) ==
    \/ MutexInit(t)
    \/ \E m \in Mutex :
          \/ LockAcquire(t, m) \/ LockWait(t, m) \/ LockMissing(t, m)
          \/ Unlock(t, m) \/ UnlockAssertFails(t, m)
          \/ DestroyFree(t, m) \/ DestroyHeld(t, m)
    \/ DestroyRemove(t) \/ DestroyMissing(t)

Next ==
    \/ \E t \in Thread :
          CallStep(t) \/ MutexStep(t) \/ Preempt(t) \/ Schedule(t)
    \/ TimerExpires
    \/ ScheduleStuck
    \/ Halted

Spec == Init /\ [][Next]_vars

-----------------------------------------------------------------------------
(* Properties.                                                             *)

Point == {"absent", "entering", "user", "creating", "joinMiss", "joinTid",
          "joinSet", "yielding", "swapping", "joined", "locking", "destroying",
          "cleaning", "freed"}

\* The types of the variables.
TypeOK ==
    /\ running \in Thread \cup {NoThread}
    /\ cpu \in {"thread", "scheduler"}
    /\ pc \in [Thread -> Point]
    /\ arg \in [Thread -> Nat]
    /\ wants \in [Thread -> BOOLEAN]
    /\ joinTid \in [Thread -> Thread \cup {NoThread}]
    /\ joinRet \in [Thread -> {"null", "here", "stale"}]
    /\ got \in [Thread -> Values \cup {NULL}]
    /\ ret \in [Thread -> Values \cup {NULL}]
    /\ seeking \in [Thread -> Mutex \cup {NoMutex}]
    /\ lastTid \in Thread
    /\ arrival \subseteq Thread
    /\ admitted \subseteq Thread
    /\ ended \subseteq Thread
    /\ lastMutex \in Nat /\ lastMutex <= MaxMutex
    /\ mutexes \subseteq Mutex
    /\ strayFront \in BOOLEAN
    /\ holder \in [Mutex -> Thread \cup {NoThread}]
    /\ critical \in [Thread -> SUBSET Mutex]
    /\ armed \in BOOLEAN
    /\ pending \in BOOLEAN
    /\ halted \in {"no", "exit", "abort", "segv", "wild", "stuck"}

\* Conservation of threads: every thread whose creation is complete is in
\* exactly one of q_arrival, the scheduler's lists (running included) and
\* ended_tcbs, whatever preemptions cut worker_create and the end of threads;
\* and the thread on the CPU is one the scheduler has taken over.
RosterPartition ==
    /\ admitted \cap arrival = {}
    /\ ended \cap (admitted \cup arrival) = {}
    /\ {t \in Thread : pc[t] # "absent"} = admitted \cup arrival \cup ended
    /\ cpu = "thread" => running \in admitted

\* Mutual exclusion as the clients see it: no two threads have both returned
\* from worker_mutex_lock and not yet called worker_mutex_unlock, although an
\* unlock makes every waiter schedulable and others may run first.
MutualExclusion ==
    \A t, u \in Thread : t # u => critical[t] \cap critical[u] = {}

\* A mutex that a thread has locked stays in the list with that thread as its
\* holder until the thread releases it, so its unlock never aborts.
HolderKeepsMutex ==
    \A t \in Thread : \A m \in critical[t] \ Careless :
        m \in mutexes /\ holder[m] = t

\* No lost wake-up on a mutex: a thread that the scheduler skips because it
\* seeks a mutex can count on a thread that holds it and will broadcast.
SeekersAwaitHolder ==
    \A t \in Thread :
        seeking[t] \in Mutex \ Careless =>
            seeking[t] \in mutexes /\ holder[seeking[t]] # NoThread

\* worker_join returns only after its target has ended, wherever preemptions
\* fall between the search of ended_tcbs and the swap to the scheduler.
JoinAfterEnd ==
    \A t \in Thread :
        cpu = "thread" /\ running = t /\ pc[t] = "joined" => arg[t] \in ended

\* A value that reaches the variable of a join is the one its target ended with,
\* although the variable's address is stored apart from the target's identifier,
\* preemptibly, and used when the target ends: it never is the value of a thread
\* that the joiner waited for earlier, or that others wait for (c:136, c:701).
JoinValueOfTarget ==
    \A t \in Thread :
        cpu = "thread" /\ running = t /\ pc[t] = "joined" =>
            got[t] \in {NULL, ret[arg[t]]}

\* remaining_threads_blocked may leave the timer off only while every other
\* thread of the scheduler waits in worker_join: a thread that an unlock may
\* free meanwhile must be able to get the CPU by preemption.
TimerOffOnlyIfOthersJoin ==
    cpu = "thread" /\ ~armed /\ ~pending =>
        \A u \in admitted \ {running} : joinTid[u] # NoThread

\* cleanup_library disarms no timer and blocks no signal.  Where nothing else is
\* left when it frees the running tcb, and where its asserts let the process
\* exit, there is yet no SIGPROF to come that would find the tcb freed: main was
\* last scheduled alone, hence without a timer, even if a signal interrupted
\* cleanup_library before and the last workers ended meanwhile.  (Where threads
\* are left, a SIGPROF may well find it: halted is "wild" then.)
CleanExitTimerOff ==
    (pc[Main] = "freed" /\ NothingLeft) \/ halted = "exit" => ~armed /\ ~pending

-----------------------------------------------------------------------------
(* What comments of the code promise and the code does not keep.           *)

\* No thread is recorded as waiting for a thread that has already ended: the
\* scheduler would skip it in perpetuity.
JoinTargetAlive ==
    \A t \in Thread : joinTid[t] # NoThread => joinTid[t] \notin ended

\* worker_mutex_destroy, called by the holder, "proceeds to destroy unlocked
\* mutex": it never removes one that a thread has locked.
DestroysUnlocked ==
    \A t \in Thread : \A m \in critical[t] : m \in mutexes
=============================================================================
