# A verification project for the CS416 operating-systems code

The repository holds the projects of an operating-systems course: a user-level
thread library (`src/p2`), a user-level virtual memory with a TLB (`src/p3`), a
file system on FUSE (`src/p4`), and stand-alone warm-up exercises (`src/p1`).
This directory holds TLA+ modules that model the code, TLC configurations that
check them, and proofs for TLAPS. `PROJECT.json` lists the components, the
runs, for every definition the lines it models, for every property a mutation
of the model that violates it, the hazards of the code and the findings.

    tlasany M.tla                                parse a module
    tlc -workers 2 -config psjf.cfg MC_Psjf      run one configuration
    tlapm UserThreads_proofs.tla                 check the proofs of one module

1. [The system](#1-the-system)
2. [Modules](#2-modules)
3. [How the model corresponds to the code](#3-how-the-model-corresponds-to-the-code)
4. [Runs](#4-runs)
5. [Fairness](#5-fairness)
6. [Findings](#6-findings)
7. [Proofs](#7-proofs)
8. [What is not modelled](#8-what-is-not-modelled)
9. [Plan](#9-plan)

## 1. The system

The three libraries are independent programs; nothing is shared between them.

### Thread library (`src/p2/code/thread-worker.{c,h}`)

State: the running tcb; the queue `q_arrival` of new threads; the list `tcbs` of
threads the scheduler has taken over; for MLFQ the queues `all_queue`; the list
`ended_tcbs`; per tcb its `join_tid`, `join_retval`, `seeking_lock`,
`ret_value`, and the CPU accounts; the list `mutexes`; the one-shot timer
`ITIMER_PROF`; the scheduler context and the cleanup context.

Operations: `worker_create`, `worker_yield`, `worker_exit`, `worker_join`,
`worker_mutex_init`, `_lock`, `_unlock`, `_destroy`; the SIGPROF handler
`timer_signal_handler`; the two scheduler loops `sched_psjf` and `sched_mlfq`
(one is compiled in); `clean_exited_worker_thread`, where start routines return
to (`uc_link`); `init_library` on the first call and `cleanup_library` when main
returns.

Interaction: everything runs on one kernel thread. Contexts are swapped by
`swapcontext`: a thread goes to the scheduler by yielding, by waiting for a
mutex, by ending, or because SIGPROF interrupts it; the scheduler goes to the
thread it picks. The scheduler, the cleanup context and the handler run with
SIGPROF blocked; of the library's calls only the sections between the
`sigprocmask` calls do. Everything else may be preempted between any two
statements, `worker_join`, `worker_yield` and `worker_create` included.

What makes it hard: preemptions inside the library's own calls; decisions made
at one point (is the target ended, must a timer run) and relied on later; a
signal that is pending when the thread it was meant for is gone; wake-ups that
must not be lost; queues from which a blocked thread is skipped but not lost.

Correct when: no thread is lost or in two places; a join returns after its
target ended and with its value; a mutex excludes, keeps its holder and wakes
its waiters; a thread that can run gets the CPU; the policies choose what they
say they choose; the process ends only when nothing is left.

* **Shortest job first** (`sched_psjf`): `tcbs` is kept in ascending order of
  `quantums_elapsed`, `quantum_amt_used`. Correct when the list stays sorted
  and free of duplicates, a turn never starts with an empty quantum (a zero
  timer never fires), and the choice has used least of all that could run.
* **Multi-level feedback queue** (`sched_mlfq`): a thread that used up its
  quantum moves down a level; every `S_value_decay_usage_const` quanta all
  threads move to the top. Correct when no queue operation loses, duplicates or
  misplaces a thread, the choice has the highest priority, and nobody starves.
* **Statistics**: averages in floating point that are printed at the end.

### Virtual memory (`src/p3/code/my_vm.{c,h}`)

State: the bitmaps of virtual pages and of physical frames, the page directory
and page tables inside the simulated physical memory, the links that chain the
pages of an allocation (the first word of each page names the next one), the
TLB (a list of at most 512 entries, most recently used first), the lock
`library_lock` and the spin flag `first_invocation`.

Operations: `t_malloc` (initialises on first use, then takes pages and frames
one by one and links them), `t_free` (checks the chain, then frees it page by
page), `put_value` and `get_value` (check the chain, then copy along it),
`translate`/`check_TLB`/`add_TLB`/`search_and_remove`, and `mat_mult`, a client.

Interaction: client threads (pthreads) call the operations, which run under
`library_lock`; the initialisation is guarded by the spin flag in `t_malloc`
only.

What makes it hard: threads that reach the library while another initialises
it; `get_value`, which reports a failed check, unlocks, and goes on; the TLB
entry that `t_free_aux` removes and whose next statement caches again; frees of
a part of a chain, whose links go on naming freed pages; the page directory,
all of whose entries point at the directory's own frame; offsets at the end of
a page.

Correct when: an allocated page has a frame of its own, and no page has the
frame of the directory or of a page table; bitmaps, page table and TLB agree;
what is put is what is got, whatever other clients do; a failed call changes
nothing.

### File system (`src/p4/code/rufs.{c,h}`, `block.{c,h}`)

State: the disk (superblock, inode bitmap, data bitmap, inode blocks, data
blocks), and the in-memory copies of the superblock and of both bitmaps.

Operations: `rufs_mkfs`/`rufs_init`, `get_avail_ino`, `get_avail_blkno`,
`readi`/`writei`, `dir_find`/`dir_add`, `get_node_by_path`, and the FUSE
handlers `getattr`, `opendir`, `readdir`, `mkdir`, `create`, `open`, `read`,
`write`; `rmdir`, `unlink`, `truncate` and the rest are stubs that report
success.

Interaction: FUSE calls the handlers, from several threads unless it is started
with `-s`; the handlers call the block layer, which reads and writes whole
blocks of a disk file. There are no locks.

What makes it hard: read-modify-write of bitmaps, inode blocks and directory
blocks without a lock; `strtok`, whose position is one static variable for all
threads; a parent inode that is read once and written back later; the order of
writes, if the program is killed between two of them; -1 from the allocators,
which callers use as a number; a duplicate check in `dir_add` that looks only
at block 1.

Correct when: no two files share an inode or a block; every directory entry
names a valid inode; every allocated inode is named; what was written is read
back; all this after a crash too, or at least after a clean unmount.

### Not part of a system

`src/p1` and `src/p2/code/sample-code` are stand-alone exercises and examples.
The benchmarks and tests of p2, p3 and p4 are clients; they tell which calls
the models' clients make, and in which order.

## 2. Modules

| module | what it models |
|---|---|
| `UserThreads` | the thread library with an open policy: the scheduler may pick any unblocked thread |
| `Psjf` | the library with `sched_psjf`: lists, accounts; implements `UserThreads` |
| `Mlfq` | the library with `sched_mlfq`: queues, demotion, boost; implements `UserThreads` |
| `Memory` | what `t_malloc`, `t_free`, `put_value` and `get_value` promise: allocations with contents |
| `Tlb` | the translation cache, a list, as operators |
| `Vm` | the virtual memory: bitmaps, page table, links, cache, locks; implements `Memory` |
| `FileTree` | what the file system promises: names that last, and nodes that change only by a call under way, where and as that call says |
| `Rufs` | the file system on its block device: handlers as sequences of block accesses, threads, crashes; implements `FileTree` with one thread |
| `MC_UserThreads`, `MC_Psjf`, `MC_Mlfq`, `MC_Vm`, `MC_Rufs` | clients for TLC: who joins whom, who uses which mutex, what is put and got where |
| `UserThreads_proofs` | the theorems about `UserThreads` |
| `Psjf_proofs`, `Mlfq_proofs` | the theorems about the policies: the lists, the choice, the refinement of `UserThreads` |
| `Vm_proofs` | the theorems about the virtual memory and its cache: locks, bitmaps, page table, chains |
| `VmMemory_proofs` | the same, continued: `Vm` implements `Memory` |
| `Rufs_proofs` | the theorems about the file system: its types, and that neither blocks nor inodes are shared |
| `RufsCost_proofs` | the same, continued: names last, and what a crash costs |
| `Lemmas` | facts about sets, sequences and division that the proofs share |

`UserThreads` is the abstract specification of the library and, apart from the
policy, a complete model of it. `Psjf` and `Mlfq` instantiate it as `Core`,
with the set of arrivals and the set of scheduled threads read off their queues
and lists, and build each of their calls from `Core`'s action and what the
policy adds to it (a list insertion, an account). Their `Schedule`,
`ScheduleStuck` and `Finish`, and in `Mlfq` `CleanupFree` and `CleanupAbort`, do the
policy's own work, and that every step is one that `Core` allows is checked as `ImplementsUserThreads`.

`Vm` extends `Tlb`, whose operators every translation goes through, and
instantiates `Memory` as `Abstract`. What clients see (`content`) is read off
page table and links each time `library_lock` is released.

`Rufs` instantiates `FileTree` as `Abstract`. What users find (`tree`) is read off
the disk after each step that writes inodes or data blocks; the calls under way
(`calls`) are those that the handlers run, so that a step which changes a file has
to belong to a `rufs_write` for that file, and to its cells, values and order.

Definitions that a comment calls a *variant* are not part of a specification:
they say how a plausible mistake would look, and stand before the definition
they vary.

## 3. How the model corresponds to the code

### Thread library

**Grain.** Code that runs with SIGPROF blocked is one step: a turn of the
scheduler loop, the end of a thread in the cleanup context, a `sigprocmask`
section. Code that runs with SIGPROF unblocked is cut wherever a preemption
between two statements can be told apart afterwards. `pc[t]` says where the
context of thread `t` resumes:

| `pc` | in the code |
|---|---|
| `absent` | not created, or created and not yet enqueued |
| `entering` | main, inside the first call, after `init_library` |
| `user` | outside the library |
| `creating` | `worker_create`, tid taken, SIGPROF not yet blocked (c:57-79) |
| `joinMiss`, `joinTid`, `joinSet` | `worker_join` after the search, after the store to `join_tid`, after the store to `join_retval` (c:136-138) |
| `yielding`, `swapping` | `worker_yield` after the clock is read, after the charge (c:92-109) |
| `joined` | swapped out at the end of `worker_join`'s yield |
| `locking` | waiting in the loop of `worker_mutex_lock` (c:199-202), SIGPROF blocked |
| `destroying` | `worker_mutex_destroy` after the nested unlock (c:243) |
| `cleaning`, `freed` | main in `cleanup_library`, after `free(timer)` and after `free(running)`, before the asserts (c:557-588) |

**State.** `arrival` is `q_arrival`; `admitted` is what the scheduler holds: `tcbs`
together with the running thread (PSJF takes the running thread out of the list,
MLFQ leaves it in); `ended` is `ended_tcbs`. `running` is the pointer
`running`, `NoThread` once the cleanup context has freed it. `armed` and
`pending` are the two states of the one-shot timer after `setitimer`: counting,
and fired with the signal not delivered. `joinRet` says what `join_retval`
holds: NULL, a pointer of the present call (`here`), or one of an earlier call
or junk (`stale`; `init_library` does not initialise main's). `got` is the
variable of the joiner that the value is delivered to. `critical` is not a
variable of the code: it records, for the properties, which mutexes each thread
has got from `worker_mutex_lock` and not yet given back.

**Clients.** The code between library calls is unknown, so a thread outside the
library may make any call at any time, within what `Joins` and `Locks` allow it
to do. Clients respect the calls' contracts: they join threads that were
created, unlock what they locked, do not lock a mutex again that they hold, and
destroy a free mutex only when nobody is inside `worker_mutex_lock` for it.
Whether they also destroy mutexes they hold, which the comment of
`worker_mutex_destroy` provides for, is the constant `Careless`.

**Undefined values.** `mutexes->front` is never initialised (c:532): where the
memory happens to be zero the list ends properly, elsewhere its search for a
mutex that does not exist runs into junk. `strayFront` is that choice, made in
`Init`; a search that misses then either asserts or goes astray (`Missed`).
A write through a stale `join_retval` hits memory the model does not have: it
goes on unharmed or leaves the model (`wild`).

**The end of main.** `cleanup_library` blocks no signal, and its frees do not keep the
freed memory from being used. A SIGPROF after `free(timer)` (`cleaning`) sends the
scheduler to `set_timer`, which writes to freed memory: that is harmless or leaves the
model (`SetTimer`). One after `free(running)` (`freed`) has the handler write to the
freed tcb, and always leaves it (`Preempt`). In between, other threads may run and end.
What the later frees leave behind is no longer looked at.

**Accounts.** A time quantum is `TimeQuantum` units. `worker_yield` adds the
elapsed time truncated to units, which may be 0 (`MinElapsed`), and, as the
clock may be read and the thread preempted before it uses it, any amount up to
a quantum. `MaxQuanta` in `Psjf` bounds `total_quantums_elapsed`; in `Mlfq` the
boost keeps the counters bounded by itself.

**End.** `halted` says how the process ended: `exit`, an assert (`abort`, and
`stuck` for the scheduler's own), a write through NULL (`segv`), or undefined
behaviour (`wild`). Nothing happens afterwards (`Halted`), so that TLC's
deadlock check, which is on in every run, shows that the model stops nowhere
else.

**Parameters.** `MaxThread` and `MaxMutex` bound the identifiers that are handed
out; an ended thread's identifier is not used again, as in the code.

### Virtual memory

**Grain.** Clients are pthreads, which run truly in parallel, but apart from
the way into `t_malloc` everything happens under `library_lock`. A step is a
level of one of the recursions, or an iteration of a loop: a page checked,
freed, mapped or copied. The steps before the lock are those that touch shared
state: the test-and-set of `first_invocation` with the look at `paging_scheme`
(`Spin`), the rest of `set_physical_mem` (`Initialise`), the store to
`first_invocation` (`Unspin`), the lock (`Lock`).

| `pc` | in the code |
|---|---|
| `idle` | outside the library |
| `spin`, `initialising`, `initialised` | `t_malloc` at the test-and-set, inside `set_physical_mem`, before the store to `first_invocation` (c:331-337) |
| `lock` | at `pthread_mutex_lock` |
| `allocate`, `map` | `t_malloc` before the test of the bitmaps, in the loop (c:343-399) |
| `check` | in `valid_pages_linked_together_from` |
| `free`, `copy` | in `t_free_aux`; in `put_value_aux` or `get_value_aux` |
| `unlocked` | `get_value` after its check failed and it released the lock (c:635) |

**State.** The bitmaps are the sets `vbits` and `fbits`. `mem` holds the words of
every frame of the simulated memory, the directory, the page table entries and
the links among them, as they lie in it: a word is a page's address, a frame's
address, or data. With the directory's entries as c:56 sets them, the cell of
page `p` is word `p` of frame 0. `call[t]` holds the arguments and local
variables of `t`'s call, among them how far its recursion has come.

**Units.** Sizes and offsets are in words of `sizeof(void *)`; clients put
sequences of words that all differ, so that the wrong part of a value in the
wrong place is seen. An offset may equal the payload (in bytes: 4092), which the
code treats as inside the page; offsets of 4093 to 4095 bytes need unaligned
accesses and are not modelled. An address beyond the first 4096 bytes of an
allocation is one of the next page *number*, which only by luck is the next page
of the chain: clients of the model start all accesses in the first page, as the
code's own tests do. (`mat_mult` computes addresses linearly, so its matrices
must fit a page; where they do not, offset 4092 and the next page's offset 0
name the same word.)

**Clients.** Without `Careless`, clients use addresses that `t_malloc` returned,
stay within the allocation's pages, free all of it, and do not use it while
somebody frees it; several of them may put and get in one allocation. With
`Careless`, they free, put and get with any page's address and any size,
including NULL (but not an offset from NULL: page 0 counts as in use, and the
check lets a put through that overwrites the directory). In both cases their
first call is `t_malloc`, or a `t_free` that finds no library. What the model
leaves out here is a race: `t_free(NULL, n)` during another thread's
initialisation gets past `!paging_scheme` (c:471), locks `library_lock` before
`pthread_mutex_init`, and later unlocks it when somebody else holds it.

**End.** When all threads are outside the library, the process may exit
(`Exit`, `clean_my_vm`). A `get_value` whose check failed reads unmapped pages
or beyond the chain, and then unlocks `library_lock` a second time (c:643), which
may release it while somebody else holds it; the model ends before (`StrayGet`).

### File system

**Grain.** A handler is a sequence of steps, each with at most one access to a
block that other handlers write: `todo[t]` lists the steps that the handler of
thread `t` has still to take, and `loc[t]` holds its arguments and local
variables. Another thread may run, or the process be killed, between any two.

| steps in `todo` | in the code |
|---|---|
| `lookup` | `get_node_by_path` and the copy of the inode it fills (`.node`) |
| `read ibitmap`, `take ino` | `get_avail_ino`: the block read; the search, the bit, the block written |
| `read dbitmap`, `take block` | `get_avail_blkno`, likewise |
| `read inodes`, `write inodes` | the two accesses of `writei`, which writes `.out` |
| `add`, `add dot`, `add dotdot` | `dir_add` up to its first write: the entry, or nothing if it needs a block |
| `new block` | `dir_add` with its new block (rufs.c:284-298); `writei` follows |
| `new file`, `new directory`, `root` | the inode that `rufs_create`, `rufs_mkdir`, `rufs_mkfs` fill in |
| `link` | the end of `rufs_mkdir`, before its last `writei` |
| `format`, `clear inodes`, `bitmaps` | `rufs_mkfs`: disk file and superblock, the loop over the inodes, the bitmaps |
| `write`, `fill` | the head of `rufs_write`'s loop, with the end of it; the filling of one block |
| `read` | `rufs_read`, which at its end writes its copy of the inode back |

A walk along a path reads several blocks, and so does the search in `dir_add`;
each is one step. For `dir_add` nothing is lost, since the kernel's lock on the
directory keeps other threads away from its blocks; for a walk, the directories
above are only ever added to. Nor does a walk show that `strtok` keeps its
position in a static variable (rufs.c:338): two walks at once can tear each
other's paths, which the model does not have.

**State.** The disk is `ibitmap` and `dbitmap` (each one block), `inodes` (the
region of inode blocks, in blocks of `InodesPerBlock`), `data` (the data blocks,
of `Cells` cells), and `found`, whether `DISKFILE` exists; a crash leaves it as
it is. The in-memory copies of the bitmaps are overwritten by each allocation
before they are used, so that only what the call at hand has read matters
(`.bits`). With several threads the code has still only one buffer for each
bitmap, and bits could get lost in it, which the model does not have (only
`rufs_race` has two threads, and finds its violation without). The numbers -1 that the allocators return stay as the code uses them:
as an inode number it is 65535 (`NoIno`); as a block
number (`NoBlock`) it reads as zeros, and what is written to it is lost. `mounted`
says that `rufs_init` has begun. `tree` and `crashes` are not variables of the
code: what users find, for the properties, and a bound.

**Inode 65535.** `readi` and `writei` compute its place like that of any other: block
`StrayBlock`, 4098 with the code's sizes, which is an ordinary data block (there are
16384), or, on a smaller disk, a block beyond the end. A `create` or `mkdir` that finds
no inode left writes its inode there, at the end of the block (`StrayWrite`): what was
the last cell of that block becomes anything a directory or file could hold there.
That damages the file or directory the block belongs to, and the model has it. What it
does not have is the other direction: `readi(65535)` gives back what was written last
as that inode, also when a file's or directory's own writes to the block came between.
In the geometry of `rufs`, inode 65535 lies beyond the end. With
`InodesPerBlock = 16384` and `MaxInum = 3` the same model puts it into a data block, and
TLC then finds `NamesLast` and `InodesApart` violated, by a `create` that finds no inode
and hits the block of a directory. The theorems therefore have the hypothesis
`Sheltered`: where 65535 lies in a data block, no call works with it.

**Data.** A cell of a file holds a datum: a value of the call that wrote it, and the
position in that call's buffer (`Data`), so that the wrong part of the buffer in the
right place is seen (`Datum`, rufs.c:861).

**The kernel.** It looks a name up before it asks for it to be created, holds a
lock on the directory meanwhile, lets one thread at a time write to a file, and
serves nothing before `rufs_init` is over (`CallNew`, `CallTransfer`, `Ready`).
The handlers rely on this; that two names are never the same does not follow
from `dir_add`, whose search for duplicates looks at block 1 only (rufs.c:227),
the inode bitmap, and so never finds one.

**Left out.** Times and link counts, on which nothing depends. A crash between the
creation of the disk file and the write of the superblock: the next start would
take block 0 for both bitmaps and the inodes. `rufs_getattr`, `_opendir`,
`_readdir` and `_open` change nothing; they are what `tree`, `Holds` and the
properties look through. The stubs (`rmdir`, `unlink`, `truncate`, ...) report
success and do nothing, so that no name or block is ever given back.

## 4. Runs

Passing runs, with the distinct states TLC finds:

| run | states | properties |
|---|---|---|
| `core_join` | 298 000 | `TypeOK`, `RosterPartition`, `JoinAfterEnd`, `JoinValueOfTarget`, `CleanExitTimerOff` |
| `core_mutex` | 1 008 000 | `MutualExclusion`, `HolderKeepsMutex`, `SeekersAwaitHolder`, `TimerOffOnlyIfOthersJoin` |
| `psjf` | 341 000 | `TypeOK`, `ListsConsistent`, `QuantumLeft`, `LeastUsageFirst`, `ImplementsUserThreads` |
| `mlfq` | 82 000 | `TypeOK`, `QueuesConsistent`, `HighestPriorityFirst`, `ImplementsUserThreads`, `NoStarvation` |
| `mlfq_mutex` | 140 000 | `ImplementsUserThreads`, `NoStarvation` |
| `vm` | 220 000 | `TypeOK`, `LockExcludes`, `MappingsAgree`, `TlbCoherent`, `ChainsCoverPages`, `ImplementsMemory`, `LocksReleased` |
| `vm_stale` | 663 000 | `MappingsAgree`, `TlbCoherent`, `ChecksSuffice` |
| `rufs` | 498 000 | `TypeOK`, `BlocksApart`, `InodesApart`, `CrashCost`, `ImplementsFileTree`, `NamesLast`, `AddedIsFound`, `WrittenIsFound` |

* `core_join`: main and two workers; main joins both and the first worker joins
  the second, with and without a variable for the value. Three threads are the
  least with a joiner, a target, and a third party that runs between two
  statements of a call, and they allow two joins of one target at a time. Main may
  return at any time: with workers left, and interrupted between the frees.
* `core_mutex`: the same threads and two mutexes. All three threads use the
  first, so that an unlock finds two waiters and a newcomer; main and one
  worker use the second and may destroy it while they hold it. Mutual exclusion
  is checked on both, the other two properties on the first (on the second they
  do not hold: see `destroy_unlocked`).
* `psjf`: main and two workers, the workers contend for a mutex and main joins
  one of them, a quantum is two units and three quanta may be charged: enough for
  two threads with the same number of quanta and different remainders, and for
  a thread to overtake another in the list. Threads return no values here; that
  is left to `core_join`.
* `mlfq`: three threads, two levels, a boost every two quanta: a thread can be
  demoted, stay at the last level, and be boosted while another waits in a join
  at the other level.
* `mlfq_mutex`: main and a worker with a mutex, every call of the library.

* `vm`: two clients, one page table of five entries and three frames for clients,
  so that there are a chain of two pages beside a single page, and allocations
  that fail. The cache has two entries, one less than the pages in use. The
  accesses cross from the first page to the second, and start at the very end
  of the first page's payload.
* `vm_stale`: the same memory, careless clients, and chains of up to three pages
  of which any part may be freed. Nothing is put here: a put takes the same steps
  through the pages as a get, and what is read does not matter. The two clients are
  interchangeable (symmetry).
* `rufs`: one thread, as FUSE runs with `-s`, and one crash, which may also fall into
  `rufs_mkfs`; what was written before is used afterwards. A directory, a file in
  it, and two files beside it; four inodes in blocks of two, so that `writei`
  rewrites a neighbour and the last name finds no inode; four data blocks of two
  cells and two pointers, so that the root gets a second block with its third entry
  (`.`, `..`, a name), has no room for its fifth, and data blocks run out. Writes
  start in the middle of one block and end in the next, or leave a hole and go
  beyond the last pointer; reads meet the hole; a file is written more than once, with
  one of two values. `MaxSize` is five, so that one write may follow another in a file and
  begins within its size, where `WrittenIsFound` promises that it can be read. The two files in the root are interchangeable, and so are the values (symmetry).

The violation runs each check one statement that a comment of the code makes,
and are described under [findings](#6-findings).

Every property has a mutant in `PROJECT.json`: a variant of one definition with
which TLC finds the property violated, under the same configuration. For
instance, a `worker_mutex_lock` that tests once instead of in a loop violates
`MutualExclusion`, an unlock that wakes one waiter violates
`SeekersAwaitHolder`, a boost that moves the queues and forgets
`priority_level` violates `QueuesConsistent`, a yield that does not add up the
time used before violates `NoStarvation`, and a `rufs_mkdir` that writes the
parent back as it looked it up, without the block that `dir_add` gave it, makes
names vanish and violates `NamesLast`. A `rufs_write` that keeps its offset in the
second block puts cells where the call does not say and violates
`ImplementsFileTree`; one that takes the second block's part from the start of the
buffer violates `WrittenIsFound`.

## 5. Fairness

`NoStarvation` (`Mlfq`) is checked under `FairSpec`:

* the scheduler context runs to its swap or its assert (it is a loop that
  blocks on nothing);
* a thread inside a library call goes on while it has the CPU;
* a timer expires if the thread it was set for keeps the CPU. Not more: every
  turn sets the timer anew, so it need not expire across turns;
* a pending signal is delivered when the thread unblocks SIGPROF.

Nothing is assumed of the code between library calls: a thread may compute
without end, and the timer takes the CPU from it. Threads that wait in joins or
for a mutex are not promised anything, since their targets and holders need not
end or unlock.

`NoStarvation` needs one more assumption, `MinElapsed = 1`: a turn costs at least
one unit. The code does not grant it ([findings](#6-findings), c:97), but it holds in
practice wherever a turn costs more than a microsecond.

`LocksReleased` (`Vm`) is checked under `FairSpec`: the system runs every thread
that is inside a call and can go on. Nothing is assumed of who gets a lock that
is free, for neither the mutex nor the test-and-set is fair; so the property
does not say that a given thread gets in, but that no call keeps others out for
ever.

The file system has no locks and its handlers no loops without a bound; nothing
is claimed of its progress.

## 6. Findings

Runs that end in a violation, with what they show:

* `join_alive`, `JoinTargetAlive` (c:136). `worker_join` searches `ended_tcbs`
  with SIGPROF blocked and stores `join_tid` after unblocking it. A target that
  ends in between notifies nobody, and the joiner waits for ever.
* `destroy_unlocked`, `DestroysUnlocked` (c:242). The unlock nested in
  `worker_mutex_destroy` unblocks SIGPROF: another thread may lock the mutex
  before its node is freed, and its own unlock then aborts.
* `vm_tables`, `TablesApart` (my_vm.c:56). All entries of the directory name the
  directory's own frame. Mapping page 1 therefore overwrites the directory's
  second entry; in the model, with tables of three entries, the fourth page's
  table entry lies in the frame of page 1, on top of its link. In the code this
  takes more than 1023 pages in use.
* `rufs_race`, `BlocksApart` (rufs.c:96). Two threads, as FUSE runs without `-s`:
  a write to one file and the creation of another, for which the root needs a
  block, both read the data bitmap before either writes it, and the file and the
  directory get the same block.

Disagreements the models show, without a run of their own:

* `join_tid` is stored before `join_retval` (c:137): a target that ends between the
  two stores delivers its value through the pointer of an earlier join, or not
  at all, and the join returns without it (`JoinSetRetval`, `Delivered`).
  `JoinValueOfTarget` says what is left: no other thread's value comes instead.
* `setitimer` does not clear a signal that is pending (c:447): the timer of one
  turn may fire while the scheduler runs, interrupt the next turn at its first
  instruction, and charge it a whole quantum (`Schedule` leaves `pending` alone).
* `worker_exit` (c:112), documented as terminating the thread, stores its value
  and returns to its caller, which runs on (`Exit` leaves `pc` alone).
* A thread that was scheduled without a timer, or main before its first call of
  the scheduler, is not preempted in favour of threads it creates: the timer is
  set only when a thread is scheduled (c:309).
* The value of a thread is written through `join_retval` also if the joiner
  passed NULL (c:701, `NullWrite`), although a comment (c:699) says that the
  cleanup does not write.
* The elapsed time is truncated to microseconds at every yield (c:97): threads
  that yield within a microsecond are never charged, never demoted, and never
  bring on a boost. With `MinElapsed = 0` in `mlfq.cfg`, TLC finds `NoStarvation`
  violated.
* In the MLFQ build, main is put into `tcbs` when the scheduler first runs: a main
  that makes and destroys a mutex and returns before aborts in `cleanup_library`
  (c:562, `CleanupAbort` of `Mlfq`).
* `get_value` goes on after a failed check, without the lock (my_vm.c:634,
  `CheckFailsInGet`, `StrayGet`).
* `t_free_aux` is to "remove the translation from the TLB" (my_vm.c:448), but the
  next line's `translate` puts it back. `TlbCoherent` shows that this is harmless:
  an entry names the cell of a page's table entry, which never moves, and callers
  look at the bitmap first.
* With two threads, `Rufs` does not implement `FileTree`: `writei` rewrites a block of
  inodes that another call changed since it was read (rufs.c:152), and `rufs_read`
  writes back the inode as it was before a write that went on beside it
  (rufs.c:801). TLC finds `ImplementsFileTree` violated with `rufs_race.cfg` in place of
  `BlocksApart`: through the shared block; when the allocations are kept apart, through
  `writei`; and when these are too and `MaxSize` lets a file be read before it is written
  again, through `rufs_read`.
* "If disk file is found, just initialize" (rufs.c:465): `rufs_mkfs` creates the file
  first and writes the root's inode last. After a crash in between, every start
  finds a root that is not valid, and no name can ever be created (`Mount`).
* A read within the size "shouldnt get here" (rufs.c:785), at a block that was never
  written, and yet does: the size grows by what is written, also when a write
  overwrites or leaves a hole (rufs.c:871, `WriteLoop`). Conversely, the end of what
  is written after a gap lies beyond the size, and is not read: `WrittenIsFound`
  promises this part only to writes that begin within the size or at it.
* `dir_add` reports "added successfully" (rufs.c:208) also when `get_avail_blkno`
  returned -1 and the entry went nowhere; and names created when
  `get_avail_ino` returned -1 all share the inode 65535. `InodesApart`,
  `AddedIsFound` and `WrittenIsFound` exclude these cases by name.
* What `get_avail_ino` returns is used without a look at it (rufs.c:600): without inodes
  left, `rufs_create` writes inode 65535, which lies in data block 4098, over whatever
  file or directory has that block (section 3).
* `cleanup_library` begins with "Remove preemption mechanisms" (c:555), but neither
  disarms the timer nor blocks SIGPROF: when main returns with workers left, a signal
  may find `timer` or `running` freed (`halted` is `wild`). `CleanExitTimerOff` says
  where that cannot happen: when main is the last thread.
* When `dir_add` finds no room, the inode taken for the name stays marked
  (rufs.c:604, `AddEntry`): each further attempt costs one. `CrashCost` holds while
  directories have room.
* `mutexes->front` is not initialised (c:532), and the last assert of
  `cleanup_library` (c:588) reads it (`CleanupEnd` with `strayFront`).

## 7. Proofs

Everything here is proved for every value of the constants: every number of
threads, mutexes, levels, pages and frames, and every set of joins, locks and
calls. The only assumptions are the ones the models declare (`ConstantsAssumption`,
`PsjfAssumption` and so on), which type the constants and, in `Rufs`, say that no path
contains `.` or `..`, which the kernel resolves before it calls a handler, and that what
users write is not an entry (`CellAssumption`): a cell of a block is an entry, a user's
datum or never written, three kinds of data that the code does not mix up because
entries stand in the blocks of directories and users' values in those of files. Where it
is said, there are more hypotheses: `FirstTable`, clients that are not careless, one
handler at a time, or `Sheltered`.

`Lemmas` holds what the proofs share: the facts about sequences (`RemoveAtKeeps`,
`InsertAtKeeps`, `ConcatKeeps`, `FlattenKeeps`, `FirstOf`), about minima and division.
Recursive functions and folds are reasoned about by induction over a *set* of
numbers (`InductionOverNat`, from `LeastElement`): an intermediate function that
satisfies the recursion is shown to exist for each length, and to be what the
operator chooses.

### The library, `UserThreads_proofs`

| theorem | statement |
|---|---|
| `TypeInvariant`, `TypeCorrect` | the types; identifiers held by preempted creations are fresh and distinct |
| `RosterCorrect` | `RosterPartition` |
| `JoinCorrect`, `JoinValueCorrect` | `JoinAfterEnd`, `JoinValueOfTarget` |
| `TimerCorrect`, `CleanExitCorrect` | `TimerOffOnlyIfOthersJoin`, `CleanExitTimerOff` |
| `MutualExclusionCorrect` | `MutualExclusion` |
| `HolderCorrect`, `NoLostWaiter` | `HolderKeepsMutex`, `SeekersAwaitHolder` |

The inductive invariant is built in layers, each of which uses those before it:

1. `TypeInv`, the types and `CreationInv`. The types alone are not inductive:
   that a thread's `arg` may be enqueued needs that the identifier a preempted
   `worker_create` holds belongs to nobody else and was not used yet.
2. `RosterPartition`. It needs 1 for `CreateEnqueue`: the thread that is
   enqueued is absent and so in none of the lists.
3. `JoinInv`: wherever a thread stands in `worker_join`, its target is recorded
   in its `join_tid` or has ended; and once it is back on the CPU it is no longer
   recorded. `JoinAfterEnd` alone says nothing of the points before the swap.
   `ValueInv` adds that it waits for no other thread, and that what its variable
   holds is the value of a target that has ended: an ended thread never runs again
   (2), so its value stays.
4. `TimerInv`: when a timer counts, the scheduler holds another thread. This is
   what makes a clean exit timer-free, since `cleanup_library` asserts that main
   is the last thread; also when signals came in between, since main is scheduled
   anew after each.
5. `CriticalInv`: a mutex that a thread has locked names that thread as holder,
   even after its node has been freed, and mutex identifiers are not used again.
   Mutual exclusion follows since a node has one holder.
6. `SeekInv`: a thread that seeks a mutex is swapped out inside
   `worker_mutex_lock`. So the waiters an unlock wakes are all there are.
7. `HeldInv`: `HolderKeepsMutex` and `SeekersAwaitHolder` outside `Careless`,
   with the target of a destruction that is under way.

Each layer has a lemma for `Init`, one for a step (with one proof step per
action), and often a frame lemma for the actions that leave its variables
alone. The theorems at the end combine them by temporal logic.

### The policies, `Psjf_proofs` and `Mlfq_proofs`

| theorem | `Psjf_proofs` | `Mlfq_proofs` |
|---|---|---|
| `TypeCorrect` | `TypeOK` | `TypeOK` |
| `ListsCorrect` / `QueuesCorrect` | `ListsConsistent` | `QueuesConsistent` |
| `QuantumCorrect` | `QuantumLeft` | |
| `LeastUsageCorrect` / `PriorityCorrect` | `LeastUsageFirst` | `HighestPriorityFirst` |
| `ImplementationCorrect` | `ImplementsUserThreads` | `ImplementsUserThreads` |
| `GuaranteesCarryOver` | the library's guarantees hold of it | the library's guarantees hold of it |

The implementation is proved step by step: `StepImplements` shows that every action
is an action of `Core` or a stutter, under the invariant `Inv`. For the calls this is
how they are built; the work is in `Schedule`, `ScheduleStuck`, `Finish` and the
cleanup, where the policy's own code decides (`ScheduleImplements`,
`StuckImplements`): that the list is sorted into and taken out of without losing a
thread (`ReadyKeeps`, `TakeKeeps`), that the thread found first is unblocked, and that
the search fails only where `Core` may be stuck. With the implementation the
theorems of `UserThreads_proofs` hold of both schedulers (`GuaranteesCarryOver`);
that the instance's constants satisfy their assumption is `CoreAssumption`.

The invariants:

* `Psjf`: `ListInv` (`arrival` and `tcbs` hold each thread once, `tcbs` is sorted by
  `quantums_elapsed` and `quantum_amt_used`), `AccountInv` (a quantum is never
  quite used up outside a charge; who is being charged is out of the list, so that
  an account in the list never changes), and `CoreInv`, the library's types and
  roster. Sortedness is inductive only because a thread is charged while it runs,
  and PSJF takes the running thread out of the list. `InsertKeeps` and `FoldIterates`
  carry it through the loop that inserts the arrivals.
* `Mlfq`: `QueueInv` (each thread in exactly one queue, the one of its
  `priority_level`), `AccountInv` and `TurnInv`. The last says that a turn is charged
  at most twice, by `worker_yield` and by a signal before the swap, so that the count
  of quanta since the last boost passes its period by at most one.

### The virtual memory, `Vm_proofs` and `VmMemory_proofs`

| theorem | statement |
|---|---|
| `TypeCorrect` | `TypeOK` |
| `MappingsCorrect`, `OneTableCorrect` | `MappingsAgree`: allocated pages have frames of their own |
| `CacheCorrect` | `TlbCoherent` |
| `ChecksCorrect` | `ChecksSuffice`: a call that passed its check meets only allocated pages |
| `ChainsCorrect`, `OneTableChains` | `ChainsCoverPages`, where clients keep to what they got: no page leaks and none is shared |
| `LockCorrect`, `OneTableLock` | `LockExcludes` and `GetsHold`, for the same clients: who is inside a call holds `library_lock` and finds the library initialised, and no `get_value` comes to its second unlock |
| `MemoryImplemented`, `OneTableMemory` | `ImplementsMemory`, for the same clients: the refinement of `Memory` |

`LockCorrect` is about clients that are not careless, since careless ones break the
lock in two ways that the model ends before or leaves out: a `get_value` whose check
failed unlocks twice (my_vm.c:643), and a `t_free(NULL, n)` gets past `!paging_scheme`
during the initialisation (c:471). That the first never happens to the others is the
part `GetsHold`, and takes the invariant of the refinement below (`CheckNeverFails`).
The theorems have the hypothesis
`[]FirstTable`: the pages in use are those of the first page table. The code is
built with `-m32`, so a table has 1024 entries, and the hypothesis says that
clients never have more than 1023 pages in use (page 0 is
the library's own, and the lowest free pages are handed out first). Beyond them the
theorems are false, since all entries of the directory lie in frame 0 and name it
(my_vm.c:56): the table entry of a later page shares its word with the
link of an earlier one, which the run `vm_tables` shows. `OneTableCorrect` has no
such hypothesis: with one page table, as in the runs `vm` and `vm_stale`, it
follows from the size of the table.

The invariant has these parts:

1. `LockInv`, the spin flag and the lock.
2. `CallInv`, the types of the calls' variables at each `pc`.
3. `MemoryInv`. `TableInv`: the bitmaps and the page table agree, frame by
   frame. `LinkInv`: a link is empty or leads *upwards*, to a page with a higher
   number. The allocation takes pages in ascending order, and so the recursion
   of the check ends and visits no page twice, also when a part of a chain was
   freed and its pages belong to others now. `CacheInv`: an entry of the
   TLB names the cell in which its page's table entry lies (`Coherent`: what every
   operation of the cache preserves, for any length). `ChainInv` ties a call under the
   lock to the memory: what `valid_pages_linked_together_from` has walked
   through, what is still ahead, and that the check's answer remains true while
   the call frees or copies (`Run`, `RunOnward`, `RunStable`).

`vm_stale` is the run in which the hypotheses of these lemmas bite: careless
clients leave links to freed pages behind, and the invariant says nothing that
would need them gone.

`ChainsCorrect` is about clients that are not careless (`~ Careless`): they free what
they got, once and with a size of as many pages, and not while somebody uses it. For
the others the property is false, and the code does not promise it. The property
speaks of the moments when nobody holds the lock; the invariant, `AllocInv`, of every
step in between:

* `HeldInv`. There are chains (`Chains`), one for each allocation, of its length and from
  its address on, disjoint, and the pages in use are exactly those of the chains and
  those that the call under the lock has in hand: none, or the pages that `t_malloc` has
  taken so far, all of which link to nothing yet, or what `t_free` still has before it
  of a chain that no longer counts as allocated. The chains are sequences that the
  invariant says exist, so that a step has to show only what becomes of
  them: they stay (`HeldStays`), they get one more (`HeldGrows`, when the pages taken are
  linked), or one is taken apart (`HeldShrinks`, when the check has passed).
* `UseInv`. A `t_free` under way has a live allocation and its true number of pages, and is
  the only one that frees it. The code cannot know, it counts from the caller's size.

That a chain is what `ChainPage` computes, page after page, is `ChainIs`.

`MemoryImplemented` says of the same clients that every step of the library is a step of
`Memory` or one that they do not see (`DataNext`, `LibraryData`). `content` is what the
clients would read where `library_lock` was last released, and the refinement mapping is
the identity on `content` and `result`: what has to be shown is that no call changes
anything else than `Memory` lets it, and that a call which walks from page to page
reads and writes what one step would. The invariant is `DataInv`, on top of `AllocInv`:

* `ShownInv`. For each allocation there is a chain, and the words of its pages, one page
  after the other (`Image`), are its `content`; except where a `t_free` or a `put_value` is
  under way at it (`Open`).
* `AccessInv`. A `get_value` or `put_value` lies within its allocation, which nobody frees.
  Between two of its pages it has done so much of its work (`CopyAt`): `get_value` has
  read the first words of `content` it was asked for, and `put_value` has changed the
  image exactly where it has been (`Written`). `GetWords` and `PutWords` take this over
  the boundary of a page, which is where the offset starts again from nothing.
* `TakingInv`. What `t_malloc` has taken so far is zero beyond the links.
* `CheckInv`. The check stands at the page of the chain that its count says, and the chain
  is long enough. So with these clients the check never fails (`CheckNeverFails`), and
  the error paths of `get_value` and `put_value` are those of careless ones.

An allocation that a call is not about is apart from the pages that the call has in hand,
by `Held`, and so keeps its words (`ShownApart`, `SeenApart`). The four steps that return
something (`MallocReturnsData`, `FreeReturnsData`, `PutPageReturns`, `GetPageReturns`) map
to the four operations of `Memory`.

### The file system, `Rufs_proofs`

| theorem | statement |
|---|---|
| `TypeCorrect` | `TypeOK`, for any number of threads |
| `BlocksCorrect` | `BlocksApart`, when one handler runs at a time (`Single`, FUSE with `-s`) and `[]Sheltered` |
| `InodesCorrect` | `InodesApart`, under the same conditions |

All hold for every size of the disk, of its blocks and of the inodes, for every set of
paths, and for a process that is killed between any two accesses to a block. `Sheltered`
says that inode 65535, which stands for a missing one, lies off the disk, or that no
call works with it. With the code's sizes it is the second: `BlocksCorrect` and
`InodesCorrect` are then about a disk whose inodes suffice. Blocks and pointers may
run out.

A handler is a sequence of steps, of which it takes the first and to which
`rufs_write`'s loop, `dir_add` and the loop of `rufs_mkfs` add others in front. What is
known of the locals of a handler depends on what is *left* of the sequence, so the
types already need the shape of the sequences: `Program` says which step may come after
which (`Follows`), and which ones can no longer come (`Past`). `Fits` composes
the sequences from their pieces, and `LocAt` gives the types of the locals at each
step: a copy of a bitmap has numbers of that bitmap's kind when one is taken from it,
and `loc[t].ino` is a number that `readi` reaches once `get_avail_ino` has been passed.

`BlocksApart` alone is far from inductive: between two accesses a block has been marked
and is named by nothing, or a pointer to it is in a handler's copy of an inode only.
`BlockInv` says, of the disk and of the handler that runs:

* `DiskInv`: each inode in use carries its own number and owns its blocks (`Own`: they are
  marked data blocks, named once, and by no other inode in use), and when there is an
  inode in use, the metadata is marked. A disk without inodes in use, as a crash inside
  `rufs_mkfs` leaves it, is trusted by the next `rufs_init`: any bitmap will do.
* `MkfsInv`: until `rufs_mkfs` writes the root there are no inodes in use, which is why
  it may write its bitmaps after the inodes.
* `OutInv`: the inode about to be written owns its blocks, and the neighbours in the
  copy of its block are as they are on the disk. This is the step that another
  handler would break (see `rufs_race`).
* `NodeInv`: the inode that was looked up is still what the disk holds, until the name
  has been added; after that only that it is in use.
* `TakenInv`: a copy of the data bitmap is that bitmap when a block is taken from it;
  a block that was taken (`Taken`) is marked and named by no inode, until `dir_add` or
  `rufs_write` enters it; and the directory that `dir_add` gets a block for is the one on
  the disk.

There is one lemma for each kind of step (`TakeBlockBlocks`, `WriteInodesBlocks` and so
on). `QuietGo` carries all of this through the steps that touch neither inodes nor the
data bitmap, so that these have to say only what the next step needs.
With two threads the invariant, and `BlocksApart` with it, is false: that is what
`rufs_race` finds.

`InodesApart` needs the same for names (`NamesInv`, on top of `BlockInv`). Two lemmas do
the work: a step that adds no name keeps it (`NamesShrink`), and so does one that adds a
single *fresh* name (`NamesGrow`): an inode that is marked and that no name leads to, or
none at all, under a name that the directory lacks (`Fresh`). Names appear in two ways,
and the invariant has to follow both:

* An entry is written into a block of the directory (`EntryWritten`). Since directories
  own their blocks, that changes one place of one directory.
* An entry is written into a new block, which no inode names, and appears when the
  directory's inode is written (`NewBlockNames`, `WriteInodesNames`). In between,
  `OutNames` says that all names of the copy about to be written are on the disk but
  one, which is fresh. So the copies that `rufs_read`, `rufs_write` and `rufs_mkdir`
  write back bring no name back and lose none.

`PathNames` carries what makes a name fresh: the kernel has looked the path up in vain,
so that the directory lacks the name when the handler looks it up (`WalkLast`,
`FoundMissing`), still when the inode has been taken, and until the entry is written;
`dir_add` itself would not notice a duplicate. `BitsNames` follows the inode bitmap
from the copy to the disk, and through `rufs_mkfs`, where the first number taken is the
root's. That the root is marked as soon as any inode is in use is a part of its own: a
disk that a crash left without one has an inode bitmap that says nothing.

### Names and crashes, `RufsCost_proofs`

| theorem | statement |
|---|---|
| `NamesStayCorrect` | `NamesLast`: no call and no crash takes a name away or leads it elsewhere, when one handler runs at a time and `[]Sheltered` |
| `CrashCostCorrect` | `CrashCost`: while nothing has run out, a crash costs at most one inode, under the same conditions |

`NamesLast` needs to know what every inode that is written back does to the one on the
disk. `TreeInv`, on top of the three invariants above, follows a handler there:

* `ParentInv`: what `get_node_by_path` gave `rufs_create` and `rufs_mkdir` is a directory.
  That takes more than the guard of the call: the code does not look at the type, but
  the kernel has seen a directory there, and the walk finds the same one.
* `InoInv`: the inode that was taken is marked and, until the step that makes it, not in
  use; afterwards it is in use, or it is the one about to be written. `BootInv` is the
  same for the root, in `rufs_mkfs`.
* `LastInv`: an inode about to be written over one in use *extends* it (`Extends`): it
  has the same type and, in a directory, the same blocks wherever there was one. If it
  is not in use yet it is the handler's own new inode. `rufs_mkdir` reads its parent
  again before it changes the link count, for otherwise this fails.
* `PlaceInv`: `dir_add` gives a new block to a pointer that had none.
* `EndInv`: a call that makes something ends with a `writei`, and walks before it takes.

From this, every step keeps each directory and each entry in its place
(`EntriesLast`, `EntriesNext`), and so the names (`NamesStayed`).

`CrashCost` counts, over all crashes so far, the inodes that are marked and lead
nowhere (`Lost`). By itself it is not inductive, since it allows a handler that runs to
lose one, but does not say which one. `CostInv` does: not more than one for every crash
are lost *besides* the one that the running handler has taken (`Owed`), and when it has
come so far that it must be named, it is, or the name is on its way (`NameSoon`): in the
copy of the directory about to be written, or in the entry for which `dir_add` gets a
block. A crash makes the handler's inode one of those that are lost (`CrashKeepsCost`), and
the end of a call has to show that it has a name and is in use. Since entries last,
what was once refused for want of room stays refused (`PlentyStays`): that makes the
premise `Plenty`, which speaks of the present state, a statement about the past. It
is what is left out of the guarantee, too: a directory without room loses an inode in
each attempt, as section 6 says.

### Corrections that came with the proofs

Two `CASE` expressions of the models had overlapping guards, which TLC resolves by
their order and a proof cannot: `halted'` in `Finish` of `UserThreads`, and `level'` in
`Schedule` of `Mlfq`. Both now say what the code does in the overlap.

### Only model-checked

* Of the file system: `ImplementsFileTree`, `AddedIsFound` and `WrittenIsFound`, which
  speak of whole paths and of files' contents across several calls: they need that what
  the recursive walk finds is related to `tree` for every depth of directories.
* Liveness, `NoStarvation` and `LocksReleased`: out of the prover's reach.

## 8. What is not modelled

* The C library. `malloc` is called by the scheduler and by `worker_create`,
  which may be preempted inside it (c:56): a real hazard, but one inside the
  allocator's code, which the repository does not have.
* The statistics of p2 (averages, printing), which nothing reads.
* The memory of tcbs: they are kept until the process ends, except main's.
* Of the virtual memory: byte offsets beyond the payload, addresses past the
  first page of an allocation, sizes below zero, the TLB's miss counters, and
  `mat_mult`, a client that adds nothing to the calls of the model's clients.
* Of the file system: the static position of `strtok`, the one buffer that all
  threads share for each bitmap, what `readi` finds of inode 65535 in a data block that
  others write, errors of the disk file, times and link counts, and what `rufs_read`
  returns (that the disk holds what was written, and the size lets it be read, is
  `WrittenIsFound`).
* p1, sample code and benchmarks, which are not parts of a system.

## 9. Plan

1. Done: `UserThreads`, `Psjf`, `Mlfq`, their runs, the theorems about
   `UserThreads`.
2. Done: `Tlb`, `Memory`, `Vm` and their runs.
3. Done: `FileTree`, `Rufs` and their runs.
4. Done: the theorems about `Psjf`, `Mlfq`, and `Vm`, with `ChainsCoverPages` and the
   refinement of `Memory`; of `Rufs` the types, `BlocksApart`, `InodesApart`, `NamesLast`
   and `CrashCost`.
5. Open: a proof that `Rufs` implements `FileTree`, which the runs check.
