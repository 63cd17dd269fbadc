# A verification of frankenlibc's core in TLA+

frankenlibc runs a rump kernel (NetBSD's kernel as a library) as one ordinary
single-threaded process: `franken/` supplies threads, locks, memory and start-up,
`librumpuser/` the hypercalls the rump kernel is written against, `platform/` the host's
system calls, `libvirtif/` a network interface, and `tools/rexec.c` starts the program in a
sandbox. This directory models that code in TLA+, checks small instances with TLC and
proves the central properties with TLAPS. `PROJECT.json` lists components, runs, mutants,
the map from definitions to source lines, findings, hazards and theorems.

## 1. Inventory

| Component | State | Operations | What makes it hard, and correct |
|---|---|---|---|
| Scheduler, `franken/thread/thread.c` | `thread_list`, `current_thread`, a runnable flag and a wakeup time per thread | `schedule`, `wake`, `block`; the idle loop calls `clock_nanosleep`, which polls descriptors | every operation is a point of interleaving of all others; round robin must starve nobody; wakeups must not be lost |
| Threads, same file | `exited_threads`, `joinwq`, MUSTJOIN/JOINED flags | `create_thread`, `exit_thread`, `join_thread`, `clock_sleep`; the next thread frees the exited ones | two-way handshake of exit and join in either order; nothing may point to a freed thread |
| Rump kernel CPU, NetBSD's `rumpkern/scheduler.c` | who holds the one virtual CPU, who waits for it | hypercalls that block give it up and take it back | nobody may block with the CPU in hand |
| Mutexes and cvs, `thread.c` | count, owner, wait queue; waiter count and queue | enter, tryenter, enter_nowrap, exit; wait, timedwait, signal, broadcast | exclusion; release and wait in one step; signals against timeouts and stray wakeups |
| Read/write locks, `thread.c` | reader count `v`, owner `o`, two queues | enter, tryenter, exit, downgrade, tryupgrade | sharing; no stranded waiter; the encoding of downgraded locks |
| Hypercalls, `librumpuser/rumpuser*.c` | parameters, descriptors | clocks, memory, block I/O, random, component wrappers | each blocks or completes exactly once |
| Sysproxy server, `librumpuser/sysproxy.c` | the slot of each client: send lock, outstanding requests, reference count, exec flag, main lwp; the poll table; the list of work and the workers | accept, handshakes, prefork and fork, system calls by workers, copyin/copyout requests, exec, disconnect | the one component with preemptive threads and a network protocol: late, missing and duplicate answers, disconnects in the middle of anything, slots reused while workers still run |
| malloc, `franken/malloc/malloc.c` | free lists by bucket | aligned_alloc, malloc, calloc, free, realloc | blocks partition the memory, alignment holds, realloc copies within bounds; edges of buckets, pages and integer types |
| Descriptors and start-up, `franken/init` | `__franken_fd`, the devices of the kernel, its root | fdinit, fdinit_create | every named device exactly once; the right disk as root |
| rexec, `tools/` | descriptors of the program, the environment | open, sandbox, exec | names that repeat, the order of arguments |
| libvirtif | interface, receive thread | create, send, receive, destroy | the receive thread's life against the interface's |
| libtc, platform layer | none to speak of | clock scaling, system call wrappers | boundaries |

Components interact by direct calls. The rump kernel calls the hypercalls with its CPU held;
those that block call `rumpkern_unsched`, then `schedule`, then `rumpkern_sched`. The only
asynchronous input is the poll in the idle loop, which calls `wake` on the thread that a
descriptor's entry names, wherever it is blocked. Nothing is persisted and there is no
preemption: hazards are interleavings at calls of `schedule`, stray wakeups, timeouts
and calls in unusual orders. The sysproxy server is the exception: it is written for
preemptive threads, with a mutex per client and one for the list of work, and is modelled so.
The hazards are listed at their lines in `PROJECT.json`.

## 2. Plan

1. Done, models: the scheduler, threads, mutexes and cvs with their abstract specification,
   read/write locks; the sysproxy server with its pool of workers; malloc; the way of devices
   from rexec's command line into the kernel.
2. Done, proofs: every safety invariant that the runs check, in all modules; the round robin of
   `schedule()` and the copying of `realloc()` as action properties; the refinement
   `Locks => Monitor`.
3. What remains model-checked only is liveness. Not planned: the components listed under "Not
   modelled".

## 3. Modules

    Scheduler          thread list, round robin, wakeups, poll, wait queues
      Threads          create / sleep / join / exit / reap, and the CPU     MCThreads
      Locks            mutexes and condition variables                      MCLocks
        Monitor        what they promise (Locks implements it)
      RwLock           the read/write lock                                  MCRwLock
    SchedulerProofs    lemmas about the operators of Scheduler
      ThreadsProofs    the inductive invariant of Threads; round robin
      LocksProofs      the inductive invariant of Locks
        MonitorProofs  Locks implements Monitor
      RwLockProofs     the inductive invariant of RwLock

    WorkPool           the list of work and the worker threads
      Sysproxy         poll loop, clients, requests, exec, disconnect        MCSysproxy
    SysproxyProofs     the inductive invariants of WorkPool and of Sysproxy

    Malloc             the allocator
      MallocProofs     powers of two, the partition of memory, what fits
    Devices            rexec's arguments to devices and root
      DevicesProofs    the environment, the devices in its order, the root

Names follow the code. Definitions marked `mutant of X` are deliberately wrong
versions of `X`; nothing uses them, they serve to check that each property notices a
plausible mistake.

**Scheduler.** There is one host thread and no preemption, so that the code between two
calls of `schedule()` is one atomic step of `current_thread`. `scheduling` says that the
current thread is inside the loop of `schedule()`. `SwitchTo` is an iteration that finds a
ready thread, with the wakeup of a sleeper whose time has come, the rotation of the list and
the switch; `Poll` an iteration that finds none and in which descriptors wake threads. A
stray wakeup of a blocked thread is therefore part of every model (`FdThread`). The queue
of a waithead is a sequence of threads (a struct waiter lives on the stack of its thread
and stands for it), `onlist` the set of threads whose waiter has the flag. `Tick` may
advance the clock at any time up to `MaxTime`. The flag THREAD_TIMEDOUT is left out: nothing
but an unused function reads it.

**Threads.** One action per step of `create_thread`, `exit_thread` (wait at the gate, leave),
`join_thread` (wait, done), `clock_sleep`, and of the rump kernel CPU: `LeaveKernel`,
`TakeCpu`, `AwaitCpu`. `Schedule` includes the freeing of exited threads by the thread that
`schedule()` returns to, which a thread that runs for the first time does not do. `JoinContext`
says whether callers of `join_thread` are in the kernel (the hypercall) or outside it. A thread
is joined by one thread at most, as the interface requires; the thread of `main()` never exits, and
receive threads (the ones a descriptor names) return instead of calling `exit_thread`. Of the wait
for the CPU, `rcpu_mtx` and the `nwaiters` of `cv_wait_nowrap` are left out: nobody blocks with
that mutex, and its cv is never destroyed. Of `rump_unschedule`, the freeing of an lwp (LW_WEXIT),
for which its thread takes the CPU once more together with lwp0.

**Locks.** Threads in the rump kernel enter and exit mutexes, wait on and signal cvs, and
sleep. `held` records what callers were told; the correctness of the fields `v` and `o` is
stated against it. A waiting thread's step after `schedule()` returns is `MutexWon`,
`MutexLost`, `CvReturn` or `CvReturnAborts`. Steps between `rumpkern_unsched` and the wait
queue are one action, since nobody else runs in between. One rule about the callers is
assumed, as in any NetBSD kernel: a thread does not block with a spin mutex in hand, the
interlock of a `cv_wait` excepted (`MayBlock`). The kernel's big lock and its count `nlocks`
are not modelled. In this module the CPU is always free when a thread wants it, which is an
invariant (`CpuFreeInSchedule`), not an assumption; the wait for a busy CPU is in Threads.

**Monitor.** The same interface as its callers understand it: owners, entries, an ordered set of
waiters per cv. No scheduler, no CPU, no queue of mutex waiters. `Locks!Mon` gives
the refinement mapping.

**RwLock.** One lock; `mode` records what callers were told. `RwExit` and `RwDowngrade`
follow the code in not knowing who calls, with the failing `assert` of `rw_downgrade` as
`aborted`. `downgraded` records whether the lock has ever been downgraded: after that, `v`
no longer counts anything (section 5).

**WorkPool.** `schedulework`'s section under `sbamtx` is `Enqueue`, with its three ways (signal
an idle worker, create one, leave it); the sections of `serv_workbouncer` are `Retire`,
`TakeAtOnce`, `GoIdle`, `TakeWoken` and `BackToIdle`. A worker that was signalled is `woken`
until it has the mutex again, which is where others can be faster. `pthread_create` may fail
(`CreateFails`).

**Sysproxy.** Extends WorkPool: its workers carry out system calls and execs. Every section under
`spc_mtx` is one step, and so is everything a thread does without a lock that others can see:
the closing of a client, the `memset` of `serv_handledisco`, the uses of the main lwp.
`pc`, `at` and `goal` say where a thread is, for which client, and what it will do next with the
send lock. `asleep` holds the threads in `pthread_cond_wait` that nobody has woken; a woken one
tests its condition again (`Relock`, `ExecWait`, `WaitResume`). A client is the environment:
`Poll` lets any frame arrive, answers that nobody asked for included, and the end of file at any
time. Frames are read whole, since only the poll loop sees a
partial one, and buffers are left out. `MaxRef`, `MaxQueue`, `MaxReq` and `MaxFork` bound what a client
may have under way (`Room` and the guards of `Copyin`, `Copyout` and `PreforkDone`).

The kernel under the server is seen through the calls that the server makes. `lwps` are the lwps
of each client's process: `"main"` from the handshake to the close, that of each worker from
`lwproc_newlwp` to `lwproc_release`, and `"lost"` for those that nobody has any more. A send may fail
(`ok` in `SendDone`). `dosend` then returns past the switch back to the lwp that it came from
(`LoseLwp`): a worker in a system call goes on in process 1, releases the lwp it has there, and the
client's process keeps the other; while it is in process 1 it copies memory without asking the
client (`OnClientLwp`). If the answer to a handshake fails, the pid that is noted for the client is
that of process 1 (`pid1`), where its system calls will run. `draining` is the flag by which the
kernel refuses new lwps. `librumpuser/sysproxy.c` is compiled for LKL (its line 38), whose sources are
an empty submodule here, so that what `lwproc_lwpexit`, `lwproc_execnotify`, `lwproc_newlwp` and the
copies do is taken from NetBSD's implementation of the same interface (`hyp_lwpexit` and
`hyp_execnotify` of libsysproxy, `rumpcopy.c`), for which the file was written and the only one in
the repository.

**Malloc.** Addresses are numbers; `int` and `size_t` have widths, and every sum and shift is
taken in the type the code uses. `aligned_alloc` is the set of results: mmap may place a region
anywhere that is free, and when there is none the call returns NULL and changes nothing. `live` is
what callers hold: their request beside the fields of the header. Nothing here calls `schedule()`,
so every call is one step. `Pow2` is the shift of 1, a recursive function so that it can be proved
about.

**Devices.** The build for LKL and musl. One action per kind of argument, one for what `main` opens
after the arguments (`Open9pfs`), one per turn of the loop of `fdinfo_setenv`, one for the exec,
one per turn of `__franken_fdinit`'s loop, one for `__franken_fdinit_create`. `fdinfo_list` is kept to the
end although the program no longer has it: the properties say what became of each argument.
`Latest` and `First` pick, of the arguments that were opened under one name, the one whose
descriptor `setenv` leaves and the one whose place in the environment it keeps. `setenv`, `getenv`
and `lkl_disk_add` are external; the last numbers disks in the order they are added. A file that
cannot be opened ends rexec and is left out. The mounts of the disk and of the 9P file system may fail
independently of each other (`DiskRoot`, `FdInitCreate`); a 9P root whose mount fails leaves the bare
directory `/mnt` or what was the root before. An environment that already has
variables of this protocol when rexec starts is not considered.

## 4. Runs

Runs take from a second to three minutes. Deadlock is checked for Malloc only: a program whose threads
all wait for something nobody will do is idle, not wrong, and the clock is bounded; a sysproxy server
whose slots are all stuck has stopped (it happens when `pthread_create` has failed for the only
items); Devices ends when the program has started.

| Run | Instance | Shows |
|---|---|---|
| `threads` | main, two workers (symmetric), a receive thread; clock to 2; joins from both contexts | list, join and free safety; round robin as an action property |
| `threads_live` | main and two workers, fair | sleeps and joins end, runnable threads run |
| `threads_join` | joins from the kernel | *violated:* a joiner blocks with the CPU in hand |
| `locks` | three threads, one of them woken by descriptors, an adaptive and a spin mutex, a cv, depth 2, clock to 2, fair | the safety of mutexes and cvs; Locks implements Monitor; a free mutex is taken, timed waits end |
| `locks_nowrap` | as `locks` | *violated:* `mutex_enter_nowrap` aborts after `cv_wait` |
| `rw` | three threads, all operations, fair | queues sound, nobody stranded, waiters of an ownerless lock get in; holders counted until a downgrade |
| `rw_shared` | the same | *violated:* a writer beside readers |
| `sysproxy` | two clients, two workers (symmetric), one kept idle, three references, one queued item, two requests to one of the clients, one prefork, failing thread creation and failing sends | the pool's counters and wake-ups, references, clean slots, the send lock, answers, the main lwp, the lwps beside an exec, the slot table, no sleeper without a waker |
| `sysproxy_exec` | one client, two workers, one request | *violated:* an lwp that a failed send has lost is left in the process that execs |
| `sysproxy_lost` | one client, two workers, fair, thread creation succeeds | *violated:* a client that leaves during its exec keeps its slot |
| `malloc` | five pages of 8 bytes, blocks from 4 bytes up, a header of 2, three blocks in use, five sizes and four alignments, one of them above a page | blocks partition the memory; what callers hold is aligned and fits; realloc copies within bounds |
| `devices` | two disks, one of them a block device, one interface, a configuration, 9P at `/` or elsewhere, five arguments | each device once; the root is the one that was asked for, unless a disk follows it |

*Bounds.* Three threads are the fewest with an owner, a woken waiter and a third who
overtakes it; a fourth in `threads` allows an exit, a join and a reap at once. Depth 2
distinguishes the last exit from others. With the clock to 2 and delays 0 and 1 a timeout can
come before, together with or after a signal. The bounds are `MaxTime`, `Delay`, `MaxDepth` and the
sizes of the sets; they occur in guards (`clock + d <= MaxTime`, `held < MaxDepth`).
Symmetry is used between threads that play the same part, in safety runs only.
Three references are the connection, an exec and a system call that it waits for. Two clients suffice
for a slot that is reused beside one that is not, for gaps below `maxidx` and for a table that is full.
Two workers and the poll loop make three senders, of which one holds the lock, one waits and one comes
late. Two requests are needed for answers in the wrong order; `MaxReq` bounds them for each slot, and one
client that asks is enough, since nothing that concerns requests is shared between clients.
In `malloc` the sizes are 0, 1, one that nearly fills a page with its header, one above a
page, and one no block can hold; the alignments are none, one that is no power of two
(refused), one above the header and one above a page. Three arguments reach descriptor 5, where the
treatment of block devices begins; five allow, beside them, a disk repeated and a root in between.

*Fairness.* `schedule()` always goes on (weak fairness of `Schedule`), time passes, and a thread
whose `schedule()` has returned goes on in the hypercall it is in (`Resume`). Nothing
preempts a thread, so progress of the others also needs programs that give way: a thread that is
again and again in the kernel sleeps at some point (strong fairness of `Sleep`), and does not
keep a spin mutex for ever, not even by entering it anew while it has it (strong fairness of the exit that
frees it). In Locks these are conditions on whichever thread runs, since one runs at a time. No fairness is assumed of polls, signals or exits of adaptive mutexes.
The threads of the sysproxy server are preemptive and each goes on with what it has begun (weak
fairness of each thread's own steps, `Step`); a client never has to send anything.

## 5. What the violations mean

`findings` in PROJECT.json quotes the texts. (1) `rumpuser_thread_join` blocks with the rump
kernel CPU held, which `rumpuser(3)` forbids. (2) `mutex_enter_nowrap`, which aborts when the
mutex is taken, is used on the return from `cv_wait` for mutexes that other threads may hold
while they sleep; for spin mutexes it is safe (`SpinEnterable`, proved). (3) A writer does not look at
the readers of a read/write lock. (4) When a sysproxy client
disconnects while its exec waits for other workers to let go, `serv_handledisco` clears `spc_inexec`
without the lock; the releases that follow no longer wake the exec's worker, which sleeps for ever
with the last reference, so that the slot is lost. `SleepersHaveWaker` says that this cannot happen
while the client is connected. (5) A worker whose request could not be sent leaves its lwp behind in
the client's process. An exec waits for references, not for lwps, so that it goes on beside it; the
comment before it says that all threads are dead, and NetBSD's kernel asserts that one lwp is left
(`ExecOneLwp`). What does hold is `ExecAlone`: no worker is in the process then, and none can enter it.

Three disagreements were met that have no run of their own; the modules have the code's behaviour, and
the properties leave these cases out by name:
- A downgraded lock keeps its owner and gets `v = -1` (thread.c:794-800): readers are kept out of what
  `rumpuser(3)` calls a shared lock until it is exited, and from then on `v` counts wrongly.
  `HoldersCounted` speaks of locks that were never downgraded.
- `realloc` computes the size of a block in an `int` (malloc.c:459); for a block of 2 GiB it is
  negative, taken for more than any request, and the block is not replaced. `MCMalloc.cfg` keeps that
  block out of reach; with `INTBITS = 6` in its place TLC finds `LiveFits` violated, and `BlocksFitInt`
  is the hypothesis of the theorem that excludes it.
- The disk that is mounted as the root is the one that was added last, not that of the root's
  descriptor (fdinit.c:378-390), though :490 says "find rootfs fd and make it mounted". `RootIsRootfs`
  excepts the command lines with `DiskFollows`; without the exception TLC finds it violated.

## 6. Proofs

TLC checks the instances above; the proofs hold for every finite set of threads or workers, every
set of mutexes and cvs, any number of slots, any sizes of pages, headers and memory, any command
line, and all bounds. They rest on the named assumptions of the modules, those of Malloc also on two
hypotheses that the theorems state:
- Scheduler: threads are finite, there is one at least, and NoThread is none; delays are within the
  clock's bound; receive threads are threads.
- Threads: the first thread is no receive thread, and the CPU's queue is a queue.
- Locks: the queues are those of mutexes and cvs, spin mutexes are mutexes.
- RwLock: there are two queues, and they are told apart from the labels of `pc`.
- WorkPool: workers are finite, and one is kept idle at least (`rumpsp_idleworker`).
- Sysproxy: the table has room for a client beside the listening socket, the poll loop is no
  worker, no worker is called like the two other kinds of lwps, and jobs are system calls and execs of
  slots.
- Malloc: header, smallest alignment and page are powers of two that a `size_t` holds, neither the
  header nor the smallest block is larger than a page, nor the smallest alignment than the smallest
  block, and an `int` is no wider than a `size_t`.
- Devices: every descriptor has its place in the table, which neither program tests; no mount point
  is called like the missing one. The proofs do not use it: it is for the model's own indices.

`NoWrap` says that no request has a size that wraps when header and padding are added, and
`BlocksFitInt` that no block is too large for `realloc`'s `1 << n`, an `int`. malloc.c tests neither, so
that they are conditions on its use and not facts about it: they are hypotheses of the theorems and
not assumptions of the module. Without the first `LiveFits` is false, since a sum that wraps gets a
small block; without the second too (section 5). Both hold of `MCMalloc.cfg`.
`HeapAlwaysPartition` needs the first only.

In each module an inductive invariant strengthens what the run checks; its parts were checked
with TLC as invariants of the run's instance (that of `malloc` with two blocks in use and bounded
quantifiers). There is one lemma per action and theorems that draw the consequences.

**LocksProofs.** The inductive invariant `Inv` of Locks adds to the properties
- `OwnerAgrees`: a caller's entries are `v` if it is the owner and 0 otherwise, and there is no owner
  exactly when `v` is 0. `Exclusion` follows, while `Exclusion` alone does not survive an exit.
- `ArgsKnown`: who waits knows its mutex and cv.
- `CpuFollowsCurrent`: the CPU is held by the current thread exactly while it is in the kernel.
  It makes every hand-over of the CPU succeed.
- `SpinHeldByCurrent`: a held spin mutex belongs to the current thread. It makes
  `mutex_enter_nowrap` succeed on spin mutexes.
- `NwaitersCounts` is needed even for the type of `nwaiters`, which a return decrements.

Four lemmas carry the repetitive parts: `QueuesKept` and
`QueueChanged` (a step that links and unlinks exactly whom it puts on and takes off `onlist`
keeps the queues sound), `TakerKept` and `NwaitersKept`. The interesting case of
`FreeMutexHasTaker` is the last exit: the queue was sound, so the thread it wakes really waits
for this mutex and is the taker. SchedulerProofs has the facts about queues they rest on: what
Append, RemoveAt and Tail do to the set of threads on a queue without duplicates.

**MonitorProofs.** `LocksImplementMonitor` is the refinement. Each action of Locks has a lemma that
names its step of Monitor: taking a mutex at once or after a wait is `Lock`; an exit is
`Unlock`; going to sleep in `cv_wait` is `Wait`, which releases the mutex in the same step; a
return is `Return` or, when `mutex_enter_nowrap` aborts, `Stop`; a poll that wakes cv waiters,
or an iteration of `schedule()` that finds the time of one come, is `Interrupt`. Entering a queue of
a mutex, a lost race for it, sleeping and the clock are stutters.
`RefInv` adds two facts to `Inv`: a runnable thread has no wakeup time (`WokenIsUntimed`), so that a
waiter is timed or interrupted but not both; and nobody schedules after `abort()`.

**RwLockProofs.** `FreeRwHasTaker` is not inductive: it does not say which kind of thread was woken,
and a woken reader that finds a writer on the queue goes back to sleep. `WriterTakes` says it:
while there is no owner, who is still on a queue is there behind a woken writer. `WaitersOut`: who
waits holds nothing. `Accounts` bounds the distance between `rw_v` and the number of holders
whatever downgrades and upgrades do, which the type of `rw_v` needs; without a downgrade
`HoldersCounted` makes it exact.

**ThreadsProofs.** The parts of `Inv`: `RunSound` (only the current thread is outside `schedule()`, and
it is on the list), `CpuInKernel` and `CpuQueueSound` (who holds and who waits for the CPU),
`JoinSound` (a joiner wants one thread that nobody else wants and that still has MUSTJOIN),
`Stays` (who never exits), and `Wakers`, which is `BlockedHasWaker` by the place where a thread is
blocked. `ThNoUseAfterFree` needs all of them but the last: a freed thread is not in mustjoin, so
nobody wants it; it does not wait for the CPU, so it is on no queue. `ThReadyMovesUp` is an action
property: from the list without duplicates, lemmas about the place of a thread after the
rotation, after an exit's removal and after a creation's append.

**SysproxyProofs.** In the pool `CountersTrue` and `NoIdlerBesideWork` are inductive
together: the rule by which `schedulework` wakes is only right because the counters it compares
are. The steps of Sysproxy move the pool by its own actions or leave it alone, and the lemmas
carry over. The invariant `IInv` of Sysproxy says where a thread may be and with what goal
(`Places`, `Goals`, `ServerAt`), how a client's state follows its connection (`Lives`), that who
closes a client is alone with it (`ClosesAlone`), what an unused slot holds (`EmptyClean`), that
requests are linked exactly as long as their asker is there (`RespOwned`), that the send lock
has a sender and a connected client one at most (`SendLocked`), that an exec is in one place at a
time and marked there (`ExecOnce`, `ExecMarked`), and what `nfds` counts between a close and the
poll loop's next round (`NfdsCounts`). Nearly every step concerns one slot. `InvBySlots` splits
`IInv` into a part per slot and a part of the loop, and `LocalKeepsInv` reduces a step to the slot
it touches. `MainLwpExclusive` is not a part of `IInv` but follows from it: `ClosesAlone` and
`ExecMarked` keep the three users apart.
The lwps have an invariant of their own, `LwpInv`, which `IInv` does not need: a worker with an lwp in
a client's process is in a system call of that client (`InKernel`), and none has one in the process of
a connected client whose exec goes on. When it begins to, `TwoRefsAlone` gives the second from the
first: with two references left, the connection and the exec account for both, so that no other worker
works for the client. Later, `Start` is the one step that could break it, and `ExecMarked` says
that the process drains, which makes `Start` fail. `ExecAlone` follows, failed sends included, since
an lwp that is lost is no worker's.

**MallocProofs.** It begins with what the arithmetic needs: that powers of two grow with their
exponent, that the smaller of two divides the larger, what rounding up to one gives. The inductions
are by the least number that is not in a set (`Induction`), since the library's schemes with an operator as
a parameter cannot be used here. The invariant `HeapOK` speaks of free lists, pages and pointers as
arguments, so that the same lemmas serve allocation, `free` and the two halves of `realloc`. It says
that blocks are multiples of their size (of a page, when they are larger) and that the free ones and
those in use are together a partition of the mapped bytes (`Parts`, with a lemma each for a block that
changes sides and for new memory). Its delicate part is that a block in use can be found from its
pointer: `free` goes back by a word of the header, so that two blocks with the same pointer, or a
padding that reached the next block, would break the partition. `PadBound` keeps the header inside
the block for every alignment, also above a page, which is where `NoWrap` enters: the bucket was
chosen for the sum. The pointers of two blocks then differ, since the bytes before them do. `CutIs` and
`CutsPartition` say that `morecore` cuts what mmap returns into equal blocks without rest. `Fits` is added for
`LiveAlwaysFits`: `realloc` keeps a block if the new size fits by its own computation (`Room`), which
agrees with the size of the block under `BlocksFitInt`. `ReallocAlwaysKeeps` is an action property and
follows from `Fits` of the old block.

**DevicesProofs.** `DevicesOnce` speaks of the end only; the invariant says what holds after each turn of
the two loops. `EnvironOK`: of the arguments that `fdinfo_setenv` has handled, each has a variable of
its name, a name has one variable at most, and what it holds is the last argument so far of that name
(`IsListed`) or the socket of `open_9pfs` (`Is9pfs`). `OrderOK`: variables are in the order in which their
names were first used, which is what `setenv` on a name that is there does not change. `AddedOK`: the
devices are those of the variables before the cursor, in the same order. `FirstIsOther` is the point of
`uuid()`: the cursor stays once where it began (`CursorsOK`), and that is harmless because the first
variable is no descriptor. `EnvFds` (no two variables hold one descriptor) makes devices distinct.
For `RootIsRootfs`, a disk behind the root's device has a variable behind the root's, whose first use
is later than a rootfs argument (`FirstOf` picks it as the least): then `DiskFollows`.

Left to TLC: the six liveness properties (fairness and ENABLED are out of the prover's
reach). The five violations are counterexamples and have nothing to prove.

## 7. Not modelled

Nearly all of the repository's lines are vendored (NetBSD's kernel and libraries under `src/`,
`buildrump/`, LLVM's runtimes, musl and Linux as submodules): they are not this program's logic, and
where its behaviour depends on them they are modelled from their use (the rump kernel's CPU,
the lwps under the sysproxy server, `lkl_disk_add`). The share of all lines that the map covers says
nothing about frankenlibc for that reason.

Of frankenlibc's own code: the components without a module in PROJECT.json, for the reasons given
there. In short, context switching is assembly; the platform layer, most hypercalls, libtc and the
stub libc are single calls without state; libvirtif's part that is not the receive thread's
wakeup belongs to NetBSD's network stack, and is built for its kernel only; `rumpuser_bio`
is sequential, and what is wrong with it can be read off its lines.

Of the modelled components: `init` and `destroy` of locks, queries, recursion of the big lock,
exhaustion of memory (`create_thread` then changes nothing), host signals; the sysproxy server's
shutdown, its signals to clients, the contents and partial reads of frames, and the list
`spc_pflist` of a client's preforks: they are linked to it and unlinked, but looked up in the list of
all preforks, and nothing goes through it. (The `memset` of a disconnect clears its head while
preforks are still linked, and unlinking the first of them later writes that field of a slot that may
be another client's by then. What is written is always NULL or a prefork that exists, and nobody
reads it.) Further the contents of
memory in Malloc; standard descriptors, the filters and privileges of rexec, and the
registration of devices with NetBSD's kernel.
