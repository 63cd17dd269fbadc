-------------------------------- MODULE Locks --------------------------------
(***************************************************************************)
(* The mutexes and condition variables of franken/thread/thread.c, used by *)
(* rump kernel threads: mutex_enter, mutex_enter_nowrap, mutex_tryenter,   *)
(* mutex_exit, cv_wait, cv_timedwait, cv_signal and cv_broadcast, and      *)
(* clock_sleep by a thread that may hold mutexes.                          *)
(*                                                                         *)
(* mtx_v and mtx_o are the fields of struct rumpuser_mtx.  held is not in  *)
(* the code: it is what the callers were told, the number of times each    *)
(* entered a mutex that it has not exited.  Every thread in the rump       *)
(* kernel has an lwp of its own, so a thread stands for its lwp.           *)
(***************************************************************************)
EXTENDS Scheduler

CONSTANTS
    Mutex,      \* every struct rumpuser_mtx
    Spin,       \* those initialised with RUMPUSER_MTX_SPIN
    Cv,         \* every struct rumpuser_cv
    None,       \* no mutex, no cv
    MaxDepth    \* bound on recursive entries of one mutex

ASSUME WaitheadAssumption == Waithead = Mutex \cup Cv /\ Mutex \cap Cv = {}
ASSUME SpinAssumption     == Spin \subseteq Mutex
ASSUME NoneAssumption     == None \notin Waithead
ASSUME DepthAssumption    == MaxDepth \in Nat \ {0}

VARIABLES
    pc,         \* "start", "run", or the operation whose schedule() t is in
    mtxarg,     \* the mutex that operation is about
    cvarg,      \* and the cv
    vcpu,       \* the thread that holds the rump kernel CPU
    mtx_v, mtx_o,
    nwaiters,   \* cv->nwaiters
    held,       \* held[t][m]: entries of m by t, as t counts them
    aborted     \* the mutex that mutex_enter_nowrap() aborted on

lockVars == <<mtx_v, mtx_o, nwaiters, held>>
vars == <<schedVars, pc, mtxarg, cvarg, vcpu, lockVars, aborted>>

-----------------------------------------------------------------------------

Init ==
    /\ \E list \in SetToSeqs(Thread) :
        thread_list = list /\ current_thread = Head(list)
    /\ runnable = Thread
    /\ wakeup_time = [t \in Thread |-> NotSleeping]
    /\ scheduling = FALSE
    /\ waitq = [w \in Waithead |-> <<>>]
    /\ onlist = {}
    /\ clock = 0
    /\ pc = [t \in Thread |-> "start"]
    /\ mtxarg = [t \in Thread |-> None]
    /\ cvarg = [t \in Thread |-> None]
    /\ vcpu = NoThread
    /\ mtx_v = [m \in Mutex |-> 0]
    /\ mtx_o = [m \in Mutex |-> NoThread]
    /\ nwaiters = [c \in Cv |-> 0]
    /\ held = [t \in Thread |-> [m \in Mutex |-> 0]]
    /\ aborted = None

(* t runs and the process has not aborted. *)
Alive(t) == Running(t) /\ aborted = None

(* t executes rump kernel code and may make a hypercall. *)
InKernel(t) == Alive(t) /\ pc[t] = "run"

(* What the rump kernel never does: block with a spin mutex in hand, the
   interlock m of a cv_wait excepted. *)
MayBlock(t, m) ==
    /\ \A s \in Spin \ {m} : held[t][s] = 0
    /\ m \in Spin => held[t][m] <= 1

(* rumpkern_unsched() and rumpkern_sched(): give up the one rump kernel CPU,
   and take it back.  It is free then (CpuFreeInSchedule), so that nobody
   waits for it. *)
KeepCpu == UNCHANGED vcpu                       \* mutant of Unsched
Unsched == vcpu' = NoThread
Sched(t) == vcpu = NoThread /\ vcpu' = t

(* hyp_backend_schedule() on a thread's first entry and after clock_sleep(). *)
TakeCpu(t) ==
    /\ Alive(t) /\ pc[t] \in {"start", "sleep"}
    /\ Sched(t)
    /\ pc' = [pc EXCEPT ![t] = "run"]
    /\ UNCHANGED <<schedVars, mtxarg, cvarg, lockVars, aborted>>

(* clock_sleep() *)
Sleep(t, d) ==
    /\ InKernel(t) /\ MayBlock(t, None)
    /\ clock + d <= MaxTime
    /\ Unsched
    /\ pc' = [pc EXCEPT ![t] = "sleep"]
    /\ WakeThenSleep({}, t, Deadline(d))
    /\ UNCHANGED <<thread_list, current_thread, waitq, onlist, clock, mtxarg, cvarg,
                   lockVars, aborted>>

-----------------------------------------------------------------------------

(* The test of mutex_tryenter(). *)
CanEnterFree(t, m) == TRUE                      \* mutant of CanEnter
CanEnter(t, m) == mtx_v[m] = 0 \/ mtx_o[m] = t

(* mutex_tryenter() returns 0. *)
Enter(t, m) ==
    /\ CanEnter(t, m)
    /\ mtx_v' = [mtx_v EXCEPT ![m] = @ + 1]
    /\ mtx_o' = [mtx_o EXCEPT ![m] = t]
    /\ held' = [held EXCEPT ![t][m] = @ + 1]

(* Whom mutex_exit() wakes: the first waiter, when the last entry ends. *)
NobodyWoken(m) == {}                            \* mutant of WokenByExit
WokenByExit(m) == IF mtx_v[m] = 1 THEN FirstOf(waitq[m]) ELSE {}

(* mutex_exit(), without the wake(): the queues are left to the caller. *)
ExitKeepsV(t, m) ==                             \* mutant of Exit
    /\ held' = [held EXCEPT ![t][m] = @ - 1]
    /\ UNCHANGED <<mtx_v, mtx_o>>
Exit(t, m) ==
    /\ mtx_v' = [mtx_v EXCEPT ![m] = @ - 1]
    /\ mtx_o' = IF mtx_v[m] = 1 THEN [mtx_o EXCEPT ![m] = NoThread] ELSE mtx_o
    /\ held' = [held EXCEPT ![t][m] = @ - 1]

QueueAfterExit(m) == IF mtx_v[m] = 1 THEN RestOf(waitq[m]) ELSE waitq[m]

(* mutex_enter(), mutex_tryenter() or mutex_enter_nowrap() succeeds at once. *)
MutexEnter(t, m) ==
    /\ InKernel(t)
    /\ held[t][m] < MaxDepth
    /\ Enter(t, m)
    /\ UNCHANGED <<schedVars, pc, mtxarg, cvarg, vcpu, nwaiters, aborted>>

(* mutex_enter() must wait: it gives up the CPU, tries again (nobody ran in
   between) and waits on the queue of the mutex. *)
MutexBlock(t, m) ==
    /\ InKernel(t) /\ MayBlock(t, None)
    /\ ~CanEnter(t, m)
    /\ Unsched
    /\ pc' = [pc EXCEPT ![t] = "mutex"]
    /\ mtxarg' = [mtxarg EXCEPT ![t] = m]
    /\ waitq' = [waitq EXCEPT ![m] = Append(@, t)]
    /\ onlist' = onlist \cup {t}
    /\ WakeThenSleep({}, t, NotSleeping)
    /\ UNCHANGED <<thread_list, current_thread, clock, cvarg, lockVars, aborted>>

(* The queue after wait() returned: a thread that was not taken off it by a
   wakeup takes itself off. *)
WaitLeft(t, w) == IF t \in onlist THEN Unlink(waitq[w], t) ELSE waitq[w]

(* mutex_enter() after a wait: the mutex is there ... *)
MutexWon(t) ==
    LET m == mtxarg[t]
    IN  /\ Alive(t) /\ pc[t] = "mutex"
        /\ Enter(t, m)
        /\ Sched(t)
        /\ pc' = [pc EXCEPT ![t] = "run"]
        /\ mtxarg' = [mtxarg EXCEPT ![t] = None]
        /\ waitq' = [waitq EXCEPT ![m] = WaitLeft(t, m)]
        /\ onlist' = onlist \ {t}
        /\ UNCHANGED <<thread_list, current_thread, runnable, wakeup_time, scheduling,
                       clock, cvarg, nwaiters, aborted>>

(* ... or someone else took it first: wait again, at the end of the queue. *)
MutexLost(t) ==
    LET m == mtxarg[t]
    IN  /\ Alive(t) /\ pc[t] = "mutex"
        /\ ~CanEnter(t, m)
        /\ waitq' = [waitq EXCEPT ![m] = Append(WaitLeft(t, m), t)]
        /\ onlist' = onlist \cup {t}
        /\ WakeThenSleep({}, t, NotSleeping)
        /\ UNCHANGED <<thread_list, current_thread, clock, pc, mtxarg, cvarg, vcpu,
                       lockVars, aborted>>

(* mutex_exit(), called once for each entry. *)
MutexExit(t, m) ==
    /\ InKernel(t)
    /\ held[t][m] > 0
    /\ Exit(t, m)
    /\ waitq' = [waitq EXCEPT ![m] = QueueAfterExit(m)]
    /\ onlist' = onlist \ WokenByExit(m)
    /\ Wake(WokenByExit(m))
    /\ UNCHANGED <<thread_list, current_thread, scheduling, clock, pc, mtxarg, cvarg,
                   vcpu, nwaiters, aborted>>

-----------------------------------------------------------------------------

(* cv->nwaiters++ and cv->nwaiters-- *)
CountIn(c) == nwaiters' = [nwaiters EXCEPT ![c] = @ + 1]
NoCountOut(c) == UNCHANGED nwaiters             \* mutant of CountOut
CountOut(c) == nwaiters' = [nwaiters EXCEPT ![c] = @ - 1]

(* cv_wait() (nsec = -1) and cv_timedwait(): count the waiter, give up the
   CPU and the mutex, and wait on the queue of the cv. *)
CvWait(t, c, m, nsec) ==
    /\ InKernel(t) /\ MayBlock(t, m)
    /\ held[t][m] > 0
    /\ nsec # NotSleeping => nsec # 0 /\ clock + nsec <= MaxTime
    /\ CountIn(c)
    /\ Unsched
    /\ Exit(t, m)
    /\ waitq' = [waitq EXCEPT ![m] = QueueAfterExit(m), ![c] = Append(@, t)]
    /\ onlist' = (onlist \ WokenByExit(m)) \cup {t}
    /\ WakeThenSleep(WokenByExit(m), t, Deadline(nsec))
    /\ pc' = [pc EXCEPT ![t] = "cv"]
    /\ mtxarg' = [mtxarg EXCEPT ![t] = m]
    /\ cvarg' = [cvarg EXCEPT ![t] = c]
    /\ UNCHANGED <<thread_list, current_thread, clock, aborted>>

(* cv_resched() after the wait: the mutex is entered without waiting, and the
   CPU taken.  The result is ETIMEDOUT if t was still on the queue. *)
CvReturn(t) ==
    LET m == mtxarg[t]
        c == cvarg[t]
    IN  /\ Alive(t) /\ pc[t] = "cv"
        /\ Enter(t, m)
        /\ Sched(t)
        /\ pc' = [pc EXCEPT ![t] = "run"]
        /\ mtxarg' = [mtxarg EXCEPT ![t] = None]
        /\ cvarg' = [cvarg EXCEPT ![t] = None]
        /\ CountOut(c)
        /\ waitq' = [waitq EXCEPT ![c] = WaitLeft(t, c)]
        /\ onlist' = onlist \ {t}
        /\ UNCHANGED <<thread_list, current_thread, runnable, wakeup_time, scheduling,
                       clock, aborted>>

(* cv_resched() finds the mutex taken: mutex_enter_nowrap() aborts. *)
CvReturnAborts(t) ==
    /\ Alive(t) /\ pc[t] = "cv"
    /\ ~CanEnter(t, mtxarg[t])
    /\ aborted' = mtxarg[t]
    /\ waitq' = [waitq EXCEPT ![cvarg[t]] = WaitLeft(t, cvarg[t])]
    /\ onlist' = onlist \ {t}
    /\ UNCHANGED <<thread_list, current_thread, runnable, wakeup_time, scheduling, clock,
                   pc, mtxarg, cvarg, vcpu, lockVars>>

(* Whom cv_signal() wakes. *)
SignalNobody(c) == {}                           \* mutant of WokenBySignal
WokenBySignal(c) == FirstOf(waitq[c])

CvSignal(t, c) ==
    /\ InKernel(t)
    /\ waitq' = [waitq EXCEPT ![c] = RestOf(@)]
    /\ onlist' = onlist \ WokenBySignal(c)
    /\ Wake(WokenBySignal(c))
    /\ UNCHANGED <<thread_list, current_thread, scheduling, clock, pc, mtxarg, cvarg,
                   vcpu, lockVars, aborted>>

CvBroadcast(t, c) ==
    /\ InKernel(t)
    /\ waitq' = [waitq EXCEPT ![c] = <<>>]
    /\ onlist' = onlist \ ToSet(waitq[c])
    /\ Wake(ToSet(waitq[c]))
    /\ UNCHANGED <<thread_list, current_thread, scheduling, clock, pc, mtxarg, cvarg,
                   vcpu, lockVars, aborted>>

-----------------------------------------------------------------------------

Schedule ==
    \E i \in DOMAIN thread_list :
        SwitchTo(i) /\ UNCHANGED <<pc, mtxarg, cvarg, vcpu, lockVars, aborted>>

PollFds ==
    \E W \in SUBSET FdThread :
        Poll(W) /\ UNCHANGED <<pc, mtxarg, cvarg, vcpu, lockVars, aborted>>

ClockTick == Tick /\ UNCHANGED <<pc, mtxarg, cvarg, vcpu, lockVars, aborted>>

Next ==
    \/ Schedule
    \/ PollFds
    \/ ClockTick
    \/ \E t \in Thread :
        \/ TakeCpu(t) \/ MutexWon(t) \/ MutexLost(t) \/ CvReturn(t) \/ CvReturnAborts(t)
        \/ \E d \in Delay : Sleep(t, d)
        \/ \E m \in Mutex : MutexEnter(t, m) \/ MutexBlock(t, m) \/ MutexExit(t, m)
        \/ \E c \in Cv : \/ CvSignal(t, c) \/ CvBroadcast(t, c)
                         \/ \E m \in Mutex, nsec \in Delay \cup {NotSleeping} :
                                CvWait(t, c, m, nsec)

Spec == Init /\ [][Next]_vars

(* What t does when the schedule() it called returns. *)
Resume(t) == TakeCpu(t) \/ MutexWon(t) \/ MutexLost(t) \/ CvReturn(t) \/ CvReturnAborts(t)

(* Scheduling is cooperative, and one thread runs at a time: whoever runs
   gives way at some point, and does not keep a spin mutex for ever, be it by
   entering it again and again. *)
Fairness ==
    /\ WF_vars(Schedule)
    /\ WF_vars(ClockTick)
    /\ WF_vars(\E t \in Thread : Resume(t))
    /\ WF_vars(\E t \in Thread, m \in Spin : MutexExit(t, m))
    /\ SF_vars(\E t \in Thread, m \in Spin : held[t][m] = 1 /\ MutexExit(t, m))
    /\ SF_vars(\E t \in Thread, d \in Delay : Sleep(t, d))

FairSpec == Spec /\ Fairness

-----------------------------------------------------------------------------

(* The variables hold values of their types. *)
TypeOK ==
    /\ SchedTypeOK
    /\ pc \in [Thread -> {"start", "run", "sleep", "mutex", "cv"}]
    /\ mtxarg \in [Thread -> Mutex \cup {None}]
    /\ cvarg \in [Thread -> Cv \cup {None}]
    /\ vcpu \in Thread \cup {NoThread}
    /\ mtx_v \in [Mutex -> Nat]
    /\ mtx_o \in [Mutex -> Thread \cup {NoThread}]
    /\ nwaiters \in [Cv -> Nat]
    /\ held \in [Thread -> [Mutex -> Nat]]
    /\ aborted \in Mutex \cup {None}

(* At most one thread has entered a mutex and not exited it, and the fields
   of the mutex say who and how often. *)
Exclusion ==
    \A m \in Mutex :
        /\ \A t, u \in Thread : held[t][m] > 0 /\ held[u][m] > 0 => t = u
        /\ \A t \in Thread : held[t][m] > 0 => mtx_o[m] = t /\ mtx_v[m] = held[t][m]

(* The queue that t waits on, if it is in wait(). *)
QueueOf(t) == IF pc[t] = "mutex" THEN mtxarg[t] ELSE IF pc[t] = "cv" THEN cvarg[t] ELSE None

(* A struct waiter is linked where its thread waits and nowhere else, once,
   as long as its onlist says so; a thread taken off a queue is runnable. *)
QueuesSound ==
    /\ \A w \in Waithead :
        /\ IsInjective(waitq[w])
        /\ ToSet(waitq[w]) = {t \in onlist : QueueOf(t) = w}
    /\ \A t \in Thread : QueueOf(t) # None /\ t \notin onlist /\ aborted = None => t \in runnable

(* No wakeup is lost: when a mutex with waiters is free, one of those who
   want it has been woken and will try it. *)
FreeMutexHasTaker ==
    \A m \in Mutex :
        mtx_v[m] = 0 /\ waitq[m] # <<>> =>
            \E t \in runnable : pc[t] = "mutex" /\ mtxarg[t] = m

(* The threads between the entry of cv_wait() and its return. *)
Waiters(c) == {t \in Thread : pc[t] = "cv" /\ cvarg[t] = c}

(* cv_destroy() and cv_has_waiters() rely on nwaiters being the number of
   threads that are in cv_wait() or cv_timedwait() on the cv. *)
NwaitersCounts == \A c \in Cv : nwaiters[c] = Cardinality(Waiters(c))

(* Whoever is in schedule() has given up the rump kernel CPU, so that it is
   free when a thread wants it back. *)
CpuFreeInSchedule ==
    /\ vcpu # NoThread => vcpu = current_thread /\ ~scheduling
    /\ \A t \in Thread : Alive(t) /\ pc[t] # "run" => vcpu = NoThread

(* thread.c:636, for spin mutexes: mutex_enter_nowrap() succeeds whenever a
   thread runs, since nobody blocks with a spin mutex in hand. *)
SpinEnterable == \A t \in Thread, m \in Spin : Alive(t) => CanEnter(t, m)

(* The fields of a mutex agree with the entries its callers count. *)
OwnerAgrees ==
    /\ \A m \in Mutex : mtx_o[m] = NoThread <=> mtx_v[m] = 0
    /\ \A t \in Thread, m \in Mutex : held[t][m] = IF mtx_o[m] = t THEN mtx_v[m] ELSE 0

(* A thread in wait() knows the mutex and the cv it is there for. *)
ArgsKnown ==
    \A t \in Thread : /\ pc[t] \in {"mutex", "cv"} => mtxarg[t] \in Mutex
                      /\ pc[t] = "cv" => cvarg[t] \in Cv

(* The CPU is held by the current thread exactly while it is in the kernel,
   and no other thread is. *)
CpuFollowsCurrent ==
    /\ \A t \in Thread : pc[t] = "run" => t = current_thread /\ ~scheduling
    /\ vcpu = IF pc[current_thread] = "run" THEN current_thread ELSE NoThread
    /\ ~scheduling => current_thread \in runnable

(* A spin mutex is held by the current thread, in the kernel, or by nobody. *)
SpinHeldByCurrent ==
    \A m \in Spin : mtx_v[m] > 0 => mtx_o[m] = current_thread /\ pc[current_thread] = "run"

(* The invariant that the proofs of LocksProofs are by induction on. *)
Inv ==
    /\ TypeOK
    /\ OwnerAgrees
    /\ ArgsKnown
    /\ QueuesSound
    /\ NwaitersCounts
    /\ CpuFollowsCurrent
    /\ SpinHeldByCurrent
    /\ FreeMutexHasTaker

(* The monitor that a caller of the hypercalls sees. *)
Mon == INSTANCE Monitor WITH
    owner       <- mtx_o,
    depth       <- mtx_v,
    waiting     <- [c \in Cv |-> waitq[c]],
    wants       <- [t \in Thread |-> IF pc[t] = "cv" THEN mtxarg[t] ELSE None],
    timed       <- {t \in onlist : pc[t] = "cv" /\ wakeup_time[t] # NotSleeping},
    interrupted <- {t \in onlist : pc[t] = "cv" /\ t \in runnable},
    stopped     <- aborted # None

(* Locks implements Monitor: nothing that the scheduler, the CPU and the
   queues do is visible except as a step of the monitor.  In particular
   cv_wait() gives up the mutex and waits in one step, and a signal is not
   lost on a thread whose timeout has just expired. *)
ImplementsMonitor == Mon!Spec

(* thread.c:636, for every mutex: "one VCPU supported, no preemption => must
   succeed". *)
NowrapSucceeds == aborted = None

(* A free mutex does not leave those who want it waiting: it is taken, or
   everyone who wants it has had it. *)
MutexIsTaken ==
    \A m \in Mutex :
        LET wanted == \E t \in Thread : pc[t] = "mutex" /\ mtxarg[t] = m
        IN  (mtx_v[m] = 0 /\ wanted) ~> (mtx_v[m] > 0 \/ ~wanted \/ aborted # None)

(* cv_timedwait() returns (or, in cv_resched(), aborts). *)
TimedWaitEnds ==
    \A t \in Thread :
        (pc[t] = "cv" /\ wakeup_time[t] # NotSleeping) ~> (pc[t] # "cv" \/ aborted # None)
=============================================================================
