------------------------------- MODULE RwLock --------------------------------
(***************************************************************************)
(* The read/write lock of franken/thread/thread.c: rw_enter, rw_tryenter,  *)
(* rw_exit, rw_downgrade and rw_tryupgrade on one struct rumpuser_rw, by   *)
(* rump kernel threads that may sleep while they hold it.                  *)
(*                                                                         *)
(* rw_v and rw_o are fields of the struct, its two wait queues the         *)
(* waitheads rwait and wwait.  mode and downgraded are not in the code:    *)
(* what each caller was told it has, and whether the lock has ever been    *)
(* downgraded.  A thread stands for its lwp.                               *)
(***************************************************************************)
EXTENDS Scheduler

CONSTANTS rwait, wwait   \* the queues of readers and of writers

ASSUME RwQueuesAssumption ==
    /\ rwait # wwait /\ Waithead = {rwait, wwait}
    /\ Waithead \cap {"start", "run", "sleep"} = {}

VARIABLES
    pc,         \* "start", "run", "sleep", or the queue that t waits on
    vcpu,       \* the thread that holds the rump kernel CPU
    rw_v, rw_o,
    mode,       \* "none", "shared" or "exclusive", as t was told
    downgraded, \* rw_downgrade() has been called
    aborted     \* an assert() of thread.c failed

rwVars == <<rw_v, rw_o, mode, downgraded>>
vars == <<schedVars, pc, vcpu, rwVars, aborted>>

-----------------------------------------------------------------------------

Init ==
    /\ \E list \in SetToSeqs(Thread) :
        thread_list = list /\ current_thread = Head(list)
    /\ runnable = Thread
    /\ wakeup_time = [t \in Thread |-> NotSleeping]
    /\ scheduling = FALSE
    /\ waitq = [w \in Waithead |-> <<>>]
    /\ onlist = {}
    /\ clock = 0
    /\ pc = [t \in Thread |-> "start"]
    /\ vcpu = NoThread
    /\ rw_v = 0
    /\ rw_o = NoThread
    /\ mode = [t \in Thread |-> "none"]
    /\ downgraded = FALSE
    /\ aborted = FALSE

Alive(t) == Running(t) /\ ~aborted
InKernel(t) == Alive(t) /\ pc[t] = "run"

(* rumpkern_unsched() and rumpkern_sched() *)
Unsched == vcpu' = NoThread
Sched(t) == vcpu = NoThread /\ vcpu' = t

(* A thread's first entry into the kernel, and the end of clock_sleep(). *)
TakeCpu(t) ==
    /\ Alive(t) /\ pc[t] \in {"start", "sleep"}
    /\ Sched(t)
    /\ pc' = [pc EXCEPT ![t] = "run"]
    /\ UNCHANGED <<schedVars, rwVars, aborted>>

(* clock_sleep() *)
Sleep(t, d) ==
    /\ InKernel(t)
    /\ clock + d <= MaxTime
    /\ Unsched
    /\ pc' = [pc EXCEPT ![t] = "sleep"]
    /\ WakeThenSleep({}, t, Deadline(d))
    /\ UNCHANGED <<thread_list, current_thread, waitq, onlist, clock, rwVars, aborted>>

-----------------------------------------------------------------------------

(* The test of rw_tryenter(), by the queue that rw_enter() would wait on.  A
   writer asks for no other writer, a reader also for no waiting writer. *)
CanEnter(w) == rw_o = NoThread /\ (w = rwait => waitq[wwait] = <<>>)

(* rw_tryenter() returns 0. *)
Enter(t, w) ==
    /\ CanEnter(w)
    /\ rw_o' = IF w = wwait THEN t ELSE rw_o
    /\ rw_v' = IF w = rwait THEN rw_v + 1 ELSE rw_v
    /\ mode' = [mode EXCEPT ![t] = IF w = wwait THEN "exclusive" ELSE "shared"]
    /\ UNCHANGED downgraded

(* rw_enter() or rw_tryenter() succeeds at once.  Nobody enters the lock
   twice (rwlock(9)). *)
RwEnter(t, w) ==
    /\ InKernel(t) /\ mode[t] = "none"
    /\ Enter(t, w)
    /\ UNCHANGED <<schedVars, pc, vcpu, aborted>>

(* rw_enter() must wait. *)
RwBlock(t, w) ==
    /\ InKernel(t) /\ mode[t] = "none"
    /\ ~CanEnter(w)
    /\ Unsched
    /\ pc' = [pc EXCEPT ![t] = w]
    /\ waitq' = [waitq EXCEPT ![w] = Append(@, t)]
    /\ onlist' = onlist \cup {t}
    /\ WakeThenSleep({}, t, NotSleeping)
    /\ UNCHANGED <<thread_list, current_thread, clock, rwVars, aborted>>

(* The queue after wait() returned to t. *)
WaitLeft(t, w) == IF t \in onlist THEN Unlink(waitq[w], t) ELSE waitq[w]

(* rw_enter() after a wait: the lock is there ... *)
RwWon(t, w) ==
    /\ Alive(t) /\ pc[t] = w
    /\ Enter(t, w)
    /\ Sched(t)
    /\ pc' = [pc EXCEPT ![t] = "run"]
    /\ waitq' = [waitq EXCEPT ![w] = WaitLeft(t, w)]
    /\ onlist' = onlist \ {t}
    /\ UNCHANGED <<thread_list, current_thread, runnable, wakeup_time, scheduling, clock,
                   aborted>>

(* ... or it is not: wait again, at the end of the queue. *)
RwLost(t, w) ==
    /\ Alive(t) /\ pc[t] = w
    /\ ~CanEnter(w)
    /\ waitq' = [waitq EXCEPT ![w] = Append(WaitLeft(t, w), t)]
    /\ onlist' = onlist \cup {t}
    /\ WakeThenSleep({}, t, NotSleeping)
    /\ UNCHANGED <<thread_list, current_thread, clock, pc, vcpu, rwVars, aborted>>

-----------------------------------------------------------------------------

(* Whom rw_exit() wakes: a writer if one waits, otherwise every reader. *)
WritersOnly == FirstOf(waitq[wwait])                    \* mutant of WokenByExit
WokenByExit ==
    IF waitq[wwait] # <<>> THEN FirstOf(waitq[wwait]) ELSE ToSet(waitq[rwait])

QueuesAfterExit ==
    IF waitq[wwait] # <<>>
    THEN [waitq EXCEPT ![wwait] = RestOf(@)]
    ELSE [waitq EXCEPT ![rwait] = <<>>]

(* rw_exit() gives back the exclusive lock if there is an owner, whoever
   calls it, and a share of the lock otherwise. *)
GiveUpShare ==                                          \* mutant of GiveUp
    rw_o' = NoThread /\ rw_v' = rw_v - 1
GiveUp ==
    /\ rw_o' = NoThread
    /\ rw_v' = IF rw_o = NoThread THEN rw_v - 1 ELSE rw_v

RwExit(t) ==
    /\ InKernel(t) /\ mode[t] # "none"
    /\ GiveUp
    /\ mode' = [mode EXCEPT ![t] = "none"]
    /\ waitq' = QueuesAfterExit
    /\ onlist' = onlist \ WokenByExit
    /\ Wake(WokenByExit)
    /\ UNCHANGED <<thread_list, current_thread, scheduling, clock, pc, vcpu, downgraded, aborted>>

(* rw_downgrade() asserts that the caller is the owner. *)
RwDowngrade(t) ==
    /\ InKernel(t) /\ mode[t] = "exclusive"
    /\ \/ /\ rw_o = t
          /\ rw_v' = -1
          /\ mode' = [mode EXCEPT ![t] = "shared"]
          /\ downgraded' = TRUE
          /\ UNCHANGED aborted
       \/ /\ rw_o # t
          /\ aborted' = TRUE
          /\ UNCHANGED <<rw_v, mode, downgraded>>
    /\ UNCHANGED <<schedVars, pc, vcpu, rw_o>>

(* rw_tryupgrade() returns 0; with EBUSY it changes nothing. *)
RwTryupgrade(t) ==
    /\ InKernel(t) /\ mode[t] = "shared"
    /\ rw_v = -1
    /\ rw_v' = 1
    /\ rw_o' = t
    /\ mode' = [mode EXCEPT ![t] = "exclusive"]
    /\ UNCHANGED <<schedVars, pc, vcpu, downgraded, aborted>>

-----------------------------------------------------------------------------

Schedule ==
    \E i \in DOMAIN thread_list :
        SwitchTo(i) /\ UNCHANGED <<pc, vcpu, rwVars, aborted>>

PollFds ==
    \E W \in SUBSET FdThread :
        Poll(W) /\ UNCHANGED <<pc, vcpu, rwVars, aborted>>

ClockTick == Tick /\ UNCHANGED <<pc, vcpu, rwVars, aborted>>

Next ==
    \/ Schedule
    \/ PollFds
    \/ ClockTick
    \/ \E t \in Thread :
        \/ TakeCpu(t) \/ RwExit(t) \/ RwDowngrade(t) \/ RwTryupgrade(t)
        \/ \E d \in Delay : Sleep(t, d)
        \/ \E w \in Waithead :
            RwEnter(t, w) \/ RwBlock(t, w) \/ RwWon(t, w) \/ RwLost(t, w)

Spec == Init /\ [][Next]_vars

(* What t does when the schedule() it called returns. *)
Resume(t) == TakeCpu(t) \/ \E w \in Waithead : RwWon(t, w) \/ RwLost(t, w)

(* Scheduling is cooperative: a thread that keeps running gives way in
   the end. *)
Fairness ==
    /\ WF_vars(Schedule)
    /\ WF_vars(ClockTick)
    /\ \A t \in Thread :
        /\ WF_vars(Resume(t))
        /\ SF_vars(\E d \in Delay : Sleep(t, d))

FairSpec == Spec /\ Fairness

-----------------------------------------------------------------------------

(* The variables hold values of their types; rw_v stays within the number of
   threads of the two values that downgrading and upgrading give it. *)
TypeOK ==
    /\ SchedTypeOK
    /\ pc \in [Thread -> {"start", "run", "sleep", rwait, wwait}]
    /\ vcpu \in Thread \cup {NoThread}
    /\ rw_v \in (-1 - Cardinality(Thread))..(1 + Cardinality(Thread))
    /\ rw_o \in Thread \cup {NoThread}
    /\ mode \in [Thread -> {"none", "shared", "exclusive"}]
    /\ downgraded \in BOOLEAN
    /\ aborted \in BOOLEAN

(* A struct waiter is linked where its thread waits, once, as long as its
   onlist says so; a thread that rw_exit() took off a queue is runnable. *)
QueuesSound ==
    /\ \A w \in Waithead :
        /\ IsInjective(waitq[w])
        /\ ToSet(waitq[w]) = {t \in onlist : pc[t] = w}
    /\ \A t \in Thread : pc[t] \in Waithead /\ t \notin onlist => t \in runnable

(* Nobody is stranded: while the lock has no owner and threads wait for it,
   one of them has been woken and will try it. *)
FreeRwHasTaker ==
    rw_o = NoThread /\ (\E t \in Thread : pc[t] \in Waithead) =>
        \E t \in runnable : pc[t] \in Waithead

(* Without downgrades no entry is forgotten, though rw_exit() does not know
   whose it gives back: the struct accounts for as many holders as there are,
   and is idle when the last one has exited. *)
HoldersCounted ==
    ~downgraded =>
        rw_v + (IF rw_o = NoThread THEN 0 ELSE 1)
            = Cardinality({t \in Thread : mode[t] # "none"})

(* A lock without an owner does not leave those who wait for it waiting: it
   gets an owner again, or everyone who waits gets in. *)
RwIsTaken ==
    (rw_o = NoThread /\ \E t \in Thread : pc[t] \in Waithead)
        ~> (rw_o # NoThread \/ aborted \/ \A t \in Thread : pc[t] \notin Waithead)

(* rumpuser(3): "Read/write locks provide either shared or exclusive
   locking". *)
SharedOrExclusive ==
    \A t, u \in Thread : mode[t] = "exclusive" /\ mode[u] # "none" => t = u
=============================================================================
