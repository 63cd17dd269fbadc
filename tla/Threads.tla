------------------------------- MODULE Threads -------------------------------
(***************************************************************************)
(* The life of a thread of franken/thread/thread.c - create_thread,        *)
(* clock_sleep, join_thread, exit_thread and the reaping of exited threads *)
(* in schedule() - and the one virtual CPU of the rump kernel, which the   *)
(* hypercalls give up (rumpkern_unsched) and take again (rumpkern_sched).  *)
(*                                                                         *)
(* pc[t] says where t is: outside the rump kernel or in it ("run", with    *)
(* vcpu telling which), or in the schedule() of the named operation.       *)
(***************************************************************************)
EXTENDS Scheduler

CONSTANTS
    InitThread,    \* the thread of init_sched(); it runs main() and never exits
    rcpu_cv,       \* the waithead of the cv that threads wait for the CPU on
    JoinContext    \* who calls join_thread: {"kernel"}, {"host"} or both

ASSUME InitThreadAssumption  == InitThread \in Thread \ FdThread
ASSUME CpuAssumption         == rcpu_cv \in Waithead
ASSUME JoinContextAssumption == JoinContext \subseteq {"kernel", "host"}

VARIABLES
    pc,         \* where each thread is
    vcpu,       \* the thread that holds the rump kernel CPU
    mustjoin,   \* flags & THREAD_MUSTJOIN
    joined,     \* flags & THREAD_JOINED
    joinwq,     \* threads with a struct join_waiter on joinwq
    wanted      \* the thread that t is joining

vars == <<schedVars, pc, vcpu, mustjoin, joined, joinwq, wanted>>

PC == {"unborn", "fresh", "run", "sleep", "cpu", "join", "gate", "exited", "freed"}

(* The exited_threads list: off thread_list, memory not yet released. *)
ExitedAndGated == {t \in Thread : pc[t] \in {"gate", "exited"}}   \* mutant of exited_threads
exited_threads == {t \in Thread : pc[t] = "exited"}

-----------------------------------------------------------------------------

(* init_sched(): the host's only thread becomes the first struct thread. *)
Init ==
    /\ thread_list = <<InitThread>>
    /\ current_thread = InitThread
    /\ runnable = {InitThread}
    /\ wakeup_time = [t \in Thread |-> NotSleeping]
    /\ scheduling = FALSE
    /\ waitq = [w \in Waithead |-> <<>>]
    /\ onlist = {}
    /\ clock = 0
    /\ pc = [t \in Thread |-> IF t = InitThread THEN "run" ELSE "unborn"]
    /\ vcpu = NoThread
    /\ mustjoin = {}
    /\ joined = {}
    /\ joinwq = {}
    /\ wanted = [t \in Thread |-> NoThread]

(* create_thread(): the new thread goes to the end of the list, runnable.
   When memory runs out it returns NULL and changes nothing. *)
CreateThread(t, u, joinable) ==
    /\ Running(t) /\ pc[t] = "run"
    /\ pc[u] = "unborn"
    /\ pc' = [pc EXCEPT ![u] = "fresh"]
    /\ mustjoin' = IF joinable THEN mustjoin \cup {u} ELSE mustjoin
    /\ thread_list' = Append(thread_list, u)
    /\ runnable' = runnable \cup {u}
    /\ wakeup_time' = [wakeup_time EXCEPT ![u] = NotSleeping]
    /\ UNCHANGED <<current_thread, scheduling, waitq, onlist, clock, vcpu, joined,
                   joinwq, wanted>>

-----------------------------------------------------------------------------

CpuWaiters == ToSet(waitq[rcpu_cv])

(* The state after wait() has returned to t: a thread that nobody took off
   the queue (its timeout, or a poll, woke it) takes itself off. *)
WaitLeft(t) == IF t \in onlist THEN Unlink(waitq[rcpu_cv], t) ELSE waitq[rcpu_cv]

(* hyp_backend_unschedule(): the CPU becomes free and everyone who waits
   for it is woken (rumpuser_cv_broadcast of rcpu_cv). *)
ReleaseCpu(t) ==
    /\ vcpu = t
    /\ vcpu' = NoThread
    /\ waitq' = [waitq EXCEPT ![rcpu_cv] = <<>>]
    /\ onlist' = onlist \ CpuWaiters

(* rump_unschedule(): t leaves the rump kernel.  Left out: an lwp that is to
   be freed (LW_WEXIT) takes the CPU once more for that, with lwp0. *)
LeaveKernel(t) ==
    /\ Running(t) /\ pc[t] = "run"
    /\ ReleaseCpu(t)
    /\ Wake(CpuWaiters)
    /\ UNCHANGED <<thread_list, current_thread, scheduling, clock, pc, mustjoin, joined,
                   joinwq, wanted>>

(* hyp_backend_schedule() finds the CPU free: when t enters the kernel, at
   the end of clock_sleep(), and after a wait for the CPU. *)
TakeCpu(t) ==
    /\ Running(t) /\ pc[t] \in {"run", "sleep", "cpu"}
    /\ vcpu = NoThread
    /\ vcpu' = t
    /\ pc' = [pc EXCEPT ![t] = "run"]
    /\ waitq' = [waitq EXCEPT ![rcpu_cv] = WaitLeft(t)]
    /\ onlist' = onlist \ {t}
    /\ UNCHANGED <<thread_list, current_thread, runnable, wakeup_time, scheduling, clock,
                   mustjoin, joined, joinwq, wanted>>

(* It finds the CPU busy and waits for it: cv_wait_nowrap() of rcpu_cv.  Nobody
   blocks with rcpu_mtx in hand, so that it is always free here, and rcpu_cv is
   never destroyed: mutex and nwaiters are left out. *)
AwaitCpu(t) ==
    /\ Running(t) /\ pc[t] \in {"run", "sleep", "cpu"}
    /\ vcpu \notin {NoThread, t}
    /\ pc' = [pc EXCEPT ![t] = "cpu"]
    /\ waitq' = [waitq EXCEPT ![rcpu_cv] = Append(WaitLeft(t), t)]
    /\ onlist' = onlist \cup {t}
    /\ WakeThenSleep({}, t, NotSleeping)
    /\ UNCHANGED <<thread_list, current_thread, clock, vcpu, mustjoin, joined, joinwq,
                   wanted>>

-----------------------------------------------------------------------------

(* clock_sleep(): relative on CLOCK_REALTIME (nsleep), absolute on
   CLOCK_MONOTONIC (absnanosleep). *)
ClockSleep(t, tm) ==
    /\ Running(t) /\ pc[t] = "run"
    /\ ReleaseCpu(t)
    /\ WakeThenSleep(CpuWaiters, t, tm)
    /\ pc' = [pc EXCEPT ![t] = "sleep"]
    /\ UNCHANGED <<thread_list, current_thread, clock, mustjoin, joined, joinwq, wanted>>

(* The test of the loop of join_thread(), on entry and after each wait. *)
MayJoin(t, u) ==
    /\ Running(t)
    /\ \/ /\ pc[t] = "run"
          /\ (IF vcpu = t THEN "kernel" ELSE "host") \in JoinContext
          /\ u \in mustjoin \ {t}
          /\ \A j \in Thread : wanted[j] # u
       \/ pc[t] = "join" /\ wanted[t] = u

(* THREAD_JOINED is set: u has come to exit_thread(). *)
IsExiting(u) == u \in joined

(* join_thread() finds that u has not come to exit_thread(): wait. *)
JoinWait(t, u) ==
    /\ MayJoin(t, u)
    /\ ~IsExiting(u)
    /\ joinwq' = joinwq \cup {t}
    /\ wanted' = [wanted EXCEPT ![t] = u]
    /\ pc' = [pc EXCEPT ![t] = "join"]
    /\ WakeThenSleep({}, t, NotSleeping)
    /\ UNCHANGED <<thread_list, current_thread, waitq, onlist, clock, vcpu, mustjoin,
                   joined>>

(* join_thread() finds u in exit_thread(): let it exit, and return. *)
JoinDone(t, u) ==
    /\ MayJoin(t, u)
    /\ IsExiting(u)
    /\ joinwq' = joinwq \ {t}
    /\ wanted' = [wanted EXCEPT ![t] = NoThread]
    /\ mustjoin' = mustjoin \ {u}
    /\ pc' = [pc EXCEPT ![t] = "run"]
    /\ Wake({u})
    /\ UNCHANGED <<thread_list, current_thread, scheduling, waitq, onlist, clock, vcpu,
                   joined>>

(* t is at the loop test of exit_thread().  The rump kernel unschedules
   itself before it calls it; the receive threads never do, they return. *)
InExit(t) ==
    /\ Running(t)
    /\ \/ pc[t] = "run" /\ vcpu # t /\ t \notin FdThread \cup {InitThread}
       \/ pc[t] = "gate"

(* THREAD_MUSTJOIN is set: t may not exit yet. *)
NeverGated(t) == FALSE   \* mutant of MustJoin
MustJoin(t) == t \in mustjoin

(* The join waiter that exit_thread() finds on joinwq, if any. *)
NoJoiner(t) == {}   \* mutant of JoinerOf
JoinerOf(t) == {j \in joinwq : wanted[j] = t}

(* exit_thread() of a thread that must be joined: announce it, wake the
   joiner if it is there, and block until it has seen us. *)
ExitGate(t) ==
    /\ InExit(t)
    /\ MustJoin(t)
    /\ joined' = joined \cup {t}
    /\ pc' = [pc EXCEPT ![t] = "gate"]
    /\ WakeThenSleep(JoinerOf(t), t, NotSleeping)
    /\ UNCHANGED <<thread_list, current_thread, waitq, onlist, clock, vcpu, mustjoin,
                   joinwq, wanted>>

(* exit_thread() leaves the list for exited_threads and never comes back. *)
ExitThread(t) ==
    /\ InExit(t)
    /\ ~MustJoin(t)
    /\ thread_list' = Unlink(thread_list, t)
    /\ pc' = [pc EXCEPT ![t] = "exited"]
    /\ runnable' = runnable \ {t}
    /\ scheduling' = TRUE
    /\ UNCHANGED <<current_thread, wakeup_time, waitq, onlist, clock, vcpu, mustjoin,
                   joined, joinwq, wanted>>

(* schedule() returns to the picked thread, which frees the exited ones; a
   thread that runs for the first time starts at its entry point instead. *)
Schedule ==
    \E i \in DOMAIN thread_list :
        /\ SwitchTo(i)
        /\ pc' = IF pc[thread_list[i]] = "fresh"
                 THEN [pc EXCEPT ![thread_list[i]] = "run"]
                 ELSE [t \in Thread |-> IF t \in exited_threads THEN "freed" ELSE pc[t]]
        /\ UNCHANGED <<vcpu, mustjoin, joined, joinwq, wanted>>

(* The idle loop's poll, for the receive threads that have started. *)
PollFds ==
    \E W \in SUBSET {t \in Thread : pc[t] \notin {"unborn", "fresh"} /\ t \in FdThread} :
        Poll(W) /\ UNCHANGED <<pc, vcpu, mustjoin, joined, joinwq, wanted>>

ClockTick == Tick /\ UNCHANGED <<pc, vcpu, mustjoin, joined, joinwq, wanted>>

(* A sleep of any of the given lengths, relative or absolute. *)
Sleep(t) ==
    \E d \in Delay :
        \/ clock + d <= MaxTime /\ ClockSleep(t, Deadline(d))
        \/ ClockSleep(t, d)

Next ==
    \/ Schedule
    \/ PollFds
    \/ ClockTick
    \/ \E t \in Thread :
        \/ LeaveKernel(t) \/ TakeCpu(t) \/ AwaitCpu(t) \/ Sleep(t)
        \/ ExitGate(t) \/ ExitThread(t)
        \/ \E u \in Thread : JoinWait(t, u) \/ JoinDone(t, u)
        \/ \E u \in Thread, joinable \in BOOLEAN : CreateThread(t, u, joinable)

Spec == Init /\ [][Next]_vars

(* Steps of t that do not depend on a choice of its program: what it does
   when the schedule() it called returns. *)
Resume(t) ==
    \/ pc[t] # "run" /\ (TakeCpu(t) \/ AwaitCpu(t))
    \/ pc[t] = "gate" /\ (ExitGate(t) \/ ExitThread(t))
    \/ pc[t] = "join" /\ \E u \in Thread : JoinWait(t, u) \/ JoinDone(t, u)

(* Scheduling is cooperative, so progress needs programs that give way: a
   running thread goes on to enter the kernel, and one that is in the kernel
   again and again goes to sleep at some point (a zero sleep will do). *)
Fairness ==
    /\ WF_vars(Schedule)
    /\ WF_vars(ClockTick)
    /\ \A t \in Thread :
        /\ WF_vars(Resume(t))
        /\ WF_vars(TakeCpu(t) \/ AwaitCpu(t))
        /\ SF_vars(Sleep(t))

FairSpec == Spec /\ Fairness

-----------------------------------------------------------------------------

(* The variables hold values of their types. *)
TypeOK ==
    /\ SchedTypeOK
    /\ pc \in [Thread -> PC]
    /\ vcpu \in Thread \cup {NoThread}
    /\ mustjoin \subseteq Thread
    /\ joined \subseteq Thread
    /\ joinwq \subseteq Thread
    /\ wanted \in [Thread -> Thread \cup {NoThread}]

(* thread_list holds each thread that was created and has not exited, once:
   neither the rotation of schedule() nor exit_thread() loses or doubles an
   entry. *)
ListIsLiveThreads ==
    /\ IsInjective(thread_list)
    /\ ToSet(thread_list) = {t \in Thread : pc[t] \notin {"unborn", "exited", "freed"}}

(* No pointer to a freed struct thread is left behind: not in a wait queue,
   in a join waiter, as the holder of the CPU or in a descriptor's wake
   field; and the stack that schedule() runs on is never the one it frees. *)
NoUseAfterFree ==
    LET freed == {t \in Thread : pc[t] = "freed"}
    IN  /\ current_thread \notin freed
        /\ vcpu \notin freed
        /\ \A w \in Waithead : ToSet(waitq[w]) \cap freed = {}
        /\ joinwq \cap freed = {}
        /\ \A t \in Thread : wanted[t] \notin freed
        /\ FdThread \cap freed = {}

(* A thread that is not runnable will be made runnable: the clock, the
   holder of the CPU, the thread it joins or its joiner has it in hand.  (A
   wakeup that comes between a test and the sleep would break this.) *)
BlockedHasWaker ==
    \A t \in ToSet(thread_list) \ runnable :
        \/ pc[t] = "sleep" /\ wakeup_time[t] >= 0
        \/ pc[t] = "cpu" /\ vcpu # NoThread /\ t \in CpuWaiters \cap onlist
        \/ pc[t] = "join" /\ t \in joinwq /\ wanted[t] \notin joined
        \/ /\ pc[t] = "gate" /\ t \in mustjoin \cap joined
           /\ \A j \in Thread : wanted[j] = t => j \in runnable

(* The memory of a joinable thread is released only after its joiner has
   seen it in exit_thread(); nobody joins what has exited. *)
JoinBeforeFree ==
    \A t \in Thread :
        /\ t \in joined => pc[t] \in {"gate", "exited", "freed"}
        /\ pc[t] \in {"exited", "freed"} => t \notin mustjoin /\ \A j \in Thread : wanted[j] # t

(* Round robin: a step never moves a ready thread that it does not run
   further from the head of the list, and a thread that schedule() switches
   to goes behind every other ready one.  So it is overtaken at most once by
   each of the others. *)
PlaceOf(list, t) == CHOOSE i \in DOMAIN list : list[i] = t
ReadyMovesUp ==
    [][\A t \in ToSet(thread_list) \cap ToSet(thread_list') :
          Ready(t) /\ (scheduling => current_thread' # t) =>
              /\ PlaceOf(thread_list', t) <= PlaceOf(thread_list, t)
              /\ scheduling /\ ~scheduling' =>
                     PlaceOf(thread_list', t) < PlaceOf(thread_list', current_thread')]_vars

(* rumpuser(3): a hypercall that blocks must first release the rump kernel
   context.  The holder of the CPU is never blocked. *)
BlockedReleasesCpu == vcpu # NoThread => vcpu \in runnable

(* A sleeping thread gets out of clock_sleep()'s schedule(), however busy
   the others are. *)
SleepEnds == \A t \in Thread : pc[t] = "sleep" ~> pc[t] # "sleep"

(* The joiner of a thread that exits returns, and the thread is released. *)
JoinEnds ==
    \A t, u \in Thread :
        /\ (wanted[t] = u /\ pc[u] = "gate") ~> wanted[t] # u
        /\ (pc[u] = "gate" /\ u \notin mustjoin) ~> pc[u] = "exited"

(* A runnable thread runs. *)
RunnableRuns == \A t \in Thread : (t \in runnable /\ pc[t] # "unborn") ~> current_thread = t

=============================================================================
