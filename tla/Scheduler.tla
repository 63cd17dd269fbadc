------------------------------ MODULE Scheduler ------------------------------
(***************************************************************************)
(* The cooperative scheduler of franken/thread/thread.c: the list of       *)
(* threads, the round-robin scan of schedule(), wake() and block(), the    *)
(* idle loop that polls file descriptors, and the wait queues (struct      *)
(* waithead) that every blocking primitive is built on.                    *)
(*                                                                         *)
(* There is one host thread and no preemption: the code between two calls  *)
(* of schedule() is one atomic step of current_thread.  A thread that      *)
(* calls schedule() sets `scheduling'; Switch and Poll are the iterations  *)
(* of the do-loop of schedule() until it has picked a thread, and then the *)
(* picked thread goes on where its own call of schedule() returns.         *)
(*                                                                         *)
(* Modules that add operations (Threads, Locks, RwLock) EXTEND this one.   *)
(***************************************************************************)
EXTENDS Integers, Sequences, FiniteSets, SequencesExt

CONSTANTS
    Thread,      \* every struct thread the run may allocate
    NoThread,    \* the NULL thread pointer
    FdThread,    \* threads that __franken_fd[].wake points at
    Waithead,    \* the wait queues: one per rumpuser mutex, cv, ...
    MaxTime,     \* bound on the monotonic clock
    Delay        \* durations passed to the timed operations

ASSUME ThreadAssumption   == IsFiniteSet(Thread) /\ Thread # {}
ASSUME NoThreadAssumption == NoThread \notin Thread
ASSUME TimeAssumption     == MaxTime \in Nat /\ Delay \subseteq 0..MaxTime
ASSUME FdAssumption       == FdThread \subseteq Thread

VARIABLES
    thread_list,     \* TAILQ of the threads that have not exited
    current_thread,
    runnable,        \* threads whose flags hold RUNNABLE_FLAG
    wakeup_time,     \* -1: not sleeping on the clock
    scheduling,      \* current_thread is in the loop of schedule()
    waitq,           \* the queue of each waithead
    onlist,          \* threads whose struct waiter has onlist = 1
    clock            \* what now() returns

schedVars == <<thread_list, current_thread, runnable, wakeup_time, scheduling,
               waitq, onlist, clock>>

NotSleeping == -1

-----------------------------------------------------------------------------

(* t executes outside schedule(): it may take its next step. *)
Running(t) == current_thread = t /\ ~scheduling

(* wake() of every thread of W, in any order. *)
WokenLost(W) == runnable        \* mutant of Woken
Woken(W) == runnable \cup W
Unslept(W) == [u \in Thread |-> IF u \in W THEN NotSleeping ELSE wakeup_time[u]]

(* wake(u) for the u of W, then return to the caller. *)
Wake(W) ==
    /\ runnable' = Woken(W)
    /\ wakeup_time' = Unslept(W)

(* wake(u) for the u of W; then t clears its RUNNABLE_FLAG, with the
   wakeup time tm, and calls schedule(). *)
WakeThenSleep(W, t, tm) ==
    /\ runnable' = Woken(W) \ {t}
    /\ wakeup_time' = [Unslept(W) EXCEPT ![t] = tm]
    /\ scheduling' = TRUE

(* TAILQ_REMOVE of the entry of t, which is on the queue once. *)
Unlink(q, t) == RemoveAt(q, CHOOSE i \in DOMAIN q : q[i] = t)

(* wakeup_one(): whom it wakes and what it leaves on the queue. *)
FirstOf(q) == IF q = <<>> THEN {} ELSE {Head(q)}
RestOf(q)  == IF q = <<>> THEN q ELSE Tail(q)

(* now() + nsec, or no timeout. *)
DeadlineTwice(nsec) ==  \* mutant of Deadline
    IF nsec = NotSleeping THEN NotSleeping ELSE clock + 2 * nsec
Deadline(nsec) == IF nsec = NotSleeping THEN NotSleeping ELSE clock + nsec

-----------------------------------------------------------------------------

(* The test schedule() applies to a thread of the list: runnable, or
   sleeping on the clock with its wakeup time reached (then it is woken). *)
ReadyRunnable(t) == t \in runnable                       \* mutant of Ready
Ready(t) == t \in runnable \/ wakeup_time[t] \in 0..clock

(* The thread that the scan of thread_list stops at, by its place. *)
FirstReady(i) ==
    /\ i \in DOMAIN thread_list
    /\ Ready(thread_list[i])
    /\ \A j \in 1..(i - 1) : ~Ready(thread_list[j])

(* The list after the thread at i was put at its end. *)
RotateNoRemove(i) == Append(thread_list, thread_list[i])                \* mutant of Rotate
RotateToHead(i) == <<thread_list[i]>> \o RemoveAt(thread_list, i)       \* mutant of Rotate
Rotate(i) == Append(RemoveAt(thread_list, i), thread_list[i])

(* The scan found a thread: it is woken if its time had come, moved to the
   end of the list and switched to. *)
SwitchTo(i) ==
    LET next == thread_list[i]
    IN  /\ scheduling
        /\ FirstReady(i)
        /\ thread_list' = Rotate(i)
        /\ Wake({next} \ runnable)
        /\ current_thread' = next
        /\ scheduling' = FALSE
        /\ UNCHANGED <<waitq, onlist, clock>>

(* The scan found none: clock_nanosleep() polls the descriptors and wakes
   the threads W that wait for the ones with events. *)
Poll(W) ==
    /\ scheduling
    /\ \A i \in DOMAIN thread_list : ~Ready(thread_list[i])
    /\ W # {}
    /\ Wake(W)
    /\ UNCHANGED <<thread_list, current_thread, scheduling, waitq, onlist, clock>>

(* Time passes, whatever the threads do. *)
Tick ==
    /\ clock < MaxTime
    /\ clock' = clock + 1
    /\ UNCHANGED <<thread_list, current_thread, runnable, wakeup_time, scheduling,
                   waitq, onlist>>

-----------------------------------------------------------------------------

SchedTypeOK ==
    /\ thread_list \in Seq(Thread)
    /\ current_thread \in Thread
    /\ runnable \subseteq Thread
    /\ wakeup_time \in [Thread -> NotSleeping..MaxTime]
    /\ scheduling \in BOOLEAN
    /\ waitq \in [Waithead -> Seq(Thread)]
    /\ onlist \subseteq Thread
    /\ clock \in 0..MaxTime
=============================================================================
