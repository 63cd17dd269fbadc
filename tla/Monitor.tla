------------------------------- MODULE Monitor -------------------------------
(***************************************************************************)
(* What the mutexes and condition variables of rumpuser(3) promise, without *)
(* the scheduler, the CPU and the wait queues of mutexes: a mutex has one   *)
(* owner, who may enter it several times; cv_wait() gives up one entry and  *)
(* starts to wait in one step; cv_signal() releases the thread that has     *)
(* waited longest, cv_broadcast() all; a thread returns from cv_wait() with *)
(* its mutex entered, and only after it was signalled or interrupted by a   *)
(* timeout or an event on its descriptor.  One thing is promised only in    *)
(* part: a return that finds the mutex taken stops the program.             *)
(***************************************************************************)
EXTENDS Integers, Sequences, SequencesExt

CONSTANTS Thread, Mutex, Cv, NoThread, None,
          FdThread     \* threads that a descriptor's events interrupt

VARIABLES
    owner, depth,      \* who has entered a mutex, and how often
    waiting,           \* waiting[c]: the threads that wait, longest first
    wants,             \* wants[t]: the mutex that t returns to, or None
    timed,             \* waiting threads whose timeout is running
    interrupted,       \* waiting threads that may return unsignalled
    stopped

vars == <<owner, depth, waiting, wants, timed, interrupted, stopped>>

Init ==
    /\ owner = [m \in Mutex |-> NoThread]
    /\ depth = [m \in Mutex |-> 0]
    /\ waiting = [c \in Cv |-> <<>>]
    /\ wants = [t \in Thread |-> None]
    /\ timed = {}
    /\ interrupted = {}
    /\ stopped = FALSE

Waiting == UNION {ToSet(waiting[c]) : c \in Cv}
Signalled == {t \in Thread : wants[t] # None /\ t \notin Waiting}

Free(t, m) == owner[m] \in {NoThread, t}
Acquired(t, m) ==
    /\ Free(t, m)
    /\ owner' = [owner EXCEPT ![m] = t]
    /\ depth' = [depth EXCEPT ![m] = @ + 1]
Released(t, m) ==
    /\ owner[m] = t
    /\ owner' = IF depth[m] = 1 THEN [owner EXCEPT ![m] = NoThread] ELSE owner
    /\ depth' = [depth EXCEPT ![m] = @ - 1]

Lock(t, m) ==
    /\ wants[t] = None
    /\ Acquired(t, m)
    /\ UNCHANGED <<waiting, wants, timed, interrupted, stopped>>

Unlock(t, m) ==
    /\ wants[t] = None
    /\ Released(t, m)
    /\ UNCHANGED <<waiting, wants, timed, interrupted, stopped>>

(* Unlock and wait, with or without a timeout. *)
Wait(t, c, m) ==
    /\ wants[t] = None
    /\ Released(t, m)
    /\ waiting' = [waiting EXCEPT ![c] = Append(@, t)]
    /\ wants' = [wants EXCEPT ![t] = m]
    /\ timed' \in {timed, timed \cup {t}}
    /\ UNCHANGED <<interrupted, stopped>>

(* The threads W stop to wait for c, which leaves the others, q. *)
Leave(c, W, q) ==
    /\ waiting' = [waiting EXCEPT ![c] = q]
    /\ timed' = timed \ W
    /\ interrupted' = interrupted \ W
    /\ UNCHANGED <<owner, depth, wants, stopped>>

Signal(c) == waiting[c] # <<>> /\ Leave(c, {Head(waiting[c])}, Tail(waiting[c]))
Broadcast(c) == waiting[c] # <<>> /\ Leave(c, ToSet(waiting[c]), <<>>)

(* Timeouts expire, or events come in. *)
Interrupt(W) ==
    /\ W \subseteq Waiting \cap (timed \cup FdThread)
    /\ interrupted' = interrupted \cup W
    /\ timed' = timed \ W
    /\ UNCHANGED <<owner, depth, waiting, wants, stopped>>

MayReturn(t) == t \in interrupted \cup Signalled

(* t no longer waits: its entry of a queue, if it still has one, goes. *)
Without(q, t) ==
    IF t \in ToSet(q) THEN RemoveAt(q, CHOOSE i \in DOMAIN q : q[i] = t) ELSE q
NotWaiting(t) ==
    /\ waiting' = [c \in Cv |-> Without(waiting[c], t)]
    /\ interrupted' = interrupted \ {t}
    /\ UNCHANGED timed

Return(t) ==
    /\ MayReturn(t)
    /\ Acquired(t, wants[t])
    /\ wants' = [wants EXCEPT ![t] = None]
    /\ NotWaiting(t)
    /\ UNCHANGED stopped

(* Return finds the mutex taken. *)
Stop(t) ==
    /\ MayReturn(t)
    /\ ~Free(t, wants[t])
    /\ stopped' = TRUE
    /\ NotWaiting(t)
    /\ UNCHANGED <<owner, depth, wants>>

Next ==
    /\ ~stopped
    /\ \/ \E t \in Thread, m \in Mutex :
            \/ Lock(t, m) \/ Unlock(t, m)
            \/ \E c \in Cv : Wait(t, c, m)
       \/ \E c \in Cv : Signal(c) \/ Broadcast(c)
       \/ \E W \in SUBSET Thread : Interrupt(W)
       \/ \E t \in Thread : Return(t) \/ Stop(t)

Spec == Init /\ [][Next]_vars
=============================================================================
