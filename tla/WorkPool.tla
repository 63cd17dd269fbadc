------------------------------ MODULE WorkPool -------------------------------
(***************************************************************************)
(* The pool of worker threads of librumpuser/sysproxy.c: the list of work  *)
(* under sbamtx, the condition variable sbacv that idle workers wait on,   *)
(* and the counters that decide whether new work wakes a worker, makes one *)
(* or is left to the next that becomes free (schedulework,                 *)
(* serv_workbouncer).                                                      *)
(*                                                                         *)
(* Every section under sbamtx is one step.  A worker is "none" before its  *)
(* creation and after its end, "top" at the head of its loop, "idle" in    *)
(* pthread_cond_wait, "woken" when it was signalled but has not got the    *)
(* mutex back, and "busy" with an item.                                    *)
(***************************************************************************)
EXTENDS Integers, Sequences, FiniteSets

CONSTANTS
    Worker,       \* threads that pthread_create may return
    Job,          \* work items (struct servbouncearg)
    MaxWorker,    \* rumpsp_maxworker
    IdleWorker,   \* rumpsp_idleworker
    CreateFails   \* whether pthread_create may fail

ASSUME PoolAssumption ==
    /\ IsFiniteSet(Worker)
    /\ MaxWorker \in Nat /\ IdleWorker \in Nat \ {0}
    /\ CreateFails \in BOOLEAN

VARIABLES
    wrklist,      \* TAILQ of the items nobody has taken
    nwork, nworker, idleworker,
    wstate        \* of each worker

poolVars == <<wrklist, nwork, nworker, idleworker, wstate>>

In(st) == {w \in Worker : wstate[w] = st}
Become(w, st) == wstate' = [wstate EXCEPT ![w] = st]

PoolInit ==
    /\ wrklist = <<>>
    /\ nwork = 0 /\ nworker = 0 /\ idleworker = 0
    /\ wstate = [w \in Worker |-> "none"]

-----------------------------------------------------------------------------

(* pthread_cond_signal(&sbacv): one of those who wait, if any does. *)
SignalIdle ==
    \/ In("idle") = {} /\ UNCHANGED wstate
    \/ \E w \in In("idle") : Become(w, "woken")

(* pthread_create(), which may fail: the item is on the list all the same. *)
CreateWorker ==
    \/ /\ \E w \in In("none") : Become(w, "top")
       /\ nworker' = nworker + 1
    \/ (CreateFails \/ In("none") = {}) /\ UNCHANGED <<nworker, wstate>>

(* The section of schedulework() that puts j on the list. *)
NeedsWakeStrict == nwork + 1 < idleworker       \* mutant of NeedsWake
NeedsWake == nwork + 1 <= idleworker
MayCreateAnyway == TRUE                         \* mutant of MayCreate
MayCreate == nworker < MaxWorker

Enqueue(j) ==
    /\ wrklist' = Append(wrklist, j)
    /\ nwork' = nwork + 1
    /\ \/ NeedsWake /\ SignalIdle /\ UNCHANGED nworker
       \/ ~NeedsWake /\ MayCreate /\ CreateWorker
       \/ ~NeedsWake /\ ~MayCreate /\ UNCHANGED <<nworker, wstate>>
    /\ UNCHANGED idleworker

(* TAILQ_FIRST, TAILQ_REMOVE, nwork--. *)
TakeFirst(w) ==
    /\ wrklist # <<>>
    /\ wrklist' = Tail(wrklist)
    /\ nwork' = nwork - 1
    /\ Become(w, "busy")

(* The head of serv_workbouncer()'s loop: too many workers are idle ... *)
TooManyIdle == idleworker - nwork >= IdleWorker

Retire(w) ==
    /\ wstate[w] = "top" /\ TooManyIdle
    /\ nworker' = nworker - 1
    /\ Become(w, "none")
    /\ UNCHANGED <<wrklist, nwork, idleworker>>

(* ... or there is work, for which idleworker goes up and down again ... *)
TakeAtOnce(w) ==
    /\ wstate[w] = "top" /\ ~TooManyIdle
    /\ TakeFirst(w)
    /\ UNCHANGED <<nworker, idleworker>>

(* ... or there is none, and the worker waits. *)
GoIdle(w) ==
    /\ wstate[w] = "top" /\ ~TooManyIdle /\ wrklist = <<>>
    /\ idleworker' = idleworker + 1
    /\ Become(w, "idle")
    /\ UNCHANGED <<wrklist, nwork, nworker>>

(* A woken worker finds work, or another was faster and it waits again. *)
TakeWokenUncounted(w) ==        \* mutant of TakeWoken
    /\ wstate[w] = "woken"
    /\ TakeFirst(w)
    /\ UNCHANGED <<nworker, idleworker>>

TakeWoken(w) ==
    /\ wstate[w] = "woken"
    /\ TakeFirst(w)
    /\ idleworker' = idleworker - 1
    /\ UNCHANGED nworker

BackToIdle(w) ==
    /\ wstate[w] = "woken" /\ wrklist = <<>>
    /\ Become(w, "idle")
    /\ UNCHANGED <<wrklist, nwork, nworker, idleworker>>

Take(w) == TakeAtOnce(w) \/ TakeWoken(w)
NoTake(w) == Retire(w) \/ GoIdle(w) \/ BackToIdle(w)

(* The item is done. *)
Finish(w) ==
    /\ wstate[w] = "busy"
    /\ Become(w, "top")
    /\ UNCHANGED <<wrklist, nwork, nworker, idleworker>>

PoolNext ==
    \/ \E j \in Job : Enqueue(j)
    \/ \E w \in Worker : Take(w) \/ NoTake(w) \/ Finish(w)

PoolSpec == PoolInit /\ [][PoolNext]_poolVars

-----------------------------------------------------------------------------

PoolTypeOK ==
    /\ wrklist \in Seq(Job)
    /\ nwork \in Nat /\ nworker \in Nat /\ idleworker \in Nat
    /\ wstate \in [Worker -> {"none", "top", "idle", "woken", "busy"}]

(* The three counters that schedulework() decides by say what they are named
   for, and the limit on threads holds. *)
CountersTrue ==
    /\ nwork = Len(wrklist)
    /\ nworker = Cardinality(Worker \ In("none"))
    /\ idleworker = Cardinality(In("idle") \cup In("woken"))
    /\ nworker <= MaxWorker

(* No worker sleeps while an item waits that nobody was woken for, whatever
   workers come and go between the signal and the wake-up. *)
NoIdlerBesideWork == In("idle") # {} => nwork <= Cardinality(In("woken"))
=============================================================================
