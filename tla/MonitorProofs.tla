---------------------------- MODULE MonitorProofs ----------------------------
(***************************************************************************)
(* Locks implements Monitor, for any finite set of threads: under the      *)
(* refinement mapping of Locks the initial states of the hypercalls are    *)
(* initial states of the monitor, and each of their steps is a step of the *)
(* monitor or leaves it alone.                                             *)
(***************************************************************************)
EXTENDS LocksProofs

(* The values that the mapping gives to the monitor's variables. *)
MonWaiting == [c \in Cv |-> waitq[c]]
MonWants == [t \in Thread |-> IF pc[t] = "cv" THEN mtxarg[t] ELSE None]
MonTimed == {t \in onlist : pc[t] = "cv" /\ wakeup_time[t] # NotSleeping}
MonInterrupted == {t \in onlist : pc[t] = "cv" /\ t \in runnable}
MonStopped == aborted # None

(* wake() clears the wakeup time, so that a thread that was woken has no
   timeout running: MonTimed and MonInterrupted are disjoint. *)
WokenIsUntimed == \A t \in runnable : wakeup_time[t] = NotSleeping

(* After abort() nobody schedules. *)
AbortStops == aborted # None => ~scheduling

RefInv == Inv /\ WokenIsUntimed /\ AbortStops

-----------------------------------------------------------------------------

LEMMA WokenStayUntimed ==
  ASSUME SchedTypeOK, WokenIsUntimed, NEW W \in SUBSET Thread, Wake(W)
  PROVE  WokenIsUntimed'
  BY DEF WokenIsUntimed, Wake, Woken, Unslept, SchedTypeOK

LEMMA SleeperStaysTimed ==
  ASSUME SchedTypeOK, WokenIsUntimed, NEW W \in SUBSET Thread, NEW t \in Thread, NEW tm,
         WakeThenSleep(W, t, tm)
  PROVE  WokenIsUntimed'
  BY DEF WokenIsUntimed, WakeThenSleep, Woken, Unslept, SchedTypeOK

LEMMA InitRefines == Init => RefInv /\ Mon!Init
<1> SUFFICES ASSUME Init PROVE RefInv /\ Mon!Init
  OBVIOUS
<1>1. Inv
  BY InitInv
<1>2. WokenIsUntimed /\ AbortStops
  BY DEF Init, WokenIsUntimed, AbortStops
<1>3. MonWaiting = [c \in Cv |-> <<>>]
  BY WaitheadAssumption DEF Init, MonWaiting
<1>4. MonWants = [t \in Thread |-> None]
  BY DEF Init, MonWants
<1>5. MonTimed = {} /\ MonInterrupted = {}
  BY DEF Init, MonTimed, MonInterrupted
<1>6. Mon!Init
  BY <1>3, <1>4, <1>5 DEF Init, Mon!Init, MonWaiting, MonWants, MonTimed, MonInterrupted
<1> QED
  BY <1>1, <1>2, <1>6 DEF RefInv

(* A step of which no thread on the queue of a cv notices anything. *)
LEMMA CvSideKept ==
  ASSUME \A c \in Cv : waitq'[c] = waitq[c],
         \A u \in Thread : (u \in onlist' /\ pc'[u] = "cv") <=> (u \in onlist /\ pc[u] = "cv"),
         \A u \in Thread : u \in onlist /\ pc[u] = "cv" =>
             wakeup_time'[u] = wakeup_time[u] /\ (u \in runnable' <=> u \in runnable),
         onlist \subseteq Thread, onlist' \subseteq Thread
  PROVE  MonWaiting' = MonWaiting /\ MonTimed' = MonTimed /\ MonInterrupted' = MonInterrupted
<1>1. MonWaiting' = MonWaiting
  BY DEF MonWaiting
<1>2. MonTimed' = MonTimed /\ MonInterrupted' = MonInterrupted
  BY DEF MonTimed, MonInterrupted
<1> QED
  BY <1>1, <1>2

(* Nor does a thread begin or end to wait. *)
LEMMA WantsKept ==
  ASSUME \A u \in Thread : pc'[u] = "cv" <=> pc[u] = "cv",
         \A u \in Thread : pc[u] = "cv" => mtxarg'[u] = mtxarg[u]
  PROVE  MonWants' = MonWants
  BY DEF MonWants

(* Together, and with the mutexes left alone, the monitor has not moved. *)
LEMMA Stutters ==
  ASSUME MonWaiting' = MonWaiting, MonTimed' = MonTimed, MonInterrupted' = MonInterrupted,
         MonWants' = MonWants, UNCHANGED <<mtx_o, mtx_v, aborted>>
  PROVE  UNCHANGED Mon!vars
  BY DEF Mon!vars, MonWaiting, MonWants, MonTimed, MonInterrupted

(* The threads on the queues of cvs are those that wait in the monitor. *)
LEMMA WaitingIs ==
  ASSUME RefInv
  PROVE  /\ Mon!Waiting = {u \in onlist : pc[u] = "cv"}
         /\ \A c \in Cv : ToSet(waitq[c]) = {u \in onlist : pc[u] = "cv" /\ cvarg[u] = c}
<1>1. onlist \subseteq Thread
  BY DEF RefInv, Inv, TypeOK, SchedTypeOK
<1>2. ASSUME NEW c \in Cv
      PROVE  ToSet(waitq[c]) = {u \in onlist : pc[u] = "cv" /\ cvarg[u] = c}
  <2>1. ToSet(waitq[c]) = {u \in onlist : QueueOf(u) = c} /\ c \notin Mutex /\ c # None
    BY WaitheadAssumption, NoneAssumption DEF RefInv, Inv, QueuesSound
  <2>2. \A u \in onlist : QueueOf(u) = c <=> pc[u] = "cv" /\ cvarg[u] = c
    BY <1>1, <2>1 DEF QueueOf, RefInv, Inv, ArgsKnown
  <2> QED
    BY <2>1, <2>2
<1>3. Mon!Waiting = UNION {ToSet(waitq[c]) : c \in Cv}
  BY DEF Mon!Waiting, Mon!ToSet, ToSet
<1>4. \A u \in onlist : pc[u] = "cv" => cvarg[u] \in Cv
  BY <1>1 DEF RefInv, Inv, ArgsKnown
<1>5. ASSUME NEW u
      PROVE  u \in Mon!Waiting <=> u \in onlist /\ pc[u] = "cv"
  <2>1. u \in Mon!Waiting <=> \E c \in Cv : u \in ToSet(waitq[c])
    BY <1>3
  <2> QED
    BY <1>2, <1>4, <2>1
<1>6. Mon!Waiting = {u \in onlist : pc[u] = "cv"}
  BY <1>5
<1> QED
  BY <1>2, <1>6

(* Whoever mutex_exit() wakes does not wait for a cv. *)
LEMMA ExitWakesNoCv ==
  ASSUME RefInv, NEW m \in Mutex
  PROVE  /\ WokenByExit(m) \in SUBSET Thread
         /\ \A u \in WokenByExit(m) : pc[u] # "cv"
<1>1. /\ WokenByExit(m) \subseteq ToSet(waitq[m]) /\ m \in Waithead /\ m \notin Cv
      /\ m # None /\ waitq[m] \in Seq(Thread)
  BY QueueAfterExitSet, WaitheadAssumption, NoneAssumption DEF RefInv, Inv, TypeOK, SchedTypeOK
<1>2. \A u \in ToSet(waitq[m]) : u \in Thread /\ QueueOf(u) = m
  BY <1>1, ToSetType DEF RefInv, Inv, QueuesSound
<1>3. \A u \in ToSet(waitq[m]) : pc[u] # "cv"
  BY <1>1, <1>2 DEF QueueOf, RefInv, Inv, TypeOK
<1> QED
  BY <1>1, <1>2, <1>3

-----------------------------------------------------------------------------

(* mutex_enter(), at once. *)
LEMMA MutexEnterRefines ==
  ASSUME RefInv, NEW t \in Thread, NEW m \in Mutex, MutexEnter(t, m)
  PROVE  Mon!Lock(t, m)
<1>1. /\ pc[t] = "run" /\ Enter(t, m)
      /\ UNCHANGED <<schedVars, pc, mtxarg, cvarg, vcpu, nwaiters, aborted>>
  BY DEF MutexEnter, InKernel
<1>2. MonWaiting' = MonWaiting /\ MonTimed' = MonTimed /\ MonInterrupted' = MonInterrupted
  BY <1>1, CvSideKept DEF RefInv, Inv, TypeOK, SchedTypeOK, schedVars
<1>3. MonWants' = MonWants /\ MonWants[t] = None
  BY <1>1 DEF MonWants
<1>4. Mon!Acquired(t, m)
  BY <1>1 DEF Enter, CanEnter, RefInv, Inv, OwnerAgrees, Mon!Acquired, Mon!Free
<1> QED
  BY <1>1, <1>2, <1>3, <1>4 DEF Mon!Lock, MonWaiting, MonWants, MonTimed, MonInterrupted

(* mutex_enter() after a wait. *)
LEMMA MutexWonRefines ==
  ASSUME RefInv, NEW t \in Thread, MutexWon(t)
  PROVE  mtxarg[t] \in Mutex /\ Mon!Lock(t, mtxarg[t])
<1>1. PICK m \in Mutex : m = mtxarg[t]
  BY DEF MutexWon, RefInv, Inv, ArgsKnown
<1>2. /\ pc[t] = "mutex" /\ Enter(t, m) /\ pc' = [pc EXCEPT ![t] = "run"]
      /\ mtxarg' = [mtxarg EXCEPT ![t] = None]
      /\ waitq' = [waitq EXCEPT ![m] = WaitLeft(t, m)] /\ onlist' = onlist \ {t}
      /\ UNCHANGED <<runnable, wakeup_time, aborted>>
  BY <1>1 DEF MutexWon
<1>3. MonWaiting' = MonWaiting /\ MonTimed' = MonTimed /\ MonInterrupted' = MonInterrupted
  <2>1. \A c \in Cv : waitq'[c] = waitq[c]
    BY <1>2, WaitheadAssumption DEF RefInv, Inv, TypeOK, SchedTypeOK
  <2>2. \A u \in Thread : (u \in onlist' /\ pc'[u] = "cv") <=> (u \in onlist /\ pc[u] = "cv")
    BY <1>2 DEF RefInv, Inv, TypeOK
  <2>3. onlist \subseteq Thread /\ onlist' \subseteq Thread
    BY <1>2 DEF RefInv, Inv, TypeOK, SchedTypeOK
  <2> QED
    BY <1>2, <2>1, <2>2, <2>3, CvSideKept
<1>4. MonWants' = MonWants /\ MonWants[t] = None
  <2>1. \A u \in Thread : /\ pc'[u] = "cv" <=> pc[u] = "cv"
                          /\ pc[u] = "cv" => mtxarg'[u] = mtxarg[u]
    BY <1>2 DEF RefInv, Inv, TypeOK
  <2> QED
    BY <1>2, <2>1, WantsKept DEF MonWants
<1>5. Mon!Acquired(t, m)
  BY <1>2 DEF Enter, CanEnter, RefInv, Inv, OwnerAgrees, Mon!Acquired, Mon!Free
<1> QED
  BY <1>1, <1>2, <1>3, <1>4, <1>5 DEF Mon!Lock, MonWaiting, MonWants, MonTimed, MonInterrupted

(* mutex_exit() *)
LEMMA ExitReleases ==
  ASSUME RefInv, NEW t \in Thread, NEW m \in Mutex, held[t][m] > 0, Exit(t, m)
  PROVE  Mon!Released(t, m)
<1>1. mtx_o[m] = t
  BY DEF RefInv, Inv, OwnerAgrees
<1> QED
  BY <1>1 DEF Exit, Mon!Released

LEMMA MutexExitRefines ==
  ASSUME RefInv, NEW t \in Thread, NEW m \in Mutex, MutexExit(t, m)
  PROVE  Mon!Unlock(t, m)
<1>1. /\ pc[t] = "run" /\ held[t][m] > 0 /\ Exit(t, m)
      /\ waitq' = [waitq EXCEPT ![m] = QueueAfterExit(m)] /\ onlist' = onlist \ WokenByExit(m)
      /\ Wake(WokenByExit(m)) /\ UNCHANGED <<pc, mtxarg, aborted>>
  BY DEF MutexExit, InKernel
<1>2. WokenByExit(m) \in SUBSET Thread /\ \A u \in WokenByExit(m) : pc[u] # "cv"
  BY ExitWakesNoCv
<1>3. MonWaiting' = MonWaiting /\ MonTimed' = MonTimed /\ MonInterrupted' = MonInterrupted
  <2>1. \A c \in Cv : waitq'[c] = waitq[c]
    BY <1>1, WaitheadAssumption DEF RefInv, Inv, TypeOK, SchedTypeOK
  <2>2. /\ runnable' = runnable \cup WokenByExit(m)
        /\ \A u \in Thread : u \notin WokenByExit(m) => wakeup_time'[u] = wakeup_time[u]
    BY <1>1, <1>2, WakeEach DEF RefInv, Inv, TypeOK
  <2>3. onlist \subseteq Thread /\ onlist' \subseteq Thread
    BY <1>1 DEF RefInv, Inv, TypeOK, SchedTypeOK
  <2> QED
    BY <1>1, <1>2, <2>1, <2>2, <2>3, CvSideKept
<1>4. MonWants' = MonWants /\ MonWants[t] = None
  BY <1>1 DEF MonWants
<1>5. Mon!Released(t, m)
  BY <1>1, ExitReleases
<1> QED
  BY <1>1, <1>3, <1>4, <1>5 DEF Mon!Unlock, MonWaiting, MonWants, MonTimed, MonInterrupted

(* Steps that only block a thread which waits for no cv, or let it go on. *)
LEMMA OffCvStutters ==
  ASSUME RefInv, NEW t \in Thread, pc[t] # "cv", pc'[t] # "cv",
         \A u \in Thread : u # t => pc'[u] = pc[u] /\ mtxarg'[u] = mtxarg[u],
         \A c \in Cv : waitq'[c] = waitq[c],
         onlist' \in {onlist, onlist \cup {t}},
         \A u \in Thread : u # t => wakeup_time'[u] = wakeup_time[u] /\ (u \in runnable' <=> u \in runnable),
         UNCHANGED <<mtx_o, mtx_v, aborted>>
  PROVE  UNCHANGED Mon!vars
<1>1. MonWaiting' = MonWaiting /\ MonTimed' = MonTimed /\ MonInterrupted' = MonInterrupted
  BY CvSideKept DEF RefInv, Inv, TypeOK, SchedTypeOK
<1>2. MonWants' = MonWants
  BY WantsKept
<1> QED
  BY <1>1, <1>2, Stutters

LEMMA TakeCpuRefines ==
  ASSUME RefInv, NEW t \in Thread, TakeCpu(t)
  PROVE  UNCHANGED Mon!vars
<1>1. /\ pc[t] # "cv" /\ pc' = [pc EXCEPT ![t] = "run"]
      /\ UNCHANGED <<waitq, onlist, wakeup_time, runnable, mtxarg, mtx_o, mtx_v, aborted>>
  BY DEF TakeCpu, schedVars, lockVars
<1>2. pc'[t] = "run" /\ \A u \in Thread : u # t => pc'[u] = pc[u]
  BY <1>1 DEF RefInv, Inv, TypeOK
<1> QED
  BY <1>1, <1>2, OffCvStutters

LEMMA SleepRefines ==
  ASSUME RefInv, NEW t \in Thread, NEW d \in Delay, Sleep(t, d)
  PROVE  UNCHANGED Mon!vars
<1>1. /\ pc[t] # "cv" /\ pc' = [pc EXCEPT ![t] = "sleep"] /\ WakeThenSleep({}, t, Deadline(d))
      /\ UNCHANGED <<waitq, onlist, mtxarg, mtx_o, mtx_v, aborted>>
  BY DEF Sleep, InKernel, lockVars
<1>2. pc'[t] = "sleep" /\ \A u \in Thread : u # t => pc'[u] = pc[u]
  BY <1>1 DEF RefInv, Inv, TypeOK
<1>3. /\ runnable' = (runnable \cup {}) \ {t}
      /\ \A u \in Thread : u # t /\ u \notin {} => wakeup_time'[u] = wakeup_time[u]
  <2>1. {} \in SUBSET Thread /\ SchedTypeOK
    BY DEF RefInv, Inv, TypeOK
  <2> QED
    BY <1>1, <2>1, SleepEach
<1> QED
  BY <1>1, <1>2, <1>3, OffCvStutters

(* Waiting for a mutex, once or again. *)
LEMMA MutexWaitRefines ==
  ASSUME RefInv, NEW t \in Thread,
         (\E m \in Mutex : MutexBlock(t, m)) \/ MutexLost(t)
  PROVE  UNCHANGED Mon!vars
<1>1. PICK m \in Mutex :
        /\ pc[t] # "cv" /\ pc'[t] = "mutex" /\ \E q : waitq' = [waitq EXCEPT ![m] = q]
        /\ \A u \in Thread : u # t => pc'[u] = pc[u] /\ mtxarg'[u] = mtxarg[u]
        /\ onlist' = onlist \cup {t} /\ WakeThenSleep({}, t, NotSleeping)
        /\ UNCHANGED <<mtx_o, mtx_v, aborted>>
  <2>1. CASE \E m \in Mutex : MutexBlock(t, m)
    BY <2>1 DEF MutexBlock, InKernel, lockVars, RefInv, Inv, TypeOK
  <2>2. CASE MutexLost(t)
    <3>1. PICK m \in Mutex : m = mtxarg[t]
      BY <2>2 DEF MutexLost, RefInv, Inv, ArgsKnown
    <3>2. waitq' = [waitq EXCEPT ![m] = Append(WaitLeft(t, m), t)]
      BY <2>2, <3>1 DEF MutexLost
    <3>3. /\ pc[t] = "mutex" /\ onlist' = onlist \cup {t} /\ WakeThenSleep({}, t, NotSleeping)
          /\ UNCHANGED <<pc, mtxarg, mtx_o, mtx_v, aborted>>
      BY <2>2 DEF MutexLost, lockVars
    <3> QED
      BY <3>2, <3>3
  <2> QED
    BY <2>1, <2>2
<1>2. \A c \in Cv : waitq'[c] = waitq[c]
  BY <1>1, WaitheadAssumption DEF RefInv, Inv, TypeOK, SchedTypeOK
<1>3. /\ runnable' = (runnable \cup {}) \ {t}
      /\ \A u \in Thread : u # t /\ u \notin {} => wakeup_time'[u] = wakeup_time[u]
  <2>1. {} \in SUBSET Thread /\ SchedTypeOK
    BY DEF RefInv, Inv, TypeOK
  <2>2. WakeThenSleep({}, t, NotSleeping)
    BY <1>1
  <2> QED
    BY <2>1, <2>2, SleepEach
<1> QED
  BY <1>1, <1>2, <1>3, OffCvStutters

-----------------------------------------------------------------------------

(* cv_wait() and cv_timedwait(): the mutex is given up and the wait begins in
   one step. *)
LEMMA CvWaitRefines ==
  ASSUME RefInv, NEW t \in Thread, NEW c \in Cv, NEW m \in Mutex,
         NEW nsec \in Delay \cup {NotSleeping}, CvWait(t, c, m, nsec)
  PROVE  Mon!Wait(t, c, m)
<1>1. /\ pc[t] = "run" /\ held[t][m] > 0 /\ Exit(t, m)
      /\ waitq' = [waitq EXCEPT ![m] = QueueAfterExit(m), ![c] = Append(@, t)]
      /\ onlist' = (onlist \ WokenByExit(m)) \cup {t}
      /\ WakeThenSleep(WokenByExit(m), t, Deadline(nsec))
      /\ pc' = [pc EXCEPT ![t] = "cv"] /\ mtxarg' = [mtxarg EXCEPT ![t] = m]
      /\ UNCHANGED aborted
  BY DEF CvWait, InKernel
<1>2. WokenByExit(m) \in SUBSET Thread /\ \A u \in WokenByExit(m) : pc[u] # "cv"
  BY ExitWakesNoCv
<1>3. /\ runnable' = (runnable \cup WokenByExit(m)) \ {t}
      /\ \A u \in Thread : u # t /\ u \notin WokenByExit(m) => wakeup_time'[u] = wakeup_time[u]
  BY <1>1, <1>2, SleepEach DEF RefInv, Inv, TypeOK
<1>4. /\ pc'[t] = "cv" /\ \A u \in Thread : u # t => pc'[u] = pc[u]
      /\ mtxarg'[t] = m /\ \A u \in Thread : u # t => mtxarg'[u] = mtxarg[u]
      /\ onlist \subseteq Thread /\ onlist' \subseteq Thread
  BY <1>1 DEF RefInv, Inv, TypeOK, SchedTypeOK
<1>5. MonWaiting' = [MonWaiting EXCEPT ![c] = Append(@, t)]
  <2>1. c # m /\ m \notin Cv /\ waitq \in [Waithead -> Seq(Thread)]
    BY WaitheadAssumption DEF RefInv, Inv, TypeOK, SchedTypeOK
  <2>2. waitq'[c] = Append(waitq[c], t) /\ \A e \in Cv : e # c => waitq'[e] = waitq[e]
    BY <1>1, <2>1, WaitheadAssumption
  <2> QED
    BY <2>2 DEF MonWaiting
<1>6. MonWants' = [MonWants EXCEPT ![t] = m] /\ MonWants[t] = None
  BY <1>1, <1>4 DEF MonWants
<1>7. MonTimed' \in {MonTimed, MonTimed \cup {t}}
  <2>1. \A u \in Thread : u # t => (u \in MonTimed' <=> u \in MonTimed)
    BY <1>1, <1>2, <1>3, <1>4 DEF MonTimed
  <2>2. t \notin MonTimed
    BY <1>1 DEF MonTimed
  <2>3. MonTimed \subseteq Thread /\ MonTimed' \subseteq Thread
    BY <1>4 DEF MonTimed
  <2> QED
    BY <2>1, <2>2, <2>3
<1>8. MonInterrupted' = MonInterrupted
  BY <1>1, <1>2, <1>3, <1>4 DEF MonInterrupted
<1>9. Mon!Released(t, m)
  BY <1>1, ExitReleases
<1> QED
  BY <1>1, <1>5, <1>6, <1>7, <1>8, <1>9
     DEF Mon!Wait, MonWaiting, MonWants, MonTimed, MonInterrupted

(* Who goes on after wait() was signalled, or interrupted. *)
LEMMA MayReturn ==
  ASSUME RefInv, NEW t \in Thread, Alive(t), pc[t] = "cv"
  PROVE  /\ Mon!MayReturn(t) /\ t \in runnable /\ wakeup_time[t] = NotSleeping
         /\ mtxarg[t] \in Mutex /\ cvarg[t] \in Cv
<1>1. /\ t \in runnable /\ wakeup_time[t] = NotSleeping
      /\ mtxarg[t] \in Mutex /\ cvarg[t] \in Cv /\ mtxarg[t] # None
  BY RunningFacts, WaitheadAssumption, NoneAssumption DEF RefInv, Inv, WokenIsUntimed, ArgsKnown
<1>2. CASE t \in onlist
  <2>1. t \in MonInterrupted
    BY <1>1, <1>2 DEF MonInterrupted
  <2> QED
    BY <1>1, <2>1 DEF Mon!MayReturn, MonInterrupted
<1>3. CASE t \notin onlist
  <2>1. t \notin Mon!Waiting
    BY <1>3, WaitingIs
  <2>2. MonWants[t] # None
    BY <1>1 DEF MonWants
  <2>3. t \in Mon!Signalled
    BY <2>1, <2>2 DEF Mon!Signalled, MonWants
  <2> QED
    BY <1>1, <2>3 DEF Mon!MayReturn
<1> QED
  BY <1>2, <1>3

(* It leaves the queue, if nobody took it off. *)
LEMMA LeavesQueue ==
  ASSUME RefInv, NEW t \in Thread, Alive(t), pc[t] = "cv",
         waitq' = [waitq EXCEPT ![cvarg[t]] = WaitLeft(t, cvarg[t])], onlist' = onlist \ {t},
         \A u \in Thread : u # t => pc'[u] = pc[u],
         UNCHANGED <<runnable, wakeup_time>>
  PROVE  Mon!NotWaiting(t)
<1>1. /\ t \in runnable /\ wakeup_time[t] = NotSleeping /\ cvarg[t] \in Cv
      /\ onlist \subseteq Thread /\ waitq \in [Waithead -> Seq(Thread)]
  BY MayReturn DEF RefInv, Inv, TypeOK, SchedTypeOK
<1>2. MonTimed' = MonTimed /\ MonInterrupted' = MonInterrupted \ {t}
  BY <1>1 DEF MonTimed, MonInterrupted
<1>3. ASSUME NEW c \in Cv
      PROVE  waitq'[c] = Mon!Without(waitq[c], t)
  <2>1. t \in ToSet(waitq[c]) <=> t \in onlist /\ cvarg[t] = c
    BY WaitingIs
  <2>2. Mon!Without(waitq[c], t) = IF t \in ToSet(waitq[c]) THEN Unlink(waitq[c], t) ELSE waitq[c]
    BY DEF Mon!Without, Mon!ToSet, ToSet, Unlink, Mon!RemoveAt, RemoveAt
  <2>3. CASE c = cvarg[t]
    BY <1>1, <2>1, <2>2, <2>3, WaitheadAssumption DEF WaitLeft
  <2>4. CASE c # cvarg[t]
    BY <1>1, <2>1, <2>2, <2>4, WaitheadAssumption
  <2> QED
    BY <2>3, <2>4
<1>4. MonWaiting' = [c \in Cv |-> Mon!Without(MonWaiting[c], t)]
  BY <1>3 DEF MonWaiting
<1> QED
  BY <1>2, <1>4 DEF Mon!NotWaiting, MonWaiting, MonTimed, MonInterrupted

LEMMA CvReturnRefines ==
  ASSUME RefInv, NEW t \in Thread, CvReturn(t)
  PROVE  Mon!Return(t)
<1>1. /\ Alive(t) /\ pc[t] = "cv" /\ Enter(t, mtxarg[t]) /\ pc' = [pc EXCEPT ![t] = "run"]
      /\ mtxarg' = [mtxarg EXCEPT ![t] = None]
      /\ waitq' = [waitq EXCEPT ![cvarg[t]] = WaitLeft(t, cvarg[t])] /\ onlist' = onlist \ {t}
      /\ UNCHANGED <<runnable, wakeup_time, aborted>>
  BY DEF CvReturn
<1>2. Mon!MayReturn(t) /\ mtxarg[t] \in Mutex
  BY <1>1, MayReturn
<1>3. pc'[t] = "run" /\ \A u \in Thread : u # t => pc'[u] = pc[u] /\ mtxarg'[u] = mtxarg[u]
  BY <1>1 DEF RefInv, Inv, TypeOK
<1>4. Mon!NotWaiting(t)
  BY <1>1, <1>3, LeavesQueue
<1>5. MonWants[t] = mtxarg[t] /\ MonWants' = [MonWants EXCEPT ![t] = None]
  BY <1>1, <1>3 DEF MonWants
<1>6. Mon!Acquired(t, mtxarg[t])
  BY <1>1, <1>2 DEF Enter, CanEnter, RefInv, Inv, OwnerAgrees, Mon!Acquired, Mon!Free
<1>7. Mon!Acquired(t, MonWants[t])
  BY <1>5, <1>6
<1> QED
  BY <1>1, <1>2, <1>4, <1>5, <1>7 DEF Mon!Return, MonWants

(* The abort of mutex_enter_nowrap(). *)
LEMMA CvReturnAbortsRefines ==
  ASSUME RefInv, NEW t \in Thread, CvReturnAborts(t)
  PROVE  Mon!Stop(t)
<1>1. /\ Alive(t) /\ pc[t] = "cv" /\ ~CanEnter(t, mtxarg[t]) /\ aborted' = mtxarg[t]
      /\ waitq' = [waitq EXCEPT ![cvarg[t]] = WaitLeft(t, cvarg[t])] /\ onlist' = onlist \ {t}
      /\ UNCHANGED <<pc, mtxarg, runnable, wakeup_time, mtx_v, mtx_o>>
  BY DEF CvReturnAborts, lockVars
<1>2. Mon!MayReturn(t) /\ mtxarg[t] \in Mutex /\ mtxarg[t] # None
  BY <1>1, MayReturn, WaitheadAssumption, NoneAssumption
<1>3. Mon!NotWaiting(t)
  BY <1>1, LeavesQueue
<1>4. MonWants[t] = mtxarg[t] /\ MonWants' = MonWants
  BY <1>1 DEF MonWants
<1>5. ~Mon!Free(t, mtxarg[t])
  BY <1>1, <1>2 DEF CanEnter, RefInv, Inv, OwnerAgrees, Mon!Free
<1>6. ~Mon!Free(t, MonWants[t])
  BY <1>4, <1>5
<1> QED
  BY <1>1, <1>2, <1>3, <1>4, <1>6 DEF Mon!Stop, MonWants

-----------------------------------------------------------------------------

(* A signal takes threads off the queue of a cv. *)
LEMMA WakeLeaves ==
  ASSUME RefInv, NEW c \in Cv, NEW q, NEW W \in SUBSET Thread,
         waitq' = [waitq EXCEPT ![c] = q], onlist' = onlist \ W, Wake(W),
         UNCHANGED <<pc, mtxarg, mtx_v, mtx_o, aborted>>
  PROVE  Mon!Leave(c, W, q)
<1>1. /\ runnable' = runnable \cup W
      /\ \A u \in Thread : u \notin W => wakeup_time'[u] = wakeup_time[u]
  BY WakeEach DEF RefInv, Inv, TypeOK
<1>2. onlist \subseteq Thread /\ waitq \in [Waithead -> Seq(Thread)]
  BY DEF RefInv, Inv, TypeOK, SchedTypeOK
<1>3. MonTimed' = MonTimed \ W /\ MonInterrupted' = MonInterrupted \ W
  BY <1>1, <1>2 DEF MonTimed, MonInterrupted
<1>4. MonWaiting' = [MonWaiting EXCEPT ![c] = q]
  BY <1>2, WaitheadAssumption DEF MonWaiting
<1>5. MonWants' = MonWants
  BY DEF MonWants
<1> QED
  BY <1>3, <1>4, <1>5 DEF Mon!Leave, MonWaiting, MonWants, MonTimed, MonInterrupted

(* cv_signal() and cv_broadcast(): on a cv that nobody waits for they change
   nothing. *)
LEMMA CvWakeRefines ==
  ASSUME RefInv, NEW t \in Thread, NEW c \in Cv, CvSignal(t, c) \/ CvBroadcast(t, c)
  PROVE  Mon!Signal(c) \/ Mon!Broadcast(c) \/ UNCHANGED Mon!vars
<1>1. /\ waitq[c] \in Seq(Thread) /\ waitq \in [Waithead -> Seq(Thread)] /\ c \in Waithead
      /\ onlist \subseteq Thread /\ SchedTypeOK /\ ToSet(waitq[c]) \in SUBSET Thread
  BY WaitheadAssumption, ToSetType DEF RefInv, Inv, TypeOK, SchedTypeOK
<1>2. UNCHANGED <<pc, mtxarg, mtx_v, mtx_o, aborted>>
  BY DEF CvSignal, CvBroadcast, lockVars
<1>3. CASE waitq[c] = <<>>
  <2>1. ToSet(waitq[c]) = {}
    BY <1>3 DEF ToSet
  <2>2. waitq' = waitq /\ onlist' = onlist /\ Wake({})
    BY <1>1, <1>3, <2>1 DEF CvSignal, CvBroadcast, WokenBySignal, FirstOf, RestOf
  <2>3. /\ runnable' = runnable \cup {}
        /\ \A u \in Thread : u \notin {} => wakeup_time'[u] = wakeup_time[u]
    <3>1. {} \in SUBSET Thread
      OBVIOUS
    <3> QED
      BY <1>1, <2>2, <3>1, WakeEach
  <2>4. MonWaiting' = MonWaiting /\ MonTimed' = MonTimed /\ MonInterrupted' = MonInterrupted
    BY <1>1, <1>2, <2>2, <2>3, CvSideKept
  <2>5. MonWants' = MonWants
    BY <1>2 DEF MonWants
  <2> QED
    BY <1>2, <2>4, <2>5, Stutters
<1>4. CASE waitq[c] # <<>> /\ CvSignal(t, c)
  <2>1. PICK h \in Thread, q \in Seq(Thread) : h = Head(waitq[c]) /\ q = Tail(waitq[c])
    <3>1. waitq[c] \in Seq(Thread) /\ waitq[c] # <<>>
      BY <1>1, <1>4
    <3>2. Head(waitq[c]) \in Thread /\ Tail(waitq[c]) \in Seq(Thread)
      BY <3>1
    <3> QED
      BY <3>2
  <2>2. waitq' = [waitq EXCEPT ![c] = q] /\ onlist' = onlist \ {h} /\ Wake({h})
    BY <1>4, <2>1 DEF CvSignal, WokenBySignal, FirstOf, RestOf
  <2>3. Mon!Leave(c, {h}, q)
    BY <1>2, <2>2, WakeLeaves
  <2>4. MonWaiting[c] = waitq[c]
    BY DEF MonWaiting
  <2> QED
    BY <1>4, <2>1, <2>3, <2>4 DEF Mon!Signal, Mon!Leave, MonWaiting
<1>5. CASE waitq[c] # <<>> /\ CvBroadcast(t, c)
  <2>1. /\ waitq' = [waitq EXCEPT ![c] = <<>>] /\ onlist' = onlist \ ToSet(waitq[c])
        /\ Wake(ToSet(waitq[c]))
    BY <1>5 DEF CvBroadcast
  <2>2. Mon!Leave(c, ToSet(waitq[c]), <<>>)
    BY <1>1, <1>2, <2>1, WakeLeaves
  <2>3. MonWaiting[c] = waitq[c] /\ Mon!ToSet(MonWaiting[c]) = ToSet(waitq[c])
    BY DEF MonWaiting, Mon!ToSet, ToSet
  <2>4. MonWaiting[c] # <<>> /\ Mon!Leave(c, Mon!ToSet(MonWaiting[c]), <<>>)
    BY <1>5, <2>2, <2>3
  <2> QED
    BY <2>4 DEF Mon!Broadcast, MonWaiting
<1> QED
  BY <1>3, <1>4, <1>5

(* What the scheduler wakes on the queue of a cv is interrupted: by its
   timeout, or by its descriptor. *)
LEMMA WakeInterrupts ==
  ASSUME RefInv, NEW W \in SUBSET Thread, Wake(W),
         \A u \in W : u \in FdThread \/ wakeup_time[u] # NotSleeping,
         UNCHANGED <<waitq, onlist, pc, mtxarg, mtx_v, mtx_o, aborted>>
  PROVE  \E U \in SUBSET Thread : Mon!Interrupt(U)
<1> DEFINE U == {u \in W : u \in onlist /\ pc[u] = "cv"}
<1>1. /\ runnable' = runnable \cup W
      /\ \A u \in Thread : u \notin W => wakeup_time'[u] = wakeup_time[u]
      /\ \A u \in W : wakeup_time'[u] = NotSleeping
  <2>1. SchedTypeOK
    BY DEF RefInv, Inv, TypeOK
  <2>2. \A u \in W : wakeup_time'[u] = NotSleeping
    BY <2>1 DEF Wake, Unslept, SchedTypeOK
  <2> QED
    BY <2>1, <2>2, WakeEach
<1>2. onlist \subseteq Thread
  BY DEF RefInv, Inv, TypeOK, SchedTypeOK
<1>3. MonTimed' = MonTimed \ U /\ MonInterrupted' = MonInterrupted \cup U
  BY <1>1, <1>2 DEF MonTimed, MonInterrupted
<1>4. MonWaiting' = MonWaiting /\ MonWants' = MonWants
  BY DEF MonWaiting, MonWants
<1>5. U \subseteq Mon!Waiting \cap (MonTimed \cup FdThread)
  BY WaitingIs DEF MonTimed
<1>6. PICK V \in SUBSET Thread : V = U
  OBVIOUS
<1> HIDE DEF U
<1>7. Mon!Interrupt(V)
  BY <1>3, <1>4, <1>5, <1>6 DEF Mon!Interrupt, MonWaiting, MonWants, MonTimed, MonInterrupted
<1> QED
  BY <1>7

LEMMA SchedulerRefines ==
  ASSUME RefInv, Schedule \/ PollFds
  PROVE  ~MonStopped /\ \E U \in SUBSET Thread : Mon!Interrupt(U)
<1>1. PICK W \in SUBSET Thread :
        /\ Wake(W) /\ scheduling
        /\ \A u \in W : u \in FdThread \/ wakeup_time[u] # NotSleeping
        /\ UNCHANGED <<waitq, onlist, pc, mtxarg, mtx_v, mtx_o, aborted>>
  <2>1. CASE Schedule
    <3>1. PICK i \in DOMAIN thread_list :
            SwitchTo(i) /\ UNCHANGED <<pc, mtxarg, cvarg, vcpu, lockVars, aborted>>
      BY <2>1 DEF Schedule
    <3>2. PICK n \in Thread : n = thread_list[i]
      BY <3>1 DEF RefInv, Inv, TypeOK, SchedTypeOK
    <3>3. PICK W \in SUBSET Thread : W = {n} \ runnable
      OBVIOUS
    <3>4. /\ Wake(W) /\ scheduling /\ Ready(n)
          /\ UNCHANGED <<waitq, onlist, pc, mtxarg, mtx_v, mtx_o, aborted>>
      BY <3>1, <3>2, <3>3 DEF SwitchTo, FirstReady, lockVars
    <3>5. \A u \in W : wakeup_time[u] # NotSleeping
      BY <3>3, <3>4 DEF Ready, NotSleeping
    <3> QED
      BY <3>4, <3>5
  <2>2. CASE PollFds
    <3>1. PICK W \in SUBSET FdThread :
            Poll(W) /\ UNCHANGED <<pc, mtxarg, cvarg, vcpu, lockVars, aborted>>
      BY <2>2 DEF PollFds
    <3>2. /\ W \in SUBSET Thread /\ Wake(W) /\ scheduling
          /\ UNCHANGED <<waitq, onlist, pc, mtxarg, mtx_v, mtx_o, aborted>>
      BY <3>1, FdAssumption DEF Poll, lockVars
    <3> QED
      BY <3>1, <3>2
  <2> QED
    BY <2>1, <2>2
<1>2. \E U \in SUBSET Thread : Mon!Interrupt(U)
  BY <1>1, WakeInterrupts
<1>3. ~MonStopped
  BY <1>1 DEF RefInv, AbortStops, MonStopped
<1> QED
  BY <1>2, <1>3

LEMMA ClockTickRefines ==
  ASSUME RefInv, ClockTick \/ UNCHANGED vars
  PROVE  UNCHANGED Mon!vars
<1>1. UNCHANGED <<waitq, onlist, runnable, wakeup_time, pc, mtxarg, mtx_v, mtx_o, aborted>>
  BY DEF ClockTick, Tick, vars, schedVars, lockVars
<1>2. MonWaiting' = MonWaiting /\ MonTimed' = MonTimed /\ MonInterrupted' = MonInterrupted
  BY <1>1 DEF MonWaiting, MonTimed, MonInterrupted
<1>3. MonWants' = MonWants
  BY <1>1 DEF MonWants
<1> QED
  BY <1>1, <1>2, <1>3, Stutters

-----------------------------------------------------------------------------

LEMMA RefInvKept == RefInv /\ [Next]_vars => RefInv'
<1> SUFFICES ASSUME RefInv, [Next]_vars PROVE RefInv'
  OBVIOUS
<1>1. Inv'
  BY NextKeepsInv DEF RefInv
<1>2. SchedTypeOK /\ WokenIsUntimed /\ AbortStops /\ {} \in SUBSET Thread
  BY DEF RefInv, Inv, TypeOK
<1>3. CASE Schedule \/ PollFds
  <2>1. PICK W \in SUBSET Thread : Wake(W) /\ scheduling /\ UNCHANGED aborted
    <3>1. CASE Schedule
      <4>1. PICK i \in DOMAIN thread_list : SwitchTo(i) /\ UNCHANGED aborted
        BY <3>1 DEF Schedule
      <4>2. {thread_list[i]} \ runnable \in SUBSET Thread
        BY <1>2, <4>1 DEF SchedTypeOK
      <4> QED
        BY <4>1, <4>2 DEF SwitchTo
    <3>2. CASE PollFds
      BY <3>2, FdAssumption DEF PollFds, Poll
    <3> QED
      BY <1>3, <3>1, <3>2
  <2> QED
    BY <1>1, <1>2, <2>1, WokenStayUntimed DEF RefInv, AbortStops
<1>4. CASE ClockTick \/ UNCHANGED vars
  BY <1>1, <1>2, <1>4 DEF RefInv, WokenIsUntimed, AbortStops, ClockTick, Tick, vars, schedVars
<1>5. ASSUME NEW t \in Thread, TakeCpu(t) \/ MutexWon(t) \/ CvReturn(t) \/ CvReturnAborts(t)
      PROVE  RefInv'
  <2>1. UNCHANGED <<runnable, wakeup_time, scheduling>> /\ ~scheduling
    BY <1>5 DEF TakeCpu, MutexWon, CvReturn, CvReturnAborts, Alive, Running, schedVars
  <2> QED
    BY <1>1, <1>2, <2>1 DEF RefInv, WokenIsUntimed, AbortStops
<1>6. ASSUME NEW t \in Thread, NEW W \in SUBSET Thread, NEW tm, WakeThenSleep(W, t, tm),
             aborted = None, UNCHANGED aborted
      PROVE  RefInv'
  BY <1>1, <1>2, <1>6, SleeperStaysTimed DEF RefInv, AbortStops
<1>7. ASSUME NEW t \in Thread, MutexLost(t) \/ (\E d \in Delay : Sleep(t, d))
      PROVE  RefInv'
  BY <1>2, <1>6, <1>7 DEF MutexLost, Sleep, InKernel, Alive
<1>8. ASSUME NEW t \in Thread, NEW m \in Mutex, MutexBlock(t, m)
      PROVE  RefInv'
  BY <1>2, <1>6, <1>8 DEF MutexBlock, InKernel, Alive
<1>9. ASSUME NEW t \in Thread, NEW m \in Mutex, MutexEnter(t, m)
      PROVE  RefInv'
  BY <1>1, <1>2, <1>9 DEF RefInv, WokenIsUntimed, AbortStops, MutexEnter, schedVars
<1>10. ASSUME NEW t \in Thread, NEW m \in Mutex, MutexExit(t, m)
       PROVE  RefInv'
  <2>1. WokenByExit(m) \in SUBSET Thread
    BY ExitWakesNoCv
  <2>2. Wake(WokenByExit(m)) /\ UNCHANGED <<scheduling, aborted>>
    BY <1>10 DEF MutexExit
  <2> QED
    BY <1>1, <1>2, <2>1, <2>2, WokenStayUntimed DEF RefInv, AbortStops
<1>11. ASSUME NEW t \in Thread, NEW c \in Cv, NEW m \in Mutex,
              NEW nsec \in Delay \cup {NotSleeping}, CvWait(t, c, m, nsec)
       PROVE  RefInv'
  <2>1. WokenByExit(m) \in SUBSET Thread
    BY ExitWakesNoCv
  <2>2. /\ WakeThenSleep(WokenByExit(m), t, Deadline(nsec))
        /\ aborted = None /\ UNCHANGED aborted
    BY <1>11 DEF CvWait, InKernel, Alive
  <2>3. WokenIsUntimed'
    BY <1>2, <2>1, <2>2, SleeperStaysTimed
  <2> QED
    BY <1>1, <2>2, <2>3 DEF RefInv, AbortStops
<1>12. ASSUME NEW t \in Thread, NEW c \in Cv, CvSignal(t, c) \/ CvBroadcast(t, c)
       PROVE  RefInv'
  <2>1. waitq[c] \in Seq(Thread) /\ IsInjective(waitq[c])
    BY WaitheadAssumption DEF RefInv, Inv, TypeOK, SchedTypeOK, QueuesSound
  <2>2. ToSet(waitq[c]) \in SUBSET Thread /\ FirstOf(waitq[c]) \in SUBSET Thread
    BY <2>1, ToSetType, RestOfSet
  <2>3. /\ Wake(FirstOf(waitq[c])) \/ Wake(ToSet(waitq[c]))
        /\ UNCHANGED <<scheduling, aborted>>
    BY <1>12 DEF CvSignal, CvBroadcast, WokenBySignal
  <2> QED
    BY <1>1, <1>2, <2>2, <2>3, WokenStayUntimed DEF RefInv, AbortStops
<1> QED
  BY <1>3, <1>4, <1>5, <1>7, <1>8, <1>9, <1>10, <1>11, <1>12 DEF Next

(* Every step of the hypercalls is a step of the monitor, or none. *)
LEMMA NextRefines == RefInv /\ [Next]_vars => [Mon!Next]_Mon!vars
<1> SUFFICES ASSUME RefInv, [Next]_vars PROVE [Mon!Next]_Mon!vars
  OBVIOUS
<1>1. CASE Schedule \/ PollFds
  BY <1>1, SchedulerRefines DEF Mon!Next, MonStopped
<1>2. CASE ClockTick \/ UNCHANGED vars
  BY <1>2, ClockTickRefines
<1>3. ASSUME NEW t \in Thread, TakeCpu(t) \/ MutexLost(t) \/ \E d \in Delay : Sleep(t, d)
      PROVE  UNCHANGED Mon!vars
  BY <1>3, TakeCpuRefines, MutexWaitRefines, SleepRefines
<1>4. ASSUME NEW t \in Thread, NEW m \in Mutex, MutexBlock(t, m)
      PROVE  UNCHANGED Mon!vars
  BY <1>4, MutexWaitRefines
<1>5. ASSUME NEW t \in Thread, NEW m \in Mutex, MutexEnter(t, m) \/ MutexExit(t, m)
      PROVE  Mon!Next
  <2>1. ~(aborted # None)
    BY <1>5 DEF MutexEnter, MutexExit, InKernel, Alive
  <2>2. Mon!Lock(t, m) \/ Mon!Unlock(t, m)
    BY <1>5, MutexEnterRefines, MutexExitRefines
  <2> QED
    BY <2>1, <2>2 DEF Mon!Next
<1>6. ASSUME NEW t \in Thread, MutexWon(t)
      PROVE  Mon!Next
  <2>1. ~(aborted # None)
    BY <1>6 DEF MutexWon, Alive
  <2>2. PICK m \in Mutex : Mon!Lock(t, m)
    BY <1>6, MutexWonRefines
  <2> QED
    BY <2>1, <2>2 DEF Mon!Next
<1>7. ASSUME NEW t \in Thread, CvReturn(t) \/ CvReturnAborts(t)
      PROVE  Mon!Next
  <2>1. ~(aborted # None)
    BY <1>7 DEF CvReturn, CvReturnAborts, Alive
  <2>2. Mon!Return(t) \/ Mon!Stop(t)
    BY <1>7, CvReturnRefines, CvReturnAbortsRefines
  <2> QED
    BY <2>1, <2>2 DEF Mon!Next
<1>8. ASSUME NEW t \in Thread, NEW c \in Cv, NEW m \in Mutex,
             NEW nsec \in Delay \cup {NotSleeping}, CvWait(t, c, m, nsec)
      PROVE  Mon!Next
  <2>1. ~(aborted # None)
    BY <1>8 DEF CvWait, InKernel, Alive
  <2>2. Mon!Wait(t, c, m)
    BY <1>8, CvWaitRefines
  <2> QED
    BY <2>1, <2>2 DEF Mon!Next
<1>9. ASSUME NEW t \in Thread, NEW c \in Cv, CvSignal(t, c) \/ CvBroadcast(t, c)
      PROVE  [Mon!Next]_Mon!vars
  <2>1. ~(aborted # None)
    BY <1>9 DEF CvSignal, CvBroadcast, InKernel, Alive
  <2>2. Mon!Signal(c) \/ Mon!Broadcast(c) \/ UNCHANGED Mon!vars
    BY <1>9, CvWakeRefines
  <2> QED
    BY <2>1, <2>2 DEF Mon!Next
<1> QED
  BY <1>1, <1>2, <1>3, <1>4, <1>5, <1>6, <1>7, <1>8, <1>9 DEF Next

(* mutex_enter(), mutex_exit(), cv_wait(), cv_timedwait(), cv_signal() and
   cv_broadcast(), on top of the scheduler and its queues, are the operations
   of a monitor: the mutex is released and the wait begun in one step, a
   signal releases the longest waiter and is never lost, and nobody returns
   from cv_wait() without its mutex. *)
THEOREM LocksImplementMonitor == Spec => ImplementsMonitor
<1>1. Spec => []RefInv
  <2>1. Init => RefInv
    BY InitRefines
  <2> QED
    BY <2>1, RefInvKept, PTL DEF Spec
<1>2. Init => Mon!Init
  BY InitRefines
<1> QED
  BY <1>1, <1>2, NextRefines, PTL DEF Spec, ImplementsMonitor, Mon!Spec
=============================================================================
