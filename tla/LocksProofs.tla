----------------------------- MODULE LocksProofs -----------------------------
(***************************************************************************)
(* Proofs about Locks for any finite set of threads and any mutexes, cvs   *)
(* and delays: Inv is inductive, and it implies the invariants that the    *)
(* runs of MCLocks check.                                                  *)
(***************************************************************************)
EXTENDS Locks, SchedulerProofs, FiniteSetTheorems

(* Giving up and taking the CPU, and counting waiters, are mere
   abbreviations: they are expanded throughout. *)
USE DEF Unsched, Sched, CountIn, CountOut

(* A successful mutex_tryenter() keeps the owner fields in step. *)
LEMMA EnterKeepsOwner ==
  ASSUME TypeOK, OwnerAgrees, NEW t \in Thread, NEW m \in Mutex, Enter(t, m)
  PROVE  /\ mtx_v' \in [Mutex -> Nat]
         /\ mtx_o' \in [Mutex -> Thread \cup {NoThread}]
         /\ held' \in [Thread -> [Mutex -> Nat]]
         /\ OwnerAgrees'
         /\ \A n \in Mutex : mtx_v'[n] > 0 => mtx_v[n] > 0 \/ n = m
         /\ \A n \in Mutex \ {m} : mtx_v'[n] = mtx_v[n] /\ mtx_o'[n] = mtx_o[n]
         /\ mtx_v'[m] > 0 /\ mtx_o'[m] = t
  BY NoThreadAssumption DEF TypeOK, OwnerAgrees, Enter, CanEnter

(* So does mutex_exit() by a thread that has entered. *)
LEMMA ExitKeepsOwner ==
  ASSUME TypeOK, OwnerAgrees, NEW t \in Thread, NEW m \in Mutex, held[t][m] > 0, Exit(t, m)
  PROVE  /\ mtx_v' \in [Mutex -> Nat]
         /\ mtx_o' \in [Mutex -> Thread \cup {NoThread}]
         /\ held' \in [Thread -> [Mutex -> Nat]]
         /\ OwnerAgrees'
         /\ \A n \in Mutex \ {m} : mtx_v'[n] = mtx_v[n] /\ mtx_o'[n] = mtx_o[n]
         /\ mtx_v[m] = held[t][m] /\ mtx_o[m] = t /\ mtx_v'[m] = mtx_v[m] - 1
         /\ mtx_v'[m] > 0 => mtx_o'[m] = t
  BY NoThreadAssumption DEF TypeOK, OwnerAgrees, Exit

(* The queue that mutex_exit() leaves, and whom it takes off it. *)
LEMMA QueueAfterExitSet ==
  ASSUME TypeOK, QueuesSound, NEW m \in Mutex
  PROVE  /\ QueueAfterExit(m) \in Seq(Thread)
         /\ IsInjective(QueueAfterExit(m))
         /\ ToSet(QueueAfterExit(m)) = ToSet(waitq[m]) \ WokenByExit(m)
         /\ WokenByExit(m) \subseteq ToSet(waitq[m])
         /\ mtx_v[m] = 1 /\ waitq[m] # <<>> => WokenByExit(m) # {}
<1>1. m \in Waithead /\ waitq[m] \in Seq(Thread) /\ IsInjective(waitq[m])
  BY WaitheadAssumption DEF TypeOK, SchedTypeOK, QueuesSound
<1>2. CASE mtx_v[m] = 1
  BY <1>1, <1>2, RestOfSet DEF QueueAfterExit, WokenByExit, FirstOf
<1>3. CASE mtx_v[m] # 1
  BY <1>1, <1>3 DEF QueueAfterExit, WokenByExit
<1> QED
  BY <1>2, <1>3

(* A waiting thread that its own wait() takes off the queue. *)
LEMMA WaitLeftSet ==
  ASSUME TypeOK, QueuesSound, NEW w \in Waithead, NEW t \in Thread, QueueOf(t) = w
  PROVE  /\ WaitLeft(t, w) \in Seq(Thread)
         /\ IsInjective(WaitLeft(t, w))
         /\ ToSet(WaitLeft(t, w)) = ToSet(waitq[w]) \ {t}
<1>1. waitq[w] \in Seq(Thread) /\ IsInjective(waitq[w])
  BY DEF TypeOK, SchedTypeOK, QueuesSound
<1>2. t \in onlist <=> t \in ToSet(waitq[w])
  BY DEF QueuesSound
<1>3. CASE t \in onlist
  BY <1>1, <1>2, <1>3, UnlinkSet DEF WaitLeft
<1>4. CASE t \notin onlist
  BY <1>1, <1>2, <1>4 DEF WaitLeft
<1> QED
  BY <1>3, <1>4

-----------------------------------------------------------------------------

(* A step that neither starts nor ends a cv_wait() keeps the counts. *)
LEMMA NwaitersKept ==
  ASSUME NwaitersCounts, UNCHANGED nwaiters,
         \A u \in Thread : pc'[u] = "cv" <=> pc[u] = "cv",
         \A u \in Thread : pc[u] = "cv" => cvarg'[u] = cvarg[u]
  PROVE  NwaitersCounts'
<1>1. \A c \in Cv : Waiters(c)' = Waiters(c)
  BY DEF Waiters
<1> QED
  BY <1>1 DEF NwaitersCounts

(* A cv_wait() that starts, and one that returns, changes its own count. *)
LEMMA WaitersChange ==
  ASSUME NEW c \in Cv, NEW t \in Thread
  PROVE  /\ t \notin Waiters(c) => Cardinality(Waiters(c) \cup {t}) = Cardinality(Waiters(c)) + 1
         /\ t \in Waiters(c) => /\ Cardinality(Waiters(c)) > 0
                                /\ Cardinality(Waiters(c) \ {t}) = Cardinality(Waiters(c)) - 1
<1>1. IsFiniteSet(Waiters(c))
  <2>1. Waiters(c) \subseteq Thread
    BY DEF Waiters
  <2> QED
    BY <2>1, ThreadAssumption, FS_Subset
<1>2. Cardinality(Waiters(c)) \in Nat
  BY <1>1, FS_CardinalityType
<1>3. t \in Waiters(c) => Cardinality(Waiters(c)) # 0
  BY <1>1, FS_EmptySet
<1>4. t \notin Waiters(c) => Cardinality(Waiters(c) \cup {t}) = Cardinality(Waiters(c)) + 1
  BY <1>1, FS_AddElement
<1>5. t \in Waiters(c) => Cardinality(Waiters(c) \ {t}) = Cardinality(Waiters(c)) - 1
  BY <1>1, FS_RemoveElement
<1> QED
  BY <1>2, <1>3, <1>4, <1>5

-----------------------------------------------------------------------------

(* The initial states satisfy Inv. *)
LEMMA InitInv == Init => Inv
<1> SUFFICES ASSUME Init PROVE Inv
  OBVIOUS
<1>1. thread_list \in Seq(Thread) /\ current_thread \in Thread
  <2>1. PICK list \in SetToSeqs(Thread) : thread_list = list /\ current_thread = Head(list)
    BY DEF Init
  <2>2. Cardinality(Thread) \in Nat /\ Cardinality(Thread) # 0
    BY ThreadAssumption, FS_CardinalityType, FS_EmptySet
  <2>3. list \in [1..Cardinality(Thread) -> Thread]
    BY <2>1 DEF SetToSeqs
  <2>4. list \in Seq(Thread) /\ Len(list) = Cardinality(Thread)
    BY <2>2, <2>3
  <2> QED
    BY <2>1, <2>2, <2>3, <2>4
<1>2. TypeOK
  <2>1. <<>> \in Seq(Thread)
    OBVIOUS
  <2>2. waitq \in [Waithead -> Seq(Thread)]
    BY <2>1 DEF Init
  <2>3. wakeup_time \in [Thread -> NotSleeping..MaxTime] /\ clock \in 0..MaxTime
    BY TimeAssumption DEF Init, NotSleeping
  <2>4. SchedTypeOK
    BY <1>1, <2>2, <2>3 DEF Init, SchedTypeOK
  <2> QED
    BY <2>4 DEF Init, TypeOK
<1>3. OwnerAgrees /\ ArgsKnown /\ CpuFollowsCurrent /\ SpinHeldByCurrent
  BY <1>1, SpinAssumption, NoThreadAssumption
     DEF Init, OwnerAgrees, ArgsKnown, CpuFollowsCurrent, SpinHeldByCurrent
<1>4. QueuesSound /\ FreeMutexHasTaker
  BY <1>1, NoneAssumption, WaitheadAssumption
     DEF Init, QueuesSound, FreeMutexHasTaker, QueueOf, IsInjective, ToSet
<1>5. NwaitersCounts
  <2>1. \A c \in Cv : Waiters(c) = {}
    BY DEF Init, Waiters
  <2> QED
    BY <2>1, FS_EmptySet DEF Init, NwaitersCounts
<1> QED
  BY <1>2, <1>3, <1>4, <1>5 DEF Inv

-----------------------------------------------------------------------------

(* The facts of Inv that every action of a running thread starts from. *)
LEMMA RunningFacts ==
  ASSUME Inv, NEW t \in Thread, Alive(t)
  PROVE  t = current_thread /\ ~scheduling /\ aborted = None /\ t \in runnable
  BY DEF Inv, Alive, Running, CpuFollowsCurrent

(* Steps that leave the queues alone keep them sound. *)
LEMMA QueuesKept ==
  ASSUME TypeOK, QueuesSound, UNCHANGED <<waitq, onlist, aborted>>,
         \A u \in Thread : QueueOf(u)' = QueueOf(u),
         \A u \in runnable : u \in runnable' \/ QueueOf(u) = None
  PROVE  QueuesSound'
  BY DEF QueuesSound, TypeOK, SchedTypeOK

(* So do steps that change the queue w only, when they link there whom they
   put on onlist and unlink whom they take off. *)
LEMMA QueueChanged ==
  ASSUME TypeOK, TypeOK', QueuesSound, NEW w \in Waithead,
         IsInjective(waitq'[w]),
         \A u \in Thread : u \in ToSet(waitq'[w]) <=> u \in onlist' /\ QueueOf(u)' = w,
         \A v \in Waithead \ {w} : waitq'[v] = waitq[v],
         \A u \in Thread, v \in Waithead \ {w} :
             (u \in onlist /\ QueueOf(u) = v) <=> (u \in onlist' /\ QueueOf(u)' = v),
         \A u \in Thread : QueueOf(u)' # None /\ u \notin onlist' /\ aborted' = None
                               => u \in runnable'
  PROVE  QueuesSound'
<1>1. \A v \in Waithead : ToSet(waitq'[v]) \subseteq Thread /\ onlist' \subseteq Thread
  BY ToSetType DEF TypeOK, SchedTypeOK
<1>2. ASSUME NEW v \in Waithead
      PROVE  IsInjective(waitq'[v]) /\ ToSet(waitq'[v]) = {u \in onlist' : QueueOf(u)' = v}
  <2>1. CASE v = w
    BY <2>1, <1>1
  <2>2. CASE v # w
    <3>1. waitq'[v] = waitq[v] /\ v \in Waithead \ {w}
      BY <2>2
    <3>2. \A u \in Thread : u \in ToSet(waitq[v]) <=> u \in onlist /\ QueueOf(u) = v
      BY DEF QueuesSound, TypeOK, SchedTypeOK
    <3>3. \A u \in Thread : u \in ToSet(waitq'[v]) <=> u \in onlist' /\ QueueOf(u)' = v
      BY <3>1, <3>2
    <3> QED
      BY <3>1, <3>3, <1>1 DEF QueuesSound
  <2> QED
    BY <2>1, <2>2
<1> QED
  BY <1>2 DEF QueuesSound

(* A free mutex keeps its taker when nobody who waits for a mutex changes. *)
LEMMA TakerKept ==
  ASSUME TypeOK, FreeMutexHasTaker,
         \A u \in runnable : pc[u] = "mutex" =>
             u \in runnable' /\ pc'[u] = "mutex" /\ mtxarg'[u] = mtxarg[u],
         \A n \in Mutex : mtx_v'[n] = 0 /\ waitq'[n] # <<>> => mtx_v[n] = 0 /\ waitq[n] # <<>>
  PROVE  FreeMutexHasTaker'
  BY DEF FreeMutexHasTaker

(* A thread's first entry into the rump kernel, and the end of clock_sleep(). *)
LEMMA TakeCpuKeepsInv ==
  ASSUME Inv, NEW t \in Thread, TakeCpu(t)
  PROVE  Inv'
<1> USE DEF Inv
<1>1. TypeOK'
  BY DEF TakeCpu, TypeOK, SchedTypeOK, schedVars, lockVars
<1>2. /\ \A u \in Thread \ {t} : pc'[u] = pc[u]
      /\ pc[t] \in {"start", "sleep"} /\ pc'[t] = "run"
      /\ UNCHANGED <<schedVars, mtxarg, cvarg, lockVars, aborted>>
  BY DEF TakeCpu, TypeOK
<1>3. OwnerAgrees' /\ ArgsKnown'
  BY <1>2 DEF lockVars, OwnerAgrees, ArgsKnown
<1>4. QueuesSound'
  BY <1>2, QueuesKept DEF QueueOf, schedVars
<1>5. FreeMutexHasTaker'
  BY <1>2, TakerKept DEF schedVars, lockVars, TypeOK, SchedTypeOK
<1>6. CpuFollowsCurrent' /\ SpinHeldByCurrent'
  BY <1>2, RunningFacts DEF TakeCpu, TypeOK, SchedTypeOK, schedVars, lockVars,
     CpuFollowsCurrent, SpinHeldByCurrent
<1>7. NwaitersCounts'
  BY <1>2, NwaitersKept DEF lockVars
<1> QED
  BY <1>1, <1>3, <1>4, <1>5, <1>6, <1>7

(* clock_sleep() gives up the CPU; no spin mutex is held then. *)
LEMMA SleepKeepsInv ==
  ASSUME Inv, NEW t \in Thread, NEW d \in Delay, Sleep(t, d)
  PROVE  Inv'
<1> USE DEF Inv
<1>1. t = current_thread /\ ~scheduling /\ aborted = None /\ pc[t] = "run"
  BY RunningFacts DEF Sleep, InKernel
<1>2. /\ runnable' = runnable \ {t}
      /\ runnable' \subseteq Thread
      /\ wakeup_time' \in [Thread -> NotSleeping..MaxTime]
      /\ scheduling' = TRUE
  <2>1. Deadline(d) \in NotSleeping..MaxTime
    BY DeadlineType, TimeAssumption DEF Sleep, TypeOK, SchedTypeOK
  <2> QED
    BY <2>1, WakeThenSleepType DEF Sleep, TypeOK, WakeThenSleep, Woken
<1>3. /\ \A u \in Thread \ {t} : pc'[u] = pc[u]
      /\ pc'[t] = "sleep" /\ vcpu' = NoThread
      /\ UNCHANGED <<thread_list, current_thread, waitq, onlist, clock, mtxarg, cvarg,
                     lockVars, aborted>>
  BY DEF Sleep, TypeOK
<1>4. TypeOK'
  BY <1>2, <1>3 DEF Sleep, TypeOK, SchedTypeOK, lockVars
<1>5. OwnerAgrees' /\ ArgsKnown'
  BY <1>3 DEF lockVars, OwnerAgrees, ArgsKnown
<1>6. QueuesSound'
  BY <1>1, <1>2, <1>3, QueuesKept DEF QueueOf
<1>7. FreeMutexHasTaker'
  BY <1>1, <1>2, <1>3, TakerKept DEF lockVars, TypeOK, SchedTypeOK
<1>8. CpuFollowsCurrent'
  BY <1>1, <1>2, <1>3 DEF TypeOK, SchedTypeOK, CpuFollowsCurrent
<1>9. SpinHeldByCurrent'
  <2>1. \A s \in Spin : held[t][s] = 0 /\ s \in Mutex
    BY SpinAssumption, NoneAssumption, WaitheadAssumption DEF Sleep, MayBlock
  <2>2. \A s \in Spin : ~(mtx_v[s] > 0)
    BY <2>1, <1>1 DEF SpinHeldByCurrent, OwnerAgrees, TypeOK
  <2> QED
    BY <2>2, <1>3 DEF SpinHeldByCurrent, lockVars
<1>10. NwaitersCounts'
  BY <1>1, <1>3, NwaitersKept DEF lockVars
<1> QED
  BY <1>4, <1>5, <1>6, <1>7, <1>8, <1>9, <1>10

(* An entry that succeeds at once. *)
LEMMA MutexEnterKeepsInv ==
  ASSUME Inv, NEW t \in Thread, NEW m \in Mutex, MutexEnter(t, m)
  PROVE  Inv'
<1> USE DEF Inv
<1>1. t = current_thread /\ ~scheduling /\ aborted = None /\ pc[t] = "run"
  BY RunningFacts DEF MutexEnter, InKernel
<1>2. /\ mtx_v' \in [Mutex -> Nat]
      /\ mtx_o' \in [Mutex -> Thread \cup {NoThread}]
      /\ held' \in [Thread -> [Mutex -> Nat]]
      /\ OwnerAgrees'
      /\ \A n \in Mutex \ {m} : mtx_v'[n] = mtx_v[n] /\ mtx_o'[n] = mtx_o[n]
      /\ mtx_v'[m] > 0 /\ mtx_o'[m] = t
  BY EnterKeepsOwner DEF MutexEnter
<1>3. UNCHANGED <<schedVars, pc, mtxarg, cvarg, vcpu, nwaiters, aborted>>
  BY DEF MutexEnter
<1>4. TypeOK'
  BY <1>2, <1>3 DEF TypeOK, SchedTypeOK, schedVars
<1>5. ArgsKnown' /\ CpuFollowsCurrent'
  BY <1>3 DEF ArgsKnown, CpuFollowsCurrent, schedVars
<1>6. QueuesSound'
  BY <1>3, QueuesKept DEF QueueOf, schedVars
<1>7. FreeMutexHasTaker'
  <2>1. \A n \in Mutex : mtx_v'[n] = 0 => mtx_v[n] = 0
    BY <1>2 DEF TypeOK
  <2> QED
    BY <2>1, <1>3, TakerKept DEF schedVars
<1>8. SpinHeldByCurrent'
  BY <1>1, <1>2, <1>3, SpinAssumption DEF SpinHeldByCurrent, schedVars
<1>9. NwaitersCounts'
  BY <1>3, NwaitersKept
<1> QED
  BY <1>2, <1>4, <1>5, <1>6, <1>7, <1>8, <1>9

(* mutex_enter() joins the queue of a mutex that is taken. *)
LEMMA MutexBlockKeepsInv ==
  ASSUME Inv, NEW t \in Thread, NEW m \in Mutex, MutexBlock(t, m)
  PROVE  Inv'
<1> USE DEF Inv
<1>1. t = current_thread /\ ~scheduling /\ aborted = None /\ pc[t] = "run"
  BY RunningFacts DEF MutexBlock, InKernel
<1>2. /\ m \in Waithead /\ m # None
      /\ QueueOf(t) = None /\ t \notin ToSet(waitq[m])
  BY <1>1, WaitheadAssumption, NoneAssumption DEF QueuesSound, QueueOf
<1>3. /\ Append(waitq[m], t) \in Seq(Thread)
      /\ IsInjective(Append(waitq[m], t))
      /\ ToSet(Append(waitq[m], t)) = ToSet(waitq[m]) \cup {t}
  BY <1>2, AppendSet DEF TypeOK, SchedTypeOK, QueuesSound
<1>4. /\ runnable' = runnable \ {t}
      /\ runnable' \subseteq Thread
      /\ wakeup_time' \in [Thread -> NotSleeping..MaxTime]
      /\ scheduling' = TRUE
  <2>1. NotSleeping \in NotSleeping..MaxTime
    BY TimeAssumption DEF NotSleeping
  <2> QED
    BY <2>1, WakeThenSleepType DEF MutexBlock, TypeOK, WakeThenSleep, Woken
<1>5. /\ \A u \in Thread \ {t} : pc'[u] = pc[u] /\ mtxarg'[u] = mtxarg[u]
      /\ pc'[t] = "mutex" /\ mtxarg'[t] = m /\ vcpu' = NoThread
      /\ waitq'[m] = Append(waitq[m], t)
      /\ \A w \in Waithead \ {m} : waitq'[w] = waitq[w]
      /\ waitq' \in [Waithead -> Seq(Thread)]
      /\ onlist' = onlist \cup {t}
      /\ UNCHANGED <<thread_list, current_thread, clock, cvarg, lockVars, aborted>>
  BY <1>2, <1>3 DEF MutexBlock, TypeOK, SchedTypeOK
<1>6. TypeOK'
  <2>1. SchedTypeOK'
    BY <1>4, <1>5 DEF TypeOK, SchedTypeOK
  <2> QED
    BY <2>1, <1>5 DEF MutexBlock, TypeOK, lockVars
<1>7. OwnerAgrees' /\ ArgsKnown'
  BY <1>5 DEF lockVars, OwnerAgrees, ArgsKnown
<1>8. QueueOf(t)' = m /\ \A u \in Thread \ {t} : QueueOf(u)' = QueueOf(u)
  BY <1>5 DEF QueueOf
<1>9. QueuesSound'
  <2>1. \A u \in Thread : u \in ToSet(waitq[m]) <=> u \in onlist /\ QueueOf(u) = m
    BY <1>2 DEF QueuesSound, TypeOK, SchedTypeOK
  <2>2. \A u \in Thread : u \in ToSet(waitq'[m]) <=> u \in onlist' /\ QueueOf(u)' = m
    BY <2>1, <1>3, <1>5, <1>8
  <2>3. \A u \in Thread : QueueOf(u)' # None /\ u \notin onlist' => u \in runnable'
    BY <1>1, <1>4, <1>5, <1>8 DEF QueuesSound
  <2>4. \A u \in Thread, v \in Waithead \ {m} :
            (u \in onlist /\ QueueOf(u) = v) <=> (u \in onlist' /\ QueueOf(u)' = v)
    BY <1>2, <1>5, <1>8, NoneAssumption
  <2>5. \A u \in Thread : QueueOf(u)' # None /\ u \notin onlist' /\ aborted' = None
                             => u \in runnable'
    BY <2>3
  <2>6. IsInjective(waitq'[m]) /\ \A v \in Waithead \ {m} : waitq'[v] = waitq[v]
    BY <1>3, <1>5
  <2>7. TypeOK /\ QueuesSound
    OBVIOUS
  <2> HIDE DEF Inv
  <2> QED
    BY <2>2, <2>4, <2>5, <2>6, <2>7, <1>2, <1>6, QueueChanged
<1>10. FreeMutexHasTaker'
  <2>1. mtx_v'[m] # 0
    BY <1>5 DEF MutexBlock, CanEnter, lockVars
  <2>2. \A n \in Mutex : mtx_v'[n] = 0 /\ waitq'[n] # <<>> => mtx_v[n] = 0 /\ waitq[n] # <<>>
    BY <2>1, <1>5, WaitheadAssumption DEF lockVars
  <2> QED
    BY <2>2, <1>1, <1>4, <1>5, TakerKept DEF TypeOK, SchedTypeOK
<1>11. CpuFollowsCurrent'
  BY <1>1, <1>4, <1>5 DEF TypeOK, SchedTypeOK, CpuFollowsCurrent
<1>12. SpinHeldByCurrent'
  <2>1. \A s \in Spin : held[t][s] = 0 /\ s \in Mutex
    BY SpinAssumption, NoneAssumption, WaitheadAssumption DEF MutexBlock, MayBlock
  <2>2. \A s \in Spin : ~(mtx_v[s] > 0)
    BY <2>1, <1>1 DEF SpinHeldByCurrent, OwnerAgrees, TypeOK
  <2> QED
    BY <2>2, <1>5 DEF SpinHeldByCurrent, lockVars
<1>13. NwaitersCounts'
  BY <1>1, <1>5, NwaitersKept DEF lockVars
<1> QED
  BY <1>6, <1>7, <1>9, <1>10, <1>11, <1>12, <1>13

(* cv_wait() leaves the mutex, wakes the next thread that wants it and joins
   the queue of the cv, in one step. *)
LEMMA CvWaitKeepsInv ==
  ASSUME Inv, NEW t \in Thread, NEW c \in Cv, NEW m \in Mutex,
         NEW nsec \in Delay \cup {NotSleeping}, CvWait(t, c, m, nsec)
  PROVE  Inv'
<1> USE DEF Inv
<1>1. t = current_thread /\ ~scheduling /\ aborted = None /\ t \in runnable /\ pc[t] = "run"
  BY RunningFacts DEF CvWait, InKernel
<1>2. /\ c \in Waithead /\ m \in Waithead /\ c # m /\ c # None /\ m # None
      /\ QueueOf(t) = None /\ \A w \in Waithead : t \notin ToSet(waitq[w])
  BY <1>1, WaitheadAssumption, NoneAssumption DEF QueuesSound, QueueOf
<1>3. /\ mtx_v' \in [Mutex -> Nat]
      /\ mtx_o' \in [Mutex -> Thread \cup {NoThread}]
      /\ held' \in [Thread -> [Mutex -> Nat]]
      /\ OwnerAgrees'
      /\ \A n \in Mutex \ {m} : mtx_v'[n] = mtx_v[n] /\ mtx_o'[n] = mtx_o[n]
      /\ mtx_v[m] = held[t][m] /\ mtx_o[m] = t /\ mtx_v'[m] = mtx_v[m] - 1
  BY ExitKeepsOwner DEF CvWait
<1>4. /\ QueueAfterExit(m) \in Seq(Thread)
      /\ IsInjective(QueueAfterExit(m))
      /\ ToSet(QueueAfterExit(m)) = ToSet(waitq[m]) \ WokenByExit(m)
      /\ WokenByExit(m) \subseteq ToSet(waitq[m])
      /\ mtx_v[m] = 1 /\ waitq[m] # <<>> => WokenByExit(m) # {}
  BY QueueAfterExitSet
<1>5. /\ Append(waitq[c], t) \in Seq(Thread)
      /\ IsInjective(Append(waitq[c], t))
      /\ ToSet(Append(waitq[c], t)) = ToSet(waitq[c]) \cup {t}
  BY <1>2, AppendSet DEF TypeOK, SchedTypeOK, QueuesSound
<1>6. WokenByExit(m) \subseteq {u \in onlist : QueueOf(u) = m}
  BY <1>2, <1>4 DEF QueuesSound
<1>7. /\ runnable' = (runnable \cup WokenByExit(m)) \ {t}
      /\ runnable' \subseteq Thread
      /\ wakeup_time' \in [Thread -> NotSleeping..MaxTime]
      /\ scheduling' = TRUE
  <2>1. Deadline(nsec) \in NotSleeping..MaxTime
    BY DeadlineType, TimeAssumption DEF CvWait, TypeOK, SchedTypeOK, NotSleeping
  <2>2. WokenByExit(m) \in SUBSET Thread
    BY <1>6 DEF TypeOK, SchedTypeOK
  <2> QED
    BY <2>1, <2>2, WakeThenSleepType DEF CvWait, TypeOK, WakeThenSleep, Woken
<1>8. /\ waitq'[m] = QueueAfterExit(m) /\ waitq'[c] = Append(waitq[c], t)
      /\ \A w \in Waithead \ {m, c} : waitq'[w] = waitq[w]
      /\ waitq' \in [Waithead -> Seq(Thread)]
      /\ onlist' = (onlist \ WokenByExit(m)) \cup {t}
  BY <1>2, <1>4, <1>5 DEF CvWait, TypeOK, SchedTypeOK
<1>9. /\ \A u \in Thread \ {t} : pc'[u] = pc[u] /\ mtxarg'[u] = mtxarg[u] /\ cvarg'[u] = cvarg[u]
      /\ pc'[t] = "cv" /\ mtxarg'[t] = m /\ cvarg'[t] = c
  BY DEF CvWait, TypeOK
<1>10. QueueOf(t)' = c /\ \A u \in Thread \ {t} : QueueOf(u)' = QueueOf(u)
  BY <1>9 DEF QueueOf
<1>11. TypeOK'
  <2>1. SchedTypeOK'
    BY <1>7, <1>8 DEF CvWait, TypeOK, SchedTypeOK
  <2>2. /\ pc' \in [Thread -> {"start", "run", "sleep", "mutex", "cv"}]
        /\ mtxarg' \in [Thread -> Mutex \cup {None}]
        /\ cvarg' \in [Thread -> Cv \cup {None}]
        /\ vcpu' \in Thread \cup {NoThread}
        /\ nwaiters' \in [Cv -> Nat]
        /\ aborted' \in Mutex \cup {None}
    BY DEF CvWait, TypeOK
  <2> QED
    BY <1>3, <2>1, <2>2 DEF TypeOK
<1>12. ArgsKnown'
  BY <1>9 DEF ArgsKnown
<1>13. QueuesSound'
  <2>1. \A w \in Waithead, u \in Thread :
            u \in ToSet(waitq[w]) <=> u \in onlist /\ QueueOf(u) = w
    BY DEF QueuesSound, TypeOK, SchedTypeOK
  <2>2. \A w \in Waithead : ToSet(waitq'[w]) \subseteq Thread /\ onlist' \subseteq Thread
    BY <1>11, ToSetType DEF TypeOK, SchedTypeOK
  <2>3. ASSUME NEW w \in Waithead
        PROVE  IsInjective(waitq'[w]) /\ ToSet(waitq'[w]) = {u \in onlist' : QueueOf(u)' = w}
    <3>1. IsInjective(waitq'[w])
      BY <1>4, <1>5, <1>8 DEF QueuesSound
    <3>2. ASSUME NEW u \in Thread
          PROVE  u \in ToSet(waitq'[w]) <=> u \in onlist' /\ QueueOf(u)' = w
      <4>1. CASE w = m
        BY <4>1, <2>1, <1>2, <1>4, <1>6, <1>8, <1>10
      <4>2. CASE w = c
        BY <4>2, <2>1, <1>2, <1>5, <1>6, <1>8, <1>10
      <4>3. CASE w \notin {m, c}
        BY <4>3, <2>1, <1>2, <1>6, <1>8, <1>10
      <4> QED
        BY <4>1, <4>2, <4>3
    <3> QED
      BY <3>1, <3>2, <2>2
  <2>4. ASSUME NEW u \in Thread, QueueOf(u)' # None, u \notin onlist'
        PROVE  u \in runnable'
    BY <2>4, <1>1, <1>7, <1>8, <1>10 DEF QueuesSound
  <2> QED
    BY <2>3, <2>4 DEF QueuesSound
<1>14. CpuFollowsCurrent'
  BY <1>1, <1>7, <1>9 DEF CvWait, TypeOK, SchedTypeOK, CpuFollowsCurrent
<1>15. SpinHeldByCurrent'
  <2>1. ASSUME NEW s \in Spin PROVE ~(mtx_v'[s] > 0)
    <3>1. CASE s = m
      BY <3>1, <1>3 DEF CvWait, MayBlock, TypeOK
    <3>2. CASE s # m
      <4>1. held[t][s] = 0 /\ s \in Mutex
        BY <3>2, SpinAssumption DEF CvWait, MayBlock
      <4> QED
        BY <4>1, <3>2, <1>1, <1>3 DEF SpinHeldByCurrent, OwnerAgrees, TypeOK
    <3> QED
      BY <3>1, <3>2
  <2> QED
    BY <2>1 DEF SpinHeldByCurrent
<1>16. FreeMutexHasTaker'
  <2> SUFFICES ASSUME NEW n \in Mutex, mtx_v'[n] = 0, waitq'[n] # <<>>
               PROVE  \E u \in runnable' : pc'[u] = "mutex" /\ mtxarg'[u] = n
    BY DEF FreeMutexHasTaker
  <2>1. CASE n = m
    <3>1. mtx_v[m] = 1
      BY <2>1, <1>3 DEF TypeOK
    <3>2. waitq[m] # <<>>
      BY <2>1, <1>2, <1>8, <3>1 DEF QueueAfterExit, RestOf
    <3>3. PICK u \in WokenByExit(m) : TRUE
      BY <3>1, <3>2, <1>4
    <3>4. u \in Thread /\ u # t /\ pc[u] = "mutex" /\ mtxarg[u] = m
      BY <3>3, <1>2, <1>6, WaitheadAssumption DEF QueueOf, TypeOK, SchedTypeOK, ArgsKnown
    <3> QED
      BY <3>3, <3>4, <2>1, <1>7, <1>9
  <2>2. CASE n # m
    <3>1. mtx_v[n] = 0 /\ waitq[n] # <<>>
      BY <2>2, <1>3, <1>8, WaitheadAssumption
    <3>2. PICK u \in runnable : pc[u] = "mutex" /\ mtxarg[u] = n
      BY <3>1 DEF FreeMutexHasTaker
    <3> QED
      BY <3>2, <1>1, <1>7, <1>9 DEF TypeOK, SchedTypeOK
  <2> QED
    BY <2>1, <2>2
<1>17. NwaitersCounts'
  <2>1. t \notin Waiters(c) /\ Waiters(c)' = Waiters(c) \cup {t}
    BY <1>1, <1>9 DEF Waiters
  <2>2. \A b \in Cv \ {c} : Waiters(b)' = Waiters(b) /\ nwaiters'[b] = nwaiters[b]
    BY <1>1, <1>9 DEF Waiters, CvWait, TypeOK
  <2>3. nwaiters'[c] = nwaiters[c] + 1
    BY DEF CvWait, TypeOK
  <2> QED
    BY <2>1, <2>2, <2>3, WaitersChange DEF NwaitersCounts
<1> QED
  BY <1>3, <1>11, <1>12, <1>13, <1>14, <1>15, <1>16, <1>17

(* mutex_enter() gets the mutex it waited for: the winner leaves the queue. *)
LEMMA MutexWonKeepsInv ==
  ASSUME Inv, NEW t \in Thread, MutexWon(t)
  PROVE  Inv'
<1> USE DEF Inv
<1>1. t = current_thread /\ ~scheduling /\ aborted = None /\ t \in runnable /\ pc[t] = "mutex"
  BY RunningFacts DEF MutexWon
<1> DEFINE m == mtxarg[t]
<1>2. m \in Mutex /\ m \in Waithead /\ m # None /\ QueueOf(t) = m
  BY <1>1, WaitheadAssumption, NoneAssumption DEF ArgsKnown, QueueOf
<1>3. /\ mtx_v' \in [Mutex -> Nat]
      /\ mtx_o' \in [Mutex -> Thread \cup {NoThread}]
      /\ held' \in [Thread -> [Mutex -> Nat]]
      /\ OwnerAgrees'
      /\ \A n \in Mutex \ {m} : mtx_v'[n] = mtx_v[n] /\ mtx_o'[n] = mtx_o[n]
      /\ mtx_v'[m] > 0 /\ mtx_o'[m] = t
  BY <1>2, EnterKeepsOwner DEF MutexWon
<1>4. /\ WaitLeft(t, m) \in Seq(Thread)
      /\ IsInjective(WaitLeft(t, m))
      /\ ToSet(WaitLeft(t, m)) = ToSet(waitq[m]) \ {t}
  BY <1>2, WaitLeftSet
<1>5. /\ \A u \in Thread \ {t} : pc'[u] = pc[u] /\ mtxarg'[u] = mtxarg[u]
      /\ pc'[t] = "run" /\ mtxarg'[t] = None
      /\ vcpu = NoThread /\ vcpu' = t
      /\ waitq'[m] = WaitLeft(t, m)
      /\ \A w \in Waithead \ {m} : waitq'[w] = waitq[w]
      /\ waitq' \in [Waithead -> Seq(Thread)]
      /\ onlist' = onlist \ {t}
      /\ UNCHANGED <<thread_list, current_thread, runnable, wakeup_time, scheduling,
                     clock, cvarg, nwaiters, aborted>>
  BY <1>2, <1>4 DEF MutexWon, TypeOK, SchedTypeOK
<1> HIDE DEF m
<1>6. TypeOK'
  <2>1. SchedTypeOK'
    BY <1>5 DEF TypeOK, SchedTypeOK
  <2>2. pc' \in [Thread -> {"start", "run", "sleep", "mutex", "cv"}]
        /\ mtxarg' \in [Thread -> Mutex \cup {None}]
    BY DEF MutexWon, TypeOK
  <2> QED
    BY <2>1, <2>2, <1>3, <1>5 DEF TypeOK
<1>7. ArgsKnown'
  BY <1>5 DEF ArgsKnown
<1>8. QueueOf(t)' = None /\ \A u \in Thread \ {t} : QueueOf(u)' = QueueOf(u)
  BY <1>5 DEF QueueOf
<1>9. QueuesSound'
  <2>1. \A u \in Thread : u \in ToSet(waitq[m]) <=> u \in onlist /\ QueueOf(u) = m
    BY <1>2 DEF QueuesSound, TypeOK, SchedTypeOK
  <2>2. \A u \in Thread : u \in ToSet(waitq'[m]) <=> u \in onlist' /\ QueueOf(u)' = m
    BY <2>1, <1>2, <1>4, <1>5, <1>8
  <2>3. \A u \in Thread, v \in Waithead \ {m} :
            (u \in onlist /\ QueueOf(u) = v) <=> (u \in onlist' /\ QueueOf(u)' = v)
    BY <1>2, <1>5, <1>8, NoneAssumption
  <2>4. \A u \in Thread : QueueOf(u)' # None /\ u \notin onlist' /\ aborted' = None
                             => u \in runnable'
    BY <1>1, <1>5, <1>8 DEF QueuesSound
  <2>5. IsInjective(waitq'[m]) /\ \A v \in Waithead \ {m} : waitq'[v] = waitq[v]
    BY <1>4, <1>5
  <2>6. TypeOK /\ QueuesSound
    OBVIOUS
  <2> HIDE DEF Inv
  <2> QED
    BY <2>2, <2>3, <2>4, <2>5, <2>6, <1>2, <1>6, QueueChanged
<1>10. FreeMutexHasTaker'
  <2> SUFFICES ASSUME NEW n \in Mutex, mtx_v'[n] = 0, waitq'[n] # <<>>
               PROVE  \E u \in runnable' : pc'[u] = "mutex" /\ mtxarg'[u] = n
    BY DEF FreeMutexHasTaker
  <2>1. n # m
    BY <1>3
  <2>2. mtx_v[n] = 0 /\ waitq[n] # <<>>
    BY <2>1, <1>3, <1>5, WaitheadAssumption
  <2>3. PICK u \in runnable : pc[u] = "mutex" /\ mtxarg[u] = n
    BY <2>2 DEF FreeMutexHasTaker
  <2>4. u \in Thread /\ u # t
    BY <2>1, <2>3 DEF m, TypeOK, SchedTypeOK
  <2> QED
    BY <2>3, <2>4, <1>5
<1>11. CpuFollowsCurrent'
  BY <1>1, <1>5 DEF TypeOK, SchedTypeOK, CpuFollowsCurrent
<1>12. SpinHeldByCurrent'
  <2>1. \A s \in Spin : s \in Mutex /\ ~(mtx_v[s] > 0)
    BY <1>1, SpinAssumption DEF SpinHeldByCurrent
  <2> QED
    BY <2>1, <1>1, <1>3, <1>5 DEF SpinHeldByCurrent
<1>13. NwaitersCounts'
  BY <1>1, <1>5, NwaitersKept
<1> QED
  BY <1>3, <1>6, <1>7, <1>9, <1>10, <1>11, <1>12, <1>13

(* mutex_enter() finds the mutex taken again: the thread goes to the end of
   the queue, whether or not it was still on it. *)
LEMMA MutexLostKeepsInv ==
  ASSUME Inv, NEW t \in Thread, MutexLost(t)
  PROVE  Inv'
<1> USE DEF Inv
<1>1. t = current_thread /\ ~scheduling /\ aborted = None /\ t \in runnable /\ pc[t] = "mutex"
  BY RunningFacts DEF MutexLost
<1> DEFINE m == mtxarg[t]
<1>2. m \in Mutex /\ m \in Waithead /\ m # None /\ QueueOf(t) = m
  BY <1>1, WaitheadAssumption, NoneAssumption DEF ArgsKnown, QueueOf
<1> DEFINE q == Append(WaitLeft(t, m), t)
<1>3. /\ q \in Seq(Thread)
      /\ IsInjective(q)
      /\ ToSet(q) = ToSet(waitq[m]) \cup {t}
  <2>1. /\ WaitLeft(t, m) \in Seq(Thread)
        /\ IsInjective(WaitLeft(t, m))
        /\ ToSet(WaitLeft(t, m)) = ToSet(waitq[m]) \ {t}
    BY <1>2, WaitLeftSet
  <2> QED
    BY <2>1, AppendSet
<1>4. /\ runnable' = runnable \ {t}
      /\ runnable' \subseteq Thread
      /\ wakeup_time' \in [Thread -> NotSleeping..MaxTime]
      /\ scheduling' = TRUE
  <2>1. NotSleeping \in NotSleeping..MaxTime
    BY TimeAssumption DEF NotSleeping
  <2> QED
    BY <2>1, WakeThenSleepType DEF MutexLost, TypeOK, WakeThenSleep, Woken
<1>5. /\ waitq'[m] = q
      /\ \A w \in Waithead \ {m} : waitq'[w] = waitq[w]
      /\ waitq' \in [Waithead -> Seq(Thread)]
      /\ onlist' = onlist \cup {t}
      /\ mtx_v[m] # 0
      /\ UNCHANGED <<thread_list, current_thread, clock, pc, mtxarg, cvarg, vcpu,
                     lockVars, aborted>>
  BY <1>2, <1>3 DEF MutexLost, CanEnter, TypeOK, SchedTypeOK
<1> HIDE DEF m, q
<1>6. TypeOK'
  <2>1. SchedTypeOK'
    BY <1>4, <1>5 DEF TypeOK, SchedTypeOK
  <2> QED
    BY <2>1, <1>5 DEF TypeOK, lockVars
<1>7. OwnerAgrees' /\ ArgsKnown'
  BY <1>5 DEF lockVars, OwnerAgrees, ArgsKnown
<1>8. \A u \in Thread : QueueOf(u)' = QueueOf(u)
  BY <1>5 DEF QueueOf
<1>9. QueuesSound'
  <2>1. \A u \in Thread : u \in ToSet(waitq[m]) <=> u \in onlist /\ QueueOf(u) = m
    BY <1>2 DEF QueuesSound, TypeOK, SchedTypeOK
  <2>2. \A u \in Thread : u \in ToSet(waitq'[m]) <=> u \in onlist' /\ QueueOf(u)' = m
    BY <2>1, <1>2, <1>3, <1>5, <1>8
  <2>3. \A u \in Thread, v \in Waithead \ {m} :
            (u \in onlist /\ QueueOf(u) = v) <=> (u \in onlist' /\ QueueOf(u)' = v)
    BY <1>2, <1>5, <1>8
  <2>4. \A u \in Thread : QueueOf(u)' # None /\ u \notin onlist' /\ aborted' = None
                             => u \in runnable'
    BY <1>1, <1>4, <1>5, <1>8 DEF QueuesSound
  <2>5. IsInjective(waitq'[m]) /\ \A v \in Waithead \ {m} : waitq'[v] = waitq[v]
    BY <1>3, <1>5
  <2>6. TypeOK /\ QueuesSound
    OBVIOUS
  <2> HIDE DEF Inv
  <2> QED
    BY <2>2, <2>3, <2>4, <2>5, <2>6, <1>2, <1>6, QueueChanged
<1>10. FreeMutexHasTaker'
  <2> SUFFICES ASSUME NEW n \in Mutex, mtx_v'[n] = 0, waitq'[n] # <<>>
               PROVE  \E u \in runnable' : pc'[u] = "mutex" /\ mtxarg'[u] = n
    BY DEF FreeMutexHasTaker
  <2>1. n # m /\ mtx_v[n] = 0 /\ waitq[n] # <<>>
    BY <1>5, WaitheadAssumption DEF lockVars
  <2>2. PICK u \in runnable : pc[u] = "mutex" /\ mtxarg[u] = n
    BY <2>1 DEF FreeMutexHasTaker
  <2>3. u # t
    BY <2>1, <2>2 DEF m
  <2> QED
    BY <2>2, <2>3, <1>4, <1>5
<1>11. CpuFollowsCurrent' /\ SpinHeldByCurrent'
  BY <1>1, <1>4, <1>5 DEF TypeOK, SchedTypeOK, CpuFollowsCurrent, SpinHeldByCurrent, lockVars
<1>12. NwaitersCounts'
  BY <1>5, NwaitersKept DEF lockVars
<1> QED
  BY <1>6, <1>7, <1>9, <1>10, <1>11, <1>12

(* mutex_exit() by a thread in the kernel: the last exit wakes the first
   waiter, who is the taker that FreeMutexHasTaker asks for. *)
LEMMA MutexExitKeepsInv ==
  ASSUME Inv, NEW t \in Thread, NEW m \in Mutex, MutexExit(t, m)
  PROVE  Inv'
<1> USE DEF Inv
<1>1. t = current_thread /\ ~scheduling /\ aborted = None /\ t \in runnable /\ pc[t] = "run"
  BY RunningFacts DEF MutexExit, InKernel
<1>2. m \in Waithead /\ m # None
  BY WaitheadAssumption, NoneAssumption
<1>3. /\ mtx_v' \in [Mutex -> Nat]
      /\ mtx_o' \in [Mutex -> Thread \cup {NoThread}]
      /\ held' \in [Thread -> [Mutex -> Nat]]
      /\ OwnerAgrees'
      /\ \A n \in Mutex \ {m} : mtx_v'[n] = mtx_v[n] /\ mtx_o'[n] = mtx_o[n]
      /\ mtx_v[m] = held[t][m] /\ mtx_o[m] = t /\ mtx_v'[m] = mtx_v[m] - 1
      /\ mtx_v'[m] > 0 => mtx_o'[m] = t
  BY ExitKeepsOwner DEF MutexExit
<1> DEFINE W == WokenByExit(m)
           q == QueueAfterExit(m)
<1>4. /\ q \in Seq(Thread)
      /\ IsInjective(q)
      /\ ToSet(q) = ToSet(waitq[m]) \ W
      /\ W \subseteq ToSet(waitq[m])
      /\ mtx_v[m] = 1 /\ waitq[m] # <<>> => W # {}
  BY QueueAfterExitSet
<1>5. mtx_v[m] = 1 /\ q # <<>> => waitq[m] # <<>>
  BY DEF QueueAfterExit, RestOf
<1>6. W \subseteq {u \in onlist : QueueOf(u) = m} /\ W \subseteq Thread
  BY <1>2, <1>4 DEF QueuesSound, TypeOK, SchedTypeOK
<1>7. /\ runnable' = runnable \cup W
      /\ runnable' \subseteq Thread
      /\ wakeup_time' \in [Thread -> NotSleeping..MaxTime]
  BY <1>6, WakeType DEF MutexExit, TypeOK, Wake, Woken
<1>8. /\ waitq'[m] = q
      /\ \A w \in Waithead \ {m} : waitq'[w] = waitq[w]
      /\ waitq' \in [Waithead -> Seq(Thread)]
      /\ onlist' = onlist \ W
      /\ UNCHANGED <<thread_list, current_thread, scheduling, clock, pc, mtxarg, cvarg,
                     vcpu, nwaiters, aborted>>
  BY <1>2, <1>4 DEF MutexExit, TypeOK, SchedTypeOK
<1> HIDE DEF W, q
<1>9. TypeOK'
  <2>1. SchedTypeOK'
    BY <1>7, <1>8 DEF TypeOK, SchedTypeOK
  <2> QED
    BY <2>1, <1>3, <1>8 DEF TypeOK
<1>10. ArgsKnown' /\ CpuFollowsCurrent'
  BY <1>1, <1>7, <1>8 DEF ArgsKnown, CpuFollowsCurrent
<1>11. \A u \in Thread : QueueOf(u)' = QueueOf(u)
  BY <1>8 DEF QueueOf
<1>12. QueuesSound'
  <2>1. \A u \in Thread : u \in ToSet(waitq[m]) <=> u \in onlist /\ QueueOf(u) = m
    BY <1>2 DEF QueuesSound, TypeOK, SchedTypeOK
  <2>2. \A u \in Thread : u \in ToSet(waitq'[m]) <=> u \in onlist' /\ QueueOf(u)' = m
    BY <2>1, <1>4, <1>8, <1>11
  <2>3. \A u \in Thread, v \in Waithead \ {m} :
            (u \in onlist /\ QueueOf(u) = v) <=> (u \in onlist' /\ QueueOf(u)' = v)
    BY <1>6, <1>8, <1>11
  <2>4. \A u \in Thread : QueueOf(u)' # None /\ u \notin onlist' /\ aborted' = None
                             => u \in runnable'
    BY <1>7, <1>8, <1>11 DEF QueuesSound
  <2>5. IsInjective(waitq'[m]) /\ \A v \in Waithead \ {m} : waitq'[v] = waitq[v]
    BY <1>4, <1>8
  <2>6. TypeOK /\ QueuesSound
    OBVIOUS
  <2> HIDE DEF Inv
  <2> QED
    BY <2>2, <2>3, <2>4, <2>5, <2>6, <1>2, <1>9, QueueChanged
<1>13. FreeMutexHasTaker'
  <2> SUFFICES ASSUME NEW n \in Mutex, mtx_v'[n] = 0, waitq'[n] # <<>>
               PROVE  \E u \in runnable' : pc'[u] = "mutex" /\ mtxarg'[u] = n
    BY DEF FreeMutexHasTaker
  <2>1. CASE n = m
    <3>1. mtx_v[m] = 1
      BY <2>1, <1>3 DEF TypeOK
    <3>2. PICK u \in W : TRUE
      BY <3>1, <2>1, <1>4, <1>5, <1>8
    <3>3. u \in Thread /\ pc[u] = "mutex" /\ mtxarg[u] = m
      BY <3>2, <1>2, <1>6, WaitheadAssumption DEF QueueOf, ArgsKnown
    <3> QED
      BY <3>2, <3>3, <2>1, <1>7, <1>8
  <2>2. CASE n # m
    <3>1. mtx_v[n] = 0 /\ waitq[n] # <<>>
      BY <2>2, <1>3, <1>8, WaitheadAssumption
    <3>2. PICK u \in runnable : pc[u] = "mutex" /\ mtxarg[u] = n
      BY <3>1 DEF FreeMutexHasTaker
    <3> QED
      BY <3>2, <1>7, <1>8
  <2> QED
    BY <2>1, <2>2
<1>14. SpinHeldByCurrent'
  <2>1. ASSUME NEW s \in Spin, mtx_v'[s] > 0
        PROVE  mtx_o'[s] = current_thread /\ pc[current_thread] = "run"
    <3>1. CASE s = m
      BY <3>1, <2>1, <1>1, <1>3
    <3>2. CASE s # m
      BY <3>2, <2>1, <1>1, <1>3, SpinAssumption DEF SpinHeldByCurrent
    <3> QED
      BY <3>1, <3>2
  <2> QED
    BY <2>1, <1>8 DEF SpinHeldByCurrent
<1>15. NwaitersCounts'
  BY <1>8, NwaitersKept
<1> QED
  BY <1>3, <1>9, <1>10, <1>12, <1>13, <1>14, <1>15

(* cv_wait() returns with the mutex entered and the waiter off the queue. *)
LEMMA CvReturnKeepsInv ==
  ASSUME Inv, NEW t \in Thread, CvReturn(t)
  PROVE  Inv'
<1> USE DEF Inv
<1>1. t = current_thread /\ ~scheduling /\ aborted = None /\ t \in runnable /\ pc[t] = "cv"
  BY RunningFacts DEF CvReturn
<1>2. PICK m \in Mutex, c \in Cv : m = mtxarg[t] /\ c = cvarg[t]
  BY <1>1 DEF ArgsKnown
<1>3. c \in Waithead /\ c \notin Mutex /\ c # None /\ QueueOf(t) = c
  BY <1>2, <1>1, WaitheadAssumption, NoneAssumption DEF QueueOf
<1>4. /\ mtx_v' \in [Mutex -> Nat]
      /\ mtx_o' \in [Mutex -> Thread \cup {NoThread}]
      /\ held' \in [Thread -> [Mutex -> Nat]]
      /\ OwnerAgrees'
      /\ \A n \in Mutex \ {m} : mtx_v'[n] = mtx_v[n] /\ mtx_o'[n] = mtx_o[n]
      /\ mtx_v'[m] > 0 /\ mtx_o'[m] = t
  BY <1>2, EnterKeepsOwner DEF CvReturn
<1>5. /\ WaitLeft(t, c) \in Seq(Thread)
      /\ IsInjective(WaitLeft(t, c))
      /\ ToSet(WaitLeft(t, c)) = ToSet(waitq[c]) \ {t}
  BY <1>3, WaitLeftSet
<1>6. /\ \A u \in Thread \ {t} : pc'[u] = pc[u] /\ mtxarg'[u] = mtxarg[u] /\ cvarg'[u] = cvarg[u]
      /\ pc'[t] = "run" /\ mtxarg'[t] = None /\ cvarg'[t] = None
      /\ vcpu = NoThread /\ vcpu' = t
      /\ waitq'[c] = WaitLeft(t, c)
      /\ \A w \in Waithead \ {c} : waitq'[w] = waitq[w]
      /\ waitq' \in [Waithead -> Seq(Thread)]
      /\ onlist' = onlist \ {t}
      /\ UNCHANGED <<thread_list, current_thread, runnable, wakeup_time, scheduling,
                     clock, aborted>>
  BY <1>2, <1>3, <1>5 DEF CvReturn, TypeOK, SchedTypeOK
<1>7. /\ nwaiters'[c] = nwaiters[c] - 1 /\ t \in Waiters(c)
      /\ \A b \in Cv \ {c} : nwaiters'[b] = nwaiters[b]
      /\ nwaiters' \in [Cv -> Nat]
  <2>1. t \in Waiters(c)
    BY <1>2, <1>1 DEF Waiters
  <2>2. nwaiters[c] > 0
    BY <2>1, <1>3, WaitersChange DEF NwaitersCounts
  <2> QED
    BY <2>1, <2>2, <1>2 DEF CvReturn, TypeOK
<1>8. TypeOK'
  <2>1. SchedTypeOK'
    BY <1>6 DEF TypeOK, SchedTypeOK
  <2>2. /\ pc' \in [Thread -> {"start", "run", "sleep", "mutex", "cv"}]
        /\ mtxarg' \in [Thread -> Mutex \cup {None}]
        /\ cvarg' \in [Thread -> Cv \cup {None}]
    BY DEF CvReturn, TypeOK
  <2>3. nwaiters' \in [Cv -> Nat]
    BY <1>7 DEF TypeOK
  <2> QED
    BY <2>1, <2>2, <2>3, <1>4, <1>6 DEF TypeOK
<1>9. ArgsKnown'
  BY <1>6 DEF ArgsKnown
<1>10. QueueOf(t)' = None /\ \A u \in Thread \ {t} : QueueOf(u)' = QueueOf(u)
  BY <1>6 DEF QueueOf
<1>11. QueuesSound'
  <2>1. \A u \in Thread : u \in ToSet(waitq[c]) <=> u \in onlist /\ QueueOf(u) = c
    BY <1>3 DEF QueuesSound, TypeOK, SchedTypeOK
  <2>2. \A u \in Thread : u \in ToSet(waitq'[c]) <=> u \in onlist' /\ QueueOf(u)' = c
    BY <2>1, <1>3, <1>5, <1>6, <1>10
  <2>3. \A u \in Thread, v \in Waithead \ {c} :
            (u \in onlist /\ QueueOf(u) = v) <=> (u \in onlist' /\ QueueOf(u)' = v)
    BY <1>3, <1>6, <1>10, NoneAssumption
  <2>4. \A u \in Thread : QueueOf(u)' # None /\ u \notin onlist' /\ aborted' = None
                             => u \in runnable'
    BY <1>1, <1>6, <1>10 DEF QueuesSound
  <2>5. IsInjective(waitq'[c]) /\ \A v \in Waithead \ {c} : waitq'[v] = waitq[v]
    BY <1>5, <1>6
  <2>6. TypeOK /\ QueuesSound
    OBVIOUS
  <2> HIDE DEF Inv
  <2> QED
    BY <2>2, <2>3, <2>4, <2>5, <2>6, <1>3, <1>8, QueueChanged
<1>12. FreeMutexHasTaker'
  <2>1. \A n \in Mutex : mtx_v'[n] = 0 /\ waitq'[n] # <<>> => mtx_v[n] = 0 /\ waitq[n] # <<>>
    <3>1. \A n \in Mutex : n \in Waithead \ {c}
      BY <1>3, WaitheadAssumption
    <3> QED
      BY <3>1, <1>4, <1>6
  <2>2. \A u \in runnable : pc[u] = "mutex" =>
             u \in runnable' /\ pc'[u] = "mutex" /\ mtxarg'[u] = mtxarg[u]
    BY <1>1, <1>6 DEF TypeOK, SchedTypeOK
  <2> QED
    BY <2>1, <2>2, TakerKept
<1>13. CpuFollowsCurrent'
  BY <1>1, <1>6 DEF TypeOK, SchedTypeOK, CpuFollowsCurrent
<1>14. SpinHeldByCurrent'
  <2>1. \A s \in Spin : s \in Mutex /\ ~(mtx_v[s] > 0)
    BY <1>1, SpinAssumption DEF SpinHeldByCurrent
  <2> QED
    BY <2>1, <1>1, <1>4, <1>6 DEF SpinHeldByCurrent
<1>15. NwaitersCounts'
  <2>1. Waiters(c)' = Waiters(c) \ {t}
    BY <1>6 DEF Waiters
  <2>2. \A b \in Cv \ {c} : Waiters(b)' = Waiters(b)
    BY <1>2, <1>6 DEF Waiters
  <2> QED
    BY <2>1, <2>2, <1>3, <1>7, WaitersChange DEF NwaitersCounts
<1> QED
  BY <1>4, <1>8, <1>9, <1>11, <1>12, <1>13, <1>14, <1>15

(* cv_resched() aborts: the waiter is off the queue, and nothing runs on. *)
LEMMA CvReturnAbortsKeepsInv ==
  ASSUME Inv, NEW t \in Thread, CvReturnAborts(t)
  PROVE  Inv'
<1> USE DEF Inv
<1>1. t = current_thread /\ pc[t] = "cv"
  BY RunningFacts DEF CvReturnAborts
<1>2. PICK m \in Mutex, c \in Cv : m = mtxarg[t] /\ c = cvarg[t]
  BY <1>1 DEF ArgsKnown
<1>3. c \in Waithead /\ c \notin Mutex /\ QueueOf(t) = c /\ m # None
  BY <1>1, <1>2, WaitheadAssumption, NoneAssumption DEF QueueOf
<1>4. /\ WaitLeft(t, c) \in Seq(Thread)
      /\ IsInjective(WaitLeft(t, c))
      /\ ToSet(WaitLeft(t, c)) = ToSet(waitq[c]) \ {t}
  BY <1>3, WaitLeftSet
<1>5. /\ waitq'[c] = WaitLeft(t, c)
      /\ \A w \in Waithead \ {c} : waitq'[w] = waitq[w]
      /\ waitq' \in [Waithead -> Seq(Thread)]
      /\ onlist' = onlist \ {t}
      /\ aborted' = m
      /\ UNCHANGED <<thread_list, current_thread, runnable, wakeup_time, scheduling, clock,
                     pc, mtxarg, cvarg, vcpu, lockVars>>
  BY <1>2, <1>3, <1>4 DEF CvReturnAborts, TypeOK, SchedTypeOK
<1>6. TypeOK'
  <2>1. SchedTypeOK'
    BY <1>5 DEF TypeOK, SchedTypeOK
  <2> QED
    BY <2>1, <1>5 DEF TypeOK, lockVars
<1>7. OwnerAgrees' /\ ArgsKnown' /\ CpuFollowsCurrent' /\ SpinHeldByCurrent'
  BY <1>5 DEF OwnerAgrees, ArgsKnown, CpuFollowsCurrent, SpinHeldByCurrent, lockVars
<1>8. \A u \in Thread : QueueOf(u)' = QueueOf(u)
  BY <1>5 DEF QueueOf
<1>9. QueuesSound'
  <2>1. \A u \in Thread : u \in ToSet(waitq[c]) <=> u \in onlist /\ QueueOf(u) = c
    BY <1>3 DEF QueuesSound, TypeOK, SchedTypeOK
  <2>2. \A u \in Thread : u \in ToSet(waitq'[c]) <=> u \in onlist' /\ QueueOf(u)' = c
    BY <2>1, <1>4, <1>5, <1>8
  <2>3. \A u \in Thread, v \in Waithead \ {c} :
            (u \in onlist /\ QueueOf(u) = v) <=> (u \in onlist' /\ QueueOf(u)' = v)
    BY <1>3, <1>5, <1>8
  <2>4. aborted' # None
    BY <1>3, <1>5
  <2>5. IsInjective(waitq'[c]) /\ \A v \in Waithead \ {c} : waitq'[v] = waitq[v]
    BY <1>4, <1>5
  <2>6. TypeOK /\ QueuesSound
    OBVIOUS
  <2> HIDE DEF Inv
  <2> QED
    BY <2>2, <2>3, <2>4, <2>5, <2>6, <1>3, <1>6, QueueChanged
<1>10. FreeMutexHasTaker'
  <2>1. \A n \in Mutex : waitq'[n] = waitq[n]
    BY <1>3, <1>5, WaitheadAssumption
  <2> QED
    BY <2>1, <1>5, TakerKept DEF lockVars
<1>11. NwaitersCounts'
  BY <1>5, NwaitersKept DEF lockVars
<1> QED
  BY <1>6, <1>7, <1>9, <1>10, <1>11

(* cv_signal() and cv_broadcast() take the threads W off the queue of c, which
   leaves q, and wake them. *)
LEMMA CvWakeKeepsInv ==
  ASSUME Inv, NEW c \in Cv, NEW q \in Seq(Thread), NEW W \in SUBSET Thread,
         IsInjective(q), ToSet(q) = ToSet(waitq[c]) \ W, W \subseteq ToSet(waitq[c]),
         waitq' = [waitq EXCEPT ![c] = q], onlist' = onlist \ W, Wake(W),
         UNCHANGED <<thread_list, current_thread, scheduling, clock, pc, mtxarg, cvarg,
                     vcpu, lockVars, aborted>>
  PROVE  Inv'
<1> USE DEF Inv
<1>1. c \in Waithead /\ c \notin Mutex
  BY WaitheadAssumption
<1>2. /\ runnable' = runnable \cup W
      /\ runnable' \subseteq Thread
      /\ wakeup_time' \in [Thread -> NotSleeping..MaxTime]
  BY WakeType DEF TypeOK, Wake, Woken
<1>3. /\ waitq'[c] = q
      /\ \A w \in Waithead \ {c} : waitq'[w] = waitq[w]
      /\ waitq' \in [Waithead -> Seq(Thread)]
  BY <1>1 DEF TypeOK, SchedTypeOK
<1>4. TypeOK'
  <2>1. SchedTypeOK'
    BY <1>2, <1>3 DEF TypeOK, SchedTypeOK
  <2> QED
    BY <2>1 DEF TypeOK, lockVars
<1>5. OwnerAgrees' /\ ArgsKnown' /\ CpuFollowsCurrent' /\ SpinHeldByCurrent'
  BY <1>2 DEF OwnerAgrees, ArgsKnown, CpuFollowsCurrent, SpinHeldByCurrent, lockVars
<1>6. \A u \in Thread : QueueOf(u)' = QueueOf(u)
  BY DEF QueueOf
<1>7. QueuesSound'
  <2>1. \A u \in Thread : u \in ToSet(waitq[c]) <=> u \in onlist /\ QueueOf(u) = c
    BY <1>1 DEF QueuesSound, TypeOK, SchedTypeOK
  <2>2. \A u \in Thread : u \in ToSet(waitq'[c]) <=> u \in onlist' /\ QueueOf(u)' = c
    BY <2>1, <1>3, <1>6
  <2>3. \A u \in Thread, v \in Waithead \ {c} :
            (u \in onlist /\ QueueOf(u) = v) <=> (u \in onlist' /\ QueueOf(u)' = v)
    BY <2>1, <1>6
  <2>4. \A u \in Thread : QueueOf(u)' # None /\ u \notin onlist' /\ aborted' = None
                             => u \in runnable'
    BY <1>2, <1>6 DEF QueuesSound
  <2>5. IsInjective(waitq'[c]) /\ \A v \in Waithead \ {c} : waitq'[v] = waitq[v]
    BY <1>3
  <2>6. TypeOK /\ QueuesSound
    OBVIOUS
  <2> HIDE DEF Inv
  <2> QED
    BY <2>2, <2>3, <2>4, <2>5, <2>6, <1>1, <1>4, QueueChanged
<1>8. FreeMutexHasTaker'
  <2>1. \A n \in Mutex : waitq'[n] = waitq[n]
    BY <1>1, <1>3, WaitheadAssumption
  <2> QED
    BY <2>1, <1>2, TakerKept DEF lockVars
<1>9. NwaitersCounts'
  BY NwaitersKept DEF lockVars
<1> QED
  BY <1>4, <1>5, <1>7, <1>8, <1>9

(* cv_signal() wakes the first of the queue, cv_broadcast() all of it. *)
LEMMA CvSignalKeepsInv ==
  ASSUME Inv, NEW t \in Thread, NEW c \in Cv, CvSignal(t, c) \/ CvBroadcast(t, c)
  PROVE  Inv'
<1>1. waitq[c] \in Seq(Thread) /\ IsInjective(waitq[c]) /\ waitq \in [Waithead -> Seq(Thread)]
  BY WaitheadAssumption DEF Inv, TypeOK, SchedTypeOK, QueuesSound
<1>2. ToSet(waitq[c]) \subseteq Thread
  BY <1>1, ToSetType
<1>3. CASE CvSignal(t, c)
  <2>1. /\ RestOf(waitq[c]) \in Seq(Thread)
        /\ IsInjective(RestOf(waitq[c]))
        /\ ToSet(RestOf(waitq[c])) = ToSet(waitq[c]) \ FirstOf(waitq[c])
        /\ FirstOf(waitq[c]) \subseteq ToSet(waitq[c])
    BY <1>1, RestOfSet
  <2>2. waitq' = [waitq EXCEPT ![c] = RestOf(waitq[c])]
    BY <1>3 DEF CvSignal
  <2> QED
    BY <1>2, <1>3, <2>1, <2>2, CvWakeKeepsInv DEF CvSignal, WokenBySignal
<1>4. CASE CvBroadcast(t, c)
  <2>1. /\ <<>> \in Seq(Thread)
        /\ IsInjective(<<>>)
        /\ ToSet(<<>>) = ToSet(waitq[c]) \ ToSet(waitq[c])
    BY DEF IsInjective, ToSet
  <2> QED
    BY <1>2, <1>4, <2>1, CvWakeKeepsInv DEF CvBroadcast
<1> QED
  BY <1>3, <1>4

-----------------------------------------------------------------------------

(* The steps of schedule() itself, and of time: they wake threads and may
   change current_thread, which is outside the kernel then. *)
LEMMA SchedulerKeepsInv ==
  ASSUME Inv, Schedule \/ PollFds \/ ClockTick
  PROVE  Inv'
<1> USE DEF Inv
<1>1. /\ SchedTypeOK'
      /\ runnable \subseteq runnable'
      /\ UNCHANGED <<waitq, onlist>>
      /\ \/ scheduling /\ ~scheduling' /\ current_thread' \in runnable'
         \/ UNCHANGED <<scheduling, current_thread>>
  <2>1. CASE Schedule
    BY <2>1, SwitchToType DEF Schedule, TypeOK
  <2>2. CASE PollFds
    BY <2>2, PollType DEF PollFds, TypeOK
  <2>3. CASE ClockTick
    BY <2>3, TickType DEF ClockTick, Tick, TypeOK
  <2> QED
    BY <2>1, <2>2, <2>3
<1>2. UNCHANGED <<pc, mtxarg, cvarg, vcpu, lockVars, aborted>>
  BY DEF Schedule, PollFds, ClockTick
<1>3. TypeOK'
  BY <1>1, <1>2 DEF TypeOK, lockVars
<1>4. OwnerAgrees' /\ ArgsKnown'
  BY <1>2 DEF OwnerAgrees, ArgsKnown, lockVars
<1>5. QueuesSound'
  BY <1>1, <1>2, QueuesKept DEF QueueOf
<1>6. FreeMutexHasTaker'
  BY <1>1, <1>2, TakerKept DEF lockVars
<1>7. NwaitersCounts'
  BY <1>2, NwaitersKept DEF lockVars
<1>8. CpuFollowsCurrent' /\ SpinHeldByCurrent'
  <2>1. CASE UNCHANGED <<scheduling, current_thread>>
    BY <2>1, <1>1, <1>2 DEF CpuFollowsCurrent, SpinHeldByCurrent, lockVars
  <2>2. CASE scheduling /\ ~scheduling' /\ current_thread' \in runnable'
    <3>1. \A u \in Thread : pc[u] # "run"
      BY <2>2 DEF CpuFollowsCurrent
    <3>2. vcpu = NoThread /\ \A s \in Spin : ~(mtx_v[s] > 0)
      BY <3>1 DEF CpuFollowsCurrent, SpinHeldByCurrent, TypeOK, SchedTypeOK
    <3>3. current_thread' \in Thread
      BY <1>3 DEF TypeOK, SchedTypeOK
    <3> QED
      BY <2>2, <3>1, <3>2, <3>3, <1>2 DEF CpuFollowsCurrent, SpinHeldByCurrent, lockVars
  <2> QED
    BY <2>1, <2>2, <1>1
<1> QED
  BY <1>3, <1>4, <1>5, <1>6, <1>7, <1>8

(* Inv is inductive. *)
LEMMA NextKeepsInv == Inv /\ [Next]_vars => Inv'
<1> SUFFICES ASSUME Inv, [Next]_vars PROVE Inv'
  OBVIOUS
<1>1. CASE Schedule \/ PollFds \/ ClockTick
  BY <1>1, SchedulerKeepsInv
<1>2. ASSUME NEW t \in Thread, TakeCpu(t) PROVE Inv'
  BY <1>2, TakeCpuKeepsInv
<1>3. ASSUME NEW t \in Thread, MutexWon(t) PROVE Inv'
  BY <1>3, MutexWonKeepsInv
<1>4. ASSUME NEW t \in Thread, MutexLost(t) PROVE Inv'
  BY <1>4, MutexLostKeepsInv
<1>5. ASSUME NEW t \in Thread, CvReturn(t) PROVE Inv'
  BY <1>5, CvReturnKeepsInv
<1>6. ASSUME NEW t \in Thread, CvReturnAborts(t) PROVE Inv'
  BY <1>6, CvReturnAbortsKeepsInv
<1>7. ASSUME NEW t \in Thread, NEW d \in Delay, Sleep(t, d) PROVE Inv'
  BY <1>7, SleepKeepsInv
<1>8. ASSUME NEW t \in Thread, NEW m \in Mutex,
             MutexEnter(t, m) \/ MutexBlock(t, m) \/ MutexExit(t, m)
      PROVE  Inv'
  BY <1>8, MutexEnterKeepsInv, MutexBlockKeepsInv, MutexExitKeepsInv
<1>9. ASSUME NEW t \in Thread, NEW c \in Cv, CvSignal(t, c) \/ CvBroadcast(t, c) PROVE Inv'
  BY <1>9, CvSignalKeepsInv
<1>10. ASSUME NEW t \in Thread, NEW c \in Cv, NEW m \in Mutex,
              NEW nsec \in Delay \cup {NotSleeping}, CvWait(t, c, m, nsec)
       PROVE  Inv'
  BY <1>10, CvWaitKeepsInv
<1>11. CASE UNCHANGED vars
  <2> USE <1>11 DEF vars, schedVars, lockVars, Inv
  <2>1. TypeOK'
    BY DEF TypeOK, SchedTypeOK
  <2>2. OwnerAgrees' /\ ArgsKnown' /\ CpuFollowsCurrent' /\ SpinHeldByCurrent'
    BY DEF OwnerAgrees, ArgsKnown, CpuFollowsCurrent, SpinHeldByCurrent
  <2>3. QueuesSound'
    BY QueuesKept DEF QueueOf
  <2>4. FreeMutexHasTaker' /\ NwaitersCounts'
    BY TakerKept, NwaitersKept
  <2> QED
    BY <2>1, <2>2, <2>3, <2>4
<1> QED
  BY <1>1, <1>2, <1>3, <1>4, <1>5, <1>6, <1>7, <1>8, <1>9, <1>10, <1>11 DEF Next

-----------------------------------------------------------------------------

(* Every reachable state satisfies Inv. *)
THEOREM Invariance == Spec => []Inv
  BY InitInv, NextKeepsInv, PTL DEF Spec

(* The variables always hold values of their types; in particular nwaiters,
   which cv_wait() decrements, never becomes negative. *)
THEOREM TypeCorrect == Spec => []TypeOK
<1>1. Inv => TypeOK
  BY DEF Inv
<1> QED
  BY <1>1, Invariance, PTL

(* mutex_enter(), mutex_tryenter() and cv_wait() give a mutex to one thread
   at a time, whatever the threads, the mutexes and the schedule. *)
THEOREM MutualExclusion == Spec => []Exclusion
<1>1. Inv => Exclusion
  <2> SUFFICES ASSUME Inv, NEW m \in Mutex
               PROVE  /\ \A t, u \in Thread : held[t][m] > 0 /\ held[u][m] > 0 => t = u
                      /\ \A t \in Thread : held[t][m] > 0 =>
                             mtx_o[m] = t /\ mtx_v[m] = held[t][m]
    BY DEF Exclusion
  <2>1. \A t \in Thread : held[t][m] > 0 => mtx_o[m] = t /\ mtx_v[m] = held[t][m]
    BY DEF Inv, OwnerAgrees
  <2> QED
    BY <2>1
<1> QED
  BY <1>1, Invariance, PTL

(* mutex_exit() loses no wakeup: a free mutex that threads wait for has a
   runnable thread that is about to try it. *)
THEOREM NoLostWakeup == Spec => []FreeMutexHasTaker
<1>1. Inv => FreeMutexHasTaker
  BY DEF Inv
<1> QED
  BY <1>1, Invariance, PTL

(* The wait queues and the onlist flags of struct waiter always agree with
   where the threads wait. *)
THEOREM QueuesAlwaysSound == Spec => []QueuesSound
<1>1. Inv => QueuesSound
  BY DEF Inv
<1> QED
  BY <1>1, Invariance, PTL

(* nwaiters is the number of threads in cv_wait(), so that cv_destroy() and
   cv_has_waiters() can rely on it. *)
THEOREM NwaitersAlwaysCounts == Spec => []NwaitersCounts
<1>1. Inv => NwaitersCounts
  BY DEF Inv
<1> QED
  BY <1>1, Invariance, PTL

(* No thread is in schedule() with the rump kernel CPU in hand. *)
THEOREM CpuAlwaysFree == Spec => []CpuFreeInSchedule
<1>1. Inv => CpuFreeInSchedule
  BY NoThreadAssumption DEF Inv, TypeOK, SchedTypeOK, CpuFollowsCurrent, CpuFreeInSchedule,
     Alive, Running
<1> QED
  BY <1>1, Invariance, PTL

(* mutex_enter_nowrap() never aborts on a spin mutex. *)
THEOREM SpinAlwaysEnterable == Spec => []SpinEnterable
<1>1. Inv => SpinEnterable
  BY SpinAssumption DEF Inv, TypeOK, SpinHeldByCurrent, SpinEnterable, CanEnter, Alive, Running
<1> QED
  BY <1>1, Invariance, PTL
=============================================================================
