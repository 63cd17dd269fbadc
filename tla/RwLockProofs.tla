---------------------------- MODULE RwLockProofs -----------------------------
(***************************************************************************)
(* Proofs about RwLock for any finite set of threads and any delays: Inv   *)
(* is inductive, and it implies the invariants that the run of MCRwLock    *)
(* checks.                                                                 *)
(***************************************************************************)
EXTENDS RwLock, SchedulerProofs, FiniteSetTheorems

Held == {t \in Thread : mode[t] # "none"}
Owned == IF rw_o = NoThread THEN 0 ELSE 1

(* Who waits has not entered. *)
WaitersOut == \A t \in Thread : pc[t] \in Waithead => mode[t] = "none"

(* While the lock has no owner, whoever is still on a queue is there behind a
   writer that has been woken.  FreeRwHasTaker does not say which kind of
   thread was woken, and so is not inductive: a reader that finds a writer
   waiting goes back to sleep. *)
WriterTakes ==
    rw_o = NoThread /\ (\E w \in Waithead : waitq[w] # <<>>) => \E t \in runnable : pc[t] = wwait

(* How far the struct is from what it should count, whatever rw_downgrade()
   and rw_tryupgrade() have done to rw_v: this bounds rw_v. *)
Accounts ==
    /\ Cardinality(Held) - Cardinality(Thread) <= rw_v + Owned
    /\ rw_v + Owned <= Cardinality(Held) + 1

Inv == TypeOK /\ QueuesSound /\ WaitersOut /\ WriterTakes /\ HoldersCounted /\ Accounts

(* Giving up and taking the CPU are mere abbreviations: they are expanded
   throughout. *)
USE DEF Unsched, Sched

-----------------------------------------------------------------------------

(* The labels of pc are no queues. *)
LEMMA QueueNames ==
  /\ rwait \in Waithead /\ wwait \in Waithead /\ rwait # wwait
  /\ \A w \in Waithead : w = rwait \/ w = wwait
  /\ "start" \notin Waithead /\ "run" \notin Waithead /\ "sleep" \notin Waithead
  BY RwQueuesAssumption

(* The holders are finitely many. *)
LEMMA HeldFacts ==
  /\ IsFiniteSet(Held) /\ Cardinality(Held) \in Nat /\ Cardinality(Thread) \in Nat
  /\ Cardinality(Held) <= Cardinality(Thread)
  /\ \A t \in Held : Cardinality(Held) > 0
  /\ Owned \in {0, 1}
<1>1. Held \in SUBSET Thread
  BY DEF Held
<1>2. IsFiniteSet(Held) /\ Cardinality(Held) <= Cardinality(Thread)
  BY <1>1, ThreadAssumption, FS_Subset
<1>3. Cardinality(Held) \in Nat /\ Cardinality(Thread) \in Nat
  BY <1>2, ThreadAssumption, FS_CardinalityType
<1>4. \A t \in Held : Cardinality(Held) # 0
  BY <1>2, FS_EmptySet
<1> QED
  BY <1>2, <1>3, <1>4 DEF Owned

(* The same after a step. *)
LEMMA HeldFactsPrime ==
  (/\ IsFiniteSet(Held) /\ Cardinality(Held) \in Nat /\ Cardinality(Thread) \in Nat
   /\ Cardinality(Held) <= Cardinality(Thread)
   /\ \A t \in Held : Cardinality(Held) > 0
   /\ Owned \in {0, 1})'
  BY HeldFacts, PTL

(* Accounts keeps rw_v in its range. *)
LEMMA RangeFromAccounts ==
  ASSUME rw_v' \in Int, Accounts'
  PROVE  rw_v' \in (-1 - Cardinality(Thread))..(1 + Cardinality(Thread))
<1>1. /\ Cardinality(Held)' \in Nat /\ Cardinality(Thread) \in Nat
      /\ Cardinality(Held)' <= Cardinality(Thread) /\ Owned' \in {0, 1}
  BY HeldFactsPrime
<1>2. /\ Cardinality(Held)' - Cardinality(Thread) <= rw_v' + Owned'
      /\ rw_v' + Owned' <= Cardinality(Held)' + 1
  BY DEF Accounts
<1> QED
  BY <1>1, <1>2

(* A step that leaves the lock and its holders alone. *)
LEMMA HoldersKept ==
  ASSUME Accounts, HoldersCounted, UNCHANGED rwVars
  PROVE  Accounts' /\ HoldersCounted' /\ Held' = Held
  BY DEF Accounts, HoldersCounted, Held, Owned, rwVars

(* HoldersCounted in the words of this module. *)
LEMMA HoldersCountedIs == HoldersCounted <=> (~downgraded => rw_v + Owned = Cardinality(Held))
  BY DEF HoldersCounted, Held, Owned

LEMMA HoldersCountedIsPrime ==
  HoldersCounted' <=> (~downgraded' => rw_v' + Owned' = Cardinality(Held'))
  BY DEF HoldersCounted, Held, Owned

(* rw_tryenter() counts who enters. *)
LEMMA EnterCounts ==
  ASSUME TypeOK, Accounts, HoldersCounted, NEW t \in Thread, NEW w \in Waithead,
         mode[t] = "none", Enter(t, w)
  PROVE  /\ rw_v' \in (-1 - Cardinality(Thread))..(1 + Cardinality(Thread))
         /\ rw_o' \in Thread \cup {NoThread}
         /\ mode' \in [Thread -> {"none", "shared", "exclusive"}]
         /\ \A u \in Thread : u # t => mode'[u] = mode[u]
         /\ w = wwait => rw_o' # NoThread
         /\ w = rwait => rw_o' = NoThread
         /\ rw_o = NoThread
         /\ Accounts' /\ HoldersCounted'
<1>1. rw_v \in Int /\ rw_o = NoThread /\ downgraded' = downgraded
  BY HeldFacts DEF TypeOK, Enter, CanEnter
<1>2. /\ mode' \in [Thread -> {"none", "shared", "exclusive"}]
      /\ \A u \in Thread : u # t => mode'[u] = mode[u]
      /\ mode'[t] # "none"
  BY DEF Enter, TypeOK
<1>3. Held' = Held \cup {t} /\ t \notin Held
  BY <1>2 DEF Held
<1>4. Cardinality(Held') = Cardinality(Held) + 1
  BY <1>3, HeldFacts, FS_AddElement
<1>5. rw_v' \in Int /\ rw_v' + Owned' = rw_v + Owned + 1
  BY <1>1, QueueNames, NoThreadAssumption DEF Enter, Owned
<1>6. Accounts' /\ HoldersCounted'
  <2>1. PICK h \in Int, n \in Int, x \in Int :
          /\ h = Cardinality(Held) /\ n = Cardinality(Thread) /\ x = rw_v + Owned
          /\ h + 1 = Cardinality(Held') /\ x + 1 = rw_v' + Owned'
    <3>1. Cardinality(Held) \in Int /\ Cardinality(Thread) \in Int
      BY HeldFacts
    <3>2. rw_v + Owned \in Int
      BY <1>1 DEF Owned
    <3> QED
      BY <1>4, <1>5, <3>1, <3>2
  <2>2. (h + 1) - n <= x + 1 /\ x + 1 <= (h + 1) + 1
    BY <2>1 DEF Accounts
  <2>3. ~downgraded => x = h
    BY <2>1, HoldersCountedIs
  <2> QED
    BY <1>1, <2>1, <2>2, <2>3, HoldersCountedIsPrime DEF Accounts
<1>7. /\ rw_o' \in Thread \cup {NoThread}
      /\ w = wwait => rw_o' # NoThread
      /\ w = rwait => rw_o' = NoThread
  BY <1>1, QueueNames, NoThreadAssumption DEF Enter, TypeOK
<1> QED
  BY <1>1, <1>2, <1>5, <1>6, <1>7, RangeFromAccounts

-----------------------------------------------------------------------------

(* Steps that leave the queues alone keep them sound. *)
LEMMA QueuesKept ==
  ASSUME TypeOK, QueuesSound, UNCHANGED <<waitq, onlist>>,
         \A u \in Thread, w \in Waithead : pc'[u] = w <=> pc[u] = w,
         \A u \in runnable : u \in runnable' \/ pc[u] \notin Waithead
  PROVE  QueuesSound'
<1>1. ASSUME NEW w \in Waithead
      PROVE  IsInjective(waitq'[w]) /\ ToSet(waitq'[w]) = {u \in onlist' : pc'[u] = w}
  BY DEF QueuesSound, TypeOK, SchedTypeOK
<1>2. \A u \in Thread : pc'[u] \in Waithead /\ u \notin onlist' => u \in runnable'
  BY DEF QueuesSound
<1> QED
  BY <1>1, <1>2 DEF QueuesSound

(* So do steps that change the queue w only, when they link there whom they
   put on onlist and unlink whom they take off. *)
LEMMA QueueChanged ==
  ASSUME TypeOK, waitq' \in [Waithead -> Seq(Thread)], onlist' \subseteq Thread,
         QueuesSound, NEW w \in Waithead,
         IsInjective(waitq'[w]),
         \A u \in Thread : u \in ToSet(waitq'[w]) <=> (u \in onlist' /\ pc'[u] = w),
         \A v \in Waithead \ {w} : waitq'[v] = waitq[v],
         \A u \in Thread, v \in Waithead \ {w} :
             (u \in onlist /\ pc[u] = v) <=> (u \in onlist' /\ pc'[u] = v),
         \A u \in Thread : pc'[u] \in Waithead /\ u \notin onlist' => u \in runnable'
  PROVE  QueuesSound'
<1>1. \A v \in Waithead : ToSet(waitq'[v]) \subseteq Thread
  BY ToSetType
<1>2. ASSUME NEW v \in Waithead
      PROVE  IsInjective(waitq'[v]) /\ ToSet(waitq'[v]) = {u \in onlist' : pc'[u] = v}
  <2>1. CASE v = w
    BY <2>1, <1>1
  <2>2. CASE v # w
    <3>1. waitq'[v] = waitq[v] /\ v \in Waithead \ {w}
      BY <2>2
    <3>2. \A u \in Thread : u \in ToSet(waitq[v]) <=> (u \in onlist /\ pc[u] = v)
      BY DEF QueuesSound, TypeOK, SchedTypeOK
    <3>3. \A u \in Thread : u \in ToSet(waitq'[v]) <=> (u \in onlist' /\ pc'[u] = v)
      BY <3>1, <3>2
    <3> QED
      BY <3>1, <3>3, <1>1 DEF QueuesSound
  <2> QED
    BY <2>1, <2>2
<1> QED
  BY <1>2 DEF QueuesSound

(* The writer that was woken stays when it is not t who runs. *)
LEMMA TakerKept ==
  ASSUME WriterTakes, rw_o' = NoThread => rw_o = NoThread,
         \A u \in runnable : pc[u] = wwait => u \in runnable' /\ pc'[u] = wwait,
         (\E w \in Waithead : waitq'[w] # <<>>) => (\E w \in Waithead : waitq[w] # <<>>)
  PROVE  WriterTakes'
  BY DEF WriterTakes

(* A waiting thread that its own wait() takes off the queue. *)
LEMMA WaitLeftSet ==
  ASSUME TypeOK, QueuesSound, NEW w \in Waithead, NEW t \in Thread, pc[t] = w
  PROVE  /\ WaitLeft(t, w) \in Seq(Thread)
         /\ IsInjective(WaitLeft(t, w))
         /\ ToSet(WaitLeft(t, w)) = ToSet(waitq[w]) \ {t}
         /\ waitq[w] = <<>> => WaitLeft(t, w) = <<>>
<1>1. waitq[w] \in Seq(Thread) /\ IsInjective(waitq[w])
  BY DEF TypeOK, SchedTypeOK, QueuesSound
<1>2. t \in onlist <=> t \in ToSet(waitq[w])
  BY DEF QueuesSound
<1>3. waitq[w] = <<>> => t \notin ToSet(waitq[w])
  BY DEF ToSet
<1>4. CASE t \in onlist
  BY <1>1, <1>2, <1>3, <1>4, UnlinkSet DEF WaitLeft
<1>5. CASE t \notin onlist
  BY <1>1, <1>2, <1>5 DEF WaitLeft
<1> QED
  BY <1>4, <1>5

-----------------------------------------------------------------------------

(* The initial states satisfy Inv. *)
LEMMA InitInv == Init => Inv
<1> SUFFICES ASSUME Init PROVE Inv
  OBVIOUS
<1>1. thread_list \in Seq(Thread) /\ current_thread \in Thread
  <2>1. PICK list \in SetToSeqs(Thread) : thread_list = list /\ current_thread = Head(list)
    BY DEF Init
  <2>2. Cardinality(Thread) \in Nat /\ Cardinality(Thread) # 0
    BY ThreadAssumption, FS_CardinalityType, FS_EmptySet
  <2>3. list \in [1..Cardinality(Thread) -> Thread]
    BY <2>1 DEF SetToSeqs
  <2>4. list \in Seq(Thread) /\ Len(list) = Cardinality(Thread)
    BY <2>2, <2>3
  <2> QED
    BY <2>1, <2>2, <2>3, <2>4
<1>2. TypeOK
  <2>1. <<>> \in Seq(Thread)
    OBVIOUS
  <2>2. waitq \in [Waithead -> Seq(Thread)]
    BY <2>1 DEF Init
  <2>3. wakeup_time \in [Thread -> NotSleeping..MaxTime] /\ clock \in 0..MaxTime
    BY TimeAssumption DEF Init, NotSleeping
  <2>4. SchedTypeOK
    BY <1>1, <2>2, <2>3 DEF Init, SchedTypeOK
  <2>5. rw_v \in (-1 - Cardinality(Thread))..(1 + Cardinality(Thread))
    BY HeldFacts DEF Init
  <2> QED
    BY <2>4, <2>5 DEF Init, TypeOK
<1>3. QueuesSound /\ WaitersOut /\ WriterTakes
  BY QueueNames DEF Init, QueuesSound, WaitersOut, WriterTakes, IsInjective, ToSet
<1>4. Cardinality(Held) = 0 /\ Owned = 0 /\ rw_v = 0
  <2>1. Held = {}
    BY DEF Init, Held
  <2> QED
    BY <2>1, FS_EmptySet DEF Init, Owned
<1>5. Accounts /\ HoldersCounted
  BY <1>4, HeldFacts, HoldersCountedIs DEF Accounts
<1> QED
  BY <1>2, <1>3, <1>5 DEF Inv

(* A step that leaves the lock alone, when nobody joins or leaves a queue. *)
LEMMA OtherStepKeepsInv ==
  ASSUME Inv, SchedTypeOK', pc' \in [Thread -> {"start", "run", "sleep", rwait, wwait}],
         vcpu' \in Thread \cup {NoThread}, aborted' \in BOOLEAN,
         UNCHANGED <<waitq, onlist, rwVars>>,
         \A u \in Thread, w \in Waithead : pc'[u] = w <=> pc[u] = w,
         \A u \in runnable : u \in runnable' \/ pc[u] \notin Waithead
  PROVE  Inv'
<1>1. TypeOK'
  BY DEF Inv, TypeOK, rwVars
<1>2. QueuesSound'
  BY QueuesKept DEF Inv
<1>3. WaitersOut'
  BY DEF Inv, WaitersOut, rwVars
<1>4. WriterTakes'
  <2>1. \A u \in runnable : pc[u] = wwait => u \in runnable' /\ pc'[u] = wwait
    BY QueueNames DEF Inv, TypeOK, SchedTypeOK
  <2> QED
    BY <2>1, TakerKept DEF Inv, rwVars
<1>5. Accounts' /\ HoldersCounted'
  BY HoldersKept DEF Inv
<1> QED
  BY <1>1, <1>2, <1>3, <1>4, <1>5 DEF Inv

(* A thread's first entry into the rump kernel, and the end of clock_sleep(). *)
LEMMA TakeCpuKeepsInv ==
  ASSUME Inv, NEW t \in Thread, TakeCpu(t)
  PROVE  Inv'
<1>1. /\ SchedTypeOK' /\ vcpu' \in Thread \cup {NoThread} /\ aborted' \in BOOLEAN
      /\ UNCHANGED <<waitq, onlist, rwVars, runnable>>
  BY DEF TakeCpu, schedVars, Inv, TypeOK, SchedTypeOK
<1>2. /\ pc' \in [Thread -> {"start", "run", "sleep", rwait, wwait}]
      /\ \A u \in Thread : u # t => pc'[u] = pc[u]
      /\ pc'[t] = "run" /\ pc[t] \in {"start", "sleep"}
  BY DEF TakeCpu, Inv, TypeOK
<1>3. \A u \in Thread, w \in Waithead : pc'[u] = w <=> pc[u] = w
  BY <1>2, QueueNames
<1> QED
  BY <1>1, <1>2, <1>3, OtherStepKeepsInv

(* clock_sleep() *)
LEMMA SleepKeepsInv ==
  ASSUME Inv, NEW t \in Thread, NEW d \in Delay, Sleep(t, d)
  PROVE  Inv'
<1>1. /\ runnable' = runnable \ {t} /\ runnable' \subseteq Thread
      /\ wakeup_time' \in [Thread -> NotSleeping..MaxTime] /\ scheduling' = TRUE
  <2>1. Deadline(d) \in NotSleeping..MaxTime
    BY DeadlineType, TimeAssumption DEF Sleep, Inv, TypeOK, SchedTypeOK
  <2> QED
    BY <2>1, WakeThenSleepType DEF Sleep, Inv, TypeOK, WakeThenSleep, Woken
<1>2. /\ SchedTypeOK' /\ vcpu' \in Thread \cup {NoThread} /\ aborted' \in BOOLEAN
      /\ UNCHANGED <<waitq, onlist, rwVars>>
  BY <1>1 DEF Sleep, Inv, TypeOK, SchedTypeOK
<1>3. /\ pc' \in [Thread -> {"start", "run", "sleep", rwait, wwait}]
      /\ \A u \in Thread : u # t => pc'[u] = pc[u]
      /\ pc'[t] = "sleep" /\ pc[t] = "run"
  BY DEF Sleep, InKernel, Inv, TypeOK
<1>4. \A u \in Thread, w \in Waithead : pc'[u] = w <=> pc[u] = w
  BY <1>3, QueueNames
<1>5. \A u \in runnable : u \in runnable' \/ pc[u] \notin Waithead
  BY <1>1, <1>3, QueueNames
<1> QED
  BY <1>2, <1>3, <1>4, <1>5, OtherStepKeepsInv

(* The iterations of schedule()'s loop, the idle loop and the clock. *)
LEMMA SchedulerKeepsInv ==
  ASSUME Inv, Schedule \/ PollFds \/ ClockTick
  PROVE  Inv'
<1>1. /\ SchedTypeOK' /\ runnable \subseteq runnable'
      /\ UNCHANGED <<waitq, onlist, pc, vcpu, rwVars, aborted>>
  <2>1. SchedTypeOK
    BY DEF Inv, TypeOK
  <2>2. CASE Schedule
    BY <2>1, <2>2, SwitchToType DEF Schedule
  <2>3. CASE PollFds
    BY <2>1, <2>3, PollType DEF PollFds
  <2>4. CASE ClockTick
    BY <2>1, <2>4, TickType DEF ClockTick, Tick
  <2> QED
    BY <2>2, <2>3, <2>4
<1>2. /\ pc' \in [Thread -> {"start", "run", "sleep", rwait, wwait}]
      /\ vcpu' \in Thread \cup {NoThread} /\ aborted' \in BOOLEAN
  BY <1>1 DEF Inv, TypeOK
<1> QED
  BY <1>1, <1>2, OtherStepKeepsInv

-----------------------------------------------------------------------------

(* rw_enter() succeeds at once. *)
LEMMA RwEnterKeepsInv ==
  ASSUME Inv, NEW t \in Thread, NEW w \in Waithead, RwEnter(t, w)
  PROVE  Inv'
<1>1. /\ mode[t] = "none" /\ Enter(t, w) /\ pc[t] = "run"
      /\ UNCHANGED <<schedVars, pc, vcpu, aborted>>
  BY DEF RwEnter, InKernel
<1>2. /\ rw_v' \in (-1 - Cardinality(Thread))..(1 + Cardinality(Thread))
      /\ rw_o' \in Thread \cup {NoThread}
      /\ mode' \in [Thread -> {"none", "shared", "exclusive"}]
      /\ \A u \in Thread : u # t => mode'[u] = mode[u]
      /\ rw_o = NoThread
      /\ Accounts' /\ HoldersCounted'
  BY <1>1, EnterCounts DEF Inv
<1>3. TypeOK'
  BY <1>1, <1>2 DEF Inv, TypeOK, SchedTypeOK, schedVars, Enter
<1>4. QueuesSound'
  BY <1>1, QueuesKept DEF Inv, schedVars
<1>5. WaitersOut'
  BY <1>1, <1>2, QueueNames DEF Inv, WaitersOut
<1>6. WriterTakes'
  BY <1>1, <1>2 DEF Inv, WriterTakes, schedVars
<1> QED
  BY <1>2, <1>3, <1>4, <1>5, <1>6 DEF Inv

(* rw_enter() joins a queue: behind an owner, or as a reader behind a writer
   who waits. *)
LEMMA RwBlockKeepsInv ==
  ASSUME Inv, NEW t \in Thread, NEW w \in Waithead, RwBlock(t, w)
  PROVE  Inv'
<1>1. /\ pc[t] = "run" /\ mode[t] = "none" /\ ~CanEnter(w) /\ vcpu' = NoThread
      /\ waitq' = [waitq EXCEPT ![w] = Append(@, t)] /\ onlist' = onlist \cup {t}
      /\ pc' = [pc EXCEPT ![t] = w]
      /\ UNCHANGED <<thread_list, current_thread, clock, rwVars, aborted>>
  BY DEF RwBlock, InKernel
<1>2. /\ runnable' = runnable \ {t} /\ runnable' \subseteq Thread
      /\ wakeup_time' \in [Thread -> NotSleeping..MaxTime] /\ scheduling' = TRUE
  <2>1. NotSleeping \in NotSleeping..MaxTime
    BY TimeAssumption DEF NotSleeping
  <2> QED
    BY <2>1, WakeThenSleepType DEF RwBlock, Inv, TypeOK, WakeThenSleep, Woken
<1>3. /\ Append(waitq[w], t) \in Seq(Thread) /\ IsInjective(Append(waitq[w], t))
      /\ ToSet(Append(waitq[w], t)) = ToSet(waitq[w]) \cup {t}
  <2>1. t \notin ToSet(waitq[w])
    BY <1>1, QueueNames DEF Inv, QueuesSound
  <2> QED
    BY <2>1, AppendSet DEF Inv, TypeOK, SchedTypeOK, QueuesSound
<1>4. /\ waitq'[w] = Append(waitq[w], t) /\ waitq' \in [Waithead -> Seq(Thread)]
      /\ \A v \in Waithead \ {w} : waitq'[v] = waitq[v]
      /\ onlist' \subseteq Thread
      /\ pc' \in [Thread -> {"start", "run", "sleep", rwait, wwait}]
      /\ pc'[t] = w /\ \A u \in Thread : u # t => pc'[u] = pc[u]
  BY <1>1, <1>3, QueueNames DEF Inv, TypeOK, SchedTypeOK
<1>5. TypeOK'
  <2>1. SchedTypeOK'
    BY <1>1, <1>2, <1>4 DEF Inv, TypeOK, SchedTypeOK
  <2> QED
    BY <1>1, <1>4, <2>1 DEF Inv, TypeOK, rwVars
<1>6. QueuesSound'
  <2>1. \A u \in Thread : u \in ToSet(waitq[w]) <=> (u \in onlist /\ pc[u] = w)
    BY DEF Inv, QueuesSound, TypeOK, SchedTypeOK
  <2>2. \A u \in Thread : u \in ToSet(waitq'[w]) <=> (u \in onlist' /\ pc'[u] = w)
    BY <1>1, <1>3, <1>4, <2>1
  <2>3. \A u \in Thread, v \in Waithead \ {w} :
            (u \in onlist /\ pc[u] = v) <=> (u \in onlist' /\ pc'[u] = v)
    BY <1>1, <1>4, QueueNames
  <2>4. \A u \in Thread : pc'[u] \in Waithead /\ u \notin onlist' => u \in runnable'
    BY <1>1, <1>2, <1>4 DEF Inv, QueuesSound
  <2> QED
    BY <1>3, <1>4, <2>2, <2>3, <2>4, QueueChanged DEF Inv
<1>7. WaitersOut'
  BY <1>1, <1>4 DEF Inv, WaitersOut, rwVars
<1>8. WriterTakes'
  <2>1. rw_o = NoThread => waitq[wwait] # <<>>
    BY <1>1 DEF CanEnter
  <2>2. \A u \in runnable : pc[u] = wwait => u \in runnable' /\ pc'[u] = wwait
    BY <1>1, <1>2, <1>4, QueueNames DEF Inv, TypeOK, SchedTypeOK
  <2> QED
    BY <1>1, <2>1, <2>2, QueueNames DEF Inv, WriterTakes, rwVars
<1>9. Accounts' /\ HoldersCounted'
  BY <1>1, HoldersKept DEF Inv
<1> QED
  BY <1>5, <1>6, <1>7, <1>8, <1>9 DEF Inv

(* rw_enter() gets the lock after a wait.  A reader that does so leaves the
   writer that has been woken where it is. *)
LEMMA RwWonKeepsInv ==
  ASSUME Inv, NEW t \in Thread, NEW w \in Waithead, RwWon(t, w)
  PROVE  Inv'
<1>1. /\ pc[t] = w /\ mode[t] = "none" /\ Enter(t, w) /\ vcpu' = t
      /\ waitq' = [waitq EXCEPT ![w] = WaitLeft(t, w)] /\ onlist' = onlist \ {t}
      /\ pc' = [pc EXCEPT ![t] = "run"]
      /\ UNCHANGED <<thread_list, current_thread, runnable, wakeup_time, scheduling, clock, aborted>>
  BY DEF RwWon, Inv, WaitersOut
<1>2. /\ rw_v' \in (-1 - Cardinality(Thread))..(1 + Cardinality(Thread))
      /\ rw_o' \in Thread \cup {NoThread}
      /\ mode' \in [Thread -> {"none", "shared", "exclusive"}]
      /\ \A u \in Thread : u # t => mode'[u] = mode[u]
      /\ w = wwait => rw_o' # NoThread
      /\ rw_o = NoThread
      /\ Accounts' /\ HoldersCounted'
  BY <1>1, EnterCounts DEF Inv
<1>3. /\ WaitLeft(t, w) \in Seq(Thread) /\ IsInjective(WaitLeft(t, w))
      /\ ToSet(WaitLeft(t, w)) = ToSet(waitq[w]) \ {t}
      /\ waitq[w] = <<>> => WaitLeft(t, w) = <<>>
  BY <1>1, WaitLeftSet DEF Inv
<1>4. /\ waitq'[w] = WaitLeft(t, w) /\ waitq' \in [Waithead -> Seq(Thread)]
      /\ \A v \in Waithead \ {w} : waitq'[v] = waitq[v]
      /\ onlist' \subseteq Thread
      /\ pc' \in [Thread -> {"start", "run", "sleep", rwait, wwait}]
      /\ pc'[t] = "run" /\ \A u \in Thread : u # t => pc'[u] = pc[u]
  BY <1>1, <1>3 DEF Inv, TypeOK, SchedTypeOK
<1>5. TypeOK'
  <2>1. SchedTypeOK'
    BY <1>1, <1>4 DEF Inv, TypeOK, SchedTypeOK
  <2> QED
    BY <1>1, <1>2, <1>4, <2>1 DEF Inv, TypeOK, Enter
<1>6. QueuesSound'
  <2>1. \A u \in Thread : u \in ToSet(waitq[w]) <=> (u \in onlist /\ pc[u] = w)
    BY DEF Inv, QueuesSound, TypeOK, SchedTypeOK
  <2>2. \A u \in Thread : u \in ToSet(waitq'[w]) <=> (u \in onlist' /\ pc'[u] = w)
    BY <1>1, <1>3, <1>4, <2>1, QueueNames
  <2>3. \A u \in Thread, v \in Waithead \ {w} :
            (u \in onlist /\ pc[u] = v) <=> (u \in onlist' /\ pc'[u] = v)
    BY <1>1, <1>4, QueueNames
  <2>4. \A u \in Thread : pc'[u] \in Waithead /\ u \notin onlist' => u \in runnable'
    BY <1>1, <1>4, QueueNames DEF Inv, QueuesSound
  <2> QED
    BY <1>3, <1>4, <2>2, <2>3, <2>4, QueueChanged DEF Inv
<1>7. WaitersOut'
  BY <1>1, <1>2, <1>4, QueueNames DEF Inv, WaitersOut
<1>8. WriterTakes'
  <2>1. CASE w = wwait
    BY <1>2, <2>1 DEF WriterTakes
  <2>2. CASE w # wwait
    <3>1. \A u \in runnable : pc[u] = wwait => u \in runnable' /\ pc'[u] = wwait
      BY <1>1, <1>4, <2>2 DEF Inv, TypeOK, SchedTypeOK
    <3>2. \A v \in Waithead : waitq'[v] # <<>> => waitq[v] # <<>>
      BY <1>3, <1>4
    <3> QED
      BY <1>2, <3>1, <3>2, TakerKept DEF Inv
  <2> QED
    BY <2>1, <2>2
<1> QED
  BY <1>2, <1>5, <1>6, <1>7, <1>8 DEF Inv

(* ... or waits again. *)
LEMMA RwLostKeepsInv ==
  ASSUME Inv, NEW t \in Thread, NEW w \in Waithead, RwLost(t, w)
  PROVE  Inv'
<1>1. /\ pc[t] = w /\ ~CanEnter(w)
      /\ waitq' = [waitq EXCEPT ![w] = Append(WaitLeft(t, w), t)] /\ onlist' = onlist \cup {t}
      /\ UNCHANGED <<thread_list, current_thread, clock, pc, vcpu, rwVars, aborted>>
  BY DEF RwLost
<1>2. /\ runnable' = runnable \ {t} /\ runnable' \subseteq Thread
      /\ wakeup_time' \in [Thread -> NotSleeping..MaxTime] /\ scheduling' = TRUE
  <2>1. NotSleeping \in NotSleeping..MaxTime
    BY TimeAssumption DEF NotSleeping
  <2> QED
    BY <2>1, WakeThenSleepType DEF RwLost, Inv, TypeOK, WakeThenSleep, Woken
<1>3. PICK q \in Seq(Thread) : /\ q = Append(WaitLeft(t, w), t) /\ IsInjective(q)
                               /\ ToSet(q) = ToSet(waitq[w]) \cup {t}
  <2>1. /\ WaitLeft(t, w) \in Seq(Thread) /\ IsInjective(WaitLeft(t, w))
        /\ ToSet(WaitLeft(t, w)) = ToSet(waitq[w]) \ {t}
    BY <1>1, WaitLeftSet DEF Inv
  <2>2. t \notin ToSet(WaitLeft(t, w))
    BY <2>1
  <2>3. /\ Append(WaitLeft(t, w), t) \in Seq(Thread) /\ IsInjective(Append(WaitLeft(t, w), t))
        /\ ToSet(Append(WaitLeft(t, w), t)) = ToSet(WaitLeft(t, w)) \cup {t}
    BY <2>1, <2>2, AppendSet
  <2> QED
    BY <2>1, <2>3
<1>4. /\ waitq'[w] = q /\ waitq' \in [Waithead -> Seq(Thread)]
      /\ \A v \in Waithead \ {w} : waitq'[v] = waitq[v]
      /\ onlist' \subseteq Thread
  BY <1>1, <1>3 DEF Inv, TypeOK, SchedTypeOK
<1>5. TypeOK'
  <2>1. SchedTypeOK'
    BY <1>1, <1>2, <1>4 DEF Inv, TypeOK, SchedTypeOK
  <2> QED
    BY <1>1, <2>1 DEF Inv, TypeOK, rwVars
<1>6. QueuesSound'
  <2>1. \A u \in Thread : u \in ToSet(waitq[w]) <=> (u \in onlist /\ pc[u] = w)
    BY DEF Inv, QueuesSound, TypeOK, SchedTypeOK
  <2>2. \A u \in Thread : u \in ToSet(waitq'[w]) <=> (u \in onlist' /\ pc'[u] = w)
    BY <1>1, <1>3, <1>4, <2>1
  <2>3. \A u \in Thread, v \in Waithead \ {w} :
            (u \in onlist /\ pc[u] = v) <=> (u \in onlist' /\ pc'[u] = v)
    BY <1>1
  <2>4. \A u \in Thread : pc'[u] \in Waithead /\ u \notin onlist' => u \in runnable'
    BY <1>1, <1>2 DEF Inv, QueuesSound
  <2> QED
    BY <1>3, <1>4, <2>2, <2>3, <2>4, QueueChanged DEF Inv
<1>7. WaitersOut'
  BY <1>1 DEF Inv, WaitersOut, rwVars
<1>8. WriterTakes'
  <2>1. rw_o = NoThread => w = rwait /\ waitq[wwait] # <<>>
    BY <1>1 DEF CanEnter
  <2>2. rw_o = NoThread => \E u \in runnable : pc[u] = wwait
    BY <2>1, QueueNames DEF Inv, WriterTakes
  <2>3. rw_o = NoThread => \E u \in runnable' : pc'[u] = wwait
    BY <1>1, <1>2, <2>1, <2>2, QueueNames
  <2> QED
    BY <1>1, <2>3 DEF WriterTakes, rwVars
<1>9. Accounts' /\ HoldersCounted'
  BY <1>1, HoldersKept DEF Inv
<1> QED
  BY <1>5, <1>6, <1>7, <1>8, <1>9 DEF Inv

(* Who exits is counted once, whether it is taken for the owner or for one of
   the readers. *)
LEMMA ExitCounts ==
  ASSUME TypeOK, Accounts, HoldersCounted, NEW t \in Thread, mode[t] # "none", GiveUp,
         mode' = [mode EXCEPT ![t] = "none"], UNCHANGED downgraded
  PROVE  /\ rw_v' \in (-1 - Cardinality(Thread))..(1 + Cardinality(Thread))
         /\ rw_o' = NoThread
         /\ mode' \in [Thread -> {"none", "shared", "exclusive"}]
         /\ mode'[t] = "none" /\ \A u \in Thread : u # t => mode'[u] = mode[u]
         /\ Accounts' /\ HoldersCounted'
<1>1. rw_v \in Int /\ rw_o' = NoThread
  BY HeldFacts DEF TypeOK, GiveUp
<1>2. /\ mode' \in [Thread -> {"none", "shared", "exclusive"}]
      /\ mode'[t] = "none" /\ \A u \in Thread : u # t => mode'[u] = mode[u]
  BY DEF TypeOK
<1>3. Held' = Held \ {t} /\ t \in Held
  BY <1>2 DEF Held
<1>4. Cardinality(Held') = Cardinality(Held) - 1
  BY <1>3, HeldFacts, FS_RemoveElement
<1>5. rw_v' \in Int /\ rw_v' + Owned' = (rw_v + Owned) - 1
  BY <1>1 DEF GiveUp, Owned
<1>6. PICK h \in Int, n \in Int, x \in Int :
        /\ h = Cardinality(Held) /\ n = Cardinality(Thread) /\ x = rw_v + Owned
        /\ h - 1 = Cardinality(Held') /\ x - 1 = rw_v' + Owned'
  <2>1. Cardinality(Held) \in Int /\ Cardinality(Thread) \in Int
    BY HeldFacts
  <2>2. rw_v + Owned \in Int
    BY <1>1 DEF Owned
  <2> QED
    BY <1>4, <1>5, <2>1, <2>2
<1>7. Accounts'
  <2>1. h - n <= x /\ x <= h + 1
    BY <1>6 DEF Accounts
  <2>2. \A i, j, k \in Int : i - j <= k /\ k <= i + 1 => (i - 1) - j <= k - 1 /\ k - 1 <= (i - 1) + 1
    OBVIOUS
  <2>3. (h - 1) - n <= x - 1 /\ x - 1 <= (h - 1) + 1
    BY <2>1, <2>2
  <2> QED
    BY <1>6, <2>3 DEF Accounts
<1>8. HoldersCounted'
  <2>1. ~downgraded => x = h
    BY <1>6, HoldersCountedIs
  <2> QED
    BY <1>6, <2>1, HoldersCountedIsPrime
<1> QED
  BY <1>1, <1>2, <1>5, <1>7, <1>8, RangeFromAccounts

(* rw_exit(): it leaves a woken writer, or nobody on a queue. *)
LEMMA RwExitKeepsInv ==
  ASSUME Inv, NEW t \in Thread, RwExit(t)
  PROVE  Inv'
<1>1. /\ pc[t] = "run" /\ mode[t] # "none" /\ GiveUp /\ mode' = [mode EXCEPT ![t] = "none"]
      /\ waitq' = QueuesAfterExit /\ onlist' = onlist \ WokenByExit /\ Wake(WokenByExit)
      /\ UNCHANGED <<thread_list, current_thread, scheduling, clock, pc, vcpu, downgraded, aborted>>
  BY DEF RwExit, InKernel
<1>2. /\ rw_v' \in (-1 - Cardinality(Thread))..(1 + Cardinality(Thread))
      /\ rw_o' = NoThread
      /\ mode' \in [Thread -> {"none", "shared", "exclusive"}]
      /\ mode'[t] = "none" /\ \A u \in Thread : u # t => mode'[u] = mode[u]
      /\ Accounts' /\ HoldersCounted'
  BY <1>1, ExitCounts DEF Inv
<1>3. PICK w \in Waithead :
        /\ w = wwait <=> waitq[wwait] # <<>>
        /\ waitq'[w] \in Seq(Thread) /\ IsInjective(waitq'[w])
        /\ ToSet(waitq'[w]) = ToSet(waitq[w]) \ WokenByExit
        /\ WokenByExit \subseteq ToSet(waitq[w])
        /\ \A v \in Waithead \ {w} : waitq'[v] = waitq[v]
        /\ w = wwait => WokenByExit # {}
        /\ w = rwait => waitq'[w] = <<>>
        /\ waitq' \in [Waithead -> Seq(Thread)]
  <2>1. /\ waitq \in [Waithead -> Seq(Thread)]
        /\ \A v \in Waithead : waitq[v] \in Seq(Thread) /\ IsInjective(waitq[v])
    BY DEF Inv, TypeOK, SchedTypeOK, QueuesSound
  <2>2. CASE waitq[wwait] # <<>>
    <3>1. /\ waitq' = [waitq EXCEPT ![wwait] = RestOf(@)]
          /\ WokenByExit = FirstOf(waitq[wwait]) /\ WokenByExit # {}
      BY <1>1, <2>2 DEF QueuesAfterExit, WokenByExit, FirstOf
    <3>2. /\ RestOf(waitq[wwait]) \in Seq(Thread) /\ IsInjective(RestOf(waitq[wwait]))
          /\ ToSet(RestOf(waitq[wwait])) = ToSet(waitq[wwait]) \ FirstOf(waitq[wwait])
          /\ FirstOf(waitq[wwait]) \subseteq ToSet(waitq[wwait])
      BY <2>1, QueueNames, RestOfSet
    <3> QED
      BY <2>1, <2>2, <3>1, <3>2, QueueNames
  <2>3. CASE waitq[wwait] = <<>>
    <3>1. waitq' = [waitq EXCEPT ![rwait] = <<>>] /\ WokenByExit = ToSet(waitq[rwait])
      BY <1>1, <2>3 DEF QueuesAfterExit, WokenByExit
    <3>2. <<>> \in Seq(Thread) /\ IsInjective(<<>>) /\ ToSet(<<>>) = {}
      BY DEF IsInjective, ToSet
    <3> QED
      BY <2>1, <2>3, <3>1, <3>2, QueueNames
  <2> QED
    BY <2>2, <2>3
<1>4. WokenByExit \subseteq {u \in onlist : pc[u] = w} /\ WokenByExit \subseteq Thread
  BY <1>3 DEF Inv, QueuesSound, TypeOK, SchedTypeOK
<1>5. /\ runnable' \subseteq Thread /\ runnable' = runnable \cup WokenByExit
      /\ wakeup_time' \in [Thread -> NotSleeping..MaxTime]
  BY <1>1, <1>4, WakeType DEF Inv, TypeOK, Wake, Woken
<1>6. TypeOK'
  <2>1. SchedTypeOK'
    BY <1>1, <1>3, <1>5 DEF Inv, TypeOK, SchedTypeOK
  <2> QED
    BY <1>1, <1>2, <2>1 DEF Inv, TypeOK
<1>7. QueuesSound'
  <2>1. \A u \in Thread : u \in ToSet(waitq[w]) <=> (u \in onlist /\ pc[u] = w)
    BY DEF Inv, QueuesSound, TypeOK, SchedTypeOK
  <2>2. \A u \in Thread : u \in ToSet(waitq'[w]) <=> (u \in onlist' /\ pc'[u] = w)
    BY <1>1, <1>3, <2>1
  <2>3. \A u \in Thread, v \in Waithead \ {w} :
            (u \in onlist /\ pc[u] = v) <=> (u \in onlist' /\ pc'[u] = v)
    BY <1>1, <1>4
  <2>4. \A u \in Thread : pc'[u] \in Waithead /\ u \notin onlist' => u \in runnable'
    BY <1>1, <1>5 DEF Inv, QueuesSound
  <2>5. onlist' \subseteq Thread
    BY <1>1 DEF Inv, TypeOK, SchedTypeOK
  <2> QED
    BY <1>3, <2>2, <2>3, <2>4, <2>5, QueueChanged DEF Inv
<1>8. WaitersOut'
  BY <1>1, <1>2 DEF Inv, WaitersOut
<1>9. WriterTakes'
  <2>1. CASE w = wwait
    BY <1>1, <1>3, <1>4, <1>5, <2>1 DEF WriterTakes
  <2>2. CASE w = rwait
    <3>1. waitq'[rwait] = <<>> /\ waitq'[wwait] = <<>>
      BY <1>3, <2>2, QueueNames
    <3> QED
      BY <3>1, QueueNames DEF WriterTakes
  <2> QED
    BY <2>1, <2>2, QueueNames
<1> QED
  BY <1>2, <1>6, <1>7, <1>8, <1>9 DEF Inv

(* rw_downgrade() leaves -1 in rw_v, which is right for none of the holders,
   and is within the bounds all the same. *)
LEMMA RwDowngradeKeepsInv ==
  ASSUME Inv, NEW t \in Thread, RwDowngrade(t)
  PROVE  Inv'
<1>1. /\ mode[t] = "exclusive"
      /\ UNCHANGED <<schedVars, pc, vcpu, rw_o>>
  BY DEF RwDowngrade
<1>2. CASE rw_o = t /\ rw_v' = -1 /\ mode' = [mode EXCEPT ![t] = "shared"]
           /\ downgraded' = TRUE /\ UNCHANGED aborted
  <2>1. mode' \in [Thread -> {"none", "shared", "exclusive"}]
        /\ \A u \in Thread : mode'[u] = "none" <=> mode[u] = "none"
    BY <1>1, <1>2 DEF Inv, TypeOK
  <2>2. Held' = Held
    BY <2>1 DEF Held
  <2>3. Owned' = 1
    BY <1>1, <1>2, NoThreadAssumption DEF Owned
  <2>4. Accounts'
    <3>1. PICK h \in Nat, n \in Nat : h = Cardinality(Held) /\ n = Cardinality(Thread) /\ h <= n
      BY HeldFacts
    <3>2. h - n <= -1 + 1 /\ -1 + 1 <= h + 1
      BY <3>1
    <3> QED
      BY <1>2, <2>2, <2>3, <3>1, <3>2 DEF Accounts
  <2>5. TypeOK'
    <3>1. rw_v' \in (-1 - Cardinality(Thread))..(1 + Cardinality(Thread))
      BY <1>2, <2>4, RangeFromAccounts
    <3> QED
      BY <1>1, <1>2, <2>1, <3>1 DEF Inv, TypeOK, SchedTypeOK, schedVars
  <2>6. QueuesSound'
    BY <1>1 DEF Inv, QueuesSound, schedVars
  <2>7. WaitersOut'
    BY <1>1, <2>1 DEF Inv, WaitersOut
  <2>8. WriterTakes' /\ HoldersCounted'
    BY <1>1, <1>2, NoThreadAssumption DEF WriterTakes, HoldersCounted
  <2> QED
    BY <2>4, <2>5, <2>6, <2>7, <2>8 DEF Inv
<1>3. CASE aborted' = TRUE /\ UNCHANGED <<rw_v, mode, downgraded>>
  <2>1. UNCHANGED rwVars
    BY <1>1, <1>3 DEF rwVars
  <2>2. TypeOK'
    BY <1>1, <1>3, <2>1 DEF Inv, TypeOK, SchedTypeOK, schedVars, rwVars
  <2>3. QueuesSound' /\ WaitersOut' /\ WriterTakes'
    BY <1>1, <2>1 DEF Inv, QueuesSound, WaitersOut, WriterTakes, schedVars, rwVars
  <2> QED
    BY <2>1, <2>2, <2>3, HoldersKept DEF Inv
<1> QED
  BY <1>2, <1>3 DEF RwDowngrade

(* rw_tryupgrade() succeeds only on the rw_v that a downgrade leaves. *)
LEMMA RwTryupgradeKeepsInv ==
  ASSUME Inv, NEW t \in Thread, RwTryupgrade(t)
  PROVE  Inv'
<1>1. /\ mode[t] = "shared" /\ rw_v = -1 /\ rw_v' = 1 /\ rw_o' = t
      /\ mode' = [mode EXCEPT ![t] = "exclusive"]
      /\ UNCHANGED <<schedVars, pc, vcpu, downgraded, aborted>>
  BY DEF RwTryupgrade
<1>2. mode' \in [Thread -> {"none", "shared", "exclusive"}]
      /\ \A u \in Thread : mode'[u] = "none" <=> mode[u] = "none"
  BY <1>1 DEF Inv, TypeOK
<1>3. Held' = Held /\ t \in Held
  BY <1>1, <1>2 DEF Held
<1>4. Owned' = 1
  BY <1>1, NoThreadAssumption DEF Owned
<1>5. PICK h \in Nat, n \in Nat :
        h = Cardinality(Held) /\ n = Cardinality(Thread) /\ h <= n /\ h > 0
  BY <1>3, HeldFacts
<1>6. Accounts'
  <2>1. h - n <= 1 + 1 /\ 1 + 1 <= h + 1
    BY <1>5
  <2> QED
    BY <1>1, <1>3, <1>4, <1>5, <2>1 DEF Accounts
<1>7. HoldersCounted'
  <2>1. rw_v + Owned <= 0
    BY <1>1 DEF Owned
  <2>2. downgraded
    BY <1>5, <2>1, HoldersCountedIs DEF Inv
  <2> QED
    BY <1>1, <2>2 DEF HoldersCounted
<1>8. TypeOK'
  <2>1. rw_v' \in (-1 - Cardinality(Thread))..(1 + Cardinality(Thread))
    BY <1>1, <1>6, RangeFromAccounts
  <2> QED
    BY <1>1, <1>2, <2>1 DEF Inv, TypeOK, SchedTypeOK, schedVars
<1>9. QueuesSound'
  BY <1>1 DEF Inv, QueuesSound, schedVars
<1>10. WaitersOut'
  BY <1>1, <1>2 DEF Inv, WaitersOut
<1>11. WriterTakes'
  BY <1>1, NoThreadAssumption DEF WriterTakes
<1> QED
  BY <1>6, <1>7, <1>8, <1>9, <1>10, <1>11 DEF Inv

-----------------------------------------------------------------------------

LEMMA NextKeepsInv ==
  ASSUME Inv, [Next]_vars
  PROVE  Inv'
<1>1. CASE Schedule \/ PollFds \/ ClockTick
  BY <1>1, SchedulerKeepsInv
<1>2. ASSUME NEW t \in Thread, TakeCpu(t) \/ RwExit(t) \/ RwDowngrade(t) \/ RwTryupgrade(t)
      PROVE  Inv'
  BY <1>2, TakeCpuKeepsInv, RwExitKeepsInv, RwDowngradeKeepsInv, RwTryupgradeKeepsInv
<1>3. ASSUME NEW t \in Thread, NEW d \in Delay, Sleep(t, d)
      PROVE  Inv'
  BY <1>3, SleepKeepsInv
<1>4. ASSUME NEW t \in Thread, NEW w \in Waithead,
             RwEnter(t, w) \/ RwBlock(t, w) \/ RwWon(t, w) \/ RwLost(t, w)
      PROVE  Inv'
  BY <1>4, RwEnterKeepsInv, RwBlockKeepsInv, RwWonKeepsInv, RwLostKeepsInv
<1>5. CASE UNCHANGED vars
  <2>1. UNCHANGED rwVars
    BY <1>5 DEF vars
  <2>2. TypeOK' /\ QueuesSound' /\ WaitersOut' /\ WriterTakes'
    BY <1>5 DEF vars, Inv, TypeOK, SchedTypeOK, QueuesSound, WaitersOut, WriterTakes,
                schedVars, rwVars
  <2> QED
    BY <2>1, <2>2, HoldersKept DEF Inv
<1> QED
  BY <1>1, <1>2, <1>3, <1>4, <1>5 DEF Next

LEMMA InvAlways == Spec => []Inv
  BY InitInv, NextKeepsInv, PTL DEF Spec

(* Every run of the read/write lock keeps its variables within their types:
   rw_v cannot leave the range of the number of threads around what
   rw_downgrade() and rw_tryupgrade() store in it. *)
THEOREM RwTypeCorrect == Spec => []TypeOK
<1>1. Inv => TypeOK
  BY DEF Inv
<1> QED
  BY <1>1, InvAlways, PTL

(* wait() and wakeup_one() keep the two queues of the lock: they hold exactly
   the threads whose onlist is set, each once, and who has been taken off can
   run. *)
THEOREM RwQueuesSound == Spec => []QueuesSound
<1>1. Inv => QueuesSound
  BY DEF Inv
<1> QED
  BY <1>1, InvAlways, PTL

(* rw_exit() strands nobody: while the lock has no owner and threads wait in
   rw_enter(), one of them is runnable. *)
THEOREM RwNobodyStranded == Spec => []FreeRwHasTaker
<1>1. Inv => FreeRwHasTaker
  <2> SUFFICES ASSUME Inv, rw_o = NoThread, NEW t \in Thread, pc[t] \in Waithead
               PROVE  \E u \in runnable : pc[u] \in Waithead
    BY DEF FreeRwHasTaker
  <2>1. CASE t \notin onlist
    BY <2>1 DEF Inv, QueuesSound
  <2>2. CASE t \in onlist
    <3>1. t \in ToSet(waitq[pc[t]])
      BY <2>2 DEF Inv, QueuesSound
    <3>2. waitq[pc[t]] # <<>>
      BY <3>1 DEF ToSet
    <3> QED
      BY <3>2, QueueNames DEF Inv, WriterTakes
  <2> QED
    BY <2>1, <2>2
<1> QED
  BY <1>1, InvAlways, PTL

(* rw_exit() does not know whose entry it gives back, and yet, until the lock
   is first downgraded, rw_v and rw_o account for as many holders as
   rw_enter() and rw_tryenter() have let in. *)
THEOREM RwHoldersCounted == Spec => []HoldersCounted
<1>1. Inv => HoldersCounted
  BY DEF Inv
<1> QED
  BY <1>1, InvAlways, PTL
=============================================================================
