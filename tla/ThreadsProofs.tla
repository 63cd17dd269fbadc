---------------------------- MODULE ThreadsProofs ----------------------------
(***************************************************************************)
(* Proofs about Threads for any finite set of threads, whoever they join   *)
(* and however long they sleep: Inv is inductive, and it implies the       *)
(* invariants that the run of MCThreads checks.  The round robin of        *)
(* schedule() follows from Inv too.                                        *)
(***************************************************************************)
EXTENDS Threads, SchedulerProofs

Gone == {"unborn", "exited", "freed"}

(* Only the thread that runs is outside every schedule(); it is on the list,
   and it has started. *)
RunSound ==
    /\ pc[current_thread] \notin {"unborn", "freed"}
    /\ ~scheduling => current_thread \in runnable /\ pc[current_thread] \notin {"fresh", "exited"}
    /\ \A t \in Thread : pc[t] = "run" => Running(t)

(* Who holds the CPU has not gone to wait for it, to sleep or to exit. *)
CpuInKernel == vcpu # NoThread => pc[vcpu] \in {"run", "join"}

(* The queue of rcpu_cv is the only one in use: it links those who wait for
   the CPU. *)
CpuQueueSound ==
    /\ IsInjective(waitq[rcpu_cv]) /\ ToSet(waitq[rcpu_cv]) = onlist
    /\ \A t \in onlist : pc[t] = "cpu"
    /\ \A w \in Waithead \ {rcpu_cv} : waitq[w] = <<>>

(* Who is on joinwq wants one thread, that nobody else wants and that has
   THREAD_MUSTJOIN set, so it is still there. *)
JoinSound ==
    /\ \A t \in Thread : t \in joinwq <=> pc[t] = "join"
    /\ \A t \in Thread : wanted[t] # NoThread <=> pc[t] = "join"
    /\ \A t \in Thread : wanted[t] # NoThread => wanted[t] \in mustjoin
    /\ \A t, u \in Thread : wanted[t] = wanted[u] /\ wanted[t] # NoThread => t = u
    /\ \A t \in mustjoin : pc[t] \notin Gone
    /\ \A t \in joined : pc[t] \in {"gate", "exited", "freed"}

(* The receive threads and the first thread do not exit. *)
Stays == \A t \in FdThread \cup {InitThread} : pc[t] \notin {"gate", "exited", "freed"}

(* BlockedHasWaker by the place where a thread is blocked. *)
HasWaker(t) ==
    /\ pc[t] \notin {"run", "fresh"}
    /\ pc[t] = "sleep" => wakeup_time[t] >= 0
    /\ pc[t] = "cpu" => vcpu # NoThread /\ t \in onlist
    /\ pc[t] = "join" => wanted[t] \notin joined
    /\ pc[t] = "gate" =>
           t \in mustjoin /\ t \in joined /\ \A j \in Thread : wanted[j] = t => j \in runnable

Wakers == \A t \in Thread \ runnable : HasWaker(t)

Inv ==
    /\ TypeOK /\ ListIsLiveThreads /\ RunSound /\ CpuInKernel /\ CpuQueueSound /\ JoinSound
    /\ Stays /\ Wakers

-----------------------------------------------------------------------------

(* The list names only threads that are there. *)
LEMMA ListMembers ==
  ASSUME Inv
  PROVE  \A t \in Thread : t \in ToSet(thread_list) <=> pc[t] \notin Gone
  BY DEF Inv, ListIsLiveThreads, Gone

(* A step that changes neither the list nor who is on it. *)
LEMMA ListKept ==
  ASSUME Inv, UNCHANGED thread_list,
         \A t \in Thread : pc'[t] \in Gone <=> pc[t] \in Gone
  PROVE  ListIsLiveThreads'
  BY DEF Inv, ListIsLiveThreads, Gone

(* A step that leaves the queue of the CPU alone. *)
LEMMA CpuQueueKept ==
  ASSUME Inv, UNCHANGED <<waitq, onlist>>,
         \A t \in Thread : pc[t] = "cpu" => pc'[t] = "cpu"
  PROVE  CpuQueueSound'
  BY DEF Inv, CpuQueueSound, TypeOK, SchedTypeOK

(* A step that leaves the joins alone. *)
LEMMA JoinsKept ==
  ASSUME Inv, UNCHANGED <<mustjoin, joined, joinwq, wanted>>,
         \A t \in Thread : pc'[t] = "join" <=> pc[t] = "join",
         \A t \in Thread : pc'[t] \in Gone => pc[t] \in Gone \/ t \notin mustjoin,
         \A t \in Thread : pc[t] \in {"gate", "exited", "freed"} => pc'[t] \in {"gate", "exited", "freed"}
  PROVE  JoinSound'
  BY DEF Inv, JoinSound, TypeOK

(* A thread that blocks, and joins nobody, takes no waker from the others. *)
LEMMA OthersHaveWakers ==
  ASSUME Inv, NEW t \in Thread, wanted[t] = NoThread, runnable \ {t} \subseteq runnable',
         UNCHANGED <<mustjoin, joined, wanted>>,
         \A u \in Thread \ runnable' : u # t =>
             /\ pc'[u] = pc[u] /\ wakeup_time'[u] = wakeup_time[u]
             /\ pc[u] = "cpu" /\ vcpu # NoThread /\ u \in onlist => vcpu' # NoThread /\ u \in onlist'
  PROVE  \A u \in Thread \ runnable' : u # t => HasWaker(u)'
<1> SUFFICES ASSUME NEW u \in Thread, u \notin runnable', u # t
             PROVE  HasWaker(u)'
  OBVIOUS
<1>1. HasWaker(u)
  BY DEF Inv, Wakers
<1>2. \A j \in Thread : wanted'[j] = u => j # t
  BY NoThreadAssumption
<1> QED
  BY <1>1, <1>2 DEF HasWaker

(* The queue after wait() has returned to t holds the others. *)
LEMMA WaitLeftSet ==
  ASSUME Inv, NEW t \in Thread
  PROVE  /\ WaitLeft(t) \in Seq(Thread) /\ IsInjective(WaitLeft(t))
         /\ ToSet(WaitLeft(t)) = onlist \ {t}
<1>1. waitq[rcpu_cv] \in Seq(Thread) /\ IsInjective(waitq[rcpu_cv]) /\ ToSet(waitq[rcpu_cv]) = onlist
  BY CpuAssumption DEF Inv, TypeOK, SchedTypeOK, CpuQueueSound
<1>2. CASE t \in onlist
  BY <1>1, <1>2, UnlinkSet DEF WaitLeft
<1>3. CASE t \notin onlist
  BY <1>1, <1>3 DEF WaitLeft
<1> QED
  BY <1>2, <1>3

-----------------------------------------------------------------------------

LEMMA InitInv == Init => Inv
<1> SUFFICES ASSUME Init PROVE Inv
  OBVIOUS
<1>1. InitThread \in Thread /\ InitThread \notin FdThread
  BY InitThreadAssumption
<1>2. /\ \A t \in Thread : pc[t] = IF t = InitThread THEN "run" ELSE "unborn"
      /\ \A t \in Thread : wanted[t] = NoThread
  BY DEF Init
<1>3. TypeOK
  <2>1. NotSleeping \in NotSleeping..MaxTime /\ 0 \in 0..MaxTime
    BY TimeAssumption DEF NotSleeping
  <2>2. <<InitThread>> \in Seq(Thread) /\ <<>> \in Seq(Thread)
    BY <1>1
  <2>3. waitq \in [Waithead -> Seq(Thread)] /\ wakeup_time \in [Thread -> NotSleeping..MaxTime]
    BY <2>1, <2>2 DEF Init
  <2>4. SchedTypeOK
    BY <1>1, <2>1, <2>2, <2>3 DEF Init, SchedTypeOK
  <2> QED
    BY <1>1, <2>4 DEF Init, TypeOK, PC
<1>4. ListIsLiveThreads
  <2>1. ToSet(thread_list) = {InitThread} /\ IsInjective(thread_list)
    BY DEF Init, ToSet, IsInjective
  <2> QED
    BY <1>1, <1>2, <2>1 DEF ListIsLiveThreads
<1>5. RunSound /\ CpuInKernel /\ Stays
  BY <1>1, <1>2, FdAssumption DEF Init, RunSound, Running, CpuInKernel, Stays
<1>6. CpuQueueSound
  <2>1. IsInjective(<<>>) /\ ToSet(<<>>) = {}
    BY DEF IsInjective, ToSet
  <2> QED
    BY <2>1, CpuAssumption DEF Init, CpuQueueSound
<1>7. JoinSound
  BY <1>2 DEF Init, JoinSound
<1>8. Wakers
  BY <1>2 DEF Init, Wakers, HasWaker
<1> QED
  BY <1>3, <1>4, <1>5, <1>6, <1>7, <1>8 DEF Inv

(* create_thread(): the new thread is on the list and runnable. *)
LEMMA CreateThreadKeepsInv ==
  ASSUME Inv, NEW t \in Thread, NEW u \in Thread, NEW joinable \in BOOLEAN,
         CreateThread(t, u, joinable)
  PROVE  Inv'
<1>1. /\ Running(t) /\ pc[t] = "run" /\ pc[u] = "unborn"
      /\ pc' = [pc EXCEPT ![u] = "fresh"]
      /\ mustjoin' \in {mustjoin, mustjoin \cup {u}}
      /\ thread_list' = Append(thread_list, u)
      /\ runnable' = runnable \cup {u}
      /\ wakeup_time' = [wakeup_time EXCEPT ![u] = NotSleeping]
      /\ UNCHANGED <<current_thread, scheduling, waitq, onlist, clock, vcpu, joined, joinwq, wanted>>
  BY DEF CreateThread
<1>2. /\ pc'[u] = "fresh" /\ \A v \in Thread : v # u => pc'[v] = pc[v]
      /\ \A v \in Thread : v # u => wakeup_time'[v] = wakeup_time[v]
      /\ pc' \in [Thread -> PC]
  BY <1>1 DEF Inv, TypeOK, SchedTypeOK, PC
<1>3. thread_list \in Seq(Thread) /\ IsInjective(thread_list) /\ u \notin ToSet(thread_list)
  BY <1>1 DEF Inv, TypeOK, SchedTypeOK, ListIsLiveThreads
<1>4. /\ thread_list' \in Seq(Thread) /\ IsInjective(thread_list')
      /\ ToSet(thread_list') = ToSet(thread_list) \cup {u}
  BY <1>1, <1>3, AppendSet
<1>5. TypeOK'
  <2>1. wakeup_time' \in [Thread -> NotSleeping..MaxTime]
    <3>1. NotSleeping \in NotSleeping..MaxTime
      BY TimeAssumption DEF NotSleeping
    <3> QED
      BY <1>1, <3>1 DEF Inv, TypeOK, SchedTypeOK
  <2>2. SchedTypeOK'
    BY <1>1, <1>4, <2>1 DEF Inv, TypeOK, SchedTypeOK
  <2> QED
    BY <1>1, <1>2, <2>2 DEF Inv, TypeOK
<1>6. ListIsLiveThreads'
  BY <1>2, <1>4 DEF Inv, ListIsLiveThreads
<1>7. RunSound'
  BY <1>1, <1>2 DEF Inv, TypeOK, SchedTypeOK, RunSound, Running
<1>8. CpuInKernel' /\ Stays'
  BY <1>1, <1>2, InitThreadAssumption, FdAssumption DEF Inv, TypeOK, CpuInKernel, Stays
<1>9. CpuQueueSound'
  BY <1>1, <1>2, CpuQueueKept
<1>10. JoinSound'
  BY <1>1, <1>2 DEF Inv, TypeOK, JoinSound, Gone
<1>11. Wakers'
  BY <1>1, <1>2 DEF Inv, TypeOK, Wakers, HasWaker
<1> QED
  BY <1>5, <1>6, <1>7, <1>8, <1>9, <1>10, <1>11 DEF Inv

(* The end of a turn in the rump kernel: everyone who waited is woken. *)
LEMMA LeaveKernelKeepsInv ==
  ASSUME Inv, NEW t \in Thread, LeaveKernel(t)
  PROVE  Inv'
<1>1. /\ Running(t) /\ pc[t] = "run" /\ vcpu' = NoThread
      /\ waitq' = [waitq EXCEPT ![rcpu_cv] = <<>>] /\ onlist' = onlist \ CpuWaiters /\ Wake(CpuWaiters)
      /\ UNCHANGED <<thread_list, current_thread, scheduling, clock, pc, mustjoin, joined, joinwq, wanted>>
  BY DEF LeaveKernel, ReleaseCpu
<1>2. CpuWaiters = onlist /\ onlist \subseteq Thread
  BY DEF CpuWaiters, Inv, CpuQueueSound, TypeOK, SchedTypeOK
<1>3. /\ runnable' = runnable \cup onlist
      /\ \A u \in Thread : u \notin onlist => wakeup_time'[u] = wakeup_time[u]
      /\ runnable' \subseteq Thread /\ wakeup_time' \in [Thread -> NotSleeping..MaxTime]
  BY <1>1, <1>2, WakeEach, WakeType DEF Inv, TypeOK
<1>4. /\ onlist' = {} /\ waitq' \in [Waithead -> Seq(Thread)]
      /\ waitq'[rcpu_cv] = <<>> /\ \A w \in Waithead : w # rcpu_cv => waitq'[w] = waitq[w]
  BY <1>1, <1>2, CpuAssumption DEF Inv, TypeOK, SchedTypeOK
<1>5. TypeOK'
  <2>1. SchedTypeOK'
    BY <1>1, <1>3, <1>4 DEF Inv, TypeOK, SchedTypeOK
  <2> QED
    BY <1>1, <2>1 DEF Inv, TypeOK
<1>6. ListIsLiveThreads'
  BY <1>1, ListKept
<1>7. RunSound' /\ CpuInKernel' /\ Stays'
  BY <1>1, <1>3 DEF Inv, RunSound, Running, CpuInKernel, Stays
<1>8. CpuQueueSound'
  <2>1. IsInjective(<<>>) /\ ToSet(<<>>) = {}
    BY DEF IsInjective, ToSet
  <2> QED
    BY <1>4, <2>1 DEF Inv, CpuQueueSound
<1>9. JoinSound'
  BY <1>1, JoinsKept
<1>10. Wakers'
  BY <1>1, <1>3 DEF Inv, TypeOK, Wakers, HasWaker
<1> QED
  BY <1>5, <1>6, <1>7, <1>8, <1>9, <1>10 DEF Inv

(* A free CPU is taken, on entry or after a sleep or a wait. *)
LEMMA TakeCpuKeepsInv ==
  ASSUME Inv, NEW t \in Thread, TakeCpu(t)
  PROVE  Inv'
<1>1. /\ Running(t) /\ pc[t] \in {"run", "sleep", "cpu"} /\ vcpu' = t /\ vcpu = NoThread
      /\ pc' = [pc EXCEPT ![t] = "run"]
      /\ waitq' = [waitq EXCEPT ![rcpu_cv] = WaitLeft(t)] /\ onlist' = onlist \ {t}
      /\ UNCHANGED <<thread_list, current_thread, runnable, wakeup_time, scheduling, clock,
                     mustjoin, joined, joinwq, wanted>>
  BY DEF TakeCpu
<1>2. /\ pc'[t] = "run" /\ \A u \in Thread : u # t => pc'[u] = pc[u]
      /\ pc' \in [Thread -> PC]
  BY <1>1 DEF Inv, TypeOK, PC
<1>3. /\ waitq' \in [Waithead -> Seq(Thread)]
      /\ IsInjective(waitq'[rcpu_cv]) /\ ToSet(waitq'[rcpu_cv]) = onlist'
      /\ \A w \in Waithead : w # rcpu_cv => waitq'[w] = waitq[w]
  BY <1>1, WaitLeftSet, CpuAssumption DEF Inv, TypeOK, SchedTypeOK
<1>4. TypeOK'
  <2>1. SchedTypeOK'
    BY <1>1, <1>3 DEF Inv, TypeOK, SchedTypeOK
  <2> QED
    BY <1>1, <1>2, <2>1 DEF Inv, TypeOK
<1>5. ListIsLiveThreads'
  BY <1>1, <1>2, ListKept DEF Gone
<1>6. RunSound' /\ CpuInKernel' /\ Stays'
  BY <1>1, <1>2, InitThreadAssumption, FdAssumption DEF Inv, RunSound, Running, CpuInKernel, Stays
<1>7. CpuQueueSound'
  BY <1>1, <1>2, <1>3 DEF Inv, CpuQueueSound, TypeOK, SchedTypeOK
<1>8. JoinSound'
  BY <1>1, <1>2, JoinsKept DEF Gone
<1>9. Wakers'
  BY <1>1, <1>2, NoThreadAssumption DEF Inv, Wakers, HasWaker, RunSound, Running
<1> QED
  BY <1>4, <1>5, <1>6, <1>7, <1>8, <1>9 DEF Inv

(* A busy CPU is waited for. *)
LEMMA AwaitCpuKeepsInv ==
  ASSUME Inv, NEW t \in Thread, AwaitCpu(t)
  PROVE  Inv'
<1>1. /\ Running(t) /\ pc[t] \in {"run", "sleep", "cpu"} /\ vcpu # NoThread /\ vcpu # t
      /\ pc' = [pc EXCEPT ![t] = "cpu"]
      /\ waitq' = [waitq EXCEPT ![rcpu_cv] = Append(WaitLeft(t), t)] /\ onlist' = onlist \cup {t}
      /\ WakeThenSleep({}, t, NotSleeping)
      /\ UNCHANGED <<thread_list, current_thread, clock, vcpu, mustjoin, joined, joinwq, wanted>>
  BY DEF AwaitCpu
<1>2. /\ pc'[t] = "cpu" /\ \A u \in Thread : u # t => pc'[u] = pc[u]
      /\ pc' \in [Thread -> PC]
  BY <1>1 DEF Inv, TypeOK, PC
<1>3. /\ waitq' \in [Waithead -> Seq(Thread)]
      /\ IsInjective(waitq'[rcpu_cv]) /\ ToSet(waitq'[rcpu_cv]) = onlist'
      /\ \A w \in Waithead : w # rcpu_cv => waitq'[w] = waitq[w]
  <2>1. /\ WaitLeft(t) \in Seq(Thread) /\ IsInjective(WaitLeft(t))
        /\ ToSet(WaitLeft(t)) = onlist \ {t}
    BY WaitLeftSet
  <2>2. /\ Append(WaitLeft(t), t) \in Seq(Thread) /\ IsInjective(Append(WaitLeft(t), t))
        /\ ToSet(Append(WaitLeft(t), t)) = (onlist \ {t}) \cup {t}
    BY <2>1, AppendSet
  <2> QED
    BY <1>1, <2>2, CpuAssumption DEF Inv, TypeOK, SchedTypeOK
<1>4. /\ runnable' = runnable \ {t} /\ scheduling' = TRUE
      /\ \A u \in Thread : u # t => wakeup_time'[u] = wakeup_time[u]
      /\ wakeup_time' \in [Thread -> NotSleeping..MaxTime]
  <2>1. NotSleeping \in NotSleeping..MaxTime
    BY TimeAssumption DEF NotSleeping
  <2>2. {} \in SUBSET Thread /\ SchedTypeOK
    BY DEF Inv, TypeOK
  <2> QED
    BY <1>1, <2>1, <2>2, SleepEach, WakeThenSleepType
<1>5. TypeOK'
  <2>1. SchedTypeOK'
    BY <1>1, <1>3, <1>4 DEF Inv, TypeOK, SchedTypeOK
  <2> QED
    BY <1>1, <1>2, <2>1 DEF Inv, TypeOK
<1>6. ListIsLiveThreads'
  BY <1>1, <1>2, ListKept DEF Gone
<1>7. RunSound' /\ Stays'
  BY <1>1, <1>2, <1>4, InitThreadAssumption, FdAssumption DEF Inv, RunSound, Running, Stays
<1>8. CpuInKernel'
  BY <1>1, <1>2 DEF Inv, TypeOK, CpuInKernel
<1>9. CpuQueueSound'
  BY <1>1, <1>2, <1>3 DEF Inv, CpuQueueSound, TypeOK, SchedTypeOK
<1>10. JoinSound'
  BY <1>1, <1>2, JoinsKept DEF Gone
<1>11. Wakers'
  <2>1. \A u \in Thread \ runnable' : u # t => HasWaker(u)'
    <3>1. wanted[t] = NoThread
      BY <1>1 DEF Inv, JoinSound
    <3> QED
      BY <1>1, <1>2, <1>4, <3>1, OthersHaveWakers
  <2>2. HasWaker(t)'
    BY <1>1, <1>2 DEF HasWaker
  <2> QED
    BY <2>1, <2>2 DEF Wakers
<1> QED
  BY <1>5, <1>6, <1>7, <1>8, <1>9, <1>10, <1>11 DEF Inv

(* clock_sleep(): the sleeper gives up the CPU and has a wakeup time. *)
LEMMA ClockSleepKeepsInv ==
  ASSUME Inv, NEW t \in Thread, NEW tm \in 0..MaxTime, ClockSleep(t, tm)
  PROVE  Inv'
<1>1. /\ Running(t) /\ pc[t] = "run" /\ vcpu' = NoThread /\ pc' = [pc EXCEPT ![t] = "sleep"]
      /\ waitq' = [waitq EXCEPT ![rcpu_cv] = <<>>] /\ onlist' = onlist \ CpuWaiters
      /\ WakeThenSleep(CpuWaiters, t, tm)
      /\ UNCHANGED <<thread_list, current_thread, clock, mustjoin, joined, joinwq, wanted>>
  BY DEF ClockSleep, ReleaseCpu
<1>2. /\ pc'[t] = "sleep" /\ \A u \in Thread : u # t => pc'[u] = pc[u]
      /\ pc' \in [Thread -> PC]
  BY <1>1 DEF Inv, TypeOK, PC
<1>3. CpuWaiters = onlist /\ onlist \subseteq Thread /\ t \notin onlist
  BY <1>1 DEF CpuWaiters, Inv, CpuQueueSound, TypeOK, SchedTypeOK
<1>4. /\ runnable' = (runnable \cup onlist) \ {t} /\ scheduling' = TRUE /\ wakeup_time'[t] = tm
      /\ \A u \in Thread : u # t /\ u \notin onlist => wakeup_time'[u] = wakeup_time[u]
      /\ runnable' \subseteq Thread /\ wakeup_time' \in [Thread -> NotSleeping..MaxTime]
  <2>1. tm \in NotSleeping..MaxTime
    BY DEF NotSleeping
  <2>2. CpuWaiters \in SUBSET Thread /\ SchedTypeOK
    BY <1>3 DEF Inv, TypeOK
  <2> QED
    BY <1>1, <1>3, <2>1, <2>2, SleepEach, WakeThenSleepType
<1>5. /\ onlist' = {} /\ waitq' \in [Waithead -> Seq(Thread)]
      /\ waitq'[rcpu_cv] = <<>> /\ \A w \in Waithead : w # rcpu_cv => waitq'[w] = waitq[w]
  BY <1>1, <1>3, CpuAssumption DEF Inv, TypeOK, SchedTypeOK
<1>6. TypeOK'
  <2>1. SchedTypeOK'
    BY <1>1, <1>4, <1>5 DEF Inv, TypeOK, SchedTypeOK
  <2> QED
    BY <1>1, <1>2, <2>1 DEF Inv, TypeOK
<1>7. ListIsLiveThreads'
  BY <1>1, <1>2, ListKept DEF Gone
<1>8. RunSound' /\ CpuInKernel' /\ Stays'
  BY <1>1, <1>2, <1>4, InitThreadAssumption, FdAssumption
     DEF Inv, RunSound, Running, CpuInKernel, Stays
<1>9. CpuQueueSound'
  <2>1. IsInjective(<<>>) /\ ToSet(<<>>) = {}
    BY DEF IsInjective, ToSet
  <2> QED
    BY <1>5, <2>1 DEF Inv, CpuQueueSound
<1>10. JoinSound'
  BY <1>1, <1>2, JoinsKept DEF Gone
<1>11. Wakers'
  <2>1. \A u \in Thread \ runnable' : u # t => HasWaker(u)'
    <3>1. wanted[t] = NoThread
      BY <1>1 DEF Inv, JoinSound
    <3>2. \A u \in Thread \ runnable' : u # t => u \notin onlist
      BY <1>4
    <3> QED
      BY <1>1, <1>2, <1>4, <3>1, <3>2, OthersHaveWakers
  <2>2. HasWaker(t)'
    BY <1>2, <1>4 DEF HasWaker
  <2> QED
    BY <2>1, <2>2 DEF Wakers
<1> QED
  BY <1>6, <1>7, <1>8, <1>9, <1>10, <1>11 DEF Inv

LEMMA SleepKeepsInv ==
  ASSUME Inv, NEW t \in Thread, Sleep(t)
  PROVE  Inv'
<1>1. PICK d \in Delay : \/ clock + d <= MaxTime /\ ClockSleep(t, Deadline(d))
                         \/ ClockSleep(t, d)
  BY DEF Sleep
<1>2. d \in 0..MaxTime /\ MaxTime \in Nat /\ clock \in 0..MaxTime
  BY TimeAssumption DEF Inv, TypeOK, SchedTypeOK
<1>3. clock + d <= MaxTime => Deadline(d) \in 0..MaxTime
  BY <1>2 DEF Deadline, NotSleeping
<1> QED
  BY <1>1, <1>2, <1>3, ClockSleepKeepsInv

-----------------------------------------------------------------------------

(* Who joins is not its own target, which is there. *)
LEMMA JoinTarget ==
  ASSUME Inv, NEW t \in Thread, NEW u \in Thread, MayJoin(t, u)
  PROVE  /\ Running(t) /\ pc[t] \in {"run", "join"} /\ u \in mustjoin
         /\ \A j \in Thread : j # t => wanted[j] # u
         /\ t \notin joined /\ pc[u] \notin Gone
         /\ wanted[t] \in {NoThread, u}
  BY DEF Inv, JoinSound, MayJoin, TypeOK

(* join_thread() waits for a thread that has not come to exit_thread(). *)
LEMMA JoinWaitKeepsInv ==
  ASSUME Inv, NEW t \in Thread, NEW u \in Thread, JoinWait(t, u)
  PROVE  Inv'
<1>1. /\ u \notin joined /\ joinwq' = joinwq \cup {t} /\ wanted' = [wanted EXCEPT ![t] = u]
      /\ pc' = [pc EXCEPT ![t] = "join"] /\ WakeThenSleep({}, t, NotSleeping)
      /\ UNCHANGED <<thread_list, current_thread, waitq, onlist, clock, vcpu, mustjoin, joined>>
  BY DEF JoinWait, IsExiting
<1>2. /\ Running(t) /\ pc[t] \in {"run", "join"} /\ u \in mustjoin
      /\ \A j \in Thread : j # t => wanted[j] # u
      /\ t \notin joined /\ wanted[t] \in {NoThread, u}
  BY JoinTarget DEF JoinWait
<1>3. /\ pc'[t] = "join" /\ \A v \in Thread : v # t => pc'[v] = pc[v]
      /\ pc' \in [Thread -> PC]
  BY <1>1 DEF Inv, TypeOK, PC
<1>4. /\ wanted'[t] = u /\ \A v \in Thread : v # t => wanted'[v] = wanted[v]
      /\ wanted' \in [Thread -> Thread \cup {NoThread}]
  BY <1>1 DEF Inv, TypeOK
<1>5. /\ runnable' = runnable \ {t} /\ scheduling' = TRUE
      /\ \A v \in Thread : v # t => wakeup_time'[v] = wakeup_time[v]
      /\ wakeup_time' \in [Thread -> NotSleeping..MaxTime]
  <2>1. NotSleeping \in NotSleeping..MaxTime
    BY TimeAssumption DEF NotSleeping
  <2>2. {} \in SUBSET Thread /\ SchedTypeOK
    BY DEF Inv, TypeOK
  <2> QED
    BY <1>1, <2>1, <2>2, SleepEach, WakeThenSleepType
<1>6. TypeOK'
  <2>1. SchedTypeOK'
    BY <1>1, <1>5 DEF Inv, TypeOK, SchedTypeOK
  <2> QED
    BY <1>1, <1>3, <1>4, <2>1 DEF Inv, TypeOK
<1>7. ListIsLiveThreads'
  BY <1>1, <1>2, <1>3, ListKept DEF Gone
<1>8. RunSound' /\ Stays'
  BY <1>1, <1>2, <1>3, <1>5, InitThreadAssumption, FdAssumption DEF Inv, RunSound, Running, Stays
<1>9. CpuInKernel'
  BY <1>1, <1>3 DEF Inv, TypeOK, CpuInKernel
<1>10. CpuQueueSound'
  BY <1>1, <1>2, <1>3, CpuQueueKept
<1>11. JoinSound'
  <2>1. \A v \in Thread : /\ v \in joinwq' <=> pc'[v] = "join"
                          /\ wanted'[v] # NoThread <=> pc'[v] = "join"
                          /\ wanted'[v] # NoThread => wanted'[v] \in mustjoin'
    BY <1>1, <1>2, <1>3, <1>4, NoThreadAssumption DEF Inv, JoinSound
  <2>2. \A v, x \in Thread : wanted'[v] = wanted'[x] /\ wanted'[v] # NoThread => v = x
    BY <1>2, <1>4 DEF Inv, JoinSound
  <2>3. /\ \A v \in mustjoin' : pc'[v] \notin Gone
        /\ \A v \in joined' : pc'[v] \in {"gate", "exited", "freed"}
    BY <1>1, <1>2, <1>3 DEF Inv, JoinSound, TypeOK, Gone
  <2> QED
    BY <2>1, <2>2, <2>3 DEF JoinSound
<1>12. Wakers'
  <2>1. ASSUME NEW v \in Thread, v \notin runnable', v # t
        PROVE  HasWaker(v)'
    <3>1. HasWaker(v)
      BY <1>5, <2>1 DEF Inv, Wakers
    <3>2. v \in joined => \A j \in Thread : wanted'[j] = v => j # t /\ wanted[j] = v
      BY <1>1, <1>4
    <3> QED
      BY <1>1, <1>3, <1>4, <1>5, <2>1, <3>1, <3>2 DEF HasWaker
  <2>2. HasWaker(t)'
    BY <1>1, <1>3, <1>4 DEF HasWaker
  <2> QED
    BY <2>1, <2>2 DEF Wakers
<1> QED
  BY <1>6, <1>7, <1>8, <1>9, <1>10, <1>11, <1>12 DEF Inv

(* join_thread() returns: its target may exit. *)
LEMMA JoinDoneKeepsInv ==
  ASSUME Inv, NEW t \in Thread, NEW u \in Thread, JoinDone(t, u)
  PROVE  Inv'
<1>1. /\ u \in joined /\ joinwq' = joinwq \ {t} /\ wanted' = [wanted EXCEPT ![t] = NoThread]
      /\ mustjoin' = mustjoin \ {u} /\ pc' = [pc EXCEPT ![t] = "run"] /\ Wake({u})
      /\ UNCHANGED <<thread_list, current_thread, scheduling, waitq, onlist, clock, vcpu, joined>>
  BY DEF JoinDone, IsExiting
<1>2. /\ Running(t) /\ pc[t] \in {"run", "join"} /\ u \in mustjoin
      /\ \A j \in Thread : j # t => wanted[j] # u
      /\ t \notin joined
  BY JoinTarget DEF JoinDone
<1>3. /\ pc'[t] = "run" /\ \A v \in Thread : v # t => pc'[v] = pc[v]
      /\ pc' \in [Thread -> PC]
  BY <1>1 DEF Inv, TypeOK, PC
<1>4. /\ wanted'[t] = NoThread /\ \A v \in Thread : v # t => wanted'[v] = wanted[v]
      /\ wanted' \in [Thread -> Thread \cup {NoThread}]
  BY <1>1 DEF Inv, TypeOK
<1>5. /\ runnable' = runnable \cup {u}
      /\ \A v \in Thread : v # u => wakeup_time'[v] = wakeup_time[v]
      /\ wakeup_time' \in [Thread -> NotSleeping..MaxTime]
  <2>1. {u} \in SUBSET Thread /\ SchedTypeOK
    BY DEF Inv, TypeOK
  <2> QED
    BY <1>1, <2>1, WakeEach, WakeType
<1>6. TypeOK'
  <2>1. SchedTypeOK'
    BY <1>1, <1>5 DEF Inv, TypeOK, SchedTypeOK
  <2> QED
    BY <1>1, <1>3, <1>4, <2>1 DEF Inv, TypeOK
<1>7. ListIsLiveThreads'
  BY <1>1, <1>2, <1>3, ListKept DEF Gone
<1>8. RunSound' /\ Stays'
  BY <1>1, <1>2, <1>3, <1>5, InitThreadAssumption, FdAssumption DEF Inv, RunSound, Running, Stays
<1>9. CpuInKernel'
  BY <1>1, <1>3 DEF Inv, TypeOK, CpuInKernel
<1>10. CpuQueueSound'
  BY <1>1, <1>2, <1>3, CpuQueueKept
<1>11. JoinSound'
  <2>1. \A v \in Thread : /\ v \in joinwq' <=> pc'[v] = "join"
                          /\ wanted'[v] # NoThread <=> pc'[v] = "join"
                          /\ wanted'[v] # NoThread => wanted'[v] \in mustjoin'
    BY <1>1, <1>2, <1>3, <1>4 DEF Inv, JoinSound
  <2>2. \A v, x \in Thread : wanted'[v] = wanted'[x] /\ wanted'[v] # NoThread => v = x
    BY <1>4 DEF Inv, JoinSound
  <2>3. /\ \A v \in mustjoin' : pc'[v] \notin Gone
        /\ \A v \in joined' : pc'[v] \in {"gate", "exited", "freed"}
    BY <1>1, <1>2, <1>3 DEF Inv, JoinSound, TypeOK, Gone
  <2> QED
    BY <2>1, <2>2, <2>3 DEF JoinSound
<1>12. Wakers'
  <2>1. ASSUME NEW v \in Thread, v \notin runnable'
        PROVE  HasWaker(v)'
    <3>1. HasWaker(v) /\ v # u /\ v # t
      BY <1>2, <1>5, <2>1 DEF Inv, Wakers, RunSound, Running
    <3> QED
      BY <1>1, <1>3, <1>4, <1>5, <2>1, <3>1, NoThreadAssumption DEF HasWaker
  <2> QED
    BY <2>1 DEF Wakers
<1> QED
  BY <1>6, <1>7, <1>8, <1>9, <1>10, <1>11, <1>12 DEF Inv

(* Who is in exit_thread() holds no CPU, joins nobody and may exit. *)
LEMMA ExitingThread ==
  ASSUME Inv, NEW t \in Thread, InExit(t)
  PROVE  /\ Running(t) /\ pc[t] \in {"run", "gate"} /\ vcpu # t
         /\ t \notin FdThread \cup {InitThread}
         /\ wanted[t] = NoThread /\ t \notin joinwq /\ t \notin onlist
<1>1. Running(t) /\ pc[t] \in {"run", "gate"} /\ t \notin FdThread \cup {InitThread}
  BY DEF Inv, InExit, Stays
<1>2. vcpu # t
  BY NoThreadAssumption DEF Inv, InExit, CpuInKernel
<1>3. wanted[t] = NoThread /\ t \notin joinwq /\ t \notin onlist
  BY <1>1 DEF Inv, CpuQueueSound, JoinSound
<1> QED
  BY <1>1, <1>2, <1>3

(* exit_thread() of a thread that must be joined wakes the joiner. *)
LEMMA ExitGateKeepsInv ==
  ASSUME Inv, NEW t \in Thread, ExitGate(t)
  PROVE  Inv'
<1>1. /\ t \in mustjoin /\ joined' = joined \cup {t} /\ pc' = [pc EXCEPT ![t] = "gate"]
      /\ WakeThenSleep(JoinerOf(t), t, NotSleeping)
      /\ UNCHANGED <<thread_list, current_thread, waitq, onlist, clock, vcpu, mustjoin, joinwq, wanted>>
  BY DEF ExitGate, MustJoin
<1>2. /\ Running(t) /\ pc[t] \in {"run", "gate"} /\ vcpu # t /\ t \notin FdThread \cup {InitThread}
      /\ wanted[t] = NoThread /\ t \notin joinwq /\ t \notin onlist
  BY ExitingThread DEF ExitGate
<1>3. /\ pc'[t] = "gate" /\ \A u \in Thread : u # t => pc'[u] = pc[u]
      /\ pc' \in [Thread -> PC]
  BY <1>1 DEF Inv, TypeOK, PC
<1>4. /\ JoinerOf(t) \in SUBSET Thread /\ t \notin JoinerOf(t)
      /\ \A j \in Thread : wanted[j] = t => j \in JoinerOf(t)
  BY <1>2, NoThreadAssumption DEF JoinerOf, Inv, TypeOK, JoinSound
<1>5. /\ runnable' = (runnable \cup JoinerOf(t)) \ {t} /\ scheduling' = TRUE
      /\ \A u \in Thread : u # t /\ u \notin JoinerOf(t) => wakeup_time'[u] = wakeup_time[u]
      /\ runnable' \subseteq Thread /\ wakeup_time' \in [Thread -> NotSleeping..MaxTime]
  <2>1. NotSleeping \in NotSleeping..MaxTime
    BY TimeAssumption DEF NotSleeping
  <2>2. SchedTypeOK
    BY DEF Inv, TypeOK
  <2> QED
    BY <1>1, <1>4, <2>1, <2>2, SleepEach, WakeThenSleepType
<1>6. TypeOK'
  <2>1. SchedTypeOK'
    BY <1>1, <1>5 DEF Inv, TypeOK, SchedTypeOK
  <2> QED
    BY <1>1, <1>3, <2>1 DEF Inv, TypeOK
<1>7. ListIsLiveThreads'
  BY <1>1, <1>2, <1>3, ListKept DEF Gone
<1>8. RunSound' /\ Stays'
  BY <1>1, <1>2, <1>3, <1>5, InitThreadAssumption, FdAssumption DEF Inv, RunSound, Running, Stays
<1>9. CpuInKernel'
  BY <1>1, <1>2, <1>3 DEF Inv, TypeOK, CpuInKernel
<1>10. CpuQueueSound'
  BY <1>1, <1>2, <1>3, CpuQueueKept
<1>11. JoinSound'
  <2>1. /\ \A u \in mustjoin' : pc'[u] \notin Gone
        /\ \A u \in joined' : pc'[u] \in {"gate", "exited", "freed"}
    BY <1>1, <1>3 DEF Inv, JoinSound, TypeOK, Gone
  <2>2. \A u \in Thread : pc'[u] = "join" <=> pc[u] = "join"
    BY <1>2, <1>3
  <2> QED
    BY <1>1, <2>1, <2>2 DEF Inv, JoinSound
<1>12. Wakers'
  <2>1. ASSUME NEW u \in Thread, u \notin runnable', u # t
        PROVE  HasWaker(u)'
    <3>1. HasWaker(u) /\ u \notin JoinerOf(t)
      BY <1>5, <2>1 DEF Inv, Wakers
    <3>2. \A j \in Thread : wanted[j] = u => j # t
      BY <1>2, NoThreadAssumption
    <3> QED
      BY <1>1, <1>3, <1>4, <1>5, <2>1, <3>1, <3>2 DEF HasWaker
  <2>2. HasWaker(t)'
    BY <1>1, <1>2, <1>3, <1>4, <1>5 DEF HasWaker
  <2> QED
    BY <2>1, <2>2 DEF Wakers
<1> QED
  BY <1>6, <1>7, <1>8, <1>9, <1>10, <1>11, <1>12 DEF Inv

(* exit_thread() leaves the list, and nobody wants the thread any more. *)
LEMMA ExitThreadKeepsInv ==
  ASSUME Inv, NEW t \in Thread, ExitThread(t)
  PROVE  Inv'
<1>1. /\ t \notin mustjoin /\ thread_list' = Unlink(thread_list, t) /\ pc' = [pc EXCEPT ![t] = "exited"]
      /\ runnable' = runnable \ {t} /\ scheduling' = TRUE
      /\ UNCHANGED <<current_thread, wakeup_time, waitq, onlist, clock, vcpu, mustjoin, joined,
                     joinwq, wanted>>
  BY DEF ExitThread, MustJoin
<1>2. /\ Running(t) /\ pc[t] \in {"run", "gate"} /\ vcpu # t /\ t \notin FdThread \cup {InitThread}
      /\ wanted[t] = NoThread /\ t \notin joinwq /\ t \notin onlist
  BY ExitingThread DEF ExitThread
<1>3. /\ pc'[t] = "exited" /\ \A u \in Thread : u # t => pc'[u] = pc[u]
      /\ pc' \in [Thread -> PC]
  BY <1>1 DEF Inv, TypeOK, PC
<1>4. /\ thread_list' \in Seq(Thread) /\ IsInjective(thread_list')
      /\ ToSet(thread_list') = ToSet(thread_list) \ {t}
  <2>1. thread_list \in Seq(Thread) /\ IsInjective(thread_list) /\ t \in ToSet(thread_list)
    BY <1>2 DEF Inv, TypeOK, SchedTypeOK, ListIsLiveThreads
  <2> QED
    BY <1>1, <2>1, UnlinkSet
<1>5. TypeOK'
  <2>1. SchedTypeOK'
    BY <1>1, <1>4 DEF Inv, TypeOK, SchedTypeOK
  <2> QED
    BY <1>1, <1>3, <2>1 DEF Inv, TypeOK
<1>6. ListIsLiveThreads'
  BY <1>3, <1>4 DEF Inv, ListIsLiveThreads
<1>7. RunSound' /\ Stays'
  BY <1>1, <1>2, <1>3, InitThreadAssumption, FdAssumption DEF Inv, RunSound, Running, Stays
<1>8. CpuInKernel'
  BY <1>1, <1>2, <1>3 DEF Inv, TypeOK, CpuInKernel
<1>9. CpuQueueSound'
  BY <1>1, <1>2, <1>3, CpuQueueKept
<1>10. JoinSound'
  BY <1>1, <1>2, <1>3, JoinsKept
<1>11. Wakers'
  <2>1. \A u \in Thread \ runnable' : u # t => HasWaker(u)'
    BY <1>1, <1>2, <1>3, OthersHaveWakers
  <2>2. HasWaker(t)'
    BY <1>3 DEF HasWaker
  <2> QED
    BY <2>1, <2>2 DEF Wakers
<1> QED
  BY <1>5, <1>6, <1>7, <1>8, <1>9, <1>10, <1>11 DEF Inv

-----------------------------------------------------------------------------

(* The rotation of schedule() loses no thread and doubles none. *)
LEMMA RotateSet ==
  ASSUME Inv, NEW i \in DOMAIN thread_list
  PROVE  /\ Rotate(i) \in Seq(Thread) /\ IsInjective(Rotate(i))
         /\ ToSet(Rotate(i)) = ToSet(thread_list)
<1>1. thread_list \in Seq(Thread) /\ IsInjective(thread_list) /\ i \in 1..Len(thread_list)
  BY DEF Inv, TypeOK, SchedTypeOK, ListIsLiveThreads
<1>2. thread_list[i] \in Thread /\ thread_list[i] \in ToSet(thread_list)
  BY <1>1 DEF ToSet
<1>3. /\ RemoveAt(thread_list, i) \in Seq(Thread) /\ IsInjective(RemoveAt(thread_list, i))
      /\ ToSet(RemoveAt(thread_list, i)) = ToSet(thread_list) \ {thread_list[i]}
  BY <1>1, RemoveAtPlaces, RemoveAtSet
<1> DEFINE q == RemoveAt(thread_list, i)
           n == thread_list[i]
<1> HIDE DEF q, n
<1>4. /\ q \in Seq(Thread) /\ IsInjective(q) /\ n \in Thread /\ n \notin ToSet(q)
      /\ ToSet(q) \cup {n} = ToSet(thread_list)
  BY <1>2, <1>3 DEF q, n
<1>5. /\ Append(q, n) \in Seq(Thread) /\ IsInjective(Append(q, n))
      /\ ToSet(Append(q, n)) = ToSet(q) \cup {n}
  BY <1>4, AppendSet
<1> QED
  BY <1>4, <1>5 DEF Rotate, q, n

(* schedule() switches to a thread of the list, which starts if it is new and
   frees the exited ones otherwise. *)
LEMMA ScheduleKeepsInv ==
  ASSUME Inv, Schedule
  PROVE  Inv'
<1>1. PICK i \in DOMAIN thread_list :
        /\ SwitchTo(i)
        /\ pc' = IF pc[thread_list[i]] = "fresh"
                 THEN [pc EXCEPT ![thread_list[i]] = "run"]
                 ELSE [t \in Thread |-> IF t \in exited_threads THEN "freed" ELSE pc[t]]
        /\ UNCHANGED <<vcpu, mustjoin, joined, joinwq, wanted>>
  BY DEF Schedule
<1>2. PICK n \in Thread : n = thread_list[i] /\ n \in ToSet(thread_list)
  BY DEF Inv, TypeOK, SchedTypeOK, ToSet
<1>3. pc[n] \notin Gone
  BY <1>2, ListMembers
<1>4. /\ SchedTypeOK' /\ scheduling /\ ~scheduling' /\ current_thread' = n /\ n \in runnable'
      /\ runnable \subseteq runnable' /\ UNCHANGED <<waitq, onlist>>
      /\ \A u \in Thread : u \notin runnable' => wakeup_time'[u] = wakeup_time[u]
      /\ thread_list' = Rotate(i)
  <2>1. SchedTypeOK
    BY DEF Inv, TypeOK
  <2>2. Wake({n} \ runnable) /\ current_thread' = n /\ thread_list' = Rotate(i)
    BY <1>1, <1>2 DEF SwitchTo
  <2>3. /\ runnable' = runnable \cup ({n} \ runnable)
        /\ \A u \in Thread : u \notin {n} \ runnable => wakeup_time'[u] = wakeup_time[u]
    BY <2>1, <2>2, WakeEach
  <2> QED
    BY <1>1, <2>1, <2>2, <2>3, SwitchToType
<1>5. /\ pc' \in [Thread -> PC] /\ pc'[n] \notin Gone \cup {"fresh"}
      /\ \A u \in Thread : \/ pc'[u] = pc[u]
                           \/ u = n /\ pc[u] = "fresh" /\ pc'[u] = "run"
                           \/ pc[u] = "exited" /\ pc'[u] = "freed"
  BY <1>1, <1>2, <1>3 DEF Inv, TypeOK, PC, exited_threads, Gone
<1>6. TypeOK'
  BY <1>1, <1>4, <1>5 DEF Inv, TypeOK
<1>7. ListIsLiveThreads'
  <2>1. \A u \in Thread : pc'[u] \in Gone <=> pc[u] \in Gone
    BY <1>5 DEF Gone
  <2> QED
    BY <1>4, <2>1, RotateSet DEF Inv, ListIsLiveThreads, Gone
<1>8. RunSound'
  <2>1. \A u \in Thread : pc[u] # "run"
    BY <1>4 DEF Inv, RunSound, Running
  <2> QED
    BY <1>4, <1>5, <2>1 DEF RunSound, Running, Gone
<1>9. CpuInKernel' /\ Stays'
  BY <1>1, <1>5, InitThreadAssumption, FdAssumption DEF Inv, TypeOK, CpuInKernel, Stays
<1>10. CpuQueueSound'
  BY <1>4, <1>5, CpuQueueKept
<1>11. JoinSound'
  BY <1>1, <1>5, JoinsKept DEF Gone
<1>12. Wakers'
  <2>1. ASSUME NEW u \in Thread, u \notin runnable'
        PROVE  HasWaker(u)'
    <3>1. HasWaker(u) /\ u # n
      BY <1>4, <2>1 DEF Inv, Wakers
    <3> QED
      BY <1>1, <1>4, <1>5, <2>1, <3>1 DEF HasWaker
  <2> QED
    BY <2>1 DEF Wakers
<1> QED
  BY <1>6, <1>7, <1>8, <1>9, <1>10, <1>11, <1>12 DEF Inv

(* The idle loop and the clock change nothing but who is runnable. *)
LEMMA IdleKeepsInv ==
  ASSUME Inv, SchedTypeOK', UNCHANGED <<thread_list, current_thread, scheduling, waitq, onlist>>,
         UNCHANGED <<pc, vcpu, mustjoin, joined, joinwq, wanted>>,
         runnable \subseteq runnable',
         \A u \in Thread : u \notin runnable' => wakeup_time'[u] = wakeup_time[u]
  PROVE  Inv'
<1>1. TypeOK'
  BY DEF Inv, TypeOK
<1>2. ListIsLiveThreads' /\ CpuQueueSound' /\ JoinSound'
  BY ListKept, CpuQueueKept, JoinsKept
<1>3. RunSound' /\ CpuInKernel' /\ Stays'
  BY DEF Inv, RunSound, Running, CpuInKernel, Stays
<1>4. Wakers'
  <2>1. ASSUME NEW u \in Thread, u \notin runnable'
        PROVE  HasWaker(u)'
    <3>1. HasWaker(u)
      BY <2>1 DEF Inv, Wakers
    <3> QED
      BY <2>1, <3>1 DEF HasWaker
  <2> QED
    BY <2>1 DEF Wakers
<1> QED
  BY <1>1, <1>2, <1>3, <1>4 DEF Inv

LEMMA PollFdsKeepsInv ==
  ASSUME Inv, PollFds
  PROVE  Inv'
<1>1. PICK W \in SUBSET FdThread : Poll(W) /\ UNCHANGED <<pc, vcpu, mustjoin, joined, joinwq, wanted>>
  BY DEF PollFds
<1>2. SchedTypeOK /\ W \in SUBSET Thread
  BY FdAssumption DEF Inv, TypeOK
<1>3. /\ runnable' = runnable \cup W
      /\ \A u \in Thread : u \notin W => wakeup_time'[u] = wakeup_time[u]
  BY <1>1, <1>2, WakeEach DEF Poll
<1>4. SchedTypeOK' /\ UNCHANGED <<thread_list, current_thread, scheduling, waitq, onlist>>
  BY <1>1, <1>2, PollType
<1> QED
  BY <1>1, <1>3, <1>4, IdleKeepsInv

LEMMA ClockTickKeepsInv ==
  ASSUME Inv, ClockTick
  PROVE  Inv'
<1>1. SchedTypeOK' /\ UNCHANGED <<thread_list, current_thread, runnable, wakeup_time, scheduling,
                                  waitq, onlist>>
  BY TickType DEF Inv, TypeOK, ClockTick, Tick
<1> QED
  BY <1>1, IdleKeepsInv DEF ClockTick

LEMMA NextKeepsInv ==
  ASSUME Inv, [Next]_vars
  PROVE  Inv'
<1>1. CASE Schedule \/ PollFds \/ ClockTick
  BY <1>1, ScheduleKeepsInv, PollFdsKeepsInv, ClockTickKeepsInv
<1>2. ASSUME NEW t \in Thread,
             LeaveKernel(t) \/ TakeCpu(t) \/ AwaitCpu(t) \/ Sleep(t) \/ ExitGate(t) \/ ExitThread(t)
      PROVE  Inv'
  BY <1>2, LeaveKernelKeepsInv, TakeCpuKeepsInv, AwaitCpuKeepsInv, SleepKeepsInv,
     ExitGateKeepsInv, ExitThreadKeepsInv
<1>3. ASSUME NEW t \in Thread, NEW u \in Thread, JoinWait(t, u) \/ JoinDone(t, u)
      PROVE  Inv'
  BY <1>3, JoinWaitKeepsInv, JoinDoneKeepsInv
<1>4. ASSUME NEW t \in Thread, NEW u \in Thread, NEW joinable \in BOOLEAN,
             CreateThread(t, u, joinable)
      PROVE  Inv'
  BY <1>4, CreateThreadKeepsInv
<1>5. CASE UNCHANGED vars
  <2>1. SchedTypeOK'
    BY <1>5 DEF Inv, TypeOK, SchedTypeOK, vars, schedVars
  <2> QED
    BY <1>5, <2>1, IdleKeepsInv DEF vars, schedVars
<1> QED
  BY <1>1, <1>2, <1>3, <1>4, <1>5 DEF Next

LEMMA InvAlways == Spec => []Inv
  BY InitInv, NextKeepsInv, PTL DEF Spec

-----------------------------------------------------------------------------

(* The variables of the threads keep their types in every run. *)
THEOREM ThTypeCorrect == Spec => []TypeOK
<1>1. Inv => TypeOK
  BY DEF Inv
<1> QED
  BY <1>1, InvAlways, PTL

(* Neither the rotation of schedule() nor create_thread() or exit_thread()
   loses or doubles an entry of thread_list. *)
THEOREM ThListIsLive == Spec => []ListIsLiveThreads
<1>1. Inv => ListIsLiveThreads
  BY DEF Inv
<1> QED
  BY <1>1, InvAlways, PTL

(* schedule() frees no struct thread that a wait queue, a join waiter, the
   rump kernel CPU, a descriptor or the scheduler itself still points at. *)
THEOREM ThNoUseAfterFree == Spec => []NoUseAfterFree
<1>1. Inv => NoUseAfterFree
  <2> SUFFICES ASSUME Inv, NEW t \in Thread, pc[t] = "freed"
               PROVE  /\ t # current_thread /\ t # vcpu
                      /\ \A w \in Waithead : t \notin ToSet(waitq[w])
                      /\ t \notin joinwq /\ t \notin FdThread
                      /\ \A u \in Thread : wanted[u] # t
    BY DEF NoUseAfterFree
  <2>1. t # current_thread
    BY DEF Inv, RunSound
  <2>2. t # vcpu
    BY NoThreadAssumption DEF Inv, CpuInKernel
  <2>3. ASSUME NEW w \in Waithead
        PROVE  t \notin ToSet(waitq[w])
    <3>1. CASE w = rcpu_cv
      BY <3>1 DEF Inv, CpuQueueSound
    <3>2. CASE w # rcpu_cv
      <4>1. ToSet(<<>>) = {}
        BY DEF ToSet
      <4> QED
        BY <3>2, <4>1 DEF Inv, CpuQueueSound
    <3> QED
      BY <3>1, <3>2
  <2>4. t \notin joinwq /\ \A u \in Thread : wanted[u] # t
    BY NoThreadAssumption DEF Inv, JoinSound, Gone
  <2>5. t \notin FdThread
    BY DEF Inv, Stays
  <2> QED
    BY <2>1, <2>2, <2>3, <2>4, <2>5
<1> QED
  BY <1>1, InvAlways, PTL

(* No wakeup is lost: whoever is blocked in clock_sleep(), for the CPU, in
   join_thread() or in exit_thread() is known to the one who will wake it. *)
THEOREM ThBlockedHasWaker == Spec => []BlockedHasWaker
<1>1. Inv => BlockedHasWaker
  <2> SUFFICES ASSUME Inv, NEW t \in ToSet(thread_list), t \notin runnable
               PROVE  \/ pc[t] = "sleep" /\ wakeup_time[t] >= 0
                      \/ pc[t] = "cpu" /\ vcpu # NoThread /\ t \in CpuWaiters \cap onlist
                      \/ pc[t] = "join" /\ t \in joinwq /\ wanted[t] \notin joined
                      \/ /\ pc[t] = "gate" /\ t \in mustjoin \cap joined
                         /\ \A j \in Thread : wanted[j] = t => j \in runnable
    BY DEF BlockedHasWaker
  <2>1. t \in Thread /\ HasWaker(t) /\ pc[t] \in PC \ Gone
    BY ToSetType DEF Inv, TypeOK, SchedTypeOK, Wakers, ListIsLiveThreads, Gone
  <2>2. t \in onlist => t \in CpuWaiters
    BY DEF Inv, CpuQueueSound, CpuWaiters
  <2>3. pc[t] = "join" => t \in joinwq
    BY <2>1 DEF Inv, JoinSound
  <2> QED
    BY <2>1, <2>2, <2>3 DEF HasWaker, PC, Gone
<1> QED
  BY <1>1, InvAlways, PTL

(* exit_thread() of a joinable thread gets past its gate only when
   join_thread() has seen it; nobody waits for a thread that is gone. *)
THEOREM ThJoinBeforeFree == Spec => []JoinBeforeFree
<1>1. Inv => JoinBeforeFree
  BY NoThreadAssumption DEF Inv, JoinSound, JoinBeforeFree, Gone
<1> QED
  BY <1>1, InvAlways, PTL

-----------------------------------------------------------------------------

(* PlaceOf finds a thread of a list without doubles. *)
LEMMA PlaceOfIs ==
  ASSUME NEW S, NEW q \in Seq(S), IsInjective(q), NEW i \in 1..Len(q)
  PROVE  PlaceOf(q, q[i]) = i
  BY DEF PlaceOf, IsInjective

(* A new entry at the end moves nobody. *)
LEMMA AppendPlaces ==
  ASSUME NEW S, NEW q \in Seq(S), IsInjective(q), NEW u \in S, u \notin ToSet(q),
         NEW k \in 1..Len(q)
  PROVE  /\ PlaceOf(Append(q, u), q[k]) = k
         /\ PlaceOf(Append(q, u), u) = Len(q) + 1
<1> DEFINE p == Append(q, u)
<1>1. p \in Seq(S) /\ Len(p) = Len(q) + 1 /\ p[k] = q[k] /\ p[Len(q) + 1] = u
  OBVIOUS
<1>2. IsInjective(p)
  BY AppendSet
<1> HIDE DEF p
<1>3. k \in 1..Len(p) /\ Len(q) + 1 \in 1..Len(p)
  BY <1>1
<1>4. PlaceOf(p, p[k]) = k /\ PlaceOf(p, p[Len(q) + 1]) = Len(q) + 1
  BY <1>1, <1>2, <1>3, PlaceOfIs
<1> QED
  BY <1>1, <1>4 DEF p

(* Who was behind a removed entry moves up by one. *)
LEMMA RemovePlaces ==
  ASSUME NEW S, NEW q \in Seq(S), IsInjective(q), NEW i \in 1..Len(q),
         NEW k \in 1..Len(q), k # i
  PROVE  \E m \in 1..(Len(q) - 1) : /\ RemoveAt(q, i)[m] = q[k] /\ m <= k
                                    /\ PlaceOf(RemoveAt(q, i), q[k]) = m
<1> DEFINE p == RemoveAt(q, i)
<1>1. /\ p \in Seq(S) /\ Len(p) = Len(q) - 1 /\ IsInjective(p)
      /\ \A j \in 1..(Len(q) - 1) : p[j] = IF j < i THEN q[j] ELSE q[j + 1]
  BY RemoveAtPlaces, RemoveAtSet
<1> HIDE DEF p
<1>2. PICK m \in 1..(Len(q) - 1) : p[m] = q[k] /\ m <= k
  <2>1. CASE k < i
    <3>1. k \in 1..(Len(q) - 1) /\ p[k] = q[k]
      BY <1>1, <2>1
    <3> QED
      BY <3>1
  <2>2. CASE k > i
    <3>1. k - 1 \in 1..(Len(q) - 1) /\ p[k - 1] = q[k] /\ k - 1 <= k
      BY <1>1, <2>2
    <3> QED
      BY <3>1
  <2> QED
    BY <2>1, <2>2
<1>3. PlaceOf(p, p[m]) = m
  BY <1>1, <1>2, PlaceOfIs
<1> QED
  BY <1>2, <1>3 DEF p

(* All steps but those of Schedule: they only add to the end of the list or
   take an entry off it, and schedule() does not return in them. *)
LEMMA ListSteps ==
  ASSUME Inv, [Next]_vars, ~Schedule
  PROVE  /\ ~(scheduling /\ ~scheduling')
         /\ \/ thread_list' = thread_list
            \/ \E u \in Thread : u \notin ToSet(thread_list) /\ thread_list' = Append(thread_list, u)
            \/ \E u \in ToSet(thread_list) : thread_list' = Unlink(thread_list, u)
<1>1. CASE PollFds \/ ClockTick \/ UNCHANGED vars
  BY <1>1 DEF PollFds, Poll, ClockTick, Tick, vars, schedVars
<1>2. ASSUME NEW t \in Thread, LeaveKernel(t) \/ TakeCpu(t) \/ AwaitCpu(t) \/ ExitGate(t)
      PROVE  thread_list' = thread_list /\ ~scheduling
  BY <1>2 DEF LeaveKernel, TakeCpu, AwaitCpu, ExitGate, InExit, Running
<1>3. ASSUME NEW t \in Thread, Sleep(t)
      PROVE  thread_list' = thread_list /\ ~scheduling
  BY <1>3 DEF Sleep, ClockSleep, Running
<1>4. ASSUME NEW t \in Thread, NEW u \in Thread, JoinWait(t, u) \/ JoinDone(t, u)
      PROVE  thread_list' = thread_list /\ ~scheduling
  BY <1>4 DEF JoinWait, JoinDone, MayJoin, Running
<1>5. ASSUME NEW t \in Thread, ExitThread(t)
      PROVE  /\ ~scheduling /\ t \in ToSet(thread_list)
             /\ thread_list' = Unlink(thread_list, t)
  <2>1. pc[t] \in {"run", "gate"} /\ Running(t)
    BY <1>5, ExitingThread DEF ExitThread
  <2>2. t \in ToSet(thread_list)
    BY <2>1, ListMembers DEF Gone
  <2> QED
    BY <1>5, <2>1, <2>2 DEF ExitThread, Running
<1>6. ASSUME NEW t \in Thread, NEW u \in Thread, NEW joinable \in BOOLEAN,
             CreateThread(t, u, joinable)
      PROVE  /\ ~scheduling /\ u \notin ToSet(thread_list)
             /\ thread_list' = Append(thread_list, u)
  BY <1>6, ListMembers DEF CreateThread, Running, Gone
<1> QED
  BY <1>1, <1>2, <1>3, <1>4, <1>5, <1>6 DEF Next

(* The place of a thread that stays on the list, after any of these steps. *)
LEMMA MovesUp ==
  ASSUME Inv, [Next]_vars, ~Schedule, NEW t \in ToSet(thread_list) \cap ToSet(thread_list')
  PROVE  PlaceOf(thread_list', t) <= PlaceOf(thread_list, t)
<1>1. thread_list \in Seq(Thread) /\ IsInjective(thread_list)
  BY DEF Inv, TypeOK, SchedTypeOK, ListIsLiveThreads
<1>2. PICK k \in 1..Len(thread_list) : t = thread_list[k]
  BY <1>1 DEF ToSet
<1>3. PlaceOf(thread_list, t) = k
  BY <1>1, <1>2, PlaceOfIs
<1>4. CASE thread_list' = thread_list
  BY <1>3, <1>4
<1>5. CASE \E u \in Thread : u \notin ToSet(thread_list) /\ thread_list' = Append(thread_list, u)
  <2>1. PICK u \in Thread : u \notin ToSet(thread_list) /\ thread_list' = Append(thread_list, u)
    BY <1>5
  <2>2. PlaceOf(thread_list', t) = k
    BY <1>1, <1>2, <2>1, AppendPlaces
  <2> QED
    BY <1>3, <2>2
<1>6. CASE \E u \in ToSet(thread_list) : thread_list' = Unlink(thread_list, u)
  <2>1. PICK u \in ToSet(thread_list) : thread_list' = Unlink(thread_list, u)
    BY <1>6
  <2>2. PICK i \in 1..Len(thread_list) : thread_list[i] = u /\ thread_list' = RemoveAt(thread_list, i)
    <3> DEFINE i == CHOOSE j \in DOMAIN thread_list : thread_list[j] = u
    <3>1. i \in 1..Len(thread_list) /\ thread_list[i] = u
      BY <1>1 DEF ToSet
    <3>2. thread_list' = RemoveAt(thread_list, i)
      BY <2>1 DEF Unlink
    <3> QED
      BY <3>1, <3>2
  <2>3. t # u
    BY <1>1, <2>1, UnlinkSet
  <2>4. k # i
    BY <1>2, <2>2, <2>3
  <2>5. \E m \in 1..(Len(thread_list) - 1) :
            /\ RemoveAt(thread_list, i)[m] = thread_list[k] /\ m <= k
            /\ PlaceOf(RemoveAt(thread_list, i), thread_list[k]) = m
    BY <1>1, <2>4, RemovePlaces
  <2> QED
    BY <1>2, <1>3, <2>2, <2>5
<1> QED
  BY <1>4, <1>5, <1>6, ListSteps

(* schedule() puts the thread that it switches to behind all others, and
   moves nobody else back. *)
LEMMA RotatesBehind ==
  ASSUME Inv, Schedule, NEW t \in ToSet(thread_list), current_thread' # t
  PROVE  /\ PlaceOf(thread_list', t) <= PlaceOf(thread_list, t)
         /\ PlaceOf(thread_list', t) < PlaceOf(thread_list', current_thread')
<1>1. thread_list \in Seq(Thread) /\ IsInjective(thread_list)
  BY DEF Inv, TypeOK, SchedTypeOK, ListIsLiveThreads
<1>2. PICK i \in 1..Len(thread_list) : /\ thread_list' = Rotate(i)
                                       /\ current_thread' = thread_list[i]
  BY <1>1 DEF Schedule, SwitchTo
<1>3. PICK k \in 1..Len(thread_list) : t = thread_list[k] /\ k # i
  BY <1>1, <1>2 DEF ToSet
<1>4. PlaceOf(thread_list, t) = k
  BY <1>1, <1>3, PlaceOfIs
<1> DEFINE q == RemoveAt(thread_list, i)
           n == thread_list[i]
<1>5. PICK m \in 1..(Len(thread_list) - 1) : q[m] = t /\ m <= k
  BY <1>1, <1>3, RemovePlaces
<1>6. /\ q \in Seq(Thread) /\ Len(q) = Len(thread_list) - 1 /\ IsInjective(q)
      /\ n \in Thread /\ n \notin ToSet(q)
  <2>1. ToSet(q) = ToSet(thread_list) \ {n}
    BY <1>1, RemoveAtSet
  <2> QED
    BY <1>1, <2>1, RemoveAtPlaces, RemoveAtSet
<1>7. thread_list' = Append(q, n) /\ current_thread' = n
  BY <1>2 DEF Rotate
<1> HIDE DEF q, n
<1>8. PlaceOf(Append(q, n), q[m]) = m /\ PlaceOf(Append(q, n), n) = Len(q) + 1
  <2>1. m \in 1..Len(q)
    BY <1>6
  <2> QED
    BY <1>6, <2>1, AppendPlaces
<1>9. m < Len(q) + 1
  BY <1>6
<1> QED
  BY <1>4, <1>5, <1>7, <1>8, <1>9

(* Round robin: no step moves a ready thread back on thread_list unless it
   runs it, and the thread that schedule() switches to goes behind it. *)
THEOREM ThReadyMovesUp == Spec => ReadyMovesUp
<1>1. ASSUME Inv, [Next]_vars
      PROVE  [\A t \in ToSet(thread_list) \cap ToSet(thread_list') :
                Ready(t) /\ (scheduling => current_thread' # t) =>
                    /\ PlaceOf(thread_list', t) <= PlaceOf(thread_list, t)
                    /\ scheduling /\ ~scheduling' =>
                           PlaceOf(thread_list', t) < PlaceOf(thread_list', current_thread')]_vars
  <2>1. ASSUME NEW t \in ToSet(thread_list) \cap ToSet(thread_list'),
               scheduling => current_thread' # t
        PROVE  /\ PlaceOf(thread_list', t) <= PlaceOf(thread_list, t)
               /\ scheduling /\ ~scheduling' =>
                      PlaceOf(thread_list', t) < PlaceOf(thread_list', current_thread')
    <3>1. CASE Schedule
      <4>1. scheduling
        BY <3>1 DEF Schedule, SwitchTo
      <4> QED
        BY <1>1, <2>1, <3>1, <4>1, RotatesBehind
    <3>2. CASE ~Schedule
      <4>1. PlaceOf(thread_list', t) <= PlaceOf(thread_list, t)
        BY <1>1, <3>2, MovesUp
      <4>2. ~(scheduling /\ ~scheduling')
        BY <1>1, <3>2, ListSteps
      <4> QED
        BY <4>1, <4>2
    <3> QED
      BY <3>1, <3>2
  <2> QED
    BY <2>1
<1> QED
  BY <1>1, InvAlways, PTL DEF ReadyMovesUp, Spec
=============================================================================
