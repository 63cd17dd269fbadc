--------------------------- MODULE SysproxyProofs ----------------------------
(***************************************************************************)
(* Proofs about the server for any finite set of workers and any numbers   *)
(* of slots, references, items, requests and preforks.  First the pool of  *)
(* WorkPool by itself, with any limits and any work: PoolInv is inductive, *)
(* and it says that the counters count and that no worker sleeps beside    *)
(* work that nobody was woken for.  Then Sysproxy, whose steps are steps   *)
(* of the pool or leave it alone.                                          *)
(***************************************************************************)
EXTENDS Sysproxy, FiniteSetTheorems, TLAPS

(* The inductive invariant: the rule for waking is only right because the
   counters it compares are. *)
PoolInv == PoolTypeOK /\ CountersTrue /\ NoIdlerBesideWork

WorkerState == {"none", "top", "idle", "woken", "busy"}

(* The size of a union of disjoint sets. *)
LEMMA DisjointUnion ==
  ASSUME NEW S, NEW T, IsFiniteSet(S), IsFiniteSet(T), S \cap T = {}
  PROVE  Cardinality(S \cup T) = Cardinality(S) + Cardinality(T)
<1>1. Cardinality(S \cap T) = 0
  BY FS_EmptySet
<1>2. Cardinality(S) \in Nat /\ Cardinality(T) \in Nat
  BY FS_CardinalityType
<1>3. Cardinality(S \cup T) = Cardinality(S) + Cardinality(T) - Cardinality(S \cap T)
  BY FS_Union
<1> QED
  BY <1>1, <1>2, <1>3

(* Workers in a state are finitely many. *)
LEMMA InFinite ==
  ASSUME NEW st
  PROVE  IsFiniteSet(In(st)) /\ Cardinality(In(st)) \in Nat /\ In(st) \subseteq Worker
<1>1. In(st) \in SUBSET Worker
  BY DEF In
<1> QED
  BY <1>1, PoolAssumption, FS_Subset, FS_CardinalityType

(* The workers that exist, and those that idleworker counts. *)
LEMMA CountedFinite ==
  /\ IsFiniteSet(Worker \ In("none"))
  /\ IsFiniteSet(In("idle") \cup In("woken"))
  /\ Cardinality(Worker \ In("none")) \in Nat
  /\ Cardinality(In("idle") \cup In("woken")) = Cardinality(In("idle")) + Cardinality(In("woken"))
<1>1. Worker \ In("none") \in SUBSET Worker
  BY DEF In
<1>2. In("idle") \cap In("woken") = {}
  BY DEF In
<1>3. IsFiniteSet(Worker \ In("none")) /\ Cardinality(Worker \ In("none")) \in Nat
  BY <1>1, PoolAssumption, FS_Subset, FS_CardinalityType
<1>4. /\ IsFiniteSet(In("idle")) /\ IsFiniteSet(In("woken"))
      /\ Cardinality(In("idle")) \in Nat /\ Cardinality(In("woken")) \in Nat
  BY InFinite
<1> QED
  BY <1>2, <1>3, <1>4, DisjointUnion, FS_Union

(* What the sets of workers are when one of them changes its state. *)
LEMMA InMoves ==
  ASSUME PoolTypeOK, NEW w \in Worker, NEW a \in WorkerState, NEW b \in WorkerState,
         wstate[w] = a, a # b, Become(w, b)
  PROVE  /\ wstate' \in [Worker -> WorkerState]
         /\ In(a)' = In(a) \ {w} /\ w \in In(a)
         /\ In(b)' = In(b) \cup {w} /\ w \notin In(b)
         /\ \A c \in WorkerState \ {a, b} : In(c)' = In(c)
  BY DEF PoolTypeOK, Become, In, WorkerState

(* ... and how many they are. *)
LEMMA CountMoves ==
  ASSUME PoolTypeOK, NEW w \in Worker, NEW a \in WorkerState, NEW b \in WorkerState,
         wstate[w] = a, a # b, Become(w, b)
  PROVE  /\ Cardinality(In(a)') = Cardinality(In(a)) - 1
         /\ Cardinality(In(a)) > 0
         /\ Cardinality(In(b)') = Cardinality(In(b)) + 1
         /\ \A c \in WorkerState \ {a, b} : Cardinality(In(c)') = Cardinality(In(c))
<1>1. IsFiniteSet(In(a)) /\ IsFiniteSet(In(b)) /\ Cardinality(In(a)) \in Nat
  BY InFinite
<1>2. Cardinality(In(a)) # 0
  BY <1>1, InMoves, FS_EmptySet
<1>3. Cardinality(In(a) \ {w}) = Cardinality(In(a)) - 1
  BY <1>1, InMoves, FS_RemoveElement
<1>4. Cardinality(In(b) \cup {w}) = Cardinality(In(b)) + 1
  BY <1>1, InMoves, FS_AddElement
<1>5. Cardinality(In(a)') = Cardinality(In(a)) - 1 /\ Cardinality(In(b)') = Cardinality(In(b)) + 1
  BY <1>3, <1>4, InMoves
<1>6. \A c \in WorkerState \ {a, b} : Cardinality(In(c)') = Cardinality(In(c))
  BY InMoves
<1> QED
  BY <1>1, <1>2, <1>5, <1>6

(* The number of workers that exist: the complement of those in "none". *)
LEMMA ExistCount ==
  Cardinality(Worker \ In("none")) = Cardinality(Worker) - Cardinality(In("none"))
<1>1. Worker \cap In("none") = In("none")
  BY InFinite
<1> QED
  BY <1>1, PoolAssumption, FS_Difference

(* CountersTrue without unions and differences of sets. *)
LEMMA CountersAre ==
  CountersTrue <=> /\ nwork = Len(wrklist)
                   /\ nworker = Cardinality(Worker) - Cardinality(In("none"))
                   /\ idleworker = Cardinality(In("idle")) + Cardinality(In("woken"))
                   /\ nworker <= MaxWorker
  BY CountedFinite, ExistCount DEF CountersTrue

(* The same, of the state after a step. *)
LEMMA CountersWillBe ==
  CountersTrue' <=> /\ nwork' = Len(wrklist')
                    /\ nworker' = Cardinality(Worker) - Cardinality(In("none")')
                    /\ idleworker' = Cardinality(In("idle")') + Cardinality(In("woken")')
                    /\ nworker' <= MaxWorker
<1>1. In("none")' \in SUBSET Worker /\ In("idle")' \in SUBSET Worker /\ In("woken")' \in SUBSET Worker
  BY DEF In
<1>2. IsFiniteSet(In("none")') /\ IsFiniteSet(In("idle")') /\ IsFiniteSet(In("woken")')
  BY <1>1, PoolAssumption, FS_Subset
<1>3. Cardinality((In("idle") \cup In("woken"))') = Cardinality(In("idle")') + Cardinality(In("woken")')
  <2>1. In("idle")' \cap In("woken")' = {}
    BY DEF In
  <2> QED
    BY <1>2, <2>1, DisjointUnion
<1>4. Cardinality((Worker \ In("none"))') = Cardinality(Worker) - Cardinality(In("none")')
  <2>1. Worker \cap In("none")' = In("none")'
    BY <1>1
  <2> QED
    BY <2>1, PoolAssumption, FS_Difference
<1> QED
  BY <1>3, <1>4 DEF CountersTrue

-----------------------------------------------------------------------------

(* The pool starts empty. *)
LEMMA PoolInitInv == PoolInit => PoolInv
<1> SUFFICES ASSUME PoolInit PROVE PoolInv
  OBVIOUS
<1>1. PoolTypeOK
  BY DEF PoolInit, PoolTypeOK
<1>2. In("none") = Worker /\ In("idle") = {} /\ In("woken") = {}
  BY DEF PoolInit, In
<1>3. Cardinality(Worker) \in Nat
  BY PoolAssumption, FS_CardinalityType
<1>4. Cardinality(In("none")) = Cardinality(Worker)
  BY <1>2
<1>5. Cardinality(In("idle")) = 0 /\ Cardinality(In("woken")) = 0
  BY <1>2, FS_EmptySet
<1>6. CountersTrue
  BY <1>3, <1>4, <1>5, CountersAre, PoolAssumption DEF PoolInit
<1> QED
  BY <1>1, <1>2, <1>6 DEF PoolInv, NoIdlerBesideWork

(* schedulework(): an item that wakes nobody is never left beside an idle
   worker, since nwork counts every item and idleworker every sleeper. *)
LEMMA EnqueueKeepsPoolInv ==
  ASSUME PoolInv, NEW j \in Job, Enqueue(j)
  PROVE  PoolInv'
<1> USE DEF PoolInv
<1>1. /\ wrklist' \in Seq(Job) /\ Len(wrklist') = Len(wrklist) + 1
      /\ nwork' = nwork + 1 /\ idleworker' = idleworker /\ nwork \in Nat /\ nworker \in Nat
  BY DEF Enqueue, PoolTypeOK
<1>2. CASE NeedsWake /\ SignalIdle /\ UNCHANGED nworker
  <2>1. CASE In("idle") = {} /\ UNCHANGED wstate
    <3>1. \A c \in WorkerState : In(c)' = In(c)
      BY <2>1 DEF In
    <3> QED
      BY <1>1, <1>2, <2>1, <3>1, CountersAre, CountersWillBe
         DEF PoolTypeOK, NoIdlerBesideWork, WorkerState
  <2>2. ASSUME NEW w \in In("idle"), Become(w, "woken")
        PROVE  PoolInv'
    <3>1. w \in Worker /\ wstate[w] = "idle"
      BY DEF In
    <3> QED
      BY <1>1, <1>2, <2>2, <3>1, InMoves, CountMoves, CountersAre, CountersWillBe, InFinite
         DEF PoolTypeOK, NoIdlerBesideWork, WorkerState
  <2> QED
    BY <1>2, <2>1, <2>2 DEF SignalIdle
<1>3. ASSUME ~NeedsWake PROVE In("idle") = {}
  <2>1. In("idle") # {} => Cardinality(In("idle")) # 0
    BY InFinite, FS_EmptySet
  <2> QED
    BY <1>1, <1>3, <2>1, InFinite, CountersAre DEF NeedsWake, NoIdlerBesideWork
<1>4. CASE ~NeedsWake /\ UNCHANGED <<nworker, wstate>>
  <2>1. \A c \in WorkerState : In(c)' = In(c)
    BY <1>4 DEF In
  <2> QED
    BY <1>1, <1>3, <1>4, <2>1, CountersAre, CountersWillBe
       DEF PoolTypeOK, NoIdlerBesideWork, WorkerState
<1>5. ASSUME ~NeedsWake, MayCreate, NEW w \in In("none"), Become(w, "top"), nworker' = nworker + 1
      PROVE  PoolInv'
  <2>1. w \in Worker /\ wstate[w] = "none"
    BY DEF In
  <2>2. /\ Cardinality(In("none")') = Cardinality(In("none")) - 1
        /\ Cardinality(In("idle")') = Cardinality(In("idle"))
        /\ Cardinality(In("woken")') = Cardinality(In("woken"))
        /\ In("idle")' = In("idle") /\ wstate' \in [Worker -> WorkerState]
    BY <1>5, <2>1, InMoves, CountMoves DEF WorkerState
  <2>3. CountersTrue'
    BY <1>1, <1>5, <2>2, CountersAre, CountersWillBe, InFinite, PoolAssumption, FS_CardinalityType
       DEF MayCreate, PoolTypeOK
  <2> QED
    BY <1>1, <1>3, <1>5, <2>2, <2>3 DEF PoolTypeOK, NoIdlerBesideWork, WorkerState
<1> QED
  BY <1>2, <1>4, <1>5 DEF Enqueue, CreateWorker

(* serv_workbouncer() takes an item: it was awake, so no sleeper loses the
   signal it was counted for. *)
LEMMA TakeKeepsPoolInv ==
  ASSUME PoolInv, NEW w \in Worker, Take(w)
  PROVE  PoolInv'
<1> USE DEF PoolInv
<1>1. /\ wrklist # <<>> /\ wrklist' \in Seq(Job) /\ Len(wrklist') = Len(wrklist) - 1
      /\ nwork' = nwork - 1 /\ nworker' = nworker /\ Become(w, "busy")
      /\ nwork \in Nat /\ nwork > 0
  BY CountersAre DEF Take, TakeAtOnce, TakeWoken, TakeFirst, PoolTypeOK
<1>2. CASE TakeAtOnce(w)
  BY <1>1, <1>2, InMoves, CountMoves, CountersAre, CountersWillBe, InFinite
     DEF TakeAtOnce, PoolTypeOK, NoIdlerBesideWork, WorkerState
<1>3. CASE TakeWoken(w)
  BY <1>1, <1>3, InMoves, CountMoves, CountersAre, CountersWillBe, InFinite
     DEF TakeWoken, PoolTypeOK, NoIdlerBesideWork, WorkerState
<1> QED
  BY <1>2, <1>3 DEF Take

(* ... or ends, or waits: only when there is nothing to take. *)
LEMMA NoTakeKeepsPoolInv ==
  ASSUME PoolInv, NEW w \in Worker, NoTake(w)
  PROVE  PoolInv'
<1> USE DEF PoolInv
<1>1. CASE Retire(w)
  <2>1. w \in Worker \ In("none")
    BY <1>1 DEF Retire, In
  <2>2. nworker # 0 /\ nworker \in Nat
    BY <2>1, CountedFinite, FS_EmptySet DEF CountersTrue, PoolTypeOK
  <2>3. /\ Cardinality(In("none")') = Cardinality(In("none")) + 1
        /\ Cardinality(In("idle")') = Cardinality(In("idle"))
        /\ Cardinality(In("woken")') = Cardinality(In("woken"))
        /\ In("idle")' = In("idle") /\ wstate' \in [Worker -> WorkerState]
    BY <1>1, InMoves, CountMoves DEF Retire, WorkerState
  <2>4. CountersTrue'
    BY <1>1, <2>2, <2>3, CountersAre, CountersWillBe, InFinite, PoolAssumption, FS_CardinalityType
       DEF Retire
  <2> QED
    BY <1>1, <2>2, <2>3, <2>4 DEF Retire, PoolTypeOK, NoIdlerBesideWork, WorkerState
<1>2. CASE GoIdle(w)
  BY <1>2, InMoves, CountMoves, CountersAre, CountersWillBe, InFinite
     DEF GoIdle, PoolTypeOK, NoIdlerBesideWork, WorkerState
<1>3. CASE BackToIdle(w)
  BY <1>3, InMoves, CountMoves, CountersAre, CountersWillBe, InFinite
     DEF BackToIdle, PoolTypeOK, NoIdlerBesideWork, WorkerState
<1> QED
  BY <1>1, <1>2, <1>3 DEF NoTake

(* The end of an item changes no count. *)
LEMMA FinishKeepsPoolInv ==
  ASSUME PoolInv, NEW w \in Worker, Finish(w)
  PROVE  PoolInv'
  BY InMoves, CountMoves, CountersAre, CountersWillBe, InFinite
     DEF PoolInv, Finish, PoolTypeOK, NoIdlerBesideWork, WorkerState

(* A step outside the pool. *)
LEMMA PoolStutters ==
  ASSUME PoolInv, UNCHANGED poolVars
  PROVE  PoolInv'
  BY DEF PoolInv, PoolTypeOK, CountersTrue, NoIdlerBesideWork, poolVars, In

(* Every step of the pool keeps PoolInv. *)
LEMMA PoolNextKeepsInv ==
  ASSUME PoolInv, [PoolNext]_poolVars
  PROVE  PoolInv'
  BY EnqueueKeepsPoolInv, TakeKeepsPoolInv, NoTakeKeepsPoolInv, FinishKeepsPoolInv, PoolStutters
     DEF PoolNext

(* The pool by itself, with jobs coming at any time: schedulework()'s counters
   are true, its limit on threads holds, and no worker sleeps beside work that
   nobody was woken for. *)
THEOREM PoolAlwaysSound == PoolSpec => [](PoolTypeOK /\ CountersTrue /\ NoIdlerBesideWork)
<1>1. PoolInit => PoolInv
  BY PoolInitInv
<1>2. PoolInv /\ [PoolNext]_poolVars => PoolInv'
  BY PoolNextKeepsInv
<1> QED
  BY <1>1, <1>2, PTL DEF PoolSpec, PoolInv

-----------------------------------------------------------------------------
(* The server. *)

(* Where the poll loop and a worker can be, and what for. *)
ServerPc == {"poll", "lock", "send", "release", "closing", "signal", "lwpexit", "zero",
             "prefork", "sched", "queue"}
WorkerPc == {"pool", "lock", "send", "wait", "start", "sys", "exec", "execlwp", "execend",
             "execreply", "release", "closing", "signal"}

Places ==
    /\ pc[Server] \in ServerPc
    /\ \A w \in Worker : pc[w] \in WorkerPc /\ (wstate[w] = "busy" <=> pc[w] # "pool")
    /\ \A t \in Thread : at[t] = NoSlot <=> pc[t] \in {"poll", "pool"}
    /\ \A t \in asleep : pc[t] \in {"lock", "exec", "wait"}

Goals ==
    /\ \A w \in Worker : IF pc[w] \in {"lock", "send"} THEN goal[w] \in {"copyin", "copyout", "reply"}
                                                       ELSE goal[w] = "none"
    /\ pc[Server] \in {"lock", "send"} => goal[Server] \in {"answer", "noprefork", "welcome"}
    /\ pc[Server] = "lwpexit" => goal[Server] \in {"disco", "exec"}
    /\ pc[Server] = "zero" => goal[Server] = "disco"
    /\ pc[Server] \in {"sched", "queue"} => goal[Server] \in {"exec", "syscall"}
    /\ pc[Server] \in {"poll", "release", "closing", "signal", "prefork"} => goal[Server] = "none"

(* The poll loop serves connected clients, and closes one that it has
   disconnected. *)
ServerAt ==
    /\ pc[Server] \in {"lock", "send", "prefork", "sched", "queue"} => at[Server] \in pfd
    /\ pc[Server] = "lwpexit" => (at[Server] \in pfd <=> goal[Server] = "exec")
    /\ pc[Server] \in {"zero", "release"} => at[Server] \notin pfd
    /\ goal[Server] = "welcome" => Client(Server).state = "NEW"
    /\ pc[Server] \in {"prefork", "sched", "queue"} \/ goal[Server] \in {"noprefork", "exec"}
          => Client(Server).state = "RUNNING"

(* The states of a client follow its connection. *)
Lives ==
    \A s \in Slot :
        /\ s \in pfd => spc[s].state # "DYING"
        /\ s \notin pfd => spc[s].state # "RUNNING"
        /\ spc[s].state = "NEW" => Queued(s) = {} /\ Working(s) = {}

(* Who closes a client is alone with it. *)
ClosesAlone ==
    \A t \in Thread : pc[t] = "closing" =>
        /\ at[t] \notin pfd /\ Client(t).state = "DYING" /\ Client(t).refcnt = 0
        /\ \A u \in Thread \ {t} : at[u] = at[t] => pc[u] = "signal"

(* Nothing is left in a slot that is free, field by field. *)
EmptyClean ==
    \A s \in EmptySlot :
        /\ spc[s].refcnt = 0 /\ spc[s].ostatus = "FREE" /\ spc[s].inexec = FALSE
        /\ spc[s].respwait = {} /\ spc[s].mainlwp = FALSE
        /\ s \notin draining
        /\ \A t \in Thread : at[t] = s => pc[t] = "signal"

(* A request is linked as long as who asked is there, and only so long. *)
Asking(t) == pc[t] = "wait" \/ (pc[t] \in {"lock", "send"} /\ goal[t] = "copyin")
RespOwned ==
    /\ \A s \in Slot : \A r \in spc[s].respwait : at[r.who] = s /\ Asking(r.who)
    /\ \A w \in Worker : Asking(w) => \E r \in Client(w).respwait : r.who = w

(* The send lock is held by a sender, and of a connected client by the one
   sender. *)
SendLocked ==
    /\ \A s \in Slot : spc[s].ostatus # "FREE" => \E t \in Thread : at[t] = s /\ pc[t] = "send"
    /\ \A t \in Thread : pc[t] = "send" /\ at[t] \in pfd =>
          /\ Client(t).ostatus # "FREE"
          /\ \A u \in Thread : pc[u] = "send" /\ at[u] = at[t] => u = t
    /\ \A t \in asleep : pc[t] = "lock" /\ at[t] \in pfd => Client(t).ostatus = "WANTED"

(* An exec is with the poll loop, on the list or with a worker, and there is
   one at a time. *)
ExecItems(s) == {i \in DOMAIN wrklist : wrklist[i] = [slot |-> s, type |-> "exec"]}
ExecWorkers(s) == {w \in Worker : at[w] = s /\ pc[w] \in {"exec", "execlwp", "execend"}}
ExecServer(s) == at[Server] = s /\ goal[Server] = "exec"
ExecNone(s) == ExecItems(s) = {} /\ ExecWorkers(s) = {} /\ ~ExecServer(s)

ExecOnce ==
    \A s \in Slot :
        /\ \A i, j \in ExecItems(s) : i = j
        /\ \A v, w \in ExecWorkers(s) : v = w
        /\ ExecItems(s) = {} \/ ExecWorkers(s) = {}
        /\ ExecServer(s) => ExecItems(s) = {} /\ ExecWorkers(s) = {}

(* While the client is connected inexec is set for it and its lwps are told to
   leave; the poll loop does not use the main lwp then. *)
ServerOnLwp ==
    \/ pc[Server] = "prefork"
    \/ goal[Server] \in {"welcome", "noprefork"}
    \/ pc[Server] = "lwpexit" /\ goal[Server] = "disco"

ExecMarked ==
    /\ \A s \in pfd : ~ExecNone(s) => spc[s].inexec
    /\ \A s \in Slot \ pfd : spc[s].inexec => at[Server] = s /\ pc[Server] \in {"lwpexit", "zero"}
    /\ ServerOnLwp => \A s \in Slot : at[Server] = s => ExecNone(s)
    /\ \A s \in pfd \ draining :
          /\ ExecItems(s) = {}
          /\ \A w \in ExecWorkers(s) : pc[w] = "execend"
          /\ ExecServer(s) => pc[Server] = "lwpexit"

(* What nfds counts: the listening socket, the slots in use, and those closed
   since the last round. *)
Signalling == {t \in Thread : pc[t] = "signal"}
NfdsCounts == nfds = 1 + Cardinality(Slot \ EmptySlot) + Cardinality(Signalling) + disco

IInv ==
    /\ ServerTypeOK /\ PoolInv
    /\ Places /\ Goals /\ ServerAt /\ Lives /\ ClosesAlone
    /\ RefsCounted /\ EmptyClean /\ RespOwned /\ SendLocked
    /\ AnswersFindAsker /\ SleepersHaveWaker
    /\ ExecOnce /\ ExecMarked
    /\ NfdsCounts /\ TableSound

-----------------------------------------------------------------------------
(* The least and the greatest of a set of numbers. *)

(* Min() of a set of natural numbers that is not empty. *)
LEMMA MinExists ==
  ASSUME NEW S \in SUBSET Nat, S # {}
  PROVE  Min(S) \in S /\ \A x \in S : Min(S) <= x
<1> DEFINE R == {ss \in Nat \X Nat : ss[1] < ss[2]}
<1>1. IsWellFoundedOn(R, Nat)
  BY NatLessThanWellFounded DEF OpToRel
<1> HIDE DEF R
<1>2. PICK x \in S : \A y \in S : ~(<<y, x>> \in R)
  BY <1>1, WFMin
<1>3. \A y \in S : x <= y
  <2>1. \A y \in Nat : y < x => <<y, x>> \in R
    BY DEF R
  <2>2. \A y \in S : y \in Nat /\ x \in Nat
    OBVIOUS
  <2>3. \A y \in S : ~(y < x)
    BY <1>2, <2>1, <2>2
  <2> QED
    BY <2>2, <2>3
<1> QED
  BY <1>3 DEF Min

(* Max() of a bounded one. *)
LEMMA MaxExists ==
  ASSUME NEW S \in SUBSET Nat, S # {}, NEW n \in Nat, \A x \in S : x <= n
  PROVE  Max(S) \in S /\ \A x \in S : x <= Max(S)
<1> DEFINE T == {i \in 0 .. n : n - i \in S}
<1>1. T \in SUBSET Nat
  OBVIOUS
<1>2. T # {}
  <2>1. PICK x \in S : TRUE
    OBVIOUS
  <2>2. n - x \in T
    BY <2>1
  <2> QED
    BY <2>2
<1>3. Min(T) \in T /\ \A i \in T : Min(T) <= i
  BY <1>1, <1>2, MinExists
<1>4. \A x \in S : n - x \in T
  OBVIOUS
<1>5. n - Min(T) \in S /\ \A x \in S : x <= n - Min(T)
  BY <1>1, <1>3, <1>4
<1> QED
  BY <1>5 DEF Max

-----------------------------------------------------------------------------
(* Facts that every step starts from. *)

ClientRec == [refcnt : Nat, state : {"NEW", "RUNNING", "DYING"},
              ostatus : {"FREE", "BUSY", "WANTED"}, inexec : BOOLEAN,
              nextreq : Nat, respwait : SUBSET Respwait, mainlwp : BOOLEAN]

AnyPc == ServerPc \cup WorkerPc
AnyGoal == {"none", "copyin", "copyout", "reply", "answer", "noprefork", "welcome", "disco",
            "exec", "syscall"}

(* The poll loop is no worker, and 0 is no client's slot. *)
LEMMA ThreadFacts ==
  /\ Server \in Thread /\ Server \notin Worker
  /\ \A w \in Worker : w \in Thread /\ w # Server
  /\ \A t \in Thread : t # Server => t \in Worker
  /\ NoSlot \notin Slot /\ Slot \subseteq Nat
  /\ Thread = Worker \cup {Server}
  BY SpAssumption DEF Thread, Slot, NoSlot

(* ServerTypeOK in the words of this module. *)
LEMMA TypeFacts ==
  ServerTypeOK <=> /\ PoolTypeOK
             /\ spc \in [Slot -> ClientRec]
             /\ pfd \subseteq Slot /\ nfds \in 1 .. MAXCLI /\ maxidx \in 0 .. MAXCLI - 1
             /\ disco \in Nat /\ preforks \in 0 .. MaxFork
             /\ pc \in [Thread -> AnyPc] /\ at \in [Thread -> Slot \cup {NoSlot}]
             /\ goal \in [Thread -> AnyGoal]
             /\ asleep \subseteq Thread /\ draining \subseteq Slot /\ aborted \in BOOLEAN
<1>1. AnyPc = {"poll", "pool", "lock", "send", "wait", "start", "sys", "exec", "execlwp", "execend",
               "execreply", "release", "closing", "signal", "lwpexit", "zero", "prefork", "sched",
               "queue"}
  BY DEF AnyPc, ServerPc, WorkerPc
<1> QED
  BY <1>1 DEF ServerTypeOK, ClientRec, AnyGoal

(* The same after a step. *)
LEMMA TypeFactsPrime ==
  ASSUME PoolTypeOK', spc' \in [Slot -> ClientRec],
         pfd' \subseteq Slot, nfds' \in 1 .. MAXCLI, maxidx' \in 0 .. MAXCLI - 1,
         disco' \in Nat, preforks' \in 0 .. MaxFork,
         pc' \in [Thread -> AnyPc], at' \in [Thread -> Slot \cup {NoSlot}],
         goal' \in [Thread -> AnyGoal],
         asleep' \subseteq Thread, draining' \subseteq Slot, aborted' \in BOOLEAN
  PROVE  ServerTypeOK'
<1>1. AnyPc = {"poll", "pool", "lock", "send", "wait", "start", "sys", "exec", "execlwp", "execend",
               "execreply", "release", "closing", "signal", "lwpexit", "zero", "prefork", "sched",
               "queue"}
  BY DEF AnyPc, ServerPc, WorkerPc
<1> QED
  BY <1>1 DEF ServerTypeOK, ClientRec, AnyGoal

(* Whoever is somewhere works for a client. *)
LEMMA AtFacts ==
  ASSUME ServerTypeOK, Places, Goals
  PROVE  /\ \A u \in Thread : pc[u] \notin {"poll", "pool"} => at[u] \in Slot
         /\ \A u \in Thread : goal[u] # "none" => at[u] \in Slot /\ pc[u] \notin {"poll", "pool"}
         /\ \A u \in Thread : at[u] \in Slot => pc[u] \notin {"poll", "pool"}
<1>1. \A u \in Thread : at[u] \in Slot \cup {NoSlot}
  BY TypeFacts
<1>2. \A u \in Thread : goal[u] # "none" => pc[u] \notin {"poll", "pool"}
  BY ThreadFacts DEF Goals, Places, WorkerPc, ServerPc
<1> QED
  BY <1>1, <1>2, ThreadFacts DEF Places

(* SlotClean follows from what is said field by field. *)
LEMMA CleanFromFields ==
  ASSUME ServerTypeOK, EmptyClean
  PROVE  SlotClean
<1> SUFFICES ASSUME NEW s \in EmptySlot
             PROVE  [spc[s] EXCEPT !.nextreq = 0] = NewClient
  BY DEF SlotClean, EmptyClean
<1>1. spc[s] \in ClientRec /\ spc[s].state = "NEW"
  BY TypeFacts DEF EmptySlot
<1>2. ASSUME NEW c \in ClientRec,
             c.state = "NEW", c.refcnt = 0, c.ostatus = "FREE", c.inexec = FALSE,
             c.respwait = {}, c.mainlwp = FALSE
      PROVE  [c EXCEPT !.nextreq = 0] = NewClient
  <2>1. \A d \in ClientRec : [d EXCEPT !.nextreq = 0]
            = [refcnt |-> d.refcnt, state |-> d.state, ostatus |-> d.ostatus, inexec |-> d.inexec,
               nextreq |-> 0, respwait |-> d.respwait, mainlwp |-> d.mainlwp]
    BY DEF ClientRec
  <2>2. [c EXCEPT !.nextreq = 0]
            = [refcnt |-> c.refcnt, state |-> c.state, ostatus |-> c.ostatus, inexec |-> c.inexec,
               nextreq |-> 0, respwait |-> c.respwait, mainlwp |-> c.mainlwp]
    BY <2>1, Zenon
  <2> QED
    BY <1>2, <2>2, Zenon DEF NewClient
<1> QED
  BY <1>1, <1>2 DEF EmptyClean

(* Who asked is a worker, and asked with a number. *)
LEMMA RespFacts ==
  ASSUME ServerTypeOK
  PROVE  /\ \A s \in Slot : /\ spc[s].nextreq \in Nat /\ spc[s].refcnt \in Nat
                            /\ spc[s].respwait \subseteq Respwait
                            /\ spc[s] \in ClientRec
         /\ \A r \in Respwait : r.who \in Worker /\ r.reqno \in Nat
  BY TypeFacts DEF ClientRec, Respwait

(* What Goto() does, thread by thread. *)
Others(t) == \A u \in Thread : u # t => pc'[u] = pc[u] /\ at'[u] = at[u] /\ goal'[u] = goal[u]

LEMMA GotoGives ==
  ASSUME ServerTypeOK, NEW t \in Thread, NEW p \in AnyPc, NEW s \in Slot \cup {NoSlot}, NEW g \in AnyGoal,
         Goto(t, p, s, g)
  PROVE  /\ pc'[t] = p /\ at'[t] = s /\ goal'[t] = g /\ Others(t)
         /\ pc' \in [Thread -> AnyPc] /\ at' \in [Thread -> Slot \cup {NoSlot}]
         /\ goal' \in [Thread -> AnyGoal]
  BY TypeFacts DEF Goto, Others

(* What Becomes() does, slot by slot. *)
OtherSlots(s) == \A r \in Slot : r # s => spc'[r] = spc[r]

LEMMA BecomesGives ==
  ASSUME ServerTypeOK, NEW s \in Slot, NEW c \in ClientRec, Becomes(s, c)
  PROVE  spc'[s] = c /\ OtherSlots(s) /\ spc' \in [Slot -> ClientRec]
  BY TypeFacts DEF Becomes, OtherSlots

-----------------------------------------------------------------------------
(* Parts of IInv that a step leaves alone. *)

(* The references, when nobody takes or drops one. *)
LEMMA RefsKept ==
  ASSUME RefsCounted,
         \A s \in Slot : /\ spc'[s].refcnt = spc[s].refcnt
                         /\ Queued(s)' = Queued(s) /\ Working(s)' = Working(s)
                         /\ Connected(s)' <=> Connected(s)
  PROVE  RefsCounted'
  BY DEF RefsCounted

(* nfds, when no slot is given or freed and nobody tells the poll loop. *)
LEMMA NfdsKept ==
  ASSUME NfdsCounts, EmptySlot' = EmptySlot, Signalling' = Signalling, UNCHANGED <<nfds, disco>>
  PROVE  NfdsCounts'
  BY DEF NfdsCounts

(* A client that has not said hello has no exec under way. *)
LEMMA NewNoExec ==
  ASSUME Lives, NEW s \in Slot, spc[s].state = "NEW"
  PROVE  ExecItems(s) = {} /\ ExecWorkers(s) = {}
<1>1. Queued(s) = {} /\ Working(s) = {}
  BY DEF Lives
<1> QED
  BY <1>1 DEF Queued, Working, ExecItems, ExecWorkers

-----------------------------------------------------------------------------
(* Taking the send lock. *)

(* What SendLock() does to the client, and where it leaves the thread. *)
LEMMA SendLockGives ==
  ASSUME ServerTypeOK, NEW t \in Thread, NEW s \in Slot, NEW c \in ClientRec, NEW g \in AnyGoal,
         SendLock(t, s, c, g)
  PROVE  /\ Others(t) /\ at'[t] = s /\ goal'[t] = g
         /\ OtherSlots(s)
         /\ spc'[s].refcnt = c.refcnt /\ spc'[s].state = c.state /\ spc'[s].inexec = c.inexec
         /\ spc'[s].nextreq = c.nextreq /\ spc'[s].respwait = c.respwait
         /\ spc'[s].mainlwp = c.mainlwp
         /\ \/ /\ c.ostatus = "FREE" /\ spc'[s].ostatus = "BUSY"
               /\ pc'[t] = "send" /\ asleep' = asleep
            \/ /\ c.ostatus # "FREE" /\ spc'[s].ostatus = "WANTED"
               /\ pc'[t] = "lock" /\ asleep' = asleep \cup {t}
         /\ spc' \in [Slot -> ClientRec]
         /\ pc' \in [Thread -> AnyPc] /\ at' \in [Thread -> Slot \cup {NoSlot}]
         /\ goal' \in [Thread -> AnyGoal] /\ asleep' \subseteq Thread
<1> USE DEF AnyPc, ServerPc
<1>1. asleep \subseteq Thread
  BY TypeFacts
<1>2. CASE c.ostatus = "FREE"
  <2> DEFINE d == [c EXCEPT !.ostatus = "BUSY"]
  <2>1. d \in ClientRec /\ d.ostatus = "BUSY" /\ d.refcnt = c.refcnt /\ d.state = c.state
        /\ d.inexec = c.inexec /\ d.nextreq = c.nextreq /\ d.respwait = c.respwait
        /\ d.mainlwp = c.mainlwp
    BY DEF ClientRec
  <2>2. Becomes(s, d) /\ Goto(t, "send", s, g) /\ asleep' = asleep
    BY <1>2 DEF SendLock
  <2> HIDE DEF d
  <2> QED
    BY <1>1, <1>2, <2>1, <2>2, GotoGives, BecomesGives
<1>3. CASE c.ostatus # "FREE"
  <2> DEFINE d == [c EXCEPT !.ostatus = "WANTED"]
  <2>1. d \in ClientRec /\ d.ostatus = "WANTED" /\ d.refcnt = c.refcnt /\ d.state = c.state
        /\ d.inexec = c.inexec /\ d.nextreq = c.nextreq /\ d.respwait = c.respwait
        /\ d.mainlwp = c.mainlwp
    BY DEF ClientRec
  <2>2. Becomes(s, d) /\ Goto(t, "lock", s, g) /\ asleep' = asleep \cup {t}
    BY <1>3 DEF SendLock
  <2> HIDE DEF d
  <2> QED
    BY <1>1, <1>3, <2>1, <2>2, GotoGives, BecomesGives
<1> QED
  BY <1>2, <1>3

(* What the sections that lock for sending have in common: who may send what,
   and the changes they make to the client before. *)
MaySend(t, s, c, g) ==
    /\ t \notin asleep
    /\ t = Server => /\ \/ pc[t] = "poll" /\ s \in pfd
                        \/ pc[t] \in {"lock", "prefork", "sched"} /\ at[t] = s
                     /\ g \in {"answer", "noprefork", "welcome"}
    /\ t # Server => /\ pc[t] \in {"lock", "start", "sys", "execreply"} /\ at[t] = s
                     /\ g \in {"copyin", "copyout", "reply"}
    /\ pc[t] = "lock" => g = goal[t]
    /\ pc[t] # "lock" => /\ g = "welcome" => spc[s].state = "NEW"
                         /\ g = "noprefork" => pc[t] = "prefork"
                         /\ g \in {"copyin", "copyout"} => pc[t] = "sys"
    /\ c.refcnt = spc[s].refcnt /\ c.state = spc[s].state
    /\ c.ostatus = spc[s].ostatus /\ c.inexec = spc[s].inexec
    /\ s \in pfd \/ c.mainlwp = spc[s].mainlwp
    /\ \/ /\ c.respwait = spc[s].respwait /\ c.nextreq >= spc[s].nextreq
          /\ g = "copyin" => pc[t] = "lock"
       \/ /\ g = "copyin" /\ pc[t] = "sys"
          /\ c.respwait = spc[s].respwait \cup {Asked(spc[s], t)}
          /\ c.nextreq = spc[s].nextreq + 1

(* It keeps IInv. *)
LEMMA SendLockKeepsInv ==
  ASSUME IInv, NEW t \in Thread, NEW s \in Slot, NEW c \in ClientRec, NEW g \in AnyGoal,
         MaySend(t, s, c, g), SendLock(t, s, c, g),
         preforks' \in 0 .. MaxFork,
         UNCHANGED <<poolVars, loopVars, draining, aborted>>
  PROVE  IInv'
<1> USE ThreadFacts DEF IInv
<1>0. /\ \A u \in Thread : pc[u] \notin {"poll", "pool"} => at[u] \in Slot
      /\ \A u \in Thread : goal[u] # "none" => at[u] \in Slot /\ pc[u] \notin {"poll", "pool"}
      /\ \A u \in Thread : at[u] \in Slot => pc[u] \notin {"poll", "pool"}
  BY AtFacts
<1>1. ServerTypeOK /\ PoolTypeOK /\ PoolInv'
  BY PoolStutters DEF PoolInv
<1>2. /\ Others(t) /\ at'[t] = s /\ goal'[t] = g
      /\ OtherSlots(s)
      /\ spc'[s].refcnt = c.refcnt /\ spc'[s].state = c.state /\ spc'[s].inexec = c.inexec
      /\ spc'[s].nextreq = c.nextreq /\ spc'[s].respwait = c.respwait
      /\ spc'[s].mainlwp = c.mainlwp
      /\ \/ /\ c.ostatus = "FREE" /\ spc'[s].ostatus = "BUSY"
            /\ pc'[t] = "send" /\ asleep' = asleep
         \/ /\ c.ostatus # "FREE" /\ spc'[s].ostatus = "WANTED"
            /\ pc'[t] = "lock" /\ asleep' = asleep \cup {t}
      /\ spc' \in [Slot -> ClientRec]
      /\ pc' \in [Thread -> AnyPc] /\ at' \in [Thread -> Slot \cup {NoSlot}]
      /\ goal' \in [Thread -> AnyGoal] /\ asleep' \subseteq Thread
  BY <1>1, SendLockGives
<1>3. ServerTypeOK'
  BY <1>1, <1>2, TypeFacts, TypeFactsPrime DEF loopVars, PoolInv
<1>4. UNCHANGED <<wrklist, nwork, nworker, idleworker, wstate, pfd, nfds, maxidx, disco, draining,
                  aborted>>
  BY DEF poolVars, loopVars
<1>5. Places'
  BY <1>2, <1>4 DEF Places, MaySend, Others, ServerPc, WorkerPc
<1>6. Goals'
  BY <1>2, <1>4 DEF Goals, MaySend, Others, Places, ServerPc
<1>7. /\ \A r \in Slot : /\ spc'[r].refcnt = spc[r].refcnt /\ spc'[r].state = spc[r].state
                         /\ spc'[r].inexec = spc[r].inexec
      /\ \A r \in Slot : r # s => spc'[r] = spc[r]
  BY <1>2 DEF OtherSlots, MaySend
<1> DEFINE SameServer == /\ pc'[Server] = pc[Server] /\ at'[Server] = at[Server]
                         /\ goal'[Server] = goal[Server]
<1>7a. t # Server => SameServer
  BY <1>2 DEF Others
<1>7b. ServerAt'
  <2>1. CASE t = Server
    BY <1>0, <1>2, <1>4, <2>1 DEF ServerAt, MaySend, Client
  <2>2. CASE t # Server
    BY <1>0, <1>4, <1>7, <1>7a, <2>2 DEF ServerAt, Client
  <2> QED
    BY <2>1, <2>2
<1>8. /\ \A r \in Slot : /\ Queued(r)' = Queued(r) /\ Working(r)' = Working(r)
                         /\ Connected(r)' <=> Connected(r)
                         /\ ExecItems(r)' = ExecItems(r) /\ ExecWorkers(r)' = ExecWorkers(r)
                         /\ ExecServer(r)' => ExecServer(r)
      /\ Signalling' = Signalling
  <2>1. \A r \in Slot : Queued(r)' = Queued(r) /\ (Connected(r)' <=> Connected(r))
    BY <1>2, <1>4 DEF Queued, Connected, MaySend, Others
  <2>2. \A r \in Slot : Working(r)' = Working(r) /\ ExecWorkers(r)' = ExecWorkers(r)
    BY <1>2, <1>4 DEF Working, ExecWorkers, MaySend, Others
  <2>3. \A r \in Slot : ExecItems(r)' = ExecItems(r) /\ (ExecServer(r)' => ExecServer(r))
    BY <1>2, <1>4 DEF ExecItems, ExecServer, MaySend, Others
  <2>4. Signalling' = Signalling
    BY <1>2 DEF Signalling, MaySend, Others
  <2> QED
    BY <2>1, <2>2, <2>3, <2>4
<1>9. s \notin EmptySlot /\ EmptySlot' = EmptySlot
  <2>1. s \notin EmptySlot
    BY DEF EmptyClean, EmptySlot, MaySend
  <2> QED
    BY <1>2, <1>4, <2>1 DEF EmptySlot, MaySend, OtherSlots
<1>10. Lives'
  BY <1>2, <1>4, <1>8 DEF Lives, MaySend, OtherSlots
<1>11. ClosesAlone'
  BY <1>0, <1>2, <1>4 DEF ClosesAlone, MaySend, Others, OtherSlots, Client, Places
<1>12. RefsCounted'
  <2>1. \A r \in Slot : spc'[r].refcnt = spc[r].refcnt
    BY <1>2 DEF MaySend, OtherSlots
  <2> QED
    BY <1>8, <2>1, RefsKept
<1>13. EmptyClean'
  <2>1. \A r \in EmptySlot : spc'[r] = spc[r] /\ r # s
    BY <1>2, <1>9 DEF OtherSlots, EmptySlot
  <2> QED
    BY <1>2, <1>9, <2>1 DEF EmptyClean, Others, EmptySlot
<1>14. RespOwned'
  <2>1. ASSUME NEW r \in Slot, NEW q \in spc'[r].respwait
        PROVE  at'[q.who] = r /\ Asking(q.who)'
    <3>1. CASE q \in spc[r].respwait
      <4>1. q.who \in Worker /\ at[q.who] = r /\ Asking(q.who)
        BY <3>1, RespFacts DEF RespOwned
      <4>2. CASE q.who = t
        BY <1>2, <4>1, <4>2 DEF Asking, MaySend
      <4>3. CASE q.who # t
        BY <1>2, <4>1, <4>3 DEF Asking, Others
      <4> QED
        BY <4>2, <4>3
    <3>2. CASE q \notin spc[r].respwait
      <4>1. r = s /\ g = "copyin" /\ q = Asked(spc[s], t)
        BY <1>2, <1>7, <3>2 DEF MaySend
      <4> QED
        BY <1>2, <4>1 DEF Asking, Asked
    <3> QED
      BY <3>1, <3>2
  <2>2. ASSUME NEW w \in Worker, Asking(w)'
        PROVE  \E q \in spc'[at'[w]].respwait : q.who = w
    <3>1. CASE Asking(w) /\ at'[w] = at[w]
      <4>1. at[w] \in Slot /\ \E q \in spc[at[w]].respwait : q.who = w
        BY <1>0, <3>1 DEF RespOwned, Client, Asking
      <4>2. spc[at[w]].respwait \subseteq spc'[at[w]].respwait
        <5>1. CASE at[w] = s
          BY <1>2, <5>1 DEF MaySend
        <5>2. CASE at[w] # s
          BY <1>7, <4>1, <5>2
        <5> QED
          BY <5>1, <5>2
      <4> QED
        BY <3>1, <4>1, <4>2
    <3>2. CASE ~(Asking(w) /\ at'[w] = at[w])
      <4>1. w = t /\ g = "copyin" /\ pc[t] # "lock"
        BY <1>2, <2>2, <3>2 DEF Asking, Others, MaySend
      <4>2. Asked(spc[s], t) \in spc'[s].respwait /\ at'[w] = s
        BY <1>2, <4>1 DEF MaySend
      <4> QED
        BY <4>1, <4>2 DEF Asked
    <3> QED
      BY <3>1, <3>2
  <2> QED
    BY <2>1, <2>2 DEF RespOwned, Client
<1>15. SendLocked'
  <2>1. \A r \in Slot : spc'[r].ostatus # "FREE" => \E u \in Thread : at'[u] = r /\ pc'[u] = "send"
    <3>1. \A u \in Thread : pc[u] = "send" => pc'[u] = "send" /\ at'[u] = at[u]
      BY <1>2 DEF MaySend, Others
    <3>2. pc'[t] = "send" \/ spc[s].ostatus # "FREE"
      BY <1>2 DEF MaySend
    <3> QED
      BY <1>2, <1>7, <3>1, <3>2 DEF SendLocked
  <2>2. ASSUME NEW u \in Thread, pc'[u] = "send", at'[u] \in pfd
        PROVE  /\ spc'[at'[u]].ostatus # "FREE"
               /\ \A v \in Thread : pc'[v] = "send" /\ at'[v] = at'[u] => v = u
    <3>1. CASE u = t
      <4>1. spc[s].ostatus = "FREE" /\ spc'[s].ostatus = "BUSY" /\ at'[u] = s /\ s \in pfd
        BY <1>2, <2>2, <3>1 DEF MaySend
      <4>2. \A v \in Thread \ {t} : pc'[v] = pc[v] /\ at'[v] = at[v]
        BY <1>2 DEF Others
      <4> QED
        BY <3>1, <4>1, <4>2 DEF SendLocked, Client
    <3>2. CASE u # t
      <4>1. pc[u] = "send" /\ at'[u] = at[u] /\ at[u] \in pfd
        BY <1>2, <2>2, <3>2 DEF Others
      <4>2. spc[at[u]].ostatus # "FREE" /\ \A v \in Thread : pc[v] = "send" /\ at[v] = at[u] => v = u
        BY <4>1 DEF SendLocked, Client
      <4>3. at[u] = s => pc'[t] = "lock" /\ spc'[s].ostatus = "WANTED"
        BY <1>2, <4>2 DEF MaySend
      <4>4. at[u] # s => spc'[at[u]] = spc[at[u]]
        BY <1>0, <1>7, <4>1
      <4> QED
        BY <1>2, <4>1, <4>2, <4>3, <4>4 DEF Others
    <3> QED
      BY <3>1, <3>2
  <2>3. ASSUME NEW u \in asleep', pc'[u] = "lock", at'[u] \in pfd
        PROVE  spc'[at'[u]].ostatus = "WANTED"
    <3>1. u \in Thread
      BY <1>2
    <3>2. CASE u = t
      BY <1>2, <2>3, <3>2 DEF MaySend
    <3>3. CASE u # t
      <4>1. u \in asleep /\ pc[u] = "lock" /\ at'[u] = at[u] /\ at[u] \in pfd /\ at[u] \in Slot
        BY <1>0, <1>2, <2>3, <3>1, <3>3 DEF Others
      <4>2. spc[at[u]].ostatus = "WANTED"
        BY <4>1 DEF SendLocked, Client
      <4> QED
        BY <1>2, <1>7, <4>1, <4>2 DEF MaySend
    <3> QED
      BY <3>2, <3>3
  <2> QED
    BY <1>4, <2>1, <2>2, <2>3 DEF SendLocked, Client
<1>16. AnswersFindAsker'
  <2> SUFFICES ASSUME NEW r \in pfd, NEW p \in spc'[r].respwait, NEW q \in spc'[r].respwait
               PROVE  p.reqno < spc'[r].nextreq /\ (p.reqno = q.reqno => p.who = q.who)
    BY <1>4 DEF AnswersFindAsker
  <2>1. r \in Slot /\ spc[r].nextreq \in Nat
    BY TypeFacts, RespFacts
  <2>2. \A o \in spc[r].respwait : o.reqno \in Nat /\ o.reqno < spc[r].nextreq
    BY <2>1, RespFacts DEF AnswersFindAsker
  <2>3. CASE spc'[r].respwait = spc[r].respwait
    BY <1>2, <1>7, <2>1, <2>2, <2>3 DEF AnswersFindAsker, MaySend, ClientRec
  <2>4. CASE /\ spc'[r].respwait = spc[r].respwait \cup {Asked(spc[r], t)}
             /\ spc'[r].nextreq = spc[r].nextreq + 1
    BY <2>1, <2>2, <2>4 DEF AnswersFindAsker, Asked
  <2> QED
    BY <1>2, <1>7, <2>1, <2>3, <2>4 DEF MaySend
<1>17. SleepersHaveWaker'
  <2> SUFFICES ASSUME NEW u \in asleep'
               PROVE  /\ pc'[u] = "lock" /\ at'[u] \in pfd =>
                            /\ spc'[at'[u]].ostatus = "WANTED"
                            /\ \E v \in Thread \ asleep' : at'[v] = at'[u] /\ pc'[v] = "send"
                      /\ pc'[u] = "exec" /\ at'[u] \in pfd =>
                            spc'[at'[u]].refcnt > 2 /\ spc'[at'[u]].inexec
                      /\ pc'[u] = "wait" => ~Answered(u)' /\ spc'[at'[u]].state # "DYING"
    BY <1>4 DEF SleepersHaveWaker, Client
  <2>1. u \in Thread /\ (at'[u] \in pfd => at'[u] \in Slot)
    BY <1>2, TypeFacts
  <2>2. ASSUME pc'[u] = "lock", at'[u] \in pfd
        PROVE  /\ spc'[at'[u]].ostatus = "WANTED"
               /\ \E v \in Thread \ asleep' : at'[v] = at'[u] /\ pc'[v] = "send"
    <3>1. spc'[at'[u]].ostatus = "WANTED"
      BY <1>4, <1>15, <2>2 DEF SendLocked, Client
    <3>2. PICK v \in Thread : at'[v] = at'[u] /\ pc'[v] = "send"
      BY <1>15, <2>1, <2>2, <3>1 DEF SendLocked
    <3>3. v \notin asleep'
      BY <1>5, <3>2 DEF Places
    <3> QED
      BY <3>1, <3>2, <3>3
  <2>3. CASE pc'[u] \in {"exec", "wait"}
    <3>1. u # t /\ pc[u] = pc'[u] /\ at'[u] = at[u] /\ at[u] \in Slot /\ u \in asleep
      BY <1>0, <1>2, <2>1, <2>3 DEF Others
    <3>2. pc[u] = "wait" => ~Answered(u)'
      <4>1. spc'[at[u]].respwait = spc[at[u]].respwait
              \/ spc'[at[u]].respwait = spc[at[u]].respwait \cup {Asked(spc[s], t)}
        BY <1>2, <1>7, <3>1 DEF MaySend
      <4> QED
        BY <3>1, <4>1 DEF SleepersHaveWaker, Answered, Asked, Client
    <3>3. pc[u] = "exec" /\ at[u] \in pfd => spc[at[u]].refcnt > 2 /\ spc[at[u]].inexec
      BY <3>1 DEF SleepersHaveWaker, Client
    <3>4. pc[u] = "wait" => spc[at[u]].state # "DYING"
      BY <3>1 DEF SleepersHaveWaker, Client
    <3>5. /\ spc'[at[u]].refcnt = spc[at[u]].refcnt /\ spc'[at[u]].state = spc[at[u]].state
          /\ spc'[at[u]].inexec = spc[at[u]].inexec
      BY <1>7, <3>1
    <3> QED
      BY <2>3, <3>1, <3>2, <3>3, <3>4, <3>5
  <2> QED
    BY <2>2, <2>3
<1>18. ExecOnce'
  BY <1>8 DEF ExecOnce
<1>19. ExecMarked'
  <2>1. \A r \in Slot : ExecNone(r) => ExecNone(r)'
    BY <1>8 DEF ExecNone
  <2>2. pfd \subseteq Slot
    BY TypeFacts
  <2>3. ServerOnLwp' => \A r \in Slot : at'[Server] = r => ExecNone(r)'
    <3>1. CASE t = Server
      <4>1. g = "welcome" => ExecNone(s)
        <5>1. CASE pc[t] = "lock"
          BY <3>1, <5>1 DEF MaySend, ExecMarked, ServerOnLwp
        <5>2. CASE pc[t] # "lock"
          <6>1. g = "welcome" => spc[s].state = "NEW" /\ ~ExecServer(s)
            BY <3>1, <5>2 DEF MaySend, ExecServer, Goals, ServerAt, Client
          <6> QED
            BY <6>1, NewNoExec DEF ExecNone
        <5> QED
          BY <5>1, <5>2
      <4>2. g = "noprefork" => ExecNone(s)
        BY <3>1 DEF MaySend, ExecMarked, ServerOnLwp
      <4> QED
        BY <1>2, <2>1, <3>1, <4>1, <4>2 DEF ServerOnLwp
    <3>2. CASE t # Server
      BY <1>7a, <2>1, <3>2 DEF ExecMarked, ServerOnLwp
    <3> QED
      BY <3>1, <3>2
  <2>4. \A r \in pfd : ~ExecNone(r)' => spc'[r].inexec
    BY <1>7, <2>1, <2>2 DEF ExecMarked
  <2>5. \A r \in Slot \ pfd : spc'[r].inexec => at'[Server] = r /\ pc'[Server] \in {"lwpexit", "zero"}
    <3>1. t = Server => pc[t] \notin {"lwpexit", "zero"}
      BY DEF MaySend
    <3> QED
      BY <1>7, <1>7a, <3>1 DEF ExecMarked
  <2>6. \A r \in pfd \ draining :
            /\ ExecItems(r)' = {}
            /\ \A w \in ExecWorkers(r)' : pc'[w] = "execend"
            /\ ExecServer(r)' => pc'[Server] = "lwpexit"
    <3>1. \A r \in Slot : \A w \in ExecWorkers(r) : pc'[w] = pc[w]
      BY <1>2 DEF ExecWorkers, MaySend, Others
    <3>2. \A r \in Slot : ExecServer(r)' => t # Server
      BY <1>2 DEF ExecServer, MaySend
    <3> QED
      BY <1>7a, <1>8, <2>2, <3>1, <3>2 DEF ExecMarked
  <2>7. pfd' = pfd /\ draining' = draining
    BY <1>4
  <2> QED
    BY <2>3, <2>4, <2>5, <2>6, <2>7 DEF ExecMarked
<1>21. NfdsCounts' /\ TableSound'
  BY <1>4, <1>8, <1>9, NfdsKept DEF TableSound
<1> QED
  BY <1>1, <1>3, <1>5, <1>6, <1>7b, <1>10, <1>11, <1>12, <1>13, <1>14, <1>15, <1>16, <1>17, <1>18,
     <1>19, <1>21

-----------------------------------------------------------------------------
(* IInv, one slot at a time: most steps touch one thread and one slot. *)

LivesAt(s) ==
    /\ s \in pfd => spc[s].state # "DYING"
    /\ s \notin pfd => spc[s].state # "RUNNING"
    /\ spc[s].state = "NEW" => Queued(s) = {} /\ Working(s) = {}

ClosesAt(s) ==
    \A t \in Thread : at[t] = s /\ pc[t] = "closing" =>
        /\ s \notin pfd /\ spc[s].state = "DYING" /\ spc[s].refcnt = 0
        /\ \A u \in Thread : u # t /\ at[u] = s => pc[u] = "signal"

RefsAt(s) == spc[s].refcnt = Cardinality(Queued(s)) + Cardinality(Working(s))
                               + (IF Connected(s) THEN 1 ELSE 0)

EmptyAt(s) ==
    s \notin pfd /\ spc[s].state = "NEW" =>
        /\ spc[s].refcnt = 0 /\ spc[s].ostatus = "FREE" /\ spc[s].inexec = FALSE
        /\ spc[s].respwait = {} /\ spc[s].mainlwp = FALSE
        /\ s \notin draining
        /\ \A t \in Thread : at[t] = s => pc[t] = "signal"

RespAt(s) ==
    /\ \A r \in spc[s].respwait : at[r.who] = s /\ Asking(r.who)
    /\ \A w \in Worker : at[w] = s /\ Asking(w) => \E r \in spc[s].respwait : r.who = w

SendAt(s) ==
    /\ spc[s].ostatus # "FREE" => \E t \in Thread : at[t] = s /\ pc[t] = "send"
    /\ s \in pfd => \A t \in Thread : at[t] = s /\ pc[t] = "send" =>
                        /\ spc[s].ostatus # "FREE"
                        /\ \A u \in Thread : at[u] = s /\ pc[u] = "send" => u = t
    /\ s \in pfd => \A t \in asleep : at[t] = s /\ pc[t] = "lock" => spc[s].ostatus = "WANTED"

AnswersAt(s) ==
    s \in pfd => \A r, q \in spc[s].respwait :
                     /\ r.reqno < spc[s].nextreq
                     /\ r.reqno = q.reqno => r.who = q.who

SleepersAt(s) ==
    \A t \in asleep : at[t] = s =>
        /\ pc[t] = "exec" /\ s \in pfd => spc[s].refcnt > 2 /\ spc[s].inexec
        /\ pc[t] = "wait" => /\ \A r \in spc[s].respwait : r.who = t => ~r.done
                             /\ spc[s].state # "DYING"

OnceAt(s) ==
    /\ \A i, j \in ExecItems(s) : i = j
    /\ \A v, w \in ExecWorkers(s) : v = w
    /\ ExecItems(s) = {} \/ ExecWorkers(s) = {}
    /\ ExecServer(s) => ExecItems(s) = {} /\ ExecWorkers(s) = {}

MarkedAt(s) ==
    /\ s \in pfd /\ ~ExecNone(s) => spc[s].inexec
    /\ s \notin pfd /\ spc[s].inexec => at[Server] = s /\ pc[Server] \in {"lwpexit", "zero"}
    /\ at[Server] = s /\ ServerOnLwp => ExecNone(s)
    /\ s \in pfd /\ s \notin draining =>
          /\ ExecItems(s) = {}
          /\ \A w \in ExecWorkers(s) : pc[w] = "execend"
          /\ ExecServer(s) => pc[Server] = "lwpexit"

ServedAt(s) ==
    at[Server] = s =>
        /\ pc[Server] \in {"lock", "send", "prefork", "sched", "queue"} => s \in pfd
        /\ pc[Server] = "lwpexit" => (s \in pfd <=> goal[Server] = "exec")
        /\ pc[Server] \in {"zero", "release"} => s \notin pfd
        /\ goal[Server] = "welcome" => spc[s].state = "NEW"
        /\ pc[Server] \in {"prefork", "sched", "queue"} \/ goal[Server] \in {"noprefork", "exec"}
              => spc[s].state = "RUNNING"

SlotInv(s) ==
    /\ LivesAt(s) /\ ClosesAt(s) /\ RefsAt(s) /\ EmptyAt(s) /\ RespAt(s) /\ SendAt(s)
    /\ AnswersAt(s) /\ SleepersAt(s) /\ OnceAt(s) /\ MarkedAt(s) /\ ServedAt(s)

(* What is not about one slot. *)
LoopInv == ServerTypeOK /\ PoolInv /\ Places /\ Goals /\ NfdsCounts /\ TableSound

(* The two together are IInv. *)
LEMMA InvBySlots == IInv <=> LoopInv /\ \A s \in Slot : SlotInv(s)
<1> SUFFICES ASSUME LoopInv PROVE IInv <=> \A s \in Slot : SlotInv(s)
  BY DEF IInv, LoopInv
<1>1. /\ pfd \subseteq Slot /\ asleep \subseteq Thread
      /\ \A u \in Thread : pc[u] \notin {"poll", "pool"} => at[u] \in Slot
      /\ \A u \in Thread : goal[u] # "none" => at[u] \in Slot
      /\ \A u \in asleep : u \in Thread /\ at[u] \in Slot
  BY AtFacts, TypeFacts DEF LoopInv, Places
<1>2. Lives <=> \A s \in Slot : LivesAt(s)
  BY DEF Lives, LivesAt
<1>3. ClosesAlone <=> \A s \in Slot : ClosesAt(s)
  BY <1>1 DEF ClosesAlone, ClosesAt, Client
<1>4. RefsCounted <=> \A s \in Slot : RefsAt(s)
  BY DEF RefsCounted, RefsAt
<1>5. EmptyClean <=> \A s \in Slot : EmptyAt(s)
  BY DEF EmptyClean, EmptyAt, EmptySlot
<1>6. RespOwned <=> \A s \in Slot : RespAt(s)
  <2>1. \A w \in Worker : Asking(w) => at[w] \in Slot
    BY <1>1, ThreadFacts DEF Asking
  <2> QED
    BY <2>1 DEF RespOwned, RespAt, Client
<1>7. SendLocked <=> \A s \in Slot : SendAt(s)
  BY <1>1 DEF SendLocked, SendAt, Client
<1>8. AnswersFindAsker <=> \A s \in Slot : AnswersAt(s)
  BY <1>1 DEF AnswersFindAsker, AnswersAt
<1>9. SendLocked => (SleepersHaveWaker <=> \A s \in Slot : SleepersAt(s))
  <2>1. ASSUME SendLocked, NEW u \in asleep, pc[u] = "lock", at[u] \in pfd
        PROVE  /\ Client(u).ostatus = "WANTED"
               /\ \E v \in Thread \ asleep : at[v] = at[u] /\ pc[v] = "send"
    <3>1. spc[at[u]].ostatus = "WANTED" /\ at[u] \in Slot
      BY <1>1, <2>1 DEF SendLocked, Client
    <3>2. PICK v \in Thread : at[v] = at[u] /\ pc[v] = "send"
      BY <2>1, <3>1 DEF SendLocked
    <3>3. v \notin asleep
      BY <3>2 DEF Places, LoopInv
    <3> QED
      BY <3>1, <3>2, <3>3 DEF Client
  <2> QED
    BY <1>1, <2>1 DEF SleepersHaveWaker, SleepersAt, Answered, Client
<1>10. ExecOnce <=> \A s \in Slot : OnceAt(s)
  BY DEF ExecOnce, OnceAt
<1>11. ExecMarked <=> \A s \in Slot : MarkedAt(s)
  BY <1>1 DEF ExecMarked, MarkedAt
<1>13. ServerAt <=> \A s \in Slot : ServedAt(s)
  BY <1>1, ThreadFacts DEF ServerAt, ServedAt, Client
<1> QED
  BY <1>2, <1>3, <1>4, <1>5, <1>6, <1>7, <1>8, <1>9, <1>10, <1>11, <1>13
     DEF IInv, LoopInv, SlotInv

(* The same after a step. *)
LEMMA InvBySlotsPrime == (LoopInv /\ \A s \in Slot : SlotInv(s))' => IInv'
  BY InvBySlots, PTL

(* A slot that a step has nothing to do with; its items may move on the list. *)
ListKept(s) ==
    /\ Cardinality(Queued(s)') = Cardinality(Queued(s))
    /\ Queued(s) = {} => Queued(s)' = {}
    /\ ExecItems(s) = {} <=> ExecItems(s)' = {}
    /\ (\A i, j \in ExecItems(s) : i = j) => (\A i, j \in ExecItems(s)' : i = j)

Untouched(s) ==
    /\ spc'[s] = spc[s]
    /\ s \in pfd' <=> s \in pfd
    /\ s \in draining' <=> s \in draining
    /\ \A u \in Thread : /\ at'[u] = s <=> at[u] = s
                         /\ at[u] = s => /\ pc'[u] = pc[u] /\ goal'[u] = goal[u]
                                         /\ u \in asleep' <=> u \in asleep
    /\ ListKept(s)

LEMMA UntouchedKeepsInv ==
  ASSUME ServerTypeOK, asleep' \subseteq Thread, NEW s \in Slot, SlotInv(s), Untouched(s)
  PROVE  SlotInv(s)'
<1>1. /\ spc'[s] = spc[s]
      /\ s \in pfd' <=> s \in pfd
      /\ s \in draining' <=> s \in draining
  BY DEF Untouched
<1>2. \A u \in Thread : /\ at'[u] = s <=> at[u] = s
                        /\ at[u] = s => /\ pc'[u] = pc[u] /\ goal'[u] = goal[u]
                                        /\ u \in asleep' <=> u \in asleep
  BY DEF Untouched
<1>3. /\ Working(s)' = Working(s) /\ ExecWorkers(s)' = ExecWorkers(s)
      /\ Connected(s)' <=> Connected(s)
      /\ ExecServer(s)' <=> ExecServer(s)
  BY <1>1, <1>2, ThreadFacts DEF Working, ExecWorkers, Connected, ExecServer
<1>4. /\ Cardinality(Queued(s)') = Cardinality(Queued(s))
      /\ Queued(s) = {} => Queued(s)' = {}
      /\ ExecItems(s) = {} <=> ExecItems(s)' = {}
      /\ (\A i, j \in ExecItems(s) : i = j) => (\A i, j \in ExecItems(s)' : i = j)
  BY DEF Untouched, ListKept
<1>5. LivesAt(s)'
  BY <1>1, <1>3, <1>4 DEF SlotInv, LivesAt
<1>6. ClosesAt(s)'
  BY <1>1, <1>2 DEF SlotInv, ClosesAt
<1>7. RefsAt(s)'
  BY <1>1, <1>3, <1>4 DEF SlotInv, RefsAt
<1>8. EmptyAt(s)'
  BY <1>1, <1>2 DEF SlotInv, EmptyAt
<1>9. RespAt(s)'
  <2>1. \A r \in spc[s].respwait : r.who \in Thread
    BY RespFacts, ThreadFacts
  <2>2. \A w \in Worker : w \in Thread
    BY ThreadFacts
  <2> QED
    BY <1>1, <1>2, <2>1, <2>2 DEF SlotInv, RespAt, Asking
<1>10. SendAt(s)'
  BY <1>1, <1>2 DEF SlotInv, SendAt
<1>11. AnswersAt(s)'
  BY <1>1 DEF SlotInv, AnswersAt
<1>12. SleepersAt(s)'
  BY <1>1, <1>2 DEF SlotInv, SleepersAt
<1>13. OnceAt(s)'
  BY <1>3, <1>4 DEF SlotInv, OnceAt
<1>14. MarkedAt(s)'
  <2>1. ExecNone(s)' <=> ExecNone(s)
    BY <1>3, <1>4 DEF ExecNone
  <2>2. \A w \in ExecWorkers(s) : pc'[w] = pc[w]
    BY <1>2, ThreadFacts DEF ExecWorkers
  <2>3. at[Server] = s => (ServerOnLwp' <=> ServerOnLwp)
    BY <1>2, ThreadFacts DEF ServerOnLwp
  <2>4. /\ at'[Server] = s <=> at[Server] = s
        /\ at[Server] = s => pc'[Server] = pc[Server]
    BY <1>2, ThreadFacts
  <2> QED
    BY <1>1, <1>3, <1>4, <2>1, <2>2, <2>3, <2>4 DEF SlotInv, MarkedAt, ExecServer
<1>16. ServedAt(s)'
  BY <1>1, <1>2, ThreadFacts DEF SlotInv, ServedAt
<1> QED
  BY <1>5, <1>6, <1>7, <1>8, <1>9, <1>10, <1>11, <1>12, <1>13, <1>14, <1>16 DEF SlotInv

(* A step of t that touches no slot but s. *)
Local(t, s) ==
    /\ at[t] \in {s, NoSlot} /\ at'[t] \in {s, NoSlot}
    /\ Others(t) /\ OtherSlots(s)
    /\ \A u \in Thread : u # t /\ at[u] # s => (u \in asleep' <=> u \in asleep)
    /\ \A r \in Slot : r # s => /\ r \in pfd' <=> r \in pfd
                                /\ r \in draining' <=> r \in draining
    /\ wrklist' = wrklist \/ (\A r \in Slot : r # s => ListKept(r))

LEMMA LocalKeepsOthers ==
  ASSUME ServerTypeOK, asleep' \subseteq Thread, NEW t \in Thread, NEW s \in Slot, Local(t, s),
         NEW r \in Slot, r # s, SlotInv(r)
  PROVE  SlotInv(r)'
<1>1. \A u \in Thread : /\ at'[u] = r <=> at[u] = r
                        /\ at[u] = r => /\ pc'[u] = pc[u] /\ goal'[u] = goal[u]
                                        /\ u \in asleep' <=> u \in asleep
  <2>1. at[t] # r /\ at'[t] # r
    BY ThreadFacts DEF Local
  <2> QED
    BY <2>1 DEF Local, Others
<1>2. ASSUME wrklist' = wrklist PROVE Untouched(r)
  <2>1. Queued(r)' = Queued(r)
    BY <1>1, <1>2, ThreadFacts DEF Queued
  <2>2. ExecItems(r)' = ExecItems(r)
    BY <1>2 DEF ExecItems
  <2> QED
    BY <1>1, <2>1, <2>2 DEF Untouched, ListKept, Local, OtherSlots
<1>3. ASSUME \A q \in Slot : q # s => ListKept(q) PROVE Untouched(r)
  BY <1>1, <1>3 DEF Untouched, Local, OtherSlots
<1>4. Untouched(r)
  BY <1>2, <1>3 DEF Local
<1> QED
  BY <1>4, UntouchedKeepsInv

(* Places and Goals, one thread at a time. *)
WellPlaced(t) ==
    /\ t = Server =>
          /\ pc[t] \in ServerPc
          /\ pc[t] \in {"lock", "send"} => goal[t] \in {"answer", "noprefork", "welcome"}
          /\ pc[t] = "lwpexit" => goal[t] \in {"disco", "exec"}
          /\ pc[t] = "zero" => goal[t] = "disco"
          /\ pc[t] \in {"sched", "queue"} => goal[t] \in {"exec", "syscall"}
          /\ pc[t] \in {"poll", "release", "closing", "signal", "prefork"} => goal[t] = "none"
    /\ t \in Worker =>
          /\ pc[t] \in WorkerPc /\ (wstate[t] = "busy" <=> pc[t] # "pool")
          /\ IF pc[t] \in {"lock", "send"} THEN goal[t] \in {"copyin", "copyout", "reply"}
                                           ELSE goal[t] = "none"
    /\ at[t] = NoSlot <=> pc[t] \in {"poll", "pool"}
    /\ t \in asleep => pc[t] \in {"lock", "exec", "wait"}

LEMMA PlacedKept ==
  ASSUME ServerTypeOK, Places, Goals, NEW t \in Thread, Others(t), asleep' \subseteq Thread,
         \A u \in asleep' : u # t => u \in asleep,
         \A w \in Worker : w # t => (wstate'[w] = "busy" <=> wstate[w] = "busy"),
         WellPlaced(t)'
  PROVE  Places' /\ Goals'
<1>1. CASE t = Server
  <2>1. \A w \in Worker : /\ w # t /\ pc'[w] = pc[w] /\ goal'[w] = goal[w] /\ at'[w] = at[w]
                          /\ wstate'[w] = "busy" <=> wstate[w] = "busy"
    BY <1>1, ThreadFacts DEF Others
  <2>2. Places'
    BY <1>1, <2>1, ThreadFacts DEF Places, WellPlaced, Others
  <2>3. Goals'
    BY <1>1, <2>1 DEF Goals, WellPlaced
  <2> QED
    BY <2>2, <2>3
<1>2. CASE t # Server
  <2>1. /\ t \in Worker
        /\ pc'[Server] = pc[Server] /\ at'[Server] = at[Server] /\ goal'[Server] = goal[Server]
    BY <1>2, ThreadFacts DEF Others
  <2>2. Places'
    BY <2>1, ThreadFacts DEF Places, WellPlaced, Others
  <2>3. Goals'
    BY <2>1, ThreadFacts DEF Goals, WellPlaced, Others
  <2> QED
    BY <2>2, <2>3
<1> QED
  BY <1>1, <1>2

(* Such a step keeps IInv when it does so for t and s, and the poll loop's
   books are left alone. *)
LEMMA LocalKeepsInv ==
  ASSUME IInv, NEW t \in Thread, NEW s \in Slot, Local(t, s),
         ServerTypeOK', PoolInv', WellPlaced(t)',
         \A u \in asleep' : u # t => u \in asleep,
         \A w \in Worker : w # t => (wstate'[w] = "busy" <=> wstate[w] = "busy"),
         NfdsCounts', TableSound', SlotInv(s)'
  PROVE  IInv'
<1>1. LoopInv /\ \A r \in Slot : SlotInv(r)
  BY InvBySlots
<1>2. asleep' \subseteq Thread
  BY DEF ServerTypeOK
<1>3. Places' /\ Goals'
  BY <1>1, <1>2, PlacedKept DEF Local, LoopInv
<1>4. \A r \in Slot : SlotInv(r)'
  BY <1>1, <1>2, LocalKeepsOthers DEF LoopInv
<1>5. LoopInv'
  BY <1>3 DEF LoopInv
<1> QED
  BY <1>4, <1>5, InvBySlotsPrime

(* nfds, when s stays empty or in use. *)
LEMMA NfdsLocal ==
  ASSUME IInv, NEW t \in Thread, NEW s \in Slot, Local(t, s),
         pc'[t] = "signal" <=> pc[t] = "signal",
         (s \notin pfd' /\ spc'[s].state = "NEW") <=> (s \notin pfd /\ spc[s].state = "NEW"),
         UNCHANGED <<nfds, disco>>
  PROVE  NfdsCounts'
<1>1. EmptySlot' = EmptySlot
  BY DEF EmptySlot, Local, OtherSlots
<1>2. Signalling' = Signalling
  BY DEF Signalling, Local, Others
<1> QED
  BY <1>1, <1>2, NfdsKept DEF IInv

-----------------------------------------------------------------------------
(* The end of sending. *)

(* What the section after dosend() does, whichever it is: t, the sender to s,
   goes to p; the lock is free and who waits for it is woken. *)
Sent(t, s, p) ==
    /\ Others(t) /\ OtherSlots(s)
    /\ spc'[s].refcnt = spc[s].refcnt /\ spc'[s].inexec = spc[s].inexec
    /\ spc'[s].nextreq = spc[s].nextreq /\ spc'[s].mainlwp = spc[s].mainlwp
    /\ spc'[s].ostatus = "FREE"
    /\ pc'[t] = p /\ goal'[t] = "none"
    /\ at'[t] = IF p \in {"poll", "pool"} THEN NoSlot ELSE s
    /\ \A u \in asleep' : u # t => u \in asleep
    /\ \A u \in asleep : u # t => \/ u \in asleep'
                                  \/ at[u] = s /\ pc[u] \in {"lock", "exec"}
    /\ \A u \in asleep' : ~(at[u] = s /\ pc[u] = "lock" /\ spc[s].ostatus = "WANTED")
    /\ t \in asleep' => p = "wait"
    /\ p = "wait" => t \in Worker /\ goal[t] = "copyin" /\ ~Answered(t) /\ spc[s].state # "DYING"
    /\ p = "wait" => spc'[s].respwait = spc[s].respwait
    /\ p = "sys" => t \in Worker /\ spc'[s].respwait = NotOf(t, spc[s].respwait)
                      /\ goal[t] \in {"copyin", "copyout"}
    /\ p \in {"poll", "release"} => spc'[s].respwait = spc[s].respwait
    /\ p = "poll" => t = Server
    /\ p = "release" => t \in Worker /\ goal[t] = "reply"
    /\ p \in {"wait", "sys", "poll", "release"}
    /\ \/ spc'[s].state = spc[s].state
       \/ goal[t] = "welcome" /\ spc'[s].state = "RUNNING" /\ t = Server
    /\ asleep' \subseteq Thread
    /\ spc' \in [Slot -> ClientRec]
    /\ pc' \in [Thread -> AnyPc] /\ at' \in [Thread -> Slot \cup {NoSlot}]
    /\ goal' \in [Thread -> AnyGoal]

(* SendDone() is such a section, in each of its cases. *)
LEMMA SendDoneGives ==
  ASSUME IInv, NEW t \in Thread, SendDone(t)
  PROVE  \E p \in {"wait", "sys", "poll", "release"} : Sent(t, at[t], p)
<1>1. pc[t] = "send" /\ t \notin asleep
  BY DEF SendDone, Places, IInv
<1>2. at[t] \in Slot /\ asleep \subseteq Thread /\ ServerTypeOK
  BY <1>1, AtFacts, TypeFacts DEF IInv
<1>3. PICK s \in Slot : s = at[t]
  BY <1>2
<1>4. PICK c \in ClientRec : c = spc[s]
  BY <1>2, TypeFacts
<1>5. PICK woken : woken = WokenByUnlock(s, c)
  OBVIOUS
<1>6. PICK freed : freed = [c EXCEPT !.ostatus = "FREE"]
  OBVIOUS
<1>7. /\ freed \in ClientRec /\ freed.ostatus = "FREE" /\ freed.refcnt = c.refcnt
      /\ freed.state = c.state /\ freed.inexec = c.inexec /\ freed.nextreq = c.nextreq
      /\ freed.respwait = c.respwait /\ freed.mainlwp = c.mainlwp
  BY <1>6 DEF ClientRec
<1>8. ASSUME asleep' = asleep \ woken \/ asleep' = (asleep \ woken) \cup {t}
      PROVE  /\ \A u \in asleep' : u # t => u \in asleep
             /\ \A u \in asleep : u # t => \/ u \in asleep'
                                           \/ at[u] = s /\ pc[u] \in {"lock", "exec"}
             /\ \A u \in asleep' : ~(at[u] = s /\ pc[u] = "lock" /\ c.ostatus = "WANTED")
             /\ asleep' \subseteq Thread
             /\ asleep' = asleep \ woken => t \notin asleep'
  <2>1. /\ \A u \in woken : at[u] = s /\ pc[u] \in {"lock", "exec"}
        /\ c.ostatus = "WANTED" => \A u \in Thread : at[u] = s /\ pc[u] = "lock" => u \in woken
    BY <1>5 DEF WokenByUnlock, OnCv
  <2>2. \A u \in asleep' : (u # t => u \in asleep) /\ u \in Thread /\ (u = t \/ u \notin woken)
    BY <1>2, <1>8
  <2>3. \A u \in asleep : u # t => u \in asleep' \/ u \in woken
    BY <1>8
  <2>4. asleep' = asleep \ woken => t \notin asleep'
    BY <1>1
  <2> QED
    BY <1>1, <2>1, <2>2, <2>3, <2>4
<1>9. /\ "poll" \in AnyPc /\ "wait" \in AnyPc /\ "sys" \in AnyPc /\ "release" \in AnyPc
      /\ "none" \in AnyGoal
  BY DEF AnyPc, ServerPc, WorkerPc, AnyGoal
<1>10. \/ t = Server /\ goal[t] \in {"answer", "noprefork", "welcome"}
       \/ t \in Worker /\ goal[t] \in {"copyin", "copyout", "reply"}
  BY <1>1, ThreadFacts DEF Goals, IInv
<1>12. CASE /\ goal[t] = "copyin" /\ ~Answered(t) /\ c.state # "DYING"
            /\ Becomes(s, freed)
            /\ Goto(t, "wait", s, "none")
            /\ asleep' = (asleep \ woken) \cup {t}
  <2>1. /\ Others(t) /\ pc'[t] = "wait" /\ at'[t] = s /\ goal'[t] = "none"
        /\ pc' \in [Thread -> AnyPc] /\ at' \in [Thread -> Slot \cup {NoSlot}]
        /\ goal' \in [Thread -> AnyGoal]
    BY <1>2, <1>9, <1>12, GotoGives
  <2>2. /\ spc'[s] = freed /\ OtherSlots(s) /\ spc' \in [Slot -> ClientRec]
    BY <1>2, <1>7, <1>12, BecomesGives
  <2>3. /\ \A u \in asleep' : u # t => u \in asleep
        /\ \A u \in asleep : u # t => u \in asleep' \/ (at[u] = s /\ pc[u] \in {"lock", "exec"})
        /\ \A u \in asleep' : ~(at[u] = s /\ pc[u] = "lock" /\ c.ostatus = "WANTED")
        /\ asleep' \subseteq Thread
    BY <1>8, <1>12
  <2>4. Sent(t, s, "wait")
    BY <1>4, <1>7, <1>10, <1>12, <2>1, <2>2, <2>3 DEF Sent
  <2> QED
    BY <1>3, <2>4
<1>13. CASE /\ goal[t] \in {"copyin", "copyout"}
            /\ Becomes(s, [freed EXCEPT !.respwait = NotOf(t, @)])
            /\ Goto(t, "sys", s, "none")
            /\ asleep' = asleep \ woken
  <2>1. PICK d : d = [freed EXCEPT !.respwait = NotOf(t, @)]
    OBVIOUS
  <2>2. /\ d \in ClientRec /\ d.ostatus = "FREE" /\ d.refcnt = c.refcnt
        /\ d.state = c.state /\ d.inexec = c.inexec /\ d.nextreq = c.nextreq
        /\ d.respwait = NotOf(t, c.respwait) /\ d.mainlwp = c.mainlwp
    BY <1>7, <2>1 DEF ClientRec, NotOf
  <2>3. /\ Others(t) /\ pc'[t] = "sys" /\ at'[t] = s /\ goal'[t] = "none"
        /\ pc' \in [Thread -> AnyPc] /\ at' \in [Thread -> Slot \cup {NoSlot}]
        /\ goal' \in [Thread -> AnyGoal]
    BY <1>2, <1>9, <1>13, GotoGives
  <2>4. /\ spc'[s] = d /\ OtherSlots(s) /\ spc' \in [Slot -> ClientRec]
    <3>1. Becomes(s, d)
      BY <1>13, <2>1, Zenon
    <3> QED
      BY <1>2, <2>2, <3>1, BecomesGives
  <2>5. /\ \A u \in asleep' : u # t => u \in asleep
        /\ \A u \in asleep : u # t => u \in asleep' \/ (at[u] = s /\ pc[u] \in {"lock", "exec"})
        /\ \A u \in asleep' : ~(at[u] = s /\ pc[u] = "lock" /\ c.ostatus = "WANTED")
        /\ asleep' \subseteq Thread /\ t \notin asleep'
    BY <1>8, <1>13
  <2>6. Sent(t, s, "sys")
    BY <1>4, <1>7, <1>10, <1>13, <2>1, <2>2, <2>3, <2>4, <2>5 DEF Sent
  <2> QED
    BY <1>3, <2>6
<1>14. CASE /\ goal[t] = "reply"
            /\ Becomes(s, freed)
            /\ Goto(t, "release", s, "none")
            /\ asleep' = asleep \ woken
  <2>1. /\ Others(t) /\ pc'[t] = "release" /\ at'[t] = s /\ goal'[t] = "none"
        /\ pc' \in [Thread -> AnyPc] /\ at' \in [Thread -> Slot \cup {NoSlot}]
        /\ goal' \in [Thread -> AnyGoal]
    BY <1>2, <1>9, <1>14, GotoGives
  <2>2. /\ spc'[s] = freed /\ OtherSlots(s) /\ spc' \in [Slot -> ClientRec]
    BY <1>2, <1>7, <1>14, BecomesGives
  <2>3. /\ \A u \in asleep' : u # t => u \in asleep
        /\ \A u \in asleep : u # t => u \in asleep' \/ (at[u] = s /\ pc[u] \in {"lock", "exec"})
        /\ \A u \in asleep' : ~(at[u] = s /\ pc[u] = "lock" /\ c.ostatus = "WANTED")
        /\ asleep' \subseteq Thread /\ t \notin asleep'
    BY <1>8, <1>14
  <2>4. Sent(t, s, "release")
    BY <1>4, <1>7, <1>10, <1>14, <2>1, <2>2, <2>3 DEF Sent
  <2> QED
    BY <1>3, <2>4
<1>15. CASE /\ goal[t] \in {"answer", "noprefork"}
            /\ Becomes(s, freed)
            /\ Idle(t)
            /\ asleep' = asleep \ woken
  <2>1. t = Server /\ Goto(t, "poll", NoSlot, "none")
    BY <1>10, <1>15 DEF Idle
  <2>2. /\ Others(t) /\ pc'[t] = "poll" /\ at'[t] = NoSlot /\ goal'[t] = "none"
        /\ pc' \in [Thread -> AnyPc] /\ at' \in [Thread -> Slot \cup {NoSlot}]
        /\ goal' \in [Thread -> AnyGoal]
    BY <1>2, <1>9, <2>1, GotoGives
  <2>3. /\ spc'[s] = freed /\ OtherSlots(s) /\ spc' \in [Slot -> ClientRec]
    BY <1>2, <1>7, <1>15, <2>1, BecomesGives
  <2>4. /\ \A u \in asleep' : u # t => u \in asleep
        /\ \A u \in asleep : u # t => u \in asleep' \/ (at[u] = s /\ pc[u] \in {"lock", "exec"})
        /\ \A u \in asleep' : ~(at[u] = s /\ pc[u] = "lock" /\ c.ostatus = "WANTED")
        /\ asleep' \subseteq Thread /\ t \notin asleep'
    BY <1>8, <1>15
  <2>5. Sent(t, s, "poll")
    BY <1>4, <1>7, <1>10, <1>15, <2>1, <2>2, <2>3, <2>4 DEF Sent
  <2> QED
    BY <1>3, <2>5
<1>16. CASE /\ goal[t] = "welcome"
            /\ Becomes(s, [freed EXCEPT !.state = "RUNNING"])
            /\ Idle(t)
            /\ asleep' = asleep \ woken
  <2>1. t = Server /\ Goto(t, "poll", NoSlot, "none")
    BY <1>10, <1>16 DEF Idle
  <2>2. PICK d : d = [freed EXCEPT !.state = "RUNNING"]
    OBVIOUS
  <2>3. /\ d \in ClientRec /\ d.ostatus = "FREE" /\ d.refcnt = c.refcnt
        /\ d.state = "RUNNING" /\ d.inexec = c.inexec /\ d.nextreq = c.nextreq
        /\ d.respwait = c.respwait /\ d.mainlwp = c.mainlwp
    BY <1>7, <2>2 DEF ClientRec
  <2>4. /\ Others(t) /\ pc'[t] = "poll" /\ at'[t] = NoSlot /\ goal'[t] = "none"
        /\ pc' \in [Thread -> AnyPc] /\ at' \in [Thread -> Slot \cup {NoSlot}]
        /\ goal' \in [Thread -> AnyGoal]
    BY <1>2, <1>9, <2>1, GotoGives
  <2>5. /\ spc'[s] = d /\ OtherSlots(s) /\ spc' \in [Slot -> ClientRec]
    <3>1. Becomes(s, d)
      BY <1>16, <2>2, Zenon
    <3> QED
      BY <1>2, <2>3, <3>1, BecomesGives
  <2>6. /\ \A u \in asleep' : u # t => u \in asleep
        /\ \A u \in asleep : u # t => u \in asleep' \/ (at[u] = s /\ pc[u] \in {"lock", "exec"})
        /\ \A u \in asleep' : ~(at[u] = s /\ pc[u] = "lock" /\ c.ostatus = "WANTED")
        /\ asleep' \subseteq Thread /\ t \notin asleep'
    BY <1>8, <1>16
  <2>7. Sent(t, s, "poll")
    BY <1>4, <1>7, <1>10, <1>16, <2>1, <2>2, <2>3, <2>4, <2>5, <2>6 DEF Sent
  <2> QED
    BY <1>3, <2>7
<1>17. Client(t) = c
  BY <1>3, <1>4 DEF Client
<1> QED
  BY <1>3, <1>5, <1>6, <1>12, <1>13, <1>14, <1>15, <1>16, <1>17 DEF SendDone

-----------------------------------------------------------------------------
(* Steps of exec in a worker. *)

(* The kernel is told: ExecNotify(). *)
LEMMA ExecNotifyKeepsInv ==
  ASSUME IInv, NEW w \in Worker, ExecNotify(w)
  PROVE  IInv'
<1>1. w \in Thread /\ pc[w] = "execlwp" /\ ServerTypeOK /\ asleep \subseteq Thread /\ w # Server
  BY ThreadFacts, TypeFacts DEF ExecNotify, IInv
<1>2. at[w] \in Slot
  BY <1>1, AtFacts DEF IInv
<1>3. PICK s \in Slot : s = at[w]
  BY <1>2
<1>4. UNCHANGED <<wrklist, nwork, nworker, idleworker, wstate, spc, pfd, nfds, maxidx, disco,
                  preforks, asleep, aborted>>
      /\ UNCHANGED poolVars
  BY DEF ExecNotify, poolVars, loopVars
<1>5. draining' = draining \ {s}
  BY <1>3 DEF ExecNotify
<1>6. /\ pc'[w] = "execend" /\ at'[w] = s /\ goal'[w] = "none" /\ Others(w)
      /\ pc' \in [Thread -> AnyPc] /\ at' \in [Thread -> Slot \cup {NoSlot}]
      /\ goal' \in [Thread -> AnyGoal]
  <2>1. "execend" \in AnyPc /\ "none" \in AnyGoal
    BY DEF AnyPc, WorkerPc, AnyGoal
  <2> QED
    BY <1>1, <1>3, <2>1, GotoGives DEF ExecNotify
<1>7. PoolInv'
  BY <1>4, PoolStutters DEF IInv
<1>8. ServerTypeOK'
  BY <1>1, <1>4, <1>5, <1>6, <1>7, TypeFacts, TypeFactsPrime DEF PoolInv
<1>9. WellPlaced(w)'
  BY <1>1, <1>3, <1>4, <1>6, ThreadFacts DEF WellPlaced, WorkerPc, Places, IInv
<1>10. Local(w, s)
  BY <1>3, <1>4, <1>5, <1>6 DEF Local, OtherSlots
<1>11. NfdsCounts'
  BY <1>1, <1>4, <1>6, <1>10, NfdsLocal
<1>12. TableSound'
  BY <1>4 DEF TableSound, IInv
<1>13. SlotInv(s)'
  <2>1. SlotInv(s)
    BY InvBySlots
  <2>2. /\ Queued(s)' = Queued(s) /\ Working(s)' = Working(s)
        /\ Connected(s)' <=> Connected(s)
        /\ ExecItems(s)' = ExecItems(s) /\ ExecWorkers(s)' = ExecWorkers(s)
        /\ ExecServer(s)' <=> ExecServer(s)
    BY <1>1, <1>3, <1>4, <1>6, ThreadFacts
       DEF Queued, Working, Connected, ExecItems, ExecWorkers, ExecServer, Others
  <2>3. LivesAt(s)' /\ RefsAt(s)'
    BY <1>4, <2>1, <2>2 DEF SlotInv, LivesAt, RefsAt
  <2>4. ClosesAt(s)'
    BY <1>1, <1>3, <1>4, <1>6, <2>1 DEF SlotInv, ClosesAt, Others
  <2>5. EmptyAt(s)'
    BY <1>1, <1>3, <1>4, <1>5, <1>6, <2>1 DEF SlotInv, EmptyAt, Others
  <2>6. RespAt(s)'
    <3>1. \A r \in spc[s].respwait : r.who \in Thread /\ r.who # w
      BY <1>1, <2>1, RespFacts, ThreadFacts DEF SlotInv, RespAt, Asking
    <3> QED
      BY <1>4, <1>6, <2>1, <3>1, ThreadFacts DEF SlotInv, RespAt, Asking, Others
  <2>7. SendAt(s)'
    BY <1>1, <1>4, <1>6, <2>1 DEF SlotInv, SendAt, Others
  <2>8. AnswersAt(s)'
    BY <1>4, <2>1 DEF SlotInv, AnswersAt
  <2>9. SleepersAt(s)'
    BY <1>1, <1>4, <1>6, <2>1 DEF SlotInv, SleepersAt, Others
  <2>10. OnceAt(s)'
    BY <2>1, <2>2 DEF SlotInv, OnceAt
  <2>11. MarkedAt(s)'
    BY <1>1, <1>3, <1>4, <1>5, <1>6, <2>1, <2>2, ThreadFacts
       DEF SlotInv, MarkedAt, OnceAt, ExecWorkers, ExecNone, ServerOnLwp, Others
  <2>13. ServedAt(s)'
    BY <1>1, <1>4, <1>6, <2>1, ThreadFacts DEF SlotInv, ServedAt, Others
  <2> QED
    BY <2>3, <2>4, <2>5, <2>6, <2>7, <2>8, <2>9, <2>10, <2>11, <2>13 DEF SlotInv
<1> QED
  BY <1>1, <1>4, <1>7, <1>8, <1>9, <1>10, <1>11, <1>12, <1>13, LocalKeepsInv

(* serv_handleexec() is over: ExecEnd(). *)
LEMMA ExecEndKeepsInv ==
  ASSUME IInv, NEW w \in Worker, ExecEnd(w)
  PROVE  IInv'
<1>1. /\ w \in Thread /\ w # Server /\ pc[w] = "execend" /\ w \notin asleep
      /\ ServerTypeOK /\ asleep \subseteq Thread
  BY ThreadFacts, TypeFacts DEF ExecEnd, Places, IInv
<1>2. at[w] \in Slot /\ spc[at[w]] \in ClientRec
  BY <1>1, AtFacts, TypeFacts DEF IInv
<1>3. PICK s \in Slot : s = at[w]
  BY <1>2
<1>4. /\ UNCHANGED <<wrklist, nwork, nworker, idleworker, wstate, pfd, nfds, maxidx, disco,
                     preforks, asleep, draining, aborted>>
      /\ UNCHANGED poolVars
  BY DEF ExecEnd, poolVars, loopVars
<1>5. /\ spc'[s].refcnt = spc[s].refcnt /\ spc'[s].state = spc[s].state
      /\ spc'[s].ostatus = spc[s].ostatus /\ spc'[s].inexec = FALSE
      /\ spc'[s].nextreq = spc[s].nextreq /\ spc'[s].respwait = spc[s].respwait
      /\ spc'[s].mainlwp = spc[s].mainlwp /\ OtherSlots(s) /\ spc' \in [Slot -> ClientRec]
  <2>1. PICK d : d = [spc[s] EXCEPT !.inexec = FALSE]
    OBVIOUS
  <2>2. /\ d \in ClientRec /\ d.refcnt = spc[s].refcnt /\ d.state = spc[s].state
        /\ d.ostatus = spc[s].ostatus /\ d.inexec = FALSE /\ d.nextreq = spc[s].nextreq
        /\ d.respwait = spc[s].respwait /\ d.mainlwp = spc[s].mainlwp
    BY <1>2, <1>3, <2>1 DEF ClientRec
  <2>3. Becomes(s, d)
    BY <1>3, <2>1, Zenon DEF ExecEnd, Client
  <2> QED
    BY <1>1, <2>2, <2>3, BecomesGives
<1>6. /\ pc'[w] = "execreply" /\ at'[w] = s /\ goal'[w] = "none" /\ Others(w)
      /\ pc' \in [Thread -> AnyPc] /\ at' \in [Thread -> Slot \cup {NoSlot}]
      /\ goal' \in [Thread -> AnyGoal]
  <2>1. "execreply" \in AnyPc /\ "none" \in AnyGoal
    BY DEF AnyPc, WorkerPc, AnyGoal
  <2> QED
    BY <1>1, <1>3, <2>1, GotoGives DEF ExecEnd
<1>7. PoolInv'
  BY <1>4, PoolStutters DEF IInv
<1>8. ServerTypeOK'
  BY <1>1, <1>4, <1>5, <1>6, <1>7, TypeFacts, TypeFactsPrime DEF PoolInv
<1>9. WellPlaced(w)'
  BY <1>1, <1>3, <1>4, <1>6, ThreadFacts DEF WellPlaced, WorkerPc, Places, IInv
<1>10. Local(w, s)
  BY <1>3, <1>4, <1>5, <1>6 DEF Local, OtherSlots
<1>11. NfdsCounts'
  BY <1>1, <1>4, <1>5, <1>6, <1>10, NfdsLocal
<1>12. TableSound'
  BY <1>4 DEF TableSound, IInv
<1>13. SlotInv(s)'
  <2>1. SlotInv(s)
    BY InvBySlots
  <2>2. /\ Queued(s)' = Queued(s) /\ Working(s)' = Working(s)
        /\ Connected(s)' <=> Connected(s)
        /\ ExecItems(s)' = ExecItems(s) /\ ExecWorkers(s)' \subseteq ExecWorkers(s) \ {w}
        /\ ExecServer(s)' <=> ExecServer(s)
    BY <1>1, <1>3, <1>4, <1>6, ThreadFacts
       DEF Queued, Working, Connected, ExecItems, ExecWorkers, ExecServer, Others
  <2>3. w \in ExecWorkers(s)
    BY <1>1, <1>3 DEF ExecWorkers
  <2>4. ExecNone(s)'
    BY <2>1, <2>2, <2>3 DEF SlotInv, OnceAt, ExecNone
  <2>5. \A u \in Thread : u # Server /\ at[u] = s /\ pc[u] = "exec" => u = w
    BY <1>1, <1>3, <2>1, <2>3, ThreadFacts DEF SlotInv, OnceAt, ExecWorkers
  <2>6. \A u \in asleep : pc[u] = "exec" => u # Server
    BY DEF Places, ServerPc, IInv
  <2>7. LivesAt(s)'
    BY <1>1, <1>3, <1>4, <1>5, <1>6, <2>1, <2>2, ThreadFacts DEF SlotInv, LivesAt
  <2>8. RefsAt(s)'
    BY <1>1, <1>3, <1>4, <1>5, <1>6, <2>1, <2>2, ThreadFacts DEF SlotInv, RefsAt
  <2>9. ClosesAt(s)'
    BY <1>1, <1>3, <1>4, <1>5, <1>6, <2>1, <2>2, ThreadFacts DEF SlotInv, ClosesAt, Others
  <2>10. EmptyAt(s)'
    BY <1>1, <1>3, <1>4, <1>5, <1>6, <2>1, <2>2, ThreadFacts DEF SlotInv, EmptyAt, Others
  <2>11. RespAt(s)'
    <3>1. \A r \in spc[s].respwait : r.who \in Thread /\ r.who # w
      BY <1>1, <2>1, RespFacts, ThreadFacts DEF SlotInv, RespAt, Asking
    <3> QED
      BY <1>1, <1>4, <1>5, <1>6, <2>1, <3>1, ThreadFacts DEF SlotInv, RespAt, Asking, Others
  <2>12. SendAt(s)'
    BY <1>1, <1>3, <1>4, <1>5, <1>6, <2>1, <2>2, ThreadFacts DEF SlotInv, SendAt, Others
  <2>13. AnswersAt(s)'
    BY <1>1, <1>3, <1>4, <1>5, <1>6, <2>1, <2>2, ThreadFacts DEF SlotInv, AnswersAt
  <2>14. SleepersAt(s)'
    BY <1>1, <1>3, <1>4, <1>5, <1>6, <2>1, <2>5, <2>6 DEF SlotInv, SleepersAt, Others
  <2>15. OnceAt(s)'
    BY <2>4 DEF SlotInv, OnceAt, ExecNone
  <2>16. MarkedAt(s)'
    BY <1>5, <2>4 DEF SlotInv, MarkedAt, ExecNone
  <2>18. ServedAt(s)'
    BY <1>1, <1>3, <1>4, <1>5, <1>6, <2>1, <2>2, ThreadFacts DEF SlotInv, ServedAt, Others
  <2> QED
    BY <2>7, <2>8, <2>9, <2>10, <2>11, <2>12, <2>13, <2>14, <2>15, <2>16, <2>18 DEF SlotInv
<1> QED
  BY <1>1, <1>3, <1>4, <1>6, <1>7, <1>8, <1>9, <1>10, <1>11, <1>12, <1>13, LocalKeepsInv

(* waitresp() goes on: WaitResume(). *)
LEMMA WaitResumeKeepsInv ==
  ASSUME IInv, NEW w \in Worker, WaitResume(w)
  PROVE  IInv'
<1>1. /\ w \in Thread /\ w # Server /\ pc[w] = "wait" /\ w \notin asleep
      /\ ServerTypeOK /\ asleep \subseteq Thread
  BY ThreadFacts, TypeFacts DEF WaitResume, Places, IInv
<1>2. at[w] \in Slot /\ spc[at[w]] \in ClientRec
  BY <1>1, AtFacts, TypeFacts DEF IInv
<1>3. PICK s \in Slot : s = at[w]
  BY <1>2
<1>4. /\ UNCHANGED <<wrklist, nwork, nworker, idleworker, wstate, pfd, nfds, maxidx, disco,
                     preforks, asleep, draining, aborted>>
      /\ UNCHANGED poolVars
  BY DEF WaitResume, poolVars, loopVars
<1>5. /\ spc'[s].refcnt = spc[s].refcnt /\ spc'[s].state = spc[s].state
      /\ spc'[s].ostatus = spc[s].ostatus /\ spc'[s].inexec = spc[s].inexec
      /\ spc'[s].nextreq = spc[s].nextreq /\ spc'[s].respwait = NotOf(w, spc[s].respwait)
      /\ spc'[s].mainlwp = spc[s].mainlwp /\ OtherSlots(s) /\ spc' \in [Slot -> ClientRec]
  <2>1. PICK d : d = [spc[s] EXCEPT !.respwait = NotOf(w, @)]
    OBVIOUS
  <2>2. /\ d \in ClientRec /\ d.refcnt = spc[s].refcnt /\ d.state = spc[s].state
        /\ d.ostatus = spc[s].ostatus /\ d.inexec = spc[s].inexec /\ d.nextreq = spc[s].nextreq
        /\ d.respwait = NotOf(w, spc[s].respwait) /\ d.mainlwp = spc[s].mainlwp
    BY <1>2, <1>3, <2>1 DEF ClientRec, NotOf
  <2>3. Becomes(s, d)
    BY <1>3, <2>1, Zenon DEF WaitResume, Client
  <2> QED
    BY <1>1, <2>2, <2>3, BecomesGives
<1>6. /\ pc'[w] = "sys" /\ at'[w] = s /\ goal'[w] = "none" /\ Others(w)
      /\ pc' \in [Thread -> AnyPc] /\ at' \in [Thread -> Slot \cup {NoSlot}]
      /\ goal' \in [Thread -> AnyGoal]
  <2>1. "sys" \in AnyPc /\ "none" \in AnyGoal
    BY DEF AnyPc, WorkerPc, AnyGoal
  <2> QED
    BY <1>1, <1>3, <2>1, GotoGives DEF WaitResume
<1>7. PoolInv'
  BY <1>4, PoolStutters DEF IInv
<1>8. ServerTypeOK'
  BY <1>1, <1>4, <1>5, <1>6, <1>7, TypeFacts, TypeFactsPrime DEF PoolInv
<1>9. WellPlaced(w)'
  BY <1>1, <1>3, <1>4, <1>6, ThreadFacts DEF WellPlaced, WorkerPc, Places, IInv
<1>10. Local(w, s)
  BY <1>3, <1>4, <1>5, <1>6 DEF Local, OtherSlots
<1>11. NfdsCounts'
  BY <1>1, <1>4, <1>5, <1>6, <1>10, NfdsLocal
<1>12. TableSound'
  BY <1>4 DEF TableSound, IInv
<1>13. SlotInv(s)'
  <2>1. SlotInv(s)
    BY InvBySlots
  <2>2. /\ Queued(s)' = Queued(s) /\ Working(s)' = Working(s)
        /\ Connected(s)' <=> Connected(s)
        /\ ExecItems(s)' = ExecItems(s) /\ ExecWorkers(s)' = ExecWorkers(s)
        /\ ExecServer(s)' <=> ExecServer(s)
    BY <1>1, <1>3, <1>4, <1>6, ThreadFacts
       DEF Queued, Working, Connected, ExecItems, ExecWorkers, ExecServer, Others
  <2>3. LivesAt(s)'
    BY <1>1, <1>3, <1>4, <1>5, <1>6, <2>1, <2>2, ThreadFacts DEF SlotInv, LivesAt
  <2>4. RefsAt(s)'
    BY <1>1, <1>3, <1>4, <1>5, <1>6, <2>1, <2>2, ThreadFacts DEF SlotInv, RefsAt
  <2>5. ClosesAt(s)'
    BY <1>1, <1>3, <1>4, <1>5, <1>6, <2>1, <2>2, ThreadFacts DEF SlotInv, ClosesAt, Others
  <2>6. EmptyAt(s)'
    BY <1>1, <1>3, <1>4, <1>5, <1>6, <2>1, <2>2, ThreadFacts DEF SlotInv, EmptyAt, Others
  <2>7. RespAt(s)'
    <3>1. \A r \in spc'[s].respwait : r \in spc[s].respwait /\ r.who \in Thread /\ r.who # w
      BY <1>1, <1>5, RespFacts, ThreadFacts DEF NotOf
    <3>2. \A r \in spc[s].respwait : r.who # w => r \in spc'[s].respwait
      BY <1>5 DEF NotOf
    <3>3. \A v \in Worker : Asking(v)' => Asking(v) /\ v # w /\ at'[v] = at[v]
      BY <1>6, ThreadFacts DEF Asking, Others
    <3>4. \A v \in Thread : Asking(v) /\ v # w => Asking(v)' /\ at'[v] = at[v]
      BY <1>6 DEF Asking, Others
    <3> QED
      BY <2>1, <3>1, <3>2, <3>3, <3>4 DEF SlotInv, RespAt
  <2>8. SendAt(s)'
    BY <1>1, <1>3, <1>4, <1>5, <1>6, <2>1, <2>2, ThreadFacts DEF SlotInv, SendAt, Others
  <2>9. AnswersAt(s)'
    BY <1>1, <1>3, <1>4, <1>5, <1>6, <2>1, <2>2, ThreadFacts DEF SlotInv, AnswersAt, NotOf
  <2>10. SleepersAt(s)'
    BY <1>1, <1>3, <1>4, <1>5, <1>6, <2>1, <2>2, ThreadFacts DEF SlotInv, SleepersAt, NotOf, Others
  <2>11. OnceAt(s)'
    BY <1>1, <1>3, <1>4, <1>5, <1>6, <2>1, <2>2, ThreadFacts DEF SlotInv, OnceAt
  <2>12. MarkedAt(s)'
    BY <1>1, <1>3, <1>4, <1>5, <1>6, <2>1, <2>2, ThreadFacts
       DEF SlotInv, MarkedAt, OnceAt, ExecNone, ExecWorkers, ServerOnLwp, Others
  <2>14. ServedAt(s)'
    BY <1>1, <1>3, <1>4, <1>5, <1>6, <2>1, <2>2, ThreadFacts DEF SlotInv, ServedAt, Others
  <2> QED
    BY <2>3, <2>4, <2>5, <2>6, <2>7, <2>8, <2>9, <2>10, <2>11, <2>12, <2>14 DEF SlotInv
<1> QED
  BY <1>1, <1>3, <1>4, <1>6, <1>7, <1>8, <1>9, <1>10, <1>11, <1>12, <1>13, LocalKeepsInv

(* lwproc_newlwp() succeeds: the other case of Start(). *)
LEMMA StartSysKeepsInv ==
  ASSUME IInv, NEW w \in Worker, pc[w] = "start", Goto(w, "sys", at[w], "none"),
         UNCHANGED <<spc, asleep, poolVars, loopVars, preforks, draining, aborted>>
  PROVE  IInv'
<1>1. /\ w \in Thread /\ w # Server /\ pc[w] = "start" /\ w \notin asleep
      /\ ServerTypeOK /\ asleep \subseteq Thread
  BY ThreadFacts, TypeFacts DEF Places, IInv
<1>2. at[w] \in Slot /\ spc[at[w]] \in ClientRec
  BY <1>1, AtFacts, TypeFacts DEF IInv
<1>3. PICK s \in Slot : s = at[w]
  BY <1>2
<1>4. /\ UNCHANGED <<spc, wrklist, nwork, nworker, idleworker, wstate, pfd, nfds, maxidx, disco,
                     preforks, asleep, draining, aborted>>
      /\ UNCHANGED poolVars
  BY DEF poolVars, loopVars
<1>5. OtherSlots(s) /\ spc' \in [Slot -> ClientRec] /\ spc'[s] = spc[s]
  BY <1>1, <1>4, TypeFacts DEF OtherSlots
<1>6. /\ pc'[w] = "sys" /\ at'[w] = s /\ goal'[w] = "none" /\ Others(w)
      /\ pc' \in [Thread -> AnyPc] /\ at' \in [Thread -> Slot \cup {NoSlot}]
      /\ goal' \in [Thread -> AnyGoal]
  <2>1. "sys" \in AnyPc /\ "none" \in AnyGoal
    BY DEF AnyPc, WorkerPc, AnyGoal
  <2> QED
    BY <1>1, <1>3, <2>1, GotoGives
<1>7. PoolInv'
  BY <1>4, PoolStutters DEF IInv
<1>8. ServerTypeOK'
  BY <1>1, <1>4, <1>5, <1>6, <1>7, TypeFacts, TypeFactsPrime DEF PoolInv
<1>9. WellPlaced(w)'
  BY <1>1, <1>3, <1>4, <1>6, ThreadFacts DEF WellPlaced, WorkerPc, Places, IInv
<1>10. Local(w, s)
  BY <1>3, <1>4, <1>5, <1>6 DEF Local, OtherSlots
<1>11. NfdsCounts'
  BY <1>1, <1>4, <1>5, <1>6, <1>10, NfdsLocal
<1>12. TableSound'
  BY <1>4 DEF TableSound, IInv
<1>13. SlotInv(s)'
  <2>1. SlotInv(s)
    BY InvBySlots
  <2>2. /\ Queued(s)' = Queued(s) /\ Working(s)' = Working(s)
        /\ Connected(s)' <=> Connected(s)
        /\ ExecItems(s)' = ExecItems(s) /\ ExecWorkers(s)' = ExecWorkers(s)
        /\ ExecServer(s)' <=> ExecServer(s)
    BY <1>1, <1>3, <1>4, <1>6, ThreadFacts
       DEF Queued, Working, Connected, ExecItems, ExecWorkers, ExecServer, Others
  <2>3. LivesAt(s)'
    BY <1>1, <1>3, <1>4, <1>5, <1>6, <2>1, <2>2, ThreadFacts DEF SlotInv, LivesAt
  <2>4. RefsAt(s)'
    BY <1>1, <1>3, <1>4, <1>5, <1>6, <2>1, <2>2, ThreadFacts DEF SlotInv, RefsAt
  <2>5. ClosesAt(s)'
    BY <1>1, <1>3, <1>4, <1>5, <1>6, <2>1, <2>2, ThreadFacts DEF SlotInv, ClosesAt, Others
  <2>6. EmptyAt(s)'
    BY <1>1, <1>3, <1>4, <1>5, <1>6, <2>1, <2>2, ThreadFacts DEF SlotInv, EmptyAt, Others
  <2>7. RespAt(s)'
    <3>1. \A r \in spc[s].respwait : r.who \in Thread /\ r.who # w
      BY <1>1, <2>1, RespFacts, ThreadFacts DEF SlotInv, RespAt, Asking
    <3> QED
      BY <1>1, <1>4, <1>5, <1>6, <2>1, <3>1, ThreadFacts DEF SlotInv, RespAt, Asking, Others
  <2>8. SendAt(s)'
    BY <1>1, <1>3, <1>4, <1>5, <1>6, <2>1, <2>2, ThreadFacts DEF SlotInv, SendAt, Others
  <2>9. AnswersAt(s)'
    BY <1>1, <1>3, <1>4, <1>5, <1>6, <2>1, <2>2, ThreadFacts DEF SlotInv, AnswersAt
  <2>10. SleepersAt(s)'
    BY <1>1, <1>3, <1>4, <1>5, <1>6, <2>1, <2>2, ThreadFacts DEF SlotInv, SleepersAt, Others
  <2>11. OnceAt(s)'
    BY <1>1, <1>3, <1>4, <1>5, <1>6, <2>1, <2>2, ThreadFacts DEF SlotInv, OnceAt
  <2>12. MarkedAt(s)'
    BY <1>1, <1>3, <1>4, <1>5, <1>6, <2>1, <2>2, ThreadFacts
       DEF SlotInv, MarkedAt, OnceAt, ExecNone, ExecWorkers, ServerOnLwp, Others
  <2>14. ServedAt(s)'
    BY <1>1, <1>3, <1>4, <1>5, <1>6, <2>1, <2>2, ThreadFacts DEF SlotInv, ServedAt, Others
  <2> QED
    BY <2>3, <2>4, <2>5, <2>6, <2>7, <2>8, <2>9, <2>10, <2>11, <2>12, <2>14 DEF SlotInv
<1> QED
  BY <1>1, <1>3, <1>4, <1>6, <1>7, <1>8, <1>9, <1>10, <1>11, <1>12, <1>13, LocalKeepsInv

(* What holds references to a client is finite. *)
LEMMA HoldersFinite ==
  ASSUME NEW s, wrklist \in Seq(Job)
  PROVE  /\ IsFiniteSet(Working(s)) /\ IsFiniteSet(Queued(s))
         /\ Cardinality(Working(s)) \in Nat /\ Cardinality(Queued(s)) \in Nat
         /\ Cardinality(Working(s)) = 0 <=> Working(s) = {}
         /\ Cardinality(Queued(s)) = 0 <=> Queued(s) = {}
<1>1. Working(s) \in SUBSET Worker
  BY DEF Working
<1>2. IsFiniteSet(Working(s))
  BY <1>1, PoolAssumption, FS_Subset
<1>3. Queued(s) \in SUBSET (0 .. Len(wrklist))
  BY DEF Queued
<1>4. IsFiniteSet(0 .. Len(wrklist))
  BY FS_Interval
<1>5. IsFiniteSet(Queued(s))
  BY <1>3, <1>4, FS_Subset
<1> QED
  BY <1>2, <1>5, FS_CardinalityType, FS_EmptySet

(* Who works for a client counts: when there are two references, one of them
   the connection's, the other worker is alone. *)
LEMMA TwoRefsAlone ==
  ASSUME NEW s \in Slot, SlotInv(s), s \in pfd, wrklist \in Seq(Job),
         ~TooManyRefs(spc[s]), NEW w \in Working(s), NEW v \in Working(s)
  PROVE  v = w
<1>1. IsFiniteSet(Working(s))
  BY HoldersFinite
<1>2. Cardinality(Working(s)) \in Nat /\ Cardinality(Queued(s)) \in Nat
  BY HoldersFinite
<1>3. spc[s].refcnt = Cardinality(Queued(s)) + Cardinality(Working(s)) + 1
  BY <1>2 DEF SlotInv, RefsAt, Connected
<1>4. Cardinality(Working(s)) <= 1
  BY <1>2, <1>3 DEF TooManyRefs
<1>5. Cardinality(Working(s)) # 0
  BY HoldersFinite
<1>6. Cardinality(Working(s)) = 1
  BY <1>2, <1>4, <1>5
<1>7. \E x : Working(s) = {x}
  BY <1>1, <1>6, FS_Singleton
<1> QED
  BY <1>7

(* serv_handleexec() does not have to wait: the second case of ExecWait(). *)
LEMMA ExecGoesKeepsInv ==
  ASSUME IInv, NEW w \in Worker, pc[w] = "exec", w \notin asleep, ~TooManyRefs(Client(w)),
         Goto(w, "execlwp", at[w], "none"),
         UNCHANGED <<asleep, poolVars, spc, loopVars, preforks, draining, aborted>>
  PROVE  IInv'
<1>1. /\ w \in Thread /\ w # Server /\ pc[w] = "exec" /\ w \notin asleep
      /\ ServerTypeOK /\ asleep \subseteq Thread
  BY ThreadFacts, TypeFacts DEF Places, IInv
<1>2. at[w] \in Slot /\ spc[at[w]] \in ClientRec
  BY <1>1, AtFacts, TypeFacts DEF IInv
<1>3. PICK s \in Slot : s = at[w]
  BY <1>2
<1>4. /\ UNCHANGED <<spc, wrklist, nwork, nworker, idleworker, wstate, pfd, nfds, maxidx, disco,
                     preforks, asleep, draining, aborted>>
      /\ UNCHANGED poolVars
  BY DEF poolVars, loopVars
<1>5. OtherSlots(s) /\ spc' \in [Slot -> ClientRec] /\ spc'[s] = spc[s]
  BY <1>1, <1>4, TypeFacts DEF OtherSlots
<1>6. /\ pc'[w] = "execlwp" /\ at'[w] = s /\ goal'[w] = "none" /\ Others(w)
      /\ pc' \in [Thread -> AnyPc] /\ at' \in [Thread -> Slot \cup {NoSlot}]
      /\ goal' \in [Thread -> AnyGoal]
  <2>1. "execlwp" \in AnyPc /\ "none" \in AnyGoal
    BY DEF AnyPc, WorkerPc, AnyGoal
  <2> QED
    BY <1>1, <1>3, <2>1, GotoGives
<1>7. PoolInv'
  BY <1>4, PoolStutters DEF IInv
<1>8. ServerTypeOK'
  BY <1>1, <1>4, <1>5, <1>6, <1>7, TypeFacts, TypeFactsPrime DEF PoolInv
<1>9. WellPlaced(w)'
  BY <1>1, <1>3, <1>4, <1>6, ThreadFacts DEF WellPlaced, WorkerPc, Places, IInv
<1>10. Local(w, s)
  BY <1>3, <1>4, <1>5, <1>6 DEF Local, OtherSlots
<1>11. NfdsCounts'
  BY <1>1, <1>4, <1>5, <1>6, <1>10, NfdsLocal
<1>12. TableSound'
  BY <1>4 DEF TableSound, IInv
<1>13. SlotInv(s)'
  <2>1. SlotInv(s)
    BY InvBySlots
  <2>2. /\ Queued(s)' = Queued(s) /\ Working(s)' = Working(s)
        /\ Connected(s)' <=> Connected(s)
        /\ ExecItems(s)' = ExecItems(s) /\ ExecWorkers(s)' = ExecWorkers(s)
        /\ ExecServer(s)' <=> ExecServer(s)
    BY <1>1, <1>3, <1>4, <1>6, ThreadFacts
       DEF Queued, Working, Connected, ExecItems, ExecWorkers, ExecServer, Others
  <2>3. w \in ExecWorkers(s) /\ w \in Working(s)
    BY <1>1, <1>3 DEF ExecWorkers, Working
  <2>4. LivesAt(s)'
    BY <1>1, <1>3, <1>4, <1>5, <1>6, <2>1, <2>2, ThreadFacts DEF SlotInv, LivesAt
  <2>5. RefsAt(s)'
    BY <1>1, <1>3, <1>4, <1>5, <1>6, <2>1, <2>2, ThreadFacts DEF SlotInv, RefsAt
  <2>6. ClosesAt(s)'
    BY <1>1, <1>3, <1>4, <1>5, <1>6, <2>1, <2>2, ThreadFacts DEF SlotInv, ClosesAt, Others
  <2>7. EmptyAt(s)'
    BY <1>1, <1>3, <1>4, <1>5, <1>6, <2>1, <2>2, ThreadFacts DEF SlotInv, EmptyAt, Others
  <2>8. RespAt(s)'
    <3>1. \A r \in spc[s].respwait : r.who \in Thread /\ r.who # w
      BY <1>1, <2>1, RespFacts, ThreadFacts DEF SlotInv, RespAt, Asking
    <3> QED
      BY <1>1, <1>4, <1>5, <1>6, <2>1, <3>1, ThreadFacts DEF SlotInv, RespAt, Asking, Others
  <2>9. SendAt(s)'
    BY <1>1, <1>3, <1>4, <1>5, <1>6, <2>1, <2>2, ThreadFacts DEF SlotInv, SendAt, Others
  <2>10. AnswersAt(s)'
    BY <1>1, <1>3, <1>4, <1>5, <1>6, <2>1, <2>2, ThreadFacts DEF SlotInv, AnswersAt
  <2>11. SleepersAt(s)'
    BY <1>1, <1>3, <1>4, <1>5, <1>6, <2>1, <2>2, ThreadFacts DEF SlotInv, SleepersAt, Others
  <2>12. OnceAt(s)'
    BY <1>1, <1>3, <1>4, <1>5, <1>6, <2>1, <2>2, ThreadFacts DEF SlotInv, OnceAt
  <2>13. MarkedAt(s)'
    BY <1>1, <1>3, <1>4, <1>5, <1>6, <2>1, <2>2, <2>3, ThreadFacts
       DEF SlotInv, MarkedAt, OnceAt, ExecNone, ExecWorkers, ServerOnLwp, Others
  <2>15. ServedAt(s)'
    BY <1>1, <1>3, <1>4, <1>5, <1>6, <2>1, <2>2, ThreadFacts DEF SlotInv, ServedAt, Others
  <2> QED
    BY <2>4, <2>5, <2>6, <2>7, <2>8, <2>9, <2>10, <2>11, <2>12, <2>13, <2>15 DEF SlotInv
<1> QED
  BY <1>1, <1>3, <1>4, <1>6, <1>7, <1>8, <1>9, <1>10, <1>11, <1>12, <1>13, LocalKeepsInv

(* serv_handleexec() waits: the first case of ExecWait(). *)
LEMMA ExecSleepsKeepsInv ==
  ASSUME IInv, NEW w \in Worker, pc[w] = "exec", TooManyRefs(Client(w)), asleep' = asleep \cup {w},
         UNCHANGED <<pc, at, goal, poolVars, spc, loopVars, preforks, draining, aborted>>
  PROVE  IInv'
<1>1. /\ w \in Thread /\ w # Server /\ ServerTypeOK /\ asleep \subseteq Thread
  BY ThreadFacts, TypeFacts DEF IInv
<1>2. at[w] \in Slot /\ spc[at[w]] \in ClientRec
  BY <1>1, AtFacts, TypeFacts DEF IInv
<1>3. PICK s \in Slot : s = at[w]
  BY <1>2
<1>4. /\ UNCHANGED <<spc, wrklist, nwork, nworker, idleworker, wstate, pfd, nfds, maxidx, disco,
                     preforks, draining, aborted>>
      /\ UNCHANGED poolVars
  BY DEF poolVars, loopVars
<1>5. asleep' = asleep \cup {w}
  OBVIOUS
<1>6. UNCHANGED <<pc, at, goal>> /\ Others(w)
  BY DEF Others
<1>7. PoolInv'
  BY <1>4, PoolStutters DEF IInv
<1>8. ServerTypeOK'
  BY <1>1, <1>4, <1>5, <1>6, <1>7, TypeFacts, TypeFactsPrime DEF PoolInv
<1>9. WellPlaced(w)'
  BY <1>1, <1>3, <1>4, <1>6 DEF WellPlaced, Places, Goals, IInv
<1>10. Local(w, s)
  BY <1>3, <1>4, <1>5, <1>6 DEF Local, OtherSlots
<1>11. NfdsCounts'
  BY <1>1, <1>4, <1>6, <1>10, NfdsLocal
<1>12. TableSound'
  BY <1>4 DEF TableSound, IInv
<1>13. SlotInv(s)'
  <2>1. SlotInv(s)
    BY InvBySlots
  <2>2. /\ Queued(s)' = Queued(s) /\ Working(s)' = Working(s)
        /\ Connected(s)' <=> Connected(s)
        /\ ExecItems(s)' = ExecItems(s) /\ ExecWorkers(s)' = ExecWorkers(s)
        /\ ExecServer(s)' <=> ExecServer(s)
    BY <1>4, <1>6 DEF Queued, Working, Connected, ExecItems, ExecWorkers, ExecServer
  <2>3. w \in ExecWorkers(s)
    BY <1>3 DEF ExecWorkers
  <2>4. LivesAt(s)'
    BY <1>4, <1>6, <2>1, <2>2 DEF SlotInv, LivesAt
  <2>5. RefsAt(s)'
    BY <1>4, <1>6, <2>1, <2>2 DEF SlotInv, RefsAt
  <2>6. ClosesAt(s)'
    BY <1>4, <1>6, <2>1, <2>2 DEF SlotInv, ClosesAt, Others
  <2>7. EmptyAt(s)'
    BY <1>4, <1>6, <2>1, <2>2 DEF SlotInv, EmptyAt, Others
  <2>8. RespAt(s)'
    BY <1>4, <1>6, <2>1, <2>2 DEF SlotInv, RespAt, Asking, Others
  <2>9. SendAt(s)'
    BY <1>4, <1>5, <1>6, <2>1 DEF SlotInv, SendAt
  <2>10. AnswersAt(s)'
    BY <1>4, <1>6, <2>1, <2>2 DEF SlotInv, AnswersAt
  <2>11. SleepersAt(s)'
    <3>1. s \in pfd => spc[s].refcnt > 2 /\ spc[s].inexec
      BY <1>3, <2>1, <2>3 DEF SlotInv, MarkedAt, ExecNone, TooManyRefs, Client
    <3> QED
      BY <1>3, <1>4, <1>5, <1>6, <2>1, <3>1 DEF SlotInv, SleepersAt
  <2>12. OnceAt(s)'
    BY <1>4, <1>6, <2>1, <2>2 DEF SlotInv, OnceAt
  <2>13. MarkedAt(s)'
    BY <1>4, <1>6, <2>1, <2>2 DEF SlotInv, MarkedAt, ExecNone, ServerOnLwp
  <2>15. ServedAt(s)'
    BY <1>4, <1>6, <2>1, <2>2 DEF SlotInv, ServedAt, Others
  <2> QED
    BY <2>4, <2>5, <2>6, <2>7, <2>8, <2>9, <2>10, <2>11, <2>12, <2>13, <2>15 DEF SlotInv
<1> QED
  BY <1>1, <1>3, <1>4, <1>5, <1>7, <1>8, <1>9, <1>10, <1>11, <1>12, <1>13, LocalKeepsInv

-----------------------------------------------------------------------------
(* The poll loop begins something. *)

(* It is going to fork from the main lwp: Prefork(). *)
LEMMA PreforkKeepsInv ==
  ASSUME IInv, NEW s \in Slot, Prefork(s)
  PROVE  IInv'
<1>1. /\ Server \in Thread /\ pc[Server] = "poll" /\ at[Server] = NoSlot /\ Server \notin asleep
      /\ ServerTypeOK /\ asleep \subseteq Thread
  BY ThreadFacts, TypeFacts DEF Prefork, Readable, Places, IInv
<1>2. spc[s] \in ClientRec
  BY <1>1, TypeFacts
<1>3. s \in pfd /\ spc[s].state = "RUNNING"
  BY DEF Prefork, Readable
<1>4. /\ UNCHANGED <<spc, wrklist, nwork, nworker, idleworker, wstate, pfd, nfds, maxidx, disco,
                     preforks, asleep, draining, aborted>>
      /\ UNCHANGED poolVars
  BY DEF Prefork, poolVars, loopVars
<1>5. OtherSlots(s) /\ spc' \in [Slot -> ClientRec] /\ spc'[s] = spc[s]
  BY <1>1, <1>4, TypeFacts DEF OtherSlots
<1>6. /\ pc'[Server] = "prefork" /\ at'[Server] = s /\ goal'[Server] = "none" /\ Others(Server)
      /\ pc' \in [Thread -> AnyPc] /\ at' \in [Thread -> Slot \cup {NoSlot}]
      /\ goal' \in [Thread -> AnyGoal]
  <2>1. "prefork" \in AnyPc /\ "none" \in AnyGoal
    BY DEF AnyPc, ServerPc, AnyGoal
  <2> QED
    BY <1>1, <2>1, GotoGives DEF Prefork
<1>7. PoolInv'
  BY <1>4, PoolStutters DEF IInv
<1>8. ServerTypeOK'
  BY <1>1, <1>4, <1>5, <1>6, <1>7, TypeFacts, TypeFactsPrime DEF PoolInv
<1>9. WellPlaced(Server)'
  BY <1>1, <1>4, <1>6, ThreadFacts DEF WellPlaced, ServerPc
<1>10. Local(Server, s)
  BY <1>1, <1>4, <1>5, <1>6 DEF Local, OtherSlots
<1>11. NfdsCounts'
  BY <1>1, <1>4, <1>5, <1>6, <1>10, NfdsLocal
<1>12. TableSound'
  BY <1>4 DEF TableSound, IInv
<1>13. SlotInv(s)'
  <2>1. SlotInv(s)
    BY InvBySlots
  <2>2. /\ Queued(s)' = Queued(s) /\ Working(s)' = Working(s)
        /\ Connected(s)' <=> Connected(s)
        /\ ExecItems(s)' = ExecItems(s) /\ ExecWorkers(s)' = ExecWorkers(s)
        /\ ~ExecServer(s)' /\ ~ExecServer(s)
    BY <1>1, <1>3, <1>4, <1>6, ThreadFacts
       DEF Queued, Working, Connected, ExecItems, ExecWorkers, ExecServer, Others
  <2>3. ExecNone(s)
    BY <1>3, <2>1 DEF SlotInv, MarkedAt, Prefork
  <2>4. LivesAt(s)'
    BY <1>1, <1>3, <1>4, <1>5, <1>6, <2>1, <2>2, ThreadFacts DEF SlotInv, LivesAt
  <2>5. RefsAt(s)'
    BY <1>1, <1>3, <1>4, <1>5, <1>6, <2>1, <2>2, ThreadFacts DEF SlotInv, RefsAt
  <2>6. ClosesAt(s)'
    BY <1>1, <1>3, <1>4, <1>5, <1>6, <2>1, <2>2, ThreadFacts DEF SlotInv, ClosesAt, Others
  <2>7. EmptyAt(s)'
    BY <1>1, <1>3, <1>4, <1>5, <1>6, <2>1, <2>2, ThreadFacts DEF SlotInv, EmptyAt, Others
  <2>8. RespAt(s)'
    <3>1. \A r \in spc[s].respwait : r.who \in Thread /\ r.who # Server
      BY <1>1, RespFacts, ThreadFacts
    <3> QED
      BY <1>1, <1>4, <1>5, <1>6, <2>1, <3>1, ThreadFacts DEF SlotInv, RespAt, Asking, Others
  <2>9. SendAt(s)'
    BY <1>1, <1>3, <1>4, <1>5, <1>6, <2>1, <2>2, ThreadFacts DEF SlotInv, SendAt, Others
  <2>10. AnswersAt(s)'
    BY <1>1, <1>3, <1>4, <1>5, <1>6, <2>1, <2>2, ThreadFacts DEF SlotInv, AnswersAt
  <2>11. SleepersAt(s)'
    BY <1>1, <1>3, <1>4, <1>5, <1>6, <2>1, <2>2, ThreadFacts DEF SlotInv, SleepersAt, Others
  <2>12. OnceAt(s)'
    BY <1>1, <1>3, <1>4, <1>5, <1>6, <2>1, <2>2, ThreadFacts DEF SlotInv, OnceAt
  <2>13. MarkedAt(s)'
    BY <1>3, <1>4, <1>6, <2>1, <2>2, <2>3 DEF SlotInv, MarkedAt, ExecNone
  <2>15. ServedAt(s)'
    BY <1>1, <1>3, <1>4, <1>5, <1>6, <2>1, <2>2, ThreadFacts DEF SlotInv, ServedAt, Others
  <2> QED
    BY <2>4, <2>5, <2>6, <2>7, <2>8, <2>9, <2>10, <2>11, <2>12, <2>13, <2>15 DEF SlotInv
<1> QED
  BY <1>1, <1>4, <1>7, <1>8, <1>9, <1>10, <1>11, <1>12, <1>13, LocalKeepsInv

(* It is going to schedule a system call: Syscall(). *)
LEMMA SyscallKeepsInv ==
  ASSUME IInv, NEW s \in Slot, Syscall(s)
  PROVE  IInv'
<1>1. /\ Server \in Thread /\ pc[Server] = "poll" /\ at[Server] = NoSlot /\ Server \notin asleep
      /\ ServerTypeOK /\ asleep \subseteq Thread
  BY ThreadFacts, TypeFacts DEF Syscall, Readable, Places, IInv
<1>2. spc[s] \in ClientRec
  BY <1>1, TypeFacts
<1>3. s \in pfd /\ spc[s].state = "RUNNING"
  BY DEF Syscall, Readable
<1>4. /\ UNCHANGED <<spc, wrklist, nwork, nworker, idleworker, wstate, pfd, nfds, maxidx, disco,
                     preforks, asleep, draining, aborted>>
      /\ UNCHANGED poolVars
  BY DEF Syscall, poolVars, loopVars
<1>5. OtherSlots(s) /\ spc' \in [Slot -> ClientRec] /\ spc'[s] = spc[s]
  BY <1>1, <1>4, TypeFacts DEF OtherSlots
<1>6. /\ pc'[Server] = "sched" /\ at'[Server] = s /\ goal'[Server] = "syscall" /\ Others(Server)
      /\ pc' \in [Thread -> AnyPc] /\ at' \in [Thread -> Slot \cup {NoSlot}]
      /\ goal' \in [Thread -> AnyGoal]
  <2>1. "sched" \in AnyPc /\ "syscall" \in AnyGoal
    BY DEF AnyPc, ServerPc, AnyGoal
  <2> QED
    BY <1>1, <2>1, GotoGives DEF Syscall
<1>7. PoolInv'
  BY <1>4, PoolStutters DEF IInv
<1>8. ServerTypeOK'
  BY <1>1, <1>4, <1>5, <1>6, <1>7, TypeFacts, TypeFactsPrime DEF PoolInv
<1>9. WellPlaced(Server)'
  BY <1>1, <1>4, <1>6, ThreadFacts DEF WellPlaced, ServerPc
<1>10. Local(Server, s)
  BY <1>1, <1>4, <1>5, <1>6 DEF Local, OtherSlots
<1>11. NfdsCounts'
  BY <1>1, <1>4, <1>5, <1>6, <1>10, NfdsLocal
<1>12. TableSound'
  BY <1>4 DEF TableSound, IInv
<1>13. SlotInv(s)'
  <2>1. SlotInv(s)
    BY InvBySlots
  <2>2. /\ Queued(s)' = Queued(s) /\ Working(s)' = Working(s)
        /\ Connected(s)' <=> Connected(s)
        /\ ExecItems(s)' = ExecItems(s) /\ ExecWorkers(s)' = ExecWorkers(s)
        /\ ~ExecServer(s)' /\ ~ExecServer(s)
    BY <1>1, <1>3, <1>4, <1>6, ThreadFacts
       DEF Queued, Working, Connected, ExecItems, ExecWorkers, ExecServer, Others
  <2>3. LivesAt(s)'
    BY <1>1, <1>3, <1>4, <1>5, <1>6, <2>1, <2>2, ThreadFacts DEF SlotInv, LivesAt
  <2>4. RefsAt(s)'
    BY <1>1, <1>3, <1>4, <1>5, <1>6, <2>1, <2>2, ThreadFacts DEF SlotInv, RefsAt
  <2>5. ClosesAt(s)'
    BY <1>1, <1>3, <1>4, <1>5, <1>6, <2>1, <2>2, ThreadFacts DEF SlotInv, ClosesAt, Others
  <2>6. EmptyAt(s)'
    BY <1>1, <1>3, <1>4, <1>5, <1>6, <2>1, <2>2, ThreadFacts DEF SlotInv, EmptyAt, Others
  <2>7. RespAt(s)'
    <3>1. \A r \in spc[s].respwait : r.who \in Thread /\ r.who # Server
      BY <1>1, RespFacts, ThreadFacts
    <3> QED
      BY <1>1, <1>4, <1>5, <1>6, <2>1, <3>1, ThreadFacts DEF SlotInv, RespAt, Asking, Others
  <2>8. SendAt(s)'
    BY <1>1, <1>3, <1>4, <1>5, <1>6, <2>1, <2>2, ThreadFacts DEF SlotInv, SendAt, Others
  <2>9. AnswersAt(s)'
    BY <1>1, <1>3, <1>4, <1>5, <1>6, <2>1, <2>2, ThreadFacts DEF SlotInv, AnswersAt
  <2>10. SleepersAt(s)'
    BY <1>1, <1>3, <1>4, <1>5, <1>6, <2>1, <2>2, ThreadFacts DEF SlotInv, SleepersAt, Others
  <2>11. OnceAt(s)'
    BY <1>1, <1>3, <1>4, <1>5, <1>6, <2>1, <2>2, ThreadFacts DEF SlotInv, OnceAt
  <2>12. MarkedAt(s)'
    BY <1>1, <1>3, <1>4, <1>5, <1>6, <2>1, <2>2, ThreadFacts
       DEF SlotInv, MarkedAt, OnceAt, ExecNone, ExecWorkers, ServerOnLwp, Others
  <2>14. ServedAt(s)'
    BY <1>1, <1>3, <1>4, <1>5, <1>6, <2>1, <2>2, ThreadFacts DEF SlotInv, ServedAt, Others
  <2> QED
    BY <2>3, <2>4, <2>5, <2>6, <2>7, <2>8, <2>9, <2>10, <2>11, <2>12, <2>14 DEF SlotInv
<1> QED
  BY <1>1, <1>4, <1>7, <1>8, <1>9, <1>10, <1>11, <1>12, <1>13, LocalKeepsInv

(* It marks an exec: Exec(). *)
LEMMA ExecKeepsInv ==
  ASSUME IInv, NEW s \in Slot, Exec(s)
  PROVE  IInv'
<1>1. /\ Server \in Thread /\ pc[Server] = "poll" /\ at[Server] = NoSlot /\ Server \notin asleep
      /\ ServerTypeOK /\ asleep \subseteq Thread
  BY ThreadFacts, TypeFacts DEF Exec, Readable, Places, IInv
<1>2. spc[s] \in ClientRec
  BY <1>1, TypeFacts
<1>3. s \in pfd /\ spc[s].state = "RUNNING"
  BY DEF Exec, Readable
<1>4. /\ UNCHANGED <<wrklist, nwork, nworker, idleworker, wstate, pfd, nfds, maxidx, disco,
                     preforks, asleep, draining, aborted>>
      /\ UNCHANGED poolVars
  BY DEF Exec, poolVars, loopVars
<1>5. /\ spc'[s].refcnt = spc[s].refcnt /\ spc'[s].state = spc[s].state
      /\ spc'[s].ostatus = spc[s].ostatus /\ spc'[s].inexec = TRUE
      /\ spc'[s].nextreq = spc[s].nextreq /\ spc'[s].respwait = spc[s].respwait
      /\ spc'[s].mainlwp = spc[s].mainlwp /\ OtherSlots(s) /\ spc' \in [Slot -> ClientRec]
  <2>1. PICK d : d = [spc[s] EXCEPT !.inexec = TRUE]
    OBVIOUS
  <2>2. /\ d \in ClientRec /\ d.refcnt = spc[s].refcnt /\ d.state = spc[s].state
        /\ d.ostatus = spc[s].ostatus /\ d.inexec = TRUE /\ d.nextreq = spc[s].nextreq
        /\ d.respwait = spc[s].respwait /\ d.mainlwp = spc[s].mainlwp
    BY <1>2, <1>3, <2>1 DEF ClientRec
  <2>3. Becomes(s, d)
    BY <1>3, <2>1, Zenon DEF Exec, Client
  <2> QED
    BY <1>1, <2>2, <2>3, BecomesGives
<1>6. /\ pc'[Server] = "lwpexit" /\ at'[Server] = s /\ goal'[Server] = "exec" /\ Others(Server)
      /\ pc' \in [Thread -> AnyPc] /\ at' \in [Thread -> Slot \cup {NoSlot}]
      /\ goal' \in [Thread -> AnyGoal]
  <2>1. "lwpexit" \in AnyPc /\ "exec" \in AnyGoal
    BY DEF AnyPc, ServerPc, AnyGoal
  <2> QED
    BY <1>1, <2>1, GotoGives DEF Exec
<1>7. PoolInv'
  BY <1>4, PoolStutters DEF IInv
<1>8. ServerTypeOK'
  BY <1>1, <1>4, <1>5, <1>6, <1>7, TypeFacts, TypeFactsPrime DEF PoolInv
<1>9. WellPlaced(Server)'
  BY <1>1, <1>4, <1>6, ThreadFacts DEF WellPlaced, ServerPc
<1>10. Local(Server, s)
  BY <1>1, <1>4, <1>5, <1>6 DEF Local, OtherSlots
<1>11. NfdsCounts'
  BY <1>1, <1>4, <1>5, <1>6, <1>10, NfdsLocal
<1>12. TableSound'
  BY <1>4 DEF TableSound, IInv
<1>13. SlotInv(s)'
  <2>1. SlotInv(s)
    BY InvBySlots
  <2>2. /\ Queued(s)' = Queued(s) /\ Working(s)' = Working(s)
        /\ Connected(s)' <=> Connected(s)
        /\ ExecItems(s)' = ExecItems(s) /\ ExecWorkers(s)' = ExecWorkers(s)
        /\ ~ExecServer(s)
    BY <1>1, <1>3, <1>4, <1>6, ThreadFacts
       DEF Queued, Working, Connected, ExecItems, ExecWorkers, ExecServer, Others
  <2>3. ExecNone(s)
    BY <1>3, <2>1 DEF SlotInv, MarkedAt, Exec
  <2>4. LivesAt(s)'
    BY <1>1, <1>3, <1>4, <1>5, <1>6, <2>1, <2>2, ThreadFacts DEF SlotInv, LivesAt
  <2>5. RefsAt(s)'
    BY <1>1, <1>3, <1>4, <1>5, <1>6, <2>1, <2>2, ThreadFacts DEF SlotInv, RefsAt
  <2>6. ClosesAt(s)'
    BY <1>1, <1>3, <1>4, <1>5, <1>6, <2>1, <2>2, ThreadFacts DEF SlotInv, ClosesAt, Others
  <2>7. EmptyAt(s)'
    BY <1>1, <1>3, <1>4, <1>5, <1>6, <2>1, <2>2, ThreadFacts DEF SlotInv, EmptyAt, Others
  <2>8. RespAt(s)'
    <3>1. \A r \in spc[s].respwait : r.who \in Thread /\ r.who # Server
      BY <1>1, RespFacts, ThreadFacts
    <3> QED
      BY <1>1, <1>4, <1>5, <1>6, <2>1, <3>1, ThreadFacts DEF SlotInv, RespAt, Asking, Others
  <2>9. SendAt(s)'
    BY <1>1, <1>3, <1>4, <1>5, <1>6, <2>1, <2>2, ThreadFacts DEF SlotInv, SendAt, Others
  <2>10. AnswersAt(s)'
    BY <1>1, <1>3, <1>4, <1>5, <1>6, <2>1, <2>2, ThreadFacts DEF SlotInv, AnswersAt
  <2>11. SleepersAt(s)'
    BY <1>1, <1>3, <1>4, <1>5, <1>6, <2>1, <2>2, ThreadFacts DEF SlotInv, SleepersAt, Others
  <2>12. OnceAt(s)'
    BY <2>2, <2>3 DEF SlotInv, OnceAt, ExecNone
  <2>13. MarkedAt(s)'
    BY <1>3, <1>4, <1>5, <1>6, <2>1, <2>2, <2>3, ThreadFacts
       DEF SlotInv, MarkedAt, ExecNone, ServerOnLwp
  <2>15. ServedAt(s)'
    BY <1>1, <1>3, <1>4, <1>5, <1>6, <2>1, <2>2, ThreadFacts DEF SlotInv, ServedAt, Others
  <2> QED
    BY <2>4, <2>5, <2>6, <2>7, <2>8, <2>9, <2>10, <2>11, <2>12, <2>13, <2>15 DEF SlotInv
<1> QED
  BY <1>1, <1>4, <1>7, <1>8, <1>9, <1>10, <1>11, <1>12, <1>13, LocalKeepsInv

-----------------------------------------------------------------------------
(* It goes on with it. *)

(* The lwps are told to leave: LwpExit(). *)
LEMMA LwpExitKeepsInv ==
  ASSUME IInv, LwpExit
  PROVE  IInv'
<1>1. /\ Server \in Thread /\ pc[Server] = "lwpexit" /\ Server \notin asleep
      /\ ServerTypeOK /\ asleep \subseteq Thread
  BY ThreadFacts, TypeFacts DEF LwpExit, Places, IInv
<1>2. at[Server] \in Slot /\ spc[at[Server]] \in ClientRec
  BY <1>1, AtFacts, TypeFacts DEF IInv
<1>3. PICK s \in Slot : s = at[Server]
  BY <1>2
<1>4. /\ UNCHANGED <<spc, wrklist, nwork, nworker, idleworker, wstate, pfd, nfds, maxidx, disco,
                     preforks, asleep, aborted>>
      /\ UNCHANGED poolVars
  BY DEF LwpExit, poolVars, loopVars
<1>5. /\ draining' = draining \cup {s}
      /\ OtherSlots(s) /\ spc' \in [Slot -> ClientRec] /\ spc'[s] = spc[s]
  BY <1>1, <1>3, <1>4, TypeFacts DEF LwpExit, OtherSlots
<1>6. /\ pc'[Server] = (IF goal[Server] = "disco" THEN "zero" ELSE "sched") /\ at'[Server] = s /\ goal'[Server] = goal[Server]
      /\ Others(Server)
      /\ pc' \in [Thread -> AnyPc] /\ at' \in [Thread -> Slot \cup {NoSlot}]
      /\ goal' \in [Thread -> AnyGoal]
  <2>1. (IF goal[Server] = "disco" THEN "zero" ELSE "sched") \in AnyPc /\ goal[Server] \in AnyGoal
    BY <1>1, TypeFacts DEF AnyPc, ServerPc, AnyGoal
  <2> QED
    BY <1>1, <1>3, <2>1, GotoGives DEF LwpExit
<1>7. PoolInv'
  BY <1>4, PoolStutters DEF IInv
<1>8. ServerTypeOK'
  BY <1>1, <1>4, <1>5, <1>6, <1>7, TypeFacts, TypeFactsPrime DEF PoolInv
<1>9. WellPlaced(Server)'
  BY <1>1, <1>3, <1>4, <1>6, ThreadFacts DEF WellPlaced, ServerPc, Goals, IInv
<1>10. Local(Server, s)
  BY <1>3, <1>4, <1>5, <1>6 DEF Local, OtherSlots
<1>11. NfdsCounts'
  BY <1>1, <1>4, <1>5, <1>6, <1>10, NfdsLocal
<1>12. TableSound'
  BY <1>4 DEF TableSound, IInv
<1>13. SlotInv(s)'
  <2>1. SlotInv(s)
    BY InvBySlots
  <2>2. /\ Queued(s)' = Queued(s) /\ Working(s)' = Working(s)
        /\ Connected(s)' <=> Connected(s)
        /\ ExecItems(s)' = ExecItems(s) /\ ExecWorkers(s)' = ExecWorkers(s)
        /\ ExecServer(s)' <=> ExecServer(s)
    <3>1. Queued(s)' = Queued(s) /\ Working(s)' = Working(s)
      BY <1>1, <1>3, <1>4, <1>6, ThreadFacts DEF Queued, Working, Others
    <3>2. Connected(s)' <=> Connected(s)
      BY <1>1, <1>3, <1>4, <1>6, <2>1 DEF Connected, SlotInv, ServedAt, Goals, IInv
    <3>3. ExecItems(s)' = ExecItems(s) /\ ExecWorkers(s)' = ExecWorkers(s)
      BY <1>1, <1>3, <1>4, <1>6, ThreadFacts DEF ExecItems, ExecWorkers, Others
    <3>4. ExecServer(s)' <=> ExecServer(s)
      BY <1>1, <1>3, <1>6 DEF ExecServer, Goals, IInv
    <3> QED
      BY <3>1, <3>2, <3>3, <3>4
  <2>3. LivesAt(s)'
    BY <1>1, <1>3, <1>4, <1>5, <1>6, <2>1, <2>2, ThreadFacts DEF SlotInv, LivesAt
  <2>4. RefsAt(s)'
    BY <1>1, <1>3, <1>4, <1>5, <1>6, <2>1, <2>2, ThreadFacts DEF SlotInv, RefsAt
  <2>5. ClosesAt(s)'
    BY <1>1, <1>3, <1>4, <1>5, <1>6, <2>1, <2>2, ThreadFacts DEF SlotInv, ClosesAt, Others
  <2>6. EmptyAt(s)'
    BY <1>1, <1>3, <1>4, <1>5, <1>6, <2>1, <2>2, ThreadFacts DEF SlotInv, EmptyAt, Others
  <2>7. RespAt(s)'
    <3>1. \A r \in spc[s].respwait : r.who \in Thread /\ r.who # Server
      BY <1>1, RespFacts, ThreadFacts
    <3> QED
      BY <1>1, <1>4, <1>5, <1>6, <2>1, <3>1, ThreadFacts DEF SlotInv, RespAt, Asking, Others
  <2>8. SendAt(s)'
    BY <1>1, <1>3, <1>4, <1>5, <1>6, <2>1, <2>2, ThreadFacts DEF SlotInv, SendAt, Others
  <2>9. AnswersAt(s)'
    BY <1>1, <1>3, <1>4, <1>5, <1>6, <2>1, <2>2, ThreadFacts DEF SlotInv, AnswersAt
  <2>10. SleepersAt(s)'
    BY <1>1, <1>3, <1>4, <1>5, <1>6, <2>1, <2>2, ThreadFacts DEF SlotInv, SleepersAt, Others
  <2>11. OnceAt(s)'
    BY <1>1, <1>3, <1>4, <1>5, <1>6, <2>1, <2>2, ThreadFacts DEF SlotInv, OnceAt
  <2>12. MarkedAt(s)'
    <3>1. goal[Server] \in {"disco", "exec"} /\ ~ServerOnLwp'
      BY <1>1, <1>6 DEF ServerOnLwp, Goals, IInv
    <3>2. s \in pfd <=> goal[Server] = "exec"
      BY <1>1, <1>3, <2>1 DEF SlotInv, ServedAt
    <3> QED
      BY <1>3, <1>4, <1>5, <1>6, <2>1, <2>2, <3>1, <3>2 DEF SlotInv, MarkedAt, ExecNone
  <2>14. ServedAt(s)'
    <3>1. goal[Server] \in {"disco", "exec"}
      BY <1>1 DEF Goals, IInv
    <3> QED
      BY <1>1, <1>3, <1>4, <1>5, <1>6, <2>1, <3>1 DEF SlotInv, ServedAt
  <2> QED
    BY <2>3, <2>4, <2>5, <2>6, <2>7, <2>8, <2>9, <2>10, <2>11, <2>12, <2>14 DEF SlotInv
<1> QED
  BY <1>1, <1>3, <1>4, <1>6, <1>7, <1>8, <1>9, <1>10, <1>11, <1>12, <1>13, LocalKeepsInv

(* The memset of serv_handledisco(): Zero(). *)
LEMMA ZeroKeepsInv ==
  ASSUME IInv, Zero
  PROVE  IInv'
<1>1. /\ Server \in Thread /\ pc[Server] = "zero" /\ Server \notin asleep
      /\ ServerTypeOK /\ asleep \subseteq Thread
  BY ThreadFacts, TypeFacts DEF Zero, Places, IInv
<1>2. at[Server] \in Slot /\ spc[at[Server]] \in ClientRec
  BY <1>1, AtFacts, TypeFacts DEF IInv
<1>3. PICK s \in Slot : s = at[Server]
  BY <1>2
<1>4. /\ UNCHANGED <<wrklist, nwork, nworker, idleworker, wstate, pfd, nfds, maxidx, disco,
                     preforks, asleep, draining, aborted>>
      /\ UNCHANGED poolVars
  BY DEF Zero, poolVars, loopVars
<1>5. /\ spc'[s].refcnt = spc[s].refcnt /\ spc'[s].state = spc[s].state
      /\ spc'[s].ostatus = "FREE" /\ spc'[s].inexec = FALSE /\ spc'[s].nextreq = 0
      /\ spc'[s].respwait = spc[s].respwait /\ spc'[s].mainlwp = spc[s].mainlwp /\ OtherSlots(s)
      /\ spc' \in [Slot -> ClientRec]
  <2>1. PICK d : d = [spc[s] EXCEPT !.ostatus = "FREE", !.inexec = FALSE, !.nextreq = 0]
    OBVIOUS
  <2>2. /\ d \in ClientRec /\ d.refcnt = spc[s].refcnt /\ d.state = spc[s].state
        /\ d.ostatus = "FREE" /\ d.inexec = FALSE /\ d.nextreq = 0 /\ d.respwait = spc[s].respwait
        /\ d.mainlwp = spc[s].mainlwp
    BY <1>2, <1>3, <2>1 DEF ClientRec
  <2>3. Becomes(s, d)
    BY <1>3, <2>1, Zenon DEF Zero, Zeroed, Client
  <2> QED
    BY <1>1, <2>2, <2>3, BecomesGives
<1>6. /\ pc'[Server] = "release" /\ at'[Server] = s /\ goal'[Server] = "none"
      /\ Others(Server)
      /\ pc' \in [Thread -> AnyPc] /\ at' \in [Thread -> Slot \cup {NoSlot}]
      /\ goal' \in [Thread -> AnyGoal]
  <2>1. "release" \in AnyPc /\ "none" \in AnyGoal
    BY <1>1, TypeFacts DEF AnyPc, ServerPc, AnyGoal
  <2> QED
    BY <1>1, <1>3, <2>1, GotoGives DEF Zero
<1>7. PoolInv'
  BY <1>4, PoolStutters DEF IInv
<1>8. ServerTypeOK'
  BY <1>1, <1>4, <1>5, <1>6, <1>7, TypeFacts, TypeFactsPrime DEF PoolInv
<1>9. WellPlaced(Server)'
  BY <1>1, <1>3, <1>4, <1>6, ThreadFacts DEF WellPlaced, ServerPc, Goals, IInv
<1>10. Local(Server, s)
  BY <1>3, <1>4, <1>5, <1>6 DEF Local, OtherSlots
<1>11. NfdsCounts'
  BY <1>1, <1>4, <1>5, <1>6, <1>10, NfdsLocal
<1>12. TableSound'
  BY <1>4 DEF TableSound, IInv
<1>13. SlotInv(s)'
  <2>1. SlotInv(s)
    BY InvBySlots
  <2>2. /\ Queued(s)' = Queued(s) /\ Working(s)' = Working(s)
        /\ Connected(s)' <=> Connected(s)
        /\ ExecItems(s)' = ExecItems(s) /\ ExecWorkers(s)' = ExecWorkers(s)
        /\ ExecServer(s)' <=> ExecServer(s)
    <3>1. Queued(s)' = Queued(s) /\ Working(s)' = Working(s)
      BY <1>1, <1>3, <1>4, <1>6, ThreadFacts DEF Queued, Working, Others
    <3>2. Connected(s)' <=> Connected(s)
      BY <1>1, <1>3, <1>4, <1>6, <2>1 DEF Connected, SlotInv, ServedAt
    <3>3. ExecItems(s)' = ExecItems(s) /\ ExecWorkers(s)' = ExecWorkers(s)
      BY <1>1, <1>3, <1>4, <1>6, ThreadFacts DEF ExecItems, ExecWorkers, Others
    <3>4. ExecServer(s)' <=> ExecServer(s)
      BY <1>1, <1>3, <1>6 DEF ExecServer, Goals, IInv
    <3> QED
      BY <3>1, <3>2, <3>3, <3>4
  <2>3. s \notin pfd
    BY <1>1, <1>3, <2>1 DEF SlotInv, ServedAt
  <2>4. LivesAt(s)'
    BY <1>1, <1>3, <1>4, <1>5, <1>6, <2>1, <2>2, ThreadFacts DEF SlotInv, LivesAt
  <2>5. RefsAt(s)'
    BY <1>1, <1>3, <1>4, <1>5, <1>6, <2>1, <2>2, ThreadFacts DEF SlotInv, RefsAt
  <2>6. ClosesAt(s)'
    BY <1>1, <1>3, <1>4, <1>5, <1>6, <2>1, <2>2, ThreadFacts DEF SlotInv, ClosesAt, Others
  <2>7. EmptyAt(s)'
    BY <1>1, <1>3, <1>4, <1>5, <1>6, <2>1, <2>2, ThreadFacts DEF SlotInv, EmptyAt, Others
  <2>8. RespAt(s)'
    <3>1. \A r \in spc[s].respwait : r.who \in Thread /\ r.who # Server
      BY <1>1, RespFacts, ThreadFacts
    <3> QED
      BY <1>1, <1>4, <1>5, <1>6, <2>1, <3>1, ThreadFacts DEF SlotInv, RespAt, Asking, Others
  <2>9. SendAt(s)'
    BY <1>1, <1>3, <1>4, <1>5, <1>6, <2>1, <2>2, ThreadFacts, <2>3 DEF SlotInv, SendAt
  <2>10. AnswersAt(s)'
    BY <1>1, <1>3, <1>4, <1>5, <1>6, <2>1, <2>2, ThreadFacts, <2>3 DEF SlotInv, AnswersAt
  <2>11. SleepersAt(s)'
    BY <1>1, <1>3, <1>4, <1>5, <1>6, <2>1, <2>2, ThreadFacts, <2>3 DEF SlotInv, SleepersAt, Others
  <2>12. OnceAt(s)'
    BY <1>1, <1>3, <1>4, <1>5, <1>6, <2>1, <2>2, ThreadFacts DEF SlotInv, OnceAt
  <2>13. MarkedAt(s)'
    BY <1>1, <1>3, <1>4, <1>5, <1>6, <2>1, <2>2, ThreadFacts, <2>3
       DEF SlotInv, MarkedAt, ExecNone, ServerOnLwp
  <2>15. ServedAt(s)'
    BY <1>1, <1>3, <1>4, <1>5, <1>6, <2>1, <2>2, ThreadFacts, <2>3 DEF SlotInv, ServedAt
  <2> QED
    BY <2>4, <2>5, <2>6, <2>7, <2>8, <2>9, <2>10, <2>11, <2>12, <2>13, <2>15 DEF SlotInv
<1> QED
  BY <1>1, <1>3, <1>4, <1>6, <1>7, <1>8, <1>9, <1>10, <1>11, <1>12, <1>13, LocalKeepsInv

(* schedulework() takes a reference: the first case of Schedule(). *)
LEMMA ScheduleKeepsInv ==
  ASSUME IInv, pc[Server] = "sched", Becomes(at[Server], Referenced(spc[at[Server]])),
         Goto(Server, "queue", at[Server], goal[Server]),
         UNCHANGED <<asleep, poolVars, loopVars, preforks, draining, aborted>>
  PROVE  IInv'
<1>1. /\ Server \in Thread /\ pc[Server] = "sched" /\ Server \notin asleep
      /\ ServerTypeOK /\ asleep \subseteq Thread
  BY ThreadFacts, TypeFacts DEF Places, IInv
<1>2. at[Server] \in Slot /\ spc[at[Server]] \in ClientRec
  BY <1>1, AtFacts, TypeFacts DEF IInv
<1>3. PICK s \in Slot : s = at[Server]
  BY <1>2
<1>4. /\ UNCHANGED <<wrklist, nwork, nworker, idleworker, wstate, pfd, nfds, maxidx, disco,
                     preforks, asleep, draining, aborted>>
      /\ UNCHANGED poolVars
  BY DEF poolVars, loopVars
<1>5. /\ spc'[s].refcnt = spc[s].refcnt + 1 /\ spc'[s].state = spc[s].state
      /\ spc'[s].ostatus = spc[s].ostatus /\ spc'[s].inexec = spc[s].inexec
      /\ spc'[s].nextreq = spc[s].nextreq /\ spc'[s].respwait = spc[s].respwait
      /\ spc'[s].mainlwp = spc[s].mainlwp /\ OtherSlots(s) /\ spc' \in [Slot -> ClientRec]
  <2>1. PICK d : d = Referenced(spc[s])
    OBVIOUS
  <2>2. /\ d \in ClientRec /\ d.refcnt = spc[s].refcnt + 1 /\ d.state = spc[s].state
        /\ d.ostatus = spc[s].ostatus /\ d.inexec = spc[s].inexec /\ d.nextreq = spc[s].nextreq
        /\ d.respwait = spc[s].respwait /\ d.mainlwp = spc[s].mainlwp
    BY <1>2, <1>3, <2>1 DEF ClientRec, Referenced
  <2>3. Becomes(s, d)
    BY <1>3, <2>1, Zenon
  <2> QED
    BY <1>1, <2>2, <2>3, BecomesGives
<1>6. /\ pc'[Server] = "queue" /\ at'[Server] = s /\ goal'[Server] = goal[Server]
      /\ Others(Server)
      /\ pc' \in [Thread -> AnyPc] /\ at' \in [Thread -> Slot \cup {NoSlot}]
      /\ goal' \in [Thread -> AnyGoal]
  <2>1. "queue" \in AnyPc /\ goal[Server] \in AnyGoal
    BY <1>1, TypeFacts DEF AnyPc, ServerPc, AnyGoal
  <2> QED
    BY <1>1, <1>3, <2>1, GotoGives
<1>7. PoolInv'
  BY <1>4, PoolStutters DEF IInv
<1>8. ServerTypeOK'
  BY <1>1, <1>4, <1>5, <1>6, <1>7, TypeFacts, TypeFactsPrime DEF PoolInv
<1>9. WellPlaced(Server)'
  BY <1>1, <1>3, <1>4, <1>6, ThreadFacts DEF WellPlaced, ServerPc, Goals, IInv
<1>10. Local(Server, s)
  BY <1>3, <1>4, <1>5, <1>6 DEF Local, OtherSlots
<1>11. NfdsCounts'
  BY <1>1, <1>4, <1>5, <1>6, <1>10, NfdsLocal
<1>12. TableSound'
  BY <1>4 DEF TableSound, IInv
<1>13. SlotInv(s)'
  <2>1. SlotInv(s)
    BY InvBySlots
  <2>2. /\ Queued(s)' = Queued(s) \cup {0} /\ 0 \notin Queued(s) /\ Working(s)' = Working(s)
        /\ ExecItems(s)' = ExecItems(s) /\ ExecWorkers(s)' = ExecWorkers(s)
        /\ ExecServer(s)' <=> ExecServer(s)
    <3>1. 0 \notin DOMAIN wrklist
      BY <1>1 DEF ServerTypeOK, PoolTypeOK
    <3>2. Queued(s)' = Queued(s) \cup {0} /\ 0 \notin Queued(s)
      BY <1>1, <1>3, <1>4, <1>6, <3>1 DEF Queued
    <3>3. Working(s)' = Working(s) /\ ExecWorkers(s)' = ExecWorkers(s)
      BY <1>6, ThreadFacts DEF Working, ExecWorkers, Others
    <3>4. ExecItems(s)' = ExecItems(s) /\ (ExecServer(s)' <=> ExecServer(s))
      BY <1>1, <1>3, <1>4, <1>6 DEF ExecItems, ExecServer, Goals, IInv
    <3> QED
      BY <3>2, <3>3, <3>4
  <2>3. s \in pfd /\ spc[s].state = "RUNNING" /\ spc[s].refcnt \in Nat
    BY <1>1, <1>3, <2>1, RespFacts DEF SlotInv, ServedAt
  <2>4. LivesAt(s)'
    BY <1>4, <1>5, <2>1, <2>3 DEF SlotInv, LivesAt
  <2>5. RefsAt(s)'
    <3>1. wrklist \in Seq(Job)
      BY <1>1 DEF ServerTypeOK, PoolTypeOK
    <3>2. Cardinality(Queued(s)') = Cardinality(Queued(s)) + 1
      BY <2>2, <3>1, HoldersFinite, FS_AddElement
    <3>3. Connected(s) /\ Connected(s)'
      BY <1>4, <2>3 DEF Connected
    <3>4. Cardinality(Queued(s)) \in Nat /\ Cardinality(Working(s)) \in Nat
      BY <3>1, HoldersFinite
    <3> QED
      BY <1>5, <2>1, <2>2, <3>2, <3>3, <3>4 DEF SlotInv, RefsAt
  <2>6. ClosesAt(s)'
    BY <1>4, <1>6, <2>1, <2>3 DEF SlotInv, ClosesAt, Others
  <2>7. EmptyAt(s)'
    BY <1>4, <2>3 DEF SlotInv, EmptyAt
  <2>8. RespAt(s)'
    <3>1. \A r \in spc[s].respwait : r.who \in Thread /\ r.who # Server
      BY <1>1, RespFacts, ThreadFacts
    <3> QED
      BY <1>1, <1>4, <1>5, <1>6, <2>1, <3>1, ThreadFacts DEF SlotInv, RespAt, Asking, Others
  <2>9. SendAt(s)'
    BY <1>1, <1>3, <1>4, <1>5, <1>6, <2>1, <2>2, ThreadFacts DEF SlotInv, SendAt, Others
  <2>10. AnswersAt(s)'
    BY <1>1, <1>3, <1>4, <1>5, <1>6, <2>1, <2>2, ThreadFacts DEF SlotInv, AnswersAt
  <2>11. SleepersAt(s)'
    BY <1>1, <1>3, <1>4, <1>5, <1>6, <2>1, <2>3 DEF SlotInv, SleepersAt, Others
  <2>12. OnceAt(s)'
    BY <1>1, <1>3, <1>4, <1>5, <1>6, <2>1, <2>2, ThreadFacts DEF SlotInv, OnceAt
  <2>13. MarkedAt(s)'
    <3>1. ~ServerOnLwp'
      BY <1>1, <1>6 DEF ServerOnLwp, Goals, IInv
    <3>2. \A w \in ExecWorkers(s) : pc'[w] = pc[w]
      BY <1>6, ThreadFacts DEF ExecWorkers, Others
    <3> QED
      BY <1>1, <1>4, <1>5, <2>1, <2>2, <2>3, <3>1, <3>2 DEF SlotInv, MarkedAt, ExecNone
  <2>15. ServedAt(s)'
    BY <1>1, <1>3, <1>4, <1>5, <1>6, <2>1, <2>3 DEF SlotInv, ServedAt
  <2> QED
    BY <2>4, <2>5, <2>6, <2>7, <2>8, <2>9, <2>10, <2>11, <2>12, <2>13, <2>15 DEF SlotInv
<1> QED
  BY <1>1, <1>3, <1>4, <1>6, <1>7, <1>8, <1>9, <1>10, <1>11, <1>12, <1>13, LocalKeepsInv

-----------------------------------------------------------------------------
(* Clients answer and go. *)

(* kickwaiter() gives an answer to who asked: Response(). *)
LEMMA ResponseKeepsInv ==
  ASSUME IInv, NEW s \in Slot, NEW n \in Nat, Response(s, n)
  PROVE  IInv'
<1>1. /\ Server \in Thread /\ pc[Server] = "poll" /\ at[Server] = NoSlot /\ Server \notin asleep
      /\ ServerTypeOK /\ asleep \subseteq Thread
  BY ThreadFacts, TypeFacts DEF Response, Readable, Places, IInv
<1>2. spc[s] \in ClientRec
  BY <1>1, TypeFacts
<1>3. PICK kicked : kicked = {r \in spc[s].respwait : r.reqno = n}
  OBVIOUS
<1>4. /\ UNCHANGED <<wrklist, nwork, nworker, idleworker, wstate, pfd, nfds, maxidx, disco,
                     preforks, draining, aborted, pc, at, goal>>
      /\ UNCHANGED poolVars /\ s \in pfd
  BY DEF Response, Readable, poolVars, loopVars
<1>5. /\ spc'[s].refcnt = spc[s].refcnt /\ spc'[s].state = spc[s].state
      /\ spc'[s].ostatus = spc[s].ostatus /\ spc'[s].inexec = spc[s].inexec
      /\ spc'[s].nextreq = spc[s].nextreq /\ spc'[s].respwait = Kicked(spc[s].respwait, n)
      /\ spc'[s].mainlwp = spc[s].mainlwp /\ OtherSlots(s) /\ spc' \in [Slot -> ClientRec]
  <2>1. Kicked(spc[s].respwait, n) \in SUBSET Respwait
    BY <1>1, RespFacts DEF Kicked, Respwait
  <2>2. PICK d : d = [spc[s] EXCEPT !.respwait = Kicked(@, n)]
    OBVIOUS
  <2>3. /\ d \in ClientRec /\ d.refcnt = spc[s].refcnt /\ d.state = spc[s].state
        /\ d.ostatus = spc[s].ostatus /\ d.inexec = spc[s].inexec /\ d.nextreq = spc[s].nextreq
        /\ d.respwait = Kicked(spc[s].respwait, n) /\ d.mainlwp = spc[s].mainlwp
    BY <1>2, <2>1, <2>2 DEF ClientRec
  <2>4. Becomes(s, d)
    BY <1>3, <2>2, Zenon DEF Response, Client
  <2> QED
    BY <1>1, <2>3, <2>4, BecomesGives
<1>6. /\ Others(Server) /\ asleep' = asleep \ Askers(kicked)
      /\ \A u \in Askers(kicked) : u \in Thread /\ at[u] = s /\ pc[u] = "wait"
  <2>1. SlotInv(s)
    BY InvBySlots
  <2> QED
    BY <1>3, <1>4, <2>1 DEF Response, Others, Askers, SlotInv, RespAt
<1>7. PoolInv'
  BY <1>4, PoolStutters DEF IInv
<1>8. ServerTypeOK'
  BY <1>1, <1>4, <1>5, <1>6, <1>7, TypeFacts, TypeFactsPrime DEF PoolInv
<1>9. WellPlaced(Server)'
  BY <1>1, <1>4, <1>6, ThreadFacts DEF WellPlaced, ServerPc, Goals, IInv
<1>10. Local(Server, s)
  BY <1>1, <1>4, <1>5, <1>6 DEF Local
<1>11. NfdsCounts'
  BY <1>1, <1>4, <1>5, <1>10, NfdsLocal
<1>12. TableSound'
  BY <1>4 DEF TableSound, IInv
<1>13. SlotInv(s)'
  <2>1. SlotInv(s)
    BY InvBySlots
  <2>2. /\ Queued(s)' = Queued(s) /\ Working(s)' = Working(s)
        /\ Connected(s)' <=> Connected(s)
        /\ ExecItems(s)' = ExecItems(s) /\ ExecWorkers(s)' = ExecWorkers(s)
        /\ ExecServer(s)' <=> ExecServer(s)
        /\ ServerOnLwp' <=> ServerOnLwp
    BY <1>4 DEF Queued, Working, Connected, ExecItems, ExecWorkers, ExecServer, ServerOnLwp
  <2>3. /\ \A q \in spc'[s].respwait : \E r \in spc[s].respwait :
              /\ q.who = r.who /\ q.reqno = r.reqno
              /\ q.done => r.done \/ r \in kicked
        /\ \A r \in spc[s].respwait : \E q \in spc'[s].respwait : q.who = r.who
    <3>1. \A r \in spc[s].respwait : r \in Respwait
      BY <1>1, RespFacts
    <3>2. \A r \in Respwait : [r EXCEPT !.done = TRUE].who = r.who
                             /\ [r EXCEPT !.done = TRUE].reqno = r.reqno
      BY DEF Respwait
    <3>3. \A r \in spc[s].respwait : r.reqno = n => r \in kicked
      BY <1>3
    <3>4. ASSUME NEW q \in spc'[s].respwait
          PROVE  \E r \in spc[s].respwait :
                     /\ q.who = r.who /\ q.reqno = r.reqno
                     /\ q.done => r.done \/ r \in kicked
      <4>1. PICK r \in spc[s].respwait : q = IF r.reqno = n THEN [r EXCEPT !.done = TRUE] ELSE r
        BY <1>5, <3>4 DEF Kicked
      <4>2. CASE r.reqno = n
        BY <3>1, <3>2, <3>3, <4>1, <4>2
      <4>3. CASE r.reqno # n
        BY <4>1, <4>3
      <4> QED
        BY <4>2, <4>3
    <3>5. ASSUME NEW r \in spc[s].respwait
          PROVE  \E q \in spc'[s].respwait : q.who = r.who
      <4>1. (IF r.reqno = n THEN [r EXCEPT !.done = TRUE] ELSE r) \in spc'[s].respwait
        BY <1>5 DEF Kicked
      <4>2. CASE r.reqno = n
        BY <3>1, <3>2, <4>1, <4>2
      <4>3. CASE r.reqno # n
        BY <4>1, <4>3
      <4> QED
        BY <4>2, <4>3
    <3> QED
      BY <3>4, <3>5
  <2>4. LivesAt(s)'
    BY <1>4, <1>5, <2>1, <2>2 DEF SlotInv, LivesAt
  <2>5. RefsAt(s)'
    BY <1>4, <1>5, <2>1, <2>2 DEF SlotInv, RefsAt
  <2>6. ClosesAt(s)'
    BY <1>4, <1>5, <2>1, <2>2 DEF SlotInv, ClosesAt, Others
  <2>7. EmptyAt(s)'
    BY <1>4, <1>5, <2>1, <2>2 DEF SlotInv, EmptyAt, Others
  <2>8. RespAt(s)'
    <3>1. \A v \in Thread : Asking(v)' <=> Asking(v)
      BY <1>4 DEF Asking
    <3>2. \A r \in spc[s].respwait : r.who \in Thread
      BY <1>1, RespFacts, ThreadFacts
    <3> QED
      BY <1>4, <2>1, <2>3, <3>1, <3>2, ThreadFacts DEF SlotInv, RespAt
  <2>9. SendAt(s)'
    BY <1>4, <1>5, <1>6, <2>1 DEF SlotInv, SendAt
  <2>10. AnswersAt(s)'
    BY <1>4, <1>5, <2>1, <2>3 DEF SlotInv, AnswersAt
  <2>11. SleepersAt(s)'
    <3>1. ASSUME NEW u \in asleep', at[u] = s, pc[u] = "wait"
          PROVE  \A q \in spc'[s].respwait : q.who = u => ~q.done
      <4>1. u \in asleep /\ u \in Thread /\ \A r \in kicked : r.who # u
        BY <1>1, <1>6, <3>1 DEF Askers
      <4>2. \A r \in spc[s].respwait : r.who = u => ~r.done
        BY <2>1, <3>1, <4>1 DEF SlotInv, SleepersAt
      <4> QED
        BY <2>3, <4>1, <4>2
    <3> QED
      BY <1>4, <1>5, <1>6, <2>1, <3>1 DEF SlotInv, SleepersAt
  <2>12. OnceAt(s)'
    BY <1>4, <1>5, <2>1, <2>2 DEF SlotInv, OnceAt
  <2>13. MarkedAt(s)'
    <3>1. ExecNone(s)' <=> ExecNone(s)
      BY <2>2 DEF ExecNone
    <3> QED
      BY <1>4, <1>5, <2>1, <2>2, <3>1 DEF SlotInv, MarkedAt
  <2>15. ServedAt(s)'
    BY <1>4, <1>5, <2>1, <2>2 DEF SlotInv, ServedAt, Others
  <2> QED
    BY <2>4, <2>5, <2>6, <2>7, <2>8, <2>9, <2>10, <2>11, <2>12, <2>13, <2>15 DEF SlotInv
<1> QED
  BY <1>1, <1>4, <1>6, <1>7, <1>8, <1>9, <1>10, <1>11, <1>12, <1>13, LocalKeepsInv

(* serv_handledisco() up to its unlock: Disconnect(). *)
LEMMA DisconnectKeepsInv ==
  ASSUME IInv, NEW s \in Slot, Disconnect(s)
  PROVE  IInv'
<1>1. /\ Server \in Thread /\ pc[Server] = "poll" /\ at[Server] = NoSlot /\ Server \notin asleep
      /\ ServerTypeOK /\ asleep \subseteq Thread
  BY ThreadFacts, TypeFacts DEF Disconnect, Readable, Places, IInv
<1>2. spc[s] \in ClientRec /\ s \in pfd /\ SlotInv(s)
  BY <1>1, TypeFacts, InvBySlots DEF Disconnect, Readable
<1>3. PICK woken : woken = Askers(spc[s].respwait) \cup WokenByUnlock(s, spc[s])
  OBVIOUS
<1>4. /\ UNCHANGED <<wrklist, nwork, nworker, idleworker, wstate, nfds, maxidx, disco,
                     preforks, draining, aborted>>
      /\ UNCHANGED poolVars /\ pfd' = pfd \ {s} /\ asleep' = asleep \ woken
  BY <1>3 DEF Disconnect, poolVars
<1>5. /\ spc'[s].refcnt = spc[s].refcnt /\ spc'[s].state = "DYING" /\ spc'[s].ostatus = "FREE"
      /\ spc'[s].inexec = spc[s].inexec /\ spc'[s].nextreq = spc[s].nextreq
      /\ spc'[s].respwait = spc[s].respwait /\ spc'[s].mainlwp = spc[s].mainlwp /\ OtherSlots(s)
      /\ spc' \in [Slot -> ClientRec]
  <2>1. PICK d : d = [spc[s] EXCEPT !.state = "DYING", !.ostatus = "FREE"]
    OBVIOUS
  <2>2. /\ d \in ClientRec /\ d.refcnt = spc[s].refcnt /\ d.state = "DYING" /\ d.ostatus = "FREE"
        /\ d.inexec = spc[s].inexec /\ d.nextreq = spc[s].nextreq /\ d.respwait = spc[s].respwait
        /\ d.mainlwp = spc[s].mainlwp
    BY <1>2, <2>1 DEF ClientRec
  <2>3. Becomes(s, d)
    BY <1>3, <2>1, Zenon DEF Disconnect, Client
  <2> QED
    BY <1>1, <2>2, <2>3, BecomesGives
<1>6. /\ pc'[Server] = (IF DiscoLwp(spc[s]) THEN "lwpexit" ELSE "zero")
      /\ at'[Server] = s /\ goal'[Server] = "disco" /\ Others(Server)
      /\ pc' \in [Thread -> AnyPc] /\ at' \in [Thread -> Slot \cup {NoSlot}]
      /\ goal' \in [Thread -> AnyGoal]
  <2>1. (IF DiscoLwp(spc[s]) THEN "lwpexit" ELSE "zero") \in AnyPc /\ "disco" \in AnyGoal
    BY DEF AnyPc, ServerPc, AnyGoal
  <2> QED
    BY <1>1, <2>1, GotoGives DEF Disconnect
<1>7. PoolInv'
  BY <1>4, PoolStutters DEF IInv
<1>8. ServerTypeOK'
  BY <1>1, <1>4, <1>5, <1>6, <1>7, TypeFacts, TypeFactsPrime DEF PoolInv
<1>9. WellPlaced(Server)'
  BY <1>1, <1>4, <1>6, ThreadFacts DEF WellPlaced, ServerPc
<1>9a. /\ \A u \in woken : u \in Thread /\ at[u] = s
       /\ \A u \in Worker : at[u] = s /\ pc[u] = "wait" => u \in woken
  <2>1. \A u \in Askers(spc[s].respwait) : u \in Thread /\ at[u] = s
    BY <1>2 DEF Askers, SlotInv, RespAt
  <2>2. \A u \in WokenByUnlock(s, spc[s]) : u \in Thread /\ at[u] = s
    BY DEF WokenByUnlock, OnCv
  <2>3. \A u \in Worker : at[u] = s /\ pc[u] = "wait" => u \in Askers(spc[s].respwait)
    BY <1>2, ThreadFacts DEF Askers, SlotInv, RespAt, Asking
  <2> QED
    BY <1>3, <2>1, <2>2, <2>3
<1>10. Local(Server, s)
  BY <1>1, <1>4, <1>5, <1>6, <1>9a DEF Local
<1>11. NfdsCounts'
  BY <1>1, <1>2, <1>4, <1>5, <1>6, <1>10, NfdsLocal
<1>12. TableSound'
  BY <1>4 DEF TableSound, IInv
<1>13. SlotInv(s)'
  <2>1. SlotInv(s)
    BY InvBySlots
  <2>2. /\ Queued(s)' = Queued(s) /\ Working(s)' = Working(s)
        /\ Connected(s)' /\ Connected(s)
        /\ ExecItems(s)' = ExecItems(s) /\ ExecWorkers(s)' = ExecWorkers(s)
        /\ ~ExecServer(s)' /\ ~ExecServer(s)
    BY <1>1, <1>2, <1>4, <1>6, ThreadFacts
       DEF Queued, Working, Connected, ExecItems, ExecWorkers, ExecServer, Others
  <2>3. s \notin pfd'
    BY <1>4
  <2>4. LivesAt(s)'
    BY <1>4, <1>5, <1>6, <2>1, <2>2, <2>3 DEF SlotInv, LivesAt
  <2>5. RefsAt(s)'
    BY <1>4, <1>5, <1>6, <2>1, <2>2, <2>3 DEF SlotInv, RefsAt
  <2>6. ClosesAt(s)'
    BY <1>1, <1>2, <1>5, <1>6, <2>1 DEF SlotInv, ClosesAt, Others
  <2>7. EmptyAt(s)'
    BY <1>5 DEF SlotInv, EmptyAt
  <2>8. RespAt(s)'
    <3>1. \A r \in spc[s].respwait : r.who \in Thread /\ r.who # Server
      BY <1>1, RespFacts, ThreadFacts
    <3> QED
      BY <1>1, <1>4, <1>5, <1>6, <2>1, <3>1, ThreadFacts DEF SlotInv, RespAt, Asking, Others
  <2>9. SendAt(s)'
    BY <1>5, <2>3 DEF SlotInv, SendAt
  <2>10. AnswersAt(s)'
    BY <2>3 DEF SlotInv, AnswersAt
  <2>11. SleepersAt(s)'
    <3>1. \A u \in asleep' : ~(at'[u] = s /\ pc'[u] = "wait")
      <4>1. \A u \in asleep' : u \in Thread /\ u # Server /\ u \in Worker /\ u \notin woken
        BY <1>1, <1>4, ThreadFacts
      <4> QED
        BY <1>6, <1>9a, <4>1 DEF Others
    <3> QED
      BY <2>3, <3>1 DEF SlotInv, SleepersAt
  <2>12. OnceAt(s)'
    BY <2>1, <2>2 DEF SlotInv, OnceAt
  <2>13. MarkedAt(s)'
    <3>1. pc'[Server] = "lwpexit" => ExecNone(s)
      BY <1>2, <1>6, <2>1 DEF DiscoLwp, SlotInv, MarkedAt
    <3>2. pc'[Server] \in {"lwpexit", "zero"}
      BY <1>6
    <3> QED
      BY <1>6, <2>2, <2>3, <3>1, <3>2 DEF MarkedAt, ExecNone, ServerOnLwp
  <2>15. ServedAt(s)'
    BY <1>6, <2>3 DEF SlotInv, ServedAt
  <2> QED
    BY <2>4, <2>5, <2>6, <2>7, <2>8, <2>9, <2>10, <2>11, <2>12, <2>13, <2>15 DEF SlotInv
<1> QED
  BY <1>1, <1>4, <1>6, <1>7, <1>8, <1>9, <1>10, <1>11, <1>12, <1>13, LocalKeepsInv

(* Each of the sections after dosend() keeps IInv. *)
LEMMA SendDoneKeepsInv ==
  ASSUME IInv, NEW t \in Thread, SendDone(t)
  PROVE  IInv'
<1>1. /\ pc[t] = "send" /\ t \notin asleep /\ ServerTypeOK /\ asleep \subseteq Thread
      /\ t # Server => t \in Worker
  BY ThreadFacts, TypeFacts DEF SendDone, Places, IInv
<1>2. at[t] \in Slot
  BY <1>1, AtFacts DEF IInv
<1>3. PICK s \in Slot : s = at[t]
  BY <1>2
<1>4. /\ UNCHANGED <<wrklist, nwork, nworker, idleworker, wstate, pfd, nfds, maxidx, disco,
                     preforks, draining, aborted>>
      /\ UNCHANGED poolVars
  BY DEF SendDone, poolVars, loopVars
<1>5. PICK p \in {"wait", "sys", "poll", "release"} : Sent(t, s, p)
  BY <1>3, SendDoneGives
<1>6. /\ Others(t) /\ OtherSlots(s)
      /\ pc'[t] = p /\ goal'[t] = "none"
      /\ at'[t] = IF p \in {"poll", "pool"} THEN NoSlot ELSE s
      /\ spc'[s].refcnt = spc[s].refcnt /\ spc'[s].inexec = spc[s].inexec
      /\ spc'[s].nextreq = spc[s].nextreq /\ spc'[s].mainlwp = spc[s].mainlwp
      /\ spc'[s].ostatus = "FREE"
      /\ p = "poll" <=> t = Server
      /\ \A u \in asleep' : u # t => u \in asleep
  BY <1>5, ThreadFacts DEF Sent
<1>7. PoolInv'
  BY <1>4, PoolStutters DEF IInv
<1>8. ServerTypeOK'
  BY <1>1, <1>4, <1>5, <1>7, TypeFacts, TypeFactsPrime DEF PoolInv, Sent
<1>9. WellPlaced(t)'
  <2>1. t \in asleep' => p = "wait"
    BY <1>5 DEF Sent
  <2>2. t \in Worker => wstate[t] = "busy"
    BY <1>1 DEF Places, IInv
  <2> QED
    BY <1>4, <1>6, <2>1, <2>2, ThreadFacts DEF WellPlaced, ServerPc, WorkerPc
<1>10. Local(t, s)
  <2>1. \A u \in Thread : u # t /\ at[u] # s => (u \in asleep' <=> u \in asleep)
    BY <1>5 DEF Sent
  <2> QED
    BY <1>3, <1>4, <1>6, <2>1 DEF Local
<1>10a. SlotInv(s)
  BY InvBySlots
<1>10b. \/ spc'[s].state = spc[s].state
        \/ /\ spc[s].state = "NEW" /\ spc'[s].state = "RUNNING" /\ s \in pfd
           /\ t = Server
  BY <1>1, <1>3, <1>5, <1>10a DEF Sent, SlotInv, ServedAt
<1>11. NfdsCounts'
  BY <1>1, <1>4, <1>6, <1>10, <1>10b, NfdsLocal
<1>12. TableSound'
  BY <1>4 DEF TableSound, IInv
<1>13. SlotInv(s)'
  <2>1. SlotInv(s)
    BY InvBySlots
  <2>2. /\ Queued(s)' = Queued(s) /\ Working(s)' = Working(s)
        /\ Connected(s)' <=> Connected(s)
        /\ ExecItems(s)' = ExecItems(s) /\ ExecWorkers(s)' = ExecWorkers(s)
        /\ ExecServer(s)' => ExecServer(s)
    <3>1. Queued(s)' = Queued(s) /\ (Connected(s)' <=> Connected(s))
      BY <1>1, <1>4, <1>6, ThreadFacts DEF Queued, Connected, Others
    <3>2. Working(s)' = Working(s) /\ ExecWorkers(s)' = ExecWorkers(s)
      BY <1>1, <1>3, <1>6, ThreadFacts DEF Working, ExecWorkers, Others
    <3>3. ExecItems(s)' = ExecItems(s) /\ (ExecServer(s)' => ExecServer(s))
      BY <1>4, <1>6, ThreadFacts DEF ExecItems, ExecServer, Others
    <3> QED
      BY <3>1, <3>2, <3>3
  <2>3. \A u \in Thread : at'[u] = s => at[u] = s
    BY <1>3, <1>6 DEF Others
  <2>4. LivesAt(s)'
    BY <1>4, <1>10b, <2>1, <2>2 DEF SlotInv, LivesAt
  <2>5. RefsAt(s)'
    BY <1>4, <1>6, <2>1, <2>2 DEF SlotInv, RefsAt
  <2>6. ClosesAt(s)'
    BY <1>1, <1>3, <1>4, <1>6, <2>1 DEF SlotInv, ClosesAt, Others
  <2>7. EmptyAt(s)'
    BY <1>1, <1>3, <1>4, <1>10b, <2>1 DEF SlotInv, EmptyAt
  <2>8. RespAt(s)'
    <3>1. ASSUME NEW r \in spc'[s].respwait
          PROVE  at'[r.who] = s /\ Asking(r.who)'
      <4>1. r \in spc[s].respwait /\ (r.who = t => p = "wait")
        <5>1. CASE p = "sys"
          BY <1>5, <3>1, <5>1 DEF Sent, NotOf
        <5>2. CASE p # "sys"
          <6>1. r \in spc[s].respwait
            BY <1>5, <3>1, <5>2 DEF Sent
          <6>2. r.who = t => goal[t] = "copyin" /\ t \in Worker
            BY <1>1, <2>1, <6>1, RespFacts DEF SlotInv, RespAt, Asking
          <6> QED
            BY <1>5, <5>2, <6>1, <6>2, ThreadFacts DEF Sent
        <5> QED
          BY <5>1, <5>2
      <4>2. at[r.who] = s /\ Asking(r.who) /\ r.who \in Thread
        BY <1>1, <2>1, <4>1, RespFacts, ThreadFacts DEF SlotInv, RespAt
      <4> QED
        BY <1>3, <1>6, <4>1, <4>2 DEF Asking, Others
    <3>2. ASSUME NEW w \in Worker, at'[w] = s, Asking(w)'
          PROVE  \E r \in spc'[s].respwait : r.who = w
      <4>1. w = t => p = "wait"
        BY <1>6, <3>2 DEF Asking
      <4>2. Asking(w) /\ at[w] = s
        <5>1. CASE w = t
          BY <1>1, <1>3, <1>5, <4>1, <5>1 DEF Sent, Asking
        <5>2. CASE w # t
          BY <1>6, <3>2, <5>2, ThreadFacts DEF Asking, Others
        <5> QED
          BY <5>1, <5>2
      <4>3. PICK r \in spc[s].respwait : r.who = w
        BY <2>1, <4>2 DEF SlotInv, RespAt
      <4>4. r \in spc'[s].respwait
        BY <1>5, <4>1, <4>3 DEF Sent, NotOf
      <4> QED
        BY <4>3, <4>4
    <3> QED
      BY <3>1, <3>2 DEF RespAt
  <2>9. SendAt(s)'
    <3>1. s \in pfd => \A u \in Thread : ~(at'[u] = s /\ pc'[u] = "send")
      BY <1>1, <1>3, <1>6, <2>1 DEF SlotInv, SendAt, Others
    <3>2. s \in pfd => \A u \in asleep' : ~(at'[u] = s /\ pc'[u] = "lock")
      <4>1. \A u \in asleep' : ~(at[u] = s /\ pc[u] = "lock" /\ spc[s].ostatus = "WANTED")
        BY <1>5 DEF Sent
      <4>2. asleep' \subseteq Thread
        BY <1>5 DEF Sent
      <4> QED
        BY <1>6, <2>1, <4>1, <4>2 DEF SlotInv, SendAt, Others
    <3> QED
      BY <1>4, <1>6, <3>1, <3>2 DEF SendAt
  <2>10. AnswersAt(s)'
    <3>1. spc'[s].respwait \subseteq spc[s].respwait
      BY <1>5 DEF Sent, NotOf
    <3> QED
      BY <1>4, <1>6, <2>1, <3>1 DEF SlotInv, AnswersAt
  <2>11. SleepersAt(s)'
    <3>1. spc'[s].respwait \subseteq spc[s].respwait
      BY <1>5 DEF Sent, NotOf
    <3>2. asleep' \subseteq Thread
      BY <1>5 DEF Sent
    <3>3. ASSUME NEW u \in asleep', u # t, at'[u] = s
          PROVE  /\ pc'[u] = "exec" /\ s \in pfd => spc'[s].refcnt > 2 /\ spc'[s].inexec
                 /\ pc'[u] = "wait" => /\ \A r \in spc'[s].respwait : r.who = u => ~r.done
                                       /\ spc'[s].state # "DYING"
      <4>1. u \in asleep /\ pc'[u] = pc[u] /\ at[u] = s
        BY <1>6, <3>2, <3>3 DEF Others
      <4> QED
        BY <1>6, <1>10b, <2>1, <3>1, <4>1 DEF SlotInv, SleepersAt
    <3>4. t \in asleep' => /\ p = "wait" /\ spc'[s].state # "DYING"
                           /\ \A r \in spc'[s].respwait : r.who = t => ~r.done
      BY <1>3, <1>5, <1>10b, <3>1 DEF Sent, Answered, Client
    <3> QED
      BY <1>4, <1>6, <3>3, <3>4 DEF SleepersAt
  <2>12. OnceAt(s)'
    BY <1>4, <1>6, <2>1, <2>2 DEF SlotInv, OnceAt
  <2>13. MarkedAt(s)'
    <3>1. ~ServerOnLwp' \/ t # Server
      BY <1>6 DEF ServerOnLwp
    <3>2. t # Server => /\ ServerOnLwp' <=> ServerOnLwp
                        /\ pc'[Server] = pc[Server] /\ at'[Server] = at[Server]
      BY <1>6, ThreadFacts DEF ServerOnLwp, Others
    <3>3. \A w \in ExecWorkers(s) : pc'[w] = pc[w]
      BY <1>1, <1>6, ThreadFacts DEF ExecWorkers, Others
    <3>4. ExecNone(s) => ExecNone(s)'
      BY <2>2 DEF ExecNone
    <3>5. ExecServer(s)' => t # Server
      BY <1>6 DEF ExecServer
    <3>6. t = Server => s \in pfd
      BY <1>1, <1>3, <2>1 DEF SlotInv, ServedAt
    <3> QED
      BY <1>4, <1>6, <2>1, <2>2, <3>1, <3>2, <3>3, <3>4, <3>5, <3>6 DEF SlotInv, MarkedAt
  <2>15. ServedAt(s)'
    BY <1>4, <1>6, <1>10b, <2>1, ThreadFacts DEF SlotInv, ServedAt, Others
  <2> QED
    BY <2>4, <2>5, <2>6, <2>7, <2>8, <2>9, <2>10, <2>11, <2>12, <2>13, <2>15 DEF SlotInv
<1> QED
  BY <1>1, <1>4, <1>6, <1>7, <1>8, <1>9, <1>10, <1>11, <1>12, <1>13, LocalKeepsInv

-----------------------------------------------------------------------------
(* References are dropped, and the last closes the client. *)

(* Whoever has a reference is counted. *)
LEMMA HolderCounted ==
  ASSUME NEW s \in Slot, SlotInv(s), wrklist \in Seq(Job), spc[s].refcnt \in Nat
  PROVE  /\ spc[s].refcnt = Cardinality(Queued(s)) + Cardinality(Working(s))
                             + (IF Connected(s) THEN 1 ELSE 0)
         /\ Cardinality(Queued(s)) \in Nat /\ Cardinality(Working(s)) \in Nat
         /\ spc[s].refcnt = 0 => Queued(s) = {} /\ Working(s) = {} /\ ~Connected(s)
         /\ Working(s) # {} => spc[s].refcnt >= 1
         /\ Connected(s) => spc[s].refcnt >= 1
         /\ Working(s) # {} /\ Connected(s) => spc[s].refcnt >= 2
  BY HoldersFinite DEF SlotInv, RefsAt

(* spcrelease(): Release(). *)
LEMMA ReleaseKeepsInv ==
  ASSUME IInv, NEW t \in Thread, Release(t)
  PROVE  IInv'
<1>1. /\ pc[t] = "release" /\ t \notin asleep /\ ServerTypeOK /\ asleep \subseteq Thread
      /\ t # Server => t \in Worker /\ wstate[t] = "busy"
      /\ wrklist \in Seq(Job)
  BY ThreadFacts, TypeFacts DEF Release, Places, IInv, PoolTypeOK
<1>2. at[t] \in Slot /\ spc[at[t]] \in ClientRec
  BY <1>1, AtFacts, TypeFacts DEF IInv
<1>3. PICK s \in Slot : s = at[t]
  BY <1>2
<1>4. /\ SlotInv(s) /\ spc[s].refcnt \in Nat /\ spc[s].refcnt >= 1
      /\ s \in pfd => t # Server /\ spc[s].refcnt >= 2
      /\ spc[s].state = "DYING" \/ s \in pfd
  <2>1. SlotInv(s) /\ spc[s].refcnt \in Nat
    BY <1>1, InvBySlots, RespFacts
  <2>2. t # Server => t \in Working(s)
    BY <1>1, <1>3 DEF Working
  <2>3. t = Server => Connected(s) /\ s \notin pfd
    BY <1>1, <1>3, <2>1 DEF Connected, SlotInv, ServedAt
  <2>4. s \in pfd => Connected(s)
    BY DEF Connected
  <2>5. spc[s].state \in {"NEW", "RUNNING", "DYING"}
    BY <1>2, <1>3 DEF ClientRec
  <2>6. spc[s].state = "DYING" \/ s \in pfd
    BY <1>1, <1>3, <2>1, <2>5 DEF SlotInv, LivesAt, EmptyAt
  <2> QED
    BY <1>1, <2>1, <2>2, <2>3, <2>4, <2>6, HolderCounted
<1>5. /\ spc'[s].refcnt = spc[s].refcnt - 1 /\ spc'[s].state = spc[s].state
      /\ spc'[s].ostatus = spc[s].ostatus /\ spc'[s].inexec = spc[s].inexec
      /\ spc'[s].nextreq = spc[s].nextreq /\ spc'[s].respwait = spc[s].respwait
      /\ spc'[s].mainlwp = spc[s].mainlwp /\ OtherSlots(s) /\ spc' \in [Slot -> ClientRec]
  <2>1. PICK d : d = [spc[s] EXCEPT !.refcnt = spc[s].refcnt - 1]
    OBVIOUS
  <2>2. /\ d \in ClientRec /\ d.refcnt = spc[s].refcnt - 1 /\ d.state = spc[s].state
        /\ d.ostatus = spc[s].ostatus /\ d.inexec = spc[s].inexec /\ d.nextreq = spc[s].nextreq
        /\ d.respwait = spc[s].respwait /\ d.mainlwp = spc[s].mainlwp
    BY <1>2, <1>3, <1>4, <2>1 DEF ClientRec
  <2>3. Becomes(s, d)
    BY <1>3, <2>1, Zenon DEF Release, Client
  <2> QED
    BY <1>1, <2>2, <2>3, BecomesGives
<1>6. PICK p \in {"poll", "pool", "closing"} :
        /\ pc'[t] = p /\ goal'[t] = "none" /\ Others(t)
        /\ at'[t] = IF p = "closing" THEN s ELSE NoSlot
        /\ p = "closing" <=> spc[s].refcnt = 1
        /\ p = "poll" => t = Server
        /\ p = "pool" => t # Server
        /\ pc' \in [Thread -> AnyPc] /\ at' \in [Thread -> Slot \cup {NoSlot}]
        /\ goal' \in [Thread -> AnyGoal]
  <2>1. {"poll", "pool", "closing"} \subseteq AnyPc /\ "none" \in AnyGoal
    BY DEF AnyPc, ServerPc, WorkerPc, AnyGoal
  <2>2. CASE spc[s].refcnt = 1
    <3>1. Goto(t, "closing", s, "none")
      BY <1>3, <1>4, <2>2 DEF Release, ReleasedTo, Client
    <3> QED
      BY <1>1, <2>1, <2>2, <3>1, GotoGives
  <2>3. CASE spc[s].refcnt # 1
    <3>1. Goto(t, IF t = Server THEN "poll" ELSE "pool", NoSlot, "none")
      BY <1>3, <1>4, <2>3 DEF Release, ReleasedTo, Client, Idle
    <3> QED
      BY <1>1, <2>1, <2>3, <3>1, GotoGives
  <2> QED
    BY <2>2, <2>3
<1>7. /\ PoolInv' /\ wrklist' = wrklist
      /\ \A w \in Worker : w # t => wstate'[w] = wstate[w]
      /\ t \in Worker => (wstate'[t] = "busy" <=> p # "pool")
  <2>1. CASE t \in Worker /\ spc[s].refcnt # 1
    <3>1. Finish(t)
      BY <1>3, <1>4, <2>1 DEF Release, Client
    <3>2. PoolInv'
      BY <2>1, <3>1, FinishKeepsPoolInv DEF IInv
    <3>3. wstate' = [wstate EXCEPT ![t] = "top"] /\ wrklist' = wrklist
      BY <3>1 DEF Finish, Become
    <3>4. p = "pool"
      BY <1>6, <2>1, ThreadFacts
    <3> QED
      BY <1>1, <2>1, <3>2, <3>3, <3>4 DEF ServerTypeOK, PoolTypeOK
  <2>2. CASE ~(t \in Worker /\ spc[s].refcnt # 1)
    <3>1. UNCHANGED poolVars
      BY <1>3, <1>4, <2>2 DEF Release, Client
    <3>2. wstate' = wstate /\ wrklist' = wrklist
      BY <3>1 DEF poolVars
    <3>3. t \in Worker => p = "closing"
      BY <1>6, <2>2
    <3> QED
      BY <1>1, <3>1, <3>2, <3>3, PoolStutters, ThreadFacts DEF IInv
  <2> QED
    BY <2>1, <2>2
<1>8. /\ UNCHANGED <<pfd, nfds, maxidx, disco, preforks, draining, aborted>>
      /\ \A u \in asleep' : u \in asleep
      /\ \A u \in asleep : u \in asleep' \/ at[u] = s
      /\ spc[s].inexec /\ spc[s].refcnt <= 3 =>
             \A u \in asleep' : ~(at[u] = s /\ pc[u] = "exec")
  BY <1>1, <1>3, <1>4 DEF Release, loopVars, OnCv, Client
<1>8a. ServerTypeOK'
  BY <1>1, <1>5, <1>6, <1>7, <1>8, TypeFacts, TypeFactsPrime DEF PoolInv
<1>9. WellPlaced(t)'
  BY <1>1, <1>6, <1>7, <1>8, ThreadFacts DEF WellPlaced, ServerPc, WorkerPc
<1>10. Local(t, s)
  BY <1>3, <1>5, <1>6, <1>7, <1>8 DEF Local
<1>11. NfdsCounts'
  BY <1>1, <1>5, <1>6, <1>8, <1>10, NfdsLocal
<1>12. TableSound'
  BY <1>8 DEF TableSound, IInv
<1>13. SlotInv(s)'
  <2>1. SlotInv(s)
    BY InvBySlots
  <2>2. /\ Queued(s)' = Queued(s) /\ Working(s)' = Working(s) \ {t}
        /\ t # Server => t \in Working(s) /\ (Connected(s)' <=> Connected(s))
        /\ t = Server => t \notin Working(s) /\ Connected(s) /\ ~Connected(s)'
        /\ ExecItems(s)' = ExecItems(s) /\ ExecWorkers(s)' = ExecWorkers(s)
        /\ ExecServer(s)' => ExecServer(s)
    <3>1. Queued(s)' = Queued(s)
      BY <1>1, <1>6, <1>7, ThreadFacts DEF Queued, Others
    <3>2. /\ Working(s)' = Working(s) \ {t}
          /\ t # Server => t \in Working(s)
          /\ t = Server => t \notin Working(s)
      BY <1>1, <1>3, <1>6, ThreadFacts DEF Working, Others
    <3>3. /\ t # Server => (Connected(s)' <=> Connected(s))
          /\ t = Server => Connected(s) /\ ~Connected(s)'
      BY <1>1, <1>3, <1>4, <1>6, <1>8, ThreadFacts DEF Connected, Others
    <3>4. ExecItems(s)' = ExecItems(s) /\ ExecWorkers(s)' = ExecWorkers(s)
      BY <1>1, <1>6, <1>7, ThreadFacts DEF ExecItems, ExecWorkers, Others
    <3>5. ExecServer(s)' => ExecServer(s)
      BY <1>6, ThreadFacts DEF ExecServer, Others
    <3> QED
      BY <3>1, <3>2, <3>3, <3>4, <3>5
  <2>3. \A u \in Thread : at'[u] = s => at[u] = s
    BY <1>3, <1>6 DEF Others
  <2>4. LivesAt(s)'
    BY <1>5, <1>8, <2>1, <2>2 DEF SlotInv, LivesAt
  <2>5. RefsAt(s)'
    <3>1. /\ Cardinality(Queued(s)) \in Nat /\ Cardinality(Working(s)) \in Nat
          /\ IsFiniteSet(Working(s))
          /\ spc[s].refcnt = Cardinality(Queued(s)) + Cardinality(Working(s))
                              + (IF Connected(s) THEN 1 ELSE 0)
      BY <1>1, <2>1, HoldersFinite DEF SlotInv, RefsAt
    <3>2. Cardinality(Working(s)') = IF t = Server THEN Cardinality(Working(s))
                                                  ELSE Cardinality(Working(s)) - 1
      BY <2>2, <3>1, FS_RemoveElement
    <3> QED
      BY <1>5, <2>2, <3>1, <3>2 DEF RefsAt
  <2>6. ClosesAt(s)'
    <3>1. ASSUME p = "closing"
          PROVE  /\ s \notin pfd /\ spc'[s].state = "DYING" /\ spc'[s].refcnt = 0
                 /\ \A u \in Thread : u # t /\ at'[u] = s => pc'[u] = "signal"
      <4>1. spc[s].refcnt = 1 /\ s \notin pfd
        BY <1>4, <1>6, <3>1
      <4>2. Working(s) \subseteq {t} /\ (t # Server => ~Connected(s))
        <5>1. /\ Cardinality(Queued(s)) \in Nat /\ Cardinality(Working(s)) \in Nat
              /\ IsFiniteSet(Working(s))
              /\ spc[s].refcnt = Cardinality(Queued(s)) + Cardinality(Working(s))
                                  + (IF Connected(s) THEN 1 ELSE 0)
          BY <1>1, <2>1, HoldersFinite DEF SlotInv, RefsAt
        <5>2. CASE t = Server
          <6>1. Cardinality(Working(s)) = 0
            BY <2>2, <4>1, <5>1, <5>2
          <6> QED
            BY <1>1, <5>2, <6>1, HoldersFinite
        <5>3. CASE t # Server
          <6>1. Cardinality(Working(s) \ {t}) = Cardinality(Working(s)) - 1
            BY <2>2, <5>1, <5>3, FS_RemoveElement
          <6>2. IsFiniteSet(Working(s) \ {t}) /\ Cardinality(Working(s) \ {t}) \in Nat
            BY <5>1, FS_RemoveElement, FS_CardinalityType
          <6>3. Cardinality(Working(s) \ {t}) = 0 /\ ~Connected(s)
            BY <4>1, <5>1, <6>1, <6>2
          <6> QED
            BY <6>2, <6>3, FS_EmptySet
        <5> QED
          BY <5>2, <5>3
      <4>3. ASSUME NEW u \in Thread, u # t, at[u] = s
            PROVE  pc[u] = "signal"
        <5>1. pc[u] # "closing"
          BY <1>1, <1>3, <2>1, <4>3 DEF SlotInv, ClosesAt
        <5>2. CASE u = Server
          BY <4>1, <4>2, <4>3, <5>1, <5>2, ThreadFacts, <2>1
             DEF SlotInv, ServedAt, Connected, Places, ServerPc, IInv
        <5>3. CASE u # Server
          BY <4>2, <4>3, <5>1, <5>3, ThreadFacts DEF Working
        <5> QED
          BY <5>2, <5>3
      <4> QED
        BY <1>4, <1>5, <1>6, <4>1, <4>3 DEF Others
    <3>2. \A u \in Thread : u # t => ~(at'[u] = s /\ pc'[u] = "closing")
      BY <1>1, <1>3, <1>6, <2>1 DEF SlotInv, ClosesAt, Others
    <3> QED
      BY <1>6, <1>8, <3>1, <3>2 DEF ClosesAt
  <2>7. EmptyAt(s)'
    BY <1>4, <1>5, <1>8 DEF SlotInv, EmptyAt
  <2>8. RespAt(s)'
    <3>1. \A r \in spc[s].respwait : r.who \in Thread /\ r.who # t
      BY <1>1, <2>1, RespFacts, ThreadFacts DEF SlotInv, RespAt, Asking
    <3>2. \A u \in Thread : u # t => /\ Asking(u)' <=> Asking(u)
                                     /\ at'[u] = at[u]
      BY <1>6 DEF Asking, Others
    <3>3. ~Asking(t)'
      BY <1>6 DEF Asking
    <3> QED
      BY <1>5, <2>1, <3>1, <3>2, <3>3, ThreadFacts DEF SlotInv, RespAt
  <2>9. SendAt(s)'
    BY <1>1, <1>5, <1>6, <1>8, <2>1, <2>3 DEF SlotInv, SendAt, Others
  <2>10. AnswersAt(s)'
    BY <1>5, <1>8, <2>1 DEF SlotInv, AnswersAt
  <2>11. SleepersAt(s)'
    <3>1. \A u \in asleep' : u \in asleep /\ u \in Thread /\ u # t /\ at'[u] = at[u] /\ pc'[u] = pc[u]
      BY <1>1, <1>6, <1>8 DEF Others
    <3>2. \A u \in asleep' : at[u] = s /\ pc[u] = "exec" /\ s \in pfd =>
                                 spc'[s].refcnt > 2 /\ spc'[s].inexec
      BY <1>4, <1>5, <1>8, <2>1, <3>1 DEF SlotInv, SleepersAt
    <3> QED
      BY <1>5, <1>8, <2>1, <3>1, <3>2 DEF SlotInv, SleepersAt
  <2>12. OnceAt(s)'
    BY <2>1, <2>2 DEF SlotInv, OnceAt
  <2>13. MarkedAt(s)'
    <3>1. ~ServerOnLwp' \/ t # Server
      BY <1>6 DEF ServerOnLwp
    <3>2. t # Server => /\ ServerOnLwp' <=> ServerOnLwp
                        /\ pc'[Server] = pc[Server] /\ at'[Server] = at[Server]
      BY <1>6, ThreadFacts DEF ServerOnLwp, Others
    <3>3. \A w \in ExecWorkers(s) : pc'[w] = pc[w]
      BY <1>1, <1>6, ThreadFacts DEF ExecWorkers, Others
    <3>4. ExecNone(s) => ExecNone(s)'
      BY <2>2 DEF ExecNone
    <3>5. ExecServer(s)' => t # Server
      BY <1>6 DEF ExecServer
    <3>6. t = Server => pc[Server] \notin {"lwpexit", "zero"}
      BY <1>1
    <3> QED
      BY <1>5, <1>8, <2>1, <2>2, <3>1, <3>2, <3>3, <3>4, <3>5, <3>6 DEF SlotInv, MarkedAt
  <2>15. ServedAt(s)'
    BY <1>4, <1>5, <1>6, <1>8, <2>1, ThreadFacts DEF SlotInv, ServedAt, Others
  <2> QED
    BY <2>4, <2>5, <2>6, <2>7, <2>8, <2>9, <2>10, <2>11, <2>12, <2>13, <2>15 DEF SlotInv
<1> QED
  BY <1>6, <1>7, <1>8, <1>8a, <1>9, <1>10, <1>11, <1>12, <1>13, LocalKeepsInv

(* What nfds counts is finite. *)
LEMMA LoopFinite ==
  /\ IsFiniteSet(Slot) /\ Cardinality(Slot) = MAXCLI - 1
  /\ IsFiniteSet(Slot \ EmptySlot) /\ Cardinality(Slot \ EmptySlot) \in Nat
  /\ IsFiniteSet(Signalling) /\ Cardinality(Signalling) \in Nat
<1>1. IsFiniteSet(Slot) /\ Cardinality(Slot) = MAXCLI - 1
  BY SpAssumption, FS_Interval DEF Slot
<1>2. IsFiniteSet(Slot \ EmptySlot)
  BY <1>1, FS_Difference
<1>3. IsFiniteSet(Thread)
  BY PoolAssumption, FS_AddElement DEF Thread
<1>4. Signalling \in SUBSET Thread
  BY DEF Signalling
<1>5. IsFiniteSet(Signalling)
  BY <1>3, <1>4, FS_Subset
<1> QED
  BY <1>1, <1>2, <1>5, FS_CardinalityType

(* The last reference closes the client: Close(). *)
LEMMA CloseKeepsInv ==
  ASSUME IInv, NEW t \in Thread, Close(t)
  PROVE  IInv'
<1>1. /\ pc[t] = "closing" /\ t \notin asleep /\ ServerTypeOK /\ asleep \subseteq Thread
      /\ t # Server => t \in Worker /\ wstate[t] = "busy"
      /\ wrklist \in Seq(Job)
  BY ThreadFacts, TypeFacts DEF Close, Places, IInv, PoolTypeOK
<1>2. at[t] \in Slot /\ spc[at[t]] \in ClientRec
  BY <1>1, AtFacts, TypeFacts DEF IInv
<1>3. PICK s \in Slot : s = at[t]
  BY <1>2
<1>4. /\ UNCHANGED <<wrklist, nwork, nworker, idleworker, wstate, pfd, nfds, maxidx, disco,
                     preforks, asleep, aborted>>
      /\ UNCHANGED poolVars /\ draining' = draining \ {s}
  BY <1>3 DEF Close, poolVars, loopVars
<1>5. /\ spc'[s].refcnt = spc[s].refcnt /\ spc'[s].state = "NEW"
      /\ spc'[s].ostatus = spc[s].ostatus /\ spc'[s].inexec = spc[s].inexec
      /\ spc'[s].nextreq = spc[s].nextreq /\ spc'[s].respwait = spc[s].respwait
      /\ spc'[s].mainlwp = FALSE /\ OtherSlots(s) /\ spc' \in [Slot -> ClientRec]
  <2>1. PICK d : d = [spc[s] EXCEPT !.mainlwp = FALSE, !.state = "NEW"]
    OBVIOUS
  <2>2. /\ d \in ClientRec /\ d.refcnt = spc[s].refcnt /\ d.state = "NEW"
        /\ d.ostatus = spc[s].ostatus /\ d.inexec = spc[s].inexec /\ d.nextreq = spc[s].nextreq
        /\ d.respwait = spc[s].respwait /\ d.mainlwp = FALSE
    BY <1>2, <1>3, <2>1 DEF ClientRec
  <2>3. Becomes(s, d)
    BY <1>3, <2>1, Zenon DEF Close, Client
  <2> QED
    BY <1>1, <2>2, <2>3, BecomesGives
<1>6. /\ pc'[t] = "signal" /\ at'[t] = s /\ goal'[t] = "none" /\ Others(t)
      /\ pc' \in [Thread -> AnyPc] /\ at' \in [Thread -> Slot \cup {NoSlot}]
      /\ goal' \in [Thread -> AnyGoal]
  <2>1. "signal" \in AnyPc /\ "none" \in AnyGoal
    BY DEF AnyPc, WorkerPc, AnyGoal
  <2> QED
    BY <1>1, <1>3, <2>1, GotoGives DEF Close
<1>7. PoolInv'
  BY <1>4, PoolStutters DEF IInv
<1>8. ServerTypeOK'
  BY <1>1, <1>4, <1>5, <1>6, <1>7, TypeFacts, TypeFactsPrime DEF PoolInv
<1>9. WellPlaced(t)'
  BY <1>1, <1>3, <1>4, <1>6, ThreadFacts DEF WellPlaced, WorkerPc, ServerPc
<1>10. Local(t, s)
  BY <1>3, <1>4, <1>5, <1>6 DEF Local, OtherSlots
<1>10a. /\ SlotInv(s) /\ s \notin pfd /\ spc[s].state = "DYING" /\ spc[s].refcnt = 0
        /\ \A u \in Thread : u # t /\ at[u] = s => pc[u] = "signal"
  <2>1. SlotInv(s)
    BY InvBySlots
  <2> QED
    BY <1>1, <1>3, <2>1 DEF SlotInv, ClosesAt
<1>11. NfdsCounts'
  <2>1. Slot \ EmptySlot' = (Slot \ EmptySlot) \ {s} /\ s \in Slot \ EmptySlot
    BY <1>4, <1>5, <1>10a DEF EmptySlot, OtherSlots
  <2>2. Signalling' = Signalling \cup {t} /\ t \notin Signalling
    BY <1>1, <1>6 DEF Signalling, Others
  <2>3. Cardinality(Slot \ EmptySlot') = Cardinality(Slot \ EmptySlot) - 1
    BY <2>1, LoopFinite, FS_RemoveElement
  <2>4. Cardinality(Signalling') = Cardinality(Signalling) + 1
    BY <2>2, LoopFinite, FS_AddElement
  <2>5. /\ nfds = 1 + Cardinality(Slot \ EmptySlot) + Cardinality(Signalling) + disco
        /\ nfds' = nfds /\ disco' = disco /\ nfds \in Int /\ disco \in Nat
    BY <1>1, <1>4, TypeFacts DEF NfdsCounts, IInv
  <2> QED
    BY <2>3, <2>4, <2>5, LoopFinite DEF NfdsCounts
<1>12. TableSound'
  BY <1>4 DEF TableSound, IInv
<1>13. SlotInv(s)'
  <2>1. SlotInv(s)
    BY InvBySlots
  <2>2. /\ Queued(s) = {} /\ Queued(s)' = {} /\ Working(s) = {} /\ Working(s)' = {}
        /\ ~Connected(s) /\ ~Connected(s)'
        /\ ExecItems(s)' = {} /\ ExecWorkers(s)' = {} /\ ~ExecServer(s)'
    <3>1. Queued(s) = {} /\ Working(s) = {} /\ ~Connected(s)
      BY <1>1, <1>10a, HolderCounted
    <3>2. at[Server] = s /\ Server # t => pc[Server] = "signal" /\ goal[Server] = "none"
      BY <1>10a, ThreadFacts DEF Goals, IInv
    <3>3. Queued(s)' = {} /\ ExecItems(s)' = {}
      BY <1>1, <1>4, <1>6, <3>1, <3>2, ThreadFacts DEF Queued, ExecItems, Others
    <3>4. Working(s)' = {} /\ ExecWorkers(s)' = {}
      BY <1>6, <3>1, ThreadFacts DEF Working, ExecWorkers, Others
    <3>5. ~Connected(s)' /\ ~ExecServer(s)'
      BY <1>4, <1>6, <1>10a, <3>2, ThreadFacts DEF Connected, ExecServer, Others
    <3> QED
      BY <3>1, <3>3, <3>4, <3>5
  <2>3. \A u \in Thread : at'[u] = s => pc'[u] = "signal" /\ goal'[u] = "none"
    <3>1. \A u \in Thread : at'[u] = s => pc'[u] = "signal"
      BY <1>6, <1>10a DEF Others
    <3> QED
      BY <1>6, <3>1, ThreadFacts DEF Others, Goals, IInv
  <2>4. spc[s].ostatus = "FREE" /\ spc[s].inexec = FALSE /\ spc[s].respwait = {}
    <3>1. spc[s].ostatus = "FREE"
      BY <1>1, <1>10a DEF SlotInv, SendAt
    <3>2. spc[s].inexec = FALSE
      <4>1. ~(at[Server] = s /\ pc[Server] \in {"lwpexit", "zero"})
        BY <1>1, <1>10a, ThreadFacts
      <4>2. spc[s].inexec \in BOOLEAN /\ ~spc[s].inexec
        BY <1>2, <1>3, <1>10a, <4>1 DEF SlotInv, MarkedAt, ClientRec
      <4> QED
        BY <4>2
    <3>3. spc[s].respwait = {}
      <4>1. \A u \in Thread : at[u] = s => ~Asking(u)
        BY <1>1, <1>10a DEF Asking
      <4>2. \A r \in spc[s].respwait : r.who \in Thread /\ at[r.who] = s /\ Asking(r.who)
        BY <1>1, <1>10a, RespFacts, ThreadFacts DEF SlotInv, RespAt
      <4> QED
        BY <4>1, <4>2
    <3> QED
      BY <3>1, <3>2, <3>3
  <2>5. s \notin pfd'
    BY <1>4, <1>10a
  <2>6. LivesAt(s)'
    BY <1>5, <2>2, <2>5 DEF SlotInv, LivesAt
  <2>7. RefsAt(s)'
    BY <1>5, <1>10a, <2>2, FS_EmptySet DEF SlotInv, RefsAt
  <2>8. ClosesAt(s)'
    BY <2>3 DEF SlotInv, ClosesAt
  <2>9. EmptyAt(s)'
    BY <1>4, <1>5, <1>10a, <2>3, <2>4 DEF SlotInv, EmptyAt
  <2>10. RespAt(s)'
    BY <1>5, <2>3, <2>4, ThreadFacts DEF SlotInv, RespAt, Asking
  <2>11. SendAt(s)'
    BY <1>5, <2>4, <2>5 DEF SlotInv, SendAt
  <2>12. AnswersAt(s)'
    BY <2>5 DEF SlotInv, AnswersAt
  <2>13. SleepersAt(s)'
    BY <1>1, <1>4, <2>3 DEF SlotInv, SleepersAt
  <2>14. OnceAt(s)'
    BY <2>2 DEF SlotInv, OnceAt
  <2>15. MarkedAt(s)'
    BY <1>5, <2>2, <2>4, <2>5 DEF SlotInv, MarkedAt, ExecNone
  <2>17. ServedAt(s)'
    BY <2>3, ThreadFacts DEF SlotInv, ServedAt
  <2> QED
    BY <2>6, <2>7, <2>8, <2>9, <2>10, <2>11, <2>12, <2>13, <2>14, <2>15, <2>17 DEF SlotInv
<1> QED
  BY <1>4, <1>7, <1>8, <1>9, <1>10, <1>11, <1>12, <1>13, LocalKeepsInv

(* signaldisco(): the poll loop is told that the slot is free. *)
LEMMA SignalDiscoKeepsInv ==
  ASSUME IInv, NEW t \in Thread, SignalDisco(t)
  PROVE  IInv'
<1>1. /\ pc[t] = "signal" /\ t \notin asleep /\ ServerTypeOK /\ asleep \subseteq Thread
      /\ t # Server => t \in Worker /\ wstate[t] = "busy"
      /\ wrklist \in Seq(Job) /\ disco \in Nat /\ nfds \in Int
  BY ThreadFacts, TypeFacts DEF SignalDisco, Places, IInv, PoolTypeOK
<1>2. at[t] \in Slot
  BY <1>1, AtFacts DEF IInv
<1>3. PICK s \in Slot : s = at[t]
  BY <1>2
<1>4. /\ UNCHANGED <<spc, pfd, nfds, maxidx, preforks, asleep, draining, aborted>>
      /\ disco' = disco + 1
  BY DEF SignalDisco
<1>5. PICK p \in {"poll", "pool"} :
        /\ pc'[t] = p /\ at'[t] = NoSlot /\ goal'[t] = "none" /\ Others(t)
        /\ p = "poll" <=> t = Server
        /\ pc' \in [Thread -> AnyPc] /\ at' \in [Thread -> Slot \cup {NoSlot}]
        /\ goal' \in [Thread -> AnyGoal]
  <2>1. {"poll", "pool"} \subseteq AnyPc /\ "none" \in AnyGoal
    BY DEF AnyPc, ServerPc, WorkerPc, AnyGoal
  <2>2. Goto(t, IF t = Server THEN "poll" ELSE "pool", NoSlot, "none")
    BY DEF SignalDisco, Idle
  <2> QED
    BY <1>1, <2>1, <2>2, GotoGives
<1>7. /\ PoolInv' /\ wrklist' = wrklist
      /\ \A w \in Worker : w # t => wstate'[w] = wstate[w]
      /\ t \in Worker => wstate'[t] # "busy"
  <2>1. CASE t \in Worker
    <3>1. Finish(t)
      BY <2>1 DEF SignalDisco
    <3>2. PoolInv'
      BY <2>1, <3>1, FinishKeepsPoolInv DEF IInv
    <3>3. wstate' = [wstate EXCEPT ![t] = "top"] /\ wrklist' = wrklist
      BY <3>1 DEF Finish, Become
    <3> QED
      BY <1>1, <2>1, <3>2, <3>3 DEF ServerTypeOK, PoolTypeOK
  <2>2. CASE t \notin Worker
    <3>1. UNCHANGED poolVars
      BY <2>2 DEF SignalDisco
    <3> QED
      BY <2>2, <3>1, PoolStutters DEF IInv, poolVars
  <2> QED
    BY <2>1, <2>2
<1>8. ServerTypeOK'
  BY <1>1, <1>4, <1>5, <1>7, TypeFacts, TypeFactsPrime DEF PoolInv
<1>9. WellPlaced(t)'
  BY <1>1, <1>4, <1>5, <1>7, ThreadFacts DEF WellPlaced, WorkerPc, ServerPc
<1>10. Local(t, s)
  BY <1>3, <1>4, <1>5, <1>7 DEF Local, OtherSlots
<1>11. NfdsCounts'
  <2>1. EmptySlot' = EmptySlot
    BY <1>4 DEF EmptySlot
  <2>2. Signalling' = Signalling \ {t} /\ t \in Signalling
    BY <1>1, <1>5 DEF Signalling, Others
  <2>3. Cardinality(Signalling') = Cardinality(Signalling) - 1
    BY <2>2, LoopFinite, FS_RemoveElement
  <2>4. nfds = 1 + Cardinality(Slot \ EmptySlot) + Cardinality(Signalling) + disco
    BY DEF NfdsCounts, IInv
  <2> QED
    BY <1>1, <1>4, <2>1, <2>3, <2>4, LoopFinite DEF NfdsCounts
<1>12. TableSound'
  BY <1>4 DEF TableSound, IInv
<1>13. SlotInv(s)'
  <2>1. SlotInv(s)
    BY InvBySlots
  <2>2. /\ Queued(s)' = Queued(s) /\ Working(s)' = Working(s)
        /\ Connected(s)' <=> Connected(s)
        /\ ExecItems(s)' = ExecItems(s) /\ ExecWorkers(s)' = ExecWorkers(s)
        /\ ExecServer(s)' => ExecServer(s)
    <3>1. Queued(s)' = Queued(s) /\ ExecItems(s)' = ExecItems(s)
      BY <1>1, <1>5, <1>7, ThreadFacts DEF Queued, ExecItems, Others
    <3>2. Working(s)' = Working(s) /\ ExecWorkers(s)' = ExecWorkers(s)
      BY <1>1, <1>5, ThreadFacts DEF Working, ExecWorkers, Others
    <3>3. /\ Connected(s)' <=> Connected(s)
          /\ ExecServer(s)' => ExecServer(s)
      BY <1>1, <1>4, <1>5, ThreadFacts DEF Connected, ExecServer, Others
    <3> QED
      BY <3>1, <3>2, <3>3
  <2>3. \A u \in Thread : at'[u] = s => u # t /\ at[u] = s /\ pc'[u] = pc[u] /\ goal'[u] = goal[u]
    BY <1>5, ThreadFacts DEF Others
  <2>4. LivesAt(s)'
    BY <1>4, <2>1, <2>2 DEF SlotInv, LivesAt
  <2>5. RefsAt(s)'
    BY <1>4, <2>1, <2>2 DEF SlotInv, RefsAt
  <2>6. ClosesAt(s)'
    BY <1>1, <1>4, <1>5, <2>1, <2>3 DEF SlotInv, ClosesAt
  <2>7. EmptyAt(s)'
    BY <1>1, <1>4, <1>5, <2>1, <2>3 DEF SlotInv, EmptyAt
  <2>8. RespAt(s)'
    <3>1. \A r \in spc[s].respwait : r.who \in Thread /\ r.who # t
      BY <1>1, <2>1, RespFacts, ThreadFacts DEF SlotInv, RespAt, Asking
    <3>2. \A u \in Thread : u # t => /\ Asking(u)' <=> Asking(u)
                                     /\ at'[u] = at[u]
      BY <1>5 DEF Asking, Others
    <3> QED
      BY <1>4, <2>1, <2>3, <3>1, <3>2, ThreadFacts DEF SlotInv, RespAt
  <2>9. SendAt(s)'
    BY <1>1, <1>4, <1>5, <2>1, <2>3 DEF SlotInv, SendAt, Others
  <2>10. AnswersAt(s)'
    BY <1>4, <2>1 DEF SlotInv, AnswersAt
  <2>11. SleepersAt(s)'
    BY <1>1, <1>4, <1>5, <2>1, <2>3 DEF SlotInv, SleepersAt
  <2>12. OnceAt(s)'
    BY <2>1, <2>2 DEF SlotInv, OnceAt
  <2>13. MarkedAt(s)'
    <3>1. ExecNone(s) => ExecNone(s)'
      BY <2>2 DEF ExecNone
    <3>2. t # Server => /\ ServerOnLwp' <=> ServerOnLwp
                        /\ pc'[Server] = pc[Server] /\ at'[Server] = at[Server]
      BY <1>5, ThreadFacts DEF ServerOnLwp, Others
    <3>3. \A w \in ExecWorkers(s) : pc'[w] = pc[w]
      BY <1>1, <1>5, ThreadFacts DEF ExecWorkers, Others
    <3>4. t = Server => ~ServerOnLwp' /\ ~ExecServer(s)' /\ pc[Server] \notin {"lwpexit", "zero"}
      BY <1>1, <1>5 DEF ServerOnLwp, ExecServer
    <3> QED
      BY <1>4, <2>1, <2>2, <3>1, <3>2, <3>3, <3>4 DEF SlotInv, MarkedAt
  <2>15. ServedAt(s)'
    BY <1>4, <2>1, <2>3, ThreadFacts DEF SlotInv, ServedAt
  <2> QED
    BY <2>4, <2>5, <2>6, <2>7, <2>8, <2>9, <2>10, <2>11, <2>12, <2>13, <2>15 DEF SlotInv
<1> QED
  BY <1>4, <1>7, <1>8, <1>9, <1>10, <1>11, <1>12, <1>13, LocalKeepsInv

-----------------------------------------------------------------------------
(* Steps that touch no client. *)

LEMMA NobodyTouched ==
  ASSUME IInv, LoopInv', UNCHANGED <<spc, pfd, pc, at, goal, asleep, draining, wrklist>>
  PROVE  IInv'
<1>1. ServerTypeOK /\ asleep' \subseteq Thread
  BY TypeFacts DEF IInv
<1>2. ASSUME NEW s \in Slot
      PROVE  SlotInv(s)'
  <2>1. SlotInv(s)
    BY InvBySlots
  <2>2. Queued(s)' = Queued(s) /\ ExecItems(s)' = ExecItems(s)
    BY DEF Queued, ExecItems
  <2>3. Untouched(s)
    BY <2>2 DEF Untouched, ListKept
  <2> QED
    BY <1>1, <2>1, <2>3, UntouchedKeepsInv
<1> QED
  BY <1>2, InvBySlotsPrime

(* A worker finds nothing to do: NoJob(). *)
LEMMA NoJobKeepsInv ==
  ASSUME IInv, NEW w \in Worker, NoJob(w)
  PROVE  IInv'
<1>1. UNCHANGED <<spc, pfd, nfds, maxidx, disco, preforks, pc, at, goal, asleep, draining, aborted>>
  BY DEF NoJob, loopVars, threadVars
<1>2. NoTake(w)
  BY DEF NoJob
<1>3. PoolInv' /\ wrklist' = wrklist
  BY <1>2, NoTakeKeepsPoolInv DEF IInv, NoTake, Retire, GoIdle, BackToIdle
<1>4. \A v \in Worker : wstate'[v] = "busy" <=> wstate[v] = "busy"
  <2>1. wstate \in [Worker -> {"none", "top", "idle", "woken", "busy"}]
    BY DEF IInv, PoolInv, PoolTypeOK
  <2> QED
    BY <1>2, <2>1 DEF NoTake, Retire, GoIdle, BackToIdle, Become
<1>5. ServerTypeOK'
  BY <1>1, <1>3, TypeFacts, TypeFactsPrime DEF IInv, PoolInv
<1>6. Places' /\ Goals'
  BY <1>1, <1>4 DEF IInv, Places, Goals
<1>7. NfdsCounts' /\ TableSound'
  BY <1>1 DEF IInv, NfdsCounts, TableSound, EmptySlot, Signalling
<1> QED
  BY <1>1, <1>3, <1>5, <1>6, <1>7, NobodyTouched DEF LoopInv

(* A prefork is dropped without an answer. *)
LEMMA DropKeepsInv ==
  ASSUME IInv, NEW s \in Slot, DropPrefork(s, FALSE)
  PROVE  IInv'
<1>1. /\ UNCHANGED <<spc, pfd, nfds, maxidx, disco, pc, at, goal, asleep, draining, aborted>>
      /\ UNCHANGED <<wrklist, nwork, nworker, idleworker, wstate>> /\ UNCHANGED poolVars
      /\ preforks > 0 /\ preforks' = preforks - 1
  BY DEF DropPrefork, loopVars, threadVars, poolVars
<1>2. PoolInv'
  BY <1>1, PoolStutters DEF IInv
<1>3. preforks \in 0 .. MaxFork /\ MaxFork \in Nat
  BY SpAssumption, TypeFacts DEF IInv
<1>4. preforks' \in 0 .. MaxFork
  BY <1>1, <1>3
<1>5. ServerTypeOK'
  BY <1>1, <1>2, <1>4, TypeFacts, TypeFactsPrime DEF IInv, PoolInv
<1>6. Places' /\ Goals'
  BY <1>1 DEF IInv, Places, Goals
<1>7. NfdsCounts' /\ TableSound'
  BY <1>1 DEF IInv, NfdsCounts, TableSound, EmptySlot, Signalling
<1> QED
  BY <1>1, <1>2, <1>5, <1>6, <1>7, NobodyTouched DEF LoopInv

(* The poll loop takes note of who is gone: Collect(). *)
LEMMA CollectKeepsInv ==
  ASSUME IInv, Collect
  PROVE  IInv'
<1>1. /\ UNCHANGED <<spc, pfd, preforks, pc, at, goal, asleep, draining, aborted>>
      /\ UNCHANGED <<wrklist, nwork, nworker, idleworker, wstate>> /\ UNCHANGED poolVars
      /\ nfds' = nfds - disco /\ disco' = 0 /\ maxidx' = LastPolled
  BY DEF Collect, threadVars, poolVars
<1>2. PoolInv'
  BY <1>1, PoolStutters DEF IInv
<1>3. /\ pfd \subseteq Slot /\ nfds \in 1 .. MAXCLI /\ maxidx \in 0 .. MAXCLI - 1 /\ disco \in Nat
      /\ MAXCLI \in Nat /\ MAXCLI >= 2
  BY SpAssumption, TypeFacts DEF IInv
<1>4. NfdsCounts' /\ nfds' \in 1 .. MAXCLI
  <2>1. EmptySlot' = EmptySlot /\ Signalling' = Signalling
    BY <1>1 DEF EmptySlot, Signalling
  <2>2. nfds = 1 + Cardinality(Slot \ EmptySlot) + Cardinality(Signalling) + disco
    BY DEF IInv, NfdsCounts
  <2>3. nfds' = 1 + Cardinality(Slot \ EmptySlot) + Cardinality(Signalling) + disco'
    BY <1>1, <1>3, <2>2, LoopFinite
  <2>4. nfds' \in 1 .. MAXCLI
    BY <1>1, <1>3, <2>3, LoopFinite
  <2> QED
    BY <2>1, <2>3, <2>4 DEF NfdsCounts
<1>5. TableSound' /\ maxidx' \in 0 .. MAXCLI - 1
  <2>1. {s \in pfd : s <= maxidx} = pfd
    BY DEF IInv, TableSound
  <2>2. CASE pfd = {}
    BY <1>1, <1>3, <2>1, <2>2 DEF LastPolled, TableSound, IInv
  <2>3. CASE pfd # {}
    <3>1. pfd \in SUBSET Nat /\ MAXCLI - 1 \in Nat /\ \A s \in pfd : s <= MAXCLI - 1
      BY <1>3 DEF Slot
    <3>2. Max(pfd) \in pfd /\ \A s \in pfd : s <= Max(pfd)
      BY <2>3, <3>1, MaxExists
    <3>3. maxidx' = Max(pfd)
      BY <1>1, <2>1, <2>3 DEF LastPolled
    <3>4. maxidx' \in Slot /\ \A s \in pfd' : s <= maxidx'
      BY <1>1, <1>3, <3>2, <3>3
    <3>5. ~aborted'
      BY <1>1 DEF TableSound, IInv
    <3> QED
      BY <1>3, <3>4, <3>5 DEF TableSound, Slot
  <2> QED
    BY <2>2, <2>3
<1>6. ServerTypeOK'
  BY <1>1, <1>2, <1>4, <1>5, TypeFacts, TypeFactsPrime DEF IInv, PoolInv
<1>7. Places' /\ Goals'
  BY <1>1 DEF IInv, Places, Goals
<1> QED
  BY <1>1, <1>2, <1>4, <1>5, <1>6, <1>7, NobodyTouched DEF LoopInv

(* serv_handleconn() finds a slot: Accept(). *)
LEMMA AcceptKeepsInv ==
  ASSUME IInv, Accept
  PROVE  IInv'
<1>1. /\ Server \in Thread /\ pc[Server] = "poll" /\ at[Server] = NoSlot
      /\ ServerTypeOK /\ asleep \subseteq Thread /\ pfd \subseteq Slot
      /\ nfds \in 1 .. MAXCLI /\ maxidx \in 0 .. MAXCLI - 1 /\ disco \in Nat /\ nfds # MAXCLI
      /\ MAXCLI \in Nat /\ MAXCLI >= 2
      /\ nfds = 1 + Cardinality(Slot \ EmptySlot) + Cardinality(Signalling) + disco
  BY ThreadFacts, TypeFacts, SpAssumption DEF Accept, Places, NfdsCounts, IInv
<1>1a. EmptySlot # {}
  <2> SUFFICES ASSUME EmptySlot = {} PROVE FALSE
    OBVIOUS
  <2>1. Slot \ EmptySlot = Slot
    OBVIOUS
  <2> QED
    BY <1>1, <2>1, LoopFinite
<1>1b. PICK s \in Slot : s = Min(EmptySlot) /\ s \in EmptySlot
  <2>1. EmptySlot \in SUBSET Nat /\ EmptySlot \subseteq Slot
    BY ThreadFacts DEF EmptySlot
  <2> QED
    BY <1>1a, <2>1, MinExists
<1>2. spc[s] \in ClientRec
  BY <1>1, TypeFacts
<1>3. /\ SlotInv(s) /\ s \notin pfd
      /\ spc[s].refcnt = 0 /\ spc[s].ostatus = "FREE" /\ spc[s].inexec = FALSE
      /\ spc[s].respwait = {} /\ spc[s].mainlwp = FALSE /\ spc[s].state = "NEW"
      /\ s \notin draining
      /\ \A u \in Thread : at[u] = s => pc[u] = "signal"
  <2>1. SlotInv(s)
    BY InvBySlots
  <2> QED
    BY <1>1b, <2>1 DEF SlotInv, EmptyAt, EmptySlot
<1>4. /\ UNCHANGED <<wrklist, nwork, nworker, idleworker, wstate, disco, preforks, draining,
                     aborted, pc, at, goal, asleep>>
      /\ UNCHANGED poolVars
      /\ Becomes(s, [spc[s] EXCEPT !.refcnt = 1, !.respwait = {}])
      /\ pfd' = pfd \cup {s} /\ maxidx' = Max({maxidx, s}) /\ nfds' = nfds + 1
  BY <1>1a, <1>1b DEF Accept, poolVars, threadVars
<1>5. /\ spc'[s].refcnt = 1 /\ spc'[s].state = spc[s].state /\ spc'[s].ostatus = spc[s].ostatus
      /\ spc'[s].inexec = spc[s].inexec /\ spc'[s].nextreq = spc[s].nextreq
      /\ spc'[s].respwait = {} /\ spc'[s].mainlwp = spc[s].mainlwp /\ OtherSlots(s)
      /\ spc' \in [Slot -> ClientRec]
  <2>1. PICK d : d = [spc[s] EXCEPT !.refcnt = 1, !.respwait = {}]
    OBVIOUS
  <2>2. /\ d \in ClientRec /\ d.refcnt = 1 /\ d.state = spc[s].state /\ d.ostatus = spc[s].ostatus
        /\ d.inexec = spc[s].inexec /\ d.nextreq = spc[s].nextreq /\ d.respwait = {}
        /\ d.mainlwp = spc[s].mainlwp
    BY <1>2, <2>1 DEF ClientRec
  <2>3. Becomes(s, d)
    BY <1>4, <2>1, Zenon
  <2> QED
    BY <1>1, <2>2, <2>3, BecomesGives
<1>6. maxidx' \in 0 .. MAXCLI - 1 /\ maxidx' >= s /\ maxidx' >= maxidx /\ nfds' \in 1 .. MAXCLI
  <2>1. /\ {maxidx, s} \in SUBSET Nat /\ {maxidx, s} # {} /\ MAXCLI - 1 \in Nat
        /\ \A x \in {maxidx, s} : x <= MAXCLI - 1
    BY <1>1 DEF Slot
  <2>2. Max({maxidx, s}) \in {maxidx, s} /\ \A x \in {maxidx, s} : x <= Max({maxidx, s})
    BY <2>1, MaxExists
  <2> QED
    BY <1>1, <1>4, <2>1, <2>2
<1>7. PoolInv'
  BY <1>4, PoolStutters DEF IInv
<1>8. ServerTypeOK'
  BY <1>1, <1>4, <1>5, <1>6, <1>7, TypeFacts, TypeFactsPrime DEF PoolInv
<1>9. WellPlaced(Server)'
  BY <1>1, <1>4, ThreadFacts DEF WellPlaced, ServerPc, Goals, Places, IInv
<1>10. Local(Server, s)
  BY <1>1, <1>4, <1>5 DEF Local, Others
<1>11. NfdsCounts'
  <2>1. Slot \ EmptySlot' = (Slot \ EmptySlot) \cup {s} /\ s \notin Slot \ EmptySlot
    BY <1>1b, <1>4, <1>5 DEF EmptySlot, OtherSlots
  <2>2. Cardinality(Slot \ EmptySlot') = Cardinality(Slot \ EmptySlot) + 1
    BY <2>1, LoopFinite, FS_AddElement
  <2>3. Signalling' = Signalling
    BY <1>4 DEF Signalling
  <2> QED
    BY <1>1, <1>4, <2>2, <2>3, LoopFinite DEF NfdsCounts
<1>12. TableSound'
  <2>1. \A r \in pfd : r <= maxidx
    BY DEF TableSound, IInv
  <2>2. \A r \in pfd' : r <= maxidx'
    BY <1>1, <1>4, <1>6, <2>1 DEF Slot
  <2> QED
    BY <1>4, <2>2 DEF TableSound, IInv
<1>13. SlotInv(s)'
  <2>1. SlotInv(s)
    BY InvBySlots
  <2>2. /\ Queued(s)' = {} /\ Working(s)' = {} /\ Connected(s)'
        /\ ExecItems(s)' = {} /\ ExecWorkers(s)' = {} /\ ~ExecServer(s)'
    <3>1. Queued(s) = {} /\ Working(s) = {}
      BY <1>3 DEF SlotInv, LivesAt
    <3>2. Queued(s)' = {} /\ Working(s)' = {} /\ Connected(s)'
      BY <1>4, <3>1 DEF Queued, Working, Connected
    <3>3. ExecItems(s)' = {} /\ ExecWorkers(s)' = {}
      BY <1>4, <3>1 DEF Queued, Working, ExecItems, ExecWorkers
    <3>4. ~ExecServer(s)'
      BY <1>1, <1>4, ThreadFacts DEF ExecServer
    <3> QED
      BY <3>2, <3>3, <3>4
  <2>3. s \in pfd' /\ at'[Server] # s
    BY <1>1, <1>4, ThreadFacts
  <2>4. \A u \in Thread : at'[u] = s => pc'[u] = "signal"
    BY <1>3, <1>4
  <2>5. LivesAt(s)'
    BY <1>3, <1>5, <2>2, <2>3 DEF SlotInv, LivesAt
  <2>6. RefsAt(s)'
    BY <1>5, <2>2, FS_EmptySet DEF SlotInv, RefsAt
  <2>7. ClosesAt(s)'
    BY <2>4 DEF SlotInv, ClosesAt
  <2>8. EmptyAt(s)'
    BY <2>3 DEF SlotInv, EmptyAt
  <2>9. RespAt(s)'
    BY <1>5, <2>4, ThreadFacts DEF SlotInv, RespAt, Asking
  <2>10. SendAt(s)'
    BY <1>1, <1>3, <1>4, <1>5, <2>4 DEF SlotInv, SendAt
  <2>11. AnswersAt(s)'
    BY <1>5 DEF SlotInv, AnswersAt
  <2>12. SleepersAt(s)'
    BY <1>1, <1>4, <2>4 DEF SlotInv, SleepersAt
  <2>13. OnceAt(s)'
    BY <2>2 DEF SlotInv, OnceAt
  <2>14. MarkedAt(s)'
    BY <2>2, <2>3 DEF SlotInv, MarkedAt, ExecNone
  <2>16. ServedAt(s)'
    BY <2>3 DEF SlotInv, ServedAt
  <2> QED
    BY <2>5, <2>6, <2>7, <2>8, <2>9, <2>10, <2>11, <2>12, <2>13, <2>14, <2>16 DEF SlotInv
<1> QED
  BY <1>1, <1>4, <1>7, <1>8, <1>9, <1>10, <1>11, <1>12, <1>13, LocalKeepsInv

-----------------------------------------------------------------------------
(* The list of work. *)

(* An item is put at its end: Queue(). *)
LEMMA QueueKeepsInv ==
  ASSUME IInv, Queue
  PROVE  IInv'
<1>1. /\ Server \in Thread /\ pc[Server] = "queue" /\ Server \notin asleep
      /\ ServerTypeOK /\ asleep \subseteq Thread /\ wrklist \in Seq(Job)
      /\ goal[Server] \in {"exec", "syscall"}
  BY ThreadFacts, TypeFacts DEF Queue, Places, Goals, IInv, PoolTypeOK
<1>2. at[Server] \in Slot
  BY <1>1, AtFacts DEF IInv
<1>3. PICK s \in Slot : s = at[Server]
  BY <1>2
<1>4. UNCHANGED <<spc, pfd, nfds, maxidx, disco, preforks, asleep, draining, aborted>>
  BY DEF Queue, loopVars
<1>5. PICK j \in Job : j = [slot |-> s, type |-> goal[Server]]
  BY <1>1, SpAssumption
<1>6. /\ pc'[Server] = "poll" /\ at'[Server] = NoSlot /\ goal'[Server] = "none" /\ Others(Server)
      /\ pc' \in [Thread -> AnyPc] /\ at' \in [Thread -> Slot \cup {NoSlot}]
      /\ goal' \in [Thread -> AnyGoal]
  <2>1. "poll" \in AnyPc /\ "none" \in AnyGoal
    BY DEF AnyPc, ServerPc, AnyGoal
  <2>2. Goto(Server, "poll", NoSlot, "none")
    BY DEF Queue, Idle
  <2> QED
    BY <1>1, <2>1, <2>2, GotoGives
<1>7. /\ PoolInv' /\ wrklist' = Append(wrklist, j)
      /\ \A w \in Worker : wstate'[w] = "busy" <=> wstate[w] = "busy"
  <2>1. Enqueue(j)
    BY <1>3, <1>5 DEF Queue
  <2>2. PoolInv'
    BY <2>1, EnqueueKeepsPoolInv DEF IInv
  <2>3. wstate \in [Worker -> {"none", "top", "idle", "woken", "busy"}]
    BY <1>1 DEF ServerTypeOK, PoolTypeOK
  <2>4. \/ wstate' = wstate
        \/ \E w \in In("idle") : Become(w, "woken")
        \/ \E w \in In("none") : Become(w, "top")
    BY <2>1 DEF Enqueue, SignalIdle, CreateWorker
  <2>5. \A w \in Worker : wstate'[w] = "busy" <=> wstate[w] = "busy"
    BY <2>3, <2>4 DEF Become, In
  <2> QED
    BY <2>1, <2>2, <2>5 DEF Enqueue
<1>8. ServerTypeOK'
  BY <1>1, <1>4, <1>6, <1>7, TypeFacts, TypeFactsPrime DEF PoolInv
<1>9. WellPlaced(Server)'
  BY <1>1, <1>4, <1>6, ThreadFacts DEF WellPlaced, ServerPc
<1>9a. PICK n \in Nat :
         /\ DOMAIN wrklist = 1 .. n /\ DOMAIN wrklist' = 1 .. n + 1
         /\ \A i \in 1 .. n : wrklist'[i] = wrklist[i]
         /\ wrklist'[n + 1] = j
  <2>1. Len(wrklist) \in Nat /\ DOMAIN wrklist = 1 .. Len(wrklist)
    BY <1>1
  <2> QED
    BY <1>1, <1>7, <2>1
<1>9b. j.slot = s /\ \A r : j = [slot |-> r, type |-> "exec"] <=> r = s /\ goal[Server] = "exec"
  BY <1>5
<1>10. Local(Server, s)
  <2>1. ASSUME NEW r \in Slot, r # s
        PROVE  ListKept(r)
    <3>1. Queued(r)' = Queued(r)
      BY <1>3, <1>6, <1>9a, <1>9b, <2>1, ThreadFacts DEF Queued
    <3>2. ExecItems(r)' = ExecItems(r)
      BY <1>9a, <1>9b, <2>1 DEF ExecItems
    <3> QED
      BY <3>1, <3>2 DEF ListKept
  <2> QED
    BY <1>3, <1>4, <1>6, <2>1 DEF Local, OtherSlots
<1>11. NfdsCounts'
  BY <1>1, <1>4, <1>6, <1>10, NfdsLocal
<1>12. TableSound'
  BY <1>4 DEF TableSound, IInv
<1>13. SlotInv(s)'
  <2>1. SlotInv(s)
    BY InvBySlots
  <2>2. /\ s \in pfd /\ spc[s].state = "RUNNING"
        /\ Working(s)' = Working(s) /\ ExecWorkers(s)' = ExecWorkers(s)
        /\ ~ExecServer(s)' /\ (ExecServer(s) <=> goal[Server] = "exec")
        /\ ExecItems(s)' = IF goal[Server] = "exec" THEN ExecItems(s) \cup {n + 1} ELSE ExecItems(s)
    <3>1. s \in pfd /\ spc[s].state = "RUNNING"
      BY <1>1, <1>3, <2>1 DEF SlotInv, ServedAt
    <3>2. Working(s)' = Working(s) /\ ExecWorkers(s)' = ExecWorkers(s)
      BY <1>6, ThreadFacts DEF Working, ExecWorkers, Others
    <3>3. ~ExecServer(s)' /\ (ExecServer(s) <=> goal[Server] = "exec")
      BY <1>3, <1>6 DEF ExecServer
    <3>4. \A i : i \in ExecItems(s)' <=>
                   i \in ExecItems(s) \/ (i = n + 1 /\ goal[Server] = "exec")
      BY <1>9a, <1>9b DEF ExecItems
    <3> QED
      BY <3>1, <3>2, <3>3, <3>4
  <2>3. goal[Server] = "exec" => /\ ExecItems(s) = {} /\ ExecWorkers(s) = {}
                                 /\ spc[s].inexec /\ s \in draining
    BY <1>1, <2>1, <2>2 DEF SlotInv, OnceAt, MarkedAt, ExecNone
  <2>4. LivesAt(s)'
    BY <1>4, <2>1, <2>2 DEF SlotInv, LivesAt
  <2>5. RefsAt(s)'
    <3> DEFINE S == {i \in 1 .. n : wrklist[i].slot = s}
    <3>1. Queued(s) = S \cup {0} /\ Queued(s)' = S \cup {n + 1} /\ 0 \notin S /\ n + 1 \notin S
      <4>1. Queued(s) = S \cup {0}
        BY <1>1, <1>3, <1>9a DEF Queued
      <4>2. Queued(s)' = {i \in 1 .. n + 1 : wrklist'[i].slot = s}
        BY <1>6, <1>9a DEF Queued
      <4>3. {i \in 1 .. n + 1 : wrklist'[i].slot = s} = S \cup {n + 1}
        <5>1. \A i \in 1 .. n + 1 : i \in 1 .. n \/ i = n + 1
          OBVIOUS
        <5>2. n + 1 \in 1 .. n + 1 /\ \A i \in 1 .. n : i \in 1 .. n + 1
          OBVIOUS
        <5> QED
          BY <1>9a, <1>9b, <5>1, <5>2
      <4>4. 0 \notin 1 .. n /\ n + 1 \notin 1 .. n
        OBVIOUS
      <4> QED
        BY <4>1, <4>2, <4>3, <4>4
    <3>2. S \in SUBSET (1 .. n)
      OBVIOUS
    <3> HIDE DEF S
    <3>3. IsFiniteSet(S)
      <4>1. IsFiniteSet(1 .. n)
        BY FS_Interval
      <4> QED
        BY <3>2, <4>1, FS_Subset
    <3>4. Cardinality(Queued(s)') = Cardinality(Queued(s))
      <4>1. /\ Cardinality(S \cup {0}) = Cardinality(S) + 1
            /\ Cardinality(S \cup {n + 1}) = Cardinality(S) + 1
        BY <3>1, <3>3, FS_AddElement
      <4> QED
        BY <3>1, <4>1
    <3>5. Connected(s) /\ Connected(s)'
      BY <1>4, <2>2 DEF Connected
    <3> QED
      BY <1>4, <2>1, <2>2, <3>4, <3>5 DEF SlotInv, RefsAt
  <2>6. ClosesAt(s)'
    BY <1>4, <1>6, <2>1, <2>2 DEF SlotInv, ClosesAt, Others
  <2>7. EmptyAt(s)'
    BY <1>4, <2>2 DEF SlotInv, EmptyAt
  <2>8. RespAt(s)'
    <3>1. \A r \in spc[s].respwait : r.who \in Thread /\ r.who # Server
      BY <1>1, RespFacts, ThreadFacts
    <3> QED
      BY <1>4, <1>6, <2>1, <3>1, ThreadFacts DEF SlotInv, RespAt, Asking, Others
  <2>9. SendAt(s)'
    BY <1>1, <1>4, <1>6, <2>1 DEF SlotInv, SendAt, Others
  <2>10. AnswersAt(s)'
    BY <1>4, <2>1 DEF SlotInv, AnswersAt
  <2>11. SleepersAt(s)'
    BY <1>1, <1>4, <1>6, <2>1 DEF SlotInv, SleepersAt, Others
  <2>12. OnceAt(s)'
    BY <2>1, <2>2, <2>3 DEF SlotInv, OnceAt
  <2>13. MarkedAt(s)'
    <3>1. at'[Server] # s
      BY <1>6, ThreadFacts
    <3>2. \A w \in ExecWorkers(s) : pc'[w] = pc[w]
      BY <1>6, ThreadFacts DEF ExecWorkers, Others
    <3> QED
      BY <1>4, <2>1, <2>2, <2>3, <3>1, <3>2 DEF SlotInv, MarkedAt, ExecNone
  <2>15. ServedAt(s)'
    BY <1>6, ThreadFacts DEF SlotInv, ServedAt
  <2> QED
    BY <2>4, <2>5, <2>6, <2>7, <2>8, <2>9, <2>10, <2>11, <2>12, <2>13, <2>15 DEF SlotInv
<1> QED
  BY <1>1, <1>4, <1>7, <1>8, <1>9, <1>10, <1>11, <1>12, <1>13, LocalKeepsInv

(* The list without its first item: the others move up, and the item that the
   poll loop is about to put on it stays number 0. *)
LEMMA TailItems ==
  ASSUME wrklist \in Seq(Job), wrklist # <<>>, wrklist' = Tail(wrklist),
         pc'[Server] = pc[Server], at'[Server] = at[Server], NEW s
  PROVE  /\ 1 \in Queued(s) <=> Head(wrklist).slot = s
         /\ Cardinality(Queued(s)') = Cardinality(Queued(s) \ {1})
         /\ Queued(s) = {} => Queued(s)' = {}
         /\ 1 \in ExecItems(s) <=> Head(wrklist) = [slot |-> s, type |-> "exec"]
         /\ \A i \in ExecItems(s)' : i \in Nat /\ i + 1 \in ExecItems(s) /\ i + 1 # 1
         /\ \A i \in ExecItems(s) : i \in Nat /\ (i # 1 => i - 1 \in ExecItems(s)')
<1>1. PICK n \in Nat : /\ n > 0 /\ DOMAIN wrklist = 1 .. n /\ DOMAIN wrklist' = 1 .. n - 1
                       /\ \A i \in 1 .. n - 1 : wrklist'[i] = wrklist[i + 1]
                       /\ Head(wrklist) = wrklist[1]
  <2>1. Len(wrklist) \in Nat /\ Len(wrklist) > 0 /\ DOMAIN wrklist = 1 .. Len(wrklist)
    OBVIOUS
  <2>2. /\ Len(wrklist') = Len(wrklist) - 1 /\ DOMAIN wrklist' = 1 .. Len(wrklist) - 1
        /\ \A i \in 1 .. Len(wrklist) - 1 : wrklist'[i] = wrklist[i + 1]
    BY <2>1
  <2>3. Head(wrklist) = wrklist[1]
    OBVIOUS
  <2> QED
    BY <2>1, <2>2, <2>3
<1> DEFINE Put == at[Server] = s /\ pc[Server] = "queue"
<1>2. \A i : i \in Queued(s) <=> ((i \in 1 .. n /\ wrklist[i].slot = s) \/ (i = 0 /\ Put))
  BY <1>1 DEF Queued
<1>3. \A i : i \in Queued(s)' <=> ((i \in 1 .. n - 1 /\ wrklist[i + 1].slot = s) \/ (i = 0 /\ Put))
  BY <1>1 DEF Queued
<1>4. \A i : i \in ExecItems(s) <=> (i \in 1 .. n /\ wrklist[i] = [slot |-> s, type |-> "exec"])
  BY <1>1 DEF ExecItems
<1>5. \A i : i \in ExecItems(s)' <=>
                (i \in 1 .. n - 1 /\ wrklist[i + 1] = [slot |-> s, type |-> "exec"])
  BY <1>1 DEF ExecItems
<1> HIDE DEF Put
<1> DEFINE f == [i \in Queued(s) \ {1} |-> IF i = 0 THEN 0 ELSE i - 1]
<1>6. \A i \in Queued(s) \ {1} : f[i] \in Queued(s)' /\ i \in Nat
  BY <1>1, <1>2, <1>3
<1>7. \A i, j \in Queued(s) \ {1} : f[i] = f[j] => i = j
  BY <1>2, <1>6
<1>8. \A k \in Queued(s)' : \E i \in Queued(s) \ {1} : f[i] = k
  <2> SUFFICES ASSUME NEW k \in Queued(s)' PROVE \E i \in Queued(s) \ {1} : f[i] = k
    OBVIOUS
  <2>1. CASE k = 0
    <3>1. 0 \in Queued(s) \ {1}
      BY <1>2, <1>3, <2>1
    <3> QED
      BY <2>1, <3>1
  <2>2. CASE k # 0
    <3>1. k \in 1 .. n - 1 /\ wrklist[k + 1].slot = s
      BY <1>3, <2>2
    <3>2. k + 1 \in Queued(s) \ {1} /\ k + 1 # 0 /\ (k + 1) - 1 = k
      BY <1>1, <1>2, <3>1
    <3> QED
      BY <3>2
  <2> QED
    BY <2>1, <2>2
<1>9. ExistsBijection(Queued(s) \ {1}, Queued(s)')
  <2>1. f \in [Queued(s) \ {1} -> Queued(s)']
    BY <1>6
  <2> HIDE DEF f
  <2>2. f \in Bijection(Queued(s) \ {1}, Queued(s)')
    BY <2>1, <1>7, <1>8 DEF Bijection, Injection, Surjection, IsInjective
  <2> QED
    BY <2>2 DEF ExistsBijection
<1>10. IsFiniteSet(Queued(s) \ {1})
  BY HoldersFinite, FS_RemoveElement
<1>11. Cardinality(Queued(s)') = Cardinality(Queued(s) \ {1})
  BY <1>9, <1>10, FS_Bijection
<1>12. 1 \in Queued(s) <=> Head(wrklist).slot = s
  BY <1>1, <1>2
<1>13. Queued(s) = {} => Queued(s)' = {}
  BY <1>8
<1>14. 1 \in ExecItems(s) <=> Head(wrklist) = [slot |-> s, type |-> "exec"]
  BY <1>1, <1>4
<1>15. \A i \in ExecItems(s)' : i \in Nat /\ i + 1 \in ExecItems(s) /\ i + 1 # 1
  BY <1>1, <1>4, <1>5
<1>16. \A i \in ExecItems(s) : i \in Nat /\ (i # 1 => i - 1 \in ExecItems(s)')
  BY <1>1, <1>4, <1>5
<1> QED
  BY <1>11, <1>12, <1>13, <1>14, <1>15, <1>16

(* serv_workbouncer() takes an item, and with it its reference. *)
LEMMA TakeJobKeepsInv ==
  ASSUME IInv, NEW w \in Worker, TakeJob(w)
  PROVE  IInv'
<1>1. /\ w \in Thread /\ w # Server /\ wstate[w] # "busy" /\ pc[w] = "pool" /\ at[w] = NoSlot
      /\ goal[w] = "none" /\ w \notin asleep
      /\ ServerTypeOK /\ asleep \subseteq Thread /\ wrklist \in Seq(Job) /\ wrklist # <<>>
  <2>1. wstate[w] # "busy" /\ wrklist # <<>>
    BY DEF TakeJob, Take, TakeAtOnce, TakeWoken, TakeFirst
  <2> QED
    BY <2>1, ThreadFacts, TypeFacts DEF Places, Goals, IInv, PoolTypeOK
<1>2. PICK j \in Job : j = Head(wrklist)
  BY <1>1
<1>3. PICK s \in Slot : s = j.slot
  BY SpAssumption
<1>4. UNCHANGED <<spc, pfd, nfds, maxidx, disco, preforks, asleep, draining, aborted>>
  BY DEF TakeJob, loopVars
<1>5. j = [slot |-> s, type |-> "exec"] <=> j.type = "exec"
  BY <1>3, SpAssumption
<1>6. PICK p \in {"exec", "start"} :
        /\ pc'[w] = p /\ at'[w] = s /\ goal'[w] = "none" /\ Others(w)
        /\ p = "exec" <=> j = [slot |-> s, type |-> "exec"]
        /\ pc' \in [Thread -> AnyPc] /\ at' \in [Thread -> Slot \cup {NoSlot}]
        /\ goal' \in [Thread -> AnyGoal]
  <2>1. {"exec", "start"} \subseteq AnyPc /\ "none" \in AnyGoal
    BY DEF AnyPc, WorkerPc, AnyGoal
  <2>2. Goto(w, IF j.type = "exec" THEN "exec" ELSE "start", s, "none")
    BY <1>2, <1>3 DEF TakeJob
  <2> QED
    BY <1>1, <1>5, <2>1, <2>2, GotoGives
<1>7. /\ PoolInv' /\ wrklist' = Tail(wrklist) /\ wstate'[w] = "busy"
      /\ \A v \in Worker : v # w => wstate'[v] = wstate[v]
  <2>1. Take(w)
    BY DEF TakeJob
  <2>2. PoolInv'
    BY <2>1, TakeKeepsPoolInv DEF IInv
  <2>3. wrklist' = Tail(wrklist) /\ wstate' = [wstate EXCEPT ![w] = "busy"]
    BY <2>1 DEF Take, TakeAtOnce, TakeWoken, TakeFirst, Become
  <2> QED
    BY <1>1, <2>2, <2>3 DEF ServerTypeOK, PoolTypeOK
<1>8. ServerTypeOK'
  BY <1>1, <1>4, <1>6, <1>7, TypeFacts, TypeFactsPrime DEF PoolInv
<1>9. WellPlaced(w)'
  BY <1>1, <1>4, <1>6, <1>7, ThreadFacts DEF WellPlaced, WorkerPc
<1>10. pc'[Server] = pc[Server] /\ at'[Server] = at[Server] /\ goal'[Server] = goal[Server]
  BY <1>1, <1>6, ThreadFacts DEF Others
<1>11. Local(w, s)
  <2>1. ASSUME NEW r \in Slot, r # s
        PROVE  ListKept(r)
    <3>1. /\ 1 \notin Queued(r) /\ 1 \notin ExecItems(r)
          /\ Cardinality(Queued(r)') = Cardinality(Queued(r) \ {1})
          /\ Queued(r) = {} => Queued(r)' = {}
          /\ \A i \in ExecItems(r)' : i \in Nat /\ i + 1 \in ExecItems(r)
          /\ \A i \in ExecItems(r) : i \in Nat /\ (i # 1 => i - 1 \in ExecItems(r)')
      <4>1. Head(wrklist).slot # r /\ Head(wrklist) # [slot |-> r, type |-> "exec"]
        BY <1>2, <1>3, <2>1
      <4> QED
        BY <1>1, <1>7, <1>10, <4>1, TailItems
    <3>2. Queued(r) \ {1} = Queued(r)
      BY <3>1
    <3>3. (\A i, k \in ExecItems(r) : i = k) => (\A i, k \in ExecItems(r)' : i = k)
      BY <3>1
    <3>4. ExecItems(r) = {} <=> ExecItems(r)' = {}
      BY <3>1
    <3> QED
      BY <3>1, <3>2, <3>3, <3>4 DEF ListKept
  <2> QED
    BY <1>1, <1>4, <1>6, <2>1 DEF Local, OtherSlots
<1>12. NfdsCounts'
  BY <1>1, <1>4, <1>6, <1>11, NfdsLocal
<1>13. TableSound'
  BY <1>4 DEF TableSound, IInv
<1>14. SlotInv(s)'
  <2>1. SlotInv(s)
    BY InvBySlots
  <2>2. /\ 1 \in Queued(s)
        /\ Cardinality(Queued(s)') = Cardinality(Queued(s) \ {1})
        /\ 1 \in ExecItems(s) <=> p = "exec"
        /\ \A i \in ExecItems(s)' : i \in Nat /\ i + 1 \in ExecItems(s) /\ i + 1 # 1
        /\ \A i \in ExecItems(s) : i \in Nat /\ (i # 1 => i - 1 \in ExecItems(s)')
    BY <1>1, <1>2, <1>3, <1>6, <1>7, <1>10, TailItems
  <2>3. /\ Working(s)' = Working(s) \cup {w} /\ w \notin Working(s)
        /\ ExecServer(s)' <=> ExecServer(s)
        /\ Connected(s)' <=> Connected(s)
        /\ ServerOnLwp' <=> ServerOnLwp
    <3>1. Working(s)' = Working(s) \cup {w} /\ w \notin Working(s)
      BY <1>1, <1>6, ThreadFacts DEF Working, Others
    <3> QED
      BY <1>4, <1>10, <3>1 DEF ExecServer, Connected, ServerOnLwp
  <2>4. p = "exec" => /\ ExecItems(s)' = {} /\ ExecWorkers(s) = {} /\ ExecWorkers(s)' = {w}
                      /\ ~ExecServer(s) /\ ~ExecNone(s) /\ ~ExecNone(s)'
                      /\ s \in pfd => s \in draining
    <3> SUFFICES ASSUME p = "exec"
                 PROVE  /\ ExecItems(s)' = {} /\ ExecWorkers(s) = {} /\ ExecWorkers(s)' = {w}
                        /\ ~ExecServer(s) /\ ~ExecNone(s) /\ ~ExecNone(s)'
                        /\ s \in pfd => s \in draining
      OBVIOUS
    <3>1. 1 \in ExecItems(s) /\ \A i \in ExecItems(s) : i = 1
      BY <2>1, <2>2 DEF SlotInv, OnceAt
    <3>2. ExecItems(s)' = {}
      BY <2>2, <3>1
    <3>3. ExecWorkers(s) = {} /\ ~ExecServer(s)
      BY <2>1, <3>1 DEF SlotInv, OnceAt
    <3>4. ExecWorkers(s)' = {w}
      BY <1>1, <1>6, <3>3, ThreadFacts DEF ExecWorkers, Others
    <3>5. s \in pfd => s \in draining
      BY <2>1, <3>1 DEF SlotInv, MarkedAt
    <3> QED
      BY <3>1, <3>2, <3>3, <3>4, <3>5 DEF ExecNone
  <2>5. p = "start" => /\ ExecWorkers(s)' = ExecWorkers(s)
                       /\ ExecItems(s) = {} <=> ExecItems(s)' = {}
                       /\ (\A i, k \in ExecItems(s) : i = k) => (\A i, k \in ExecItems(s)' : i = k)
                       /\ ExecNone(s)' <=> ExecNone(s)
    <3> SUFFICES ASSUME p = "start"
                 PROVE  /\ ExecWorkers(s)' = ExecWorkers(s)
                        /\ ExecItems(s) = {} <=> ExecItems(s)' = {}
                        /\ (\A i, k \in ExecItems(s) : i = k) => (\A i, k \in ExecItems(s)' : i = k)
                        /\ ExecNone(s)' <=> ExecNone(s)
      OBVIOUS
    <3>1. 1 \notin ExecItems(s)
      BY <2>2
    <3>2. ExecItems(s) = {} <=> ExecItems(s)' = {}
      BY <2>2, <3>1
    <3>3. (\A i, k \in ExecItems(s) : i = k) => (\A i, k \in ExecItems(s)' : i = k)
      BY <2>2, <3>1
    <3>4. ExecWorkers(s)' = ExecWorkers(s)
      BY <1>1, <1>6, ThreadFacts DEF ExecWorkers, Others
    <3> QED
      BY <2>3, <3>2, <3>3, <3>4 DEF ExecNone
  <2>6. spc[s].state # "NEW" /\ spc[s].refcnt # 0
    <3>1. spc[s].state # "NEW"
      BY <2>1, <2>2 DEF SlotInv, LivesAt
    <3>2. Cardinality(Queued(s)) # 0 /\ Cardinality(Queued(s)) \in Nat /\ Cardinality(Working(s)) \in Nat
      BY <1>1, <2>2, HoldersFinite
    <3> QED
      BY <2>1, <3>1, <3>2 DEF SlotInv, RefsAt
  <2>7. LivesAt(s)'
    BY <1>4, <2>1, <2>6 DEF SlotInv, LivesAt
  <2>8. RefsAt(s)'
    <3>1. /\ IsFiniteSet(Queued(s)) /\ IsFiniteSet(Working(s))
          /\ Cardinality(Queued(s)) \in Nat /\ Cardinality(Working(s)) \in Nat
      BY <1>1, HoldersFinite
    <3>2. Cardinality(Queued(s)') = Cardinality(Queued(s)) - 1
      BY <2>2, <3>1, FS_RemoveElement
    <3>3. Cardinality(Working(s)') = Cardinality(Working(s)) + 1
      BY <2>3, <3>1, FS_AddElement
    <3> QED
      BY <1>4, <2>1, <2>3, <3>1, <3>2, <3>3 DEF SlotInv, RefsAt
  <2>9. ClosesAt(s)'
    <3>1. \A t \in Thread : ~(at[t] = s /\ pc[t] = "closing")
      BY <2>1, <2>6 DEF SlotInv, ClosesAt
    <3> QED
      BY <1>6, <3>1 DEF ClosesAt, Others
  <2>10. EmptyAt(s)'
    BY <1>4, <2>6 DEF EmptyAt
  <2>11. RespAt(s)'
    <3>1. \A r \in spc[s].respwait : r.who \in Thread /\ r.who # w
      BY <1>1, <2>1, RespFacts, ThreadFacts DEF SlotInv, RespAt, Asking
    <3> QED
      BY <1>1, <1>4, <1>6, <2>1, <3>1, ThreadFacts DEF SlotInv, RespAt, Asking, Others
  <2>12. SendAt(s)'
    BY <1>1, <1>4, <1>6, <2>1 DEF SlotInv, SendAt, Others
  <2>13. AnswersAt(s)'
    BY <1>4, <2>1 DEF SlotInv, AnswersAt
  <2>14. SleepersAt(s)'
    BY <1>1, <1>4, <1>6, <2>1 DEF SlotInv, SleepersAt, Others
  <2>15. OnceAt(s)'
    BY <1>6, <2>1, <2>3, <2>4, <2>5 DEF SlotInv, OnceAt
  <2>16. MarkedAt(s)'
    <3>1. CASE p = "exec"
      <4>1. \A v \in ExecWorkers(s)' : v = w
        BY <2>4, <3>1
      <4> QED
        BY <1>4, <1>10, <2>1, <2>3, <2>4, <3>1 DEF SlotInv, MarkedAt
    <3>2. CASE p = "start"
      <4>1. \A v \in ExecWorkers(s) : pc'[v] = pc[v]
        BY <1>1, <1>6, ThreadFacts DEF ExecWorkers, Others
      <4> QED
        BY <1>4, <1>10, <2>1, <2>3, <2>5, <3>2, <4>1 DEF SlotInv, MarkedAt
    <3> QED
      BY <3>1, <3>2
  <2>18. ServedAt(s)'
    BY <1>4, <1>10, <2>1 DEF SlotInv, ServedAt
  <2> QED
    BY <2>7, <2>8, <2>9, <2>10, <2>11, <2>12, <2>13, <2>14, <2>15, <2>16, <2>18 DEF SlotInv
<1> QED
  BY <1>1, <1>4, <1>7, <1>8, <1>9, <1>11, <1>12, <1>13, <1>14, LocalKeepsInv

-----------------------------------------------------------------------------
(* The sections that lock for sending, one by one. *)

(* Who is not asleep, and a client as it is. *)
LEMMA SenderFacts ==
  ASSUME IInv, NEW t \in Thread, pc[t] \notin {"poll", "pool"}
  PROVE  /\ at[t] \in Slot /\ spc[at[t]] \in ClientRec /\ spc[at[t]].nextreq \in Nat
         /\ pc[t] \notin {"lock", "exec", "wait"} => t \notin asleep
         /\ t # Server => t \in Worker
  BY AtFacts, RespFacts, ThreadFacts DEF IInv, Places

(* sendlockl() again, after a wake-up. *)
LEMMA RelockKeepsInv ==
  ASSUME IInv, NEW t \in Thread, Relock(t)
  PROVE  IInv'
<1>1. /\ pc[t] = "lock" /\ t \notin asleep /\ SendLock(t, at[t], spc[at[t]], goal[t])
      /\ UNCHANGED <<poolVars, loopVars, preforks, draining, aborted>>
  BY DEF Relock, Client
<1>2. /\ at[t] \in Slot /\ spc[at[t]] \in ClientRec /\ spc[at[t]].nextreq \in Nat
      /\ t # Server => t \in Worker
  BY <1>1, SenderFacts
<1>3. /\ t = Server => goal[t] \in {"answer", "noprefork", "welcome"}
      /\ t # Server => goal[t] \in {"copyin", "copyout", "reply"}
  BY <1>1, <1>2 DEF IInv, Goals
<1>4. goal[t] \in AnyGoal /\ preforks \in 0 .. MaxFork
  BY TypeFacts DEF IInv
<1>5. MaySend(t, at[t], spc[at[t]], goal[t])
  BY <1>1, <1>2, <1>3 DEF MaySend
<1> QED
  BY <1>1, <1>2, <1>4, <1>5, SendLockKeepsInv

(* A worker sends, from where it is. *)
LEMMA WorkerSends ==
  ASSUME IInv, NEW w \in Worker, pc[w] \in {"start", "sys", "execreply"},
         NEW c \in ClientRec, NEW g \in {"copyin", "copyout", "reply"},
         SendLock(w, at[w], c, g),
         UNCHANGED <<poolVars, loopVars, preforks, draining, aborted>>,
         c.refcnt = spc[at[w]].refcnt, c.state = spc[at[w]].state,
         c.ostatus = spc[at[w]].ostatus, c.inexec = spc[at[w]].inexec,
         c.mainlwp = spc[at[w]].mainlwp,
         g # "reply" => pc[w] = "sys",
         IF g = "copyin"
         THEN /\ c.respwait = spc[at[w]].respwait \cup {Asked(spc[at[w]], w)}
              /\ c.nextreq = spc[at[w]].nextreq + 1
         ELSE c.respwait = spc[at[w]].respwait /\ c.nextreq >= spc[at[w]].nextreq
  PROVE  IInv'
<1>1. w \in Thread /\ w # Server
  BY ThreadFacts
<1>2. at[w] \in Slot /\ w \notin asleep
  BY <1>1, SenderFacts
<1>3. g \in AnyGoal /\ preforks' \in 0 .. MaxFork
  BY TypeFacts DEF IInv, AnyGoal
<1>4. MaySend(w, at[w], c, g)
  BY <1>1, <1>2 DEF MaySend
<1> QED
  BY <1>1, <1>2, <1>3, <1>4, SendLockKeepsInv

(* serv_handlesyscall() without an lwp answers; with one it goes on. *)
LEMMA StartKeepsInv ==
  ASSUME IInv, NEW w \in Worker, Start(w)
  PROVE  IInv'
<1>1. pc[w] = "start" /\ UNCHANGED <<poolVars, loopVars, preforks, draining, aborted>>
  BY DEF Start
<1>2. /\ spc[at[w]] \in ClientRec /\ spc[at[w]].nextreq \in Nat
      /\ spc[at[w]].nextreq >= spc[at[w]].nextreq
  BY <1>1, SenderFacts, ThreadFacts
<1>3. CASE at[w] \in draining \ pid1
  <2>1. SendLock(w, at[w], spc[at[w]], "reply")
    BY <1>3 DEF Start, Client
  <2> QED
    BY <1>1, <1>2, <2>1, WorkerSends
<1>4. CASE at[w] \notin draining \ pid1
  <2>1. Goto(w, "sys", at[w], "none") /\ UNCHANGED <<spc, asleep>>
    BY <1>4 DEF Start
  <2> QED
    BY <1>1, <2>1, StartSysKeepsInv
<1> QED
  BY <1>3, <1>4

(* copyin_req() and anonmmap_req(). *)
LEMMA CopyinKeepsInv ==
  ASSUME IInv, NEW w \in Worker, Copyin(w)
  PROVE  IInv'
<1>1. /\ pc[w] = "sys" /\ SendLock(w, at[w], WithRequest(spc[at[w]], w), "copyin")
      /\ UNCHANGED <<poolVars, loopVars, preforks, draining, aborted>>
  BY DEF Copyin, Client
<1>2. spc[at[w]] \in ClientRec
  BY <1>1, SenderFacts, ThreadFacts
<1>3. \A c \in ClientRec : /\ WithRequest(c, w) \in ClientRec
                           /\ WithRequest(c, w).refcnt = c.refcnt /\ WithRequest(c, w).state = c.state
                           /\ WithRequest(c, w).ostatus = c.ostatus
                           /\ WithRequest(c, w).inexec = c.inexec
                           /\ WithRequest(c, w).mainlwp = c.mainlwp
                           /\ WithRequest(c, w).respwait = c.respwait \cup {Asked(c, w)}
                           /\ WithRequest(c, w).nextreq = c.nextreq + 1
  <2> SUFFICES ASSUME NEW c \in ClientRec
               PROVE  /\ WithRequest(c, w) \in ClientRec
                      /\ WithRequest(c, w).refcnt = c.refcnt /\ WithRequest(c, w).state = c.state
                      /\ WithRequest(c, w).ostatus = c.ostatus
                      /\ WithRequest(c, w).inexec = c.inexec
                      /\ WithRequest(c, w).mainlwp = c.mainlwp
                      /\ WithRequest(c, w).respwait = c.respwait \cup {Asked(c, w)}
                      /\ WithRequest(c, w).nextreq = c.nextreq + 1
    OBVIOUS
  <2>1. c.nextreq \in Nat /\ c.respwait \in SUBSET Respwait
    BY DEF ClientRec
  <2>2. Asked(c, w) \in Respwait
    BY <2>1 DEF Asked, Respwait
  <2>3. PICK q \in SUBSET Respwait : q = c.respwait \cup {Asked(c, w)}
    BY <2>1, <2>2
  <2>4. WithRequest(c, w) = [c EXCEPT !.respwait = q, !.nextreq = c.nextreq + 1]
    BY <2>3 DEF WithRequest, ClientRec
  <2>5. c.nextreq + 1 \in Nat
    BY <2>1
  <2> QED
    BY <2>3, <2>4, <2>5 DEF ClientRec
<1>4. PICK d \in ClientRec : d = WithRequest(spc[at[w]], w)
  BY <1>2, <1>3
<1>5. SendLock(w, at[w], d, "copyin")
  BY <1>1, <1>4
<1> QED
  BY <1>1, <1>2, <1>3, <1>4, <1>5, WorkerSends

(* copyout_req(). *)
LEMMA CopyoutKeepsInv ==
  ASSUME IInv, NEW w \in Worker, Copyout(w)
  PROVE  IInv'
<1>1. /\ pc[w] = "sys" /\ SendLock(w, at[w], [spc[at[w]] EXCEPT !.nextreq = @ + 1], "copyout")
      /\ UNCHANGED <<poolVars, loopVars, preforks, draining, aborted>>
  BY DEF Copyout, Client
<1>2. spc[at[w]] \in ClientRec
  BY <1>1, SenderFacts, ThreadFacts
<1>3. ASSUME NEW c \in ClientRec
      PROVE  /\ [c EXCEPT !.nextreq = @ + 1] \in ClientRec
             /\ [c EXCEPT !.nextreq = @ + 1].refcnt = c.refcnt
             /\ [c EXCEPT !.nextreq = @ + 1].state = c.state
             /\ [c EXCEPT !.nextreq = @ + 1].ostatus = c.ostatus
             /\ [c EXCEPT !.nextreq = @ + 1].inexec = c.inexec
             /\ [c EXCEPT !.nextreq = @ + 1].mainlwp = c.mainlwp
             /\ [c EXCEPT !.nextreq = @ + 1].respwait = c.respwait
             /\ [c EXCEPT !.nextreq = @ + 1].nextreq >= c.nextreq
  BY DEF ClientRec
<1>4. PICK d \in ClientRec : /\ d = [spc[at[w]] EXCEPT !.nextreq = @ + 1]
                             /\ d.refcnt = spc[at[w]].refcnt /\ d.state = spc[at[w]].state
                             /\ d.ostatus = spc[at[w]].ostatus /\ d.inexec = spc[at[w]].inexec
                             /\ d.mainlwp = spc[at[w]].mainlwp
                             /\ d.respwait = spc[at[w]].respwait
                             /\ d.nextreq >= spc[at[w]].nextreq
  BY <1>2, <1>3
<1>5. SendLock(w, at[w], d, "copyout")
  BY <1>1, <1>4, Zenon
<1> QED
  BY <1>1, <1>4, <1>5, WorkerSends

(* The result of a system call or of an exec. *)
LEMMA ReplyKeepsInv ==
  ASSUME IInv, NEW w \in Worker, Reply(w)
  PROVE  IInv'
<1>1. /\ pc[w] \in {"sys", "execreply"} /\ SendLock(w, at[w], spc[at[w]], "reply")
      /\ UNCHANGED <<poolVars, loopVars, preforks, draining, aborted>>
  BY DEF Reply, Client
<1>2. /\ spc[at[w]] \in ClientRec /\ spc[at[w]].nextreq \in Nat
      /\ spc[at[w]].nextreq >= spc[at[w]].nextreq
  BY <1>1, SenderFacts, ThreadFacts
<1> QED
  BY <1>1, <1>2, WorkerSends

(* The poll loop answers a client, which it may have given a main lwp. *)
LEMMA ServerSends ==
  ASSUME IInv, NEW s \in Slot, NEW c \in ClientRec, NEW g \in {"answer", "noprefork", "welcome"},
         \/ pc[Server] = "poll" /\ s \in pfd
         \/ pc[Server] \in {"prefork", "sched"} /\ at[Server] = s,
         SendLock(Server, s, c, g),
         preforks' \in 0 .. MaxFork,
         UNCHANGED <<poolVars, loopVars, draining, aborted>>,
         c.refcnt = spc[s].refcnt, c.state = spc[s].state, c.ostatus = spc[s].ostatus,
         c.inexec = spc[s].inexec, c.respwait = spc[s].respwait, c.nextreq = spc[s].nextreq,
         s \in pfd \/ c.mainlwp = spc[s].mainlwp,
         g = "welcome" => spc[s].state = "NEW",
         g = "noprefork" => pc[Server] = "prefork"
  PROVE  IInv'
<1>1. Server \in Thread /\ Server \notin asleep
  BY ThreadFacts DEF IInv, Places
<1>2. g \in AnyGoal /\ c.nextreq >= spc[s].nextreq
  BY DEF AnyGoal, ClientRec
<1>3. MaySend(Server, s, c, g)
  BY <1>1, <1>2 DEF MaySend
<1> QED
  BY <1>1, <1>2, <1>3, SendLockKeepsInv

(* A frame that is only answered. *)
LEMMA RefuseKeepsInv ==
  ASSUME IInv, NEW s \in Slot, Refuse(s)
  PROVE  IInv'
<1>1. pc[Server] = "poll" /\ s \in pfd /\ SendLock(Server, s, spc[s], "answer")
  BY DEF Refuse, Readable
<1>2. UNCHANGED <<poolVars, loopVars, preforks, draining, aborted>>
  BY DEF Refuse
<1>3. spc[s] \in ClientRec /\ preforks' \in 0 .. MaxFork
  BY <1>2, TypeFacts DEF IInv
<1> QED
  BY <1>1, <1>2, <1>3, ServerSends

(* The first handshake. *)
LEMMA HandshakeKeepsInv ==
  ASSUME IInv, NEW s \in Slot, NEW b \in BOOLEAN, Handshake(s, b)
  PROVE  IInv'
<1>1. /\ pc[Server] = "poll" /\ s \in pfd /\ spc[s].state = "NEW"
      /\ SendLock(Server, s, [spc[s] EXCEPT !.mainlwp = TRUE], "welcome")
      /\ UNCHANGED <<poolVars, loopVars, draining, aborted>>
  BY DEF Handshake, Readable
<1>2. spc[s] \in ClientRec /\ preforks \in 0 .. MaxFork
  BY TypeFacts DEF IInv
<1>3. preforks' \in 0 .. MaxFork
  <2>1. MaxFork \in Nat
    BY SpAssumption
  <2> QED
    BY <1>2, <2>1 DEF Handshake
<1>4. ASSUME NEW c \in ClientRec
      PROVE  /\ [c EXCEPT !.mainlwp = TRUE] \in ClientRec
             /\ [c EXCEPT !.mainlwp = TRUE].refcnt = c.refcnt
             /\ [c EXCEPT !.mainlwp = TRUE].state = c.state
             /\ [c EXCEPT !.mainlwp = TRUE].ostatus = c.ostatus
             /\ [c EXCEPT !.mainlwp = TRUE].inexec = c.inexec
             /\ [c EXCEPT !.mainlwp = TRUE].respwait = c.respwait
             /\ [c EXCEPT !.mainlwp = TRUE].nextreq = c.nextreq
  BY DEF ClientRec
<1>5. PICK d \in ClientRec : /\ d = [spc[s] EXCEPT !.mainlwp = TRUE]
                             /\ d.refcnt = spc[s].refcnt /\ d.state = spc[s].state
                             /\ d.ostatus = spc[s].ostatus /\ d.inexec = spc[s].inexec
                             /\ d.respwait = spc[s].respwait /\ d.nextreq = spc[s].nextreq
  BY <1>2, <1>4
<1>6. SendLock(Server, s, d, "welcome")
  BY <1>1, <1>5, Zenon
<1> QED
  BY <1>1, <1>3, <1>5, <1>6, ServerSends

(* A prefork that is claimed and then is not used, with or without a word. *)
LEMMA DropPreforkKeepsInv ==
  ASSUME IInv, NEW s \in Slot, NEW b \in BOOLEAN, DropPrefork(s, b)
  PROVE  IInv'
<1>1. CASE b
  <2>1. /\ pc[Server] = "poll" /\ s \in pfd /\ SendLock(Server, s, spc[s], "answer")
        /\ UNCHANGED <<poolVars, loopVars, draining, aborted>>
    BY <1>1 DEF DropPrefork, Readable
  <2>2. spc[s] \in ClientRec /\ preforks \in 0 .. MaxFork /\ MaxFork \in Nat
    BY TypeFacts, SpAssumption DEF IInv
  <2>3. preforks' \in 0 .. MaxFork
    BY <2>2 DEF DropPrefork
  <2> QED
    BY <2>1, <2>2, <2>3, ServerSends
<1>2. CASE ~b
  <2>1. DropPrefork(s, FALSE)
    BY <1>2
  <2> QED
    BY <2>1, DropKeepsInv
<1> QED
  BY <1>1, <1>2

(* The end of a prefork, good or bad. *)
LEMMA PreforkDoneKeepsInv ==
  ASSUME IInv, PreforkDone
  PROVE  IInv'
<1>1. pc[Server] = "prefork" /\ UNCHANGED <<poolVars, loopVars, draining, aborted>>
  BY DEF PreforkDone
<1>2. PICK s \in Slot : s = at[Server]
  BY <1>1, SenderFacts, ThreadFacts
<1>3. spc[s] \in ClientRec /\ preforks \in 0 .. MaxFork /\ MaxFork \in Nat
  BY TypeFacts, SpAssumption DEF IInv
<1>4. PICK g \in {"answer", "noprefork"} : SendLock(Server, s, spc[s], g)
  BY <1>2 DEF PreforkDone
<1>5. preforks' \in 0 .. MaxFork
  BY <1>3 DEF PreforkDone
<1> QED
  BY <1>1, <1>2, <1>3, <1>4, <1>5, ServerSends

(* schedulework() without memory and workers answers; else it takes a
   reference. *)
LEMMA ScheduleStepKeepsInv ==
  ASSUME IInv, Schedule
  PROVE  IInv'
<1>1. pc[Server] = "sched" /\ UNCHANGED <<poolVars, loopVars, preforks, draining, aborted>>
  BY DEF Schedule
<1>2. PICK s \in Slot : s = at[Server]
  BY <1>1, SenderFacts, ThreadFacts
<1>3. CASE /\ Becomes(s, Referenced(spc[s])) /\ Goto(Server, "queue", s, goal[Server])
           /\ UNCHANGED asleep
  BY <1>1, <1>2, <1>3, ScheduleKeepsInv
<1>4. CASE SendLock(Server, s, spc[s], "answer")
  <2>1. spc[s] \in ClientRec /\ preforks' \in 0 .. MaxFork
    BY <1>1, TypeFacts DEF IInv
  <2> QED
    BY <1>1, <1>2, <1>4, <2>1, ServerSends
<1> QED
  BY <1>2, <1>3, <1>4 DEF Schedule

-----------------------------------------------------------------------------
(* IInv is an invariant. *)

LEMMA InitInv == Init => IInv
<1> SUFFICES ASSUME Init PROVE IInv
  OBVIOUS
<1>1. /\ \A s \in Slot : spc[s] = NewClient
      /\ pfd = {} /\ nfds = 1 /\ maxidx = 0 /\ disco = 0 /\ preforks = 0
      /\ asleep = {} /\ draining = {} /\ aborted = FALSE
      /\ pc[Server] = "poll" /\ \A w \in Worker : pc[w] = "pool"
      /\ \A t \in Thread : at[t] = NoSlot /\ goal[t] = "none"
      /\ wrklist = <<>> /\ \A w \in Worker : wstate[w] = "none"
  BY ThreadFacts DEF Init, PoolInit
<1>2. PoolInv
  BY PoolInitInv DEF Init
<1>3. /\ NewClient \in ClientRec /\ NewClient.refcnt = 0 /\ NewClient.state = "NEW"
      /\ NewClient.ostatus = "FREE" /\ NewClient.inexec = FALSE /\ NewClient.nextreq = 0
      /\ NewClient.respwait = {} /\ NewClient.mainlwp = FALSE
  BY DEF NewClient, ClientRec
<1>4. ServerTypeOK
  <2>1. spc \in [Slot -> ClientRec]
    BY <1>3 DEF Init
  <2>2. "poll" \in AnyPc /\ "pool" \in AnyPc /\ "none" \in AnyGoal
    BY DEF AnyPc, ServerPc, WorkerPc, AnyGoal
  <2>3. /\ pc \in [Thread -> AnyPc] /\ at \in [Thread -> Slot \cup {NoSlot}]
        /\ goal \in [Thread -> AnyGoal]
    BY <2>2 DEF Init
  <2>4. nfds \in 1 .. MAXCLI /\ maxidx \in 0 .. MAXCLI - 1 /\ disco \in Nat /\ preforks \in 0 .. MaxFork
    BY <1>1, SpAssumption
  <2> QED
    BY <1>1, <1>2, <2>1, <2>3, <2>4, TypeFacts DEF PoolInv
<1>5. Places /\ Goals
  BY <1>1, ThreadFacts DEF Places, Goals, ServerPc, WorkerPc
<1>6. NfdsCounts /\ TableSound
  <2>1. Slot \ EmptySlot = {}
    BY <1>1, <1>3 DEF EmptySlot
  <2>2. Signalling = {}
    BY <1>1, ThreadFacts DEF Signalling
  <2>3. Cardinality(Slot \ EmptySlot) = 0 /\ Cardinality(Signalling) = 0
    BY <2>1, <2>2, FS_EmptySet
  <2> QED
    BY <1>1, <2>3 DEF NfdsCounts, TableSound
<1>7. ASSUME NEW s \in Slot
      PROVE  SlotInv(s)
  <2>1. \A t \in Thread : at[t] # s
    BY <1>1, ThreadFacts
  <2>2. /\ Queued(s) = {} /\ Working(s) = {} /\ ExecItems(s) = {} /\ ExecWorkers(s) = {}
        /\ ~ExecServer(s) /\ ~Connected(s)
    BY <1>1, <2>1, ThreadFacts DEF Queued, Working, ExecItems, ExecWorkers, ExecServer, Connected
  <2>3. RefsAt(s)
    BY <1>1, <1>3, <2>2, FS_EmptySet DEF RefsAt
  <2>4. LivesAt(s) /\ ClosesAt(s) /\ EmptyAt(s)
    BY <1>1, <1>3, <2>1, <2>2 DEF LivesAt, ClosesAt, EmptyAt
  <2>5. RespAt(s) /\ SendAt(s) /\ AnswersAt(s) /\ SleepersAt(s)
    BY <1>1, <1>3, <2>1, ThreadFacts DEF RespAt, SendAt, AnswersAt, SleepersAt
  <2>6. OnceAt(s) /\ MarkedAt(s) /\ ServedAt(s)
    BY <1>1, <1>3, <2>1, <2>2, ThreadFacts DEF OnceAt, MarkedAt, ServedAt, ExecNone
  <2> QED
    BY <2>3, <2>4, <2>5, <2>6 DEF SlotInv
<1> QED
  BY <1>2, <1>4, <1>5, <1>6, <1>7, InvBySlots DEF LoopInv

(* What a thread does by itself. *)
LEMMA StepKeepsInv ==
  ASSUME IInv, NEW t \in Thread, Step(t)
  PROVE  IInv'
<1>1. CASE Relock(t) \/ SendDone(t) \/ Release(t) \/ Close(t) \/ SignalDisco(t)
  BY <1>1, RelockKeepsInv, SendDoneKeepsInv, ReleaseKeepsInv, CloseKeepsInv, SignalDiscoKeepsInv
<1>2. CASE LwpExit \/ Zero \/ PreforkDone \/ Schedule \/ Queue
  BY <1>2, LwpExitKeepsInv, ZeroKeepsInv, PreforkDoneKeepsInv, ScheduleStepKeepsInv, QueueKeepsInv
<1>3. CASE t \in Worker /\ (TakeJob(t) \/ NoJob(t) \/ Start(t) \/ WaitResume(t) \/ Copyin(t))
  BY <1>3, TakeJobKeepsInv, NoJobKeepsInv, StartKeepsInv, WaitResumeKeepsInv, CopyinKeepsInv
<1>4. CASE t \in Worker /\ (Copyout(t) \/ Reply(t) \/ ExecNotify(t) \/ ExecEnd(t))
  BY <1>4, CopyoutKeepsInv, ReplyKeepsInv, ExecNotifyKeepsInv, ExecEndKeepsInv
<1>5. CASE t \in Worker /\ ExecWait(t)
  <2>1. CASE TooManyRefs(Client(t))
    BY <1>5, <2>1, ExecSleepsKeepsInv DEF ExecWait
  <2>2. CASE ~TooManyRefs(Client(t))
    BY <1>5, <2>2, ExecGoesKeepsInv DEF ExecWait
  <2> QED
    BY <2>1, <2>2
<1> QED
  BY <1>1, <1>2, <1>3, <1>4, <1>5 DEF Step

(* What a client makes the poll loop do. *)
LEMMA PollKeepsInv ==
  ASSUME IInv, NEW s \in Slot, Poll(s)
  PROVE  IInv'
<1>1. CASE Disconnect(s) \/ Refuse(s) \/ Prefork(s) \/ Exec(s) \/ Syscall(s)
  BY <1>1, DisconnectKeepsInv, RefuseKeepsInv, PreforkKeepsInv, ExecKeepsInv, SyscallKeepsInv
<1>2. CASE \E n \in 0 .. MaxReq[s] - 1 : Response(s, n)
  <2>1. PICK n \in Nat : Response(s, n)
    BY <1>2, SpAssumption
  <2> QED
    BY <2>1, ResponseKeepsInv
<1>3. CASE \E b \in BOOLEAN : Handshake(s, b) \/ DropPrefork(s, b)
  BY <1>3, HandshakeKeepsInv, DropPreforkKeepsInv
<1> QED
  BY <1>1, <1>2, <1>3 DEF Poll

LEMMA NextKeepsInv ==
  ASSUME IInv, [Next]_vars
  PROVE  IInv'
<1>1. CASE Next
  BY <1>1, StepKeepsInv, CollectKeepsInv, AcceptKeepsInv, PollKeepsInv DEF Next
<1>2. CASE UNCHANGED vars
  <2>1. /\ UNCHANGED <<spc, pfd, nfds, maxidx, disco, preforks, pc, at, goal, asleep, draining, aborted>>
        /\ UNCHANGED <<wrklist, nwork, nworker, idleworker, wstate>> /\ UNCHANGED poolVars
    BY <1>2 DEF vars, loopVars, threadVars, poolVars
  <2>2. PoolInv'
    BY <2>1, PoolStutters DEF IInv
  <2>3. ServerTypeOK'
    BY <2>1, <2>2, TypeFacts, TypeFactsPrime DEF IInv, PoolInv
  <2>4. Places' /\ Goals' /\ NfdsCounts' /\ TableSound'
    BY <2>1 DEF IInv, Places, Goals, NfdsCounts, TableSound, EmptySlot, Signalling
  <2> QED
    BY <2>1, <2>2, <2>3, <2>4, NobodyTouched DEF LoopInv
<1> QED
  BY <1>1, <1>2

(* Every reachable state satisfies the inductive invariant. *)
LEMMA InvAlways == Spec => []IInv
<1>1. Init => IInv
  BY InitInv
<1>2. IInv /\ [Next]_vars => IInv'
  BY NextKeepsInv
<1> QED
  BY <1>1, <1>2, PTL DEF Spec

-----------------------------------------------------------------------------
(* The lwps of clients. *)

(* A worker that has an lwp in a client's process is in a system call of that
   client; and none has one in a process that execs.  With TwoRefsAlone the
   second follows from the first when exec goes on, and later from the refusal
   of new lwps. *)
InKernel(w) ==
    \/ pc[w] \in {"sys", "wait"}
    \/ pc[w] \in {"lock", "send"} /\ goal[w] \in {"copyin", "copyout"}

LwpInv ==
    /\ LwpTypeOK
    /\ \A s \in Slot : \A w \in Worker : w \in lwps[s] => at[w] = s /\ InKernel(w)
    /\ \A v, w \in Worker : Execs(v) => w \notin lwps[at[v]]

(* Goto() and SendLock(), as far as they move a thread. *)
LEMMA GotoMoves ==
  ASSUME ServerTypeOK, NEW t \in Thread, NEW p, NEW s, NEW g, Goto(t, p, s, g)
  PROVE  Others(t) /\ pc'[t] = p /\ at'[t] = s /\ goal'[t] = g
  BY TypeFacts DEF Goto, Others

LEMMA SendLockMoves ==
  ASSUME ServerTypeOK, NEW t \in Thread, NEW s, NEW c, NEW g, SendLock(t, s, c, g)
  PROVE  Others(t) /\ pc'[t] \in {"send", "lock"} /\ at'[t] = s /\ goal'[t] = g
<1>1. CASE Goto(t, "send", s, g)
  BY <1>1, GotoMoves
<1>2. CASE Goto(t, "lock", s, g)
  BY <1>2, GotoMoves
<1> QED
  BY <1>1, <1>2 DEF SendLock

LEMMA IdleMoves ==
  ASSUME ServerTypeOK, NEW t \in Thread, Idle(t)
  PROVE  Others(t) /\ pc'[t] \in {"poll", "pool"}
<1>1. CASE t = Server
  BY <1>1, GotoMoves DEF Idle
<1>2. CASE t # Server
  BY <1>2, GotoMoves DEF Idle
<1> QED
  BY <1>1, <1>2

(* A step of t that makes no lwp for a worker and begins no exec: all it has
   to see to is that t, if it keeps its lwp, stays in its system call. *)
LEMMA LwpsKept ==
  ASSUME LwpInv, LwpTypeOK', NEW t \in Thread, Others(t),
         \A s \in Slot : \A w \in Worker : w \in lwps'[s] => w \in lwps[s],
         \A s \in Slot : t \in Worker /\ t \in lwps[s] /\ t \in lwps'[s] =>
                             at'[t] = at[t] /\ InKernel(t)',
         pc'[t] # "execlwp",
         pfd' \subseteq pfd, pfd \subseteq Slot
  PROVE  LwpInv'
<1>1. ASSUME NEW s \in Slot, NEW w \in Worker, w \in lwps'[s]
      PROVE  at'[w] = s /\ InKernel(w)'
  <2>1. w \in lwps[s] /\ at[w] = s /\ InKernel(w) /\ w \in Thread
    BY <1>1, ThreadFacts DEF LwpInv
  <2>2. CASE w = t
    BY <1>1, <2>1, <2>2
  <2>3. CASE w # t
    BY <2>1, <2>3 DEF Others, InKernel
  <2> QED
    BY <2>2, <2>3
<1>2. ASSUME NEW v \in Worker, NEW w \in Worker, Execs(v)'
      PROVE  w \notin lwps'[at'[v]]
  <2>1. v \in Thread /\ pc'[v] = "execlwp" /\ at'[v] \in pfd'
    BY <1>2, ThreadFacts DEF Execs
  <2>2. v # t /\ pc[v] = "execlwp" /\ at'[v] = at[v]
    BY <2>1 DEF Others
  <2>3. Execs(v) /\ at[v] \in Slot
    BY <2>1, <2>2 DEF Execs
  <2> QED
    BY <2>2, <2>3 DEF LwpInv
<1> QED
  BY <1>1, <1>2 DEF LwpInv

(* The same for a step that leaves all lwps alone, of a thread that has none. *)
LEMMA LwpsIdle ==
  ASSUME LwpInv, UNCHANGED <<lwps, pid1>>, NEW t \in Thread, Others(t),
         t \in Worker => ~InKernel(t),
         pc'[t] # "execlwp",
         pfd' \subseteq pfd, pfd \subseteq Slot
  PROVE  LwpInv'
<1>1. LwpTypeOK'
  BY DEF LwpInv, LwpTypeOK
<1>2. lwps' = lwps
  OBVIOUS
<1>3. \A s \in Slot : ~(t \in Worker /\ t \in lwps[s])
  BY DEF LwpInv
<1> QED
  BY <1>1, <1>2, <1>3, LwpsKept

(* Steps of the poll loop, which is no worker. *)
LEMMA LwpsServer ==
  ASSUME LwpInv, UNCHANGED <<lwps, pid1>>, Others(Server), pc'[Server] # "execlwp",
         pfd' \subseteq pfd, pfd \subseteq Slot
  PROVE  LwpInv'
  BY LwpsIdle, ThreadFacts

(* Nobody moves. *)
LEMMA LwpsStutter ==
  ASSUME IInv, LwpInv, UNCHANGED <<lwps, pid1, pc, at, goal>>, pfd' \subseteq pfd
  PROVE  LwpInv'
<1>1. Others(Server) /\ pc[Server] # "execlwp" /\ pfd \subseteq Slot
  BY TypeFacts DEF Others, IInv, Places, ServerPc
<1> QED
  BY <1>1, LwpsServer

(* Types that the lemmas below need. *)
LEMMA LwpFacts ==
  ASSUME IInv, LwpInv
  PROVE  /\ ServerTypeOK /\ pfd \subseteq Slot
         /\ lwps \in [Slot -> SUBSET (Worker \cup {"main", "lost"})] /\ pid1 \subseteq Slot
         /\ \A t \in Thread : pc[t] \notin {"poll", "pool"} => at[t] \in Slot
         /\ \A w \in Worker : pc[w] \notin {"lock", "send"} => goal[w] = "none"
         /\ \A w \in Worker : w # "main" /\ w # "lost"
<1>1. ServerTypeOK /\ Places /\ Goals
  BY DEF IInv
<1>2. \A w \in Worker : w # "main" /\ w # "lost"
  BY SpAssumption
<1> QED
  BY <1>1, <1>2, TypeFacts, AtFacts DEF LwpInv, LwpTypeOK, Goals

(* dosend() returns: ok, or with the lwp lost. *)
LEMMA SendDoneKeepsLwps ==
  ASSUME IInv, LwpInv, NEW t \in Thread, SendDone(t)
  PROVE  LwpInv'
<1>1. PICK s \in Slot : s = at[t]
  BY LwpFacts DEF SendDone
<1>2. pc[t] = "send" /\ pfd' = pfd /\ pfd \subseteq Slot /\ ServerTypeOK
  BY LwpFacts DEF SendDone, loopVars
<1>3. PICK p \in {"wait", "sys", "poll", "release"} : Sent(t, at[t], p)
  BY SendDoneGives
<1>4. Others(t) /\ pc'[t] = p /\ (p \in {"wait", "sys"} => at'[t] = at[t])
      /\ (p \in {"poll", "release"} => t = Server \/ goal[t] = "reply")
  BY <1>3 DEF Sent
<1>5. /\ pid1' \subseteq Slot
      /\ \/ lwps' = lwps
         \/ /\ t \in lwps[s]
            /\ lwps' = [lwps EXCEPT ![s] = (@ \ {t}) \cup {"lost"}]
  <2>1. pid1' = pid1 \/ pid1' = pid1 \ {s} \/ pid1' = pid1 \cup {s}
    BY <1>1 DEF SendDone, LoseLwp, lwpVars
  <2>2. \/ lwps' = lwps
        \/ /\ t \in lwps[s]
           /\ lwps' = [lwps EXCEPT ![s] = (@ \ {t}) \cup {"lost"}]
    BY <1>1 DEF SendDone, LoseLwp, lwpVars
  <2> QED
    BY <2>1, <2>2, LwpFacts
<1>6. LwpTypeOK' /\ \A r \in Slot : \A w \in Worker : w \in lwps'[r] => w \in lwps[r]
  BY <1>5, LwpFacts DEF LwpTypeOK
<1>7. \A r \in Slot : t \in Worker /\ t \in lwps[r] => at'[t] = at[t] /\ InKernel(t)'
  <2> SUFFICES ASSUME NEW r \in Slot, t \in Worker, t \in lwps[r]
               PROVE  at'[t] = at[t] /\ InKernel(t)'
    OBVIOUS
  <2>1. InKernel(t) /\ t # Server
    BY ThreadFacts DEF LwpInv
  <2>2. goal[t] # "reply"
    BY <1>2, <2>1 DEF InKernel
  <2> QED
    BY <1>4, <2>1, <2>2 DEF InKernel
<1> QED
  BY <1>2, <1>4, <1>6, <1>7, LwpsKept

(* serv_handlesyscall(): a new lwp is not made in a process that drains, and
   so not in one that execs. *)
LEMMA StartKeepsLwps ==
  ASSUME IInv, LwpInv, NEW w \in Worker, Start(w)
  PROVE  LwpInv'
<1>1. /\ w \in Thread /\ pc[w] = "start" /\ pfd' = pfd /\ pid1' = pid1 /\ pfd \subseteq Slot
      /\ ServerTypeOK /\ at[w] \in Slot
  BY LwpFacts, ThreadFacts DEF Start, loopVars
<1>2. CASE at[w] \in draining \ pid1
  <2>1. SendLock(w, at[w], Client(w), "reply") /\ lwps' = lwps
    BY <1>2 DEF Start
  <2>2. Others(w) /\ pc'[w] # "execlwp"
    BY <1>1, <2>1, SendLockMoves
  <2>3. ~InKernel(w)
    BY <1>1 DEF InKernel
  <2> QED
    BY <1>1, <2>1, <2>2, <2>3, LwpsIdle
<1>3. CASE at[w] \notin draining \ pid1
  <2>1. /\ Goto(w, "sys", at[w], "none")
        /\ lwps' = IF at[w] \in pid1 THEN lwps ELSE [lwps EXCEPT ![at[w]] = @ \cup {w}]
    BY <1>3 DEF Start
  <2>2. Others(w) /\ pc'[w] = "sys" /\ at'[w] = at[w]
    BY <1>1, <2>1, GotoMoves
  <2>3. CASE at[w] \in pid1
    BY <1>1, <2>1, <2>2, <2>3, LwpsIdle DEF InKernel
  <2>4. CASE at[w] \notin pid1
    <3>1. /\ \A r \in Slot : lwps'[r] \subseteq lwps[r] \cup {w}
          /\ \A r \in Slot : r # at[w] => lwps'[r] = lwps[r]
          /\ LwpTypeOK'
      BY <1>1, <2>1, <2>4, LwpFacts DEF LwpTypeOK
    <3>2. ASSUME NEW r \in Slot, NEW v \in Worker, v \in lwps'[r]
          PROVE  at'[v] = r /\ InKernel(v)'
      <4>1. CASE v = w
        <5>1. \A q \in Slot : w \notin lwps[q]
          BY <1>1 DEF LwpInv, InKernel
        <5> QED
          BY <2>2, <3>1, <3>2, <4>1, <5>1 DEF InKernel
      <4>2. CASE v # w
        <5>1. v \in lwps[r] /\ v \in Thread
          BY <3>1, <3>2, <4>2, ThreadFacts
        <5>2. at[v] = r /\ InKernel(v)
          BY <5>1 DEF LwpInv
        <5> QED
          BY <2>2, <4>2, <5>1, <5>2 DEF Others, InKernel
      <4> QED
        BY <4>1, <4>2
    <3>3. ASSUME NEW u \in Worker, NEW v \in Worker, Execs(u)'
          PROVE  v \notin lwps'[at'[u]]
      <4>1. u # w /\ Execs(u) /\ at'[u] = at[u] /\ at[u] \in Slot
        BY <1>1, <2>2, <3>3, ThreadFacts DEF Execs, Others
      <4>2. at[u] \in draining
        <5>1. SlotInv(at[u])
          BY <4>1, InvBySlots
        <5> QED
          BY <4>1, <5>1 DEF SlotInv, MarkedAt, ExecWorkers, Execs
      <4>3. at[u] # at[w]
        BY <1>3, <2>4, <4>2
      <4> QED
        BY <3>1, <4>1, <4>3 DEF LwpInv
    <3> QED
      BY <3>1, <3>2, <3>3 DEF LwpInv
  <2> QED
    BY <2>3, <2>4
<1> QED
  BY <1>2, <1>3

(* The end of a system call takes the worker's lwp with it. *)
LEMMA ReplyKeepsLwps ==
  ASSUME IInv, LwpInv, NEW w \in Worker, Reply(w)
  PROVE  LwpInv'
<1>1. /\ w \in Thread /\ pfd' = pfd /\ pid1' = pid1 /\ pfd \subseteq Slot
      /\ ServerTypeOK /\ at[w] \in Slot
  BY LwpFacts, ThreadFacts DEF Reply, loopVars
<1>2. Others(w) /\ pc'[w] # "execlwp"
  BY <1>1, SendLockMoves DEF Reply
<1>3. lwps' = [lwps EXCEPT ![at[w]] = @ \ {w}]
  BY DEF Reply
<1>4. /\ LwpTypeOK'
      /\ \A r \in Slot : \A v \in Worker : v \in lwps'[r] => v \in lwps[r]
      /\ w \notin lwps'[at[w]]
  BY <1>1, <1>3, LwpFacts DEF LwpTypeOK
<1>5. \A r \in Slot : ~(w \in lwps[r] /\ w \in lwps'[r])
  BY <1>4 DEF LwpInv
<1> QED
  BY <1>1, <1>2, <1>4, <1>5, LwpsKept

(* Within a system call: requests, their locks and their answers. *)
LEMMA CallKeepsLwps ==
  ASSUME IInv, LwpInv, NEW t \in Thread,
         \/ Relock(t)
         \/ t \in Worker /\ (Copyin(t) \/ Copyout(t) \/ WaitResume(t))
  PROVE  LwpInv'
<1>1. /\ pfd' = pfd /\ lwps' = lwps /\ pid1' = pid1 /\ pfd \subseteq Slot /\ ServerTypeOK
  BY LwpFacts DEF Relock, Copyin, Copyout, WaitResume, loopVars, lwpVars
<1>2. Others(t) /\ pc'[t] # "execlwp" /\ at'[t] = at[t] /\ (t \in Worker /\ InKernel(t) => InKernel(t)')
  <2>1. CASE Relock(t)
    BY <1>1, <2>1, SendLockMoves DEF Relock, InKernel
  <2>2. CASE Copyin(t)
    BY <1>1, <2>2, SendLockMoves DEF Copyin, InKernel
  <2>3. CASE Copyout(t)
    BY <1>1, <2>3, SendLockMoves DEF Copyout, InKernel
  <2>4. CASE WaitResume(t)
    BY <1>1, <2>4, GotoMoves DEF WaitResume, InKernel
  <2> QED
    BY <2>1, <2>2, <2>3, <2>4
<1>3. LwpTypeOK'
  BY <1>1 DEF LwpInv, LwpTypeOK
<1>4. \A s \in Slot : t \in Worker /\ t \in lwps[s] => InKernel(t)
  BY DEF LwpInv
<1> QED
  BY <1>1, <1>2, <1>3, <1>4, LwpsKept

(* Workers that are in no system call. *)
LEMMA OutsideKeepsLwps ==
  ASSUME IInv, LwpInv, NEW w \in Worker,
         \/ TakeJob(w) \/ ExecNotify(w) \/ ExecEnd(w)
         \/ Release(w) \/ SignalDisco(w)
  PROVE  LwpInv'
<1>1. w \in Thread /\ w # Server /\ pfd \subseteq Slot /\ ServerTypeOK
  BY LwpFacts, ThreadFacts
<1>2. pfd' = pfd /\ lwps' = lwps /\ pid1' = pid1
  BY DEF TakeJob, ExecNotify, ExecEnd, Release, SignalDisco, loopVars, lwpVars
<1>3. Others(w) /\ pc'[w] # "execlwp" /\ ~InKernel(w)
  <2>1. CASE TakeJob(w)
    <3>1. pc[w] = "pool"
      BY <2>1 DEF TakeJob, Take, TakeAtOnce, TakeWoken, IInv, Places
    <3>2. \E p \in {"exec", "start"} : Goto(w, p, Head(wrklist).slot, "none")
      BY <2>1 DEF TakeJob
    <3>3. Others(w) /\ pc'[w] \in {"exec", "start"}
      BY <1>1, <3>2, GotoMoves
    <3> QED
      BY <3>1, <3>3 DEF InKernel
  <2>2. CASE ExecNotify(w)
    BY <1>1, <2>2, GotoMoves DEF ExecNotify, InKernel
  <2>3. CASE ExecEnd(w)
    BY <1>1, <2>3, GotoMoves DEF ExecEnd, InKernel
  <2>4. CASE Release(w)
    <3>1. pc[w] = "release" /\ (Idle(w) \/ Goto(w, "closing", at[w], "none"))
      BY <2>4 DEF Release, ReleasedTo
    <3>2. Others(w) /\ pc'[w] # "execlwp"
      BY <1>1, <3>1, IdleMoves, GotoMoves
    <3> QED
      BY <3>1, <3>2 DEF InKernel
  <2>5. CASE SignalDisco(w)
    <3>1. pc[w] = "signal" /\ Idle(w)
      BY <2>5 DEF SignalDisco
    <3>2. Others(w) /\ pc'[w] # "execlwp"
      BY <1>1, <3>1, IdleMoves
    <3> QED
      BY <3>1, <3>2 DEF InKernel
  <2> QED
    BY <2>1, <2>2, <2>3, <2>4, <2>5
<1> QED
  BY <1>1, <1>2, <1>3, LwpsIdle

(* serv_handleexec() goes on: two references are the connection's and its own,
   so no other worker works for the client, let alone in a system call. *)
LEMMA ExecWaitKeepsLwps ==
  ASSUME IInv, LwpInv, NEW w \in Worker, ExecWait(w)
  PROVE  LwpInv'
<1>1. /\ w \in Thread /\ pfd \subseteq Slot /\ ServerTypeOK /\ pc[w] = "exec" /\ at[w] \in Slot
      /\ pfd' = pfd /\ lwps' = lwps /\ pid1' = pid1
  BY LwpFacts, ThreadFacts DEF ExecWait, loopVars, lwpVars
<1>2. CASE TooManyRefs(Client(w))
  BY <1>1, <1>2, LwpsStutter DEF ExecWait
<1>3. CASE ~TooManyRefs(Client(w))
  <2>1. Goto(w, "execlwp", at[w], "none")
    BY <1>3 DEF ExecWait
  <2>2. Others(w) /\ pc'[w] = "execlwp" /\ at'[w] = at[w]
    BY <1>1, <2>1, GotoMoves
  <2>3. \A r \in Slot : w \notin lwps[r]
    BY <1>1 DEF LwpInv, InKernel
  <2>4. ASSUME NEW r \in Slot, NEW v \in Worker, v \in lwps'[r]
        PROVE  at'[v] = r /\ InKernel(v)'
    <3>1. v # w /\ v \in Thread /\ at[v] = r /\ InKernel(v)
      BY <1>1, <2>3, <2>4, ThreadFacts DEF LwpInv
    <3> QED
      BY <2>2, <3>1 DEF Others, InKernel
  <2>5. ASSUME NEW u \in Worker, NEW v \in Worker, Execs(u)'
        PROVE  v \notin lwps'[at'[u]]
    <3>1. CASE u # w
      <4>1. Execs(u) /\ at'[u] = at[u]
        BY <1>1, <2>2, <2>5, <3>1, ThreadFacts DEF Execs, Others
      <4> QED
        BY <1>1, <4>1 DEF LwpInv
    <3>2. CASE u = w
      <4>1. at[w] \in pfd /\ SlotInv(at[w]) /\ wrklist \in Seq(Job)
        BY <1>1, <2>2, <2>5, <3>2, InvBySlots, TypeFacts DEF Execs, IInv, PoolInv, PoolTypeOK
      <4>2. w \in Working(at[w])
        BY <1>1 DEF Working
      <4>3. ASSUME v \in lwps[at[w]] PROVE FALSE
        <5>1. at[v] = at[w] /\ InKernel(v)
          BY <1>1, <4>3 DEF LwpInv
        <5>2. v \in Working(at[w])
          BY <5>1 DEF Working, InKernel
        <5>3. v = w
          BY <1>1, <1>3, <4>1, <4>2, <5>2, TwoRefsAlone DEF Client
        <5> QED
          BY <1>1, <2>3, <4>3, <5>3
      <4> QED
        BY <1>1, <2>2, <3>2, <4>3
    <3> QED
      BY <3>1, <3>2
  <2>6. LwpTypeOK'
    BY <1>1 DEF LwpInv, LwpTypeOK
  <2> QED
    BY <2>4, <2>5, <2>6 DEF LwpInv
<1> QED
  BY <1>2, <1>3

(* The process of a client goes, and with it all of its lwps. *)
LEMMA CloseKeepsLwps ==
  ASSUME IInv, LwpInv, NEW t \in Thread, Close(t)
  PROVE  LwpInv'
<1>1. /\ pfd' = pfd /\ pid1' = pid1 /\ pfd \subseteq Slot /\ ServerTypeOK /\ at[t] \in Slot
      /\ pc[t] = "closing" /\ lwps' = [lwps EXCEPT ![at[t]] = {}]
  BY LwpFacts DEF Close, loopVars
<1>2. Others(t) /\ pc'[t] # "execlwp"
  BY <1>1, GotoMoves DEF Close
<1>3. /\ LwpTypeOK'
      /\ \A r \in Slot : \A v \in Worker : v \in lwps'[r] => v \in lwps[r]
  BY <1>1, LwpFacts DEF LwpTypeOK
<1>4. \A r \in Slot : ~(t \in Worker /\ t \in lwps[r])
  BY <1>1 DEF LwpInv, InKernel
<1> QED
  BY <1>1, <1>2, <1>3, <1>4, LwpsKept

(* A process is new with its main lwp. *)
LEMMA HandshakeKeepsLwps ==
  ASSUME IInv, LwpInv, NEW s \in Slot, NEW b \in BOOLEAN, Handshake(s, b)
  PROVE  LwpInv'
<1>1. /\ pfd' = pfd /\ pid1' = pid1 /\ pfd \subseteq Slot /\ ServerTypeOK
      /\ lwps' = [lwps EXCEPT ![s] = {"main"}]
  BY LwpFacts DEF Handshake, loopVars
<1>2. Others(Server) /\ pc'[Server] # "execlwp" /\ Server \in Thread /\ Server \notin Worker
  BY <1>1, SendLockMoves, ThreadFacts DEF Handshake
<1>3. LwpTypeOK'
  BY <1>1, LwpFacts DEF LwpTypeOK
<1>4. \A r \in Slot : \A v \in Worker : v \in lwps'[r] => v \in lwps[r]
  BY <1>1, LwpFacts
<1> QED
  BY <1>1, <1>2, <1>3, <1>4, LwpsKept

(* A new connection gets a slot that no exec is left in. *)
LEMMA AcceptKeepsLwps ==
  ASSUME IInv, LwpInv, Accept
  PROVE  LwpInv'
<1>1. UNCHANGED <<lwps, pid1, pc, at, goal>>
  BY DEF Accept, threadVars, lwpVars
<1>2. CASE EmptySlot = {}
  BY <1>1, <1>2, LwpsStutter DEF Accept, loopVars
<1>3. CASE EmptySlot # {}
  <2>1. PICK s \in EmptySlot : pfd' = pfd \cup {s}
    <3>1. EmptySlot \subseteq Nat
      BY SpAssumption DEF EmptySlot, Slot
    <3> QED
      BY <1>3, <3>1, MinExists DEF Accept
  <2>2. \A v \in Worker : Execs(v)' => Execs(v)
    <3>1. \A t \in Thread : at[t] = s => pc[t] = "signal"
      BY <2>1 DEF IInv, EmptyClean
    <3> QED
      BY <1>1, <2>1, <3>1, ThreadFacts DEF Execs
  <2>3. \A w \in Worker : InKernel(w)' <=> InKernel(w)
    BY <1>1 DEF InKernel
  <2> QED
    BY <1>1, <2>2, <2>3 DEF LwpInv, LwpTypeOK
<1> QED
  BY <1>2, <1>3

(* The other steps of the poll loop: of its own ... *)
LEMMA ServerKeepsLwps ==
  ASSUME IInv, LwpInv,
         \/ LwpExit \/ Zero \/ PreforkDone \/ Schedule \/ Queue
         \/ Release(Server) \/ SignalDisco(Server)
  PROVE  LwpInv'
<1>1. Server \in Thread /\ pfd \subseteq Slot /\ ServerTypeOK
  BY LwpFacts, ThreadFacts
<1>2. pfd' = pfd /\ lwps' = lwps /\ pid1' = pid1
  BY DEF LwpExit, Zero, PreforkDone, Schedule, Queue, Release, SignalDisco, loopVars, lwpVars
<1>3. Others(Server) /\ pc'[Server] # "execlwp"
  <2>1. CASE LwpExit
    <3>1. \E p \in {"zero", "sched"} : Goto(Server, p, at[Server], goal[Server])
      BY <2>1 DEF LwpExit
    <3> QED
      BY <1>1, <3>1, GotoMoves
  <2>2. CASE Zero
    BY <1>1, <2>2, GotoMoves DEF Zero
  <2>3. CASE PreforkDone
    BY <1>1, <2>3, SendLockMoves DEF PreforkDone
  <2>4. CASE Schedule
    BY <1>1, <2>4, SendLockMoves, GotoMoves DEF Schedule
  <2>5. CASE Queue
    BY <1>1, <2>5, IdleMoves DEF Queue
  <2>6. CASE Release(Server)
    BY <1>1, <2>6, IdleMoves, GotoMoves DEF Release, ReleasedTo
  <2>7. CASE SignalDisco(Server)
    BY <1>1, <2>7, IdleMoves DEF SignalDisco
  <2> QED
    BY <2>1, <2>2, <2>3, <2>4, <2>5, <2>6, <2>7
<1> QED
  BY <1>1, <1>2, <1>3, LwpsServer

(* ... and for a frame. *)
LEMMA PollKeepsLwps ==
  ASSUME IInv, LwpInv, NEW s \in Slot, Poll(s)
  PROVE  LwpInv'
<1>1. Server \in Thread /\ pfd \subseteq Slot /\ ServerTypeOK
  BY LwpFacts, ThreadFacts
<1>2. CASE Disconnect(s)
  <2>1. \E p \in {"lwpexit", "zero"} : Goto(Server, p, s, "disco")
    BY <1>2 DEF Disconnect
  <2>2. Others(Server) /\ pc'[Server] # "execlwp"
    BY <1>1, <2>1, GotoMoves
  <2>3. pfd' \subseteq pfd /\ lwps' = lwps /\ pid1' = pid1
    BY <1>2 DEF Disconnect, lwpVars
  <2> QED
    BY <1>1, <2>2, <2>3, LwpsServer
<1>3. CASE Refuse(s) \/ Prefork(s) \/ Exec(s) \/ Syscall(s)
  <2>1. pfd' = pfd /\ lwps' = lwps /\ pid1' = pid1
    BY <1>3 DEF Refuse, Prefork, Exec, Syscall, loopVars, lwpVars
  <2>2. Others(Server) /\ pc'[Server] # "execlwp"
    BY <1>1, <1>3, SendLockMoves, GotoMoves DEF Refuse, Prefork, Exec, Syscall
  <2> QED
    BY <1>1, <2>1, <2>2, LwpsServer
<1>4. CASE \E n \in 0 .. MaxReq[s] - 1 : Response(s, n)
  <2>1. UNCHANGED <<lwps, pid1, pc, at, goal>> /\ pfd' = pfd
    BY <1>4 DEF Response, loopVars, lwpVars
  <2> QED
    BY <2>1, LwpsStutter
<1>5. CASE \E b \in BOOLEAN : Handshake(s, b)
  BY <1>5, HandshakeKeepsLwps
<1>6. CASE \E b \in BOOLEAN : DropPrefork(s, b)
  <2>1. pfd' = pfd /\ lwps' = lwps /\ pid1' = pid1
    BY <1>6 DEF DropPrefork, loopVars, lwpVars
  <2>2. CASE SendLock(Server, s, spc[s], "answer")
    <3>1. Others(Server) /\ pc'[Server] # "execlwp"
      BY <1>1, <2>2, SendLockMoves
    <3> QED
      BY <1>1, <2>1, <3>1, LwpsServer
  <2>3. CASE UNCHANGED threadVars
    BY <2>1, <2>3, LwpsStutter DEF threadVars
  <2> QED
    BY <1>6, <2>2, <2>3 DEF DropPrefork
<1> QED
  BY <1>2, <1>3, <1>4, <1>5, <1>6 DEF Poll

LEMMA NextKeepsLwps ==
  ASSUME IInv, LwpInv, [Next]_vars
  PROVE  LwpInv'
<1>1. ASSUME NEW t \in Thread, Step(t) PROVE LwpInv'
  <2>1. CASE SendDone(t) \/ Close(t) \/ Relock(t)
    BY <2>1, SendDoneKeepsLwps, CloseKeepsLwps, CallKeepsLwps
  <2>2. CASE LwpExit \/ Zero \/ PreforkDone \/ Schedule \/ Queue
    BY <2>2, ServerKeepsLwps
  <2>3. CASE Release(t) \/ SignalDisco(t)
    <3>1. t \in Worker \/ t = Server
      BY DEF Thread
    <3> QED
      BY <2>3, <3>1, OutsideKeepsLwps, ServerKeepsLwps
  <2>4. CASE t \in Worker /\ (TakeJob(t) \/ ExecNotify(t) \/ ExecEnd(t))
    BY <2>4, OutsideKeepsLwps
  <2>5. CASE t \in Worker /\ (WaitResume(t) \/ Copyin(t) \/ Copyout(t))
    BY <2>5, CallKeepsLwps
  <2>6. CASE t \in Worker /\ (Start(t) \/ Reply(t) \/ ExecWait(t))
    BY <2>6, StartKeepsLwps, ReplyKeepsLwps, ExecWaitKeepsLwps
  <2>7. CASE t \in Worker /\ NoJob(t)
    BY <2>7, LwpsStutter DEF NoJob, threadVars, loopVars, lwpVars
  <2> QED
    BY <1>1, <2>1, <2>2, <2>3, <2>4, <2>5, <2>6, <2>7 DEF Step
<1>2. CASE Collect
  BY <1>2, LwpsStutter DEF Collect, threadVars, lwpVars
<1>3. CASE UNCHANGED vars
  BY <1>3, LwpsStutter DEF vars, threadVars, loopVars, lwpVars
<1> QED
  BY <1>1, <1>2, <1>3, AcceptKeepsLwps, PollKeepsLwps DEF Next

(* Every reachable state satisfies both. *)
LEMMA LwpAlways == Spec => [](IInv /\ LwpInv)
<1>1. Init => LwpInv
  BY ThreadFacts DEF Init, LwpInv, LwpTypeOK, Execs
<1>2. IInv /\ LwpInv /\ [Next]_vars => LwpInv'
  BY NextKeepsLwps
<1> QED
  BY <1>1, <1>2, InvAlways, PTL DEF Spec

-----------------------------------------------------------------------------
(* What the two invariants say. *)

(* A set whose elements are all the same has at most one. *)
LEMMA AtMostOne ==
  ASSUME NEW S, \A x, y \in S : x = y
  PROVE  Cardinality(S) <= 1
<1>1. CASE S = {}
  BY <1>1, FS_EmptySet
<1>2. CASE S # {}
  <2>1. PICK x : S = {x}
    BY <1>2
  <2> QED
    BY <2>1, FS_Singleton
<1> QED
  BY <1>1, <1>2

(* The main lwp, from the parts: who closes is alone; an exec, of which there
   is one, excludes the poll loop. *)
LEMMA MainLwpFromInv ==
  ASSUME IInv
  PROVE  MainLwpExclusive
<1> SUFFICES ASSUME NEW s \in Slot, NEW t \in OnMainLwp(s), NEW u \in OnMainLwp(s), t # u
             PROVE  FALSE
  BY AtMostOne DEF MainLwpExclusive
<1>1. SlotInv(s) /\ Places /\ Goals
  BY InvBySlots DEF IInv
<1>2. t \in Thread /\ u \in Thread /\ at[t] = s /\ at[u] = s
  BY DEF OnMainLwp
<1>3. ASSUME NEW v \in OnMainLwp(s)
      PROVE  /\ v \in Worker => pc[v] \in {"execlwp", "closing"}
             /\ v \notin Worker => /\ v = Server
                                   /\ ServerOnLwp \/ ExecServer(s) \/ pc[v] = "closing"
             /\ pc[v] # "signal"
  <2>1. v \in Thread /\ at[v] = s
    BY DEF OnMainLwp
  <2>2. CASE v \in Worker
    BY <1>1, <2>2, ThreadFacts DEF OnMainLwp, Places, Goals, WorkerPc
  <2>3. CASE v = Server
    BY <1>1, <2>1, <2>3, ThreadFacts DEF OnMainLwp, Places, Goals, ServerPc, ServerOnLwp, ExecServer
  <2> QED
    BY <2>1, <2>2, <2>3, ThreadFacts
<1>4. pc[t] # "closing" /\ pc[u] # "closing"
  BY <1>1, <1>2, <1>3 DEF SlotInv, ClosesAt
<1>5. \A v \in OnMainLwp(s) : v \in Worker /\ pc[v] # "closing" => v \in ExecWorkers(s)
  BY <1>3 DEF ExecWorkers, OnMainLwp
<1>6. CASE t \in Worker /\ u \in Worker
  BY <1>1, <1>4, <1>5, <1>6 DEF SlotInv, OnceAt
<1>7. ASSUME NEW v \in OnMainLwp(s), NEW w \in ExecWorkers(s), v \notin Worker, pc[v] # "closing"
      PROVE  FALSE
  <2>1. v = Server /\ at[Server] = s /\ (ServerOnLwp \/ ExecServer(s))
    BY <1>3, <1>7 DEF OnMainLwp
  <2> QED
    BY <1>1, <1>7, <2>1 DEF SlotInv, OnceAt, MarkedAt, ExecNone
<1>8. t \in Worker \/ u \in Worker
  BY <1>3
<1> QED
  BY <1>4, <1>5, <1>6, <1>7, <1>8

(* The types of everything the server keeps, that no count leaves its range
   included: nfds never exceeds MAXCLI and no reference count goes below 0. *)
THEOREM SpTypeCorrect == Spec => []TypeOK
<1>1. IInv /\ LwpInv => TypeOK
  BY DEF IInv, LwpInv, TypeOK
<1> QED
  BY <1>1, LwpAlways, PTL

(* The pool within the server: the counters that schedulework() decides by
   count, and no worker sleeps beside work nobody was woken for. *)
THEOREM SpPoolSound == Spec => [](CountersTrue /\ NoIdlerBesideWork)
<1>1. IInv => CountersTrue /\ NoIdlerBesideWork
  BY DEF IInv, PoolInv
<1> QED
  BY <1>1, InvAlways, PTL

(* spcref() and spcrelease(): the reference count of a client is the number of
   those who hold one, for any number of clients and workers. *)
THEOREM SpRefsCounted == Spec => []RefsCounted
<1>1. IInv => RefsCounted
  BY DEF IInv
<1> QED
  BY <1>1, InvAlways, PTL

(* serv_handleconn() gets a slot in which nothing is left of the last client. *)
THEOREM SpSlotClean == Spec => []SlotClean
<1>1. IInv => SlotClean
  BY CleanFromFields DEF IInv
<1> QED
  BY <1>1, InvAlways, PTL

(* sendlockl(): one thread at a time sends to a connected client. *)
THEOREM SpSendExclusive == Spec => []SendExclusive
<1>1. ASSUME IInv PROVE SendExclusive
  <2>1. ASSUME NEW s \in pfd
        PROVE  Cardinality({t \in Thread : at[t] = s /\ pc[t] = "send"}) <= 1
    <3>1. \A t, u \in {v \in Thread : at[v] = s /\ pc[v] = "send"} : t = u
      BY <1>1 DEF IInv, SendLocked
    <3> QED
      BY <3>1, AtMostOne
  <2> QED
    BY <2>1 DEF SendExclusive
<1> QED
  BY <1>1, InvAlways, PTL

(* kickwaiter(): the answer to a request reaches the one who asked. *)
THEOREM SpAnswersFindAsker == Spec => []AnswersFindAsker
<1>1. IInv => AnswersFindAsker
  BY DEF IInv
<1> QED
  BY <1>1, InvAlways, PTL

(* No two threads are on the main lwp of a client, whatever execs, preforks
   and disconnects meet. *)
THEOREM SpMainLwpExclusive == Spec => []MainLwpExclusive
<1>1. IInv => MainLwpExclusive
  BY MainLwpFromInv
<1> QED
  BY <1>1, InvAlways, PTL

(* serv_handleexec(): when an exec is made known no worker has an lwp in the
   client's process and none can get one; the lwps that remain beside the main
   one, if any, are those that failed sends have lost. *)
THEOREM SpExecAlone == Spec => []ExecAlone
<1>1. ASSUME IInv, LwpInv PROVE ExecAlone
  <2> SUFFICES ASSUME NEW w \in Worker, Execs(w)
               PROVE  at[w] \in draining /\ lwps[at[w]] \subseteq {"main", "lost"}
    BY DEF ExecAlone
  <2>1. at[w] \in pfd /\ at[w] \in Slot /\ pc[w] = "execlwp"
    BY <1>1, LwpFacts DEF Execs
  <2>2. SlotInv(at[w])
    BY <1>1, <2>1, InvBySlots
  <2>3. at[w] \in draining
    BY <2>1, <2>2 DEF SlotInv, MarkedAt, ExecWorkers
  <2>4. \A v \in Worker : v \notin lwps[at[w]]
    BY <1>1 DEF LwpInv
  <2>5. lwps[at[w]] \subseteq Worker \cup {"main", "lost"}
    BY <1>1, <2>1, LwpFacts
  <2> QED
    BY <2>3, <2>4, <2>5
<1> QED
  BY <1>1, LwpAlways, PTL

(* serv_handleconn() never aborts for want of a slot, and no connected client
   is left out of the poll. *)
THEOREM SpTableSound == Spec => []TableSound
<1>1. IInv => TableSound
  BY DEF IInv
<1> QED
  BY <1>1, InvAlways, PTL

(* Whoever sleeps on spc_cv or rw_cv will be woken by somebody who is there. *)
THEOREM SpSleepersHaveWaker == Spec => []SleepersHaveWaker
<1>1. IInv => SleepersHaveWaker
  BY DEF IInv
<1> QED
  BY <1>1, InvAlways, PTL
=============================================================================
