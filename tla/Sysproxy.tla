------------------------------ MODULE Sysproxy -------------------------------
(***************************************************************************)
(* The sysproxy server of librumpuser/sysproxy.c: the thread spserver that *)
(* accepts clients and reads their frames, the workers that execute their  *)
(* system calls, the copies to and from client memory that a system call   *)
(* asks its client for, exec, and the disconnecting of clients.            *)
(*                                                                         *)
(* Threads are preemptive here: every section under spc_mtx, and every     *)
(* section under sbamtx (WorkPool), is one step, and so is the unlocked    *)
(* memset of serv_handledisco.  A client may send any frame at any time,   *)
(* answers nobody waits for included, and go away at any time.  Frames are *)
(* read whole: a partial read changes nothing that others see.  shutdown() *)
(* only makes the client's end of file come sooner, which may come anyway. *)
(***************************************************************************)
EXTENDS WorkPool, FiniteSetsExt

CONSTANTS
    Server,       \* the thread of spserver()
    MAXCLI,       \* slots of spclist, the one of the listening socket included
    MaxRef,       \* bound on the references to a client
    MaxQueue,     \* bound on the items on the list
    MaxReq,       \* bound on the requests to the client of a slot in one connection
    MaxFork       \* bound on the preforks that nobody has claimed

Slot == 1 .. MAXCLI - 1
Thread == Worker \cup {Server}
NoSlot == 0

ASSUME SpAssumption ==
    /\ MAXCLI \in Nat /\ MAXCLI >= 2
    /\ MaxRef \in Nat /\ MaxQueue \in Nat /\ MaxReq \in [Slot -> Nat] /\ MaxFork \in Nat
    /\ Server \notin Worker
    /\ Worker \cap {"main", "lost"} = {}
    /\ Job = [slot : Slot, type : {"syscall", "exec"}]

VARIABLES
    spc,          \* spclist: struct spclient of each slot
    pfd,          \* slots whose pfdlist entry has a descriptor
    nfds, maxidx, disco,
    preforks,     \* how many preforks wait to be claimed
    pc,           \* where each thread is
    at,           \* the client it works for
    goal,         \* what it sends or schedules, or why it is on the main lwp
    asleep,       \* threads in pthread_cond_wait on spc_cv or rw_cv, not woken
    draining,     \* clients whose process has PS_RUMP_LWPEXIT
    lwps,         \* p_lwps of each client's process: its main lwp, those of the
                  \* workers that have one, and "lost" for any that nobody has
    pid1,         \* slots whose spc_pid is 1
    aborted

threadVars == <<pc, at, goal, asleep>>
loopVars == <<pfd, nfds, maxidx, disco>>
lwpVars == <<lwps, pid1>>
vars == <<poolVars, spc, loopVars, preforks, threadVars, draining, lwpVars, aborted>>

-----------------------------------------------------------------------------

(* struct spclient; respwait holds the struct respwaits that are linked.  The
   head spc_pflist is left out: preforks are linked to it and unlinked from it,
   but found by the list of all preforks, and nothing ever goes through it. *)
NewClient == [refcnt |-> 0, state |-> "NEW", ostatus |-> "FREE", inexec |-> FALSE,
              nextreq |-> 0, respwait |-> {}, mainlwp |-> FALSE]

Init ==
    /\ PoolInit
    /\ spc = [s \in Slot |-> NewClient]
    /\ pfd = {}
    /\ nfds = 1 /\ maxidx = 0 /\ disco = 0
    /\ preforks = 0
    /\ pc = [t \in Thread |-> IF t = Server THEN "poll" ELSE "pool"]
    /\ at = [t \in Thread |-> NoSlot]
    /\ goal = [t \in Thread |-> "none"]
    /\ asleep = {}
    /\ draining = {}
    /\ lwps = [s \in Slot |-> {}]
    /\ pid1 = {}
    /\ aborted = FALSE

(* t goes to p, working for s, to do g. *)
Goto(t, p, s, g) ==
    /\ pc' = [pc EXCEPT ![t] = p]
    /\ at' = [at EXCEPT ![t] = s]
    /\ goal' = [goal EXCEPT ![t] = g]

(* t has no client any more: the poll loop, or the pool. *)
Idle(t) == Goto(t, IF t = Server THEN "poll" ELSE "pool", NoSlot, "none")

Client(t) == spc[at[t]]
Becomes(s, c) == spc' = [spc EXCEPT ![s] = c]

-----------------------------------------------------------------------------
(* The send lock of a client, and requests to it. *)

(* Who waits on spc_cv of s: senders and exec share it. *)
OnCv(s) == {t \in Thread : at[t] = s /\ pc[t] \in {"lock", "exec"}}

(* sendunlockl(): whom it wakes, beside setting FREE. *)
WokenByUnlockOne(s, c) ==               \* mutant: signal, not broadcast
    IF c.ostatus = "WANTED" /\ OnCv(s) \cap asleep # {}
    THEN {CHOOSE t \in OnCv(s) \cap asleep : TRUE} ELSE {}
WokenByUnlock(s, c) == IF c.ostatus = "WANTED" THEN OnCv(s) ELSE {}

(* sendlockl() by t, where c is the client as the section found or made it:
   the lock is taken, or wanted and waited for. *)
SendLockAnyway(t, s, c, g) ==           \* mutant
    /\ Becomes(s, [c EXCEPT !.ostatus = "BUSY"])
    /\ Goto(t, "send", s, g)
    /\ UNCHANGED asleep

SendLock(t, s, c, g) ==
    \/ /\ c.ostatus = "FREE"
       /\ Becomes(s, [c EXCEPT !.ostatus = "BUSY"])
       /\ Goto(t, "send", s, g)
       /\ UNCHANGED asleep
    \/ /\ c.ostatus # "FREE"
       /\ Becomes(s, [c EXCEPT !.ostatus = "WANTED"])
       /\ Goto(t, "lock", s, g)
       /\ asleep' = asleep \cup {t}

(* A sender was woken and tries again. *)
Relock(t) ==
    /\ pc[t] = "lock" /\ t \notin asleep
    /\ SendLock(t, at[t], Client(t), goal[t])
    /\ UNCHANGED <<poolVars, loopVars, preforks, draining, lwpVars, aborted>>

(* doputwait() and sendlockl() in one section. *)
Asked(c, t) == [who |-> t, reqno |-> c.nextreq, done |-> FALSE]
WithRequestSame(c, t) ==                \* mutant: nextreq is not incremented
    [c EXCEPT !.respwait = @ \cup {Asked(c, t)}]
WithRequest(c, t) ==
    [c EXCEPT !.respwait = @ \cup {Asked(c, t)}, !.nextreq = @ + 1]

(* dosend() sends from a new lwp of process 1.  After an error it does not go
   back: the thread stays on that lwp, and the one it came from, which a worker
   has in its client's process, is nobody's any more. *)
LoseLwp(w) ==
    /\ lwps' = IF w \in lwps[at[w]]
               THEN [lwps EXCEPT ![at[w]] = (@ \ {w}) \cup {"lost"}] ELSE lwps
    /\ UNCHANGED pid1

(* dosend() has returned, ok or with an error, and the section that unlocks
   runs: of sendunlock(), or of a request that has an answer, of unputwait()
   after an error and of waitresp() otherwise.  Only waitresp() may have to
   wait.  Where nothing is said of the lwps, the thread leaves the one it is on
   before it uses another. *)
Answered(t) == \E r \in Client(t).respwait : r.who = t /\ r.done
NotOf(t, rws) == {r \in rws : r.who # t}

SendDone(t) ==
    LET s == at[t]
        woken == WokenByUnlock(s, Client(t))
        freed == [Client(t) EXCEPT !.ostatus = "FREE"]
        waits == goal[t] = "copyin" /\ ~Answered(t) /\ Client(t).state # "DYING"
    IN  /\ pc[t] = "send"
        /\ \E ok \in BOOLEAN :
           \/ /\ waits /\ ok
              /\ Becomes(s, freed)
              /\ Goto(t, "wait", s, "none")
              /\ asleep' = (asleep \ woken) \cup {t}
              /\ UNCHANGED lwpVars
           \/ /\ goal[t] \in {"copyin", "copyout"} /\ ~(waits /\ ok)
              /\ Becomes(s, [freed EXCEPT !.respwait = NotOf(t, @)])
              /\ Goto(t, "sys", s, "none")
              /\ asleep' = asleep \ woken
              /\ IF ok THEN UNCHANGED lwpVars ELSE LoseLwp(t)
           \/ /\ goal[t] = "reply"
              /\ Becomes(s, freed)
              /\ Goto(t, "release", s, "none")
              /\ asleep' = asleep \ woken
              /\ UNCHANGED lwpVars
           \/ /\ goal[t] \in {"answer", "noprefork"}
              /\ Becomes(s, freed)
              /\ Idle(t)
              /\ asleep' = asleep \ woken
              /\ UNCHANGED lwpVars
           \/ /\ goal[t] = "welcome"      \* then the handshake is complete, and
              /\ Becomes(s, [freed EXCEPT !.state = "RUNNING"])
              /\ Idle(t)                  \* spc_pid is the pid of the current lwp
              /\ asleep' = asleep \ woken
              /\ pid1' = IF ok THEN pid1 \ {s} ELSE pid1 \cup {s}
              /\ UNCHANGED lwps
        /\ UNCHANGED <<poolVars, loopVars, preforks, draining, aborted>>

(* Who waits on the rw_cv of one of rws. *)
Askers(rws) == {t \in Thread : pc[t] = "wait" /\ \E r \in rws : r.who = t}

(* waitresp(): woken by an answer or by the disconnect. *)
WaitResume(t) ==
    /\ pc[t] = "wait" /\ t \notin asleep
    /\ Answered(t) \/ Client(t).state = "DYING"
    /\ Becomes(at[t], [Client(t) EXCEPT !.respwait = NotOf(t, @)])
    /\ Goto(t, "sys", at[t], "none")
    /\ UNCHANGED <<poolVars, loopVars, preforks, asleep, draining, lwpVars, aborted>>

-----------------------------------------------------------------------------
(* References to a client. *)

(* spcrelease() up to its unlock; the last reference closes the client. *)
ReleasedTo(t, ref) == IF ref > 0 THEN Idle(t) ELSE Goto(t, "closing", at[t], "none")

Release(t) ==
    LET c == Client(t)
        ref == c.refcnt - 1
    IN  /\ pc[t] = "release"
        /\ Becomes(at[t], [c EXCEPT !.refcnt = ref])
        /\ asleep' = IF c.inexec /\ ref <= 2 THEN asleep \ OnCv(at[t]) ELSE asleep
        /\ ReleasedTo(t, ref)
        /\ IF t \in Worker /\ ref > 0 THEN Finish(t) ELSE UNCHANGED poolVars
        /\ UNCHANGED <<loopVars, preforks, draining, lwpVars, aborted>>

(* The main lwp and the descriptor go, and with the last of its lwps the
   process; then the slot is free for another client ... *)
Close(t) ==
    /\ pc[t] = "closing"
    /\ Becomes(at[t], [Client(t) EXCEPT !.mainlwp = FALSE, !.state = "NEW"])
    /\ draining' = draining \ {at[t]}
    /\ lwps' = [lwps EXCEPT ![at[t]] = {}]
    /\ Goto(t, "signal", at[t], "none")
    /\ UNCHANGED <<poolVars, loopVars, preforks, asleep, pid1, aborted>>

(* ... which signaldisco() tells the poll loop. *)
SignalDisco(t) ==
    /\ pc[t] = "signal"
    /\ disco' = disco + 1
    /\ Idle(t)
    /\ IF t \in Worker THEN Finish(t) ELSE UNCHANGED poolVars
    /\ UNCHANGED <<spc, pfd, nfds, maxidx, preforks, asleep, draining, lwpVars, aborted>>

-----------------------------------------------------------------------------
(* The poll loop: clients come and go. *)

(* Between two rounds: nfds-- and maxidx for each one that is gone. *)
LastPolledCounted == maxidx - disco     \* mutant: as nfds, not by looking
LastPolled == IF {s \in pfd : s <= maxidx} = {} THEN maxidx
              ELSE Max({s \in pfd : s <= maxidx})

Collect ==
    /\ pc[Server] = "poll" /\ disco > 0
    /\ nfds' = nfds - disco
    /\ maxidx' = LastPolled
    /\ disco' = 0
    /\ UNCHANGED <<poolVars, spc, pfd, preforks, threadVars, draining, lwpVars, aborted>>

(* serv_handleconn(); it leaves a connection alone that it cannot set up. *)
EmptySlot == {s \in Slot : s \notin pfd /\ spc[s].state = "NEW"}

Accept ==
    /\ pc[Server] = "poll" /\ nfds # MAXCLI
    /\ \/ /\ EmptySlot = {}
          /\ aborted' = TRUE
          /\ UNCHANGED <<spc, loopVars>>
       \/ /\ EmptySlot # {}
          /\ LET s == Min(EmptySlot)
             IN  /\ Becomes(s, [spc[s] EXCEPT !.refcnt = 1, !.respwait = {}])
                 /\ pfd' = pfd \cup {s}
                 /\ maxidx' = Max({maxidx, s})
          /\ nfds' = nfds + 1
          /\ UNCHANGED <<disco, aborted>>
    /\ UNCHANGED <<poolVars, preforks, threadVars, draining, lwpVars>>

(* Something to read from s. *)
Readable(s) == pc[Server] = "poll" /\ s \in pfd /\ s <= maxidx

(* serv_handledisco(), for an end of file or a frame that makes no sense:
   kickall() and sendunlockl() wake whoever waits; exec uses the main lwp in
   another thread. *)
DiscoLwpAnyway(c) == c.mainlwp          \* mutant
DiscoLwp(c) == ~c.inexec /\ c.mainlwp

Disconnect(s) ==
    /\ Readable(s)
    /\ pfd' = pfd \ {s}
    /\ Becomes(s, [spc[s] EXCEPT !.state = "DYING", !.ostatus = "FREE"])
    /\ asleep' = asleep \ (Askers(spc[s].respwait) \cup WokenByUnlock(s, spc[s]))
    /\ Goto(Server, IF DiscoLwp(spc[s]) THEN "lwpexit" ELSE "zero", s, "disco")
    /\ UNCHANGED <<poolVars, nfds, maxidx, disco, preforks, draining, lwpVars, aborted>>

(* lwproc_lwpexit() on the main lwp: the client's lwps are to leave the
   kernel, and no new one is made. *)
LwpExit ==
    /\ pc[Server] = "lwpexit"
    /\ draining' = draining \cup {at[Server]}
    /\ Goto(Server, IF goal[Server] = "disco" THEN "zero" ELSE "sched", at[Server], goal[Server])
    /\ UNCHANGED <<poolVars, spc, loopVars, preforks, asleep, lwpVars, aborted>>

(* The memset of what follows SPC_ZEROFF, without the lock. *)
ZeroedNot(c) == [c EXCEPT !.nextreq = 0]        \* mutant: inexec not among them
Zeroed(c) == [c EXCEPT !.ostatus = "FREE", !.inexec = FALSE, !.nextreq = 0]

Zero ==
    /\ pc[Server] = "zero"
    /\ Becomes(at[Server], Zeroed(Client(Server)))
    /\ Goto(Server, "release", at[Server], "none")
    /\ UNCHANGED <<poolVars, loopVars, preforks, asleep, draining, lwpVars, aborted>>

-----------------------------------------------------------------------------
(* The poll loop: frames. *)

(* kickwaiter(): the answer to request n, if anybody waits for it. *)
Kicked(rws, n) == {IF r.reqno = n THEN [r EXCEPT !.done = TRUE] ELSE r : r \in rws}

Response(s, n) ==
    LET kicked == {r \in spc[s].respwait : r.reqno = n}
    IN  /\ Readable(s)
        /\ kicked # {}
        /\ Becomes(s, [spc[s] EXCEPT !.respwait = Kicked(@, n)])
        /\ asleep' = asleep \ Askers(kicked)
        /\ UNCHANGED <<poolVars, loopVars, preforks, pc, at, goal, draining, lwpVars, aborted>>

(* handlereq(): what is only answered, with an error: a frame of an unknown
   class or type, a first frame that is no handshake, or one of a wrong kind,
   a fork whose token is unknown, exec or prefork during an exec. *)
Refuse(s) ==
    /\ Readable(s)
    /\ SendLock(Server, s, spc[s], "answer")
    /\ UNCHANGED <<poolVars, loopVars, preforks, draining, lwpVars, aborted>>

(* The first handshake, of a new guest or of the child of a prefork, whose
   fork succeeds; it is answered from the new main lwp. *)
Handshake(s, fork) ==
    /\ Readable(s) /\ spc[s].state = "NEW"
    /\ fork => preforks > 0
    /\ preforks' = IF fork THEN preforks - 1 ELSE preforks
    /\ lwps' = [lwps EXCEPT ![s] = {"main"}]
    /\ SendLock(Server, s, [spc[s] EXCEPT !.mainlwp = TRUE], "welcome")
    /\ UNCHANGED <<poolVars, loopVars, draining, pid1, aborted>>

(* A fork with a known token that is cancelled, or fails and says so. *)
DropPrefork(s, says) ==
    /\ Readable(s) /\ spc[s].state = "NEW"
    /\ preforks > 0
    /\ preforks' = preforks - 1
    /\ IF says THEN SendLock(Server, s, spc[s], "answer") ELSE UNCHANGED <<spc, threadVars>>
    /\ UNCHANGED <<poolVars, loopVars, draining, lwpVars, aborted>>

(* A prefork: nobody execs, and the main lwp is the server's to use ... *)
Prefork(s) ==
    /\ Readable(s) /\ spc[s].state = "RUNNING"
    /\ ~spc[s].inexec
    /\ Goto(Server, "prefork", s, "none")
    /\ UNCHANGED <<poolVars, spc, loopVars, preforks, asleep, draining, lwpVars, aborted>>

(* ... to fork from; a failure is answered before it is left. *)
PreforkDone ==
    LET s == at[Server]
    IN  /\ pc[Server] = "prefork"
        /\ \/ /\ preforks < MaxFork
              /\ preforks' = preforks + 1
              /\ SendLock(Server, s, spc[s], "answer")
           \/ SendLock(Server, s, spc[s], "noprefork") /\ UNCHANGED preforks
        /\ UNCHANGED <<poolVars, loopVars, draining, lwpVars, aborted>>

(* A bound on what is scheduled, not a guard of the code. *)
Room(s) == spc[s].refcnt < MaxRef /\ Len(wrklist) < MaxQueue

(* exec: the lwps are told to leave, and a worker does the rest. *)
Exec(s) ==
    /\ Readable(s) /\ spc[s].state = "RUNNING" /\ Room(s)
    /\ ~spc[s].inexec
    /\ Becomes(s, [spc[s] EXCEPT !.inexec = TRUE])
    /\ Goto(Server, "lwpexit", s, "exec")
    /\ UNCHANGED <<poolVars, loopVars, preforks, asleep, draining, lwpVars, aborted>>

Syscall(s) ==
    /\ Readable(s) /\ spc[s].state = "RUNNING" /\ Room(s)
    /\ Goto(Server, "sched", s, "syscall")
    /\ UNCHANGED <<poolVars, spc, loopVars, preforks, asleep, draining, lwpVars, aborted>>

(* schedulework(): spcref(), or an answer if there is neither memory nor a
   worker; with workers it tries for ever. *)
ReferencedNot(c) == c                   \* mutant
Referenced(c) == [c EXCEPT !.refcnt = @ + 1]

Schedule ==
    LET s == at[Server]
    IN  /\ pc[Server] = "sched"
        /\ \/ /\ Becomes(s, Referenced(spc[s]))
              /\ Goto(Server, "queue", s, goal[Server])
              /\ UNCHANGED asleep
           \/ /\ nworker = 0
              /\ SendLock(Server, s, spc[s], "answer")
        /\ UNCHANGED <<poolVars, loopVars, preforks, draining, lwpVars, aborted>>

(* ... and its section under sbamtx. *)
Queue ==
    /\ pc[Server] = "queue"
    /\ Enqueue([slot |-> at[Server], type |-> goal[Server]])
    /\ Idle(Server)
    /\ UNCHANGED <<spc, loopVars, preforks, asleep, draining, lwpVars, aborted>>

-----------------------------------------------------------------------------
(* The workers. *)

(* serv_workbouncer() takes an item. *)
TakeJob(w) ==
    /\ Take(w)
    /\ Goto(w, IF Head(wrklist).type = "exec" THEN "exec" ELSE "start", Head(wrklist).slot, "none")
    /\ UNCHANGED <<spc, loopVars, preforks, asleep, draining, lwpVars, aborted>>

NoJob(w) ==
    /\ NoTake(w)
    /\ UNCHANGED <<spc, loopVars, preforks, threadVars, draining, lwpVars, aborted>>

(* serv_handlesyscall(): lwproc_newlwp(spc_pid), which fails while the lwps are
   told to leave; that is the answer then. *)
Start(w) ==
    /\ pc[w] = "start"
    /\ \/ /\ at[w] \in draining \ pid1
          /\ SendLock(w, at[w], Client(w), "reply")
          /\ UNCHANGED lwps
       \/ /\ at[w] \notin draining \ pid1
          /\ Goto(w, "sys", at[w], "none")
          /\ lwps' = IF at[w] \in pid1 THEN lwps ELSE [lwps EXCEPT ![at[w]] = @ \cup {w}]
          /\ UNCHANGED <<spc, asleep>>
    /\ UNCHANGED <<poolVars, loopVars, preforks, draining, pid1, aborted>>

(* The system call asks the client for memory, copyin_req() or anonmmap_req(),
   and waits for the answer ... *)
OnClientLwp(w) == w \in lwps[at[w]]     \* process 1 has its memory here

Copyin(w) ==
    /\ pc[w] = "sys" /\ OnClientLwp(w) /\ Client(w).nextreq < MaxReq[at[w]]
    /\ SendLock(w, at[w], WithRequest(Client(w), w), "copyin")
    /\ UNCHANGED <<poolVars, loopVars, preforks, draining, lwpVars, aborted>>

(* ... or sends it some and does not wait, though nextreq() goes up ... *)
Copyout(w) ==
    /\ pc[w] = "sys" /\ OnClientLwp(w) /\ Client(w).nextreq < MaxReq[at[w]]
    /\ SendLock(w, at[w], [Client(w) EXCEPT !.nextreq = @ + 1], "copyout")
    /\ UNCHANGED <<poolVars, loopVars, preforks, draining, lwpVars, aborted>>

(* ... or is over: lwproc_release() takes the lwp the worker is on, and the
   result is sent, as an exec's is. *)
Reply(w) ==
    /\ pc[w] \in {"sys", "execreply"}
    /\ lwps' = [lwps EXCEPT ![at[w]] = @ \ {w}]
    /\ SendLock(w, at[w], Client(w), "reply")
    /\ UNCHANGED <<poolVars, loopVars, preforks, draining, pid1, aborted>>

(* serv_handleexec(): one reference for the connection and one for us. *)
TooManyRefsOff(c) == c.refcnt > 3       \* mutant
TooManyRefs(c) == c.refcnt > 2

ExecWait(w) ==
    /\ pc[w] = "exec" /\ w \notin asleep
    /\ \/ /\ TooManyRefs(Client(w))
          /\ asleep' = asleep \cup {w}
          /\ UNCHANGED <<pc, at, goal>>
       \/ /\ ~TooManyRefs(Client(w))
          /\ Goto(w, "execlwp", at[w], "none")
          /\ UNCHANGED asleep
    /\ UNCHANGED <<poolVars, spc, loopVars, preforks, draining, lwpVars, aborted>>

(* lwproc_execnotify() on the main lwp: new lwps may be made again. *)
ExecNotify(w) ==
    /\ pc[w] = "execlwp"
    /\ draining' = draining \ {at[w]}
    /\ Goto(w, "execend", at[w], "none")
    /\ UNCHANGED <<poolVars, spc, loopVars, preforks, asleep, lwpVars, aborted>>

ExecEnd(w) ==
    /\ pc[w] = "execend"
    /\ Becomes(at[w], [Client(w) EXCEPT !.inexec = FALSE])
    /\ Goto(w, "execreply", at[w], "none")
    /\ UNCHANGED <<poolVars, loopVars, preforks, asleep, draining, lwpVars, aborted>>

-----------------------------------------------------------------------------

(* What a thread does by itself, and what a client makes the poll loop do. *)
Step(t) ==
    \/ Relock(t) \/ SendDone(t) \/ Release(t) \/ Close(t) \/ SignalDisco(t)
    \/ t = Server /\ (LwpExit \/ Zero \/ PreforkDone \/ Schedule \/ Queue)
    \/ t \in Worker /\ (TakeJob(t) \/ NoJob(t) \/ Start(t) \/ WaitResume(t) \/ Copyin(t)
                        \/ Copyout(t) \/ Reply(t) \/ ExecWait(t) \/ ExecNotify(t) \/ ExecEnd(t))

Poll(s) ==
    \/ Disconnect(s)
    \/ \E n \in 0 .. MaxReq[s] - 1 : Response(s, n)
    \/ Refuse(s)
    \/ \E b \in BOOLEAN : Handshake(s, b) \/ DropPrefork(s, b)
    \/ Prefork(s) \/ Exec(s) \/ Syscall(s)

Next ==
    /\ ~aborted
    /\ \/ \E t \in Thread : Step(t)
       \/ Collect
       \/ Accept
       \/ \E s \in Slot : Poll(s)

Spec == Init /\ [][Next]_vars

(* Threads run; no client has to send anything, ever. *)
FairSpec == Spec /\ \A t \in Thread : WF_vars(Step(t))

-----------------------------------------------------------------------------

Respwait == [who : Worker, reqno : Nat, done : BOOLEAN]

LwpTypeOK == lwps \in [Slot -> SUBSET (Worker \cup {"main", "lost"})] /\ pid1 \subseteq Slot

ServerTypeOK ==
    /\ PoolTypeOK
    /\ spc \in [Slot -> [refcnt : Nat, state : {"NEW", "RUNNING", "DYING"},
                         ostatus : {"FREE", "BUSY", "WANTED"}, inexec : BOOLEAN,
                         nextreq : Nat, respwait : SUBSET Respwait, mainlwp : BOOLEAN]]
    /\ pfd \subseteq Slot /\ nfds \in 1 .. MAXCLI /\ maxidx \in 0 .. MAXCLI - 1
    /\ disco \in Nat /\ preforks \in 0 .. MaxFork
    /\ pc \in [Thread -> {"poll", "pool", "lock", "send", "wait", "start", "sys", "exec",
                          "execlwp", "execend", "execreply", "release", "closing", "signal",
                          "lwpexit", "zero", "prefork", "sched", "queue"}]
    /\ at \in [Thread -> Slot \cup {NoSlot}]
    /\ goal \in [Thread -> {"none", "copyin", "copyout", "reply", "answer", "noprefork",
                            "welcome", "disco", "exec", "syscall"}]
    /\ asleep \subseteq Thread /\ draining \subseteq Slot /\ aborted \in BOOLEAN

TypeOK == ServerTypeOK /\ LwpTypeOK

(* The reference count that decides when a client is closed and when exec may
   go on counts the connection, the items on the list and the workers with
   one; nobody releases twice or works without a reference (spcref,
   spcrelease, serv_handledisco). *)
Connected(s) == s \in pfd \/ (at[Server] = s /\ pc[Server] \in {"lwpexit", "zero", "release"})
Queued(s) == {i \in DOMAIN wrklist : wrklist[i].slot = s}
                \cup (IF at[Server] = s /\ pc[Server] = "queue" THEN {0} ELSE {})
Working(s) == {w \in Worker : at[w] = s /\ pc[w] \notin {"closing", "signal"}}

RefsCounted ==
    \A s \in Slot : spc[s].refcnt = Cardinality(Queued(s)) + Cardinality(Working(s))
                                      + (IF Connected(s) THEN 1 ELSE 0)

(* A slot that serv_handleconn() may give to the next client holds nothing of
   the last: nobody works for it, waits for an answer or has its send lock,
   and no exec of it is left (the memset of serv_handledisco). *)
SlotClean ==
    \A s \in EmptySlot :
        /\ [spc[s] EXCEPT !.nextreq = 0] = NewClient
        /\ s \notin draining
        /\ \A t \in Thread : at[t] = s => pc[t] = "signal"

(* Frames to a client are not mixed up: as long as it is connected one thread
   sends to it at a time, poll loop and workers together (sendlockl,
   sendunlockl). *)
SendExclusive ==
    \A s \in pfd : Cardinality({t \in Thread : at[t] = s /\ pc[t] = "send"}) <= 1

(* An answer reaches the one system call that asked: requests to a connected
   client that are outstanding have different numbers, none of which will be
   given again (doputwait, nextreq, kickwaiter). *)
AnswersFindAsker ==
    \A s \in pfd : \A r, q \in spc[s].respwait :
        /\ r.reqno < spc[s].nextreq
        /\ r.reqno = q.reqno => r.who = q.who

(* The main lwp of a client is never used by two threads: the poll loop uses
   it to drain and to fork, the worker of an exec to finish it, and who closes
   the client to free it ("this is never used by worker threads (except in
   exec, but we checked for that above)", sysproxy.c:1944). *)
OnMainLwp(s) ==
    {t \in Thread : /\ at[t] = s
                    /\ \/ pc[t] \in {"lwpexit", "execlwp", "prefork", "closing"}
                       \/ goal[t] \in {"welcome", "noprefork"}}

MainLwpExclusive == \A s \in Slot : Cardinality(OnMainLwp(s)) <= 1

(* When exec is made known while the client is connected, its process is still
   draining and no worker has an lwp in it, though system calls are scheduled
   and fail to send all the while (handlereq, serv_handlesyscall,
   serv_handleexec); what is left beside the main lwp are lwps that failed
   sends have lost. *)
Execs(w) == pc[w] = "execlwp" /\ at[w] \in pfd

ExecAlone ==
    \A w \in Worker : Execs(w) => at[w] \in draining /\ lwps[at[w]] \subseteq {"main", "lost"}

(* "ok, all the threads are dead" (sysproxy.c:1545): the process that execs has
   no lwp but its main one, as the kernel asserts of p_nlwps
   (libsysproxy/sysproxy.c:191).  An lwp that a failed send has lost is still
   one of them: dosend() returns at 478 past the lwproc_switch() of 475. *)
ExecOneLwp == \A w \in Worker : Execs(w) => lwps[at[w]] = {"main"}

(* The poll loop's bookkeeping of slots: a connection that is not refused as
   one too many finds a slot ("not finding a slot is impossible",
   sysproxy.c:1486), though clients are closed by workers at any time, and
   every connected client is polled. *)
TableSound == ~aborted /\ \A s \in pfd : s <= maxidx

(* Nobody sleeps whom nobody will wake: a sender while somebody sends, who
   will see that the lock is wanted; an exec while there are others who hold
   references and will see that it waits; an asker only until its answer or
   the disconnect, also after the client is gone. *)
SleepersHaveWaker ==
    \A t \in asleep :
        /\ pc[t] = "lock" /\ at[t] \in pfd =>
              /\ Client(t).ostatus = "WANTED"
              /\ \E u \in Thread \ asleep : at[u] = at[t] /\ pc[u] = "send"
        /\ pc[t] = "exec" /\ at[t] \in pfd => Client(t).refcnt > 2 /\ Client(t).inexec
        /\ pc[t] = "wait" => ~Answered(t) /\ Client(t).state # "DYING"

(* A client that is gone leaves its slot in the end ("g/c hangarounds
   (eventually)", sysproxy.c:2062): its threads find out, and the last of them
   closes it. *)
GoneIsClosed == \A s \in Slot : (spc[s].state = "DYING") ~> (spc[s].state = "NEW")
=============================================================================
