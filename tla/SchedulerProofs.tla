--------------------------- MODULE SchedulerProofs ---------------------------
(* What the queue operations of Scheduler do to the set of threads on a     *)
(* queue in which every thread occurs at most once.                         *)
EXTENDS Scheduler, SequenceTheorems, TLAPS

(* Only elements of S are on a queue of elements of S. *)
LEMMA ToSetType ==
  ASSUME NEW S, NEW q \in Seq(S)
  PROVE  ToSet(q) \subseteq S
  BY DEF ToSet

(* RemoveAt closes the gap at place i. *)
LEMMA RemoveAtPlaces ==
  ASSUME NEW S, NEW q \in Seq(S), NEW i \in 1..Len(q)
  PROVE  /\ RemoveAt(q, i) \in Seq(S)
         /\ Len(RemoveAt(q, i)) = Len(q) - 1
         /\ \A k \in 1..(Len(q) - 1) :
                RemoveAt(q, i)[k] = IF k < i THEN q[k] ELSE q[k + 1]
<1> DEFINE l == SubSeq(q, 1, i - 1)
           r == SubSeq(q, i + 1, Len(q))
<1>1. l \in Seq(S) /\ Len(l) = i - 1 /\ \A k \in 1..(i - 1) : l[k] = q[k]
  OBVIOUS
<1>2. r \in Seq(S) /\ Len(r) = Len(q) - i /\ \A k \in 1..(Len(q) - i) : r[k] = q[k + i]
  OBVIOUS
<1>3. RemoveAt(q, i) = l \o r
  BY DEF RemoveAt
<1> HIDE DEF l, r
<1>4. /\ l \o r \in Seq(S)
      /\ Len(l \o r) = Len(l) + Len(r)
      /\ \A k \in 1..(Len(l) + Len(r)) :
             (l \o r)[k] = IF k <= Len(l) THEN l[k] ELSE r[k - Len(l)]
  BY <1>1, <1>2, ConcatProperties
<1>5. ASSUME NEW k \in 1..(Len(q) - 1)
      PROVE  (l \o r)[k] = IF k < i THEN q[k] ELSE q[k + 1]
  <2>1. CASE k < i
    BY <2>1, <1>1, <1>2, <1>4
  <2>2. CASE ~(k < i)
    <3>1. (l \o r)[k] = r[k - Len(l)]
      BY <2>2, <1>1, <1>2, <1>4
    <3>2. k - Len(l) \in 1..(Len(q) - i) /\ (k - Len(l)) + i = k + 1
      BY <2>2, <1>1
    <3> QED
      BY <3>1, <3>2, <2>2, <1>2
  <2> QED
    BY <2>1, <2>2
<1> QED
  BY <1>1, <1>2, <1>3, <1>4, <1>5

(* TAILQ_REMOVE at place i takes that thread, and only it, off the queue. *)
LEMMA RemoveAtSet ==
  ASSUME NEW S, NEW q \in Seq(S), NEW i \in 1..Len(q), IsInjective(q)
  PROVE  /\ IsInjective(RemoveAt(q, i))
         /\ ToSet(RemoveAt(q, i)) = ToSet(q) \ {q[i]}
<1> DEFINE p == RemoveAt(q, i)
<1>1. /\ p \in Seq(S) /\ Len(p) = Len(q) - 1
      /\ \A k \in 1..(Len(q) - 1) : p[k] = IF k < i THEN q[k] ELSE q[k + 1]
  BY RemoveAtPlaces
<1> HIDE DEF p
<1>2. IsInjective(p)
  <2>1. SUFFICES ASSUME NEW j \in 1..(Len(q) - 1), NEW k \in 1..(Len(q) - 1), p[j] = p[k]
                 PROVE  j = k
    BY <1>1 DEF IsInjective
  <2> DEFINE f(n) == IF n < i THEN n ELSE n + 1
  <2>2. f(j) \in 1..Len(q) /\ f(k) \in 1..Len(q) /\ q[f(j)] = q[f(k)]
    BY <2>1, <1>1
  <2>3. f(j) = f(k)
    BY <2>2 DEF IsInjective
  <2> QED
    BY <2>3
<1>3. ToSet(p) \subseteq ToSet(q) \ {q[i]}
  BY <1>1 DEF IsInjective, ToSet
<1>4. ASSUME NEW x \in ToSet(q) \ {q[i]} PROVE x \in ToSet(p)
  <2>1. PICK k \in 1..Len(q) : x = q[k] /\ k # i
    BY DEF ToSet
  <2>2. CASE k < i
    <3>1. k \in 1..(Len(q) - 1) /\ p[k] = x
      BY <2>1, <2>2, <1>1
    <3> QED
      BY <3>1, <1>1 DEF ToSet
  <2>3. CASE k > i
    <3>1. k - 1 \in 1..(Len(q) - 1) /\ p[k - 1] = x
      BY <2>1, <2>3, <1>1
    <3> QED
      BY <3>1, <1>1 DEF ToSet
  <2> QED
    BY <2>1, <2>2, <2>3
<1> QED
  BY <1>2, <1>3, <1>4 DEF p

(* Unlink takes exactly the thread it is given off the queue. *)
LEMMA UnlinkSet ==
  ASSUME NEW S, NEW q \in Seq(S), IsInjective(q), NEW t \in ToSet(q)
  PROVE  /\ Unlink(q, t) \in Seq(S)
         /\ IsInjective(Unlink(q, t))
         /\ ToSet(Unlink(q, t)) = ToSet(q) \ {t}
<1> DEFINE i == CHOOSE k \in DOMAIN q : q[k] = t
<1>1. i \in 1..Len(q) /\ q[i] = t
  BY DEF ToSet
<1> HIDE DEF i
<1>2. Unlink(q, t) = RemoveAt(q, i)
  BY DEF Unlink, i
<1> QED
  BY <1>1, <1>2, RemoveAtPlaces, RemoveAtSet

(* TAILQ_INSERT_TAIL of a thread that is not on the queue. *)
LEMMA AppendSet ==
  ASSUME NEW S, NEW q \in Seq(S), IsInjective(q), NEW t \in S, t \notin ToSet(q)
  PROVE  /\ Append(q, t) \in Seq(S)
         /\ IsInjective(Append(q, t))
         /\ ToSet(Append(q, t)) = ToSet(q) \cup {t}
<1>1. /\ Append(q, t) \in Seq(S) /\ Len(Append(q, t)) = Len(q) + 1
      /\ \A k \in 1..Len(q) : Append(q, t)[k] = q[k]
      /\ Append(q, t)[Len(q) + 1] = t
  OBVIOUS
<1> DEFINE p == Append(q, t)
<1> HIDE DEF p
<1>2. IsInjective(p)
  BY <1>1 DEF p, IsInjective, ToSet
<1>3. ToSet(p) = ToSet(q) \cup {t}
  BY <1>1 DEF p, ToSet
<1> QED
  BY <1>1, <1>2, <1>3 DEF p

(* wakeup_one() takes off the queue whom it wakes. *)
LEMMA RestOfSet ==
  ASSUME NEW S, NEW q \in Seq(S), IsInjective(q)
  PROVE  /\ RestOf(q) \in Seq(S)
         /\ IsInjective(RestOf(q))
         /\ ToSet(RestOf(q)) = ToSet(q) \ FirstOf(q)
         /\ FirstOf(q) \subseteq ToSet(q)
<1>1. CASE q = <<>>
  BY <1>1 DEF RestOf, FirstOf
<1>2. CASE q # <<>>
  <2>1. /\ Len(q) > 0 /\ Tail(q) \in Seq(S) /\ Len(Tail(q)) = Len(q) - 1
        /\ \A k \in 1..(Len(q) - 1) : Tail(q)[k] = q[k + 1]
        /\ Head(q) = q[1]
    BY <1>2
  <2> DEFINE p == Tail(q)
  <2>2. RestOf(q) = p /\ FirstOf(q) = {q[1]}
    BY <1>2, <2>1 DEF RestOf, FirstOf
  <2> HIDE DEF p
  <2>3. IsInjective(p)
    <3>1. SUFFICES ASSUME NEW j \in 1..(Len(q) - 1), NEW k \in 1..(Len(q) - 1), p[j] = p[k]
                   PROVE  j = k
      BY <2>1 DEF p, IsInjective
    <3>2. j + 1 \in 1..Len(q) /\ k + 1 \in 1..Len(q) /\ q[j + 1] = q[k + 1]
      BY <3>1, <2>1 DEF p
    <3>3. j + 1 = k + 1
      BY <3>2 DEF IsInjective
    <3> QED
      BY <3>3
  <2>4. ToSet(p) \subseteq ToSet(q) \ {q[1]}
    BY <2>1 DEF p, IsInjective, ToSet
  <2>5. ASSUME NEW x \in ToSet(q) \ {q[1]} PROVE x \in ToSet(p)
    <3>1. PICK k \in 1..Len(q) : x = q[k] /\ k # 1
      BY DEF ToSet
    <3>2. k - 1 \in 1..Len(p) /\ p[k - 1] = x
      BY <3>1, <2>1 DEF p
    <3>3. DOMAIN p = 1..Len(p)
      BY <2>1 DEF p
    <3> QED
      BY <3>2, <3>3 DEF ToSet
  <2>6. q[1] \in ToSet(q)
    BY <2>1 DEF ToSet
  <2> QED
    BY <2>1, <2>2, <2>3, <2>4, <2>5, <2>6 DEF p
<1> QED
  BY <1>1, <1>2

-----------------------------------------------------------------------------

(* wake() and the calls of schedule() keep the scheduler's variables typed. *)
LEMMA WakeType ==
  ASSUME SchedTypeOK, NEW W \in SUBSET Thread, Wake(W)
  PROVE  runnable' \subseteq Thread /\ wakeup_time' \in [Thread -> NotSleeping..MaxTime]
  BY TimeAssumption DEF SchedTypeOK, Wake, Woken, Unslept, NotSleeping

(* A thread that goes to sleep with a proper wakeup time. *)
LEMMA WakeThenSleepType ==
  ASSUME SchedTypeOK, NEW W \in SUBSET Thread, NEW t \in Thread,
         NEW tm \in NotSleeping..MaxTime, WakeThenSleep(W, t, tm)
  PROVE  /\ runnable' \subseteq Thread
         /\ wakeup_time' \in [Thread -> NotSleeping..MaxTime]
         /\ scheduling' = TRUE
  BY TimeAssumption DEF SchedTypeOK, WakeThenSleep, Woken, Unslept, NotSleeping

(* What wake() does to each thread. *)
LEMMA WakeEach ==
  ASSUME SchedTypeOK, NEW W \in SUBSET Thread, Wake(W)
  PROVE  /\ runnable' = runnable \cup W
         /\ \A u \in Thread : u \notin W => wakeup_time'[u] = wakeup_time[u]
  BY DEF Wake, Woken, Unslept, SchedTypeOK

(* What going to sleep does to each thread. *)
LEMMA SleepEach ==
  ASSUME SchedTypeOK, NEW W \in SUBSET Thread, NEW t \in Thread, NEW tm, WakeThenSleep(W, t, tm)
  PROVE  /\ runnable' = (runnable \cup W) \ {t}
         /\ scheduling' = TRUE
         /\ wakeup_time'[t] = tm
         /\ \A u \in Thread : u # t /\ u \notin W => wakeup_time'[u] = wakeup_time[u]
  BY DEF WakeThenSleep, Woken, Unslept, SchedTypeOK

(* A deadline within the bound is a wakeup time. *)
LEMMA DeadlineType ==
  ASSUME SchedTypeOK, NEW d \in Int, d = NotSleeping \/ (d >= 0 /\ clock + d <= MaxTime)
  PROVE  Deadline(d) \in NotSleeping..MaxTime
  BY TimeAssumption DEF SchedTypeOK, Deadline, NotSleeping

(* schedule() switches to a thread of the list, which is runnable then. *)
LEMMA SwitchToType ==
  ASSUME SchedTypeOK, NEW i \in DOMAIN thread_list, SwitchTo(i)
  PROVE  /\ SchedTypeOK'
         /\ current_thread' \in runnable'
         /\ runnable \subseteq runnable'
         /\ UNCHANGED <<waitq, onlist>>
         /\ scheduling /\ ~scheduling'
<1>1. i \in 1..Len(thread_list) /\ thread_list[i] \in Thread
  BY DEF SchedTypeOK
<1>2. RemoveAt(thread_list, i) \in Seq(Thread)
  BY <1>1, RemoveAtPlaces DEF SchedTypeOK
<1>3. thread_list' \in Seq(Thread)
  BY <1>1, <1>2 DEF SwitchTo, Rotate
<1>4. Wake({thread_list[i]} \ runnable)
  BY DEF SwitchTo
<1>5. runnable' \subseteq Thread /\ wakeup_time' \in [Thread -> NotSleeping..MaxTime]
  BY <1>1, <1>4, WakeType
<1> QED
  BY <1>1, <1>3, <1>4, <1>5 DEF SwitchTo, SchedTypeOK, Wake, Woken

(* The idle loop only makes threads runnable. *)
LEMMA PollType ==
  ASSUME SchedTypeOK, NEW W \in SUBSET FdThread, Poll(W)
  PROVE  /\ SchedTypeOK'
         /\ scheduling /\ runnable \subseteq runnable'
         /\ UNCHANGED <<thread_list, current_thread, scheduling, waitq, onlist>>
  BY WakeType, FdAssumption DEF Poll, SchedTypeOK, Wake, Woken

(* Time stays within its bound. *)
LEMMA TickType ==
  ASSUME SchedTypeOK, Tick
  PROVE  SchedTypeOK'
  BY TimeAssumption DEF Tick, SchedTypeOK
=============================================================================
