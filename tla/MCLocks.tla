------------------------------- MODULE MCLocks -------------------------------
(* Small instances of Locks: three threads, mutexes and a cv. *)
EXTENDS Locks

CONSTANTS a, b, rcv, m1, s1, c1

Threads3 == {a, b, rcv}
Queues   == Mutex \cup Cv
Delays   == {0, 1}
=============================================================================
