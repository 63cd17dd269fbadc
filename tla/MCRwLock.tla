------------------------------ MODULE MCRwLock -------------------------------
(* Small instances of RwLock: three threads and one lock. *)
EXTENDS RwLock

CONSTANTS a, b, rcv, r1, w1

Threads3 == {a, b, rcv}
Queues   == {r1, w1}
Delays   == {0, 1}
Ab       == Permutations({a, b})
=============================================================================
