------------------------------ MODULE MCThreads ------------------------------
(* Small instances of Threads: the waiting for the CPU is the only queue. *)
EXTENDS Threads, TLC

CONSTANTS main, rcv, a, b, cpu

OneQueue == {cpu}
Delays   == {0, 1}

(* a and b run the same programs. *)
Workers == Permutations({a, b})
=============================================================================
