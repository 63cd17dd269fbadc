----------------------------- MODULE MCSysproxy ------------------------------
(* Small instances of the sysproxy server. *)
EXTENDS Sysproxy, TLC

CONSTANTS w1, w2

Workers == {w1, w2}
WorkerSymmetry == Permutations(Worker)
Jobs == [slot : Slot, type : {"syscall", "exec"}]

(* Bounds on the requests: two to the client of the first slot, so that their
   numbers can be mixed up, or one, or none. *)
TwoAtFirst == [s \in Slot |-> IF s = 1 THEN 2 ELSE 0]
OneEach == [s \in Slot |-> 1]
NoRequest == [s \in Slot |-> 0]
=============================================================================
