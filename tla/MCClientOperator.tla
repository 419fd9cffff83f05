--------------------------- MODULE MCClientOperator ---------------------------
(* Instances of ClientOperator for TLC. *)
EXTENDS ClientOperator, TLC

(* Processes, and the reconciles within one, are interchangeable: a symmetry *)
(* for the runs that check no liveness.                                      *)
Interchangeable == Permutations(Pod) \cup Permutations(Slot)

=============================================================================
