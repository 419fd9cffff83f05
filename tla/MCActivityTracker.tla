-------------------------- MODULE MCActivityTracker --------------------------
(* Instances of ActivityTracker for TLC. *)
EXTENDS ActivityTracker, TLC

(* Replicas are interchangeable: a symmetry for runs that check no liveness. *)
Interchangeable == Permutations(Pod)

=============================================================================
