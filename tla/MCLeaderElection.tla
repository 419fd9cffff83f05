--------------------------- MODULE MCLeaderElection ---------------------------
(* Instances of LeaderElection for TLC. *)
EXTENDS LeaderElection, TLC

(* The pods are interchangeable: a symmetry for the runs without liveness. *)
Interchangeable == Permutations(Pod)

=============================================================================
