---------------------------- MODULE MCInstances ----------------------------
(* A small instance of Instances for TLC. *)
EXTENDS Instances, TLC

CONSTANTS p1, p2, p3

Symmetry == Permutations(Procs)

=============================================================================
