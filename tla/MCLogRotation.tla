--------------------------- MODULE MCLogRotation ---------------------------
(* A small instance of LogRotation for TLC. *)
EXTENDS LogRotation, TLC

CONSTANTS w1, w2

Symmetry == Permutations(Writers)

=============================================================================
