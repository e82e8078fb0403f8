----------------------------- MODULE MCMetrics -----------------------------
(* A small instance of Metrics for TLC. *)
EXTENDS Metrics, TLC

CONSTANTS t1, t2, o1, o2, o3, c1, c2

Symmetry == Permutations(Threads) \cup Permutations(Objects)

=============================================================================
