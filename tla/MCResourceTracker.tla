------------------------- MODULE MCResourceTracker -------------------------
(* A small instance of ResourceTracker for TLC. *)
EXTENDS ResourceTracker

CONSTANTS t1, t2, t3

=============================================================================
