------------------------ MODULE MCSubsystemManager -------------------------
(* Small instances of SubsystemManager for TLC. *)
EXTENDS SubsystemManager, TLC

CONSTANTS s1, s2, p1, p2, t1, t2, t3

TaskSymmetry   == Permutations({t1, t2, t3})
ThreadSymmetry == Permutations({p1, p2})
Symmetry       == TaskSymmetry \cup ThreadSymmetry

=============================================================================
