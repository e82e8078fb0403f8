------------------------- MODULE MCShutdownPhases --------------------------
(* Small instances of ShutdownPhases for TLC. *)
EXTENDS ShutdownPhases

MCTimeouts    == [graceful |-> 5, force |-> 6, kill |-> 7]
MCNewTimeouts == [graceful |-> 3, force |-> 8, kill |-> 4]

=============================================================================
