---------------------------- MODULE MCShutdown -----------------------------
(* A small instance of Shutdown for TLC. *)
EXTENDS Shutdown, TLC

CONSTANTS c1, c2, c3, w1, w2, r1

(* The signal handler, Daemon::shutdown, and the graceful-timeout path of  *)
(* wait_for_shutdown.                                                      *)
MCReasonOf3 == (c1 :> "Signal") @@ (c2 :> "Requested") @@ (c3 :> "Forced")

=============================================================================
