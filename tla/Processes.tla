----------------------------- MODULE Processes -----------------------------
(* The processes that run a daemon on one machine.  A process is started at
   most once: a restart is another process. *)
CONSTANTS Procs, NoProc

ASSUME ProcAssumption == NoProc \notin Procs

=============================================================================
