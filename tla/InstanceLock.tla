--------------------------- MODULE InstanceLock ----------------------------
(***************************************************************************)
(* InstanceLock of src/src/lock.rs: one lock file, locked with flock by    *)
(* the processes that use it.                                              *)
(*                                                                         *)
(* flock belongs to an open file, not to a process: lock() opens the file  *)
(* anew each time, so a second lock() of the holder is refused by its own  *)
(* first one.  The operating system releases the lock when the last handle *)
(* of the open file is closed, however the process ends.                   *)
(***************************************************************************)
EXTENDS Processes

VARIABLES
    flock,      \* the process whose open file holds the lock on the file
    file        \* InstanceLock.file is Some

lockVars == <<flock, file>>

LockTypeOK ==
    /\ flock \in Procs \cup {NoProc}
    /\ file \in [Procs -> BOOLEAN]

LockInit ==
    /\ flock = NoProc
    /\ file = [p \in Procs |-> FALSE]

Free == flock = NoProc

(* faulty: the lock is taken from whoever holds it *)
AcquireShared(p) ==
    /\ flock' = p
    /\ file' = [file EXCEPT ![p] = TRUE]

(* lock(): the file is opened (created, truncated) and the open file takes
   the lock and is kept, or it is refused and dropped again. *)
Acquire(p) ==
    /\ Free
    /\ flock' = p
    /\ file' = [file EXCEPT ![p] = TRUE]

(* faulty: the handle is stored (and the old one closed) before the attempt *)
RefusedStored(p) ==
    /\ ~Free
    /\ flock' = IF flock = p THEN NoProc ELSE flock
    /\ file' = [file EXCEPT ![p] = TRUE]

Refused(p) ==
    /\ ~Free
    /\ UNCHANGED lockVars

(* unlock(), called by the application or by Drop. *)
Unlock(p) ==
    /\ file[p]
    /\ flock' = IF flock = p THEN NoProc ELSE flock
    /\ file' = [file EXCEPT ![p] = FALSE]

(* The process ends without running Drop; its handles are closed. *)
Crashed(p) ==
    /\ flock' = IF flock = p THEN NoProc ELSE flock
    /\ file' = [file EXCEPT ![p] = FALSE]

=============================================================================
