------------------------------ MODULE PidFile ------------------------------
(***************************************************************************)
(* PidFileGuard of src/src/daemon.rs: a file that holds the PID of the     *)
(* daemon, created at the start of Daemon::run and removed by the guard's  *)
(* Drop.  Creation is two steps, open (which truncates what is there) and  *)
(* write; removal is by path, whatever the path names by then.             *)
(***************************************************************************)
EXTENDS Processes

VARIABLES
    pidPath,    \* the file the path names: the process that created it, or NoProc
    pidText,    \* the PID in each file ever created, or NoProc while empty
    pidOpen,    \* the file each process has open to write, or NoProc
    unremoved   \* history: processes whose guard could not remove what the path names

pidVars == <<pidPath, pidText, pidOpen, unremoved>>

PidTypeOK ==
    /\ pidPath \in Procs \cup {NoProc}
    /\ pidText \in [Procs -> Procs \cup {NoProc}]
    /\ pidOpen \in [Procs -> Procs \cup {NoProc}]
    /\ unremoved \subseteq Procs

PidInit ==
    /\ pidPath = NoProc
    /\ pidText = [p \in Procs |-> NoProc]
    /\ pidOpen = [p \in Procs |-> NoProc]
    /\ unremoved = {}

(* faulty: an existing file is opened without being taken over *)
OpenPidNew(p) ==
    /\ pidPath' = IF pidPath = NoProc THEN p ELSE pidPath
    /\ pidOpen' = [pidOpen EXCEPT ![p] = p]
    /\ UNCHANGED <<pidText, unremoved>>

(* PidFileGuard::create, first half: File::create. *)
OpenPid(p) ==
    LET f == IF pidPath = NoProc THEN p ELSE pidPath IN
    /\ pidPath' = f
    /\ pidText' = [pidText EXCEPT ![f] = NoProc]
    /\ pidOpen' = [pidOpen EXCEPT ![p] = f]
    /\ UNCHANGED unremoved

(* Second half: writeln!. *)
WritePid(p) ==
    /\ pidText' = [pidText EXCEPT ![pidOpen[p]] = p]
    /\ pidOpen' = [pidOpen EXCEPT ![p] = NoProc]
    /\ UNCHANGED <<pidPath, unremoved>>

(* The write fails, or the process dies: the handle is closed, the file stays. *)
ClosePid(p) ==
    /\ pidOpen' = [pidOpen EXCEPT ![p] = NoProc]
    /\ UNCHANGED <<pidPath, pidText, unremoved>>

(* Drop of the guard.  An error of remove_file is ignored: the right to unlink
   may be gone by then, and the file stays. *)
RemovePid(p) ==
    /\ \/ pidPath' = NoProc /\ unremoved' = {}
       \/ /\ pidPath # NoProc
          /\ unremoved' = unremoved \cup {p}
          /\ UNCHANGED pidPath
    /\ UNCHANGED <<pidText, pidOpen>>

=============================================================================
