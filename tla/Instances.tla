----------------------------- MODULE Instances -----------------------------
(***************************************************************************)
(* Instances of one daemon that share a lock file, a PID file and a socket *)
(* path: started, refused, ended and killed in any order.                  *)
(*                                                                         *)
(* The library offers InstanceLock, the PID file (pid_file of the          *)
(* configuration) and ipc::bind separately, and Daemon::run takes no lock. *)
(* An application that uses the lock takes it before run and drops it      *)
(* afterwards, which is what lock.rs is for; others run without it.  A     *)
(* restart is a new process.                                               *)
(***************************************************************************)
EXTENDS InstanceLock, PidFile, IpcSocket

VARIABLES
    locking,    \* the processes whose application uses the lock
    pc,         \* where each process is
    stray       \* history: a socket file was removed on behalf of a run that was over

vars == <<lockVars, pidVars, sockVars, locking, pc, stray>>

TypeOK ==
    /\ LockTypeOK /\ PidTypeOK /\ SockTypeOK
    /\ locking \subseteq Procs
    /\ pc \in [Procs -> {"new", "started", "entered", "created", "up", "returned",
                         "gone", "killed"}]
    /\ stray \in BOOLEAN

Init ==
    /\ LockInit /\ PidInit /\ SockInit
    /\ locking \in SUBSET Procs
    /\ pc = [p \in Procs |-> "new"]
    /\ stray = FALSE

Goto(p, from, to) ==
    /\ pc[p] = from
    /\ pc' = [pc EXCEPT ![p] = to]

(* The application: lock(), then run(); it exits if lock() is refused or
   the lock file cannot be opened. *)
Start(p) ==
    /\ Goto(p, "new", "started")
    /\ IF p \in locking THEN Acquire(p) ELSE UNCHANGED lockVars
    /\ UNCHANGED <<pidVars, sockVars>>

GiveUp(p) ==
    /\ Goto(p, "new", "gone")
    /\ p \in locking
    /\ Refused(p) \/ UNCHANGED lockVars
    /\ UNCHANGED <<pidVars, sockVars>>

(* A second lock() while holding the lock fails and changes nothing. *)
LockAgain(p) ==
    /\ p \in locking /\ pc[p] \in {"started", "up"}
    /\ Refused(p)
    /\ UNCHANGED <<pidVars, sockVars, pc>>

(* faulty: the lock is dropped as soon as run has been entered *)
EnterRunUnlocked(p) ==
    /\ Goto(p, "started", "entered")
    /\ Unlock(p)
    /\ UNCHANGED <<pidVars, sockVars>>

(* Daemon::run: working directory, PID file, logging; an error before the
   guard exists returns without removing anything. *)
EnterRun(p) ==
    /\ Goto(p, "started", "entered") \/ Goto(p, "started", "returned")
    /\ UNCHANGED <<lockVars, pidVars, sockVars>>

CreatePid(p) ==
    \/ /\ Goto(p, "entered", "created")
       /\ OpenPid(p)
       /\ UNCHANGED <<lockVars, sockVars>>
    \/ /\ Goto(p, "entered", "returned")
       /\ UNCHANGED <<lockVars, pidVars, sockVars>>

FillPid(p) ==
    /\ \/ Goto(p, "created", "up") /\ WritePid(p)
       \/ Goto(p, "created", "returned") /\ ClosePid(p)
    /\ UNCHANGED <<lockVars, sockVars>>

(* A subsystem serves the control channel.  Its task ends with run, as run leaves
   none behind under tokio, the runtime of module ipc (Daemon!ReturnMeansEnded). *)
Serve(p) ==
    /\ pc[p] = "up"
    /\ Bind(p)
    /\ UNCHANGED <<lockVars, pidVars, pc>>

(* run returns, after a shutdown or because logging or a subsystem could not
   be started: the listener is closed, the guard dropped. *)
Return(p) ==
    /\ Goto(p, "up", "returned")
    /\ RemovePid(p) /\ DropListener(p)
    /\ UNCHANGED lockVars

(* A remove_file that outlives its task is carried out although run and even the
   use of the lock are over. *)
StrayRemoval(p) ==
    /\ pc[p] \in {"returned", "gone"}
    /\ bind[p] = "is_socket" /\ Bind(p)
    /\ stray' = (stray \/ sockPath' # sockPath)
    /\ UNCHANGED <<lockVars, pidVars, pc>>

(* The application drops the lock. *)
Leave(p) ==
    /\ Goto(p, "returned", "gone")
    /\ IF p \in locking THEN Unlock(p) ELSE UNCHANGED lockVars
    /\ UNCHANGED <<pidVars, sockVars>>

(* The process is killed: the operating system closes its files, and what it
   left in the file system stays. *)
Kill(p) ==
    /\ pc[p] \notin {"new", "gone", "killed"}
    /\ pc' = [pc EXCEPT ![p] = "killed"]
    /\ Crashed(p) /\ ClosePid(p) /\ CloseSocket(p)

Step(p) ==
    \/ Start(p) \/ GiveUp(p) \/ LockAgain(p) \/ EnterRun(p) \/ CreatePid(p)
    \/ FillPid(p) \/ Serve(p) \/ Return(p) \/ Leave(p) \/ Kill(p)

Elsewhere == OtherProgram /\ UNCHANGED <<lockVars, pidVars, pc, stray>>

Next ==
    /\ UNCHANGED locking
    /\ \/ \E p \in Procs : (Step(p) /\ UNCHANGED stray) \/ StrayRemoval(p)
       \/ Elsewhere

Spec == Init /\ [][Next]_vars

-----------------------------------------------------------------------------
(* Properties. *)

Running(p)   == pc[p] \in {"started", "entered", "created", "up", "returned"}
Listening(p) == pc[p] = "up" /\ bind[p] = "bound"

(* Of the processes that use the lock no two are between lock() and its drop,
   whatever was refused, tried twice or killed. *)
OneInstance == \A p, q \in locking : Running(p) /\ Running(q) => p = q

(* is_locked() tells whether the lock is held, and only a running process
   holds it: nobody is refused because of a dead one. *)
LockTells == \A p \in Procs :
    /\ file[p] <=> flock = p
    /\ file[p] <=> p \in locking /\ Running(p)

(* If everybody uses the lock: while run is past the creation of its PID file,
   the file is there and holds its PID. *)
PidFileTells == locking = Procs => \A p \in Procs :
    pc[p] = "up" => pidPath # NoProc /\ pidText[pidPath] = p

(* Even without the lock, and whoever overwrites or removes whose file, a PID in
   the file is that of a daemon in run, of one that was killed, or of one that
   could not remove the file when its own run ended. *)
PidFileNeverLies == pidPath # NoProc /\ pidText[pidPath] # NoProc =>
    LET p == pidText[pidPath] IN pc[p] \in {"up", "killed"} \/ p \in unremoved

(* If everybody uses the lock, the socket file belongs to the process that
   listens, although bind does not ask whether the socket it removes is alive:
   the lock keeps a second bind away, except for a removal that an aborted bind
   has left behind. *)
ListenerReachable ==
    locking = Procs /\ ~stray => \A p \in Procs : Listening(p) => Connects(p)

(* What the proofs need besides: with the lock, only the daemon in run touches the
   PID file it has opened; a bind begins in run only, and one that goes on to the
   removal has found a socket, or what it removes was not there when it looked. *)
OwnPidFile == locking = Procs => \A p \in Procs :
    pc[p] = "created" => pidPath # NoProc /\ pidOpen[p] = pidPath

NotASocket == sockPath = "other_file"

RemovesSocketsOnly == NotASocket =>
    \A p \in Procs : bind[p] = "is_socket" => p \in late

BindsInRun == \A p \in Procs :
    bind[p] # "none" => pc[p] \in {"up", "returned", "gone"}

IInv ==
    /\ TypeOK /\ LockTells /\ PidFileNeverLies
    /\ OwnPidFile /\ PidFileTells
    /\ BindsInRun /\ ListenerReachable /\ RemovesSocketsOnly

(* What is not a socket stays until the program that put it there takes it away,
   whoever rebinds the path meanwhile.  A bind removes it in one case only, the
   window that the comment of bind admits: it was put there between this bind's
   look and its removal.  No bind ever takes its place. *)
ForeignFilesStay ==
    [][NotASocket /\ sockPath' # sockPath =>
           \/ UNCHANGED bind
           \/ sockPath' = NoProc /\ \E p \in late : bind'[p] # bind[p]]_vars

=============================================================================
