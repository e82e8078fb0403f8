-------------------------- MODULE InstancesProofs --------------------------
(***************************************************************************)
(* Proofs about module Instances, for any set of processes, whichever of   *)
(* them use the lock.                                                      *)
(*                                                                         *)
(* That the lock admits one process is a fact about the lock alone.  What  *)
(* the PID file and the socket file promise rests on it: if everybody uses *)
(* the lock, a process that acts on them is the only one in run.           *)
(***************************************************************************)
EXTENDS Instances, TLAPS

LEMMA InitIInv == Init => IInv
BY ProcAssumption, ForeignAssumption
   DEF Init, IInv, TypeOK, LockInit, PidInit, SockInit, LockTypeOK, PidTypeOK, SockTypeOK,
       LockTells, PidFileNeverLies, OwnPidFile, PidFileTells, BindsInRun,
       ListenerReachable, RemovesSocketsOnly, Running, Listening

(* The holder of the lock is the only one of its users that runs. *)
LEMMA HolderRuns ==
  ASSUME LockTells, NEW p \in locking, NEW q \in locking, Running(p), Running(q),
         locking \subseteq Procs
  PROVE  p = q
BY DEF LockTells

(* If everybody uses the lock, nobody else is in run. *)
LEMMA Alone ==
  ASSUME LockTells, locking = Procs, NEW p \in Procs, NEW q \in Procs, Running(p), q # p
  PROVE  ~Running(q)
BY HolderRuns

-----------------------------------------------------------------------------
(* Steps that touch the lock, and the program counter. *)
LEMMA LockStep ==
  ASSUME IInv, NEW p \in Procs, UNCHANGED <<locking, stray>>,
         Start(p) \/ GiveUp(p) \/ LockAgain(p) \/ Leave(p)
  PROVE  IInv'
<1>. USE DEF IInv, lockVars, pidVars, sockVars
<1>0. UNCHANGED <<pidVars, sockVars>>
  BY DEF Start, GiveUp, LockAgain, Leave
<1>1. CASE Start(p)
  <2>1. /\ pc[p] = "new" /\ pc' = [pc EXCEPT ![p] = "started"]
    BY <1>1 DEF Start, Goto
  <2>2. LockTypeOK' /\ LockTells'
    <3>1. CASE p \in locking
      <4>1. /\ flock = NoProc /\ flock' = p
            /\ file' = [file EXCEPT ![p] = TRUE]
        BY <1>1, <3>1 DEF Start, Acquire, Free
      <4>2. \A q \in Procs : ~file[q]
        BY <4>1, ProcAssumption DEF TypeOK, LockTypeOK, LockTells
      <4>. QED
        BY <2>1, <3>1, <4>1, <4>2 DEF TypeOK, LockTypeOK, LockTells, Running
    <3>2. CASE p \notin locking
      BY <1>1, <2>1, <3>2 DEF Start, TypeOK, LockTypeOK, LockTells, Running
    <3>. QED
      BY <3>1, <3>2
  <2>. QED
    BY <1>0, <2>1, <2>2
       DEF TypeOK, PidTypeOK, SockTypeOK, PidFileNeverLies, OwnPidFile, PidFileTells,
           BindsInRun, ListenerReachable, RemovesSocketsOnly, NotASocket, Listening, Connects
<1>2. CASE GiveUp(p)
  <2>1. /\ pc[p] = "new" /\ pc' = [pc EXCEPT ![p] = "gone"]
        /\ UNCHANGED lockVars
    BY <1>2 DEF GiveUp, Goto, Refused
  <2>. QED
    BY <1>0, <2>1
       DEF TypeOK, LockTypeOK, LockTells, Running, PidTypeOK, SockTypeOK,
           PidFileNeverLies, OwnPidFile, PidFileTells,
           BindsInRun, ListenerReachable, RemovesSocketsOnly, NotASocket, Listening, Connects
<1>3. CASE LockAgain(p)
  BY <1>3
     DEF LockAgain, Refused, TypeOK, LockTypeOK, LockTells, Running, PidTypeOK, SockTypeOK,
         PidFileNeverLies, OwnPidFile, PidFileTells,
         BindsInRun, ListenerReachable, RemovesSocketsOnly, NotASocket, Listening, Connects
<1>4. CASE Leave(p)
  <2>1. /\ pc[p] = "returned" /\ pc' = [pc EXCEPT ![p] = "gone"]
    BY <1>4 DEF Leave, Goto
  <2>2. LockTypeOK' /\ LockTells'
    BY <1>4, <2>1, ProcAssumption
       DEF Leave, TypeOK, LockTypeOK, LockTells, Unlock, Running
  <2>. QED
    BY <1>0, <2>1, <2>2
       DEF TypeOK, PidTypeOK, SockTypeOK, PidFileNeverLies, OwnPidFile, PidFileTells,
           BindsInRun, ListenerReachable, RemovesSocketsOnly, NotASocket, Listening, Connects
<1>. QED
  BY <1>1, <1>2, <1>3, <1>4

-----------------------------------------------------------------------------
(* Steps inside run. *)
LEMMA PidStep ==
  ASSUME IInv, NEW p \in Procs, UNCHANGED <<locking, stray>>,
         EnterRun(p) \/ CreatePid(p) \/ FillPid(p) \/ Return(p)
  PROVE  IInv'
<1>. USE DEF IInv, lockVars, pidVars, sockVars
<1>1. CASE EnterRun(p)
  <2>1. /\ pc[p] = "started"
        /\ \/ pc' = [pc EXCEPT ![p] = "entered"]
           \/ pc' = [pc EXCEPT ![p] = "returned"]
    BY <1>1 DEF EnterRun, Goto
  <2>2. UNCHANGED <<lockVars, pidVars, sockVars>>
    BY <1>1 DEF EnterRun
  <2>. QED
    BY <2>1, <2>2
       DEF TypeOK, LockTypeOK, LockTells, Running, PidTypeOK, SockTypeOK,
           PidFileNeverLies, OwnPidFile, PidFileTells,
           BindsInRun, ListenerReachable, RemovesSocketsOnly, NotASocket, Listening, Connects
<1>2. CASE CreatePid(p)
  <2>1. UNCHANGED <<lockVars, sockVars>>
    BY <1>2 DEF CreatePid
  <2>2. CASE Goto(p, "entered", "created") /\ OpenPid(p)
    <3>1. /\ pc[p] = "entered" /\ pc' = [pc EXCEPT ![p] = "created"]
      BY <2>2 DEF Goto
    <3>2. PICK f \in Procs :
             /\ pidPath' = f
             /\ pidText' = [pidText EXCEPT ![f] = NoProc]
             /\ pidOpen' = [pidOpen EXCEPT ![p] = f]
             /\ unremoved' = unremoved
             /\ pidPath # NoProc => f = pidPath
      BY <2>2, ProcAssumption DEF OpenPid, TypeOK, PidTypeOK
    <3>3. PidTypeOK' /\ PidFileNeverLies' /\ OwnPidFile'
      BY <3>1, <3>2, Alone, ProcAssumption
         DEF TypeOK, PidTypeOK, PidFileNeverLies, OwnPidFile, Running
    <3>4. PidFileTells'
      <4>. SUFFICES ASSUME locking = Procs, NEW q \in Procs, pc'[q] = "up" PROVE FALSE
        BY DEF PidFileTells
      <4>1. q # p /\ pc[q] = "up"
        BY <3>1 DEF TypeOK
      <4>. QED
        BY <3>1, <4>1, Alone DEF Running
    <3>. QED
      BY <2>1, <3>1, <3>3, <3>4
         DEF TypeOK, SockTypeOK, LockTypeOK, LockTells, Running,
             BindsInRun, ListenerReachable, RemovesSocketsOnly, NotASocket, Listening, Connects
  <2>3. CASE Goto(p, "entered", "returned") /\ UNCHANGED pidVars
    BY <2>1, <2>3
       DEF Goto, TypeOK, LockTypeOK, LockTells, Running, PidTypeOK, SockTypeOK,
           PidFileNeverLies, OwnPidFile, PidFileTells,
           BindsInRun, ListenerReachable, RemovesSocketsOnly, NotASocket, Listening, Connects
  <2>. QED
    BY <1>2, <2>2, <2>3 DEF CreatePid
<1>3. CASE FillPid(p)
  <2>1. UNCHANGED <<lockVars, sockVars>>
    BY <1>3 DEF FillPid
  <2>2. CASE Goto(p, "created", "up") /\ WritePid(p)
    <3>1. /\ pc[p] = "created" /\ pc' = [pc EXCEPT ![p] = "up"]
      BY <2>2 DEF Goto
    <3>2. /\ pidText' = [pidText EXCEPT ![pidOpen[p]] = p]
          /\ pidOpen' = [pidOpen EXCEPT ![p] = NoProc]
          /\ pidPath' = pidPath /\ unremoved' = unremoved
      BY <2>2 DEF WritePid
    <3>3. PidTypeOK' /\ PidFileNeverLies'
      BY <3>1, <3>2, ProcAssumption DEF TypeOK, PidTypeOK, PidFileNeverLies
    <3>4. OwnPidFile' /\ PidFileTells'
      <4>. SUFFICES ASSUME locking = Procs, NEW q \in Procs, pc'[q] \in {"created", "up"}
                    PROVE  q = p /\ pidPath' # NoProc /\ pidText'[pidPath'] = p
        BY <3>1 DEF OwnPidFile, PidFileTells, TypeOK
      <4>1. q = p
        BY <3>1, Alone DEF Running, TypeOK
      <4>. QED
        BY <3>1, <3>2, <4>1 DEF OwnPidFile, TypeOK, PidTypeOK
    <3>. QED
      BY <2>1, <3>1, <3>3, <3>4
       DEF TypeOK, SockTypeOK, LockTypeOK, LockTells, Running,
           BindsInRun, ListenerReachable, RemovesSocketsOnly, NotASocket, Listening, Connects
  <2>3. CASE Goto(p, "created", "returned") /\ ClosePid(p)
    BY <2>1, <2>3
       DEF Goto, ClosePid, TypeOK, LockTypeOK, LockTells, Running, PidTypeOK, SockTypeOK,
           PidFileNeverLies, OwnPidFile, PidFileTells,
           BindsInRun, ListenerReachable, RemovesSocketsOnly, NotASocket, Listening, Connects
  <2>. QED
    BY <1>3, <2>2, <2>3 DEF FillPid
<1>4. CASE Return(p)
  <2>1. /\ pc[p] = "up" /\ pc' = [pc EXCEPT ![p] = "returned"]
        /\ DropListener(p) /\ UNCHANGED lockVars
    BY <1>4 DEF Return, Goto
  <2>2. OwnPidFile' /\ PidFileTells'
    <3>. SUFFICES ASSUME locking = Procs, NEW q \in Procs, pc'[q] \in {"created", "up"}
                  PROVE  FALSE
      BY DEF OwnPidFile, PidFileTells
    <3>. QED
      BY <2>1, Alone DEF Running, TypeOK
  <2>3. PidTypeOK' /\ PidFileNeverLies'
    BY <1>4, <2>1, ProcAssumption
       DEF Return, RemovePid, TypeOK, PidTypeOK, PidFileNeverLies
  <2>4. SockTypeOK' /\ BindsInRun' /\ ListenerReachable' /\ RemovesSocketsOnly'
    BY <2>1
       DEF DropListener, TypeOK, SockTypeOK, BindsInRun, ListenerReachable,
           RemovesSocketsOnly, NotASocket, Listening, Connects
  <2>. QED
    BY <2>1, <2>2, <2>3, <2>4
       DEF TypeOK, LockTypeOK, LockTells, Running
<1>. QED
  BY <1>1, <1>2, <1>3, <1>4

-----------------------------------------------------------------------------
(* The socket: a bind takes over the path only if it names nothing, and removes
   a socket, or what was put there after its look. *)
LEMMA BindStep ==
  ASSUME SockTypeOK, RemovesSocketsOnly, NEW p \in Procs, Bind(p)
  PROVE  /\ SockTypeOK'
         /\ \A q \in Procs \ {p} : bind'[q] = bind[q]
         /\ bind'[p] = "bound" => sockPath' = p
         /\ NotASocket /\ sockPath' # sockPath =>
                sockPath' = NoProc /\ p \in late /\ bind'[p] # bind[p]
         /\ RemovesSocketsOnly'
<1>. USE ForeignAssumption, ProcAssumption
     DEF SockTypeOK, RemovesSocketsOnly, NotASocket, Foreign, At
<1>1. late' = IF sockPath' = sockPath THEN late \ {p} ELSE {}
  BY DEF Bind
<1>2. CASE FirstBind(p)
  BY <1>1, <1>2 DEF FirstBind
<1>3. CASE Inspect(p)
  BY <1>1, <1>3 DEF Inspect, Sockets
<1>4. CASE RemoveSocket(p)
  BY <1>1, <1>4 DEF RemoveSocket
<1>5. CASE SecondBind(p)
  BY <1>1, <1>5 DEF SecondBind
<1>. QED
  BY <1>2, <1>3, <1>4, <1>5 DEF Bind

LEMMA ServeStep ==
  ASSUME IInv, NEW p \in Procs, UNCHANGED <<locking, stray>>, Serve(p)
  PROVE  IInv'
<1>. USE DEF IInv
<1>1. pc[p] = "up" /\ UNCHANGED <<lockVars, pidVars, pc, locking, stray>> /\ Bind(p)
  BY DEF Serve
<1>2. /\ SockTypeOK'
      /\ \A q \in Procs \ {p} : bind'[q] = bind[q]
      /\ bind'[p] = "bound" => sockPath' = p
      /\ RemovesSocketsOnly'
  BY <1>1, BindStep DEF TypeOK
<1>3. ListenerReachable'
  <2>. SUFFICES ASSUME locking = Procs, NEW q \in Procs, Listening(q)' PROVE Connects(q)'
    BY <1>1 DEF ListenerReachable
  <2>1. q = p
    BY <1>1, Alone DEF Listening, Running
  <2>. QED
    BY <1>2, <2>1 DEF Listening, Connects
<1>4. BindsInRun'
  BY <1>1, <1>2 DEF BindsInRun
<1>. QED
  BY <1>1, <1>2, <1>3, <1>4
     DEF TypeOK, lockVars, pidVars, LockTypeOK, PidTypeOK, LockTells, Running,
         PidFileNeverLies, OwnPidFile, PidFileTells

(* A removal that comes late either finds nothing to remove or is remembered. *)
LEMMA StrayStep ==
  ASSUME IInv, NEW p \in Procs, UNCHANGED locking, StrayRemoval(p)
  PROVE  IInv'
<1>. USE DEF IInv
<1>1. /\ pc[p] \in {"returned", "gone"} /\ bind[p] = "is_socket" /\ Bind(p)
      /\ stray' = (stray \/ sockPath' # sockPath)
      /\ UNCHANGED <<lockVars, pidVars, pc, locking>>
  BY DEF StrayRemoval
<1>2. /\ SockTypeOK'
      /\ \A q \in Procs \ {p} : bind'[q] = bind[q]
      /\ RemovesSocketsOnly'
  BY <1>1, BindStep DEF TypeOK
<1>3. ListenerReachable'
  <2>. SUFFICES ASSUME locking = Procs, ~stray, sockPath' = sockPath,
                       NEW q \in Procs, Listening(q)'
                PROVE  Connects(q)'
    BY <1>1 DEF ListenerReachable, TypeOK
  <2>1. q # p
    BY <1>1 DEF Listening
  <2>. QED
    BY <1>1, <1>2, <2>1 DEF ListenerReachable, Listening, Connects
<1>4. BindsInRun'
  BY <1>1, <1>2 DEF BindsInRun
<1>5. stray' \in BOOLEAN
  BY <1>1
<1>. QED
  BY <1>1, <1>2, <1>3, <1>4, <1>5
     DEF TypeOK, lockVars, pidVars, LockTypeOK, PidTypeOK, LockTells, Running,
         PidFileNeverLies, OwnPidFile, PidFileTells

(* Who puts a file at the path is late for every bind that has looked. *)
LEMMA OtherStep ==
  ASSUME IInv, UNCHANGED locking, Elsewhere
  PROVE  IInv'
<1>. USE DEF IInv
<1>1. /\ sockPath \notin Procs /\ sockPath' \in Foreign \cup {NoProc}
      /\ late' = {p \in Procs : bind[p] = "is_socket"}
      /\ UNCHANGED <<lockVars, pidVars, pc, stray, bind, locking>>
  BY DEF Elsewhere, OtherProgram
<1>. QED
  BY <1>1
     DEF lockVars, pidVars, TypeOK, LockTypeOK, PidTypeOK, SockTypeOK, LockTells, Running,
         PidFileNeverLies, OwnPidFile, PidFileTells, BindsInRun, ListenerReachable,
         RemovesSocketsOnly, Listening, Connects

LEMMA KillStep ==
  ASSUME IInv, NEW p \in Procs, UNCHANGED <<locking, stray>>, Kill(p)
  PROVE  IInv'
<1>. USE DEF IInv
<1>1. /\ pc[p] \notin {"new", "gone", "killed"}
      /\ pc' = [pc EXCEPT ![p] = "killed"]
      /\ Crashed(p) /\ ClosePid(p) /\ CloseSocket(p)
  BY DEF Kill
<1>2. LockTypeOK' /\ LockTells'
  BY <1>1, ProcAssumption DEF Crashed, TypeOK, LockTypeOK, LockTells, Running
<1>3. SockTypeOK' /\ BindsInRun' /\ ListenerReachable' /\ RemovesSocketsOnly'
  BY <1>1
     DEF CloseSocket, TypeOK, SockTypeOK, BindsInRun, ListenerReachable,
         RemovesSocketsOnly, NotASocket, Listening, Connects
<1>. QED
  BY <1>1, <1>2, <1>3
     DEF ClosePid, TypeOK, PidTypeOK, PidFileNeverLies, OwnPidFile, PidFileTells

-----------------------------------------------------------------------------
LEMMA NextIInv == IInv /\ [Next]_vars => IInv'
<1>. SUFFICES ASSUME IInv, [Next]_vars PROVE IInv'
  OBVIOUS
<1>1. ASSUME NEW p \in Procs, Step(p), UNCHANGED <<locking, stray>> PROVE IInv'
  BY <1>1, LockStep, PidStep, ServeStep, KillStep DEF Step
<1>2. CASE UNCHANGED vars
  BY <1>2
     DEF vars, lockVars, pidVars, sockVars, IInv, TypeOK, LockTypeOK, PidTypeOK, SockTypeOK,
         LockTells, Running, PidFileNeverLies, OwnPidFile, PidFileTells, BindsInRun,
         ListenerReachable, RemovesSocketsOnly, NotASocket, Listening, Connects
<1>. QED
  BY <1>1, <1>2, StrayStep, OtherStep DEF Next

(* Whichever processes use the lock, and however they are refused, ended and
   killed, the lock, the PID file and the socket file stay consistent with the
   processes that run. *)
THEOREM Invariance == Spec => []IInv
BY InitIInv, NextIInv, PTL DEF Spec

(* lock() admits one process at a time, for any number of processes. *)
THEOREM AtMostOneInstance == Spec => []OneInstance
<1>1. IInv => OneInstance
  BY HolderRuns DEF IInv, TypeOK, OneInstance
<1>. QED
  BY <1>1, Invariance, PTL

(* A daemon in run finds its own PID in its PID file, if all use the lock. *)
THEOREM PidFileIsMine == Spec => []PidFileTells
<1>1. IInv => PidFileTells
  BY DEF IInv
<1>. QED
  BY <1>1, Invariance, PTL

(* The PID of a run that has ended is in the file only if that run was killed or
   could not remove the file, lock or no lock, whoever wrote and removed what. *)
THEOREM NoStalePid == Spec => []PidFileNeverLies
<1>1. IInv => PidFileNeverLies
  BY DEF IInv
<1>. QED
  BY <1>1, Invariance, PTL

(* A daemon that listens can be reached, if all use the lock, although bind does
   not ask whether the socket it removes is alive, unless an aborted bind of a
   run before has removed its file. *)
THEOREM ReachesTheListener == Spec => []ListenerReachable
<1>1. IInv => ListenerReachable
  BY DEF IInv
<1>. QED
  BY <1>1, Invariance, PTL

(* What another program has at the path and is not a socket is removed by a bind
   only if it came after that bind's look, and is never replaced by one, however
   many race for the path. *)
THEOREM ForeignFiles == Spec => ForeignFilesStay
<1>. DEFINE Stays == NotASocket /\ sockPath' # sockPath =>
                         \/ UNCHANGED bind
                         \/ sockPath' = NoProc /\ \E p \in late : bind'[p] # bind[p]
<1>1. IInv /\ [Next]_vars => [Stays]_vars
  <2>. SUFFICES ASSUME IInv, Next, NotASocket, sockPath' # sockPath, bind' # bind
                PROVE  sockPath' = NoProc /\ \E p \in late : bind'[p] # bind[p]
    OBVIOUS
  <2>1. PICK p \in Procs : Step(p) \/ StrayRemoval(p)
    BY DEF Next, Elsewhere, OtherProgram
  <2>2. Bind(p)
    <3>1. CASE Serve(p) \/ StrayRemoval(p)
      BY <3>1 DEF Serve, StrayRemoval
    <3>2. CASE Step(p) /\ ~Serve(p)
      BY <3>2
         DEF Step, Start, GiveUp, LockAgain, EnterRun, CreatePid, FillPid, Return, Leave,
             Kill, DropListener, CloseSocket, sockVars
    <3>. QED
      BY <2>1, <3>1, <3>2
  <2>. QED
    BY <2>2, BindStep DEF IInv, TypeOK
<1>. QED
  BY <1>1, Invariance, PTL DEF Spec, ForeignFilesStay

=============================================================================
