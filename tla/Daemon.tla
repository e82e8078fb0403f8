------------------------------ MODULE Daemon -------------------------------
(***************************************************************************)
(* Daemon::run of src/src/daemon.rs, composed with the shutdown latch      *)
(* (module ShutdownLatch, which Shutdown refines), the signal handler task *)
(* of src/src/signal.rs and one task per subsystem.                        *)
(*                                                                         *)
(* The main task starts the subsystems, spawns the signal handler, waits   *)
(* for the latch, tells the handler to stop, joins it, stops all           *)
(* subsystems and goes through the graceful, force and kill waits.         *)
(***************************************************************************)
EXTENDS Naturals, SignalHandler

CONSTANTS
    Subsystems,     \* the subsystems registered with the builder
    Programmatic,   \* whether anybody calls Daemon::shutdown
    Main, Undecided

Reasons == {"Signal", "Requested"}

ASSUME ConfigurationAssumption ==
    /\ Programmatic \in BOOLEAN
    /\ Main \notin Subsystems /\ Undecided \notin Reasons

VARIABLES
    decision, place,    \* the latch
    timeSet,    \* shutdown_time is Some
    program,    \* the thread that calls Daemon::shutdown
    pc,         \* what Daemon::run does next
    task,       \* the task of each subsystem
    stop,       \* the stop_subsystem call of each subsystem
    ready       \* the subsystems marked ready

latchVars  == <<decision, place>>
taskVars   == <<task, stop, ready>>
vars == <<build, decision, place, timeSet, program, pc, task, stop, ready, handling, spc,
          pending, killedBy>>

Coordinator == INSTANCE ShutdownLatch WITH Waiters <- Subsystems \cup {Main}

-----------------------------------------------------------------------------
TaskEnded == {"ended", "failed", "aborted"}

TypeOK ==
    /\ decision \in Reasons \cup {Undecided}
    /\ place \in [Subsystems \cup {Main} -> {"away", "waiting", "released"}]
    /\ timeSet \in BOOLEAN
    /\ program \in {"idle", "storing", "done"}
    /\ pc \in {"start", "loop", "select", "stop_signals", "join_signals", "stop_all",
               "graceful", "force", "kill", "returned"}
    /\ task \in [Subsystems -> {"none", "running", "cleanup"} \cup TaskEnded]
    /\ stop \in [Subsystems -> {"idle", "join", "abort", "done"}]
    /\ ready \subseteq Subsystems
    /\ SignalTypeOK

Init ==
    /\ Coordinator!LatchInit
    /\ timeSet = FALSE
    /\ program = "idle"
    /\ pc = "start"
    /\ task = [s \in Subsystems |-> "none"]
    /\ stop = [s \in Subsystems |-> "idle"]
    /\ ready = {}
    /\ SignalInit

(* Nothing happens in a process that a signal has killed; after run has    *)
(* returned the process is on its way out.                                 *)
Alive == killedBy = "nothing"
Up    == Alive /\ pc # "returned"

-----------------------------------------------------------------------------
(* Signals, and the handler task, which calls initiate_shutdown as well.   *)

Deliver(sig) ==
    /\ Up
    /\ Delivered(sig)
    /\ UNCHANGED <<latchVars, timeSet, program, pc, taskVars>>

HandlerStep ==
    /\ Up
    /\ HandlerProceeds
    /\ UNCHANGED <<latchVars, timeSet, program, pc, taskVars>>

SignalInitiates ==
    /\ Up
    /\ LET won == decision = Undecided IN
       /\ Receive(won) \/ FlagUp(won)
       /\ IF won THEN Coordinator!Open("Signal") ELSE UNCHANGED latchVars
    /\ UNCHANGED <<timeSet, program, pc, taskVars>>

FinishSignal ==
    /\ Up
    /\ FinishInitiating
    /\ timeSet' = TRUE
    /\ UNCHANGED <<latchVars, program, pc, taskVars>>

SignalTask == HandlerStep \/ SignalInitiates \/ FinishSignal

-----------------------------------------------------------------------------
(* Daemon::shutdown, called on a clone by some other thread. *)

CallShutdown ==
    /\ Up
    /\ Programmatic
    /\ program = "idle"
    /\ IF decision = Undecided
       THEN Coordinator!Open("Requested") /\ program' = "storing"
       ELSE UNCHANGED latchVars /\ program' = "done"
    /\ UNCHANGED <<timeSet, pc, taskVars, build, signalVars>>

FinishShutdown ==
    /\ Up
    /\ program = "storing"
    /\ timeSet' = TRUE
    /\ program' = "done"
    /\ UNCHANGED <<latchVars, pc, taskVars, build, signalVars>>

-----------------------------------------------------------------------------
(* The subsystems' tasks. *)

(* cancelled() returns in a subsystem, which then cleans up. *)
Notice(s) ==
    /\ Up
    /\ task[s] = "running"
    /\ Coordinator!Leave(s)
    /\ task' = [task EXCEPT ![s] = "cleanup"]
    /\ UNCHANGED <<timeSet, program, pc, stop, ready, build, signalVars>>

(* run() returns: after its cleanup, or earlier, with or without error. *)
RunReturns(s) ==
    /\ Up
    /\ task[s] \in {"running", "cleanup"}
    /\ \E outcome \in {"ended", "failed"} : task' = [task EXCEPT ![s] = outcome]
    /\ UNCHANGED <<latchVars, timeSet, program, pc, stop, ready, build, signalVars>>

(* The subsystem calls ready() on its handle. *)
ReportReady(s) ==
    /\ Up
    /\ task[s] \in {"running", "cleanup"}
    /\ ready' = ready \cup {s}
    /\ UNCHANGED <<latchVars, timeSet, program, pc, task, stop, build, signalVars>>

(* An aborted task is dropped at its next await. *)
Cancelled(s) ==
    /\ Up
    /\ stop[s] = "abort"
    /\ task[s] \in {"running", "cleanup"}
    /\ task' = [task EXCEPT ![s] = "aborted"]
    /\ UNCHANGED <<latchVars, timeSet, program, pc, stop, ready, build, signalVars>>

-----------------------------------------------------------------------------
(* Daemon::run. *)

(* start_all, one subsystem at a time. *)
StartSubsystem(s) ==
    /\ Up
    /\ pc = "start"
    /\ task[s] = "none"
    /\ task' = [task EXCEPT ![s] = "running"]
    /\ Coordinator!Enter(s)
    /\ UNCHANGED <<timeSet, program, pc, stop, ready, build, signalVars>>

SpawnSignalHandler ==
    /\ Up
    /\ pc = "start"
    /\ \A s \in Subsystems : task[s] # "none"
    /\ Spawned
    /\ pc' = "loop"
    /\ UNCHANGED <<latchVars, timeSet, program, taskVars>>

(* is_shutdown(), the health checks, and wait_initiated() in the select!.  *)
LoopTurn ==
    /\ Up
    /\ pc = "loop"
    /\ IF decision = Undecided
       THEN Coordinator!Enter(Main) /\ pc' = "select"
       ELSE UNCHANGED latchVars /\ pc' = "stop_signals"
    /\ UNCHANGED <<timeSet, program, taskVars, build, signalVars>>

ShutdownSeen ==
    /\ Up
    /\ pc = "select"
    /\ Coordinator!Leave(Main)
    /\ pc' = "stop_signals"
    /\ UNCHANGED <<timeSet, program, taskVars, build, signalVars>>

IntervalElapsed ==
    /\ Up
    /\ pc = "select"
    /\ Coordinator!Abandon(Main)
    /\ pc' = "loop"
    /\ UNCHANGED <<timeSet, program, taskVars, build, signalVars>>

(* stop() of the handler. *)
StopSignals ==
    /\ Up
    /\ pc = "stop_signals"
    /\ StopHandling
    /\ pc' = "join_signals"
    /\ UNCHANGED <<latchVars, timeSet, program, taskVars>>

(* Faulty: the handler task is not awaited. *)
SkipJoinSignals ==
    /\ Up
    /\ pc = "join_signals"
    /\ pc' = "stop_all"
    /\ UNCHANGED <<latchVars, timeSet, program, taskVars, build, signalVars>>

JoinSignals ==
    /\ Up
    /\ pc = "join_signals"
    /\ HandlerEnded
    /\ pc' = "stop_all"
    /\ UNCHANGED <<latchVars, timeSet, program, taskVars, build, signalVars>>

(* stop_all: join_all polls every stop at once; async-std runs one after   *)
(* the other.                                                              *)
BeginStop(s) ==
    /\ Up
    /\ pc = "stop_all"
    /\ stop[s] = "idle"
    /\ Runtime = "async_std" => \A x \in Subsystems : stop[x] \in {"idle", "done"}
    /\ stop' = [stop EXCEPT ![s] = "join"]
    /\ UNCHANGED <<latchVars, timeSet, program, pc, task, ready, build, signalVars>>

Stopped(s) ==
    /\ stop' = [stop EXCEPT ![s] = "done"]
    /\ ready' = ready \cup {s}

Joined(s) ==
    /\ Up
    /\ stop[s] \in {"join", "abort"}
    /\ task[s] \in TaskEnded
    /\ Stopped(s)
    /\ UNCHANGED <<latchVars, timeSet, program, pc, task, build, signalVars>>

(* Faulty: after the timeout the task is neither aborted nor awaited.      *)
StopTimeoutDetaches(s) ==
    /\ Up
    /\ stop[s] = "join"
    /\ Stopped(s)
    /\ UNCHANGED <<latchVars, timeSet, program, pc, task, build, signalVars>>

(* The 500 ms of stop_task_*. *)
StopTimeout(s) ==
    /\ Up
    /\ stop[s] = "join"
    /\ IF Runtime = "tokio"
       THEN stop' = [stop EXCEPT ![s] = "abort"] /\ UNCHANGED ready
       ELSE Stopped(s)
    /\ UNCHANGED <<latchVars, timeSet, program, pc, task, build, signalVars>>

AllStopped ==
    /\ Up
    /\ pc = "stop_all"
    /\ \A s \in Subsystems : stop[s] = "done"
    /\ pc' = "graceful"
    /\ UNCHANGED <<latchVars, timeSet, program, taskVars, build, signalVars>>

(* wait_for_shutdown; its polling is the subject of ShutdownPhases. *)
GracefulWait ==
    /\ Up
    /\ pc = "graceful"
    /\ pc' = IF timeSet /\ ready = Subsystems THEN "returned" ELSE "force"
    /\ UNCHANGED <<latchVars, timeSet, program, taskVars, build, signalVars>>

ForceWait ==
    /\ Up
    /\ pc = "force"
    /\ pc' = "kill"
    /\ UNCHANGED <<latchVars, timeSet, program, taskVars, build, signalVars>>

KillWait ==
    /\ Up
    /\ pc = "kill"
    /\ pc' = "returned"
    /\ UNCHANGED <<latchVars, timeSet, program, taskVars, build, signalVars>>

MainTask ==
    \/ \E s \in Subsystems : StartSubsystem(s)
    \/ SpawnSignalHandler \/ LoopTurn \/ ShutdownSeen \/ StopSignals \/ JoinSignals
    \/ AllStopped \/ GracefulWait \/ ForceWait \/ KillWait

StopCall(s) == BeginStop(s) \/ Joined(s) \/ StopTimeout(s)

-----------------------------------------------------------------------------
Next ==
    \/ \E sig \in Signals : Deliver(sig)
    \/ SignalTask
    \/ CallShutdown \/ FinishShutdown
    \/ MainTask \/ IntervalElapsed
    \/ \E s \in Subsystems :
           Notice(s) \/ RunReturns(s) \/ ReportReady(s) \/ Cancelled(s) \/ StopCall(s)

Spec == Init /\ [][Next]_vars

(* Tasks that are woken get polled, timers fire, aborted tasks are dropped *)
(* and a thread inside Daemon::shutdown finishes the call.  Signals need   *)
(* not arrive, nobody needs to call Daemon::shutdown, no run() needs to    *)
(* return, and the health-check interval may always lose the race.         *)
FairSpec ==
    /\ Spec
    /\ WF_vars(MainTask) /\ WF_vars(SignalTask) /\ WF_vars(FinishShutdown)
    /\ \A s \in Subsystems :
           WF_vars(Notice(s)) /\ WF_vars(Cancelled(s)) /\ WF_vars(StopCall(s))

-----------------------------------------------------------------------------
(* Properties. *)

(* Nothing is torn down before a shutdown was initiated: neither a health  *)
(* check interval nor a subsystem's end makes run leave its loop.          *)
TeardownNeedsShutdown ==
    pc \notin {"start", "loop", "select"} => decision # Undecided

(* When run returns, no subsystem is still running (tokio).                *)
ReturnMeansEnded ==
    pc = "returned" /\ Runtime = "tokio" => \A s \in Subsystems : task[s] \in TaskEnded

(* stop_all leaves nothing for wait_for_shutdown to wait for: every        *)
(* subsystem is marked ready, the aborted ones included.                   *)
AllReadyAtGraceful == pc = "graceful" => ready = Subsystems

(* A shutdown initiated by a signal never pays for the force and kill      *)
(* waits: the handler task has stored the time before run joins it.        *)
SignalShutdownIsGraceful == pc \in {"force", "kill"} => decision = "Requested"

(* The handler task finishes the initiation it has won, and has ended when *)
(* the subsystems are being stopped.                                       *)
SignalsProgress ==
    /\ decision = "Signal" => timeSet \/ spc = "storing"
    /\ pc = "start" => spc = "none"
    /\ pc \in {"stop_all", "graceful", "force", "kill", "returned"} => HandlerEnded

(* A stop that is done has marked its subsystem ready, and under tokio has *)
(* seen its task end; stop_all ends when all are done.                     *)
StopsProgress ==
    /\ \A s \in Subsystems : stop[s] = "done" =>
           s \in ready /\ (Runtime = "tokio" => task[s] \in TaskEnded)
    /\ pc \in {"graceful", "force", "kill", "returned"} =>
           \A s \in Subsystems : stop[s] = "done"

(* The inductive invariant of DaemonProofs: the variables keep their       *)
(* types, and run neither begins its teardown too early nor ends it too    *)
(* early.                                                                  *)
IInv ==
    /\ TypeOK /\ TeardownNeedsShutdown /\ ReturnMeansEnded
    /\ AllReadyAtGraceful /\ SignalShutdownIsGraceful
    /\ SignalsProgress /\ StopsProgress

(* The daemon always gets through a shutdown initiated by a signal.        *)
SignalShutdownReturns == decision = "Signal" ~> pc = "returned" \/ ~Alive

(* A handler task that polls handling_signals ends with the daemon, if it  *)
(* had begun when the shutdown was initiated.                              *)
PollingHandlerStops ==
    Polls /\ handling /\ decision # Undecided /\ pc \in {"loop", "select"}
        ~> pc = "returned" \/ ~Alive

(* Properties the documentation suggests and the code does not have.       *)

(* A shutdown that was initiated ends run, or a signal ends the process.   *)
ShutdownReturns == decision # Undecided ~> pc = "returned" \/ ~Alive

=============================================================================
