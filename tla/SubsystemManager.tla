------------------------- MODULE SubsystemManager --------------------------
(***************************************************************************)
(* SubsystemManager of src/src/subsystem.rs: threads that start, stop and  *)
(* restart subsystems, and the tasks spawned to run them.                  *)
(*                                                                         *)
(* Every call is a sequence of short critical sections (a metadata lock,   *)
(* the task_handle lock, an atomic counter, a channel send) between which  *)
(* other threads and the tasks themselves run, so each is an action.  The  *)
(* body of a subsystem is the user's: it may return, fail or panic at any  *)
(* time, or keep its thread without ever reaching an await.                *)
(***************************************************************************)
EXTENDS Naturals, FiniteSets

CONSTANTS
    Subsystems,     \* the registered subsystems
    Threads,        \* threads that call the manager
    Tasks,          \* identities for spawned tasks; bounds the number of starts
    Runtime,        \* the async runtime the crate is built for
    Exclusive,      \* whether callers take turns on a subsystem, as Daemon::run does
    MayBlock,       \* whether a subsystem may keep its thread for ever
    MayReport,      \* whether subsystems call ready() on their own handle
    InitialDelay,   \* initial_delay of the restart policy
    MaxDelay,       \* max_delay of the restart policy
    Backoff,        \* subsystems whose policy is ExponentialBackoff
    NoTask, NoSubsystem

ASSUME RuntimeAssumption == Runtime \in {"tokio", "async_std"}
ASSUME PolicyAssumption ==
    /\ InitialDelay \in Nat /\ MaxDelay \in Nat /\ Backoff \subseteq Subsystems
    /\ {MayBlock, MayReport, Exclusive} \subseteq BOOLEAN
ASSUME NullAssumption == NoTask \notin Tasks /\ NoSubsystem \notin Subsystems

VARIABLES
    state,      \* metadata.state
    restarts,   \* metadata.restart_count
    total,      \* total_restarts
    handle,     \* task_handle: the task of the entry, or NoTask
    ready,      \* the ready flag of the entry's shutdown handle
    told,       \* the state in the last event published for the subsystem
    ownEnd,     \* history: subsystems whose state was last written by their own task
    owner,      \* the subsystem each task runs
    task,       \* what became of each task
    aborting,   \* tasks whose abort() was called
    pc,         \* what each thread does next
    sub,        \* the subsystem its call is about
    mine,       \* the task it has spawned, or taken to join
    delay,      \* how long it sleeps before a restart
    replaced    \* history: live tasks whose JoinHandle a later start overwrote

metaVars   == <<state, restarts, total, handle, ready, told, ownEnd>>
taskVars   == <<owner, task, aborting>>
threadVars == <<pc, sub, mine, delay>>
vars == <<state, restarts, total, handle, ready, told, ownEnd, owner, task, aborting,
          pc, sub, mine, delay, replaced>>

-----------------------------------------------------------------------------
SubsystemState ==
    {"Starting", "Running", "Stopping", "Stopped", "Failed", "Restarting"}

Ended == {"ok", "err", "panicked", "aborted"}

TaskState ==
    {"unborn", "reserved", "running", "blocking", "returned_ok", "returned_err"}
        \cup Ended

ThreadState ==
    {"idle", "start", "start_told", "spawn", "store", "started", "started_told",
     "stop_told", "take", "join", "abort_join", "ready", "stopped", "stopped_told",
     "count_total", "restarting", "restarting_told", "plan", "sleep"}

TypeOK ==
    /\ state \in [Subsystems -> SubsystemState]
    /\ restarts \in [Subsystems -> Nat] /\ total \in Nat
    /\ handle \in [Subsystems -> Tasks \cup {NoTask}]
    /\ ready \in [Subsystems -> BOOLEAN]
    /\ told \in [Subsystems -> SubsystemState \cup {"Nothing"}]
    /\ ownEnd \subseteq Subsystems
    /\ owner \in [Tasks -> Subsystems \cup {NoSubsystem}]
    /\ task \in [Tasks -> TaskState]
    /\ aborting \subseteq Tasks
    /\ pc \in [Threads -> ThreadState]
    /\ sub \in [Threads -> Subsystems \cup {NoSubsystem}]
    /\ mine \in [Threads -> Tasks \cup {NoTask}]
    /\ DOMAIN delay = Threads
    /\ replaced \subseteq Tasks

(* All subsystems registered, none started, events enabled. *)
Init ==
    /\ state = [s \in Subsystems |-> "Starting"]
    /\ restarts = [s \in Subsystems |-> 0] /\ total = 0
    /\ handle = [s \in Subsystems |-> NoTask]
    /\ ready = [s \in Subsystems |-> FALSE]
    /\ told = [s \in Subsystems |-> "Nothing"] /\ ownEnd = {}
    /\ owner = [t \in Tasks |-> NoSubsystem]
    /\ task = [t \in Tasks |-> "unborn"]
    /\ aborting = {}
    /\ pc = [p \in Threads |-> "idle"]
    /\ sub = [p \in Threads |-> NoSubsystem]
    /\ mine = [p \in Threads |-> NoTask]
    /\ delay = [p \in Threads |-> 0]
    /\ replaced = {}

-----------------------------------------------------------------------------
(* The tasks of a subsystem that have been spawned and have not ended, and *)
(* whether no call about the subsystem is under way.                       *)
Live(s)  == {t \in Tasks : owner[t] = s /\ task[t] \notin Ended \cup {"unborn", "reserved"}}
Quiet(s) == \A p \in Threads : sub[p] # s

(* Steps every call is made of. *)

Goto(p, next) == pc' = [pc EXCEPT ![p] = next]

Return(p) ==
    /\ Goto(p, "idle")
    /\ sub' = [sub EXCEPT ![p] = NoSubsystem]
    /\ mine' = [mine EXCEPT ![p] = NoTask]

(* update_state_with_timestamp: the metadata changes under its lock, the   *)
(* event is published after the lock is released.                          *)
SetState(p, new, next) ==
    /\ state' = [state EXCEPT ![sub[p]] = new]
    /\ ownEnd' = ownEnd \ {sub[p]}
    /\ Goto(p, next)

Announces == [start_told |-> "Starting", started_told |-> "Running",
              stop_told |-> "Stopping", stopped_told |-> "Stopped",
              restarting_told |-> "Restarting"]

AfterEvent == [start_told |-> "spawn", started_told |-> "idle", stop_told |-> "take",
               stopped_told |-> "idle", restarting_told |-> "plan"]

Publish(p) ==
    /\ pc[p] \in DOMAIN Announces
    /\ told' = [told EXCEPT ![sub[p]] = Announces[pc[p]]]
    /\ IF AfterEvent[pc[p]] = "idle"
       THEN Return(p) /\ UNCHANGED delay
       ELSE Goto(p, AfterEvent[pc[p]]) /\ UNCHANGED <<sub, mine, delay>>
    /\ UNCHANGED <<state, restarts, total, handle, ready, ownEnd, taskVars, replaced>>

-----------------------------------------------------------------------------
(* start_subsystem. *)

(* A call takes an identity for the task it will spawn.                    *)
Reserve(p, s, t) ==
    /\ pc[p] = "idle"
    /\ task[t] = "unborn"
    /\ task' = [task EXCEPT ![t] = "reserved"]
    /\ owner' = [owner EXCEPT ![t] = s]
    /\ sub' = [sub EXCEPT ![p] = s]
    /\ mine' = [mine EXCEPT ![p] = t]

CallStart(p, s, t) ==
    /\ Reserve(p, s, t)
    /\ Goto(p, "start")
    /\ UNCHANGED <<metaVars, aborting, delay, replaced>>

SetStarting(p) ==
    /\ pc[p] = "start"
    /\ SetState(p, "Starting", "start_told")
    /\ UNCHANGED <<restarts, total, handle, ready, told, taskVars, sub, mine, delay, replaced>>

Spawn(p) ==
    /\ pc[p] = "spawn"
    /\ task' = [task EXCEPT ![mine[p]] = "running"]
    /\ Goto(p, "store")
    /\ UNCHANGED <<metaVars, owner, aborting, sub, mine, delay, replaced>>

(* The old JoinHandle, if there is one, is dropped: its task is detached.  *)
StoreHandle(p) ==
    /\ pc[p] = "store"
    /\ handle' = [handle EXCEPT ![sub[p]] = mine[p]]
    /\ mine' = [mine EXCEPT ![p] = NoTask]
    /\ replaced' = replaced \cup ({handle[sub[p]]} \cap Live(sub[p]))
    /\ Goto(p, "started")
    /\ UNCHANGED <<state, restarts, total, ready, told, ownEnd, taskVars, sub, delay>>

SetRunning(p) ==
    /\ pc[p] = "started"
    /\ SetState(p, "Running", "started_told")
    /\ UNCHANGED <<restarts, total, handle, ready, told, taskVars, sub, mine, delay, replaced>>

-----------------------------------------------------------------------------
(* stop_subsystem and stop_task_tokio / stop_task_async_std. *)

CallStop(p, s) ==
    /\ pc[p] = "idle"
    /\ sub' = [sub EXCEPT ![p] = s]
    /\ state' = [state EXCEPT ![s] = "Stopping"]
    /\ ownEnd' = ownEnd \ {s}
    /\ Goto(p, "stop_told")
    /\ UNCHANGED <<restarts, total, handle, ready, told, taskVars, mine, delay, replaced>>

(* The handle is copied, not taken (faulty). *)
TakeHandleCopies(p) ==
    /\ pc[p] = "take"
    /\ IF handle[sub[p]] = NoTask
       THEN Return(p)
       ELSE /\ mine' = [mine EXCEPT ![p] = handle[sub[p]]]
            /\ Goto(p, "join")
            /\ UNCHANGED sub
    /\ UNCHANGED <<metaVars, taskVars, delay, replaced>>

(* take() under the lock; without a handle the call returns, the state     *)
(* left at Stopping and the subsystem not ready.                           *)
TakeHandle(p) ==
    /\ pc[p] = "take"
    /\ handle' = [handle EXCEPT ![sub[p]] = NoTask]
    /\ IF handle[sub[p]] = NoTask
       THEN Return(p)
       ELSE /\ mine' = [mine EXCEPT ![p] = handle[sub[p]]]
            /\ Goto(p, "join")
            /\ UNCHANGED sub
    /\ UNCHANGED <<state, restarts, total, ready, told, ownEnd, taskVars, delay, replaced>>

(* The task ended before the timeout, or after it was aborted; its         *)
(* JoinHandle is gone.                                                     *)
Joined(p) ==
    /\ pc[p] \in {"join", "abort_join"}
    /\ task[mine[p]] \in Ended
    /\ mine' = [mine EXCEPT ![p] = NoTask]
    /\ Goto(p, "ready")
    /\ UNCHANGED <<metaVars, taskVars, sub, delay, replaced>>

(* 500 ms passed and the aborted task is not awaited (faulty). *)
JoinTimeoutNoAwait(p) ==
    /\ pc[p] = "join"
    /\ aborting' = aborting \cup {mine[p]}
    /\ mine' = [mine EXCEPT ![p] = NoTask]
    /\ Goto(p, "ready")
    /\ UNCHANGED <<metaVars, owner, task, sub, delay, replaced>>

(* 500 ms passed and the task is awaited for as long as it takes (faulty). *)
JoinTimeoutNoAbort(p) ==
    /\ pc[p] = "join"
    /\ Goto(p, "abort_join")
    /\ UNCHANGED <<metaVars, taskVars, sub, mine, delay, replaced>>

(* 500 ms passed.  tokio: abort() and await the task.  async-std: the      *)
(* handle was moved into the timeout and is dropped with it, which         *)
(* detaches the task.                                                      *)
JoinTimeout(p) ==
    /\ pc[p] = "join"
    /\ IF Runtime = "tokio"
       THEN /\ aborting' = aborting \cup {mine[p]}
            /\ Goto(p, "abort_join")
            /\ UNCHANGED mine
       ELSE /\ mine' = [mine EXCEPT ![p] = NoTask]
            /\ Goto(p, "ready")
            /\ UNCHANGED aborting
    /\ UNCHANGED <<metaVars, owner, task, sub, delay, replaced>>

MarkReady(p) ==
    /\ pc[p] = "ready"
    /\ ready' = [ready EXCEPT ![sub[p]] = TRUE]
    /\ Goto(p, "stopped")
    /\ UNCHANGED <<state, restarts, total, handle, told, ownEnd, taskVars, sub, mine, delay, replaced>>

(* Faulty: Stopped is set the way update_state_with_error sets a state,    *)
(* without an event.                                                       *)
SetStoppedSilently(p) ==
    /\ pc[p] = "stopped"
    /\ state' = [state EXCEPT ![sub[p]] = "Stopped"]
    /\ ownEnd' = ownEnd \ {sub[p]}
    /\ Return(p)
    /\ UNCHANGED <<restarts, total, handle, ready, told, taskVars, delay, replaced>>

SetStopped(p) ==
    /\ pc[p] = "stopped"
    /\ SetState(p, "Stopped", "stopped_told")
    /\ UNCHANGED <<restarts, total, handle, ready, told, taskVars, sub, mine, delay, replaced>>

-----------------------------------------------------------------------------
(* restart_subsystem. *)

CallRestart(p, s, t) ==
    /\ Reserve(p, s, t)
    /\ restarts' = [restarts EXCEPT ![s] = @ + 1]
    /\ Goto(p, "count_total")
    /\ UNCHANGED <<state, total, handle, ready, told, ownEnd, aborting, delay, replaced>>

(* Faulty: the total is stored, not added to. *)
CountTotalStored(p) ==
    /\ pc[p] = "count_total"
    /\ total' = restarts[sub[p]]
    /\ Goto(p, "restarting")
    /\ UNCHANGED <<state, restarts, handle, ready, told, ownEnd, taskVars, sub, mine, delay, replaced>>

CountTotal(p) ==
    /\ pc[p] = "count_total"
    /\ total' = total + 1
    /\ Goto(p, "restarting")
    /\ UNCHANGED <<state, restarts, handle, ready, told, ownEnd, taskVars, sub, mine, delay, replaced>>

SetRestarting(p) ==
    /\ pc[p] = "restarting"
    /\ SetState(p, "Restarting", "restarting_told")
    /\ UNCHANGED <<restarts, total, handle, ready, told, taskVars, sub, mine, delay, replaced>>

MinOf(a, b) == IF a <= b THEN a ELSE b

(* calculate_restart_delay, for a policy and a restart_count. *)
RestartDelay(s, count) ==
    IF s \in Backoff THEN MinOf(InitialDelay * 2 ^ MinOf(count, 10), MaxDelay) ELSE 0

PlanRestart(p) ==
    /\ pc[p] = "plan"
    /\ delay' = [delay EXCEPT ![p] = RestartDelay(sub[p], restarts[sub[p]])]
    /\ Goto(p, IF delay'[p] = 0 THEN "start" ELSE "sleep")
    /\ UNCHANGED <<metaVars, taskVars, sub, mine, replaced>>

WakeUp(p) ==
    /\ pc[p] = "sleep"
    /\ delay' = [delay EXCEPT ![p] = 0]
    /\ Goto(p, "start")
    /\ UNCHANGED <<metaVars, taskVars, sub, mine, replaced>>

Call(p) ==
    \E s \in Subsystems :
        /\ Exclusive => \A q \in Threads : sub[q] # s
        /\ \/ CallStop(p, s)
           \/ \E t \in Tasks : CallStart(p, s, t) \/ CallRestart(p, s, t)

Advance(p) ==
    \/ Publish(p)
    \/ SetStarting(p) \/ Spawn(p) \/ StoreHandle(p) \/ SetRunning(p)
    \/ TakeHandle(p) \/ Joined(p) \/ JoinTimeout(p) \/ MarkReady(p) \/ SetStopped(p)
    \/ CountTotal(p) \/ SetRestarting(p) \/ PlanRestart(p) \/ WakeUp(p)

-----------------------------------------------------------------------------
(* The spawned tasks. *)

Becomes(t, new) == task' = [task EXCEPT ![t] = new]

(* The future returned by run() completes, or panics; the task body goes   *)
(* on to record the result without another await.                          *)
RunReturns(t) ==
    /\ task[t] \in {"running", "blocking"}
    /\ \E outcome \in {"returned_ok", "returned_err", "panicked"} : Becomes(t, outcome)
    /\ UNCHANGED <<metaVars, owner, aborting, threadVars, replaced>>

(* The subsystem keeps its thread: no await, so abort() has no effect.     *)
Block(t) ==
    /\ MayBlock
    /\ task[t] = "running"
    /\ Becomes(t, "blocking")
    /\ UNCHANGED <<metaVars, owner, aborting, threadVars, replaced>>

(* The body calls ready() on the handle it was given. *)
ReportReady(t) ==
    /\ MayReport
    /\ task[t] = "running"
    /\ ready' = [ready EXCEPT ![owner[t]] = TRUE]
    /\ UNCHANGED <<state, restarts, total, handle, told, ownEnd, taskVars, threadVars, replaced>>

(* The task body records the result; it publishes no event.                *)
RecordEnd(t) ==
    /\ task[t] \in {"returned_ok", "returned_err"}
    /\ Becomes(t, IF task[t] = "returned_ok" THEN "ok" ELSE "err")
    /\ state' = [state EXCEPT ![owner[t]] =
                    IF task[t] = "returned_ok" THEN "Stopped" ELSE "Failed"]
    /\ ownEnd' = ownEnd \cup {owner[t]}
    /\ UNCHANGED <<restarts, total, handle, ready, told, owner, aborting, threadVars, replaced>>

(* An aborted task is dropped at an await. *)
Cancelled(t) ==
    /\ t \in aborting
    /\ task[t] = "running"
    /\ Becomes(t, "aborted")
    /\ UNCHANGED <<metaVars, owner, aborting, threadVars, replaced>>

TaskRuns(t) ==
    \/ RunReturns(t) \/ Block(t) \/ ReportReady(t) \/ RecordEnd(t) \/ Cancelled(t)

-----------------------------------------------------------------------------
Next ==
    \/ \E p \in Threads : Call(p) \/ Advance(p)
    \/ \E t \in Tasks : TaskRuns(t)

Spec == Init /\ [][Next]_vars

(* The runtime polls woken tasks, its timers fire, and a task asked to     *)
(* abort is dropped at its next await.  No run() has to return, and nobody *)
(* has to call the manager.                                                *)
FairSpec ==
    /\ Spec
    /\ \A p \in Threads : WF_vars(Advance(p))
    /\ \A t \in Tasks : WF_vars(RecordEnd(t)) /\ WF_vars(Cancelled(t))

-----------------------------------------------------------------------------
(* Properties. *)

Owns(s, t)  == handle[s] = t
Holds(p, t) == mine[p] = t
Held(t)     == (\E s \in Subsystems : Owns(s, t)) \/ (\E p \in Threads : Holds(p, t))

(* A task's JoinHandle is in one place: its entry, or the one call that    *)
(* spawned it or took it.  So no two stops join, abort or report the same  *)
(* task, whoever calls stop_subsystem at the same time.                    *)
OneJoinHandle ==
    \A t \in Tasks :
        /\ \A s \in Subsystems : Owns(s, t) =>
               owner[t] = s /\ \A p \in Threads : ~Holds(p, t)
        /\ \A p, q \in Threads : Holds(p, t) /\ Holds(q, t) => p = q

(* The manager lets go of a task that has not ended only by starting the   *)
(* subsystem again; in particular stop_subsystem never does (tokio).       *)
StopNeverAbandons ==
    [][Runtime = "tokio" =>
       \A t \in Tasks : Held(t) /\ ~Held(t)' =>
           \/ task[t] \in Ended
           \/ \E s \in Subsystems : Owns(s, t) /\ handle'[s] \in Tasks]_vars

(* Callers take turns on a subsystem, and stop_subsystem aborts. *)
Orderly == Exclusive /\ Runtime = "tokio"

(* When stop_subsystem reports a subsystem ready for shutdown, no task of  *)
(* it is left but those a restart has detached.                            *)
ReadyWhenEnded ==
    [][Orderly => \A p \in Threads :
           pc[p] = "ready" /\ pc'[p] # "ready" => Live(sub[p]) \subseteq replaced]_vars

(* A subsystem nobody is working on and whose state is Stopped has no task *)
(* left, unless a restart detached one: a task that ends late cannot       *)
(* overwrite what stop_subsystem reported, nor the other way round.        *)
StoppedMeansEnded ==
    Orderly => \A s \in Subsystems :
        state[s] = "Stopped" /\ Quiet(s) =>
            Live(s) = {} \/ \E t \in replaced : owner[t] = s

(* With the calls on a subsystem over, who has read all events knows its   *)
(* state, unless the last to write the state was the subsystem's own task: *)
(* it records its end without an event.  A state that a call of the        *)
(* manager has set, Stopped included, is always told.                      *)
EventsTellState ==
    Exclusive => \A s \in Subsystems :
        told[s] # "Nothing" /\ Quiet(s) => told[s] = state[s] \/ s \in ownEnd

(* The total restart count is the sum of the subsystems' counts, but for   *)
(* the calls between the two increments; and no restart waits for longer   *)
(* than its policy says.  (The sum is the number of elements of Restarted.)*)
Restarted == UNION {{s} \X (1..restarts[s]) : s \in Subsystems}
Counting  == {p \in Threads : pc[p] = "count_total"}

RestartsAddUp ==
    /\ Cardinality(Restarted) = total + Cardinality(Counting)
    /\ delay \in [Threads -> 0..MaxDelay]

-----------------------------------------------------------------------------
(* The inductive invariant of SubsystemManagerProofs. *)

(* Where a call has a task reserved, and where it has one that was spawned. *)
Reserving == {"start", "start_told", "spawn", "count_total", "restarting",
              "restarting_told", "plan", "sleep"}
Joining   == {"join", "abort_join"}

(* A call has a subsystem, and in some of its steps a task of it. *)
CallsHold ==
    \A p \in Threads :
        /\ sub[p] = NoSubsystem <=> pc[p] = "idle"
        /\ mine[p] # NoTask <=> pc[p] \in Reserving \cup Joining \cup {"store"}
        /\ mine[p] # NoTask => owner[mine[p]] = sub[p]
        /\ pc[p] \in Reserving => task[mine[p]] = "reserved"
        /\ pc[p] \in Joining \cup {"store"} => task[mine[p]] \notin {"unborn", "reserved"}

(* Only tasks nobody has reserved are without a subsystem; the tasks in    *)
(* the entries, and those that were there, have been spawned.              *)
HandlesHold ==
    /\ \A t \in Tasks : owner[t] = NoSubsystem => task[t] = "unborn"
    /\ \A s \in Subsystems : handle[s] # NoTask =>
           owner[handle[s]] = s /\ task[handle[s]] \notin {"unborn", "reserved"}
    /\ \A t \in replaced : task[t] \notin {"unborn", "reserved"}

(* Nobody but a restart loses sight of a task that has not ended. *)
LiveAreHeld ==
    Runtime = "tokio" =>
        \A s \in Subsystems : \A t \in Live(s) : t \in replaced \/ Held(t)

(* Taking turns, a call that has taken the handle finds none put back. *)
TurnsTaken ==
    Exclusive =>
        /\ \A p, q \in Threads : sub[p] = sub[q] /\ sub[p] # NoSubsystem => p = q
        /\ \A p \in Threads : pc[p] \in Joining \cup {"ready", "stopped", "stopped_told"} =>
               handle[sub[p]] = NoTask

(* Stopped is wrong about the task in the entry between the spawn of a     *)
(* task and Running only.                                                  *)
StoppedHolds ==
    Orderly => \A s \in Subsystems :
        \/ state[s] # "Stopped" \/ handle[s] \notin Live(s)
        \/ \E p \in Threads : sub[p] = s /\ pc[p] \in {"store", "started"}
        \/ \E t \in replaced : owner[t] = s

(* The event lags behind a state that the manager has set where it is     *)
(* about to be published only.                                             *)
EventsHold ==
    Exclusive =>
        /\ \A p \in Threads : pc[p] \in DOMAIN Announces =>
               state[sub[p]] = Announces[pc[p]] \/ sub[p] \in ownEnd
        /\ \A s \in Subsystems :
               \/ told[s] = "Nothing" \/ told[s] = state[s] \/ s \in ownEnd
               \/ \E p \in Threads : sub[p] = s /\ pc[p] \in DOMAIN Announces

(* The variables keep their types, JoinHandles have one holder, tasks that *)
(* run are not lost, and states and events follow the tasks.               *)
IInv ==
    /\ TypeOK /\ OneJoinHandle /\ CallsHold /\ HandlesHold
    /\ LiveAreHeld /\ TurnsTaken /\ StoppedHolds /\ EventsHold

(* stop_subsystem returns even if the subsystem ignores the shutdown.      *)
StopReturns == \A p \in Threads : pc[p] = "join" ~> pc[p] = "idle"

=============================================================================
