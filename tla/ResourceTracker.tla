-------------------------- MODULE ResourceTracker --------------------------
(***************************************************************************)
(* ResourceTracker of src/src/resources.rs: its owner starts, stops and    *)
(* drops it; the sampling task it spawns measures the process at every     *)
(* tick and publishes the sample twice, as current_usage and at the end of *)
(* history, which others read at any time.                                 *)
(*                                                                         *)
(* Between two ticks the task has no await, so an abort takes effect at a  *)
(* tick only.  Under async-std a dropped handle detaches the task; under   *)
(* tokio so does a stop() that is dropped while it waits, although the     *)
(* task has been aborted by then.  Of a sample its time is kept; what was  *)
(* measured, the percentage among it, is not modelled.                     *)
(***************************************************************************)
EXTENDS Naturals, SequencesExt

CONSTANTS
    Tasks,          \* identities of sampling tasks; bounds the number of starts
    NoTask,
    MaxHistory,     \* max_history
    MaxClock        \* bound on the clock

ASSUME TrackerAssumption ==
    /\ MaxHistory \in Nat /\ MaxClock \in Nat
    /\ NoTask \notin Tasks

VARIABLES
    runtime,        \* the async runtime the crate is built for
    clock,          \* time
    handle,         \* task_handle
    owner,          \* what the owner of the tracker is at
    stopping,       \* the task stop() is joining
    aborting,       \* tasks that abort() was called on
    abandoned,      \* history: some stop() was dropped while it waited
    task,           \* what each task does next
    sample,         \* the sample it is publishing
    current,        \* current_usage
    history         \* history, oldest first

ownerVars == <<handle, owner, stopping, aborting, abandoned>>
readVars  == <<current, history>>
vars == <<runtime, clock, ownerVars, task, sample, readVars>>

TypeOK ==
    /\ runtime \in {"tokio", "async_std"}
    /\ clock \in 0..MaxClock
    /\ handle \in Tasks \cup {NoTask} /\ stopping \in Tasks \cup {NoTask}
    /\ owner \in {"owns", "stops", "gone"}
    /\ aborting \subseteq Tasks /\ abandoned \in BOOLEAN
    /\ task \in [Tasks -> {"unborn", "waits", "measured", "stored", "reports", "ended"}]
    /\ sample \in [Tasks -> 0..MaxClock] /\ current \in 0..MaxClock
    /\ history \in Seq(0..MaxClock) /\ Len(history) <= MaxHistory

(* ResourceTracker::new *)
Init ==
    /\ runtime \in {"tokio", "async_std"}
    /\ clock = 0
    /\ handle = NoTask /\ owner = "owns" /\ stopping = NoTask
    /\ aborting = {} /\ abandoned = FALSE
    /\ task = [t \in Tasks |-> "unborn"]
    /\ sample = [t \in Tasks |-> 0]
    /\ current = 0 /\ history = <<>>

Live(t) == task[t] \notin {"unborn", "ended"}

(* Time passes. *)
Tick ==
    /\ clock < MaxClock
    /\ clock' = clock + 1
    /\ UNCHANGED <<runtime, ownerVars, task, sample, readVars>>

-----------------------------------------------------------------------------
(* The owner. *)

(* start(): nothing if there is a handle, whatever became of its task. *)
Start ==
    /\ owner = "owns" /\ handle = NoTask
    /\ \E t \in Tasks :
        /\ task[t] = "unborn"
        /\ task' = [task EXCEPT ![t] = "waits"]
        /\ handle' = t
    /\ UNCHANGED <<runtime, clock, owner, stopping, aborting, abandoned, sample, readVars>>

(* stop(): abort and join under tokio; async-std drops the handle. *)
Stop ==
    /\ owner = "owns" /\ handle # NoTask
    /\ handle' = NoTask
    /\ IF runtime = "tokio"
       THEN aborting' = aborting \cup {handle} /\ stopping' = handle /\ owner' = "stops"
       ELSE UNCHANGED <<aborting, stopping, owner>>
    /\ UNCHANGED <<runtime, clock, abandoned, task, sample, readVars>>

(* faulty: stop() does not wait for the task to end *)
StopReturnsAtOnce ==
    /\ owner = "stops"
    /\ owner' = "owns" /\ stopping' = NoTask
    /\ UNCHANGED <<runtime, clock, handle, aborting, abandoned, task, sample, readVars>>

StopReturns ==
    /\ owner = "stops" /\ task[stopping] = "ended"
    /\ owner' = "owns" /\ stopping' = NoTask
    /\ UNCHANGED <<runtime, clock, handle, aborting, abandoned, task, sample, readVars>>

(* The future of stop() is dropped while it awaits the task. *)
StopAbandoned ==
    /\ owner = "stops"
    /\ owner' = "owns" /\ stopping' = NoTask /\ abandoned' = TRUE
    /\ UNCHANGED <<runtime, clock, handle, aborting, task, sample, readVars>>

(* faulty: dropping a tracker leaves its task alone *)
DropTrackerOnly ==
    /\ owner = "owns"
    /\ owner' = "gone" /\ handle' = NoTask
    /\ UNCHANGED <<runtime, clock, stopping, aborting, abandoned, task, sample, readVars>>

(* Drop: abort without joining; async-std drops the handle. *)
DropTracker ==
    /\ owner = "owns"
    /\ owner' = "gone" /\ handle' = NoTask
    /\ aborting' = IF runtime = "tokio" THEN aborting \cup ({handle} \ {NoTask}) ELSE aborting
    /\ UNCHANGED <<runtime, clock, stopping, abandoned, task, sample, readVars>>

-----------------------------------------------------------------------------
(* A sampling task. *)

Goto(t, from, to) ==
    /\ task[t] = from
    /\ task' = [task EXCEPT ![t] = to]

(* sample_resource_usage *)
Measure(t) ==
    /\ Goto(t, "waits", "measured")
    /\ sample' = [sample EXCEPT ![t] = clock]
    /\ UNCHANGED <<runtime, clock, ownerVars, readVars>>

(* faulty: history first *)
StoreHistoryFirst(t) ==
    /\ Goto(t, "measured", "stored")
    /\ history' = LET h == Append(history, sample[t]) IN
                  IF Len(h) > MaxHistory THEN Tail(h) ELSE h
    /\ UNCHANGED <<runtime, clock, ownerVars, sample, current>>

(* current_usage.store *)
StoreCurrent(t) ==
    /\ Goto(t, "measured", "stored")
    /\ current' = sample[t]
    /\ UNCHANGED <<runtime, clock, ownerVars, sample, history>>

(* push_back, and pop_front while there are more than max_history. *)
PushHistory(t) ==
    /\ Goto(t, "stored", "reports")
    /\ history' = LET h == Append(history, sample[t]) IN
                  IF Len(h) > MaxHistory THEN Tail(h) ELSE h
    /\ UNCHANGED <<runtime, clock, ownerVars, sample, current>>

(* The alert callback and the metrics. *)
Reported(t) ==
    /\ Goto(t, "reports", "waits")
    /\ sample' = [sample EXCEPT ![t] = 0]
    /\ UNCHANGED <<runtime, clock, ownerVars, readVars>>

(* A task ends with its locals: the callback has panicked, or an aborted task
   has come to its await. *)
Ends(t, from) ==
    /\ Goto(t, from, "ended")
    /\ sample' = [sample EXCEPT ![t] = 0]
    /\ UNCHANGED <<runtime, clock, ownerVars, readVars>>

Panics(t)  == Ends(t, "reports")
Aborted(t) == t \in aborting /\ Ends(t, "waits")

Publishes(t) == StoreCurrent(t) \/ PushHistory(t) \/ Reported(t) \/ Panics(t)

Next ==
    \/ Tick \/ Start \/ Stop \/ StopReturns \/ StopAbandoned \/ DropTracker
    \/ \E t \in Tasks : Measure(t) \/ Publishes(t) \/ Aborted(t)

(* The runtime runs a task up to its next await, drops an aborted one there,
   and wakes who joins it.  A tick that is due does not yield, so an aborted task
   may measure again; tokio's cooperative budget makes it yield eventually. *)
Fairness ==
    /\ WF_vars(StopReturns)
    /\ \A t \in Tasks : WF_vars(Publishes(t)) /\ SF_vars(Aborted(t))

Spec == Init /\ [][Next]_vars /\ Fairness

-----------------------------------------------------------------------------
(* Properties.  Under async-std stopping and dropping leave the task running, and
   a stop() that is dropped leaves it to take its abort when it comes to it, so
   those about one sampler are about tokio and stop() that is waited for. *)

Tokio  == runtime = "tokio"
Joined == Tokio /\ ~abandoned

(* However often the tracker is started and stopped, at most one task samples. *)
OneSampler == Joined => \A t, u \in Tasks : Live(t) /\ Live(u) => t = u

(* The history is in the order of time, and current_usage, which is stored
   first, is never older than its end. *)
HistoryOrdered == Joined =>
    /\ \A i, j \in 1..Len(history) : i <= j => history[i] <= history[j]
    /\ history # <<>> => Last(history) <= current

(* Between two samples current_usage is the end of the history. *)
ReadersAgree == Joined /\ history # <<>> /\ (\A t \in Tasks : task[t] # "stored") =>
    Last(history) = current

(* A task that has not ended is the one the owner holds, or it has been aborted;
   and then the owner joins it, or its tracker is gone for good. *)
OwnerKnows ==
    /\ owner = "stops" <=> stopping # NoTask
    /\ owner # "owns" => handle = NoTask
    /\ Tokio => \A t \in Tasks : Live(t) => t = handle \/ t \in aborting
    /\ Joined => \A t \in Tasks : Live(t) => t \in {handle, stopping} \/ owner = "gone"

(* A sample that is being published is newer than what was published; in
   between, current_usage is the sample. *)
SamplesMoveOn ==
    /\ current <= clock
    /\ \A t \in Tasks : sample[t] <= clock
    /\ Joined => \A t \in Tasks :
           /\ task[t] = "measured" => current <= sample[t]
           /\ task[t] = "stored" => current = sample[t]

(* The inductive invariant of ResourceTrackerProofs: one sampler, whose samples
   readers find in order, the last one in both places; and the variables keep
   their types. *)
IInv ==
    /\ TypeOK /\ OneSampler
    /\ HistoryOrdered /\ ReadersAgree
    /\ OwnerKnows /\ SamplesMoveOn

(* Once stop() has returned, and until the next start, nothing is published. *)
Stopped == Joined /\ owner = "owns" /\ handle = NoTask
QuietWhenStopped == [][Stopped => UNCHANGED readVars]_vars

(* stop() returns, and a dropped tracker's task ends. *)
TasksEnd ==
    /\ owner = "stops" ~> owner # "stops"
    /\ Tokio /\ owner = "gone" ~> \A t \in Tasks : ~Live(t)

=============================================================================
