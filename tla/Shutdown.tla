----------------------------- MODULE Shutdown ------------------------------
(***************************************************************************)
(* The initiation and notification protocol of src/src/shutdown.rs.        *)
(*                                                                         *)
(* initiate_shutdown is a compare-and-exchange on a flag followed by three *)
(* separate writes: the reason, the time, and a message on a broadcast     *)
(* channel.  cancelled() and wait_initiated() read the flag, subscribe to  *)
(* the channel, read the flag again and only then wait for the message.    *)
(* get_reason() and get_stats() read the same fields one after the other.  *)
(* Threads of the runtime interleave between any two of these accesses, so *)
(* each access is an action.                                               *)
(***************************************************************************)
EXTENDS Naturals, FiniteSets

CONSTANTS
    Calls,      \* the calls of initiate_shutdown made in one run of the daemon
    ReasonOf,   \* the reason each call passes
    Waiters,    \* tasks that call cancelled() or wait_initiated()
    Readers     \* threads that call get_reason() or get_stats()

Reasons == {"Signal", "Requested", "Error", "ResourceExhausted", "Forced"}

None == "None"     \* Rust's Option::None

ASSUME ReasonAssumption == ReasonOf \in [Calls -> Reasons]

VARIABLES
    runtime,    \* the async runtime the crate is built for
    flag,       \* shutdown_initiated
    reason,     \* shutdown_reason
    timeSet,    \* shutdown_time is Some
    cpc,        \* what each call of initiate_shutdown does next, or its result
    wpc,        \* what each waiter does next
    rx,         \* the broadcast receiver of each waiter
    rpc,        \* what each reader does next
    seen,       \* the answer of each reader's last completed get_reason()
    snap        \* the statistics each reader has collected with get_stats()

initVars == <<flag, reason, timeSet, cpc>>
waitVars == <<wpc, rx>>
readVars == <<rpc, seen, snap>>
vars     == <<runtime, flag, reason, timeSet, cpc, wpc, rx, rpc, seen, snap>>

-----------------------------------------------------------------------------
(* Types and the initial state: ShutdownInner::new. *)

CallState   == {"idle", "reason", "time", "send", "true", "false"}
WaiterState == {"away", "fast", "subscribe", "recheck", "parked", "asleep", "returned"}
ReaderState == {"idle", "load", "stat_flag", "stat_reason", "stat_time"}
Stats       == [shutdown : BOOLEAN, reason : Reasons \cup {None}, time : BOOLEAN]

NoStats == [shutdown |-> FALSE, reason |-> None, time |-> FALSE]

TypeOK ==
    /\ runtime \in {"tokio", "async_std"}
    /\ flag \in BOOLEAN
    /\ reason \in Reasons
    /\ timeSet \in BOOLEAN
    /\ cpc \in [Calls -> CallState]
    /\ wpc \in [Waiters -> WaiterState]
    /\ rx \in [Waiters -> {"closed", "empty", "message"}]
    /\ rpc \in [Readers -> ReaderState]
    /\ seen \in [Readers -> Reasons \cup {None}]
    /\ snap \in [Readers -> Stats]

(* The reason field holds Requested until a call has stored its own.       *)
Init ==
    /\ runtime \in {"tokio", "async_std"}
    /\ flag = FALSE
    /\ reason = "Requested"
    /\ timeSet = FALSE
    /\ cpc = [c \in Calls |-> "idle"]
    /\ wpc = [w \in Waiters |-> "away"]
    /\ rx = [w \in Waiters |-> "closed"]
    /\ rpc = [r \in Readers |-> "idle"]
    /\ seen = [r \in Readers |-> None]
    /\ snap = [r \in Readers |-> NoStats]

-----------------------------------------------------------------------------
(* initiate_shutdown. *)

(* The calls whose compare-and-exchange succeeded, and of these the ones   *)
(* that have not yet sent the notification.                                *)
Won     == {c \in Calls : cpc[c] \in {"reason", "time", "send", "true"}}
Sending == {c \in Calls : cpc[c] \in {"reason", "time", "send"}}

(* The compare-and-exchange written as a load and a store that ignores     *)
(* what the load returned (faulty).                                        *)
InitiateBlindly(c) ==
    /\ cpc[c] = "idle"
    /\ flag' = TRUE
    /\ cpc' = [cpc EXCEPT ![c] = "reason"]
    /\ UNCHANGED <<runtime, reason, timeSet, waitVars, readVars>>

(* The reason stored before the exchange, by every caller (faulty).        *)
InitiateReasonFirst(c) ==
    /\ cpc[c] = "idle"
    /\ reason' = ReasonOf[c]
    /\ IF flag THEN /\ cpc' = [cpc EXCEPT ![c] = "false"]
                    /\ UNCHANGED flag
               ELSE /\ cpc' = [cpc EXCEPT ![c] = "reason"]
                    /\ flag' = TRUE
    /\ UNCHANGED <<runtime, timeSet, waitVars, readVars>>

Initiate(c) ==
    /\ cpc[c] = "idle"
    /\ IF flag THEN /\ cpc' = [cpc EXCEPT ![c] = "false"]
                    /\ UNCHANGED flag
               ELSE /\ cpc' = [cpc EXCEPT ![c] = "reason"]
                    /\ flag' = TRUE
    /\ UNCHANGED <<runtime, reason, timeSet, waitVars, readVars>>

(* Faulty: only signals leave a reason. *)
StoreReasonOfSignals(c) ==
    /\ cpc[c] = "reason"
    /\ reason' = IF ReasonOf[c] = "Signal" THEN "Signal" ELSE reason
    /\ cpc' = [cpc EXCEPT ![c] = "time"]
    /\ UNCHANGED <<runtime, flag, timeSet, waitVars, readVars>>

StoreReason(c) ==
    /\ cpc[c] = "reason"
    /\ reason' = ReasonOf[c]
    /\ cpc' = [cpc EXCEPT ![c] = "time"]
    /\ UNCHANGED <<runtime, flag, timeSet, waitVars, readVars>>

(* Without tokio there is no channel and the call returns here.            *)
StoreTime(c) ==
    /\ cpc[c] = "time"
    /\ timeSet' = TRUE
    /\ cpc' = [cpc EXCEPT ![c] = IF runtime = "tokio" THEN "send" ELSE "true"]
    /\ UNCHANGED <<runtime, flag, reason, waitVars, readVars>>

(* broadcast::Sender::send: every receiver that exists now gets the        *)
(* message; a receiver made later does not.  With no receiver the send     *)
(* fails and the error is dropped.                                         *)
SendToOne(c) ==
    /\ cpc[c] = "send"
    /\ cpc' = [cpc EXCEPT ![c] = "true"]
    /\ \/ /\ \A w \in Waiters : rx[w] = "closed"
          /\ UNCHANGED rx
       \/ \E w \in Waiters : /\ rx[w] # "closed"
                             /\ rx' = [rx EXCEPT ![w] = "message"]
    /\ UNCHANGED <<runtime, flag, reason, timeSet, wpc, readVars>>

Send(c) ==
    /\ cpc[c] = "send"
    /\ cpc' = [cpc EXCEPT ![c] = "true"]
    /\ rx' = [w \in Waiters |-> IF rx[w] = "closed" THEN "closed" ELSE "message"]
    /\ UNCHANGED <<runtime, flag, reason, timeSet, wpc, readVars>>

Caller(c) == Initiate(c) \/ StoreReason(c) \/ StoreTime(c) \/ Send(c)

-----------------------------------------------------------------------------
(* cancelled() and wait_initiated(). *)

Finish(w) ==
    /\ wpc' = [wpc EXCEPT ![w] = "returned"]
    /\ rx' = [rx EXCEPT ![w] = "closed"]

Enter(w, state) ==
    /\ wpc' = [wpc EXCEPT ![w] = state]
    /\ UNCHANGED rx

(* A task may wait any number of times, before or after the shutdown. *)
Call(w) ==
    /\ wpc[w] \in {"away", "returned"}
    /\ Enter(w, "fast")
    /\ UNCHANGED <<runtime, initVars, readVars>>

FastPath(w) ==
    /\ wpc[w] = "fast"
    /\ IF flag THEN Finish(w)
               ELSE Enter(w, IF runtime = "tokio" THEN "subscribe" ELSE "asleep")
    /\ UNCHANGED <<runtime, initVars, readVars>>

Subscribe(w) ==
    /\ wpc[w] = "subscribe"
    /\ wpc' = [wpc EXCEPT ![w] = "recheck"]
    /\ rx' = [rx EXCEPT ![w] = "empty"]
    /\ UNCHANGED <<runtime, initVars, readVars>>

(* The wait without the second look at the flag (faulty). *)
RecheckSkipped(w) ==
    /\ wpc[w] = "recheck"
    /\ Enter(w, "parked")
    /\ UNCHANGED <<runtime, initVars, readVars>>

(* The second look at the flag, after the subscription. *)
Recheck(w) ==
    /\ wpc[w] = "recheck"
    /\ IF flag THEN Finish(w) ELSE Enter(w, "parked")
    /\ UNCHANGED <<runtime, initVars, readVars>>

(* rx.recv() returns.  The channel cannot be closed: the waiter keeps the  *)
(* ShutdownInner that owns the sender alive.                               *)
Receive(w) ==
    /\ wpc[w] = "parked"
    /\ rx[w] = "message"
    /\ Finish(w)
    /\ UNCHANGED <<runtime, initVars, readVars>>

(* A wait that returns on any wake-up, the flag unread (faulty). *)
PollOnce(w) ==
    /\ wpc[w] = "asleep"
    /\ Finish(w)
    /\ UNCHANGED <<runtime, initVars, readVars>>

(* The loop of the async-std build: sleep, read the flag, sleep again.     *)
Poll(w) ==
    /\ wpc[w] = "asleep"
    /\ flag
    /\ Finish(w)
    /\ UNCHANGED <<runtime, initVars, readVars>>

(* The future is dropped at its await point: the select! of Daemon::run    *)
(* took its other branch.  The receiver goes with it.                      *)
DropWait(w) ==
    /\ wpc[w] \in {"parked", "asleep"}
    /\ wpc' = [wpc EXCEPT ![w] = "away"]
    /\ rx' = [rx EXCEPT ![w] = "closed"]
    /\ UNCHANGED <<runtime, initVars, readVars>>

(* The steps a waiter takes inside a wait. *)
WaiterAdvances(w) == FastPath(w) \/ Subscribe(w) \/ Recheck(w) \/ Receive(w) \/ Poll(w)

-----------------------------------------------------------------------------
(* get_reason() / shutdown_reason(), and get_stats(). *)

ReadReason(r) ==
    /\ rpc[r] = "idle"
    /\ IF flag THEN /\ rpc' = [rpc EXCEPT ![r] = "load"]
                    /\ UNCHANGED seen
               ELSE /\ seen' = [seen EXCEPT ![r] = None]
                    /\ UNCHANGED rpc
    /\ UNCHANGED <<runtime, initVars, waitVars, snap>>

LoadReason(r) ==
    /\ rpc[r] = "load"
    /\ seen' = [seen EXCEPT ![r] = reason]
    /\ rpc' = [rpc EXCEPT ![r] = "idle"]
    /\ UNCHANGED <<runtime, initVars, waitVars, snap>>

StatsBegin(r) ==
    /\ rpc[r] = "idle"
    /\ snap' = [snap EXCEPT ![r] = [NoStats EXCEPT !.shutdown = flag]]
    /\ rpc' = [rpc EXCEPT ![r] = "stat_flag"]
    /\ UNCHANGED <<runtime, initVars, waitVars, seen>>

(* Faulty: the reason is read only once the time is there. *)
StatsFlagOfTime(r) ==
    /\ rpc[r] = "stat_flag"
    /\ rpc' = [rpc EXCEPT ![r] = IF timeSet THEN "stat_reason" ELSE "stat_time"]
    /\ UNCHANGED <<runtime, initVars, waitVars, seen, snap>>

StatsFlag(r) ==
    /\ rpc[r] = "stat_flag"
    /\ rpc' = [rpc EXCEPT ![r] = IF flag THEN "stat_reason" ELSE "stat_time"]
    /\ UNCHANGED <<runtime, initVars, waitVars, seen, snap>>

StatsReason(r) ==
    /\ rpc[r] = "stat_reason"
    /\ snap' = [snap EXCEPT ![r].reason = reason]
    /\ rpc' = [rpc EXCEPT ![r] = "stat_time"]
    /\ UNCHANGED <<runtime, initVars, waitVars, seen>>

StatsTime(r) ==
    /\ rpc[r] = "stat_time"
    /\ snap' = [snap EXCEPT ![r].time = timeSet]
    /\ rpc' = [rpc EXCEPT ![r] = "idle"]
    /\ UNCHANGED <<runtime, initVars, waitVars, seen>>

Reader(r) ==
    \/ ReadReason(r) \/ LoadReason(r)
    \/ StatsBegin(r) \/ StatsFlag(r) \/ StatsReason(r) \/ StatsTime(r)

-----------------------------------------------------------------------------
Next ==
    \/ \E c \in Calls : Caller(c)
    \/ \E w \in Waiters : Call(w) \/ WaiterAdvances(w) \/ DropWait(w)
    \/ \E r \in Readers : Reader(r)

Spec == Init /\ [][Next]_vars

(* A call of initiate_shutdown runs without an await, so the thread it is  *)
(* on finishes it; the runtime polls a task again once it is woken.  No    *)
(* fairness makes anybody call initiate_shutdown, call a wait, drop one or *)
(* read.                                                                   *)
FairSpec ==
    /\ Spec
    /\ \A c \in Calls : WF_vars(StoreReason(c) \/ StoreTime(c) \/ Send(c))
    /\ \A w \in Waiters : WF_vars(WaiterAdvances(w))

-----------------------------------------------------------------------------
(* Properties. *)

(* At most one call of initiate_shutdown ever succeeds, however the        *)
(* signal handler, Daemon::shutdown and the timeout path interleave, and   *)
(* the flag is up exactly when one has.                                    *)
OneWinner ==
    /\ \A c, d \in Won : c = d
    /\ flag <=> Won # {}

(* A waiter parked on the channel with no message in it has not missed     *)
(* the notification: either nothing was initiated, or the initiator has    *)
(* still to send.  This is what the second look at the flag in cancelled() *)
(* and wait_initiated() is for.                                            *)
NoLostWakeup ==
    \A w \in Waiters : wpc[w] = "parked" /\ rx[w] = "empty" => ~flag \/ Sending # {}

(* cancelled() and wait_initiated() return only after an initiation.       *)
NoSpuriousReturn == \A w \in Waiters : wpc[w] = "returned" => flag

(* Once the successful call has returned true, its reason and a time are   *)
(* in place and the later calls, all refused, have not replaced it.        *)
WinnerDecides ==
    \A c \in Calls : cpc[c] = "true" => reason = ReasonOf[c] /\ timeSet

(* A reason reported by get_reason() or get_stats() is never that of a     *)
(* refused call: it is the winner's, or the default the field starts with. *)
NoLoserReason ==
    \A r \in Readers : \A v \in {seen[r], snap[r].reason} :
        v \in {None, "Requested"} \/ \E c \in Won : v = ReasonOf[c]

(* get_stats() reads the flag twice; statistics that say "shut down" come  *)
(* with a reason, although the reason belongs to a later read.             *)
StatsCoherent ==
    \A r \in Readers : rpc[r] = "idle" /\ snap[r].shutdown => snap[r].reason # None

(* What makes the properties above inductive: the flag is up wherever some *)
(* step has seen it up, the winner's writes are in place in the order it   *)
(* makes them, and only the tokio build parks on a channel.                *)
Seen ==
    /\ \A w \in Waiters :
        /\ rx[w] = "message" => flag
        /\ wpc[w] \in {"subscribe", "recheck", "parked"} => runtime = "tokio"
    /\ \A r \in Readers :
        /\ rpc[r] = "stat_flag" /\ snap[r].shutdown => flag
        /\ rpc[r] \in {"idle", "load", "stat_time"} /\ snap[r].shutdown
               => snap[r].reason # None

Stored ==
    /\ reason = "Requested" \/ \E c \in Won : reason = ReasonOf[c]
    /\ \A c \in Calls :
        /\ cpc[c] \in {"time", "send", "true"} => reason = ReasonOf[c]
        /\ cpc[c] \in {"send", "true"} => timeSet

IInv ==
    /\ TypeOK /\ OneWinner /\ NoLostWakeup /\ NoSpuriousReturn /\ NoLoserReason
    /\ Seen /\ Stored

(* The coordinator is a latch: it opens once with one reason, and lets     *)
(* every waiter through.                                                   *)
Decision == IF Won = {} THEN None ELSE ReasonOf[CHOOSE c \in Won : TRUE]

PlaceOf(state) ==
    CASE state = "away"     -> "away"
      [] state = "returned" -> "released"
      [] OTHER              -> "waiting"

Place == [w \in Waiters |-> PlaceOf(wpc[w])]

Latch == INSTANCE ShutdownLatch WITH
    Undecided <- None, decision <- Decision, place <- Place

(* Every step of the protocol is a step of the latch or leaves it alone.   *)
ImplementsLatchSafely == Latch!LatchSafeSpec

(* And with the fairness of the runtime every waiter is let through.       *)
ImplementsLatch == Latch!LatchSpec

=============================================================================
