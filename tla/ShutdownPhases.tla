-------------------------- MODULE ShutdownPhases ---------------------------
(***************************************************************************)
(* The three timed waits a daemon goes through once shutdown is initiated: *)
(* wait_for_shutdown, wait_for_force_shutdown and wait_for_kill_shutdown   *)
(* of src/src/shutdown.rs, called in this order by Daemon::run.  Time is a *)
(* counter of ticks; the code between two sleeps takes no tick, and a      *)
(* sleep may end up to Late ticks after it was due.  A tick stands for any *)
(* number of milliseconds.                                                 *)
(***************************************************************************)
EXTENDS Naturals

CONSTANTS
    Subsystems,     \* the subsystems registered with the coordinator
    Timeouts,       \* the timeouts the coordinator was built with
    NewTimeouts,    \* the timeouts update_timeouts() is called with
    MinPoll,        \* first sleep of wait_for_shutdown
    MaxPoll,        \* longest sleep of wait_for_shutdown
    ForcePoll,      \* sleep of wait_for_force_shutdown
    Late            \* how late the runtime may end a sleep

TimeoutRecord == [graceful : Nat, force : Nat, kill : Nat]

ASSUME TimeoutsAssumption == Timeouts \in TimeoutRecord /\ NewTimeouts \in TimeoutRecord
ASSUME PollAssumption ==
    /\ MinPoll \in Nat \ {0} /\ MaxPoll \in Nat /\ MinPoll <= MaxPoll
    /\ ForcePoll \in Nat \ {0}
ASSUME LateAssumption == Late \in Nat

VARIABLES
    stage,      \* how far the successful initiate_shutdown has come
    reason,     \* shutdown_reason
    timeouts,   \* the three timeouts, atomic one by one
    upc,        \* what update_timeouts() does next
    ready,      \* the subsystems marked ready
    pc,         \* what the task in Daemon::run does next
    limit,      \* the timeout of the current wait, read when it began
    start,      \* when the current wait began
    poll,       \* poll_interval of wait_for_shutdown
    wake,       \* when the current sleep is due to end
    graceful,   \* what wait_for_shutdown returned
    force,      \* what wait_for_force_shutdown returned
    now,        \* the clock
    readyAt     \* history: when the last subsystem became ready

setVars   == <<stage, reason>>
confVars  == <<timeouts, upc>>
waitVars  == <<pc, limit, start, poll, wake, graceful, force>>
vars == <<stage, reason, timeouts, upc, ready, pc, limit, start, poll, wake,
          graceful, force, now, readyAt>>

-----------------------------------------------------------------------------
Sleeping == {"graceful_sleep", "force_sleep", "kill_sleep"}
Results  == {"none", "ok", "timeout", "invalid_state"}

TypeOK ==
    /\ stage \in {"none", "flag", "complete"}
    /\ reason \in {"Requested", "Forced"}
    /\ timeouts \in TimeoutRecord
    /\ upc \in {"idle", "force", "kill", "done"}
    /\ ready \in SUBSET Subsystems
    /\ pc \in Sleeping \cup {"loop", "graceful", "graceful_poll", "force",
                             "force_poll", "kill", "done"}
    /\ limit \in Nat /\ start \in Nat /\ wake \in Nat /\ now \in Nat /\ readyAt \in Nat
    /\ poll \in MinPoll .. MaxPoll
    /\ graceful \in Results /\ force \in Results

(* A subsystem that was stopped and started again is ready already.        *)
Init ==
    /\ stage = "none"
    /\ reason = "Requested"
    /\ timeouts = Timeouts
    /\ upc = "idle"
    /\ ready \in SUBSET Subsystems
    /\ pc = "loop"
    /\ limit = 0 /\ start = 0 /\ wake = 0 /\ now = 0 /\ readyAt = 0
    /\ poll = MinPoll
    /\ graceful = "none" /\ force = "none"

MinOf(a, b) == IF a <= b THEN a ELSE b
Elapsed     == now - start

AllSubsystemsReady == \A s \in Subsystems : s \in ready

-----------------------------------------------------------------------------
(* The environment: an initiator, the subsystems, update_timeouts, time.   *)

(* initiate_shutdown raises the flag ...                                   *)
InitiateFlag ==
    /\ stage = "none"
    /\ stage' = "flag"
    /\ UNCHANGED <<reason, confVars, ready, waitVars, now, readyAt>>

(* ... and then stores reason and time; Daemon::shutdown passes Requested. *)
InitiateComplete ==
    /\ stage = "flag"
    /\ stage' = "complete"
    /\ reason' = "Requested"
    /\ UNCHANGED <<confVars, ready, waitVars, now, readyAt>>

MarkReady(s) ==
    /\ s \notin ready
    /\ ready' = ready \cup {s}
    /\ readyAt' = now
    /\ UNCHANGED <<setVars, confVars, waitVars, now>>

UpdateGraceful ==
    /\ upc = "idle"
    /\ timeouts' = [timeouts EXCEPT !.graceful = NewTimeouts.graceful]
    /\ upc' = "force"
    /\ UNCHANGED <<setVars, ready, waitVars, now, readyAt>>

UpdateForce ==
    /\ upc = "force"
    /\ timeouts' = [timeouts EXCEPT !.force = NewTimeouts.force]
    /\ upc' = "kill"
    /\ UNCHANGED <<setVars, ready, waitVars, now, readyAt>>

UpdateKill ==
    /\ upc = "kill"
    /\ timeouts' = [timeouts EXCEPT !.kill = NewTimeouts.kill]
    /\ upc' = "done"
    /\ UNCHANGED <<setVars, ready, waitVars, now, readyAt>>

Tick ==
    /\ pc \in Sleeping
    /\ now < wake + Late
    /\ now' = now + 1
    /\ UNCHANGED <<setVars, confVars, ready, waitVars, readyAt>>

Environment ==
    \/ InitiateFlag \/ InitiateComplete
    \/ \E s \in Subsystems : MarkReady(s)
    \/ UpdateGraceful \/ UpdateForce \/ UpdateKill

-----------------------------------------------------------------------------
(* The task in Daemon::run. *)

LeaveLoop ==
    /\ pc = "loop"
    /\ stage # "none"
    /\ pc' = "graceful"
    /\ UNCHANGED <<setVars, confVars, ready, limit, start, poll, wake, graceful,
                   force, now, readyAt>>

GracefulReturns(result, next) ==
    /\ graceful' = result
    /\ pc' = next

(* wait_for_shutdown up to its loop.  The flag is up (the daemon loop saw  *)
(* it), the time may not be.                                               *)
GracefulBegin ==
    /\ pc = "graceful"
    /\ IF stage = "flag"
       THEN /\ GracefulReturns("invalid_state", "force")
            /\ UNCHANGED <<limit, start, poll>>
       ELSE /\ limit' = timeouts.graceful
            /\ start' = now
            /\ poll' = MinPoll
            /\ IF AllSubsystemsReady THEN GracefulReturns("ok", "done")
                                     ELSE pc' = "graceful_poll" /\ UNCHANGED graceful
    /\ UNCHANGED <<setVars, confVars, ready, wake, force, now, readyAt>>

(* initiate_shutdown(Forced): refused, as the flag is up, the result       *)
(* ignored.                                                                *)
PromoteToForced == reason' = IF stage = "none" THEN "Forced" ELSE reason

(* Faulty: the loop condition compares the poll interval. *)
GracefulPollGivesUpEarly ==
    /\ pc = "graceful_poll"
    /\ IF Elapsed + poll < limit
       THEN /\ UNCHANGED reason
            /\ IF AllSubsystemsReady
               THEN GracefulReturns("ok", "done") /\ UNCHANGED wake
               ELSE /\ wake' = now + poll
                    /\ pc' = "graceful_sleep"
                    /\ UNCHANGED graceful
       ELSE /\ PromoteToForced
            /\ GracefulReturns("timeout", "force")
            /\ UNCHANGED wake
    /\ UNCHANGED <<stage, confVars, ready, limit, start, poll, force, now, readyAt>>

(* Faulty: the loop waits for readiness alone, in sleeps that end at the  *)
(* timeout.                                                                *)
GracefulPollForever ==
    /\ pc = "graceful_poll"
    /\ IF AllSubsystemsReady
       THEN GracefulReturns("ok", "done") /\ UNCHANGED wake
       ELSE /\ wake' = MinOf(now + poll, start + limit)
            /\ pc' = "graceful_sleep"
            /\ UNCHANGED graceful
    /\ UNCHANGED <<setVars, confVars, ready, limit, start, poll, force, now, readyAt>>

(* One turn of the loop of wait_for_shutdown, or its timeout. *)
GracefulPoll ==
    /\ pc = "graceful_poll"
    /\ IF Elapsed < limit
       THEN /\ UNCHANGED reason
            /\ IF AllSubsystemsReady
               THEN GracefulReturns("ok", "done") /\ UNCHANGED wake
               ELSE /\ wake' = now + poll
                    /\ pc' = "graceful_sleep"
                    /\ UNCHANGED graceful
       ELSE /\ PromoteToForced
            /\ GracefulReturns("timeout", "force")
            /\ UNCHANGED wake
    /\ UNCHANGED <<stage, confVars, ready, limit, start, poll, force, now, readyAt>>

(* Faulty: the backoff without its cap. *)
GracefulWakeUncapped ==
    /\ pc = "graceful_sleep"
    /\ now >= wake
    /\ poll' = poll * 2
    /\ pc' = "graceful_poll"
    /\ UNCHANGED <<setVars, confVars, ready, limit, start, wake, graceful, force,
                   now, readyAt>>

GracefulWake ==
    /\ pc = "graceful_sleep"
    /\ now >= wake
    /\ poll' = MinOf(poll * 2, MaxPoll)
    /\ pc' = "graceful_poll"
    /\ UNCHANGED <<setVars, confVars, ready, limit, start, wake, graceful, force,
                   now, readyAt>>

(* Faulty: the force phase measured from the beginning of each poll. *)
ForceWakeRestarts ==
    /\ pc = "force_sleep"
    /\ now >= wake
    /\ pc' = "force_poll"
    /\ start' = now
    /\ UNCHANGED <<setVars, confVars, ready, limit, poll, wake, graceful,
                   force, now, readyAt>>

ForceBegin ==
    /\ pc = "force"
    /\ limit' = timeouts.force
    /\ start' = now
    /\ pc' = "force_poll"
    /\ UNCHANGED <<setVars, confVars, ready, poll, wake, graceful, force, now, readyAt>>

(* Whatever the force phase returns, Daemon::run goes on to the kill phase. *)
ForcePollStep ==
    /\ pc = "force_poll"
    /\ IF Elapsed >= limit
       THEN force' = "timeout" /\ pc' = "kill" /\ UNCHANGED wake
       ELSE IF AllSubsystemsReady
       THEN force' = "ok" /\ pc' = "kill" /\ UNCHANGED wake
       ELSE wake' = now + ForcePoll /\ pc' = "force_sleep" /\ UNCHANGED force
    /\ UNCHANGED <<setVars, confVars, ready, limit, start, poll, graceful, now, readyAt>>

ForceWake ==
    /\ pc = "force_sleep"
    /\ now >= wake
    /\ pc' = "force_poll"
    /\ UNCHANGED <<setVars, confVars, ready, limit, start, poll, wake, graceful,
                   force, now, readyAt>>

KillBegin ==
    /\ pc = "kill"
    /\ limit' = timeouts.kill
    /\ start' = now
    /\ wake' = now + timeouts.kill
    /\ pc' = "kill_sleep"
    /\ UNCHANGED <<setVars, confVars, ready, poll, graceful, force, now, readyAt>>

KillWake ==
    /\ pc = "kill_sleep"
    /\ now >= wake
    /\ pc' = "done"
    /\ UNCHANGED <<setVars, confVars, ready, limit, start, poll, wake, graceful,
                   force, now, readyAt>>

Main ==
    \/ LeaveLoop \/ GracefulBegin \/ GracefulPoll \/ GracefulWake
    \/ ForceBegin \/ ForcePollStep \/ ForceWake \/ KillBegin \/ KillWake

-----------------------------------------------------------------------------
Next == Environment \/ Main \/ Tick

Spec == Init /\ [][Next]_vars

(* Time passes and the runtime polls the daemon's task.  Nothing else is   *)
(* fair: subsystems may never be ready.                                    *)
FairSpec == Spec /\ WF_vars(Tick) /\ WF_vars(Main)

-----------------------------------------------------------------------------
(* Properties. *)

GracefulLimits == {Timeouts.graceful, NewTimeouts.graceful}
ForceLimits    == {Timeouts.force, NewTimeouts.force}
KillLimits     == {Timeouts.kill, NewTimeouts.kill}

(* wait_for_shutdown and wait_for_force_shutdown return Ok only when every *)
(* registered subsystem is marked ready.                                   *)
OkMeansReady == graceful = "ok" \/ force = "ok" => ready = Subsystems

(* No wait gives up before its timeout, the one configured or the one an   *)
(* overlapping update_timeouts() installs.                                 *)
NoEarlyTimeout ==
    [][/\ graceful # "timeout" /\ graceful' = "timeout"
            => \E t \in GracefulLimits : Elapsed >= t
       /\ force # "timeout" /\ force' = "timeout"
            => \E t \in ForceLimits : Elapsed >= t
       /\ pc = "kill_sleep" /\ pc' = "done"
            => \E t \in KillLimits : Elapsed >= t]_vars

(* Readiness is noticed within one poll interval: the daemon's task does   *)
(* not sleep on for longer when all subsystems are ready, although the     *)
(* backoff has been growing.                                               *)
ReadyNoticed ==
    /\ pc = "graceful_sleep" /\ ready = Subsystems => now - readyAt <= MaxPoll + Late
    /\ pc = "force_sleep" /\ ready = Subsystems => now - readyAt <= ForcePoll + Late

(* The teardown takes no longer than the three timeouts, the longest poll  *)
(* of each loop and the lateness of the three last sleeps, even when the   *)
(* timeouts are updated under it: no subsystem can block it.               *)
TeardownBounded ==
    \E g \in GracefulLimits, f \in ForceLimits, k \in KillLimits :
        now <= g + MaxPoll + f + ForcePoll + k + 3 * Late

(* What a wait has read of the timeouts is what they were, or are to be.   *)
LimitsConfigured ==
    /\ timeouts.graceful \in GracefulLimits
    /\ timeouts.force \in ForceLimits
    /\ timeouts.kill \in KillLimits
    /\ pc \in {"graceful_poll", "graceful_sleep"} => limit \in GracefulLimits
    /\ pc \in {"force_poll", "force_sleep"} => limit \in ForceLimits
    /\ pc = "kill_sleep" => limit \in KillLimits

(* A sleep is no longer than its poll interval, and began when some        *)
(* subsystem was not ready.                                                *)
SleepsAreShort ==
    /\ start <= now /\ readyAt <= now
    /\ pc \in Sleeping => now <= wake + Late
    /\ pc = "graceful_sleep" =>
           wake <= now + MaxPoll /\ (ready = Subsystems => wake <= readyAt + MaxPoll)
    /\ pc = "force_sleep" =>
           wake <= now + ForcePoll /\ (ready = Subsystems => wake <= readyAt + ForcePoll)

(* By when the graceful and the force phase have ended.                    *)
GracefulOver(t) == \E g \in GracefulLimits : t <= g + MaxPoll + Late
ForceOver(t)    == \E g \in GracefulLimits, f \in ForceLimits :
                       t <= g + MaxPoll + f + ForcePoll + 2 * Late

(* What each phase has used of the time it may take.                       *)
Budget ==
    /\ pc \in {"loop", "graceful"} => now = 0
    /\ pc \in {"graceful_poll", "graceful_sleep"} => start = 0
    /\ pc = "graceful_poll"  => now <= limit + MaxPoll + Late
    /\ pc = "graceful_sleep" => wake <= limit + MaxPoll
    /\ pc = "force" => GracefulOver(now)
    /\ pc \in {"force_poll", "force_sleep"} => GracefulOver(start)
    /\ pc = "force_poll"  => now <= start + limit + ForcePoll + Late
    /\ pc = "force_sleep" => wake <= start + limit + ForcePoll
    /\ pc = "kill" => ForceOver(now)
    /\ pc = "kill_sleep" => ForceOver(start) /\ wake = start + limit
    /\ pc = "done" => TeardownBounded

(* The inductive invariant of ShutdownPhasesProofs: readiness is neither   *)
(* invented nor overlooked, no phase overruns its part of the time, and    *)
(* the variables keep their types.                                         *)
IInv ==
    /\ TypeOK /\ OkMeansReady /\ ReadyNoticed
    /\ LimitsConfigured /\ SleepsAreShort /\ Budget

(* Once the daemon's loop is left, the teardown ends, whether or not any   *)
(* subsystem is ever ready.                                                *)
TeardownEnds == pc = "graceful" ~> pc = "done"

=============================================================================
