------------------------ MODULE ShutdownPhasesProofs ------------------------
(***************************************************************************)
(* Proofs about ShutdownPhases, for every set of subsystems, all timeouts, *)
(* poll intervals and any lateness of the runtime: the waits do not invent *)
(* or overlook readiness, none gives up early, and together they take no   *)
(* longer than their timeouts allow.                                       *)
(*                                                                         *)
(* The invariant is proved in three parts: what is stored (types, limits), *)
(* the sleeps, and the time used so far.                                   *)
(***************************************************************************)
EXTENDS ShutdownPhases, TLAPS

(* The configured timeouts are numbers.                                    *)
LEMMA LimitsAreNat ==
    GracefulLimits \subseteq Nat /\ ForceLimits \subseteq Nat /\ KillLimits \subseteq Nat
BY TimeoutsAssumption DEF TimeoutRecord, GracefulLimits, ForceLimits, KillLimits

(* Everything ready is what the waits ask for.                             *)
LEMMA AllReady ==
  ASSUME ready \subseteq Subsystems
  PROVE  AllSubsystemsReady <=> ready = Subsystems
BY DEF AllSubsystemsReady

(* How long ago something was that a sleep begun before it outlasts by m.  *)
LEMMA Lateness ==
  ASSUME NEW a \in Nat, NEW b \in Nat, NEW w \in Nat, NEW m \in Nat, NEW l \in Nat,
         a <= w + l, w <= b + m
  PROVE  a - b <= m + l
OBVIOUS

(* Nothing is waited for at first.                                         *)
LEMMA InitIInv == Init => IInv
BY TimeoutsAssumption, PollAssumption, LateAssumption
   DEF Init, IInv, TypeOK, TimeoutRecord, OkMeansReady, ReadyNoticed, LimitsConfigured,
       SleepsAreShort, Budget, GracefulLimits, ForceLimits, KillLimits, Sleeping, Results

-----------------------------------------------------------------------------
(* Types: the backoff stays between its bounds.                            *)
LEMMA TypeStep ==
  ASSUME TypeOK, Next
  PROVE  TypeOK'
<1>. USE TimeoutsAssumption, PollAssumption, LateAssumption
     DEF TypeOK, Sleeping, Results, setVars, confVars, waitVars
<1>1. CASE InitiateFlag \/ InitiateComplete
  BY <1>1 DEF InitiateFlag, InitiateComplete
<1>2. ASSUME NEW s \in Subsystems, MarkReady(s) PROVE TypeOK'
  BY <1>2 DEF MarkReady
<1>3. CASE UpdateGraceful
  BY <1>3 DEF UpdateGraceful, TimeoutRecord
<1>4. CASE UpdateForce
  BY <1>4 DEF UpdateForce, TimeoutRecord
<1>5. CASE UpdateKill
  BY <1>5 DEF UpdateKill, TimeoutRecord
<1>6. CASE Tick
  BY <1>6 DEF Tick
<1>7. CASE LeaveLoop \/ GracefulBegin
  BY <1>7 DEF LeaveLoop, GracefulBegin, GracefulReturns, TimeoutRecord
<1>8. CASE GracefulPoll
  BY <1>8 DEF GracefulPoll, GracefulReturns, PromoteToForced
<1>9. CASE GracefulWake
  BY <1>9 DEF GracefulWake, MinOf
<1>10. CASE ForceBegin \/ KillBegin
  BY <1>10 DEF ForceBegin, KillBegin, TimeoutRecord
<1>11. CASE ForcePollStep
  BY <1>11 DEF ForcePollStep
<1>12. CASE ForceWake \/ KillWake
  BY <1>12 DEF ForceWake, KillWake
<1>. QED
  BY <1>1, <1>2, <1>3, <1>4, <1>5, <1>6, <1>7, <1>8, <1>9, <1>10, <1>11, <1>12
     DEF Next, Environment, Main

(* A wait returns Ok when it finds everything ready, and no readiness is   *)
(* taken back.                                                             *)
LEMMA OkStep ==
  ASSUME TypeOK, OkMeansReady, Next
  PROVE  OkMeansReady'
<1>. USE AllReady DEF TypeOK, OkMeansReady, setVars, confVars, waitVars
<1>1. CASE Environment \/ Tick
  BY <1>1 DEF Environment, InitiateFlag, InitiateComplete, MarkReady, UpdateGraceful,
              UpdateForce, UpdateKill, Tick
<1>2. CASE Main
  BY <1>2 DEF Main, LeaveLoop, GracefulBegin, GracefulPoll, GracefulWake, GracefulReturns,
              ForceBegin, ForcePollStep, ForceWake, KillBegin, KillWake
<1>. QED
  BY <1>1, <1>2 DEF Next

(* A wait reads its limit once, from timeouts that are old or new.         *)
LEMMA LimitsStep ==
  ASSUME TypeOK, LimitsConfigured, Next
  PROVE  LimitsConfigured'
<1>. USE DEF TypeOK, TimeoutRecord, LimitsConfigured, GracefulLimits, ForceLimits, KillLimits,
             setVars, confVars, waitVars
<1>1. CASE UpdateGraceful \/ UpdateForce \/ UpdateKill
  BY <1>1 DEF UpdateGraceful, UpdateForce, UpdateKill
<1>2. CASE InitiateFlag \/ InitiateComplete \/ (\E s \in Subsystems : MarkReady(s)) \/ Tick
  BY <1>2 DEF InitiateFlag, InitiateComplete, MarkReady, Tick
<1>3. CASE LeaveLoop \/ GracefulBegin \/ GracefulPoll \/ GracefulWake
  BY <1>3 DEF LeaveLoop, GracefulBegin, GracefulPoll, GracefulWake, GracefulReturns
<1>4. CASE ForceBegin \/ ForcePollStep \/ ForceWake \/ KillBegin \/ KillWake
  BY <1>4 DEF ForceBegin, ForcePollStep, ForceWake, KillBegin, KillWake
<1>. QED
  BY <1>1, <1>2, <1>3, <1>4 DEF Next, Environment, Main

-----------------------------------------------------------------------------
(* Whoever marks a subsystem ready during a sleep does so after the sleep  *)
(* began, so the sleep ends soon after.                                    *)
LEMMA SleepStep ==
  ASSUME TypeOK, SleepsAreShort, Next
  PROVE  SleepsAreShort'
<1>. USE TimeoutsAssumption, PollAssumption, LateAssumption
     DEF TypeOK, Sleeping, SleepsAreShort, setVars, confVars, waitVars
<1>1. CASE InitiateFlag \/ InitiateComplete \/ UpdateGraceful \/ UpdateForce \/ UpdateKill
  BY <1>1 DEF InitiateFlag, InitiateComplete, UpdateGraceful, UpdateForce, UpdateKill
<1>2. ASSUME NEW s \in Subsystems, MarkReady(s) PROVE SleepsAreShort'
  BY <1>2 DEF MarkReady
<1>3. CASE Tick
  BY <1>3 DEF Tick
<1>4. CASE LeaveLoop \/ GracefulBegin \/ GracefulWake
  BY <1>4 DEF LeaveLoop, GracefulBegin, GracefulWake, GracefulReturns
<1>5. CASE GracefulPoll
  BY <1>5, AllReady DEF GracefulPoll, GracefulReturns
<1>6. CASE ForcePollStep
  BY <1>6, AllReady DEF ForcePollStep
<1>7. CASE ForceBegin \/ ForceWake \/ KillWake
  BY <1>7 DEF ForceBegin, ForceWake, KillWake
<1>8. CASE KillBegin
  BY <1>8 DEF KillBegin, TimeoutRecord
<1>. QED
  BY <1>1, <1>2, <1>3, <1>4, <1>5, <1>6, <1>7, <1>8 DEF Next, Environment, Main

-----------------------------------------------------------------------------
(* Each phase passes its account on to the next.                           *)
LEMMA BudgetStep ==
  ASSUME TypeOK, LimitsConfigured, SleepsAreShort, Budget, Next
  PROVE  Budget'
<1>. USE TimeoutsAssumption, PollAssumption, LateAssumption, LimitsAreNat
     DEF TypeOK, LimitsConfigured, Budget, GracefulOver, ForceOver, setVars, confVars, waitVars
<1>1. CASE Environment
  <2>1. UNCHANGED <<pc, limit, start, poll, wake, now>>
    BY <1>1 DEF Environment, InitiateFlag, InitiateComplete, MarkReady, UpdateGraceful,
                UpdateForce, UpdateKill
  <2>. QED
    BY <2>1 DEF TeardownBounded
<1>2. CASE Tick
  <2>1. pc \in Sleeping /\ UNCHANGED <<pc, limit, start, poll, wake>>
    BY <1>2 DEF Tick
  <2>. QED
    BY <2>1 DEF Sleeping
<1>3. CASE LeaveLoop
  BY <1>3 DEF LeaveLoop
<1>4. CASE GracefulBegin
  <2>1. now = 0 /\ now' = 0
    BY <1>4 DEF GracefulBegin
  <2>2. GracefulOver(0) /\ TeardownBounded
    BY <2>1 DEF TeardownBounded, GracefulLimits, ForceLimits, KillLimits
  <2>. QED
    <3>1. CASE pc' = "graceful_poll"
      <4>1. start' = 0 /\ limit' = timeouts.graceful /\ timeouts.graceful \in Nat
        BY <1>4, <2>1, <3>1 DEF GracefulBegin, GracefulReturns, TimeoutRecord
      <4>2. 0 <= timeouts.graceful + MaxPoll + Late
        BY <4>1
      <4>. QED
        BY <2>1, <3>1, <4>1, <4>2
    <3>2. CASE pc' = "force"
      BY <2>1, <2>2, <3>2
    <3>3. CASE pc' = "done"
      BY <2>1, <2>2, <3>3 DEF TeardownBounded
    <3>. QED
      BY <1>4, <3>1, <3>2, <3>3 DEF GracefulBegin, GracefulReturns
<1>5. CASE GracefulPoll
  <2>1. /\ pc = "graceful_poll" /\ UNCHANGED <<limit, start, poll, now>>
        /\ limit \in GracefulLimits /\ limit \in Nat /\ start = 0 /\ now <= limit + MaxPoll + Late
    BY <1>5 DEF GracefulPoll
  <2>2. CASE pc' = "done"
    <3>1. PICK f \in ForceLimits, k \in KillLimits : TRUE
      BY DEF ForceLimits, KillLimits
    <3>2. now <= limit + MaxPoll + f + ForcePoll + k + 3 * Late
      BY <2>1, <3>1
    <3>3. TeardownBounded'
      BY <2>1, <3>1, <3>2 DEF TeardownBounded
    <3>. QED
      BY <2>2, <3>3
  <2>3. CASE pc' = "graceful_sleep"
    <3>1. Elapsed < limit /\ wake' = now + poll
      BY <1>5, <2>1, <2>3 DEF GracefulPoll, GracefulReturns
    <3>. QED
      BY <2>1, <2>3, <3>1 DEF Elapsed
  <2>4. CASE pc' = "force"
    BY <2>1, <2>4
  <2>. QED
    BY <1>5, <2>2, <2>3, <2>4 DEF GracefulPoll, GracefulReturns
<1>6. CASE GracefulWake
  BY <1>6 DEF GracefulWake, SleepsAreShort, Sleeping
<1>7. CASE ForceBegin
  <2>1. /\ pc' = "force_poll" /\ GracefulOver(now)
        /\ start' = now /\ now' = now /\ limit' = timeouts.force /\ timeouts.force \in Nat
    BY <1>7 DEF ForceBegin, TimeoutRecord
  <2>. QED
    BY <2>1
<1>8. CASE ForcePollStep
  <2>1. /\ pc = "force_poll" /\ UNCHANGED <<limit, start, poll, now>>
        /\ limit \in ForceLimits /\ limit \in Nat /\ GracefulOver(start)
        /\ now <= start + limit + ForcePoll + Late
    BY <1>8 DEF ForcePollStep
  <2>2. CASE pc' = "force_sleep"
    <3>1. Elapsed < limit /\ wake' = now + ForcePoll
      BY <1>8, <2>1, <2>2 DEF ForcePollStep, Elapsed
    <3>. QED
      BY <2>1, <2>2, <3>1 DEF Elapsed
  <2>3. CASE pc' = "kill"
    <3>1. ForceOver(now)
      BY <2>1
    <3>. QED
      BY <2>1, <2>3, <3>1
  <2>. QED
    BY <1>8, <2>2, <2>3 DEF ForcePollStep
<1>9. CASE ForceWake
  BY <1>9 DEF ForceWake, SleepsAreShort, Sleeping
<1>10. CASE KillBegin
  BY <1>10 DEF KillBegin
<1>11. CASE KillWake
  BY <1>11 DEF KillWake, SleepsAreShort, Sleeping, TeardownBounded
<1>. QED
  BY <1>1, <1>2, <1>3, <1>4, <1>5, <1>6, <1>7, <1>8, <1>9, <1>10, <1>11 DEF Next, Main

(* The parts together, and stuttering.                                     *)
LEMMA NextIInv == IInv /\ [Next]_vars => IInv'
<1>. SUFFICES ASSUME IInv, [Next]_vars PROVE IInv'
  OBVIOUS
<1>1. CASE Next
  <2>1. TypeOK' /\ OkMeansReady' /\ LimitsConfigured' /\ SleepsAreShort' /\ Budget'
    BY <1>1, TypeStep, OkStep, LimitsStep, SleepStep, BudgetStep DEF IInv
  <2>2. ReadyNoticed'
    <3>1. /\ now' \in Nat /\ readyAt' \in Nat /\ wake' \in Nat
          /\ MaxPoll \in Nat /\ ForcePoll \in Nat /\ Late \in Nat
      BY <2>1, PollAssumption, LateAssumption DEF TypeOK
    <3>2. ASSUME pc' = "graceful_sleep", ready' = Subsystems PROVE now' - readyAt' <= MaxPoll + Late
      <4>1. now' <= wake' + Late /\ wake' <= readyAt' + MaxPoll
        BY <2>1, <3>2 DEF SleepsAreShort, Sleeping
      <4>. QED
        BY <3>1, <4>1, Lateness
    <3>3. ASSUME pc' = "force_sleep", ready' = Subsystems PROVE now' - readyAt' <= ForcePoll + Late
      <4>1. now' <= wake' + Late /\ wake' <= readyAt' + ForcePoll
        BY <2>1, <3>3 DEF SleepsAreShort, Sleeping
      <4>. QED
        BY <3>1, <4>1, Lateness
    <3>. QED
      BY <3>2, <3>3 DEF ReadyNoticed
  <2>. QED
    BY <2>1, <2>2 DEF IInv
<1>2. CASE UNCHANGED vars
  BY <1>2 DEF vars, IInv, TypeOK, OkMeansReady, ReadyNoticed, LimitsConfigured, SleepsAreShort,
              Budget, GracefulOver, ForceOver, TeardownBounded
<1>. QED
  BY <1>1, <1>2

-----------------------------------------------------------------------------
(* The inductive invariant of the timed waits.                             *)
THEOREM Invariance == Spec => []IInv
BY InitIInv, NextIInv, PTL DEF Spec

(* Ok is the truth about readiness, and readiness does not go unnoticed.   *)
THEOREM ReadinessIsSeen == Spec => [](OkMeansReady /\ ReadyNoticed)
<1>1. IInv => OkMeansReady /\ ReadyNoticed
  BY DEF IInv
<1>. QED
  BY <1>1, Invariance, PTL

(* No subsystem blocks the teardown for longer than the timeouts allow.    *)
THEOREM TeardownIsBounded == Spec => []TeardownBounded
<1>1. ASSUME IInv PROVE TeardownBounded
  <2>. USE <1>1, TimeoutsAssumption, PollAssumption, LateAssumption, LimitsAreNat
       DEF IInv, TypeOK, LimitsConfigured, TeardownBounded
  <2>1. \E g \in GracefulLimits, f \in ForceLimits, k \in KillLimits : TRUE
    BY DEF GracefulLimits, ForceLimits, KillLimits
  <2>2. CASE pc \in {"loop", "graceful"}
    BY <2>1, <2>2 DEF Budget
  <2>3. CASE pc \in {"graceful_poll", "graceful_sleep"}
    BY <2>1, <2>3 DEF Budget, SleepsAreShort, Sleeping
  <2>4. CASE pc = "force"
    BY <2>1, <2>4 DEF Budget, GracefulOver
  <2>5. CASE pc \in {"force_poll", "force_sleep"}
    BY <2>1, <2>5 DEF Budget, GracefulOver, SleepsAreShort, Sleeping
  <2>6. CASE pc = "kill"
    BY <2>1, <2>6 DEF Budget, ForceOver
  <2>7. CASE pc = "kill_sleep"
    BY <2>1, <2>7 DEF Budget, ForceOver, SleepsAreShort, Sleeping
  <2>8. CASE pc = "done"
    BY <2>8 DEF Budget
  <2>. QED
    BY <2>2, <2>3, <2>4, <2>5, <2>6, <2>7, <2>8 DEF Sleeping
<1>. QED
  BY <1>1, Invariance, PTL

(* No wait gives up before its timeout, updated or not.                    *)
THEOREM NotTooEarly == Spec => NoEarlyTimeout
<1>. DEFINE Timely ==
       /\ graceful # "timeout" /\ graceful' = "timeout" => \E t \in GracefulLimits : Elapsed >= t
       /\ force # "timeout" /\ force' = "timeout" => \E t \in ForceLimits : Elapsed >= t
       /\ pc = "kill_sleep" /\ pc' = "done" => \E t \in KillLimits : Elapsed >= t
<1>1. ASSUME IInv, Next PROVE Timely
  <2>. USE <1>1 DEF IInv, TypeOK, LimitsConfigured, setVars, confVars, waitVars
  <2>1. CASE Environment \/ Tick
    BY <2>1 DEF Environment, InitiateFlag, InitiateComplete, MarkReady, UpdateGraceful,
                UpdateForce, UpdateKill, Tick
  <2>2. CASE GracefulPoll
    BY <2>2, LimitsAreNat DEF GracefulPoll, GracefulReturns, Elapsed, SleepsAreShort
  <2>3. CASE ForcePollStep
    BY <2>3, LimitsAreNat DEF ForcePollStep, Elapsed, SleepsAreShort
  <2>4. CASE KillWake
    <3>1. limit \in KillLimits /\ Elapsed >= limit
      BY <2>4 DEF KillWake, Elapsed, Budget
    <3>. QED
      BY <2>4, <3>1 DEF KillWake
  <2>5. CASE LeaveLoop \/ GracefulBegin \/ GracefulWake \/ ForceBegin \/ ForceWake \/ KillBegin
    BY <2>5 DEF LeaveLoop, GracefulBegin, GracefulWake, GracefulReturns, ForceBegin, ForceWake,
                KillBegin
  <2>. QED
    BY <2>1, <2>2, <2>3, <2>4, <2>5 DEF Next, Main
<1>2. IInv /\ [Next]_vars => [Timely]_vars
  BY <1>1
<1>. QED
  BY <1>2, Invariance, PTL DEF Spec, NoEarlyTimeout

=============================================================================
