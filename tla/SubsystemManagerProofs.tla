----------------------- MODULE SubsystemManagerProofs -----------------------
(***************************************************************************)
(* Proofs about SubsystemManager, for any subsystems, threads, tasks and   *)
(* restart policies: a task has one holder, stop_subsystem lets go of no   *)
(* task that has not ended, where callers take turns what it reports is    *)
(* true, and the restart counts add up.                                    *)
(*                                                                         *)
(* The invariant is proved in layers, each from those above it: types, who *)
(* holds which task, live tasks are held, turns, states, events.  The      *)
(* counts have an invariant of their own, Counted.                         *)
(***************************************************************************)
EXTENDS SubsystemManager, FiniteSetTheorems, TLAPS

Ownership == TypeOK /\ OneJoinHandle /\ CallsHold /\ HandlesHold

LEMMA InitIInv == Init => IInv
<1>. SUFFICES ASSUME Init PROVE IInv
  OBVIOUS
<1>1. TypeOK
  BY DEF Init, TypeOK, SubsystemState, TaskState, ThreadState
<1>. QED
  BY <1>1, NullAssumption
     DEF Init, IInv, OneJoinHandle, CallsHold, HandlesHold, LiveAreHeld, TurnsTaken,
         StoppedHolds, EventsHold, Owns, Holds, Held, Live, Announces, Reserving, Joining

-----------------------------------------------------------------------------
(* The variables keep their types.  What a call reads through sub and mine *)
(* has a type because it has a subsystem, and a task where it needs one.   *)
LEMMA TypeStep ==
  ASSUME Ownership, Next
  PROVE  TypeOK'
<1>. USE NullAssumption
     DEF Ownership, TypeOK, CallsHold, HandlesHold, Reserving, Joining, metaVars, taskVars,
         threadVars, Goto, Return, SetState, SubsystemState, ThreadState, TaskState, Ended
<1>1. ASSUME NEW p \in Threads, NEW s \in Subsystems,
             CallStop(p, s) \/ \E t \in Tasks : CallStart(p, s, t) \/ CallRestart(p, s, t)
      PROVE  TypeOK'
  <2>1. CASE CallStop(p, s)
    BY <2>1 DEF CallStop
  <2>2. ASSUME NEW t \in Tasks, CallStart(p, s, t) PROVE TypeOK'
    BY <2>2 DEF CallStart, Reserve
  <2>3. ASSUME NEW t \in Tasks, CallRestart(p, s, t) PROVE TypeOK'
    BY <2>3 DEF CallRestart, Reserve
  <2>. QED
    BY <1>1, <2>1, <2>2, <2>3
<1>2. ASSUME NEW p \in Threads, Publish(p) PROVE TypeOK'
  <2>1. Announces[pc[p]] \in SubsystemState /\ AfterEvent[pc[p]] \in ThreadState
    BY <1>2 DEF Publish, Announces, AfterEvent
  <2>2. /\ sub' \in [Threads -> Subsystems \cup {NoSubsystem}]
        /\ mine' \in [Threads -> Tasks \cup {NoTask}]
        /\ pc' \in [Threads -> ThreadState] /\ DOMAIN delay' = Threads
    BY <1>2, <2>1 DEF Publish
  <2>3. told' \in [Subsystems -> SubsystemState \cup {"Nothing"}]
    BY <1>2, <2>1 DEF Publish
  <2>. QED
    BY <1>2, <2>2, <2>3 DEF Publish
<1>3. ASSUME NEW p \in Threads,
             \/ SetStarting(p) \/ SetRunning(p) \/ SetStopped(p) \/ SetRestarting(p)
             \/ MarkReady(p) \/ CountTotal(p) \/ PlanRestart(p) \/ WakeUp(p)
      PROVE  TypeOK'
  <2>1. CASE SetStarting(p) \/ SetRunning(p) \/ SetStopped(p) \/ SetRestarting(p)
    <3>1. /\ state' \in [Subsystems -> SubsystemState] /\ ownEnd' \subseteq Subsystems
          /\ pc' \in [Threads -> ThreadState]
      BY <2>1 DEF SetStarting, SetRunning, SetStopped, SetRestarting
    <3>2. UNCHANGED <<restarts, total, handle, ready, told, taskVars, sub, mine, delay,
                      replaced>>
      BY <2>1 DEF SetStarting, SetRunning, SetStopped, SetRestarting
    <3>. QED
      BY <3>1, <3>2
  <2>2. CASE MarkReady(p)
    BY <2>2 DEF MarkReady
  <2>3. CASE CountTotal(p)
    BY <2>3 DEF CountTotal
  <2>4. CASE PlanRestart(p) \/ WakeUp(p)
    BY <2>4 DEF PlanRestart, WakeUp
  <2>. QED
    BY <1>3, <2>1, <2>2, <2>3, <2>4
<1>4. ASSUME NEW p \in Threads, Spawn(p) \/ StoreHandle(p) PROVE TypeOK'
  <2>1. CASE Spawn(p)
    BY <2>1 DEF Spawn
  <2>2. CASE StoreHandle(p)
    BY <2>2 DEF StoreHandle, Live
  <2>. QED
    BY <1>4, <2>1, <2>2
<1>5. ASSUME NEW p \in Threads, TakeHandle(p) PROVE TypeOK'
  <2>1. handle[sub[p]] \in Tasks \cup {NoTask}
    BY <1>5 DEF TakeHandle
  <2>. QED
    BY <1>5, <2>1 DEF TakeHandle
<1>6. ASSUME NEW p \in Threads, Joined(p) PROVE TypeOK'
  BY <1>6 DEF Joined
<1>7. ASSUME NEW p \in Threads, JoinTimeout(p) PROVE TypeOK'
  <2>1. mine[p] \in Tasks
    BY <1>7 DEF JoinTimeout
  <2>2. /\ aborting' \subseteq Tasks
        /\ mine' \in [Threads -> Tasks \cup {NoTask}] /\ pc' \in [Threads -> ThreadState]
    BY <1>7, <2>1 DEF JoinTimeout
  <2>. QED
    BY <1>7, <2>2 DEF JoinTimeout
<1>8. ASSUME NEW t \in Tasks, TaskRuns(t) PROVE TypeOK'
  <2>1. CASE RecordEnd(t)
    BY <2>1 DEF RecordEnd, Becomes
  <2>2. CASE ReportReady(t)
    BY <2>2 DEF ReportReady
  <2>3. CASE RunReturns(t) \/ Block(t) \/ Cancelled(t)
    BY <2>3 DEF RunReturns, Block, Cancelled, Becomes
  <2>. QED
    BY <1>8, <2>1, <2>2, <2>3 DEF TaskRuns
<1>. QED
  BY <1>1, <1>2, <1>3, <1>4, <1>5, <1>6, <1>7, <1>8 DEF Next, Call, Advance

(* A call's task is one nobody has seen before (Reserve), and from then on *)
(* the JoinHandle is passed from hand to hand: StoreHandle puts the        *)
(* caller's into the entry, TakeHandle takes the entry's away.             *)
LEMMA OwnershipStep ==
  ASSUME Ownership, Next
  PROVE  (OneJoinHandle /\ CallsHold /\ HandlesHold)'
<1>. USE NullAssumption
     DEF Ownership, TypeOK, OneJoinHandle, CallsHold, HandlesHold, Owns, Holds, Reserving,
         Joining, Ended, metaVars, taskVars, threadVars, Goto, Return, SetState
<1>1. ASSUME NEW p \in Threads, NEW s \in Subsystems, CallStop(p, s)
      PROVE  (OneJoinHandle /\ CallsHold /\ HandlesHold)'
  BY <1>1 DEF CallStop
<1>2. ASSUME NEW p \in Threads, NEW s \in Subsystems, NEW t \in Tasks,
             CallStart(p, s, t) \/ CallRestart(p, s, t)
      PROVE  (OneJoinHandle /\ CallsHold /\ HandlesHold)'
  <2>1. CASE CallStart(p, s, t)
    BY <1>2, <2>1 DEF CallStart, Reserve
  <2>2. CASE CallRestart(p, s, t)
    BY <1>2, <2>2 DEF CallRestart, Reserve
  <2>. QED
    BY <1>2, <2>1, <2>2
<1>3. ASSUME NEW p \in Threads, Publish(p)
      PROVE  (OneJoinHandle /\ CallsHold /\ HandlesHold)'
  BY <1>3 DEF Publish, Announces, AfterEvent
<1>4. ASSUME NEW p \in Threads,
             \/ SetStarting(p) \/ SetRunning(p) \/ SetStopped(p) \/ SetRestarting(p)
             \/ MarkReady(p) \/ CountTotal(p) \/ PlanRestart(p) \/ WakeUp(p)
      PROVE  (OneJoinHandle /\ CallsHold /\ HandlesHold)'
  <2>1. CASE SetStarting(p) \/ SetRunning(p) \/ SetStopped(p) \/ SetRestarting(p)
    BY <1>4, <2>1 DEF SetStarting, SetRunning, SetStopped, SetRestarting
  <2>2. CASE MarkReady(p)
    BY <1>4, <2>2 DEF MarkReady
  <2>3. CASE CountTotal(p) \/ PlanRestart(p) \/ WakeUp(p)
    BY <1>4, <2>3 DEF CountTotal, PlanRestart, WakeUp
  <2>. QED
    BY <1>4, <2>1, <2>2, <2>3
<1>5. ASSUME NEW p \in Threads, Spawn(p) \/ StoreHandle(p)
      PROVE  (OneJoinHandle /\ CallsHold /\ HandlesHold)'
  <2>1. CASE Spawn(p)
    BY <1>5, <2>1 DEF Spawn
  <2>2. CASE StoreHandle(p)
    BY <1>5, <2>2 DEF StoreHandle, Live
  <2>. QED
    BY <1>5, <2>1, <2>2
<1>6. ASSUME NEW p \in Threads, TakeHandle(p) \/ Joined(p) \/ JoinTimeout(p)
      PROVE  (OneJoinHandle /\ CallsHold /\ HandlesHold)'
  <2>1. CASE TakeHandle(p)
    BY <1>6, <2>1 DEF TakeHandle
  <2>2. CASE Joined(p)
    BY <1>6, <2>2 DEF Joined
  <2>3. CASE JoinTimeout(p)
    BY <1>6, <2>3 DEF JoinTimeout
  <2>. QED
    BY <1>6, <2>1, <2>2, <2>3
<1>7. ASSUME NEW t \in Tasks, TaskRuns(t)
      PROVE  (OneJoinHandle /\ CallsHold /\ HandlesHold)'
  <2>1. CASE RecordEnd(t)
    BY <1>7, <2>1 DEF RecordEnd, Becomes
  <2>2. CASE RunReturns(t) \/ Block(t) \/ Cancelled(t)
    BY <1>7, <2>2 DEF RunReturns, Block, Cancelled, Becomes
  <2>3. CASE ReportReady(t)
    BY <1>7, <2>3 DEF ReportReady
  <2>. QED
    BY <1>7, <2>1, <2>2, <2>3 DEF TaskRuns
<1>. HIDE DEF Ownership, TypeOK, OneJoinHandle, CallsHold, HandlesHold, Owns, Holds, Reserving,
         Joining, Ended, metaVars, taskVars, threadVars, Goto, Return, SetState
<1>. QED
  BY <1>1, <1>2, <1>3, <1>4, <1>5, <1>6, <1>7 DEF Next, Call, Advance

(* Under tokio a JoinHandle is dropped by a call that has seen the task    *)
(* end, and by StoreHandle, which records it in replaced.                  *)
LEMMA LiveStep ==
  ASSUME Ownership, LiveAreHeld, Next
  PROVE  LiveAreHeld'
<1>. USE NullAssumption
     DEF Ownership, TypeOK, OneJoinHandle, CallsHold, HandlesHold, Owns, Holds, Reserving,
         Joining, Ended, metaVars, taskVars, threadVars, Goto, Return, SetState, LiveAreHeld,
         Live, Held
<1>1. ASSUME NEW p \in Threads, NEW s \in Subsystems, CallStop(p, s)
      PROVE  LiveAreHeld'
  BY <1>1 DEF CallStop
<1>2. ASSUME NEW p \in Threads, NEW s \in Subsystems, NEW t \in Tasks,
             CallStart(p, s, t) \/ CallRestart(p, s, t)
      PROVE  LiveAreHeld'
  <2>1. CASE CallStart(p, s, t)
    BY <1>2, <2>1 DEF CallStart, Reserve
  <2>2. CASE CallRestart(p, s, t)
    BY <1>2, <2>2 DEF CallRestart, Reserve
  <2>. QED
    BY <1>2, <2>1, <2>2
<1>3. ASSUME NEW p \in Threads, Publish(p)
      PROVE  LiveAreHeld'
  BY <1>3 DEF Publish, Announces, AfterEvent
<1>4. ASSUME NEW p \in Threads,
             \/ SetStarting(p) \/ SetRunning(p) \/ SetStopped(p) \/ SetRestarting(p)
             \/ MarkReady(p) \/ CountTotal(p) \/ PlanRestart(p) \/ WakeUp(p)
      PROVE  LiveAreHeld'
  <2>1. CASE SetStarting(p) \/ SetRunning(p) \/ SetStopped(p) \/ SetRestarting(p)
    BY <1>4, <2>1 DEF SetStarting, SetRunning, SetStopped, SetRestarting
  <2>2. CASE MarkReady(p)
    BY <1>4, <2>2 DEF MarkReady
  <2>3. CASE CountTotal(p) \/ PlanRestart(p) \/ WakeUp(p)
    BY <1>4, <2>3 DEF CountTotal, PlanRestart, WakeUp
  <2>. QED
    BY <1>4, <2>1, <2>2, <2>3
<1>5. ASSUME NEW p \in Threads, Spawn(p) \/ StoreHandle(p)
      PROVE  LiveAreHeld'
  <2>1. CASE Spawn(p)
    BY <1>5, <2>1 DEF Spawn
  <2>2. CASE StoreHandle(p)
    BY <1>5, <2>2 DEF StoreHandle, Live
  <2>. QED
    BY <1>5, <2>1, <2>2
<1>6. ASSUME NEW p \in Threads, TakeHandle(p) \/ Joined(p) \/ JoinTimeout(p)
      PROVE  LiveAreHeld'
  <2>1. CASE TakeHandle(p)
    BY <1>6, <2>1 DEF TakeHandle
  <2>2. CASE Joined(p)
    BY <1>6, <2>2 DEF Joined
  <2>3. CASE JoinTimeout(p)
    BY <1>6, <2>3 DEF JoinTimeout
  <2>. QED
    BY <1>6, <2>1, <2>2, <2>3
<1>7. ASSUME NEW t \in Tasks, TaskRuns(t)
      PROVE  LiveAreHeld'
  <2>1. CASE RecordEnd(t)
    BY <1>7, <2>1 DEF RecordEnd, Becomes
  <2>2. CASE RunReturns(t) \/ Block(t) \/ Cancelled(t)
    BY <1>7, <2>2 DEF RunReturns, Block, Cancelled, Becomes
  <2>3. CASE ReportReady(t)
    BY <1>7, <2>3 DEF ReportReady
  <2>. QED
    BY <1>7, <2>1, <2>2, <2>3 DEF TaskRuns
<1>. HIDE DEF Ownership, TypeOK, OneJoinHandle, CallsHold, HandlesHold, Owns, Holds, Reserving,
         Joining, Ended, metaVars, taskVars, threadVars, Goto, Return, SetState, LiveAreHeld,
         Live, Held
<1>. QED
  BY <1>1, <1>2, <1>3, <1>4, <1>5, <1>6, <1>7 DEF Next, Call, Advance

(* A call begins only if no other is about the same subsystem, so the      *)
(* entry stays empty once its handle is taken.                             *)
LEMMA TurnsStep ==
  ASSUME Ownership, TurnsTaken, Next
  PROVE  TurnsTaken'
<1>. USE NullAssumption
     DEF Ownership, TypeOK, CallsHold, Reserving, Joining, Ended, metaVars, taskVars,
         threadVars, Goto, Return, SetState,
         TurnsTaken
<1>1. ASSUME NEW p \in Threads, NEW s \in Subsystems, CallStop(p, s),
             Exclusive => \A q \in Threads : sub[q] # s
      PROVE  TurnsTaken'
  BY <1>1 DEF CallStop
<1>2. ASSUME NEW p \in Threads, NEW s \in Subsystems, NEW t \in Tasks,
             CallStart(p, s, t) \/ CallRestart(p, s, t),
             Exclusive => \A q \in Threads : sub[q] # s
      PROVE  TurnsTaken'
  <2>1. CASE CallStart(p, s, t)
    BY <1>2, <2>1 DEF CallStart, Reserve
  <2>2. CASE CallRestart(p, s, t)
    BY <1>2, <2>2 DEF CallRestart, Reserve
  <2>. QED
    BY <1>2, <2>1, <2>2
<1>3. ASSUME NEW p \in Threads, Publish(p)
      PROVE  TurnsTaken'
  BY <1>3 DEF Publish, Announces, AfterEvent
<1>4. ASSUME NEW p \in Threads,
             \/ SetStarting(p) \/ SetRunning(p) \/ SetStopped(p) \/ SetRestarting(p)
             \/ MarkReady(p) \/ CountTotal(p) \/ PlanRestart(p) \/ WakeUp(p)
      PROVE  TurnsTaken'
  <2>1. CASE SetStarting(p) \/ SetRunning(p) \/ SetStopped(p) \/ SetRestarting(p)
    BY <1>4, <2>1 DEF SetStarting, SetRunning, SetStopped, SetRestarting
  <2>2. CASE MarkReady(p)
    BY <1>4, <2>2 DEF MarkReady
  <2>3. CASE CountTotal(p) \/ PlanRestart(p) \/ WakeUp(p)
    BY <1>4, <2>3 DEF CountTotal, PlanRestart, WakeUp
  <2>. QED
    BY <1>4, <2>1, <2>2, <2>3
<1>5. ASSUME NEW p \in Threads, Spawn(p) \/ StoreHandle(p)
      PROVE  TurnsTaken'
  <2>1. CASE Spawn(p)
    BY <1>5, <2>1 DEF Spawn
  <2>2. CASE StoreHandle(p)
    BY <1>5, <2>2 DEF StoreHandle, Live
  <2>. QED
    BY <1>5, <2>1, <2>2
<1>6. ASSUME NEW p \in Threads, TakeHandle(p) \/ Joined(p) \/ JoinTimeout(p)
      PROVE  TurnsTaken'
  <2>1. CASE TakeHandle(p)
    BY <1>6, <2>1 DEF TakeHandle
  <2>2. CASE Joined(p)
    BY <1>6, <2>2 DEF Joined
  <2>3. CASE JoinTimeout(p)
    BY <1>6, <2>3 DEF JoinTimeout
  <2>. QED
    BY <1>6, <2>1, <2>2, <2>3
<1>7. ASSUME NEW t \in Tasks, TaskRuns(t)
      PROVE  TurnsTaken'
  <2>1. CASE RecordEnd(t)
    BY <1>7, <2>1 DEF RecordEnd, Becomes
  <2>2. CASE RunReturns(t) \/ Block(t) \/ Cancelled(t)
    BY <1>7, <2>2 DEF RunReturns, Block, Cancelled, Becomes
  <2>3. CASE ReportReady(t)
    BY <1>7, <2>3 DEF ReportReady
  <2>. QED
    BY <1>7, <2>1, <2>2, <2>3 DEF TaskRuns
<1>. HIDE DEF Ownership, TypeOK, CallsHold, Reserving, Joining, Ended, metaVars, taskVars,
         threadVars, Goto, Return, SetState,
         TurnsTaken
<1>. QED
  BY <1>1, <1>2, <1>3, <1>4, <1>5, <1>6, <1>7 DEF Next, Call, Advance

(* Stopped is written by stop_subsystem, which has emptied the entry, and  *)
(* by a task that ends.  That task was held (LiveStep): by the entry, and  *)
(* then it is the one that ended; by a call that joins it, and then the    *)
(* entry is empty; by a call that is about to write Running; or by nobody, *)
(* because it was replaced.                                                *)
LEMMA StoppedStep ==
  ASSUME Ownership, LiveAreHeld, TurnsTaken, StoppedHolds, Next
  PROVE  StoppedHolds'
<1>. USE NullAssumption
     DEF Ownership, TypeOK, OneJoinHandle, CallsHold, HandlesHold, Owns, Holds, Reserving,
         Joining, Ended, metaVars, taskVars, threadVars, Goto, Return, SetState, LiveAreHeld,
         Live, Held, TurnsTaken, StoppedHolds, Orderly
<1>1. ASSUME NEW p \in Threads, NEW s \in Subsystems, CallStop(p, s),
             Exclusive => \A q \in Threads : sub[q] # s
      PROVE  StoppedHolds'
  BY <1>1 DEF CallStop
<1>2. ASSUME NEW p \in Threads, NEW s \in Subsystems, NEW t \in Tasks,
             CallStart(p, s, t) \/ CallRestart(p, s, t),
             Exclusive => \A q \in Threads : sub[q] # s
      PROVE  StoppedHolds'
  <2>1. CASE CallStart(p, s, t)
    BY <1>2, <2>1 DEF CallStart, Reserve
  <2>2. CASE CallRestart(p, s, t)
    BY <1>2, <2>2 DEF CallRestart, Reserve
  <2>. QED
    BY <1>2, <2>1, <2>2
<1>3. ASSUME NEW p \in Threads, Publish(p)
      PROVE  StoppedHolds'
  BY <1>3 DEF Publish, Announces, AfterEvent
<1>4. ASSUME NEW p \in Threads,
             \/ SetStarting(p) \/ SetRunning(p) \/ SetStopped(p) \/ SetRestarting(p)
             \/ MarkReady(p) \/ CountTotal(p) \/ PlanRestart(p) \/ WakeUp(p)
      PROVE  StoppedHolds'
  <2>1. CASE SetStarting(p) \/ SetRunning(p) \/ SetStopped(p) \/ SetRestarting(p)
    BY <1>4, <2>1 DEF SetStarting, SetRunning, SetStopped, SetRestarting
  <2>2. CASE MarkReady(p)
    BY <1>4, <2>2 DEF MarkReady
  <2>3. CASE CountTotal(p) \/ PlanRestart(p) \/ WakeUp(p)
    BY <1>4, <2>3 DEF CountTotal, PlanRestart, WakeUp
  <2>. QED
    BY <1>4, <2>1, <2>2, <2>3
<1>5. ASSUME NEW p \in Threads, Spawn(p) \/ StoreHandle(p)
      PROVE  StoppedHolds'
  <2>1. CASE Spawn(p)
    BY <1>5, <2>1 DEF Spawn
  <2>2. CASE StoreHandle(p)
    BY <1>5, <2>2 DEF StoreHandle, Live
  <2>. QED
    BY <1>5, <2>1, <2>2
<1>6. ASSUME NEW p \in Threads, TakeHandle(p) \/ Joined(p) \/ JoinTimeout(p)
      PROVE  StoppedHolds'
  <2>1. CASE TakeHandle(p)
    BY <1>6, <2>1 DEF TakeHandle
  <2>2. CASE Joined(p)
    BY <1>6, <2>2 DEF Joined
  <2>3. CASE JoinTimeout(p)
    BY <1>6, <2>3 DEF JoinTimeout
  <2>. QED
    BY <1>6, <2>1, <2>2, <2>3
<1>7. ASSUME NEW t \in Tasks, TaskRuns(t)
      PROVE  StoppedHolds'
  <2>1. CASE RecordEnd(t)
    BY <1>7, <2>1 DEF RecordEnd, Becomes
  <2>2. CASE RunReturns(t) \/ Block(t) \/ Cancelled(t)
    BY <1>7, <2>2 DEF RunReturns, Block, Cancelled, Becomes
  <2>3. CASE ReportReady(t)
    BY <1>7, <2>3 DEF ReportReady
  <2>. QED
    BY <1>7, <2>1, <2>2, <2>3 DEF TaskRuns
<1>. HIDE DEF Ownership, TypeOK, OneJoinHandle, CallsHold, HandlesHold, Owns, Holds, Reserving,
         Joining, Ended, metaVars, taskVars, threadVars, Goto, Return, SetState, LiveAreHeld,
         Live, Held, TurnsTaken, StoppedHolds, Orderly
<1>. QED
  BY <1>1, <1>2, <1>3, <1>4, <1>5, <1>6, <1>7 DEF Next, Call, Advance

(* Between a state and its event only a task that ends can write another.  *)
LEMMA EventsStep ==
  ASSUME Ownership, TurnsTaken, EventsHold, Next
  PROVE  EventsHold'
<1>. USE NullAssumption
     DEF Ownership, TypeOK, CallsHold, Reserving, Joining, Ended, metaVars, taskVars,
         threadVars, Goto, Return, SetState,
         TurnsTaken, EventsHold, Announces
<1>1. ASSUME NEW p \in Threads, NEW s \in Subsystems, CallStop(p, s),
             Exclusive => \A q \in Threads : sub[q] # s
      PROVE  EventsHold'
  BY <1>1 DEF CallStop
<1>2. ASSUME NEW p \in Threads, NEW s \in Subsystems, NEW t \in Tasks,
             CallStart(p, s, t) \/ CallRestart(p, s, t),
             Exclusive => \A q \in Threads : sub[q] # s
      PROVE  EventsHold'
  <2>1. CASE CallStart(p, s, t)
    BY <1>2, <2>1 DEF CallStart, Reserve
  <2>2. CASE CallRestart(p, s, t)
    BY <1>2, <2>2 DEF CallRestart, Reserve
  <2>. QED
    BY <1>2, <2>1, <2>2
<1>3. ASSUME NEW p \in Threads, Publish(p)
      PROVE  EventsHold'
  BY <1>3 DEF Publish, Announces, AfterEvent
<1>4. ASSUME NEW p \in Threads,
             \/ SetStarting(p) \/ SetRunning(p) \/ SetStopped(p) \/ SetRestarting(p)
             \/ MarkReady(p) \/ CountTotal(p) \/ PlanRestart(p) \/ WakeUp(p)
      PROVE  EventsHold'
  <2>1. CASE SetStarting(p) \/ SetRunning(p) \/ SetStopped(p) \/ SetRestarting(p)
    BY <1>4, <2>1 DEF SetStarting, SetRunning, SetStopped, SetRestarting
  <2>2. CASE MarkReady(p)
    BY <1>4, <2>2 DEF MarkReady
  <2>3. CASE CountTotal(p) \/ PlanRestart(p) \/ WakeUp(p)
    BY <1>4, <2>3 DEF CountTotal, PlanRestart, WakeUp
  <2>. QED
    BY <1>4, <2>1, <2>2, <2>3
<1>5. ASSUME NEW p \in Threads, Spawn(p) \/ StoreHandle(p)
      PROVE  EventsHold'
  <2>1. CASE Spawn(p)
    BY <1>5, <2>1 DEF Spawn
  <2>2. CASE StoreHandle(p)
    BY <1>5, <2>2 DEF StoreHandle, Live
  <2>. QED
    BY <1>5, <2>1, <2>2
<1>6. ASSUME NEW p \in Threads, TakeHandle(p) \/ Joined(p) \/ JoinTimeout(p)
      PROVE  EventsHold'
  <2>1. CASE TakeHandle(p)
    BY <1>6, <2>1 DEF TakeHandle
  <2>2. CASE Joined(p)
    BY <1>6, <2>2 DEF Joined
  <2>3. CASE JoinTimeout(p)
    BY <1>6, <2>3 DEF JoinTimeout
  <2>. QED
    BY <1>6, <2>1, <2>2, <2>3
<1>7. ASSUME NEW t \in Tasks, TaskRuns(t)
      PROVE  EventsHold'
  <2>1. CASE RecordEnd(t)
    BY <1>7, <2>1 DEF RecordEnd, Becomes
  <2>2. CASE RunReturns(t) \/ Block(t) \/ Cancelled(t)
    BY <1>7, <2>2 DEF RunReturns, Block, Cancelled, Becomes
  <2>3. CASE ReportReady(t)
    BY <1>7, <2>3 DEF ReportReady
  <2>. QED
    BY <1>7, <2>1, <2>2, <2>3 DEF TaskRuns
<1>. HIDE DEF Ownership, TypeOK, CallsHold, Reserving, Joining, Ended, metaVars, taskVars,
         threadVars, Goto, Return, SetState,
         TurnsTaken, EventsHold, Announces
<1>. QED
  BY <1>1, <1>2, <1>3, <1>4, <1>5, <1>6, <1>7 DEF Next, Call, Advance

LEMMA NextIInv == IInv /\ [Next]_vars => IInv'
<1>. SUFFICES ASSUME IInv, [Next]_vars PROVE IInv'
  OBVIOUS
<1>1. CASE Next
  BY <1>1, TypeStep, OwnershipStep, LiveStep, TurnsStep, StoppedStep, EventsStep
     DEF IInv, Ownership
<1>2. CASE UNCHANGED vars
  BY <1>2 DEF vars, IInv, TypeOK, OneJoinHandle, CallsHold, HandlesHold, LiveAreHeld,
              TurnsTaken, StoppedHolds, EventsHold, Owns, Holds, Held, Live
<1>. QED
  BY <1>1, <1>2

-----------------------------------------------------------------------------
(* The inductive invariant, for both runtimes, whether or not callers take *)
(* turns.                                                                  *)
THEOREM Invariance == Spec => []IInv
BY InitIInv, NextIInv, PTL DEF Spec

(* No task's JoinHandle is in two places, however many threads call the    *)
(* manager at the same time: no task is joined, aborted or reported twice. *)
THEOREM OneHolder == Spec => []OneJoinHandle
<1>1. IInv => OneJoinHandle
  BY DEF IInv
<1>. QED
  BY <1>1, Invariance, PTL

(* A subsystem at rest that says Stopped has no task left, unless a        *)
(* restart detached one: the task's own last state and the one             *)
(* stop_subsystem writes cannot deceive each other.                        *)
THEOREM StoppedIsTrue == Spec => []StoppedMeansEnded
<1>1. IInv => StoppedMeansEnded
  <2>. SUFFICES ASSUME IInv, Orderly, NEW s \in Subsystems, state[s] = "Stopped", Quiet(s),
                       NEW t \in Live(s), \A u \in replaced : owner[u] # s
                PROVE  FALSE
    BY DEF StoppedMeansEnded
  <2>1. t \in Tasks /\ owner[t] = s /\ t \notin replaced
    BY DEF Live
  <2>2. \/ \E x \in Subsystems : handle[x] = t
        \/ \E p \in Threads : mine[p] = t
    BY <2>1 DEF IInv, LiveAreHeld, Orderly, Held, Owns, Holds
  <2>3. CASE \E p \in Threads : mine[p] = t
    BY <2>1, <2>3, NullAssumption DEF IInv, CallsHold, Quiet
  <2>4. CASE \E x \in Subsystems : handle[x] = t
    <3>1. handle[s] = t
      BY <2>1, <2>4, NullAssumption DEF IInv, HandlesHold
    <3>. QED
      BY <3>1 DEF IInv, StoppedHolds, Quiet
  <2>. QED
    BY <2>2, <2>3, <2>4
<1>. QED
  BY <1>1, Invariance, PTL

(* Who has read all events knows the state of a subsystem at rest, but for *)
(* an end of its own.                                                      *)
THEOREM EventsAreTrue == Spec => []EventsTellState
<1>1. IInv => EventsTellState
  BY DEF IInv, EventsHold, EventsTellState, Quiet
<1>. QED
  BY <1>1, Invariance, PTL

(* No call lets go of a task that has not ended, except to start the       *)
(* subsystem again: stop_subsystem joins what it has taken, or aborts it   *)
(* and then joins it.                                                      *)
THEOREM NothingAbandoned == Spec => StopNeverAbandons
<1>. DEFINE Kept(t) ==
       Held(t) /\ ~Held(t)' =>
           \/ task[t] \in Ended
           \/ \E s \in Subsystems : Owns(s, t) /\ handle'[s] \in Tasks
<1>1. ASSUME IInv, [Next]_vars, Runtime = "tokio", NEW t \in Tasks PROVE Kept(t)
  <2>. USE NullAssumption
       DEF IInv, TypeOK, CallsHold, HandlesHold, Held, Owns, Holds, Reserving, Joining,
           metaVars, taskVars, threadVars, Goto, Return, SetState
  <2>1. CASE UNCHANGED <<handle, mine>>
    BY <2>1
  <2>2. ASSUME NEW p \in Threads, Publish(p) PROVE Kept(t)
    BY <1>1, <2>2 DEF Publish, Announces, AfterEvent
  <2>3. ASSUME NEW p \in Threads, NEW s \in Subsystems, NEW u \in Tasks, Reserve(p, s, u),
               UNCHANGED handle
        PROVE  Kept(t)
    BY <1>1, <2>3 DEF Reserve
  <2>4. ASSUME NEW p \in Threads, StoreHandle(p) PROVE Kept(t)
    BY <1>1, <2>4 DEF StoreHandle
  <2>5. ASSUME NEW p \in Threads, TakeHandle(p) PROVE Kept(t)
    BY <1>1, <2>5 DEF TakeHandle
  <2>6. ASSUME NEW p \in Threads, Joined(p) \/ JoinTimeout(p) PROVE Kept(t)
    BY <1>1, <2>6 DEF Joined, JoinTimeout
  <2>. HIDE DEF IInv, TypeOK, CallsHold, HandlesHold, Held, Owns, Holds
  <2>7. ASSUME NEW p \in Threads, Call(p) PROVE Kept(t)
    BY <2>1, <2>3, <2>7 DEF Call, CallStart, CallStop, CallRestart
  <2>8. ASSUME NEW p \in Threads, Advance(p) PROVE Kept(t)
    BY <2>1, <2>2, <2>4, <2>5, <2>6, <2>8
       DEF Advance, SetStarting, SetRunning, SetStopped, SetRestarting, MarkReady, CountTotal,
           PlanRestart, WakeUp, Spawn
  <2>9. ASSUME NEW u \in Tasks, TaskRuns(u) PROVE Kept(t)
    BY <2>1, <2>9 DEF TaskRuns, RunReturns, Block, ReportReady, RecordEnd, Cancelled
  <2>. QED
    BY <1>1, <2>1, <2>7, <2>8, <2>9 DEF Next, vars
<1>2. IInv /\ [Next]_vars => [Runtime = "tokio" => \A t \in Tasks : Kept(t)]_vars
  BY <1>1
<1>. QED
  BY <1>2, Invariance, PTL DEF Spec, StopNeverAbandons

(* What stop_subsystem reports ready for shutdown has ended, but for what  *)
(* a restart had detached.                                                 *)
THEOREM ReadyIsTrue == Spec => ReadyWhenEnded
<1>1. ASSUME IInv, Orderly, NEW p \in Threads, pc[p] = "ready"
      PROVE  Live(sub[p]) \subseteq replaced
  <2>. SUFFICES ASSUME NEW t \in Live(sub[p]), t \notin replaced PROVE FALSE
    OBVIOUS
  <2>1. sub[p] \in Subsystems /\ handle[sub[p]] = NoTask /\ mine[p] = NoTask
    BY <1>1 DEF IInv, TypeOK, CallsHold, TurnsTaken, Orderly, Reserving, Joining
  <2>2. t \in Tasks /\ owner[t] = sub[p]
    BY DEF Live
  <2>3. \/ \E x \in Subsystems : handle[x] = t
        \/ \E q \in Threads : mine[q] = t
    BY <1>1, <2>1, <2>2 DEF IInv, LiveAreHeld, Orderly, Held, Owns, Holds
  <2>4. ASSUME NEW x \in Subsystems, handle[x] = t PROVE FALSE
    BY <1>1, <2>1, <2>2, <2>4, NullAssumption DEF IInv, HandlesHold
  <2>5. ASSUME NEW q \in Threads, mine[q] = t PROVE FALSE
    <3>1. sub[q] = sub[p] /\ sub[p] # NoSubsystem
      BY <1>1, <2>1, <2>2, <2>5, NullAssumption DEF IInv, CallsHold
    <3>. QED
      BY <1>1, <2>1, <2>2, <2>5, <3>1, NullAssumption DEF IInv, TurnsTaken, Orderly
  <2>. QED
    BY <2>3, <2>4, <2>5
<1>2. IInv => [Orderly => \A p \in Threads :
                   pc[p] = "ready" /\ pc'[p] # "ready" => Live(sub[p]) \subseteq replaced]_vars
  BY <1>1
<1>. QED
  BY <1>2, Invariance, PTL DEF ReadyWhenEnded

-----------------------------------------------------------------------------
(* The restart counts. *)

LEMMA PowerOfTwo ==
  ASSUME NEW n \in 0..10
  PROVE  2 ^ n \in Nat
<1>1. \/ n = 0 \/ n = 1 \/ n = 2 \/ n = 3 \/ n = 4 \/ n = 5
      \/ n = 6 \/ n = 7 \/ n = 8 \/ n = 9 \/ n = 10
  OBVIOUS
<1>2. /\ 2 ^ 0 \in Nat /\ 2 ^ 1 \in Nat /\ 2 ^ 2 \in Nat /\ 2 ^ 3 \in Nat /\ 2 ^ 4 \in Nat
      /\ 2 ^ 5 \in Nat /\ 2 ^ 6 \in Nat /\ 2 ^ 7 \in Nat /\ 2 ^ 8 \in Nat /\ 2 ^ 9 \in Nat
      /\ 2 ^ 10 \in Nat
  OBVIOUS
<1>. QED
  BY <1>1, <1>2

(* A backoff has at most ten doublings, and the policy's maximum.          *)
LEMMA DelayBound ==
  ASSUME NEW s, NEW count \in Nat
  PROVE  RestartDelay(s, count) \in 0..MaxDelay
<1>1. MinOf(count, 10) \in 0..10
  BY DEF MinOf
<1>. DEFINE factor == 2 ^ MinOf(count, 10)
<1>2. factor \in Nat
  BY <1>1, PowerOfTwo
<1>. HIDE DEF factor
<1>3. InitialDelay * factor \in Nat
  BY <1>2, PolicyAssumption
<1>4. MinOf(InitialDelay * factor, MaxDelay) \in 0..MaxDelay
  BY <1>3, PolicyAssumption DEF MinOf
<1>. QED
  BY <1>4, PolicyAssumption DEF RestartDelay, factor

(* The counts and the calls that have made one of the two increments, as   *)
(* sets: they are finite, and grow and shrink by one element at a time.    *)
Counted == IsFiniteSet(Restarted) /\ IsFiniteSet(Counting) /\ RestartsAddUp

LEMMA InitCounted == Init => Counted
<1>. SUFFICES ASSUME Init PROVE Counted
  OBVIOUS
<1>1. Restarted = {} /\ Counting = {}
  BY DEF Init, Restarted, Counting
<1>2. delay \in [Threads -> 0..MaxDelay]
  BY PolicyAssumption DEF Init
<1>. QED
  BY <1>1, <1>2, FS_EmptySet DEF Counted, RestartsAddUp, Init

(* restart_subsystem counts the restart of the subsystem.                  *)
LEMMA RestartCounted ==
  ASSUME TypeOK, Counted, NEW p \in Threads, NEW s \in Subsystems, NEW t \in Tasks,
         CallRestart(p, s, t)
  PROVE  Counted'
<1>1. /\ pc[p] = "idle" /\ pc' = [pc EXCEPT ![p] = "count_total"]
      /\ restarts' = [restarts EXCEPT ![s] = restarts[s] + 1] /\ total' = total /\ delay' = delay
  BY DEF CallRestart, Reserve, Goto
<1>2. Counting' = Counting \cup {p} /\ p \notin Counting
  BY <1>1 DEF TypeOK, Counting
<1>. DEFINE new == <<s, restarts[s] + 1>>
<1>3. Restarted' = Restarted \cup {new} /\ new \notin Restarted
  <2>1. restarts[s] \in Nat /\ restarts'[s] = restarts[s] + 1
    BY <1>1 DEF TypeOK
  <2>2. \A x \in Subsystems : x # s => restarts'[x] = restarts[x]
    BY <1>1 DEF TypeOK
  <2>3. {s} \X (1..restarts'[s]) = ({s} \X (1..restarts[s])) \cup {new}
    BY <2>1
  <2>4. \A x : x \in Restarted' <=> x \in Restarted \/ x = new
    BY <2>2, <2>3 DEF Restarted
  <2>5. new \notin Restarted
    BY <2>1 DEF Restarted
  <2>. QED
    BY <2>4, <2>5
<1>4. /\ IsFiniteSet(Restarted') /\ Cardinality(Restarted') = Cardinality(Restarted) + 1
      /\ IsFiniteSet(Counting') /\ Cardinality(Counting') = Cardinality(Counting) + 1
  BY <1>2, <1>3, FS_AddElement DEF Counted
<1>5. Cardinality(Restarted) \in Nat /\ Cardinality(Counting) \in Nat
  BY FS_CardinalityType DEF Counted
<1>. QED
  BY <1>1, <1>4, <1>5 DEF Counted, RestartsAddUp, TypeOK

(* ... and then in the total.                                              *)
LEMMA TotalCounted ==
  ASSUME TypeOK, Counted, NEW p \in Threads, CountTotal(p)
  PROVE  Counted'
<1>1. /\ pc[p] = "count_total" /\ pc' = [pc EXCEPT ![p] = "restarting"]
      /\ restarts' = restarts /\ total' = total + 1 /\ delay' = delay
  BY DEF CountTotal, Goto
<1>2. Counting' = Counting \ {p} /\ p \in Counting
  BY <1>1 DEF TypeOK, Counting
<1>3. Restarted' = Restarted
  BY <1>1 DEF Restarted
<1>4. IsFiniteSet(Counting') /\ Cardinality(Counting') = Cardinality(Counting) - 1
  BY <1>2, FS_RemoveElement DEF Counted
<1>5. Cardinality(Restarted) \in Nat /\ Cardinality(Counting) \in Nat
  BY FS_CardinalityType DEF Counted
<1>. QED
  BY <1>1, <1>3, <1>4, <1>5 DEF Counted, RestartsAddUp, TypeOK

(* Nothing else touches the counts.                                        *)
LEMMA CountsLeftAlone ==
  ASSUME TypeOK, Counted, UNCHANGED <<restarts, total>>, NEW p \in Threads, NEW next,
         pc[p] # "count_total", next # "count_total", Goto(p, next),
         delay' \in [Threads -> 0..MaxDelay]
  PROVE  Counted'
<1>1. Restarted' = Restarted
  BY DEF Restarted
<1>2. Counting' = Counting
  BY DEF TypeOK, Goto, Counting
<1>. QED
  BY <1>1, <1>2 DEF Counted, RestartsAddUp

LEMMA CountedStep ==
  ASSUME TypeOK, CallsHold, Counted, [Next]_vars
  PROVE  Counted'
<1>1. delay \in [Threads -> 0..MaxDelay] /\ 0 \in 0..MaxDelay
  BY PolicyAssumption DEF Counted, RestartsAddUp
<1>2. CASE UNCHANGED <<restarts, total, pc, delay>>
  BY <1>2 DEF Counted, RestartsAddUp, Restarted, Counting
<1>3. ASSUME NEW p \in Threads, Call(p) PROVE Counted'
  <2>1. PICK s \in Subsystems : \/ CallStop(p, s)
                                \/ \E t \in Tasks : CallStart(p, s, t) \/ CallRestart(p, s, t)
    BY <1>3 DEF Call
  <2>2. CASE CallStop(p, s)
    BY <1>1, <2>2, CountsLeftAlone DEF CallStop
  <2>3. CASE \E t \in Tasks : CallStart(p, s, t)
    BY <1>1, <2>3, CountsLeftAlone DEF CallStart, Reserve, metaVars
  <2>4. CASE \E t \in Tasks : CallRestart(p, s, t)
    BY <2>4, RestartCounted
  <2>. QED
    BY <2>1, <2>2, <2>3, <2>4
<1>4. ASSUME NEW p \in Threads, Advance(p) PROVE Counted'
  <2>1. CASE Publish(p)
    BY <1>1, <2>1, CountsLeftAlone DEF Publish, Announces, AfterEvent, Return
  <2>2. CASE SetStarting(p) \/ SetRunning(p) \/ SetStopped(p) \/ SetRestarting(p)
    BY <1>1, <2>2, CountsLeftAlone
       DEF SetStarting, SetRunning, SetStopped, SetRestarting, SetState
  <2>3. CASE Spawn(p) \/ StoreHandle(p)
    BY <1>1, <2>3, CountsLeftAlone DEF Spawn, StoreHandle, metaVars
  <2>4. CASE TakeHandle(p)
    BY <1>1, <2>4, CountsLeftAlone DEF TakeHandle, Return
  <2>5. CASE Joined(p) \/ JoinTimeout(p) \/ MarkReady(p)
    BY <1>1, <2>5, CountsLeftAlone DEF Joined, JoinTimeout, MarkReady, metaVars
  <2>6. CASE CountTotal(p)
    BY <2>6, TotalCounted
  <2>7. CASE PlanRestart(p) \/ WakeUp(p)
    <3>1. CASE PlanRestart(p)
      <4>1. sub[p] \in Subsystems /\ restarts[sub[p]] \in Nat
        BY <3>1 DEF PlanRestart, CallsHold, TypeOK
      <4>2. RestartDelay(sub[p], restarts[sub[p]]) \in 0..MaxDelay
        BY <4>1, DelayBound
      <4>. QED
        BY <1>1, <3>1, <4>2, CountsLeftAlone DEF PlanRestart, metaVars
    <3>2. CASE WakeUp(p)
      BY <1>1, <3>2, CountsLeftAlone DEF WakeUp, metaVars
    <3>. QED
      BY <2>7, <3>1, <3>2
  <2>. QED
    BY <1>4, <2>1, <2>2, <2>3, <2>4, <2>5, <2>6, <2>7 DEF Advance
<1>5. ASSUME NEW t \in Tasks, TaskRuns(t) PROVE UNCHANGED <<restarts, total, pc, delay>>
  BY <1>5 DEF TaskRuns, RunReturns, Block, ReportReady, RecordEnd, Cancelled, metaVars,
              threadVars
<1>. QED
  BY <1>2, <1>3, <1>4, <1>5 DEF Next, vars

(* total_restarts is the sum of the subsystems' counts, but for the calls  *)
(* that have made one increment of the two, and no thread sleeps longer    *)
(* than the restart policy allows.                                         *)
THEOREM RestartsCounted == Spec => []RestartsAddUp
<1>1. Counted => RestartsAddUp
  BY DEF Counted
<1>2. IInv => TypeOK /\ CallsHold
  BY DEF IInv
<1>. QED
  BY <1>1, <1>2, InitCounted, CountedStep, Invariance, PTL DEF Spec

=============================================================================
