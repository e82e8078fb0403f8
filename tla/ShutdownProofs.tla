-------------------------- MODULE ShutdownProofs ---------------------------
(***************************************************************************)
(* Proofs about module Shutdown: its safety properties, for any set of     *)
(* calls, waiters and readers and for both runtimes, and that the protocol *)
(* implements the safety part of ShutdownLatch.                            *)
(***************************************************************************)
EXTENDS Shutdown, TLAPS

-----------------------------------------------------------------------------
(* The initial state satisfies the inductive invariant. *)
LEMMA InitIInv == Init => IInv
<1>. SUFFICES ASSUME Init PROVE IInv
  OBVIOUS
<1>1. TypeOK
  BY DEF Init, TypeOK, Reasons, CallState, WaiterState, ReaderState, Stats, NoStats, None
<1>2. Won = {}
  BY DEF Init, Won
<1>3. OneWinner /\ NoLostWakeup /\ NoSpuriousReturn
  BY <1>2 DEF Init, OneWinner, NoLostWakeup, NoSpuriousReturn
<1>4. NoLoserReason /\ Seen /\ Stored
  BY DEF Init, NoLoserReason, Seen, Stored, NoStats, None
<1>. QED
  BY <1>1, <1>3, <1>4 DEF IInv

(* Nothing the readers or the waiters do touches the initiation, so the    *)
(* facts about it survive their steps.                                     *)
LEMMA InitiationUntouched ==
  ASSUME IInv, UNCHANGED initVars
  PROVE  /\ OneWinner' /\ Stored'
         /\ Won' = Won /\ Sending' = Sending /\ flag' = flag
BY DEF IInv, initVars, OneWinner, Stored, Won, Sending

(* A step of initiate_shutdown preserves the invariant. *)
LEMMA CallerIInv ==
  ASSUME IInv, NEW c \in Calls, Caller(c)
  PROVE  IInv'
<1>. USE DEF IInv
<1>0. UNCHANGED readVars /\ UNCHANGED wpc /\ UNCHANGED runtime
  BY DEF Caller, Initiate, StoreReason, StoreTime, Send, waitVars
<1>1. CASE Initiate(c)
  <2>1. TypeOK'
    BY <1>1 DEF Initiate, TypeOK, CallState, waitVars, readVars
  <2>2. flag => UNCHANGED <<flag, Won, Sending>>
    BY <1>1 DEF Initiate, TypeOK, Won, Sending
  <2>3. ~flag => /\ flag' /\ c \in Won' /\ c \in Sending' /\ Won' = {c}
    BY <1>1 DEF Initiate, TypeOK, Won, Sending, OneWinner
  <2>4. OneWinner'
    BY <2>2, <2>3, <1>1 DEF OneWinner, Initiate
  <2>5. NoLostWakeup'
    BY <2>2, <2>3, <1>1 DEF NoLostWakeup, Initiate, waitVars
  <2>6. NoSpuriousReturn' /\ Seen'
    BY <1>1 DEF NoSpuriousReturn, Seen, Initiate, waitVars, readVars
  <2>7. Won \subseteq Won'
    BY <1>1 DEF Initiate, TypeOK, Won
  <2>8. NoLoserReason'
    BY <2>7, <1>1 DEF NoLoserReason, Initiate, readVars
  <2>9. Stored'
    BY <2>7, <1>1 DEF Stored, Initiate, TypeOK
  <2>. QED
    BY <2>1, <2>4, <2>5, <2>6, <2>8, <2>9
<1>2. CASE StoreReason(c)
  <2>1. TypeOK'
    BY <1>2, ReasonAssumption DEF StoreReason, TypeOK, CallState, waitVars, readVars
  <2>2. UNCHANGED <<flag, Won, Sending>> /\ c \in Won
    BY <1>2 DEF StoreReason, TypeOK, Won, Sending
  <2>3. OneWinner'
    BY <2>2 DEF OneWinner
  <2>4. NoLostWakeup' /\ NoSpuriousReturn' /\ Seen'
    BY <2>2, <1>2 DEF NoLostWakeup, NoSpuriousReturn, Seen, StoreReason, waitVars, readVars
  <2>5. NoLoserReason'
    BY <2>2, <1>2 DEF NoLoserReason, StoreReason, readVars
  <2>6. Stored'
    BY <2>2, <1>2 DEF Stored, StoreReason, TypeOK, OneWinner, Won
  <2>. QED
    BY <2>1, <2>3, <2>4, <2>5, <2>6
<1>3. CASE StoreTime(c)
  <2>1. TypeOK'
    BY <1>3 DEF StoreTime, TypeOK, CallState, waitVars, readVars
  <2>2. UNCHANGED <<flag, Won>>
    BY <1>3 DEF StoreTime, TypeOK, Won
  <2>3. runtime = "tokio" => UNCHANGED Sending
    BY <1>3 DEF StoreTime, TypeOK, Sending
  <2>4. OneWinner'
    BY <2>2 DEF OneWinner
  <2>5. NoLostWakeup'
    BY <2>2, <2>3, <1>3 DEF NoLostWakeup, Seen, StoreTime, waitVars
  <2>6. NoSpuriousReturn' /\ Seen'
    BY <2>2, <1>3 DEF NoSpuriousReturn, Seen, StoreTime, waitVars, readVars
  <2>7. NoLoserReason'
    BY <2>2, <1>3 DEF NoLoserReason, StoreTime, readVars
  <2>8. Stored'
    BY <2>2, <1>3 DEF Stored, StoreTime, TypeOK
  <2>. QED
    BY <2>1, <2>4, <2>5, <2>6, <2>7, <2>8
<1>4. CASE Send(c)
  <2>1. TypeOK'
    BY <1>4 DEF Send, TypeOK, CallState, readVars
  <2>2. UNCHANGED <<flag, Won>> /\ c \in Won /\ flag
    BY <1>4 DEF Send, TypeOK, Won, OneWinner
  <2>3. OneWinner'
    BY <2>2 DEF OneWinner
  <2>4. \A w \in Waiters : rx'[w] # "empty"
    BY <1>4 DEF Send
  <2>5. NoLostWakeup'
    BY <2>4 DEF NoLostWakeup
  <2>6. NoSpuriousReturn' /\ Seen'
    BY <2>2, <1>4 DEF NoSpuriousReturn, Seen, Send, readVars
  <2>7. NoLoserReason'
    BY <2>2, <1>4 DEF NoLoserReason, Send, readVars
  <2>8. Stored'
    BY <2>2, <1>4 DEF Stored, Send, TypeOK
  <2>. QED
    BY <2>1, <2>3, <2>5, <2>6, <2>7, <2>8
<1>. QED
  BY <1>1, <1>2, <1>3, <1>4 DEF Caller

(* A step of a waiter preserves the invariant.  The step that matters is   *)
(* Recheck: a waiter parks only after seeing the flag down.                *)
LEMMA WaiterIInv ==
  ASSUME IInv, NEW w \in Waiters, Call(w) \/ WaiterAdvances(w) \/ DropWait(w)
  PROVE  IInv'
<1>. USE DEF IInv
<1>0. UNCHANGED initVars /\ UNCHANGED readVars /\ UNCHANGED runtime
  BY DEF Call, WaiterAdvances, FastPath, Subscribe, Recheck, Receive, Poll, DropWait
<1>1. OneWinner' /\ Stored' /\ Won' = Won /\ Sending' = Sending /\ flag' = flag
  BY <1>0, InitiationUntouched
<1>2. NoLoserReason'
  BY <1>0, <1>1 DEF NoLoserReason, readVars, initVars
<1>. DEFINE Here ==
        /\ wpc[w] = "parked" /\ rx[w] = "empty" => ~flag \/ Sending # {}
        /\ wpc[w] = "returned" => flag
        /\ rx[w] = "message" => flag
        /\ wpc[w] \in {"subscribe", "recheck", "parked"} => runtime = "tokio"
<1>3. Here
  BY DEF NoLostWakeup, NoSpuriousReturn, Seen
<1>4. /\ wpc' \in [Waiters -> WaiterState]
      /\ rx' \in [Waiters -> {"closed", "empty", "message"}]
      /\ \A v \in Waiters \ {w} : wpc'[v] = wpc[v] /\ rx'[v] = rx[v]
  BY DEF Call, WaiterAdvances, FastPath, Subscribe, Recheck, Receive, Poll, DropWait,
         Finish, Enter, TypeOK, WaiterState
<1>5. Here'
  <2>1. CASE Call(w)
    BY <1>0, <1>1, <1>3, <2>1 DEF Call, Enter, TypeOK
  <2>2. CASE FastPath(w)
    BY <1>0, <1>1, <1>3, <2>2 DEF FastPath, Finish, Enter, TypeOK
  <2>3. CASE Subscribe(w)
    BY <1>0, <1>1, <1>3, <2>3 DEF Subscribe, TypeOK
  <2>4. CASE Recheck(w)
    BY <1>0, <1>1, <1>3, <2>4 DEF Recheck, Finish, Enter, TypeOK
  <2>5. CASE Receive(w)
    BY <1>0, <1>1, <1>3, <2>5 DEF Receive, Finish, TypeOK
  <2>6. CASE Poll(w)
    BY <1>0, <1>1, <1>3, <2>6 DEF Poll, Finish, TypeOK
  <2>7. CASE DropWait(w)
    BY <1>0, <1>1, <1>3, <2>7 DEF DropWait, TypeOK
  <2>. QED
    BY <2>1, <2>2, <2>3, <2>4, <2>5, <2>6, <2>7 DEF WaiterAdvances
<1>6. NoLostWakeup' /\ NoSpuriousReturn'
  BY <1>1, <1>4, <1>5 DEF NoLostWakeup, NoSpuriousReturn
<1>7. Seen'
  BY <1>0, <1>1, <1>4, <1>5 DEF Seen, readVars
<1>8. TypeOK'
  BY <1>0, <1>4 DEF TypeOK, initVars, readVars
<1>. QED
  BY <1>1, <1>2, <1>6, <1>7, <1>8

(* A step of a reader preserves the invariant. *)
LEMMA ReaderIInv ==
  ASSUME IInv, NEW r \in Readers, Reader(r)
  PROVE  IInv'
<1>. USE DEF IInv
<1>0. UNCHANGED initVars /\ UNCHANGED waitVars /\ UNCHANGED runtime
  BY DEF Reader, ReadReason, LoadReason, StatsBegin, StatsFlag, StatsReason, StatsTime
<1>1. OneWinner' /\ Stored' /\ Won' = Won /\ Sending' = Sending /\ flag' = flag
  BY <1>0, InitiationUntouched
<1>2. NoLostWakeup' /\ NoSpuriousReturn'
  BY <1>0, <1>1 DEF NoLostWakeup, NoSpuriousReturn, waitVars
<1>. DEFINE Fine(v) == v \in {None, "Requested"} \/ \E c \in Won : v = ReasonOf[c]
            Here ==
              /\ Fine(seen[r]) /\ Fine(snap[r].reason)
              /\ rpc[r] = "stat_flag" /\ snap[r].shutdown => flag
              /\ rpc[r] \in {"idle", "load", "stat_time"} /\ snap[r].shutdown
                     => snap[r].reason # None
<1>3. Here
  BY DEF NoLoserReason, Seen
<1>4. /\ rpc' \in [Readers -> ReaderState]
      /\ seen' \in [Readers -> Reasons \cup {None}]
      /\ snap' \in [Readers -> Stats]
      /\ \A q \in Readers \ {r} : rpc'[q] = rpc[q] /\ seen'[q] = seen[q] /\ snap'[q] = snap[q]
  <2>1. CASE ReadReason(r)
    BY <2>1 DEF ReadReason, TypeOK, ReaderState
  <2>2. CASE LoadReason(r)
    BY <2>2 DEF LoadReason, TypeOK, ReaderState
  <2>3. CASE StatsBegin(r)
    BY <2>3 DEF StatsBegin, TypeOK, ReaderState, Stats, NoStats
  <2>4. CASE StatsFlag(r)
    BY <2>4 DEF StatsFlag, TypeOK, ReaderState
  <2>5. CASE StatsReason(r)
    BY <2>5 DEF StatsReason, TypeOK, ReaderState, Stats
  <2>6. CASE StatsTime(r)
    BY <2>6 DEF StatsTime, TypeOK, ReaderState, Stats
  <2>. QED
    BY <2>1, <2>2, <2>3, <2>4, <2>5, <2>6 DEF Reader
<1>5. Here'
  <2>1. CASE ReadReason(r)
    BY <1>0, <1>1, <1>3, <2>1 DEF ReadReason, TypeOK, None
  <2>2. CASE LoadReason(r)
    BY <1>0, <1>1, <1>3, <2>2 DEF LoadReason, TypeOK, Stored
  <2>3. CASE StatsBegin(r)
    BY <1>0, <1>1, <1>3, <2>3 DEF StatsBegin, TypeOK, Stats, NoStats
  <2>4. CASE StatsFlag(r)
    BY <1>0, <1>1, <1>3, <2>4 DEF StatsFlag, TypeOK
  <2>5. CASE StatsReason(r)
    BY <1>0, <1>1, <1>3, <2>5 DEF StatsReason, TypeOK, Stats, Stored, Reasons, None
  <2>6. CASE StatsTime(r)
    BY <1>0, <1>1, <1>3, <2>6 DEF StatsTime, TypeOK, Stats
  <2>. QED
    BY <2>1, <2>2, <2>3, <2>4, <2>5, <2>6 DEF Reader
<1>6. NoLoserReason'
  BY <1>1, <1>4, <1>5 DEF NoLoserReason
<1>7. Seen'
  BY <1>0, <1>1, <1>4, <1>5 DEF Seen, waitVars
<1>8. TypeOK'
  BY <1>0, <1>4 DEF TypeOK, initVars, waitVars
<1>. QED
  BY <1>1, <1>2, <1>6, <1>7, <1>8

(* The inductive invariant holds in every reachable state. *)
THEOREM Invariance == Spec => []IInv
<1>1. IInv /\ [Next]_vars => IInv'
  <2>. SUFFICES ASSUME IInv, [Next]_vars PROVE IInv'
    OBVIOUS
  <2>1. CASE UNCHANGED vars
    BY <2>1 DEF vars, IInv, TypeOK, OneWinner, NoLostWakeup, NoSpuriousReturn,
                NoLoserReason, Seen, Stored, Won, Sending
  <2>2. CASE Next
    BY <2>2, CallerIInv, WaiterIInv, ReaderIInv DEF Next
  <2>. QED
    BY <2>1, <2>2
<1>. QED
  BY <1>1, InitIInv, PTL DEF Spec

(* Every variable of the protocol keeps its type. *)
THEOREM TypeCorrect == Spec => []TypeOK
<1>1. IInv => TypeOK
  BY DEF IInv
<1>. QED
  BY <1>1, Invariance, PTL

(* Shutdown is initiated at most once, whoever tries. *)
THEOREM AtMostOneWinner == Spec => []OneWinner
<1>1. IInv => OneWinner
  BY DEF IInv
<1>. QED
  BY <1>1, Invariance, PTL

(* cancelled() and wait_initiated() return only after an initiation. *)
THEOREM ReturnsAfterInitiation == Spec => []NoSpuriousReturn
<1>1. IInv => NoSpuriousReturn
  BY DEF IInv
<1>. QED
  BY <1>1, Invariance, PTL

(* No waiter sleeps through the notification. *)
THEOREM NoWakeupIsLost == Spec => []NoLostWakeup
<1>1. IInv => NoLostWakeup
  BY DEF IInv
<1>. QED
  BY <1>1, Invariance, PTL

(* The reason and the time the successful call stored are final. *)
THEOREM TheWinnerDecides == Spec => []WinnerDecides
<1>1. IInv => WinnerDecides
  BY DEF IInv, Stored, WinnerDecides
<1>. QED
  BY <1>1, Invariance, PTL

(* What readers are told comes from the winner, or is the default. *)
THEOREM ReadersSeeTheWinner == Spec => []NoLoserReason
<1>1. IInv => NoLoserReason
  BY DEF IInv
<1>. QED
  BY <1>1, Invariance, PTL

(* Statistics that say "shut down" have a reason, although get_stats reads *)
(* the flag, the reason and the time one after the other: the flag, which  *)
(* goes up first, is read first.                                           *)
THEOREM StatisticsCohere == Spec => []StatsCoherent
<1>1. IInv => StatsCoherent
  BY DEF IInv, Seen, StatsCoherent
<1>. QED
  BY <1>1, Invariance, PTL

-----------------------------------------------------------------------------
(* The protocol implements the latch. *)

(* With at most one winner, the decision is that winner's reason. *)
LEMMA DecisionOfWinner ==
  ASSUME OneWinner, NEW c \in Won
  PROVE  Decision = ReasonOf[c]
BY DEF OneWinner, Decision

(* The compare-and-exchange opens the latch; the other steps of a call     *)
(* leave it alone.                                                         *)
LEMMA CallerRefines ==
  ASSUME IInv, IInv', NEW c \in Calls, Caller(c)
  PROVE  [Latch!LatchNext]_<<Decision, Place>>
<1>. USE DEF IInv
<1>1. Place' = Place
  BY DEF Caller, Initiate, StoreReason, StoreTime, Send, waitVars, Place
<1>2. CASE Won' = Won
  BY <1>1, <1>2 DEF Decision
<1>3. CASE Won' # Won
  <2>1. Initiate(c) /\ ~flag
    BY <1>3 DEF Caller, Initiate, StoreReason, StoreTime, Send, TypeOK, Won
  <2>2. c \in Won' /\ Won = {}
    BY <2>1 DEF Initiate, TypeOK, Won, OneWinner
  <2>3. Decision' = ReasonOf[c]
    <3>1. \A d \in Won' : d = c
      BY <2>2 DEF OneWinner
    <3>. QED
      BY <2>2, <3>1 DEF Decision
  <2>4. ReasonOf[c] \in Reasons /\ Decision = None
    BY <2>2, ReasonAssumption DEF Decision
  <2>5. Latch!Open(ReasonOf[c])
    BY <1>1, <2>3, <2>4 DEF Latch!Open
  <2>. QED
    BY <2>4, <2>5 DEF Latch!LatchNext
<1>. QED
  BY <1>2, <1>3

(* A waiter enters the latch with its call and leaves it, once decided,    *)
(* where its wait returns.                                                 *)
LEMMA WaiterRefines ==
  ASSUME IInv, NEW w \in Waiters, Call(w) \/ WaiterAdvances(w) \/ DropWait(w)
  PROVE  [Latch!LatchNext]_<<Decision, Place>>
<1>. USE DEF IInv
<1>0. /\ PlaceOf("away") = "away"
      /\ PlaceOf("returned") = "released"
      /\ \A s \in {"fast", "subscribe", "recheck", "parked", "asleep"} : PlaceOf(s) = "waiting"
  BY DEF PlaceOf
<1>1. UNCHANGED initVars
  BY DEF Call, WaiterAdvances, FastPath, Subscribe, Recheck, Receive, Poll, DropWait
<1>2. Decision' = Decision
  BY <1>1 DEF initVars, Decision, Won
<1>3. flag => Decision # None
  <2>1. ASSUME flag PROVE \E c \in Won : Decision = ReasonOf[c]
    BY <2>1 DEF OneWinner, Decision
  <2>2. \A c \in Won : ReasonOf[c] # None
    BY ReasonAssumption DEF Won, Reasons, None
  <2>. QED
    BY <2>1, <2>2
<1>4. /\ Place \in [Waiters -> {"away", "waiting", "released"}]
      /\ Place[w] = PlaceOf(wpc[w])
  BY DEF Place, PlaceOf
<1>5. ASSUME NEW new, wpc' = [wpc EXCEPT ![w] = new]
      PROVE  Place' = [Place EXCEPT ![w] = PlaceOf(new)]
  BY <1>5 DEF Place, TypeOK
<1>6. CASE Call(w)
  <2>1. Place' = [Place EXCEPT ![w] = PlaceOf("fast")]
    BY <1>5, <1>6 DEF Call, Enter
  <2>2. Place[w] \in {"away", "released"}
    BY <1>4, <1>6 DEF Call, PlaceOf
  <2>. QED
    BY <1>2, <1>0, <2>1, <2>2 DEF Latch!Enter, Latch!LatchNext
<1>7. CASE DropWait(w)
  <2>1. Place' = [Place EXCEPT ![w] = PlaceOf("away")]
    BY <1>5, <1>7 DEF DropWait
  <2>2. Place[w] = "waiting"
    BY <1>4, <1>7 DEF DropWait, PlaceOf
  <2>. QED
    BY <1>2, <1>0, <2>1, <2>2 DEF Latch!Abandon, Latch!LatchNext
<1>8. CASE WaiterAdvances(w)
  <2>1. Place[w] = "waiting"
    BY <1>4, <1>8 DEF WaiterAdvances, FastPath, Subscribe, Recheck, Receive, Poll, PlaceOf
  <2>2. CASE flag /\ Finish(w)
    <3>1. Place' = [Place EXCEPT ![w] = PlaceOf("returned")]
      BY <1>5, <2>2 DEF Finish
    <3>. QED
      BY <1>2, <1>3, <1>0, <2>1, <2>2, <3>1 DEF Latch!Leave, Latch!LatchNext
  <2>3. ASSUME NEW s \in {"subscribe", "recheck", "parked", "asleep"},
               wpc' = [wpc EXCEPT ![w] = s]
        PROVE  UNCHANGED <<Decision, Place>>
    <3>1. Place' = [Place EXCEPT ![w] = PlaceOf(s)]
      BY <1>5, <2>3
    <3>2. Place' = Place
      BY <1>4, <1>0, <2>1, <3>1
    <3>. QED
      BY <1>2, <3>2
  <2>4. CASE FastPath(w) \/ Subscribe(w) \/ Recheck(w) \/ Poll(w)
    BY <2>2, <2>3, <2>4 DEF FastPath, Subscribe, Recheck, Poll, Enter
  <2>5. CASE Receive(w)
    BY <2>2, <2>5 DEF Receive, Seen
  <2>. QED
    BY <1>8, <2>4, <2>5 DEF WaiterAdvances
<1>. QED
  BY <1>6, <1>7, <1>8

(* The detailed protocol implements the safety part of the latch.          *)
THEOREM Refinement == Spec => ImplementsLatchSafely
<1>1. Init => Latch!LatchInit
  <2>. SUFFICES ASSUME Init PROVE Latch!LatchInit
    OBVIOUS
  <2>1. Won = {}
    BY DEF Init, Won
  <2>2. Place = [w \in Waiters |-> "away"]
    BY DEF Init, Place, PlaceOf
  <2>. QED
    BY <2>1, <2>2 DEF Latch!LatchInit, Decision
<1>2. IInv /\ IInv' /\ [Next]_vars => [Latch!LatchNext]_<<Decision, Place>>
  <2>. SUFFICES ASSUME IInv, IInv', [Next]_vars
                PROVE  [Latch!LatchNext]_<<Decision, Place>>
    OBVIOUS
  <2>1. CASE UNCHANGED <<initVars, waitVars>>
    BY <2>1 DEF initVars, waitVars, Decision, Won, Place
  <2>2. CASE \E r \in Readers : Reader(r)
    BY <2>1, <2>2 DEF Reader, ReadReason, LoadReason, StatsBegin, StatsFlag, StatsReason,
                      StatsTime
  <2>3. CASE UNCHANGED vars
    BY <2>1, <2>3 DEF vars, initVars, waitVars
  <2>. QED
    BY <2>2, <2>3, CallerRefines, WaiterRefines DEF Next
<1>. QED
  BY <1>1, <1>2, Invariance, PTL DEF Spec, ImplementsLatchSafely, Latch!LatchSafeSpec,
     Latch!latchVars

=============================================================================
