----------------------- MODULE ResourceTrackerProofs ------------------------
(***************************************************************************)
(* Proofs about ResourceTracker, for any number of tasks, any length of    *)
(* the history and any bound on the clock: under tokio one task samples at *)
(* a time, what it publishes is in order, and a stopped tracker is quiet,  *)
(* as long as no stop() is dropped before it has returned.                 *)
(*                                                                         *)
(* The invariant is proved in three parts: types, the owner and its task,  *)
(* and what is published.                                                  *)
(***************************************************************************)
EXTENDS ResourceTracker, TLAPS

Owning     == OneSampler /\ OwnerKnows
Publishing == HistoryOrdered /\ ReadersAgree /\ SamplesMoveOn

(* Nothing is sampled at first. *)
LEMMA InitIInv == Init => IInv
<1>. SUFFICES ASSUME Init PROVE IInv
  OBVIOUS
<1>1. abandoned \in BOOLEAN
  BY Zenon DEF Init
<1>2. TypeOK
  BY <1>1, TrackerAssumption DEF Init, TypeOK
<1>3. OneSampler /\ HistoryOrdered /\ ReadersAgree /\ OwnerKnows /\ SamplesMoveOn
  BY TrackerAssumption
     DEF Init, OneSampler, HistoryOrdered, ReadersAgree, OwnerKnows, SamplesMoveOn, Live
<1>. QED
  BY <1>2, <1>3 DEF IInv

-----------------------------------------------------------------------------
(* The history after a push is as long as before or one longer, ends with  *)
(* the new sample, and is otherwise what it was, perhaps without its head. *)
LEMMA Pushed ==
  ASSUME TypeOK, NEW t \in Tasks, PushHistory(t)
  PROVE  /\ history' \in Seq(0..MaxClock) /\ Len(history') <= MaxHistory
         /\ history' # <<>> => Last(history') = sample[t]
         /\ \E k \in {0, 1} : \A i \in 1..(Len(history') - 1) :
                i + k \in 1..Len(history) /\ history'[i] = history[i + k]
<1>. DEFINE h == Append(history, sample[t])
<1>1. /\ h \in Seq(0..MaxClock) /\ Len(h) = Len(history) + 1 /\ h[Len(h)] = sample[t]
      /\ \A i \in 1..Len(history) : h[i] = history[i]
  BY DEF TypeOK
<1>2. CASE Len(h) > MaxHistory
  <2>1. history' = Tail(h)
    BY <1>2 DEF PushHistory
  <2>2. /\ Tail(h) \in Seq(0..MaxClock) /\ Len(Tail(h)) = Len(history)
        /\ \A i \in 1..Len(Tail(h)) : Tail(h)[i] = h[i + 1]
    BY <1>1
  <2>3. Len(history) <= MaxHistory /\ Len(history) \in Nat
    BY DEF TypeOK
  <2>4. Tail(h) # <<>> => Tail(h)[Len(Tail(h))] = sample[t]
    BY <1>1, <2>2, <2>3
  <2>5. \A i \in 1..(Len(Tail(h)) - 1) :
            i + 1 \in 1..Len(history) /\ Tail(h)[i] = history[i + 1]
    BY <1>1, <2>2, <2>3
  <2>. QED
    BY <2>1, <2>2, <2>3, <2>4, <2>5 DEF Last
<1>3. CASE ~(Len(h) > MaxHistory)
  <2>1. history' = h
    BY <1>3 DEF PushHistory
  <2>. QED
    BY <1>1, <1>3, <2>1, TrackerAssumption DEF TypeOK, Last
<1>. QED
  BY <1>2, <1>3

(* What a sequence of samples holds. *)
LEMMA TypedSamples ==
  ASSUME NEW h \in Seq(0..MaxClock)
  PROVE  Len(h) \in Nat /\ \A n \in 1..Len(h) : h[n] \in Nat
BY TrackerAssumption

(* Every step keeps the types.                                             *)
LEMMA TypeStep ==
  ASSUME TypeOK, Next
  PROVE  TypeOK'
<1>. USE TrackerAssumption DEF TypeOK, ownerVars, readVars, Goto
<1>1. CASE Tick
  BY <1>1 DEF Tick
<1>2. CASE Start
  BY <1>2 DEF Start
<1>3. CASE Stop \/ StopReturns \/ StopAbandoned \/ DropTracker
  BY <1>3 DEF Stop, StopReturns, StopAbandoned, DropTracker
<1>4. ASSUME NEW t \in Tasks, Measure(t) PROVE TypeOK'
  BY <1>4 DEF Measure
<1>5. ASSUME NEW t \in Tasks, StoreCurrent(t) PROVE TypeOK'
  BY <1>5 DEF StoreCurrent
<1>6. ASSUME NEW t \in Tasks, PushHistory(t) PROVE TypeOK'
  BY <1>6, Pushed DEF PushHistory
<1>7. ASSUME NEW t \in Tasks, Reported(t) PROVE TypeOK'
  BY <1>7 DEF Reported
<1>8. ASSUME NEW t \in Tasks, NEW from \in {"reports", "waits"}, Ends(t, from) PROVE TypeOK'
  BY <1>8 DEF Ends
<1>. QED
  BY <1>1, <1>2, <1>3, <1>4, <1>5, <1>6, <1>7, <1>8 DEF Next, Publishes, Panics, Aborted

(* A task is started when the owner holds none, that is, when there is     *)
(* none: stop() has waited for it, and after the drop there is no start.   *)
LEMMA OwningStep ==
  ASSUME TypeOK, Owning, Next
  PROVE  Owning'
<1>. USE TrackerAssumption DEF TypeOK, Owning, OneSampler, OwnerKnows, Tokio, Joined
<1>1. CASE Start
  BY <1>1 DEF Start, Live
<1>2. CASE Stop
  BY <1>2 DEF Stop, Live
<1>3. CASE StopReturns \/ StopAbandoned
  BY <1>3 DEF StopReturns, StopAbandoned, Live
<1>4. CASE DropTracker
  BY <1>4 DEF DropTracker, Live
<1>5. ASSUME UNCHANGED <<runtime, ownerVars>>,
             \A t \in Tasks : Live(t)' => Live(t)
      PROVE  Owning'
  BY <1>5 DEF ownerVars
<1>6. CASE Tick
  BY <1>5, <1>6 DEF Tick, ownerVars, Live
<1>7. ASSUME NEW t \in Tasks, Measure(t) \/ Publishes(t) \/ Aborted(t)
      PROVE  Owning'
  <2>1. /\ UNCHANGED <<runtime, ownerVars>>
        /\ Live(t) /\ \A u \in Tasks \ {t} : task'[u] = task[u]
    BY <1>7 DEF Measure, Publishes, StoreCurrent, PushHistory, Reported,
                Panics, Aborted, Ends, Goto, ownerVars, Live
  <2>. QED
    BY <1>5, <2>1 DEF Live
<1>. QED
  BY <1>1, <1>2, <1>3, <1>4, <1>6, <1>7 DEF Next

(* A new sample is not older than what was published, because its time is  *)
(* the clock's; and there is no second task to publish another in between. *)
LEMMA PublishingStep ==
  ASSUME TypeOK, Owning, Publishing, Next
  PROVE  Publishing'
<1>. USE TrackerAssumption
     DEF TypeOK, Owning, OneSampler, Publishing, HistoryOrdered, ReadersAgree, SamplesMoveOn,
         Tokio, Joined, ownerVars, readVars, Goto
<1>1. CASE Tick
  BY <1>1 DEF Tick
<1>2. CASE Start
  BY <1>2 DEF Start
<1>3. CASE Stop \/ StopReturns \/ StopAbandoned \/ DropTracker
  BY <1>3 DEF Stop, StopReturns, StopAbandoned, DropTracker
<1>4. ASSUME NEW t \in Tasks, Measure(t) PROVE Publishing'
  <2>1. /\ task[t] = "waits" /\ task'[t] = "measured" /\ sample'[t] = clock
        /\ \A u \in Tasks \ {t} : task'[u] = task[u] /\ sample'[u] = sample[u]
        /\ UNCHANGED <<runtime, clock, abandoned, current, history>>
    BY <1>4 DEF Measure
  <2>2. HistoryOrdered'
    BY <2>1
  <2>3. ReadersAgree'
    BY <2>1
  <2>4. SamplesMoveOn'
    <3>1. current \in Nat /\ clock \in Nat /\ current <= clock
      OBVIOUS
    <3>2. ASSUME NEW u \in Tasks
          PROVE  /\ sample'[u] <= clock
                 /\ Joined' /\ task'[u] = "measured" => current <= sample'[u]
                 /\ Joined' /\ task'[u] = "stored" => current = sample'[u]
      <4>1. CASE u = t
        BY <2>1, <3>1, <4>1
      <4>2. CASE u # t
        BY <2>1, <4>2
      <4>. QED
        BY <4>1, <4>2
    <3>. QED
      BY <2>1, <3>1, <3>2
  <2>. QED
    BY <2>2, <2>3, <2>4
<1>5. ASSUME NEW t \in Tasks, StoreCurrent(t) PROVE Publishing'
  BY <1>5 DEF StoreCurrent, Live, Last
<1>6. ASSUME NEW t \in Tasks, PushHistory(t) PROVE Publishing'
  <2>1. /\ task[t] = "stored" /\ task'[t] = "reports"
        /\ \A u \in Tasks \ {t} : task'[u] = task[u]
        /\ UNCHANGED <<runtime, clock, abandoned, current, sample>>
    BY <1>6 DEF PushHistory
  <2>2. SamplesMoveOn'
    BY <2>1
  <2>3. history' # <<>> => Last(history') = sample[t]
    BY <1>6, Pushed
  <2>4. Joined => current = sample[t]
    BY <2>1
  <2>5. ReadersAgree'
    BY <2>1, <2>3, <2>4
  <2>6. ASSUME Joined PROVE \A i, j \in 1..Len(history') : i <= j => history'[i] <= history'[j]
    <3>1. /\ Len(history') \in Nat
          /\ \A n \in 1..Len(history') : history'[n] \in Nat
      BY <1>6, Pushed, TypedSamples
    <3>2. PICK k \in {0, 1} : \A i \in 1..(Len(history') - 1) :
              i + k \in 1..Len(history) /\ history'[i] = history[i + k]
      BY <1>6, Pushed
    <3>3. ASSUME NEW i \in 1..Len(history) PROVE history[i] <= current
      <4>1. Len(history) \in 1..Len(history) /\ i <= Len(history) /\ history # <<>>
        OBVIOUS
      <4>2. history[i] <= history[Len(history)]
        BY <2>6, <4>1
      <4>3. history[Len(history)] <= current
        BY <2>6, <4>1 DEF Last
      <4>4. history[i] \in Nat /\ history[Len(history)] \in Nat /\ current \in Nat
        BY <4>1, TypedSamples
      <4>. QED
        BY <4>2, <4>3, <4>4
    <3>4. history'[Len(history')] = current \/ history' = <<>>
      BY <2>3, <2>4, <2>6 DEF Last
    <3>5. ASSUME NEW i \in 1..Len(history'), NEW j \in 1..Len(history'), i <= j
          PROVE  history'[i] <= history'[j]
      <4>1. CASE j < Len(history')
        <5>1. i \in 1..(Len(history') - 1) /\ j \in 1..(Len(history') - 1)
          BY <3>1, <3>5, <4>1
        <5>2. /\ i + k \in 1..Len(history) /\ history'[i] = history[i + k]
              /\ j + k \in 1..Len(history) /\ history'[j] = history[j + k]
          BY <3>2, <5>1
        <5>3. i + k <= j + k
          BY <3>5, <5>1
        <5>4. history[i + k] <= history[j + k]
          BY <2>6, <5>2, <5>3
        <5>. QED
          BY <5>2, <5>4
      <4>2. CASE j = Len(history') /\ i < j
        <5>1. i \in 1..(Len(history') - 1)
          BY <3>1, <3>5, <4>2
        <5>2. history'[i] <= current
          BY <3>2, <3>3, <5>1
        <5>. QED
          BY <3>1, <3>4, <4>2, <5>2
      <4>3. CASE i = j
        BY <3>1, <4>3
      <4>. QED
        BY <3>1, <3>5, <4>1, <4>2, <4>3
    <3>. QED
      BY <3>5
  <2>. QED
    BY <2>1, <2>2, <2>3, <2>4, <2>5, <2>6
<1>7. ASSUME NEW t \in Tasks, Reported(t) \/ Panics(t) \/ Aborted(t) PROVE Publishing'
  <2>1. /\ task[t] \in {"reports", "waits"} /\ task'[t] \in {"waits", "ended"} /\ sample'[t] = 0
        /\ \A u \in Tasks \ {t} : task'[u] = task[u] /\ sample'[u] = sample[u]
        /\ UNCHANGED <<runtime, clock, abandoned, current, history>>
    BY <1>7 DEF Reported, Panics, Aborted, Ends
  <2>2. HistoryOrdered'
    BY <2>1
  <2>3. ReadersAgree'
    BY <2>1
  <2>4. SamplesMoveOn'
    <3>1. current \in Nat /\ clock \in Nat /\ current <= clock
      OBVIOUS
    <3>2. ASSUME NEW u \in Tasks
          PROVE  /\ sample'[u] <= clock
                 /\ Joined' /\ task'[u] = "measured" => current <= sample'[u]
                 /\ Joined' /\ task'[u] = "stored" => current = sample'[u]
      <4>1. CASE u = t
        BY <2>1, <3>1, <4>1
      <4>2. CASE u # t
        BY <2>1, <4>2
      <4>. QED
        BY <4>1, <4>2
    <3>. QED
      BY <2>1, <3>1, <3>2
  <2>. QED
    BY <2>2, <2>3, <2>4
<1>. QED
  BY <1>1, <1>2, <1>3, <1>4, <1>5, <1>6, <1>7 DEF Next, Publishes

(* The parts together, and stuttering. *)
LEMMA NextIInv == IInv /\ [Next]_vars => IInv'
<1>. SUFFICES ASSUME IInv, [Next]_vars PROVE IInv'
  OBVIOUS
<1>1. CASE Next
  BY <1>1, TypeStep, OwningStep, PublishingStep
     DEF IInv, Owning, Publishing
<1>2. CASE UNCHANGED vars
  BY <1>2 DEF vars, ownerVars, readVars, IInv, TypeOK, OneSampler, HistoryOrdered,
              ReadersAgree, OwnerKnows, SamplesMoveOn, Live, Tokio, Joined
<1>. QED
  BY <1>1, <1>2

-----------------------------------------------------------------------------
(* The inductive invariant of the tracker.                                 *)
THEOREM Invariance == Spec => []IInv
BY InitIInv, NextIInv, PTL DEF Spec

(* However often a tracker is started and stopped, at most one task        *)
(* samples (tokio, no stop() dropped).                                                        *)
THEOREM AtMostOneSampler == Spec => []OneSampler
<1>1. IInv => OneSampler
  BY DEF IInv
<1>. QED
  BY <1>1, Invariance, PTL

(* Readers find the samples in the order of their times, and current_usage *)
(* not behind the history (tokio, no stop() dropped).                                         *)
THEOREM SamplesInOrder == Spec => [](HistoryOrdered /\ ReadersAgree)
<1>1. IInv => HistoryOrdered /\ ReadersAgree
  BY DEF IInv
<1>. QED
  BY <1>1, Invariance, PTL

(* After stop() has returned nothing is published until the next start. *)
THEOREM QuietAfterStop == Spec => QuietWhenStopped
<1>1. ASSUME IInv, [Next]_vars, Stopped PROVE UNCHANGED readVars
  <2>1. \A t \in Tasks : ~Live(t)
    BY <1>1, TrackerAssumption DEF IInv, TypeOK, OwnerKnows, Stopped, Joined
  <2>2. ASSUME NEW t \in Tasks, StoreCurrent(t) \/ PushHistory(t) PROVE FALSE
    BY <2>1, <2>2 DEF StoreCurrent, PushHistory, Goto, Live
  <2>. QED
    BY <1>1, <2>2
       DEF Next, Tick, Start, Stop, StopReturns, StopAbandoned, DropTracker, Measure,
           Publishes, Reported, Panics, Aborted, Ends, readVars, vars
<1>2. IInv /\ [Next]_vars => [Stopped => UNCHANGED readVars]_vars
  BY <1>1
<1>. QED
  BY <1>2, Invariance, PTL DEF Spec, QuietWhenStopped

=============================================================================
