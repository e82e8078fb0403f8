---------------------------- MODULE MetricsProofs ---------------------------
(***************************************************************************)
(* Proofs about Metrics and ObjectPool, for any number of threads, objects *)
(* and reports, and all limits: a pooled string has one user, the pool     *)
(* keeps its bound, no increment is lost, and a snapshot fits together.    *)
(*                                                                         *)
(* The two operations of the pool are lemmas of their own; the collector   *)
(* is then proved in three parts: what threads have in hand, the metrics,  *)
(* and the readers.                                                        *)
(***************************************************************************)
EXTENDS Metrics, FiniteSetTheorems, TLAPS

(* The smaller and the larger of two numbers.                              *)
LEMMA MinOfTwo ==
  ASSUME NEW a \in Nat, NEW b \in Nat
  PROVE  Min({a, b}) \in {a, b} /\ Min({a, b}) <= a /\ Min({a, b}) <= b
<1>1. \E x \in {a, b} : \A y \in {a, b} : x <= y
  OBVIOUS
<1>. QED
  BY <1>1 DEF Min

LEMMA MaxOfTwo ==
  ASSUME NEW a \in Nat, NEW b \in Nat
  PROVE  Max({a, b}) \in {a, b} /\ Max({a, b}) >= a /\ Max({a, b}) >= b
<1>1. \E x \in {a, b} : \A y \in {a, b} : x >= y
  OBVIOUS
<1>. QED
  BY <1>1 DEF Max

-----------------------------------------------------------------------------
(* The pool. *)

PoolInv == PoolTypeOK /\ OneUser /\ PoolBounded

(* The pool is filled with different objects, and no thread has one.       *)
LEMMA PoolInitInv == PoolInit => PoolInv
<1>. SUFFICES ASSUME PoolInit PROVE PoolInv
  OBVIOUS
<1>. USE PoolAssumption
<1>1. available \in [1..InitialSize -> Objects] /\ IsInjective(available)
  BY DEF PoolInit, Injection
<1>2. available \in Seq(Objects) /\ Len(available) = InitialSize
  BY <1>1
<1>3. OneUser
  BY <1>1, <1>2 DEF PoolInit, OneUser, ToSet
<1>4. PoolBounded
  BY <1>2, MaxOfTwo DEF PoolBounded
<1>. QED
  BY <1>2, <1>3, <1>4 DEF PoolInv, PoolInit, PoolTypeOK

(* get(): the thread gets an object that nobody has, with the value alone  *)
(* in it; the others' objects keep their texts.                            *)
LEMMA GetKeeps ==
  ASSUME PoolInv, NEW t \in Threads, NEW v, Get(t, v)
  PROVE  /\ PoolInv'
         /\ object'[t] \in Objects /\ text'[object'[t]] = <<v>>
         /\ \A u \in Threads \ {t} :
                /\ object'[u] = object[u]
                /\ object[u] \in Objects => text'[object[u]] = text[object[u]]
<1>. USE PoolAssumption DEF PoolInv, PoolTypeOK
<1>1. PICK o \in (IF available = <<>> THEN Fresh ELSE {Head(available)}) :
        /\ available' = IF available = <<>> THEN <<>> ELSE Tail(available)
        /\ object' = [object EXCEPT ![t] = o]
        /\ text' = [text EXCEPT ![o] = <<v>>]
  BY DEF Get
<1>2. o \in Objects /\ o \notin ToSet(available') /\ \A u \in Threads : object[u] # o
  <2>1. CASE available = <<>>
    BY <1>1, <2>1 DEF Fresh, ToSet
  <2>2. CASE available # <<>>
    <3>1. /\ o = available[1] /\ Len(available) \in Nat /\ 1 \in DOMAIN available
          /\ DOMAIN available' = 1..(Len(available) - 1)
          /\ \A i \in DOMAIN available' : i + 1 \in DOMAIN available /\ available'[i] = available[i + 1]
      BY <1>1, <2>2
    <3>2. o \in ToSet(available) /\ o \in Objects
      BY <3>1 DEF ToSet
    <3>3. \A i \in DOMAIN available' : available'[i] # o
      <4>. SUFFICES ASSUME NEW i \in DOMAIN available', available'[i] = o PROVE FALSE
        OBVIOUS
      <4>1. i + 1 \in DOMAIN available /\ available[i + 1] = available[1] /\ i + 1 # 1
        BY <3>1
      <4>. QED
        BY <3>1, <4>1 DEF OneUser, IsInjective
    <3>. QED
      BY <3>2, <3>3 DEF ToSet, OneUser
  <2>. QED
    BY <2>1, <2>2
<1>3. available' \in Seq(Objects) /\ Len(available') <= Len(available) /\ IsInjective(available')
  <2>1. CASE available = <<>>
    BY <1>1, <2>1 DEF IsInjective
  <2>2. CASE available # <<>>
    <3>1. /\ available' = Tail(available) /\ Len(available) \in Nat
          /\ DOMAIN available' = 1..(Len(available) - 1)
          /\ \A i \in DOMAIN available' : i + 1 \in DOMAIN available /\ available'[i] = available[i + 1]
      BY <1>1, <2>2
    <3>2. \A i, j \in DOMAIN available' : available'[i] = available'[j] => i = j
      <4>. SUFFICES ASSUME NEW i \in DOMAIN available', NEW j \in DOMAIN available',
                           available'[i] = available'[j]
                    PROVE  i = j
        OBVIOUS
      <4>1. i + 1 = j + 1
        BY <3>1 DEF OneUser, IsInjective
      <4>. QED
        BY <3>1, <4>1
    <3>. QED
      BY <2>2, <3>1, <3>2 DEF IsInjective
  <2>. QED
    BY <2>1, <2>2
<1>4. ToSet(available') \subseteq ToSet(available)
  <2>1. CASE available = <<>>
    BY <1>1, <2>1
  <2>2. CASE available # <<>>
    BY <1>1, <2>2 DEF ToSet
  <2>. QED
    BY <2>1, <2>2
<1>5. OneUser'
  BY <1>1, <1>2, <1>3, <1>4 DEF OneUser
<1>6. PoolBounded'
  <2>1. Len(available) \in Nat /\ Len(available') \in Nat
    BY <1>3
  <2>2. Max({InitialSize, MaxSize}) \in Nat
    BY MaxOfTwo
  <2>. QED
    BY <1>3, <2>1, <2>2 DEF PoolBounded
<1>. QED
  BY <1>1, <1>2, <1>3, <1>5, <1>6

(* return_to_pool: no other thread has the object, so the pool may.        *)
LEMMA ReturnKeeps ==
  ASSUME PoolInv, NEW t \in Threads, object[t] \in Objects, Return(t)
  PROVE  /\ PoolInv'
         /\ object'[t] = NoObject /\ text' = text
         /\ \A u \in Threads \ {t} : object'[u] = object[u]
<1>. USE PoolAssumption DEF PoolInv, PoolTypeOK
<1>1. object' = [object EXCEPT ![t] = NoObject] /\ text' = text
  BY DEF Return
<1>2. CASE Len(available) < MaxSize
  <2>1. /\ available' \in Seq(Objects) /\ Len(available') = Len(available) + 1
        /\ DOMAIN available' = 1..(Len(available) + 1) /\ DOMAIN available = 1..Len(available)
        /\ available'[Len(available) + 1] = object[t] /\ Len(available) \in Nat
        /\ \A i \in 1..Len(available) : available'[i] = available[i]
    BY <1>2 DEF Return
  <2>2. ToSet(available') = ToSet(available) \cup {object[t]}
    BY <2>1 DEF ToSet
  <2>3. IsInjective(available')
    BY <2>1 DEF IsInjective, OneUser, ToSet
  <2>4. OneUser'
    BY <1>1, <2>1, <2>2, <2>3 DEF OneUser, ToSet
  <2>5. PoolBounded'
    <3>1. Max({InitialSize, MaxSize}) \in Nat /\ Max({InitialSize, MaxSize}) >= MaxSize
      BY MaxOfTwo
    <3>. QED
      BY <1>2, <2>1, <3>1 DEF PoolBounded
  <2>. QED
    BY <1>1, <2>1, <2>4, <2>5
<1>3. CASE ~(Len(available) < MaxSize)
  <2>1. available' = available
    BY <1>3 DEF Return
  <2>2. OneUser'
    BY <1>1, <2>1 DEF OneUser, ToSet
  <2>. QED
    BY <1>1, <2>1, <2>2 DEF PoolBounded
<1>. QED
  BY <1>2, <1>3

-----------------------------------------------------------------------------
(* The collector. *)

(* Nothing is reported at first.                                           *)
LEMMA InitIInv == Init => IInv
<1>. SUFFICES ASSUME Init PROVE IInv
  OBVIOUS
<1>. USE PoolAssumption, BoundAssumption
<1>1. PoolInv /\ object = [t \in Threads |-> NoObject]
  BY PoolInitInv DEF Init, PoolInit
<1>2. TypeOK
  <2>1. /\ metric \in [Kinds -> Nat] /\ metric["histogram"] <= MaxSamples
        /\ snapshot \in [Readers -> [Kinds -> Nat]] /\ added \in Nat
    BY DEF Init, Nothing, Kinds, Absent
  <2>2. /\ pc \in [Threads -> {"idle", "fast", "take", "write", "drop"}]
        /\ kind \in [Threads -> Kinds]
        /\ begun \in 0..Reports /\ records \in [Threads -> 0..2]
    BY DEF Init, Kinds
  <2>3. /\ position \in [Callers -> 0..3] /\ \A c \in Resetters : position[c] # 3
    BY CallersAssumption DEF Init, Callers
  <2>4. cut \subseteq Readers /\ disturbed \in BOOLEAN
    BY Zenon DEF Init
  <2>. QED
    BY <1>1, <2>1, <2>2, <2>3, <2>4 DEF TypeOK, PoolInv
<1>3. InHand
  BY <1>1 DEF Init, InHand
<1>4. Pending = {}
  BY DEF Init, Pending
<1>5. /\ metric["counter"] = 0 /\ metric["histogram"] = 0 /\ added = 0
      /\ \A t \in Threads : pc[t] = "idle"
      /\ \A c \in Callers : position[c] = 0
  BY DEF Init, Nothing, Kinds, Absent
<1>6. CountersExact /\ ReadingCoherent /\ SnapshotCoherent
  BY <1>5 DEF CountersExact, ReadingCoherent, SnapshotCoherent, Callers, Resetting
<1>7. MetricsCoherent
  BY <1>4, <1>5, FS_EmptySet DEF MetricsCoherent, Absent
<1>. QED
  BY <1>1, <1>2, <1>3, <1>6, <1>7 DEF IInv, PoolInv

(* The new value of a metric that exists or not.                           *)
LEMMA UpdatedValue ==
  ASSUME TypeOK, NEW t \in Threads
  PROVE  /\ Updated(t) \in Nat
         /\ kind[t] = "gauge" => Updated(t) = 1
         /\ kind[t] = "counter" => Updated(t) = metric["counter"] + 1
         /\ kind[t] = "histogram" =>
                /\ Updated(t) <= MaxSamples
                /\ Updated(t) = MaxSamples \/ Updated(t) = metric["histogram"] + 1
<1>1. metric["histogram"] \in Nat /\ metric["counter"] \in Nat /\ MaxSamples \in Nat
  BY BoundAssumption DEF TypeOK, Kinds
<1>2. /\ Min({metric["histogram"] + 1, MaxSamples}) \in {metric["histogram"] + 1, MaxSamples}
      /\ Min({metric["histogram"] + 1, MaxSamples}) <= MaxSamples
  BY <1>1, MinOfTwo
<1>3. CASE kind[t] = "gauge"
  BY <1>3 DEF Updated
<1>4. CASE kind[t] = "counter"
  BY <1>1, <1>4 DEF Updated
<1>5. CASE kind[t] = "histogram"
  BY <1>1, <1>2, <1>5 DEF Updated
<1>. QED
  BY <1>3, <1>4, <1>5 DEF TypeOK, Kinds

(* Where a thread goes after a metric, with its record made if it was one. *)
LEMMA Advanced ==
  ASSUME TypeOK, NEW t \in Threads, Advance(t), records[t] > 0
  PROVE  /\ pc' \in [Threads -> {"idle", "fast", "take", "write", "drop"}]
         /\ kind' \in [Threads -> Kinds] /\ records' \in [Threads -> 0..2]
         /\ \A u \in Threads \ {t} : pc'[u] = pc[u] /\ kind'[u] = kind[u] /\ records'[u] = records[u]
         /\ pc'[t] \in {"idle", "fast", "take"}
         /\ pc'[t] # "idle" => records'[t] > 0
         /\ pc'[t] = "fast" => kind'[t] # "histogram"
         /\ kind[t] = "gauge" => pc'[t] = "fast" /\ kind'[t] = "counter"
         /\ kind[t] = "counter" => pc'[t] = "take" /\ kind'[t] = "histogram"
         /\ kind[t] = "histogram" => pc'[t] \in {"idle", "take"} /\ kind'[t] = "histogram"
<1>. USE DEF TypeOK, Goto, Kinds
<1>1. CASE kind[t] = "gauge"
  BY <1>1 DEF Advance
<1>2. CASE kind[t] = "counter"
  BY <1>2 DEF Advance
<1>3. CASE kind[t] = "histogram"
  <2>1. records[t] \in 1..2 /\ records' = [records EXCEPT ![t] = @ - 1]
    BY <1>3 DEF Advance
  <2>2. /\ pc' = [pc EXCEPT ![t] = IF records[t] = 1 THEN "idle" ELSE "take"]
        /\ kind' = [kind EXCEPT ![t] = "histogram"]
    BY <1>3 DEF Advance
  <2>. QED
    BY <1>3, <2>1, <2>2
<1>. QED
  BY <1>1, <1>2, <1>3

(* Types, the pool, and what each thread has in hand.                      *)
LEMMA HandStep ==
  ASSUME TypeOK, PoolInv, InHand, Next
  PROVE  TypeOK' /\ PoolInv' /\ InHand'
<1>. USE PoolAssumption, BoundAssumption DEF callerVars
<1>. DEFINE OtherTypes ==
       /\ metric' \in [Kinds -> Nat] /\ metric'["histogram"] <= MaxSamples
       /\ snapshot' \in [Readers -> [Kinds -> Nat]] /\ added' \in Nat
       /\ begun' \in 0..Reports
       /\ position' \in [Callers -> 0..3] /\ \A c \in Resetters : position'[c] # 3
       /\ cut' \subseteq Readers /\ disturbed' \in BOOLEAN
<1>1. ASSUME \/ \E c \in Readers : ReadMap(c) \/ Forget(c)
             \/ \E c \in Resetters : ClearMap(c)
      PROVE  TypeOK' /\ PoolInv' /\ InHand'
  <2>1. UNCHANGED <<poolVars, pc, kind, begun, records>>
    BY <1>1 DEF ReadMap, Forget, ClearMap, threadVars
  <2>2. ASSUME NEW c \in Readers, ReadMap(c) PROVE OtherTypes
    <3>1. position[c] \in 0..2 /\ Maps[position[c] + 1] \in Kinds
      BY <2>2 DEF ReadMap, Maps, Kinds, TypeOK, Callers
    <3>2. /\ position' \in [Callers -> 0..3] /\ \A d \in Resetters : position'[d] # 3
      BY <2>2, <3>1, CallersAssumption DEF ReadMap, TypeOK, Callers
    <3>3. snapshot' \in [Readers -> [Kinds -> Nat]]
      BY <2>2, <3>1 DEF ReadMap, TypeOK
    <3>. QED
      BY <2>1, <2>2, <3>2, <3>3 DEF ReadMap, TypeOK
  <2>3. ASSUME NEW c \in Resetters, ClearMap(c) PROVE OtherTypes
    <3>1. position[c] \in 0..2 /\ Maps[position[c] + 1] \in Kinds
      BY <2>3 DEF Maps, Kinds, TypeOK, Callers
    <3>2. metric' = [metric EXCEPT ![Maps[position[c] + 1]] = 0] /\ added' \in {0, added}
      BY <2>3 DEF ClearMap, Absent
    <3>3. /\ position' \in [Callers -> 0..3] /\ \A d \in Resetters : position'[d] # 3
      BY <2>3, <3>1 DEF ClearMap, TypeOK, Callers
    <3>4. disturbed' \in BOOLEAN
      BY <2>3, Zenon DEF ClearMap
    <3>. QED
      BY <2>1, <2>3, <3>1, <3>2, <3>3, <3>4 DEF ClearMap, TypeOK
  <2>4. ASSUME NEW c \in Readers, Forget(c) PROVE OtherTypes
    <3>1. position' \in [Callers -> 0..3] /\ \A d \in Resetters : position'[d] # 3
      BY <2>4, CallersAssumption DEF Forget, TypeOK, Callers
    <3>. QED
      BY <2>1, <2>4, <3>1 DEF Forget, Nothing, Absent, TypeOK
  <2>6. OtherTypes
    BY <1>1, <2>2, <2>3, <2>4
  <2>7. PoolInv'
    BY <2>1 DEF poolVars, PoolInv, PoolTypeOK, OneUser, PoolBounded
  <2>8. InHand'
    BY <2>1 DEF poolVars, InHand
  <2>9. TypeOK'
    BY <2>1, <2>6, <2>7 DEF TypeOK, PoolInv
  <2>. QED
    BY <2>7, <2>8, <2>9
<1>2. ASSUME NEW t \in Threads, BeginReport(t) PROVE TypeOK' /\ PoolInv' /\ InHand'
  <2>1. TypeOK'
    BY <1>2 DEF BeginReport, Goto, TypeOK, Kinds, PoolTypeOK, poolVars
  <2>2. PoolInv'
    BY <1>2 DEF BeginReport, poolVars, PoolInv, PoolTypeOK, OneUser, PoolBounded
  <2>3. InHand'
    BY <1>2 DEF BeginReport, Goto, TypeOK, InHand, poolVars
  <2>. QED
    BY <2>1, <2>2, <2>3
<1>3. ASSUME NEW t \in Threads, FastPath(t) PROVE TypeOK' /\ PoolInv' /\ InHand'
  <2>1. pc[t] = "fast" /\ records[t] > 0 /\ UNCHANGED poolVars
    BY <1>3 DEF FastPath, InHand
  <2>2. PoolInv'
    BY <2>1 DEF poolVars, PoolInv, PoolTypeOK, OneUser, PoolBounded
  <2>3. CASE metric[kind[t]] # Absent
    <3>1. Advance(t) /\ metric' = [metric EXCEPT ![kind[t]] = Updated(t)] /\ added' = Counted(t)
      BY <1>3, <2>3 DEF FastPath
    <3>2. OtherTypes
      BY <1>3, <2>1, <3>1, UpdatedValue DEF FastPath, TypeOK, Counted, Kinds, InHand
    <3>3. TypeOK'
      BY <2>1, <2>2, <3>1, <3>2, Advanced DEF TypeOK, PoolInv
    <3>4. InHand'
      BY <2>1, <3>1, Advanced DEF InHand, poolVars
    <3>. QED
      BY <2>2, <3>3, <3>4
  <2>4. CASE metric[kind[t]] = Absent
    <3>1. Goto(t, "take", kind[t]) /\ UNCHANGED <<metric, added, records, begun, callerVars,
                                                   disturbed>>
      BY <1>3, <2>4 DEF FastPath
    <3>2. TypeOK'
      BY <2>2, <3>1 DEF TypeOK, Goto, Kinds, PoolInv
    <3>3. InHand'
      BY <2>1, <3>1 DEF InHand, Goto, TypeOK, poolVars
    <3>. QED
      BY <2>2, <3>2, <3>3
  <2>. QED
    BY <2>3, <2>4
<1>4. ASSUME NEW t \in Threads, TakeName(t) PROVE TypeOK' /\ PoolInv' /\ InHand'
  <2>1. /\ pc[t] = "take" /\ Get(t, kind[t]) /\ Goto(t, "write", kind[t])
        /\ UNCHANGED <<metric, added, records, begun, callerVars, disturbed>>
    BY <1>4 DEF TakeName
  <2>2. /\ PoolInv'
        /\ object'[t] \in Objects /\ text'[object'[t]] = <<kind[t]>>
        /\ \A u \in Threads \ {t} :
               /\ object'[u] = object[u]
               /\ object[u] \in Objects => text'[object[u]] = text[object[u]]
    BY <2>1, GetKeeps
  <2>3. TypeOK'
    BY <2>1, <2>2 DEF TypeOK, Goto, Kinds, PoolInv
  <2>4. InHand'
    BY <2>1, <2>2 DEF InHand, Goto, TypeOK
  <2>. QED
    BY <2>2, <2>3, <2>4
<1>5. ASSUME NEW t \in Threads, WriteEntry(t) PROVE TypeOK' /\ PoolInv' /\ InHand'
  <2>1. /\ pc[t] = "write" /\ added' = Counted(t) /\ Goto(t, "drop", kind[t])
        /\ metric' = [metric EXCEPT ![kind[t]] = Updated(t)]
        /\ UNCHANGED <<poolVars, records, begun, callerVars, disturbed>>
    BY <1>5 DEF WriteEntry, InHand
  <2>2. PoolInv'
    BY <2>1 DEF poolVars, PoolInv, PoolTypeOK, OneUser, PoolBounded
  <2>3. OtherTypes
    BY <2>1, UpdatedValue DEF TypeOK, Counted, Kinds
  <2>4. TypeOK'
    BY <2>1, <2>2, <2>3 DEF TypeOK, Goto, PoolInv
  <2>5. InHand'
    BY <2>1 DEF InHand, Goto, TypeOK, poolVars
  <2>. QED
    BY <2>2, <2>4, <2>5
<1>6. ASSUME NEW t \in Threads, DropName(t) PROVE TypeOK' /\ PoolInv' /\ InHand'
  <2>1. /\ pc[t] = "drop" /\ records[t] > 0 /\ object[t] \in Objects
        /\ Return(t) /\ Advance(t)
        /\ UNCHANGED <<metric, added, begun, callerVars, disturbed>>
    BY <1>6 DEF DropName, InHand
  <2>2. /\ PoolInv' /\ object'[t] = NoObject /\ text' = text
        /\ \A u \in Threads \ {t} : object'[u] = object[u]
    BY <2>1, ReturnKeeps
  <2>3. TypeOK'
    BY <2>1, <2>2, Advanced DEF TypeOK, PoolInv
  <2>4. InHand'
    BY <2>1, <2>2, Advanced DEF InHand
  <2>. QED
    BY <2>2, <2>3, <2>4
<1>. QED
  BY <1>1, <1>2, <1>3, <1>4, <1>5, <1>6 DEF Next, Report

-----------------------------------------------------------------------------
(* A step of one thread makes it pending, or not, and no other.            *)
LEMMA PendingCount ==
  ASSUME NEW t \in Threads, \A u \in Threads \ {t} : pc'[u] = pc[u] /\ kind'[u] = kind[u]
  PROVE  /\ Cardinality(Pending) \in Nat /\ Cardinality(Pending') \in Nat
         /\ (t \in Pending <=> t \in Pending') => Cardinality(Pending') = Cardinality(Pending)
         /\ t \notin Pending /\ t \in Pending' => Cardinality(Pending') = Cardinality(Pending) + 1
         /\ t \in Pending /\ t \notin Pending' => Cardinality(Pending') = Cardinality(Pending) - 1
<1>1. Pending \subseteq Threads /\ Pending' \subseteq Threads
  BY DEF Pending
<1>2. IsFiniteSet(Pending) /\ IsFiniteSet(Pending')
  BY <1>1, FS_Subset, PoolAssumption
<1>3. \A u \in Threads \ {t} : u \in Pending <=> u \in Pending'
  BY DEF Pending
<1>4. Cardinality(Pending) \in Nat /\ Cardinality(Pending') \in Nat
  BY <1>2, FS_CardinalityType
<1>5. CASE t \in Pending <=> t \in Pending'
  <2>1. Pending' = Pending
    BY <1>1, <1>3, <1>5
  <2>. QED
    BY <1>4, <1>5, <2>1
<1>6. CASE t \notin Pending /\ t \in Pending'
  <2>1. Pending' = Pending \cup {t}
    BY <1>1, <1>3, <1>6
  <2>. QED
    BY <1>2, <1>4, <1>6, <2>1, FS_AddElement
<1>7. CASE t \in Pending /\ t \notin Pending'
  <2>1. Pending' = Pending \ {t}
    BY <1>1, <1>3, <1>7
  <2>. QED
    BY <1>2, <1>4, <1>7, <2>1, FS_RemoveElement
<1>. QED
  BY <1>5, <1>6, <1>7

(* At most all threads are pending.                                        *)
LEMMA PendingBound ==
  /\ Cardinality(Pending) \in Nat /\ Cardinality(Threads) \in Nat
  /\ Cardinality(Pending) <= Cardinality(Threads)
<1>1. Pending \subseteq Threads
  BY DEF Pending
<1>. QED
  BY <1>1, FS_Subset, FS_CardinalityType, PoolAssumption

(* Counters are exact because the fast path adds to a counter that exists, *)
(* and the slow path looks for it again.                                   *)
LEMMA ExactStep ==
  ASSUME TypeOK, InHand, CountersExact, Next
  PROVE  CountersExact'
<1>. USE DEF CountersExact
<1>0. ASSUME NEW c \in Resetters, ClearMap(c) PROVE CountersExact'
  <2>1. position[c] \in 0..2
    BY DEF TypeOK, Callers
  <2>. QED
    BY <1>0, <2>1 DEF ClearMap, Maps, TypeOK, Kinds, Absent
<1>1. ASSUME NEW c \in Readers, ReadMap(c) \/ Forget(c) PROVE CountersExact'
  BY <1>1 DEF ReadMap, Forget
<1>2. ASSUME NEW t \in Threads, BeginReport(t) \/ TakeName(t) \/ DropName(t) PROVE CountersExact'
  BY <1>2 DEF BeginReport, TakeName, DropName
<1>3. ASSUME NEW t \in Threads, metric' = [metric EXCEPT ![kind[t]] = Updated(t)], added' = Counted(t)
      PROVE  CountersExact'
  BY <1>3, UpdatedValue DEF TypeOK, Kinds, Counted
<1>4. ASSUME NEW t \in Threads, FastPath(t) PROVE CountersExact'
  BY <1>3, <1>4 DEF FastPath
<1>5. ASSUME NEW t \in Threads, WriteEntry(t) PROVE CountersExact'
  BY <1>3, <1>5 DEF WriteEntry, InHand
<1>. QED
  BY <1>0, <1>1, <1>2, <1>4, <1>5 DEF Next, Report

(* A reset or a report may disturb, and nothing takes that back.           *)
LEMMA Undisturbed ==
  ASSUME Next, ~disturbed'
  PROVE  ~disturbed
BY Zenon
   DEF Next, ReadMap, ClearMap, Forget, Report, BeginReport, FastPath, TakeName, WriteEntry,
       DropName

(* A thread that counts has set its gauge before, and is pending until it  *)
(* has made its record; an undisturbed reset meets no report.              *)
LEMMA CoherentStep ==
  ASSUME TypeOK, InHand, MetricsCoherent, ReadingCoherent, Next
  PROVE  MetricsCoherent'
<1>. SUFFICES ASSUME ~disturbed' PROVE MetricsCoherent'
  BY DEF MetricsCoherent
<1>1. ~disturbed
  BY Undisturbed
<1>2. /\ \A t \in Threads :
             pc[t] # "idle" /\ (kind[t] # "gauge" \/ pc[t] = "drop") => metric["gauge"] # Absent
      /\ metric["counter"] # Absent => metric["gauge"] # Absent
      /\ \/ metric["histogram"] = MaxSamples
         \/ metric["histogram"] + Cardinality(Pending) >= metric["counter"]
  BY <1>1 DEF MetricsCoherent
<1>3. metric["gauge"] \in Nat /\ metric["counter"] \in Nat /\ metric["histogram"] \in Nat
  BY DEF TypeOK, Kinds
<1>4. ASSUME UNCHANGED <<metric, pc, kind>> PROVE MetricsCoherent'
  <2>1. Pending' = Pending
    BY <1>4 DEF Pending
  <2>. QED
    BY <1>2, <1>4, <2>1 DEF MetricsCoherent
<1>5. ASSUME NEW c \in Resetters, ClearMap(c) PROVE MetricsCoherent'
  <2>1. \A t \in Threads : pc[t] = "idle"
    BY <1>5 DEF ClearMap, Idle
  <2>2. UNCHANGED <<pc, kind>> /\ position[c] \in 0..2
    BY <1>5 DEF ClearMap, threadVars, TypeOK, Callers
  <2>3. metric'["counter"] = 0
    BY <1>1, <1>5, <2>2
       DEF ClearMap, ReadingCoherent, Resetting, Maps, TypeOK, Kinds, Absent
  <2>4. metric'["histogram"] \in Nat
    BY <1>5, <2>2 DEF ClearMap, Maps, TypeOK, Kinds, Absent
  <2>5. Pending' = {}
    BY <2>1, <2>2 DEF Pending
  <2>. QED
    BY <2>1, <2>2, <2>3, <2>4, <2>5, FS_EmptySet DEF MetricsCoherent, Absent
<1>6. ASSUME NEW c \in Readers, ReadMap(c) \/ Forget(c) PROVE MetricsCoherent'
  BY <1>4, <1>6 DEF ReadMap, Forget, threadVars
<1>7. ASSUME NEW t \in Threads, BeginReport(t) PROVE MetricsCoherent'
  <2>1. /\ pc[t] = "idle" /\ pc'[t] = "fast" /\ kind'[t] = "gauge" /\ metric' = metric
        /\ \A u \in Threads \ {t} : pc'[u] = pc[u] /\ kind'[u] = kind[u]
    BY <1>7 DEF BeginReport, Goto, TypeOK
  <2>2. Cardinality(Pending') = Cardinality(Pending)
    BY <2>1, PendingCount DEF Pending
  <2>. QED
    BY <1>2, <2>1, <2>2 DEF MetricsCoherent
<1>8. ASSUME NEW t \in Threads, FastPath(t) PROVE MetricsCoherent'
  <2>1. CASE metric[kind[t]] # Absent
    <3>1. /\ pc[t] = "fast" /\ kind[t] \in {"gauge", "counter"}
          /\ metric' = [metric EXCEPT ![kind[t]] = Updated(t)]
          /\ Advance(t) /\ records[t] > 0
      BY <1>8, <2>1 DEF FastPath, InHand, TypeOK, Kinds
    <3>2. \A u \in Threads \ {t} : pc'[u] = pc[u] /\ kind'[u] = kind[u]
      BY <3>1, Advanced
    <3>3. CASE kind[t] = "gauge"
      <4>1. pc'[t] = "fast" /\ kind'[t] = "counter"
        BY <3>1, <3>3, Advanced
      <4>2. /\ metric'["gauge"] = 1 /\ metric'["counter"] = metric["counter"]
            /\ metric'["histogram"] = metric["histogram"]
        BY <3>1, <3>3, UpdatedValue DEF TypeOK, Kinds
      <4>3. Cardinality(Pending') = Cardinality(Pending)
        BY <3>1, <3>2, <3>3, <4>1, PendingCount DEF Pending
      <4>. QED
        BY <1>2, <4>2, <4>3 DEF MetricsCoherent, Absent
    <3>4. CASE kind[t] = "counter"
      <4>1. pc'[t] = "take" /\ kind'[t] = "histogram"
        BY <3>1, <3>4, Advanced
      <4>2. /\ metric'["gauge"] = metric["gauge"] /\ metric'["counter"] = metric["counter"] + 1
            /\ metric'["histogram"] = metric["histogram"]
        BY <3>1, <3>4, UpdatedValue DEF TypeOK, Kinds
      <4>3. /\ Cardinality(Pending') = Cardinality(Pending) + 1 /\ Cardinality(Pending) \in Nat
        BY <3>1, <3>2, <3>4, <4>1, PendingCount DEF Pending
      <4>4. metric["gauge"] # Absent
        BY <1>2, <3>1, <3>4
      <4>. QED
        BY <1>2, <1>3, <4>2, <4>3, <4>4 DEF MetricsCoherent
    <3>. QED
      BY <3>1, <3>3, <3>4
  <2>2. CASE metric[kind[t]] = Absent
    <3>1. /\ pc[t] = "fast" /\ kind[t] \in {"gauge", "counter"} /\ metric' = metric
          /\ pc'[t] = "take" /\ kind'[t] = kind[t]
          /\ \A u \in Threads \ {t} : pc'[u] = pc[u] /\ kind'[u] = kind[u]
      BY <1>8, <2>2 DEF FastPath, Goto, InHand, TypeOK, Kinds
    <3>2. Cardinality(Pending') = Cardinality(Pending)
      BY <3>1, PendingCount DEF Pending
    <3>. QED
      BY <1>2, <3>1, <3>2 DEF MetricsCoherent
  <2>. QED
    BY <2>1, <2>2
<1>9. ASSUME NEW t \in Threads, TakeName(t) PROVE MetricsCoherent'
  <2>1. /\ pc[t] = "take" /\ pc'[t] = "write" /\ kind'[t] = kind[t] /\ metric' = metric
        /\ \A u \in Threads \ {t} : pc'[u] = pc[u] /\ kind'[u] = kind[u]
    BY <1>9 DEF TakeName, Goto, TypeOK
  <2>2. Cardinality(Pending') = Cardinality(Pending)
    BY <2>1, PendingCount DEF Pending
  <2>. QED
    BY <1>2, <2>1, <2>2 DEF MetricsCoherent
<1>10. ASSUME NEW t \in Threads, WriteEntry(t) PROVE MetricsCoherent'
  <2>1. /\ pc[t] = "write" /\ pc'[t] = "drop" /\ kind'[t] = kind[t]
        /\ metric' = [metric EXCEPT ![kind[t]] = Updated(t)]
        /\ \A u \in Threads \ {t} : pc'[u] = pc[u] /\ kind'[u] = kind[u]
    BY <1>10 DEF WriteEntry, Goto, InHand, TypeOK
  <2>2. CASE kind[t] = "gauge"
    <3>1. /\ metric'["gauge"] = 1 /\ metric'["counter"] = metric["counter"]
          /\ metric'["histogram"] = metric["histogram"]
      BY <2>1, <2>2, UpdatedValue DEF TypeOK, Kinds
    <3>2. Cardinality(Pending') = Cardinality(Pending)
      BY <2>1, <2>2, PendingCount DEF Pending
    <3>. QED
      BY <1>2, <3>1, <3>2 DEF MetricsCoherent, Absent
  <2>3. CASE kind[t] = "counter"
    <3>1. /\ metric'["gauge"] = metric["gauge"] /\ metric'["counter"] = metric["counter"] + 1
          /\ metric'["histogram"] = metric["histogram"]
      BY <2>1, <2>3, UpdatedValue DEF TypeOK, Kinds
    <3>2. Cardinality(Pending') = Cardinality(Pending) + 1 /\ Cardinality(Pending) \in Nat
      BY <2>1, <2>3, PendingCount DEF Pending
    <3>3. metric["gauge"] # Absent
      BY <1>2, <2>1, <2>3
    <3>. QED
      BY <1>2, <1>3, <3>1, <3>2, <3>3 DEF MetricsCoherent
  <2>4. CASE kind[t] = "histogram"
    <3>1. /\ metric'["gauge"] = metric["gauge"] /\ metric'["counter"] = metric["counter"]
          /\ metric'["histogram"] = MaxSamples \/ metric'["histogram"] = metric["histogram"] + 1
          /\ metric["histogram"] = MaxSamples => metric'["histogram"] = MaxSamples
      BY <1>3, <2>1, <2>4, UpdatedValue, BoundAssumption DEF TypeOK, Kinds
    <3>2. /\ Cardinality(Pending') = Cardinality(Pending) - 1
          /\ Cardinality(Pending) \in Nat /\ Cardinality(Pending') \in Nat
      BY <2>1, <2>4, PendingCount DEF Pending
    <3>3. \/ metric'["histogram"] = MaxSamples
          \/ metric'["histogram"] + Cardinality(Pending') >= metric'["counter"]
      BY <1>2, <1>3, <3>1, <3>2
    <3>4. metric["gauge"] # Absent
      BY <1>2, <2>1, <2>4
    <3>. QED
      BY <3>1, <3>3, <3>4 DEF MetricsCoherent
  <2>. QED
    BY <2>2, <2>3, <2>4 DEF TypeOK, Kinds
<1>11. ASSUME NEW t \in Threads, DropName(t) PROVE MetricsCoherent'
  <2>1. pc[t] = "drop" /\ records[t] > 0 /\ Advance(t) /\ metric' = metric
    BY <1>11 DEF DropName, InHand
  <2>2. metric["gauge"] # Absent
    BY <1>2, <2>1
  <2>3. Cardinality(Pending') >= Cardinality(Pending) /\ Cardinality(Pending) \in Nat
            /\ Cardinality(Pending') \in Nat
    BY <2>1, Advanced, PendingCount DEF Pending, TypeOK, Kinds
  <2>. QED
    BY <1>2, <1>3, <2>1, <2>2, <2>3 DEF MetricsCoherent
<1>. QED
  BY <1>5, <1>6, <1>7, <1>8, <1>9, <1>10, <1>11 DEF Next, Report

(* While a snapshot is taken that no reset cuts, the counter only grows, so  *)
(* what was collected of it is not more than there is.                      *)
LEMMA ReaderStep ==
  ASSUME TypeOK, InHand, MetricsCoherent, ReadingCoherent, SnapshotCoherent, Next
  PROVE  ReadingCoherent' /\ SnapshotCoherent'
<1>. SUFFICES ASSUME ~disturbed' PROVE ReadingCoherent' /\ SnapshotCoherent'
  BY DEF ReadingCoherent, SnapshotCoherent
<1>. USE CallersAssumption DEF Callers
<1>1. ~disturbed
  BY Undisturbed
<1>2. /\ \A c \in Readers \ cut :
             /\ position[c] \in {1, 2} => snapshot[c]["counter"] <= metric["counter"]
             /\ position[c] = 2 =>
                    (snapshot[c]["counter"] # Absent => snapshot[c]["gauge"] # Absent)
      /\ Resetting => Idle /\ metric["counter"] = Absent
  BY <1>1 DEF ReadingCoherent
<1>3. ASSUME NEW c \in Readers, ReadMap(c) PROVE ReadingCoherent' /\ SnapshotCoherent'
  <2>1. /\ position[c] \in 0..2 /\ position' = [position EXCEPT ![c] = @ + 1]
        /\ snapshot' = [snapshot EXCEPT ![c][Maps[position[c] + 1]] = metric[Maps[position[c] + 1]]]
        /\ cut' = IF position[c] = 0 THEN cut \ {c} ELSE cut
        /\ UNCHANGED <<metric, pc>>
    BY <1>3 DEF ReadMap, threadVars, TypeOK
  <2>2. \A d \in Readers \ {c} :
            /\ position'[d] = position[d] /\ snapshot'[d] = snapshot[d]
            /\ d \in cut' <=> d \in cut
    BY <2>1 DEF TypeOK
  <2>3. Resetting' => Resetting
    BY <2>1 DEF Resetting, TypeOK
  <2>4. Idle' <=> Idle
    BY <2>1 DEF Idle
  <2>5. position'[c] = position[c] + 1
    BY <2>1 DEF TypeOK
  <2>6. CASE position[c] = 0
    <3>1. snapshot'[c]["counter"] = metric["counter"] /\ metric["counter"] \in Nat
      BY <2>1, <2>6 DEF Maps, TypeOK, Kinds
    <3>2. ReadingCoherent'
      BY <1>2, <2>1, <2>2, <2>3, <2>4, <2>5, <2>6, <3>1 DEF ReadingCoherent
    <3>3. SnapshotCoherent'
      BY <1>1, <2>2, <2>5, <2>6 DEF SnapshotCoherent
    <3>. QED
      BY <3>2, <3>3
  <2>7. CASE position[c] = 1
    <3>1. /\ snapshot'[c]["counter"] = snapshot[c]["counter"]
          /\ snapshot'[c]["gauge"] = metric["gauge"]
      BY <2>1, <2>7 DEF Maps, TypeOK, Kinds
    <3>2. c \notin cut => snapshot[c]["counter"] <= metric["counter"]
      BY <1>2, <2>7
    <3>3. c \notin cut => (snapshot[c]["counter"] # Absent => metric["gauge"] # Absent)
      BY <1>1, <3>2 DEF MetricsCoherent, TypeOK, Kinds, Absent
    <3>4. ReadingCoherent'
      BY <1>2, <2>1, <2>2, <2>3, <2>4, <2>5, <2>7, <3>1, <3>2, <3>3 DEF ReadingCoherent
    <3>5. SnapshotCoherent'
      BY <1>1, <2>2, <2>5, <2>7 DEF SnapshotCoherent
    <3>. QED
      BY <3>4, <3>5
  <2>8. CASE position[c] = 2
    <3>1. /\ snapshot'[c]["counter"] = snapshot[c]["counter"]
          /\ snapshot'[c]["gauge"] = snapshot[c]["gauge"]
          /\ snapshot'[c]["histogram"] = metric["histogram"]
      BY <2>1, <2>8 DEF Maps, TypeOK, Kinds
    <3>2. /\ metric["histogram"] \in Nat /\ metric["counter"] \in Nat
          /\ snapshot[c]["counter"] \in Nat
      BY DEF TypeOK, Kinds
    <3>3. \/ metric["histogram"] = MaxSamples
          \/ metric["histogram"] + Cardinality(Pending) >= metric["counter"]
      BY <1>1 DEF MetricsCoherent
    <3>4. c \notin cut =>
              /\ snapshot[c]["counter"] <= metric["counter"]
              /\ snapshot[c]["counter"] # Absent => snapshot[c]["gauge"] # Absent
      BY <1>2, <2>8
    <3>5. c \notin cut =>
              \/ metric["histogram"] = MaxSamples
              \/ metric["histogram"] + Cardinality(Threads) >= snapshot[c]["counter"]
      BY <3>2, <3>3, <3>4, PendingBound
    <3>6. ReadingCoherent'
      BY <1>2, <2>1, <2>2, <2>3, <2>4, <2>5, <2>8 DEF ReadingCoherent
    <3>7. SnapshotCoherent'
      BY <1>1, <2>1, <2>2, <2>5, <2>8, <3>1, <3>4, <3>5 DEF SnapshotCoherent
    <3>. QED
      BY <3>6, <3>7
  <2>. QED
    BY <2>1, <2>6, <2>7, <2>8
<1>4. ASSUME NEW c \in Readers, Forget(c) PROVE ReadingCoherent' /\ SnapshotCoherent'
  <2>1. /\ position' = [position EXCEPT ![c] = 0]
        /\ \A d \in Readers \ {c} : snapshot'[d] = snapshot[d]
        /\ UNCHANGED <<metric, pc, cut>>
    BY <1>4 DEF Forget, threadVars, TypeOK
  <2>2. (Resetting' => Resetting) /\ (Idle' <=> Idle)
    BY <2>1 DEF Resetting, Idle, TypeOK
  <2>3. ReadingCoherent'
    BY <1>2, <2>1, <2>2 DEF ReadingCoherent, TypeOK
  <2>4. SnapshotCoherent'
    BY <1>1, <2>1 DEF SnapshotCoherent, TypeOK
  <2>. QED
    BY <2>3, <2>4
<1>5. ASSUME NEW c \in Resetters, ClearMap(c) PROVE ReadingCoherent' /\ SnapshotCoherent'
  <2>1. /\ position[c] \in 0..2 /\ UNCHANGED <<pc, snapshot>>
        /\ metric' = [metric EXCEPT ![Maps[position[c] + 1]] = Absent]
        /\ cut' = cut \cup {r \in Readers : position[r] \in {1, 2}}
    BY <1>5 DEF ClearMap, threadVars, TypeOK
  <2>2. \A d \in Readers : position'[d] = position[d]
    BY <1>5 DEF ClearMap, TypeOK
  <2>3. Idle'
    BY <1>5, <2>1 DEF ClearMap, Idle
  <2>4. metric'["counter"] = Absent
    BY <1>2, <2>1 DEF Resetting, Maps, TypeOK, Kinds
  <2>5. ReadingCoherent'
    BY <2>1, <2>2, <2>3, <2>4 DEF ReadingCoherent
  <2>6. SnapshotCoherent'
    BY <1>1, <2>1, <2>2 DEF SnapshotCoherent
  <2>. QED
    BY <2>5, <2>6
<1>7. ASSUME NEW t \in Threads, Report(t) PROVE ReadingCoherent' /\ SnapshotCoherent'
  <2>1. UNCHANGED <<position, snapshot, cut>>
    BY <1>7 DEF Report, BeginReport, FastPath, TakeName, WriteEntry, DropName, callerVars
  <2>2. ~Resetting
    <3>1. CASE BeginReport(t)
      BY <3>1 DEF BeginReport
    <3>2. CASE ~BeginReport(t)
      <4>1. pc[t] # "idle"
        BY <1>7, <3>2 DEF Report, FastPath, TakeName, WriteEntry, DropName
      <4>. QED
        BY <1>2, <4>1 DEF Idle
    <3>. QED
      BY <3>1, <3>2
  <2>3. metric["counter"] <= metric'["counter"] /\ metric["counter"] \in Nat /\ metric'["counter"] \in Nat
    <3>1. metric["counter"] \in Nat
      BY DEF TypeOK, Kinds
    <3>2. metric' = metric \/ metric' = [metric EXCEPT ![kind[t]] = Updated(t)]
      BY <1>7 DEF Report, BeginReport, FastPath, TakeName, WriteEntry, DropName
    <3>. QED
      BY <3>1, <3>2, UpdatedValue DEF TypeOK, Kinds
  <2>4. SnapshotCoherent'
    BY <1>1, <2>1 DEF SnapshotCoherent
  <2>5. ~Resetting'
    BY <2>1, <2>2 DEF Resetting
  <2>6. \A c \in Readers : snapshot[c]["counter"] \in Nat
    BY DEF TypeOK, Kinds
  <2>7. ReadingCoherent'
    BY <1>2, <2>1, <2>3, <2>5, <2>6 DEF ReadingCoherent
  <2>. QED
    BY <2>4, <2>7
<1>. QED
  BY <1>3, <1>4, <1>5, <1>7 DEF Next

(* The parts together, and stuttering.                                     *)
LEMMA NextIInv == IInv /\ [Next]_vars => IInv'
<1>. SUFFICES ASSUME IInv, [Next]_vars PROVE IInv'
  OBVIOUS
<1>1. CASE Next
  <2>1. PoolInv
    BY DEF IInv, TypeOK, PoolInv
  <2>2. TypeOK' /\ PoolInv' /\ InHand'
    BY <1>1, <2>1, HandStep DEF IInv
  <2>3. CountersExact' /\ MetricsCoherent' /\ ReadingCoherent' /\ SnapshotCoherent'
    BY <1>1, ExactStep, CoherentStep, ReaderStep DEF IInv
  <2>. QED
    BY <2>2, <2>3 DEF IInv, PoolInv
<1>2. CASE UNCHANGED vars
  <2>. USE <1>2 DEF vars, metricVars, callerVars, poolVars, IInv
  <2>1. TypeOK' /\ OneUser' /\ PoolBounded'
    BY DEF TypeOK, PoolTypeOK, OneUser, PoolBounded
  <2>2. InHand' /\ CountersExact'
    BY DEF InHand, CountersExact
  <2>3. MetricsCoherent'
    BY DEF MetricsCoherent, Pending
  <2>4. ReadingCoherent' /\ SnapshotCoherent'
    BY DEF ReadingCoherent, SnapshotCoherent, Resetting, Idle
  <2>. QED
    BY <2>1, <2>2, <2>3, <2>4
<1>. QED
  BY <1>1, <1>2

-----------------------------------------------------------------------------
(* The inductive invariant of the collector.                               *)
THEOREM Invariance == Spec => []IInv
BY InitIInv, NextIInv, PTL DEF Spec

(* A pooled string has one user, and the pool keeps its bound.             *)
THEOREM PooledOnce == Spec => [](OneUser /\ PoolBounded)
<1>1. IInv => OneUser /\ PoolBounded
  BY DEF IInv
<1>. QED
  BY <1>1, Invariance, PTL

(* No increment of a counter is lost or goes to another metric.            *)
THEOREM NoIncrementLost == Spec => []CountersExact
<1>1. IInv => CountersExact
  BY DEF IInv
<1>. QED
  BY <1>1, Invariance, PTL

(* A snapshot taken map by map fits together, however many callers take    *)
(* snapshots and reset at once, unless a reset has met a report or has     *)
(* cleared a map between the snapshot's first and last.                    *)
THEOREM SnapshotsFit == Spec => []SnapshotCoherent
<1>1. IInv => SnapshotCoherent
  BY DEF IInv
<1>. QED
  BY <1>1, Invariance, PTL

=============================================================================
