------------------------------ MODULE Metrics ------------------------------
(***************************************************************************)
(* MetricsCollector of src/src/metrics.rs, with the string pool its slow   *)
(* paths take metric names from: threads that report as ResourceTracker    *)
(* does (a gauge, a counter, a histogram, in this order), callers of       *)
(* get_metrics and callers of reset, all at once.                          *)
(*                                                                         *)
(* A metric that exists is updated under the read lock (fast path); one    *)
(* that does not is looked for again under the write lock, after its name  *)
(* was put into a pooled string.  get_metrics and reset go through the     *)
(* three maps one lock after the other.  One metric per map, named for it. *)
(***************************************************************************)
EXTENDS ObjectPool

CONSTANTS
    MaxSamples,     \* max_histogram_samples
    Readers,        \* callers of get_metrics
    Resetters,      \* callers of reset; a thread that calls both is one of each
    Reports         \* bound on the reports

Callers == Readers \cup Resetters

ASSUME BoundAssumption == MaxSamples \in Nat \ {0} /\ Reports \in Nat
ASSUME CallersAssumption == Readers \cap Resetters = {}

VARIABLES
    metric,     \* the value of each metric (a histogram's length), or Absent
    pc, kind,   \* what each thread does next, and for which metric
    begun,      \* number of reports begun
    records,    \* histogram records still to be made by each thread's timer
    position,   \* the maps each caller has been through; 0 outside its call
    snapshot,   \* what each reader has collected
    added,      \* history: increments since the counters were cleared
    cut,        \* history: readers between whose first and last map a reset cleared one
    disturbed   \* history: some reset has overlapped a report

callerVars == <<position, snapshot, cut>>
metricVars == <<metric, pc, kind, begun, records, callerVars, added, disturbed>>
vars == <<poolVars, metricVars>>

Kinds  == {"gauge", "counter", "histogram"}
Maps   == <<"counter", "gauge", "histogram">>   \* in the order of reading
Absent == 0     \* no metric: counters and histograms begin with a record, and
                \* of a gauge only its existence is kept

TypeOK ==
    /\ PoolTypeOK
    /\ metric \in [Kinds -> Nat] /\ metric["histogram"] <= MaxSamples
    /\ snapshot \in [Readers -> [Kinds -> Nat]] /\ added \in Nat
    /\ pc \in [Threads -> {"idle", "fast", "take", "write", "drop"}]
    /\ kind \in [Threads -> Kinds]
    /\ begun \in 0..Reports /\ records \in [Threads -> 0..2]
    /\ position \in [Callers -> 0..3] /\ \A c \in Resetters : position[c] # 3
    /\ cut \subseteq Readers
    /\ disturbed \in BOOLEAN

Nothing == [k \in Kinds |-> Absent]

(* MetricsCollector::new *)
Init ==
    /\ PoolInit
    /\ metric = Nothing /\ added = 0
    /\ pc = [t \in Threads |-> "idle"] /\ kind = [t \in Threads |-> "gauge"]
    /\ begun = 0 /\ records = [t \in Threads |-> 0]
    /\ position = [c \in Callers |-> 0] /\ snapshot = [c \in Readers |-> Nothing]
    /\ cut = {} /\ disturbed = FALSE

Idle      == \A t \in Threads : pc[t] = "idle"
Resetting == \E c \in Resetters : position[c] # 0

-----------------------------------------------------------------------------
(* Reports. *)

Goto(t, step, k) ==
    /\ pc' = [pc EXCEPT ![t] = step]
    /\ kind' = [kind EXCEPT ![t] = k]

(* A report begins; its histogram record is a single one, or the two of
   Timer::stop, which records and then drops the timer, which records. *)
BeginReport(t) ==
    /\ pc[t] = "idle" /\ begun < Reports
    /\ begun' = begun + 1
    /\ \E n \in {1, 2} : records' = [records EXCEPT ![t] = n]
    /\ Goto(t, "fast", "gauge")
    /\ disturbed' = (disturbed \/ Resetting)
    /\ UNCHANGED <<poolVars, metric, callerVars, added>>

(* After the gauge comes the counter, then the histogram, which has no fast path. *)
Advance(t) ==
    \/ kind[t] = "gauge" /\ Goto(t, "fast", "counter") /\ UNCHANGED records
    \/ kind[t] = "counter" /\ Goto(t, "take", "histogram") /\ UNCHANGED records
    \/ /\ kind[t] = "histogram"
       /\ records' = [records EXCEPT ![t] = @ - 1]
       /\ Goto(t, IF records[t] = 1 THEN "idle" ELSE "take", "histogram")

(* The new value: set, add, or push_back (after pop_front at the limit). *)
Updated(t) ==
    CASE kind[t] = "gauge"     -> 1
      [] kind[t] = "counter"   -> metric["counter"] + 1
      [] kind[t] = "histogram" -> Min({metric["histogram"] + 1, MaxSamples})

Counted(t) == IF kind[t] = "counter" THEN added + 1 ELSE added

(* The read lock: the metric is updated in place if it exists. *)
FastPath(t) ==
    /\ pc[t] = "fast"
    /\ IF metric[kind[t]] # Absent
       THEN /\ metric' = [metric EXCEPT ![kind[t]] = Updated(t)]
            /\ added' = Counted(t)
            /\ Advance(t)
       ELSE /\ Goto(t, "take", kind[t])
            /\ UNCHANGED <<metric, added, records>>
    /\ UNCHANGED <<poolVars, begun, callerVars, disturbed>>

(* string_pool.get_with_value(name) *)
TakeName(t) ==
    /\ pc[t] = "take"
    /\ Get(t, kind[t])
    /\ Goto(t, "write", kind[t])
    /\ UNCHANGED <<metric, begun, records, callerVars, added, disturbed>>

(* faulty: the entry is inserted, not looked for again *)
WriteFresh(t) ==
    /\ pc[t] = "write"
    /\ metric' = [metric EXCEPT ![kind[t]] = 1]
    /\ added' = Counted(t)
    /\ Goto(t, "drop", kind[t])
    /\ UNCHANGED <<poolVars, begun, records, callerVars, disturbed>>

(* The write lock: entry(name).or_insert, under the name in the pooled string. *)
WriteEntry(t) ==
    /\ pc[t] = "write"
    /\ metric' = IF text[object[t]] = <<kind[t]>>
                 THEN [metric EXCEPT ![kind[t]] = Updated(t)] ELSE metric
    /\ added' = Counted(t)
    /\ Goto(t, "drop", kind[t])
    /\ UNCHANGED <<poolVars, begun, records, callerVars, disturbed>>

(* The pooled string is dropped. *)
DropName(t) ==
    /\ pc[t] = "drop"
    /\ Return(t)
    /\ Advance(t)
    /\ UNCHANGED <<metric, begun, callerVars, added, disturbed>>

Report(t) == BeginReport(t) \/ FastPath(t) \/ TakeName(t) \/ WriteEntry(t) \/ DropName(t)

-----------------------------------------------------------------------------
(* get_metrics and reset: counters, gauges, histograms. *)

threadVars == <<pc, kind, begun, records>>

(* faulty: histograms are read first *)
ReadMapBackwards(c) ==
    LET k == Maps[3 - position[c]] IN
    /\ position[c] < 3
    /\ snapshot' = [snapshot EXCEPT ![c][k] = metric[k]]
    /\ cut' = IF position[c] = 0 THEN cut \ {c} ELSE cut
    /\ position' = [position EXCEPT ![c] = @ + 1]
    /\ UNCHANGED <<poolVars, metric, threadVars, added, disturbed>>

ReadMap(c) ==
    LET k == Maps[position[c] + 1] IN
    /\ position[c] < 3
    /\ snapshot' = [snapshot EXCEPT ![c][k] = metric[k]]
    /\ cut' = IF position[c] = 0 THEN cut \ {c} ELSE cut
    /\ position' = [position EXCEPT ![c] = @ + 1]
    /\ UNCHANGED <<poolVars, metric, threadVars, added, disturbed>>

(* The call returns, and its caller is done with what it got. *)
Forget(c) ==
    /\ position[c] = 3
    /\ position' = [position EXCEPT ![c] = 0]
    /\ snapshot' = [snapshot EXCEPT ![c] = Nothing]
    /\ UNCHANGED <<poolVars, metric, threadVars, cut, added, disturbed>>

ClearMap(c) ==
    LET k == Maps[position[c] + 1] IN
    /\ metric' = [metric EXCEPT ![k] = Absent]
    /\ added' = IF k = "counter" THEN 0 ELSE added
    /\ cut' = cut \cup {r \in Readers : position[r] \in {1, 2}}
    /\ disturbed' = (disturbed \/ ~Idle)
    /\ position' = [position EXCEPT ![c] = IF @ = 2 THEN 0 ELSE @ + 1]
    /\ UNCHANGED <<poolVars, threadVars, snapshot>>

Next ==
    \/ \E t \in Threads : Report(t)
    \/ \E c \in Readers : ReadMap(c) \/ Forget(c)
    \/ \E c \in Resetters : ClearMap(c)

Spec == Init /\ [][Next]_vars

-----------------------------------------------------------------------------
(* Properties. *)

(* No increment is lost or counted under another name, whichever paths the
   threads take when the counter does not exist yet or is cleared under them. *)
CountersExact == metric["counter"] = added

(* A snapshot fits together although it is collected map by map: a counted
   report has set its gauge, and has made its histogram record unless it is still
   under way (or the histogram is full).  Counters are read first for this to hold.
   Two things break it: a reset in the middle of a report, for good, and a reset
   that clears a map between the first and the last that this snapshot reads. *)
SnapshotCoherent == \A c \in Readers \ cut : position[c] = 3 /\ ~disturbed =>
    /\ snapshot[c]["counter"] # Absent => snapshot[c]["gauge"] # Absent
    /\ \/ snapshot[c]["histogram"] = MaxSamples
       \/ snapshot[c]["histogram"] + Cardinality(Threads) >= snapshot[c]["counter"]

(* What a thread has in hand at each step: a pooled string, holding the name
   of the metric it is to create, and records that are still to be made. *)
InHand == \A t \in Threads :
    /\ object[t] \in Objects <=> pc[t] \in {"write", "drop"}
    /\ pc[t] = "write" => text[object[t]] = <<kind[t]>>
    /\ pc[t] # "idle" => records[t] > 0
    /\ pc[t] = "fast" => kind[t] # "histogram"

(* Threads that have counted, but not yet made the record that follows. *)
Pending == {t \in Threads :
    \/ kind[t] = "counter" /\ pc[t] = "drop"
    \/ kind[t] = "histogram" /\ pc[t] \in {"take", "write"}}

(* What SnapshotCoherent says, of the metrics instead of a snapshot. *)
MetricsCoherent == ~disturbed =>
    /\ \A t \in Threads :
           pc[t] # "idle" /\ (kind[t] # "gauge" \/ pc[t] = "drop") => metric["gauge"] # Absent
    /\ metric["counter"] # Absent => metric["gauge"] # Absent
    /\ \/ metric["histogram"] = MaxSamples
       \/ metric["histogram"] + Cardinality(Pending) >= metric["counter"]

(* Undisturbed, nobody reports during a reset, and while a snapshot is taken that no
   reset cuts, the counter only grows and the gauge stays. *)
ReadingCoherent == ~disturbed =>
    /\ Resetting => Idle /\ metric["counter"] = Absent
    /\ \A c \in Readers \ cut :
           /\ position[c] \in {1, 2} => snapshot[c]["counter"] <= metric["counter"]
           /\ position[c] = 2 => (snapshot[c]["counter"] # Absent => snapshot[c]["gauge"] # Absent)

(* The inductive invariant of MetricsProofs: pooled names have one user each, the
   pool keeps its bound, counters and snapshots are right, and the variables keep
   their types. *)
IInv ==
    /\ TypeOK /\ OneUser /\ PoolBounded /\ InHand
    /\ CountersExact /\ MetricsCoherent /\ ReadingCoherent /\ SnapshotCoherent

=============================================================================
