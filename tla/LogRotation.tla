---------------------------- MODULE LogRotation ----------------------------
(***************************************************************************)
(* RotatingFileWriter of src/src/daemon.rs: threads that write records to  *)
(* path, which is shifted to path.1 .. path.MaxFiles when it would exceed  *)
(* MaxSize.                                                                *)
(*                                                                         *)
(* A write holds the mutex, so threads see a rotation as one step; but any *)
(* rename or open in it can fail, and the process can be killed between    *)
(* any two of them and started again on the files it left.  The writer may *)
(* accept only a part of a record; the rest is a write of its own, with    *)
(* the mutex released in between.                                          *)
(***************************************************************************)
EXTENDS Naturals, SequencesExt

CONSTANTS
    Writers,    \* threads that log
    MaxSize,    \* max_file_size
    MaxFiles,   \* max_files
    Lengths,    \* lengths of records
    Records,    \* bound on the number of records
    NoWriter

ASSUME SizeAssumption ==
    /\ MaxSize \in Nat \ {0} /\ MaxFiles \in Nat /\ Records \in Nat
    /\ Lengths \subseteq Nat \ {0} /\ NoWriter \notin Writers

VARIABLES
    exists,     \* the indices of the files that exist; 0 is path itself
    file,       \* their contents, a sequence of pieces <<record, position>>
    fd,         \* the index of the file inner.file is open on
    size,       \* inner.size
    rest,       \* what each thread has still to write of its record
    busy,       \* the thread in rotate_locked or past it, with the mutex
    idx,        \* its loop variable
    written,    \* number of records begun
    trouble     \* history: something failed, was killed or was too long

vars == <<exists, file, fd, size, rest, busy, idx, written, trouble>>

Indices == 0..MaxFiles

(* The pieces in the files, and which of them comes before which: the files are
   read from the highest index to path. *)
Kept == UNION {ToSet(file[i]) : i \in Indices}

InOrder(s) == {<<s[n[1]], s[n[2]]>> : n \in {m \in (1..Len(s)) \X (1..Len(s)) : m[1] < m[2]}}

Downwards == {n \in Indices \X Indices : n[1] > n[2]}

Older ==
    (UNION {InOrder(file[i]) : i \in Indices})
    \cup (UNION {ToSet(file[n[1]]) \X ToSet(file[n[2]]) : n \in Downwards})

TypeOK ==
    /\ exists \subseteq Indices
    /\ file \in [Indices -> Seq(Nat \X Nat)]
    /\ \A i \in Indices \ exists : file[i] = <<>>
    /\ fd \in exists
    /\ size \in Nat
    /\ rest \in [Writers -> Seq(Nat \X Nat)]
    /\ \A w \in Writers : rest[w] # <<>> => \E n \in Lengths : Len(rest[w]) <= n
    /\ busy \in Writers \cup {NoWriter} /\ idx \in Indices
    /\ written \in 0..Records /\ trouble \in BOOLEAN

-----------------------------------------------------------------------------
(* new(): path is opened for appending and created if it does not exist. *)
Init ==
    /\ exists = {0} /\ file = [i \in Indices |-> <<>>]
    /\ fd = 0 /\ size = 0
    /\ rest = [w \in Writers |-> <<>>]
    /\ busy = NoWriter /\ idx = 0
    /\ written = 0 /\ trouble = FALSE

(* A thread has a record to write. *)
Log(w) ==
    /\ rest[w] = <<>> /\ written < Records
    /\ \E n \in Lengths :
        /\ rest' = [rest EXCEPT ![w] = [i \in 1..n |-> <<written + 1, i>>]]
        /\ trouble' = (trouble \/ n > MaxSize)
    /\ written' = written + 1
    /\ UNCHANGED <<exists, file, fd, size, busy, idx>>

(* An error reaches the formatter, which drops the record. *)
Fail(w) ==
    /\ rest' = [rest EXCEPT ![w] = <<>>]
    /\ busy' = NoWriter /\ idx' = 0
    /\ trouble' = TRUE

Exceeds(w) == size + Len(rest[w]) > MaxSize

(* faulty: the loop begins one file too early *)
BeginRotationShort(w) ==
    /\ busy = NoWriter /\ rest[w] # <<>>
    /\ Exceeds(w) /\ MaxFiles > 0
    /\ busy' = w /\ idx' = MaxFiles - 1
    /\ UNCHANGED <<exists, file, fd, size, rest, written, trouble>>

(* write(): the size is checked under the mutex; with max_files = 0 the log
   is never rotated. *)
BeginRotation(w) ==
    /\ busy = NoWriter /\ rest[w] # <<>>
    /\ Exceeds(w) /\ MaxFiles > 0
    /\ busy' = w /\ idx' = MaxFiles
    /\ UNCHANGED <<exists, file, fd, size, rest, written, trouble>>

(* faulty: the files are shifted upwards, newest first *)
ShiftUpwards(w) ==
    LET to == MaxFiles + 1 - idx IN
    /\ busy = w /\ idx > 0
    /\ IF to - 1 \in exists
       THEN /\ exists' = (exists \ {to - 1}) \cup {to}
            /\ file' = [file EXCEPT ![to] = file[to - 1], ![to - 1] = <<>>]
            /\ fd' = IF fd = to - 1 THEN to ELSE fd
       ELSE UNCHANGED <<exists, file, fd>>
    /\ idx' = idx - 1
    /\ UNCHANGED <<size, rest, busy, written, trouble>>

(* One turn of rotate_locked's loop: remove_file, whose error is ignored, and
   rename, which replaces its target. *)
Shift(w) ==
    /\ busy = w /\ idx > 0
    /\ IF idx - 1 \in exists
       THEN /\ exists' = (exists \ {idx - 1}) \cup {idx}
            /\ file' = [file EXCEPT ![idx] = file[idx - 1], ![idx - 1] = <<>>]
            /\ fd' = IF fd = idx - 1 THEN idx ELSE fd
       ELSE UNCHANGED <<exists, file, fd>>
    /\ idx' = idx - 1
    /\ UNCHANGED <<size, rest, busy, written, trouble>>

(* The rename fails after the removal (which has succeeded or not); what was
   shifted before stays shifted. *)
ShiftFails(w) ==
    /\ busy = w /\ idx > 0 /\ idx - 1 \in exists
    /\ \/ /\ exists' = exists \ {idx}
          /\ file' = [file EXCEPT ![idx] = <<>>]
       \/ UNCHANGED <<exists, file>>
    /\ Fail(w)
    /\ UNCHANGED <<fd, size, written>>

(* The last step of rotate_locked opens a new path.  If that fails, inner.file
   remains on the file that is now path.1, and size remains what it was. *)
Reopened(w) ==
    /\ busy = w /\ idx = 0 /\ fd # 0
    /\ exists' = exists \cup {0}
    /\ fd' = 0 /\ size' = 0
    /\ UNCHANGED <<file, rest, busy, idx, written, trouble>>

ReopenFails(w) ==
    /\ busy = w /\ idx = 0 /\ fd # 0
    /\ Fail(w)
    /\ UNCHANGED <<exists, file, fd, size, written>>

(* file.write: takes some of the bytes, or fails. *)
MayWrite(w) ==
    \/ busy = w /\ idx = 0 /\ fd = 0
    \/ busy = NoWriter /\ rest[w] # <<>> /\ ~(Exceeds(w) /\ MaxFiles > 0)

Write(w) ==
    /\ MayWrite(w)
    /\ \E n \in 1..Len(rest[w]) :
        /\ file' = [file EXCEPT ![fd] = @ \o SubSeq(rest[w], 1, n)]
        /\ size' = size + n
        /\ rest' = [rest EXCEPT ![w] = SubSeq(@, n + 1, Len(@))]
    /\ busy' = NoWriter
    /\ UNCHANGED <<exists, fd, idx, written, trouble>>

WriteFails(w) ==
    /\ MayWrite(w)
    /\ Fail(w)
    /\ UNCHANGED <<exists, file, fd, size, written>>

(* faulty: the size of the file that is there already is not asked for *)
RestartEmpty ==
    /\ exists' = exists \cup {0}
    /\ fd' = 0 /\ size' = 0
    /\ rest' = [w \in Writers |-> <<>>]
    /\ busy' = NoWriter /\ idx' = 0 /\ trouble' = TRUE
    /\ UNCHANGED <<file, written>>

(* faulty: path is truncated *)
RestartTruncates ==
    /\ exists' = exists \cup {0} /\ file' = [file EXCEPT ![0] = <<>>]
    /\ fd' = 0 /\ size' = 0
    /\ rest' = [w \in Writers |-> <<>>]
    /\ busy' = NoWriter /\ idx' = 0 /\ trouble' = TRUE
    /\ UNCHANGED written

(* The process is killed, anywhere, and started again: new(). *)
Restart ==
    /\ exists' = exists \cup {0}
    /\ fd' = 0 /\ size' = Len(file[0])
    /\ rest' = [w \in Writers |-> <<>>]
    /\ busy' = NoWriter /\ idx' = 0 /\ trouble' = TRUE
    /\ UNCHANGED <<file, written>>

Step(w) ==
    \/ Log(w) \/ BeginRotation(w) \/ Shift(w) \/ ShiftFails(w) \/ Reopened(w)
    \/ ReopenFails(w) \/ Write(w) \/ WriteFails(w)

Next == Restart \/ \E w \in Writers : Step(w)

Spec == Init /\ [][Next]_vars

-----------------------------------------------------------------------------
(* Properties. *)

(* The files, read from the oldest rotated one to path, are one log: whatever
   fails and whenever the process is killed, pieces are appended in the order
   of the writes that took them, once each, and only the oldest are dropped. *)
Abstract == INSTANCE RetainedLog WITH kept <- Kept, older <- Older
ImplementsLog == Abstract!LogSpec

(* No file outgrows the limit, but for a record that alone is longer. *)
SizeBound == MaxFiles > 0 =>
    \A i \in Indices : \E n \in {MaxSize} \cup Lengths : Len(file[i]) <= n

(* No piece is in the files twice. *)
NoPieceTwice == \A i, j \in Indices : \A k \in DOMAIN file[i], l \in DOMAIN file[j] :
    file[i][k] = file[j][l] => i = j /\ k = l

(* What is still to be written is new, and each thread's own. *)
RestIsNew ==
    /\ \A w \in Writers : \A k \in DOMAIN rest[w] : rest[w][k][1] <= written
    /\ \A i \in Indices : \A k \in DOMAIN file[i] :
           /\ file[i][k][1] <= written
           /\ \A w \in Writers : \A l \in DOMAIN rest[w] : rest[w][l] # file[i][k]
    /\ \A w, u \in Writers : \A k \in DOMAIN rest[w], l \in DOMAIN rest[u] :
           rest[w][k] = rest[u][l] => w = u /\ k = l

(* The writer is at the newest end of the files and knows the size there, even
   after a rotation that has failed half-way. *)
WriterOnTop ==
    /\ size = Len(file[fd])
    /\ \A i \in Indices : i < fd => i \notin exists

(* A rotation has a reason, and below its first step a hole to shift into. *)
RotationSound == busy # NoWriter =>
    /\ MaxFiles > 0 /\ rest[busy] # <<>>
    /\ idx > 0 => Exceeds(busy)
    /\ idx < MaxFiles => file[idx] = <<>>

(* As long as nothing fails, there is no gap between the files but the one a
   rotation is moving down, and each rotated file was full: it had no room for
   some record that fits in an empty one. *)
RotatedFull == ~trouble =>
    /\ \A w \in Writers : rest[w] # <<>> =>
           \E n \in Lengths : Len(rest[w]) <= n /\ n <= MaxSize
    /\ fd = 0 \/ (busy # NoWriter /\ idx = 0)
    /\ \A i \in exists, j \in Indices :
           j < i => j \in exists \/ (busy # NoWriter /\ j = idx)
    /\ \A i \in exists \ {0} :
           \E n \in Lengths : Len(file[i]) + n > MaxSize /\ n <= MaxSize

(* The inductive invariant of LogRotationProofs: the files keep their bound and
   no piece twice, and the variables their types. *)
IInv ==
    /\ TypeOK /\ SizeBound /\ NoPieceTwice
    /\ RestIsNew /\ WriterOnTop /\ RotationSound /\ RotatedFull

Shrinks == ~(Kept \subseteq Kept')

(* A rotation does not drop the newest piece, however often rotations fail
   half-way, unless the record that causes it is longer than the limit: that one
   rotates a path that may be empty. *)
KeepsNewest ==
    [][Shrinks /\ (busy \in Writers => Len(rest[busy]) <= MaxSize) =>
        \E p \in Kept \cap Kept' : \A q \in Kept \ {p} : <<q, p>> \in Older]_vars

(* As long as nothing fails, what is dropped leaves MaxFiles full files: none
   could have taken the longest of the records that fit. *)
NoneThatFitsExceeds(n) == \A m \in Lengths : m <= MaxSize => m <= n
KeepsFullFiles == [][Shrinks /\ ~trouble' => \A n \in 1..MaxSize :
    NoneThatFitsExceeds(n) => Cardinality(Kept') >= MaxFiles * (MaxSize + 1 - n)]_vars

=============================================================================
