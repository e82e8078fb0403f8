-------------------------- MODULE LogRotationProofs -------------------------
(***************************************************************************)
(* Proofs about LogRotation, for any number of threads, files and records  *)
(* and any limit: whatever fails and whenever the process is killed, the   *)
(* files implement RetainedLog, none outgrows the limit, and a rotation    *)
(* does not drop the newest piece; as long as nothing fails, it leaves     *)
(* MaxFiles full files.                                                    *)
(*                                                                         *)
(* The invariant is proved per part, first what holds always, then         *)
(* RotatedFull.  For the refinement a file is taken as the set of its      *)
(* pieces and the set of its ordered pairs; a write, a shift and a removal *)
(* are lemmas about these.                                                 *)
(***************************************************************************)
EXTENDS LogRotation, FiniteSetTheorems, FunctionTheorems, TLAPS

Pieces == Nat \X Nat

(* The invariant, but for what holds only as long as nothing fails.        *)
Sound == TypeOK /\ SizeBound /\ NoPieceTwice /\ RestIsNew /\ WriterOnTop /\ RotationSound

(* Nothing is written at first.                                            *)
LEMMA InitSound == Init => Sound
<1>. SUFFICES ASSUME Init PROVE Sound
  OBVIOUS
<1>. USE SizeAssumption DEF Init, Indices
<1>1. TypeOK
  <2>1. MaxFiles \in Nat /\ 0 \in Indices
    OBVIOUS
  <2>2. file \in [Indices -> Seq(Nat \X Nat)] /\ rest \in [Writers -> Seq(Nat \X Nat)]
    OBVIOUS
  <2>3. \A w \in Writers : rest[w] = <<>>
    OBVIOUS
  <2>. HIDE DEF Indices
  <2>. QED
    BY <2>1, <2>2, <2>3 DEF TypeOK
<1>2. SizeBound /\ NoPieceTwice /\ RestIsNew /\ WriterOnTop /\ RotationSound
  BY DEF SizeBound, NoPieceTwice, RestIsNew, WriterOnTop, RotationSound
<1>. QED
  BY <1>1, <1>2 DEF Sound

-----------------------------------------------------------------------------
(* What the actions do. *)

(* A record to log: its pieces are numbered, all with a new record number. *)
LEMMA Logged ==
  ASSUME TypeOK, NEW w \in Writers, Log(w)
  PROVE  /\ UNCHANGED <<exists, file, fd, size, busy, idx>> /\ rest[w] = <<>>
         /\ written' = written + 1 /\ written' \in 0..Records /\ trouble' \in BOOLEAN
         /\ rest' \in [Writers -> Seq(Pieces)]
         /\ \A u \in Writers \ {w} : rest'[u] = rest[u]
         /\ Len(rest'[w]) \in Lengths
         /\ \A k \in 1..Len(rest'[w]) : rest'[w][k] = <<written + 1, k>>
<1>1. PICK n \in Lengths : /\ rest' = [rest EXCEPT ![w] = [i \in 1..n |-> <<written + 1, i>>]]
                           /\ trouble' = (trouble \/ n > MaxSize)
  BY DEF Log
<1>2. n \in Nat /\ written \in Nat
  BY SizeAssumption DEF TypeOK
<1>3. /\ [i \in 1..n |-> <<written + 1, i>>] \in Seq(Pieces)
      /\ Len([i \in 1..n |-> <<written + 1, i>>]) = n
  BY <1>2 DEF Pieces
<1>4. /\ rest' \in [Writers -> Seq(Pieces)]
      /\ rest'[w] = [i \in 1..n |-> <<written + 1, i>>]
      /\ \A u \in Writers \ {w} : rest'[u] = rest[u]
  BY <1>1, <1>3 DEF TypeOK, Pieces
<1>5. trouble' \in BOOLEAN
  BY <1>1, Zenon
<1>6. /\ UNCHANGED <<exists, file, fd, size, busy, idx>> /\ rest[w] = <<>>
      /\ written' = written + 1 /\ written' \in 0..Records
  BY SizeAssumption DEF Log, TypeOK
<1>. QED
  BY <1>3, <1>4, <1>5, <1>6

(* A write appends the first n pieces of the rest to the file the writer   *)
(* has open.                                                               *)
LEMMA Written ==
  ASSUME TypeOK, NEW w \in Writers, Write(w)
  PROVE  \E n \in 1..Len(rest[w]) :
           /\ n \in Nat /\ Len(rest[w]) \in Nat /\ fd \in Indices
           /\ file' \in [Indices -> Seq(Pieces)] /\ rest' \in [Writers -> Seq(Pieces)]
           /\ \A i \in Indices \ {fd} : file'[i] = file[i]
           /\ Len(file[fd]) \in Nat /\ Len(file'[fd]) = Len(file[fd]) + n
           /\ \A k \in 1..Len(file[fd]) : file'[fd][k] = file[fd][k]
           /\ \A k \in 1..n : file'[fd][Len(file[fd]) + k] = rest[w][k]
           /\ \A u \in Writers \ {w} : rest'[u] = rest[u]
           /\ Len(rest'[w]) = Len(rest[w]) - n
           /\ \A k \in 1..(Len(rest[w]) - n) : rest'[w][k] = rest[w][k + n]
           /\ size' = size + n /\ busy' = NoWriter
           /\ UNCHANGED <<exists, fd, idx, written, trouble>>
<1>1. PICK n \in 1..Len(rest[w]) :
        /\ file' = [file EXCEPT ![fd] = @ \o SubSeq(rest[w], 1, n)]
        /\ size' = size + n
        /\ rest' = [rest EXCEPT ![w] = SubSeq(@, n + 1, Len(@))]
  BY DEF Write
<1>2. /\ fd \in Indices /\ file[fd] \in Seq(Pieces) /\ rest[w] \in Seq(Pieces)
      /\ n \in Nat /\ Len(rest[w]) \in Nat /\ n <= Len(rest[w])
  BY DEF TypeOK, Pieces
<1>. DEFINE part == SubSeq(rest[w], 1, n)
            all  == file[fd] \o part
<1>3. part \in Seq(Pieces) /\ Len(part) = n /\ \A k \in 1..n : part[k] = rest[w][k]
  BY <1>2
<1>4. /\ SubSeq(rest[w], n + 1, Len(rest[w])) \in Seq(Pieces)
      /\ Len(SubSeq(rest[w], n + 1, Len(rest[w]))) = Len(rest[w]) - n
      /\ \A k \in 1..(Len(rest[w]) - n) : SubSeq(rest[w], n + 1, Len(rest[w]))[k] = rest[w][k + n]
  BY <1>2
<1>5. /\ all \in Seq(Pieces) /\ Len(all) = Len(file[fd]) + n /\ Len(file[fd]) \in Nat
      /\ \A k \in 1..Len(file[fd]) : all[k] = file[fd][k]
      /\ \A k \in 1..n : all[Len(file[fd]) + k] = rest[w][k]
  <2>. HIDE DEF part
  <2>1. /\ all \in Seq(Pieces) /\ Len(all) = Len(file[fd]) + n /\ Len(file[fd]) \in Nat
        /\ \A k \in 1..Len(file[fd]) : all[k] = file[fd][k]
        /\ \A k \in 1..n : all[Len(file[fd]) + k] = part[k]
    BY <1>2, <1>3
  <2>. QED
    BY <1>3, <2>1
<1>6. /\ rest' \in [Writers -> Seq(Pieces)] /\ rest'[w] = SubSeq(rest[w], n + 1, Len(rest[w]))
      /\ \A u \in Writers \ {w} : rest'[u] = rest[u]
  BY <1>1, <1>2, <1>4 DEF TypeOK, Pieces
<1>7. /\ file' \in [Indices -> Seq(Pieces)] /\ file'[fd] = all
      /\ \A i \in Indices \ {fd} : file'[i] = file[i]
  <2>1. file' = [file EXCEPT ![fd] = all]
    BY <1>1
  <2>. HIDE DEF all
  <2>. QED
    BY <1>2, <1>5, <2>1 DEF TypeOK, Pieces
<1>8. size' = size + n /\ busy' = NoWriter /\ UNCHANGED <<exists, fd, idx, written, trouble>>
  BY <1>1 DEF Write
<1>. HIDE DEF all
<1>. QED
  BY <1>2, <1>4, <1>5, <1>6, <1>7, <1>8

(* A turn of the loop with a file to shift.                                *)
LEMMA Shifted ==
  ASSUME TypeOK, NEW w \in Writers, Shift(w), idx - 1 \in exists
  PROVE  /\ idx \in Indices /\ idx - 1 \in Indices /\ idx # idx - 1 /\ idx' = idx - 1
         /\ exists' = (exists \ {idx - 1}) \cup {idx}
         /\ file' \in [Indices -> Seq(Pieces)]
         /\ file'[idx] = file[idx - 1] /\ file'[idx - 1] = <<>>
         /\ \A i \in Indices \ {idx, idx - 1} : file'[i] = file[i]
         /\ fd' = IF fd = idx - 1 THEN idx ELSE fd
         /\ UNCHANGED <<size, rest, busy, written, trouble>> /\ busy = w
<1>1. idx \in Indices /\ idx - 1 \in Indices /\ idx # idx - 1
  BY DEF TypeOK, Shift, Indices
<1>2. file' = [file EXCEPT ![idx] = file[idx - 1], ![idx - 1] = <<>>]
  BY DEF Shift
<1>3. file[idx - 1] \in Seq(Pieces) /\ <<>> \in Seq(Pieces)
  BY <1>1 DEF TypeOK, Pieces
<1>4. /\ file' \in [Indices -> Seq(Pieces)]
      /\ file'[idx] = file[idx - 1] /\ file'[idx - 1] = <<>>
      /\ \A i \in Indices \ {idx, idx - 1} : file'[i] = file[i]
  BY <1>1, <1>2, <1>3 DEF TypeOK, Pieces
<1>. QED
  BY <1>1, <1>4 DEF Shift

(* A turn whose rename fails has removed its target, or not.               *)
LEMMA Removed ==
  ASSUME TypeOK, NEW w \in Writers, ShiftFails(w)
  PROVE  /\ idx \in Indices /\ busy = w /\ idx - 1 \in exists /\ idx # idx - 1
         /\ \/ UNCHANGED <<exists, file>>
            \/ /\ exists' = exists \ {idx}
               /\ file' \in [Indices -> Seq(Pieces)] /\ file'[idx] = <<>>
               /\ \A i \in Indices \ {idx} : file'[i] = file[i]
         /\ UNCHANGED <<fd, size, written>>
<1>1. idx \in Indices /\ idx # idx - 1
  BY DEF TypeOK, ShiftFails, Indices
<1>2. ASSUME file' = [file EXCEPT ![idx] = <<>>]
      PROVE  /\ file' \in [Indices -> Seq(Pieces)] /\ file'[idx] = <<>>
             /\ \A i \in Indices \ {idx} : file'[i] = file[i]
  <2>1. <<>> \in Seq(Pieces) /\ file \in [Indices -> Seq(Pieces)]
    BY DEF TypeOK, Pieces
  <2>. QED
    BY <1>1, <1>2, <2>1
<1>. QED
  BY <1>1, <1>2 DEF ShiftFails

(* An error leaves the thread without its record.                          *)
LEMMA Failed ==
  ASSUME TypeOK, NEW w \in Writers, Fail(w)
  PROVE  /\ rest' \in [Writers -> Seq(Pieces)] /\ rest'[w] = <<>>
         /\ \A u \in Writers \ {w} : rest'[u] = rest[u]
         /\ busy' = NoWriter /\ idx' = 0 /\ trouble' = TRUE
BY DEF Fail, TypeOK, Pieces

-----------------------------------------------------------------------------
(* Each action keeps the invariant. *)

(* Where files and rests stay or become empty, what the invariant says of   *)
(* pieces stays.                                                           *)
LEMMA Dropped ==
  ASSUME IInv, UNCHANGED written,
         \A i \in Indices : file'[i] \in {file[i], <<>>},
         \A u \in Writers : rest'[u] \in {rest[u], <<>>}
  PROVE  SizeBound' /\ NoPieceTwice' /\ RestIsNew'
<1>. USE SizeAssumption DEF IInv, Sound
<1>1. ASSUME NEW i \in Indices, NEW k \in DOMAIN file'[i]
      PROVE  k \in DOMAIN file[i] /\ file'[i][k] = file[i][k]
  BY <1>1
<1>2. ASSUME NEW u \in Writers, NEW k \in DOMAIN rest'[u]
      PROVE  k \in DOMAIN rest[u] /\ rest'[u][k] = rest[u][k]
  BY <1>2
<1>3. SizeBound'
  <2>1. SUFFICES ASSUME MaxFiles > 0, NEW i \in Indices
                 PROVE  \E n \in {MaxSize} \cup Lengths : Len(file'[i]) <= n
    BY DEF SizeBound, Indices
  <2>2. CASE file'[i] = file[i]
    BY <2>1, <2>2 DEF SizeBound
  <2>3. CASE file'[i] = <<>>
    <3>1. Len(file'[i]) = 0
      BY <2>3
    <3>. QED
      BY <3>1
  <2>. QED
    BY <2>2, <2>3
<1>4. NoPieceTwice'
  BY <1>1 DEF NoPieceTwice, Indices
<1>5. RestIsNew'
  <2>1. \A w \in Writers : \A k \in DOMAIN rest'[w] : rest'[w][k][1] <= written'
    BY <1>2 DEF RestIsNew
  <2>2. \A i \in Indices : \A k \in DOMAIN file'[i] :
           /\ file'[i][k][1] <= written'
           /\ \A w \in Writers : \A l \in DOMAIN rest'[w] : rest'[w][l] # file'[i][k]
    BY <1>1, <1>2 DEF RestIsNew
  <2>3. \A w, u \in Writers : \A k \in DOMAIN rest'[w], l \in DOMAIN rest'[u] :
           rest'[w][k] = rest'[u][l] => w = u /\ k = l
    BY <1>2 DEF RestIsNew
  <2>. QED
    BY <2>1, <2>2, <2>3 DEF RestIsNew, Indices
<1>. QED
  BY <1>3, <1>4, <1>5

(* The types, where rests stay or become empty.                            *)
LEMMA RestType ==
  ASSUME TypeOK, rest' \in [Writers -> Seq(Pieces)],
         \A u \in Writers : rest'[u] \in {rest[u], <<>>}
  PROVE  \A u \in Writers : rest'[u] # <<>> => \E n \in Lengths : Len(rest'[u]) <= n
<1>. SUFFICES ASSUME NEW u \in Writers, rest'[u] # <<>>
              PROVE  \E n \in Lengths : Len(rest'[u]) <= n
  OBVIOUS
<1>1. rest'[u] = rest[u]
  OBVIOUS
<1>. QED
  BY <1>1 DEF TypeOK

(* The thread gives up its record and the mutex, the writer where it was.  *)
LEMMA GiveUp ==
  ASSUME IInv, NEW w \in Writers, Fail(w), UNCHANGED <<fd, size, written>>,
         \/ UNCHANGED <<exists, file>>
         \/ ShiftFails(w)
  PROVE  Sound'
<1>. USE SizeAssumption DEF IInv, Sound
<1>1. /\ rest' \in [Writers -> Seq(Pieces)]
      /\ \A u \in Writers : rest'[u] \in {rest[u], <<>>}
      /\ busy' = NoWriter /\ idx' = 0 /\ trouble' = TRUE
  <2>1. /\ rest' \in [Writers -> Seq(Pieces)] /\ rest'[w] = <<>>
        /\ \A u \in Writers \ {w} : rest'[u] = rest[u]
        /\ busy' = NoWriter /\ idx' = 0 /\ trouble' = TRUE
    BY Failed
  <2>. QED
    BY <2>1
<1>2. /\ file' \in [Indices -> Seq(Pieces)] /\ exists' \subseteq Indices
      /\ \A i \in Indices \ exists' : file'[i] = <<>>
      /\ \A i \in Indices : file'[i] \in {file[i], <<>>}
      /\ fd \in exists' /\ file'[fd] = file[fd] /\ exists' \subseteq exists
  <2>1. CASE UNCHANGED <<exists, file>>
    BY <2>1 DEF TypeOK, Pieces
  <2>2. CASE ShiftFails(w)
    <3>1. /\ idx \in Indices /\ busy = w /\ idx - 1 \in exists /\ idx # idx - 1
          /\ \/ UNCHANGED <<exists, file>>
             \/ /\ exists' = exists \ {idx}
                /\ file' \in [Indices -> Seq(Pieces)] /\ file'[idx] = <<>>
                /\ \A i \in Indices \ {idx} : file'[i] = file[i]
      BY <2>2, Removed
    <3>2. fd # idx
      <4>1. fd \in Nat /\ idx \in Nat /\ idx - 1 \in Indices
        BY <3>1 DEF TypeOK, Indices
      <4>. QED
        BY <3>1, <4>1 DEF WriterOnTop
    <3>3. CASE exists' = exists \ {idx} /\ file' \in [Indices -> Seq(Pieces)] /\ file'[idx] = <<>>
               /\ \A i \in Indices \ {idx} : file'[i] = file[i]
      BY <3>1, <3>2, <3>3 DEF TypeOK
    <3>. QED
      BY <2>1, <3>1, <3>3
  <2>. QED
    BY <2>1, <2>2
<1>3. SizeBound' /\ NoPieceTwice' /\ RestIsNew'
  BY <1>1, <1>2, Dropped
<1>4. TypeOK'
  <2>1. \A u \in Writers : rest'[u] # <<>> => \E n \in Lengths : Len(rest'[u]) <= n
    BY <1>1, RestType
  <2>2. 0 \in Indices
    BY DEF Indices
  <2>. QED
    BY <1>1, <1>2, <2>1, <2>2 DEF TypeOK, Pieces
<1>5. WriterOnTop'
  BY <1>2 DEF WriterOnTop
<1>6. RotationSound'
  BY <1>1 DEF RotationSound
<1>. QED
  BY <1>3, <1>4, <1>5, <1>6

(* A new path is opened where the rotation has left none.                  *)
LEMMA ReopenedStep ==
  ASSUME IInv, NEW w \in Writers, Reopened(w)
  PROVE  Sound'
<1>. USE SizeAssumption DEF IInv, Sound
<1>1. /\ busy = w /\ idx = 0 /\ fd # 0 /\ exists' = exists \cup {0} /\ fd' = 0 /\ size' = 0
      /\ UNCHANGED <<file, rest, busy, idx, written, trouble>>
  BY DEF Reopened
<1>2. 0 \in Indices /\ file[0] = <<>>
  <2>1. 0 \in Indices /\ 0 < fd
    BY <1>1 DEF TypeOK, Indices
  <2>2. 0 \notin exists
    BY <2>1 DEF WriterOnTop
  <2>. QED
    BY <2>1, <2>2 DEF TypeOK
<1>3. TypeOK'
  BY <1>1, <1>2 DEF TypeOK
<1>4. SizeBound' /\ NoPieceTwice' /\ RestIsNew'
  BY <1>1 DEF SizeBound, NoPieceTwice, RestIsNew
<1>5. WriterOnTop'
  <2>1. size' = Len(file'[fd'])
    BY <1>1, <1>2
  <2>2. \A i \in Indices : ~(i < fd')
    BY <1>1 DEF Indices
  <2>. QED
    BY <2>1, <2>2 DEF WriterOnTop, Indices
<1>6. RotationSound'
  <2>1. MaxFiles > 0 /\ rest[w] # <<>>
    BY <1>1 DEF RotationSound, TypeOK
  <2>. QED
    BY <1>1, <1>2, <2>1 DEF RotationSound
<1>. QED
  BY <1>3, <1>4, <1>5, <1>6

(* The process is killed and started again.                                *)
LEMMA RestartStep ==
  ASSUME IInv, Restart
  PROVE  Sound'
<1>. USE SizeAssumption DEF IInv, Sound
<1>1. /\ exists' = exists \cup {0} /\ fd' = 0 /\ size' = Len(file[0])
      /\ busy' = NoWriter /\ idx' = 0 /\ trouble' = TRUE /\ UNCHANGED <<file, written>>
  BY DEF Restart
<1>2. rest' \in [Writers -> Seq(Pieces)] /\ \A u \in Writers : rest'[u] = <<>>
  BY DEF Restart
<1>3. 0 \in Indices /\ Len(file[0]) \in Nat
  <2>1. 0 \in Indices
    BY DEF Indices
  <2>. QED
    BY <2>1 DEF TypeOK
<1>4. TypeOK'
  <2>1. \A u \in Writers : rest'[u] # <<>> => \E n \in Lengths : Len(rest'[u]) <= n
    BY <1>2
  <2>. QED
    BY <1>1, <1>2, <1>3, <2>1 DEF TypeOK, Pieces
<1>5. SizeBound' /\ NoPieceTwice' /\ RestIsNew'
  BY <1>1, <1>2, Dropped
<1>6. WriterOnTop'
  <2>1. \A i \in Indices : ~(i < fd')
    BY <1>1 DEF Indices
  <2>. QED
    BY <1>1, <2>1 DEF WriterOnTop, Indices
<1>7. RotationSound'
  BY <1>1 DEF RotationSound
<1>. QED
  BY <1>4, <1>5, <1>6, <1>7

(* Logging: the record number is new, so its pieces are.                   *)
LEMMA LogStep ==
  ASSUME IInv, NEW w \in Writers, Log(w)
  PROVE  Sound'
<1>. USE SizeAssumption DEF IInv, Sound
<1>1. /\ UNCHANGED <<exists, file, fd, size, busy, idx>> /\ rest[w] = <<>>
      /\ written' = written + 1 /\ written' \in 0..Records /\ trouble' \in BOOLEAN
      /\ rest' \in [Writers -> Seq(Pieces)]
      /\ \A u \in Writers \ {w} : rest'[u] = rest[u]
      /\ Len(rest'[w]) \in Lengths
      /\ \A k \in 1..Len(rest'[w]) : rest'[w][k] = <<written + 1, k>>
  BY Logged
<1>2. written \in Nat
  BY DEF TypeOK
<1>3. TypeOK'
  <2>1. \A u \in Writers : rest'[u] # <<>> => \E n \in Lengths : Len(rest'[u]) <= n
    <3>. TAKE u \in Writers
    <3>1. CASE u = w
      BY <1>1, <3>1
    <3>2. CASE u # w
      BY <1>1, <3>2 DEF TypeOK
    <3>. QED
      BY <3>1, <3>2
  <2>. QED
    BY <1>1, <2>1 DEF TypeOK, Pieces
<1>4. SizeBound' /\ NoPieceTwice' /\ WriterOnTop'
  BY <1>1 DEF SizeBound, NoPieceTwice, WriterOnTop, Indices
<1>5. RotationSound'
  <2>1. busy # NoWriter => busy # w /\ busy \in Writers
    BY <1>1 DEF RotationSound, TypeOK
  <2>. QED
    BY <1>1, <2>1 DEF RotationSound, Exceeds
<1>6. RestIsNew'
  <2>1. \A u \in Writers : DOMAIN rest'[u] = 1..Len(rest'[u]) /\ DOMAIN rest[u] = 1..Len(rest[u])
    BY <1>1 DEF TypeOK
  <2>2. \A k \in DOMAIN rest'[w] : rest'[w][k] = <<written + 1, k>>
    BY <1>1, <2>1
  <2>3. \A u \in Writers \ {w} : \A k \in DOMAIN rest'[u] :
            k \in DOMAIN rest[u] /\ rest'[u][k] = rest[u][k] /\ rest[u][k][1] <= written
    BY <1>1 DEF RestIsNew
  <2>4. \A u \in Writers \ {w} : \A k \in DOMAIN rest'[u] : rest'[u][k][1] \in Nat
    <3>. TAKE u \in Writers \ {w}
    <3>1. rest[u] \in Seq(Pieces)
      BY DEF TypeOK, Pieces
    <3>. QED
      BY <2>3, <3>1 DEF Pieces
  <2>5. \A i \in Indices : \A k \in DOMAIN file[i] : file[i][k][1] \in Nat /\ file[i][k][1] <= written
    <3>. TAKE i \in Indices
    <3>1. file[i] \in Seq(Pieces)
      BY DEF TypeOK, Pieces
    <3>. QED
      BY <3>1 DEF RestIsNew, Pieces
  <2>6. \A u \in Writers : \A k \in DOMAIN rest'[u] : rest'[u][k][1] <= written'
    BY <1>1, <1>2, <2>2, <2>3, <2>4
  <2>7. \A i \in Indices : \A k \in DOMAIN file'[i] :
            /\ file'[i][k][1] <= written'
            /\ \A u \in Writers : \A l \in DOMAIN rest'[u] : rest'[u][l] # file'[i][k]
    <3>. SUFFICES ASSUME NEW i \in Indices, NEW k \in DOMAIN file[i]
                  PROVE  /\ file[i][k][1] <= written'
                         /\ \A u \in Writers : \A l \in DOMAIN rest'[u] : rest'[u][l] # file[i][k]
      BY <1>1
    <3>1. file[i][k][1] <= written'
      BY <1>1, <1>2, <2>5
    <3>2. \A l \in DOMAIN rest'[w] : rest'[w][l] # file[i][k]
      BY <1>2, <2>2, <2>5
    <3>3. \A u \in Writers \ {w} : \A l \in DOMAIN rest'[u] : rest'[u][l] # file[i][k]
      BY <2>3 DEF RestIsNew
    <3>. QED
      BY <3>1, <3>2, <3>3
  <2>8. \A u, v \in Writers : \A k \in DOMAIN rest'[u], l \in DOMAIN rest'[v] :
            rest'[u][k] = rest'[v][l] => u = v /\ k = l
    <3>. SUFFICES ASSUME NEW u \in Writers, NEW v \in Writers,
                         NEW k \in DOMAIN rest'[u], NEW l \in DOMAIN rest'[v],
                         rest'[u][k] = rest'[v][l]
                  PROVE  u = v /\ k = l
      OBVIOUS
    <3>1. CASE u = w /\ v = w
      BY <2>2, <3>1
    <3>2. CASE u # w /\ v # w
      BY <2>3, <3>2 DEF RestIsNew
    <3>3. CASE u = w /\ v # w
      BY <1>2, <2>2, <2>3, <2>4, <3>3
    <3>4. CASE u # w /\ v = w
      BY <1>2, <2>2, <2>3, <2>4, <3>4
    <3>. QED
      BY <3>1, <3>2, <3>3, <3>4
  <2>. QED
    BY <1>1, <2>6, <2>7, <2>8 DEF RestIsNew
<1>. QED
  BY <1>3, <1>4, <1>5, <1>6

(* The rotation begins.                                                    *)
LEMMA BeginStep ==
  ASSUME IInv, NEW w \in Writers, BeginRotation(w)
  PROVE  Sound'
<1>. USE SizeAssumption DEF IInv, Sound, BeginRotation
<1>1. TypeOK'
  <2>1. idx' \in Indices
    BY DEF Indices
  <2>2. busy' \in Writers \cup {NoWriter}
    OBVIOUS
  <2>. QED
    BY <2>1, <2>2 DEF TypeOK
<1>2. SizeBound' /\ NoPieceTwice' /\ WriterOnTop' /\ RestIsNew'
  BY DEF SizeBound, NoPieceTwice, WriterOnTop, RestIsNew
<1>3. RotationSound'
  BY DEF RotationSound, Exceeds
<1>. QED
  BY <1>1, <1>2, <1>3

(* A file that is shifted leaves a hole, and what it replaces is gone.     *)
LEMMA ShiftStep ==
  ASSUME IInv, NEW w \in Writers, Shift(w)
  PROVE  Sound'
<1>. USE SizeAssumption DEF IInv, Sound
<1>1. CASE idx - 1 \in exists
  <2>1. /\ idx \in Indices /\ idx - 1 \in Indices /\ idx # idx - 1 /\ idx' = idx - 1
        /\ exists' = (exists \ {idx - 1}) \cup {idx}
        /\ file' \in [Indices -> Seq(Pieces)]
        /\ file'[idx] = file[idx - 1] /\ file'[idx - 1] = <<>>
        /\ \A i \in Indices \ {idx, idx - 1} : file'[i] = file[i]
        /\ fd' = IF fd = idx - 1 THEN idx ELSE fd
        /\ UNCHANGED <<size, rest, busy, written, trouble>> /\ busy = w
    BY <1>1, Shifted
  <2>2. \A i \in Indices : \A k \in DOMAIN file'[i] :
            \/ i = idx /\ k \in DOMAIN file[idx - 1] /\ file'[i][k] = file[idx - 1][k]
            \/ i \notin {idx, idx - 1} /\ k \in DOMAIN file[i] /\ file'[i][k] = file[i][k]
    BY <2>1
  <2>3. TypeOK'
    <3>1. \A i \in Indices \ exists' : file'[i] = <<>>
      BY <2>1 DEF TypeOK
    <3>2. fd' \in exists' /\ exists' \subseteq Indices
      BY <2>1 DEF TypeOK
    <3>. QED
      BY <2>1, <3>1, <3>2 DEF TypeOK, Pieces
  <2>4. SizeBound'
    <3>1. \A i \in Indices : Len(file'[i]) \in {Len(file[j]) : j \in Indices} \cup {0}
      BY <2>1
    <3>2. MaxFiles > 0 => \A i \in Indices : \E n \in {MaxSize} \cup Lengths : Len(file[i]) <= n
      BY DEF SizeBound
    <3>3. 0 <= MaxSize /\ MaxSize \in {MaxSize} \cup Lengths
      OBVIOUS
    <3>. QED
      BY <3>1, <3>2, <3>3 DEF SizeBound
  <2>5. NoPieceTwice'
    BY <2>1, <2>2 DEF NoPieceTwice
  <2>6. RestIsNew'
    BY <2>1, <2>2 DEF RestIsNew
  <2>7. WriterOnTop'
    <3>1. size = Len(file'[fd'])
      <4>1. CASE fd = idx - 1
        BY <2>1, <4>1 DEF WriterOnTop
      <4>2. CASE fd # idx - 1
        <5>1. fd # idx
          BY <1>1, <2>1 DEF WriterOnTop, Indices
        <5>. QED
          BY <2>1, <4>2, <5>1 DEF WriterOnTop, TypeOK
      <4>. QED
        BY <4>1, <4>2
    <3>2. \A i \in Indices : i < fd' => i \notin exists'
      <4>1. idx \in Nat /\ fd \in Nat /\ idx - 1 >= fd
        BY <1>1, <2>1 DEF WriterOnTop, TypeOK, Indices
      <4>. QED
        BY <2>1, <4>1 DEF WriterOnTop, Indices
    <3>. QED
      BY <2>1, <3>1, <3>2 DEF WriterOnTop
  <2>8. RotationSound'
    <3>1. idx \in Nat /\ idx > 0 /\ busy # NoWriter
      BY <2>1 DEF Shift, TypeOK, Indices
    <3>2. MaxFiles > 0 /\ rest[busy] # <<>> /\ Exceeds(busy)
      BY <3>1 DEF RotationSound
    <3>. QED
      BY <2>1, <3>2 DEF RotationSound, Exceeds
  <2>. QED
    BY <2>3, <2>4, <2>5, <2>6, <2>7, <2>8
<1>2. CASE idx - 1 \notin exists
  <2>1. /\ busy = w /\ idx > 0 /\ idx' = idx - 1
        /\ UNCHANGED <<exists, file, fd, size, rest, busy, written, trouble>>
    BY <1>2 DEF Shift
  <2>2. idx \in Indices /\ idx - 1 \in Indices /\ file[idx - 1] = <<>>
    BY <1>2, <2>1 DEF TypeOK, Indices
  <2>3. TypeOK'
    BY <2>1, <2>2 DEF TypeOK
  <2>4. SizeBound' /\ NoPieceTwice' /\ WriterOnTop' /\ RestIsNew'
    BY <2>1 DEF SizeBound, NoPieceTwice, WriterOnTop, RestIsNew
  <2>5. RotationSound'
    <3>1. busy # NoWriter
      BY <2>1 DEF TypeOK
    <3>2. MaxFiles > 0 /\ rest[busy] # <<>> /\ Exceeds(busy)
      BY <2>1, <3>1 DEF RotationSound
    <3>. QED
      BY <2>1, <2>2, <3>2 DEF RotationSound, Exceeds
  <2>. QED
    BY <2>3, <2>4, <2>5
<1>. QED
  BY <1>1, <1>2

(* A write takes new pieces, and only where the file stays within bounds.  *)
LEMMA WriteStep ==
  ASSUME IInv, NEW w \in Writers, Write(w)
  PROVE  Sound'
<1>. USE SizeAssumption DEF IInv, Sound
<1>1. PICK n \in 1..Len(rest[w]) :
        /\ n \in Nat /\ Len(rest[w]) \in Nat /\ fd \in Indices
        /\ file' \in [Indices -> Seq(Pieces)] /\ rest' \in [Writers -> Seq(Pieces)]
        /\ \A i \in Indices \ {fd} : file'[i] = file[i]
        /\ Len(file[fd]) \in Nat /\ Len(file'[fd]) = Len(file[fd]) + n
        /\ \A k \in 1..Len(file[fd]) : file'[fd][k] = file[fd][k]
        /\ \A k \in 1..n : file'[fd][Len(file[fd]) + k] = rest[w][k]
        /\ \A u \in Writers \ {w} : rest'[u] = rest[u]
        /\ Len(rest'[w]) = Len(rest[w]) - n
        /\ \A k \in 1..(Len(rest[w]) - n) : rest'[w][k] = rest[w][k + n]
        /\ size' = size + n /\ busy' = NoWriter
        /\ UNCHANGED <<exists, fd, idx, written, trouble>>
  BY Written
<1>a. /\ n \in Nat /\ n >= 1 /\ n <= Len(rest[w]) /\ Len(rest[w]) \in Nat
      /\ fd \in Indices /\ Len(file[fd]) \in Nat /\ size \in Nat /\ size = Len(file[fd])
  BY <1>1 DEF TypeOK, WriterOnTop
<1>b. /\ DOMAIN file'[fd] = 1..(Len(file[fd]) + n) /\ DOMAIN file[fd] = 1..Len(file[fd])
      /\ DOMAIN rest[w] = 1..Len(rest[w]) /\ DOMAIN rest'[w] = 1..(Len(rest[w]) - n)
  <2>1. file'[fd] \in Seq(Pieces) /\ file[fd] \in Seq(Pieces)
        /\ rest'[w] \in Seq(Pieces) /\ rest[w] \in Seq(Pieces)
    BY <1>1, <1>a DEF TypeOK, Pieces
  <2>2. Len(file'[fd]) = Len(file[fd]) + n /\ Len(rest'[w]) = Len(rest[w]) - n
    BY <1>1
  <2>. QED
    BY <2>1, <2>2
<1>2. PICK m \in Lengths : m \in Nat /\ Len(rest[w]) <= m
  <2>1. rest[w] # <<>>
    BY <1>1
  <2>. QED
    BY <2>1 DEF TypeOK
<1>3. TypeOK'
  <2>1. \A u \in Writers : rest'[u] # <<>> => \E l \in Lengths : Len(rest'[u]) <= l
    <3>. TAKE u \in Writers
    <3>1. CASE u = w
      BY <1>1, <1>2, <3>1
    <3>2. CASE u # w
      BY <1>1, <3>2 DEF TypeOK
    <3>. QED
      BY <3>1, <3>2
  <2>2. \A i \in Indices \ exists : file'[i] = <<>>
    BY <1>1 DEF TypeOK
  <2>3. size' \in Nat
    BY <1>1 DEF TypeOK
  <2>. QED
    BY <1>1, <2>1, <2>2, <2>3 DEF TypeOK, Pieces
<1>4. SizeBound'
  <2>. SUFFICES ASSUME MaxFiles > 0, NEW i \in Indices
                PROVE  \E l \in {MaxSize} \cup Lengths : Len(file'[i]) <= l
    BY DEF SizeBound, Indices
  <2>1. CASE i # fd
    BY <1>1, <2>1 DEF SizeBound
  <2>2. CASE i = fd /\ busy = NoWriter
    <3>1. size + Len(rest[w]) <= MaxSize
      <4>1. ~Exceeds(w)
        BY <2>2 DEF Write, MayWrite, TypeOK
      <4>2. MaxSize \in Nat /\ size \in Nat /\ Len(rest[w]) \in Nat
        BY <1>a
      <4>3. ~(size + Len(rest[w]) > MaxSize)
        BY <4>1 DEF Exceeds
      <4>. QED
        BY <4>2, <4>3
    <3>2. Len(file'[fd]) = Len(file[fd]) + n
      BY <1>1
    <3>3. Len(file'[fd]) <= MaxSize
      <4>1. MaxSize \in Nat
        OBVIOUS
      <4>2. Len(file'[fd]) = size + n
        BY <1>a, <3>2
      <4>3. size + n <= MaxSize
        <5>1. n <= Len(rest[w]) /\ n \in Nat /\ size \in Nat /\ Len(rest[w]) \in Nat
          BY <1>a
        <5>. QED
          BY <3>1, <4>1, <5>1
      <4>. QED
        BY <4>2, <4>3
    <3>. QED
      BY <2>2, <3>3
  <2>3. CASE i = fd /\ busy # NoWriter
    <3>1. busy = w /\ idx = 0 /\ fd = 0
      BY <2>3 DEF Write, MayWrite
    <3>2. file[fd] = <<>>
      BY <2>3, <3>1 DEF RotationSound
    <3>3. Len(file'[fd]) <= m
      BY <1>1, <1>2, <3>2
    <3>. QED
      BY <2>3, <3>3
  <2>. QED
    BY <2>1, <2>2, <2>3
<1>5. \A i \in Indices : \A k \in DOMAIN file'[i] :
        \/ k \in DOMAIN file[i] /\ file'[i][k] = file[i][k]
        \/ /\ i = fd /\ k - Len(file[fd]) \in 1..n
           /\ k - Len(file[fd]) \in DOMAIN rest[w]
           /\ file'[i][k] = rest[w][k - Len(file[fd])]
  <2>. TAKE i \in Indices
  <2>1. CASE i # fd
    BY <1>1, <2>1
  <2>2. CASE i = fd
    <3>. TAKE k \in DOMAIN file'[i]
    <3>1. k \in 1..(Len(file[fd]) + n)
      BY <1>b, <2>2
    <3>2. CASE k <= Len(file[fd])
      BY <1>1, <1>a, <1>b, <2>2, <3>1, <3>2
    <3>3. CASE k > Len(file[fd])
      <4>1. k - Len(file[fd]) \in 1..n /\ k = Len(file[fd]) + (k - Len(file[fd]))
        BY <1>a, <3>1, <3>3
      <4>2. k - Len(file[fd]) \in DOMAIN rest[w]
        BY <1>a, <1>b, <4>1
      <4>3. \A l \in 1..n : file'[fd][Len(file[fd]) + l] = rest[w][l]
        BY <1>1
      <4>4. file'[fd][k] = rest[w][k - Len(file[fd])]
        <5>. DEFINE l == k - Len(file[fd])
        <5>1. l \in 1..n /\ k = Len(file[fd]) + l
          BY <4>1
        <5>. HIDE DEF l
        <5>2. file'[fd][k] = rest[w][l]
          BY <4>3, <5>1
        <5>. QED
          BY <5>2 DEF l
      <4>. QED
        BY <2>2, <4>1, <4>2, <4>4
    <3>. QED
      BY <1>a, <3>1, <3>2, <3>3
  <2>. QED
    BY <2>1, <2>2
<1>6. \A u \in Writers : \A k \in DOMAIN rest'[u] :
        \/ u # w /\ k \in DOMAIN rest[u] /\ rest'[u][k] = rest[u][k]
        \/ u = w /\ k \in Nat /\ k >= 1 /\ k + n \in DOMAIN rest[w] /\ rest'[u][k] = rest[w][k + n]
  <2>. TAKE u \in Writers
  <2>1. CASE u # w
    BY <1>1, <2>1
  <2>2. CASE u = w
    <3>. TAKE k \in DOMAIN rest'[u]
    <3>1. k \in 1..(Len(rest[w]) - n) /\ k + n \in 1..Len(rest[w])
      BY <1>a, <1>b, <2>2
    <3>2. rest'[w][k] = rest[w][k + n]
      BY <1>1, <3>1
    <3>. QED
      BY <1>a, <1>b, <2>2, <3>1, <3>2
  <2>. QED
    BY <2>1, <2>2
<1>7. NoPieceTwice'
  <2>. SUFFICES ASSUME NEW i \in Indices, NEW j \in Indices,
                       NEW k \in DOMAIN file'[i], NEW l \in DOMAIN file'[j],
                       file'[i][k] = file'[j][l]
                PROVE  i = j /\ k = l
    BY DEF NoPieceTwice, Indices
  <2>1. k \in Nat /\ l \in Nat
    <3>1. file'[i] \in Seq(Pieces) /\ file'[j] \in Seq(Pieces)
      BY <1>1
    <3>. QED
      BY <3>1
  <2>2. CASE k \in DOMAIN file[i] /\ file'[i][k] = file[i][k]
    <3>1. CASE l \in DOMAIN file[j] /\ file'[j][l] = file[j][l]
      <4>1. file[i][k] = file[j][l]
        BY <2>2, <3>1
      <4>. QED
        BY <2>2, <3>1, <4>1 DEF NoPieceTwice
    <3>2. CASE ~(l \in DOMAIN file[j] /\ file'[j][l] = file[j][l])
      <4>1. PICK o \in DOMAIN rest[w] : file'[j][l] = rest[w][o]
        BY <1>5, <3>2
      <4>2. rest[w][o] # file[i][k]
        BY <2>2, <4>1 DEF RestIsNew
      <4>. QED
        BY <2>2, <4>1, <4>2
    <3>. QED
      BY <3>1, <3>2
  <2>3. CASE ~(k \in DOMAIN file[i] /\ file'[i][k] = file[i][k])
    <3>1. CASE l \in DOMAIN file[j] /\ file'[j][l] = file[j][l]
      BY <1>5, <2>3, <3>1 DEF RestIsNew
    <3>2. CASE ~(l \in DOMAIN file[j] /\ file'[j][l] = file[j][l])
      <4>1. i = fd /\ j = fd /\ k - Len(file[fd]) = l - Len(file[fd])
        BY <1>5, <2>3, <3>2 DEF RestIsNew
      <4>. QED
        BY <1>1, <2>1, <4>1
    <3>. QED
      BY <3>1, <3>2
  <2>. QED
    BY <2>2, <2>3
<1>8. RestIsNew'
  <2>1. \A u \in Writers : \A k \in DOMAIN rest'[u] : rest'[u][k][1] <= written'
    <3>1. \A u \in Writers : \A k \in DOMAIN rest[u] : rest[u][k][1] <= written
      BY DEF RestIsNew
    <3>2. written' = written
      BY <1>1
    <3>. QED
      BY <1>6, <3>1, <3>2
  <2>2. \A i \in Indices : \A k \in DOMAIN file'[i] : file'[i][k][1] <= written'
    <3>1. /\ \A k \in DOMAIN rest[w] : rest[w][k][1] <= written
          /\ \A i \in Indices : \A k \in DOMAIN file[i] : file[i][k][1] <= written
      BY DEF RestIsNew
    <3>2. written' = written
      BY <1>1
    <3>. QED
      BY <1>5, <3>1, <3>2
  <2>3. \A i \in Indices : \A k \in DOMAIN file'[i] :
            \A u \in Writers : \A l \in DOMAIN rest'[u] : rest'[u][l] # file'[i][k]
    <3>. SUFFICES ASSUME NEW i \in Indices, NEW k \in DOMAIN file'[i],
                         NEW u \in Writers, NEW l \in DOMAIN rest'[u],
                         rest'[u][l] = file'[i][k]
                  PROVE  FALSE
      OBVIOUS
    <3>1. CASE k \in DOMAIN file[i] /\ file'[i][k] = file[i][k]
      BY <1>6, <3>1 DEF RestIsNew
    <3>2. CASE ~(k \in DOMAIN file[i] /\ file'[i][k] = file[i][k])
      <4>1. /\ k - Len(file[fd]) \in 1..n /\ k - Len(file[fd]) \in DOMAIN rest[w]
            /\ file'[i][k] = rest[w][k - Len(file[fd])]
        BY <1>5, <3>2
      <4>2. u = w /\ l \in Nat /\ l >= 1 /\ l + n = k - Len(file[fd])
        BY <1>6, <4>1 DEF RestIsNew
      <4>. QED
        BY <1>1, <4>1, <4>2
    <3>. QED
      BY <3>1, <3>2
  <2>4. \A u, v \in Writers : \A k \in DOMAIN rest'[u], l \in DOMAIN rest'[v] :
            rest'[u][k] = rest'[v][l] => u = v /\ k = l
    <3>. SUFFICES ASSUME NEW u \in Writers, NEW v \in Writers,
                         NEW k \in DOMAIN rest'[u], NEW l \in DOMAIN rest'[v],
                         rest'[u][k] = rest'[v][l]
                  PROVE  u = v /\ k = l
      OBVIOUS
    <3>1. u = v
      BY <1>6 DEF RestIsNew
    <3>2. CASE u = w
      <4>1. k + n = l + n /\ k \in Nat /\ l \in Nat
        BY <1>6, <3>1, <3>2 DEF RestIsNew
      <4>. QED
        BY <1>1, <3>1, <4>1
    <3>3. CASE u # w
      BY <1>6, <3>1, <3>3 DEF RestIsNew
    <3>. QED
      BY <3>1, <3>2, <3>3
  <2>. QED
    BY <2>1, <2>2, <2>3, <2>4 DEF RestIsNew, Indices
<1>9. WriterOnTop' /\ RotationSound'
  BY <1>1 DEF WriterOnTop, RotationSound, Indices
<1>. QED
  BY <1>3, <1>4, <1>7, <1>8, <1>9

LEMMA NextSound == IInv /\ [Next]_vars => Sound'
<1>. SUFFICES ASSUME IInv, [Next]_vars PROVE Sound'
  OBVIOUS
<1>1. CASE Restart
  BY <1>1, RestartStep
<1>2. ASSUME NEW w \in Writers, Step(w) PROVE Sound'
  <2>1. CASE Log(w)
    BY <2>1, LogStep
  <2>2. CASE BeginRotation(w)
    BY <2>2, BeginStep
  <2>3. CASE Shift(w)
    BY <2>3, ShiftStep
  <2>4. CASE ShiftFails(w)
    <3>1. Fail(w) /\ UNCHANGED <<fd, size, written>>
      BY <2>4 DEF ShiftFails
    <3>. QED
      BY <2>4, <3>1, GiveUp
  <2>5. CASE Reopened(w)
    BY <2>5, ReopenedStep
  <2>6. CASE ReopenFails(w)
    <3>1. Fail(w) /\ UNCHANGED <<exists, file, fd, size, written>>
      BY <2>6 DEF ReopenFails
    <3>. QED
      BY <3>1, GiveUp
  <2>7. CASE Write(w)
    BY <2>7, WriteStep
  <2>8. CASE WriteFails(w)
    <3>1. Fail(w) /\ UNCHANGED <<exists, file, fd, size, written>>
      BY <2>8 DEF WriteFails
    <3>. QED
      BY <3>1, GiveUp
  <2>. QED
    BY <1>2, <2>1, <2>2, <2>3, <2>4, <2>5, <2>6, <2>7, <2>8 DEF Step
<1>3. CASE UNCHANGED vars
  <2>1. UNCHANGED <<exists, file, fd, size, rest, busy, idx, written, trouble>>
    BY <1>3 DEF vars
  <2>2. TypeOK'
    BY <2>1 DEF IInv, TypeOK, Indices
  <2>3. SizeBound' /\ NoPieceTwice'
    BY <2>1 DEF IInv, SizeBound, NoPieceTwice, Indices
  <2>4. RestIsNew'
    BY <2>1 DEF IInv, RestIsNew, Indices
  <2>5. WriterOnTop' /\ RotationSound'
    BY <2>1 DEF IInv, WriterOnTop, RotationSound, Exceeds, Indices
  <2>. QED
    BY <2>2, <2>3, <2>4, <2>5 DEF Sound
<1>. QED
  BY <1>1, <1>2, <1>3 DEF Next

(* As long as nothing fails, what RotatedFull says of the threads, of the  *)
(* writer, of the gaps between the files and of the rotated ones.          *)
RestsFit == \A w \in Writers : rest[w] # <<>> =>
                \E n \in Lengths : Len(rest[w]) <= n /\ n <= MaxSize
OnPath   == fd = 0 \/ (busy # NoWriter /\ idx = 0)
NoGap    == \A i \in exists, j \in Indices :
                j < i => j \in exists \/ (busy # NoWriter /\ j = idx)
AllFull  == \A i \in exists \ {0} :
                \E n \in Lengths : Len(file[i]) + n > MaxSize /\ n <= MaxSize

LEMMA RotatedFullParts ==
  /\ RotatedFull <=> (~trouble => RestsFit /\ OnPath /\ NoGap /\ AllFull)
  /\ RotatedFull' <=> (~trouble' => RestsFit' /\ OnPath' /\ NoGap' /\ AllFull')
BY DEF RotatedFull, RestsFit, OnPath, NoGap, AllFull, Indices

(* A shift moves the gap down by one.  The file it takes from path had no  *)
(* room for the record the rotation is for; the other files had none       *)
(* before.                                                                 *)
LEMMA ShiftFull ==
  ASSUME IInv, NEW w \in Writers, Shift(w), RestsFit, OnPath, NoGap, AllFull
  PROVE  RestsFit' /\ OnPath' /\ NoGap' /\ AllFull'
<1>. USE SizeAssumption DEF IInv
<1>1. busy = w /\ w # NoWriter /\ idx > 0 /\ idx \in Indices /\ idx \in Nat
  BY DEF Shift, TypeOK, Indices
<1>2. fd = 0 /\ Exceeds(w) /\ rest[w] # <<>> /\ size = Len(file[0])
  BY <1>1 DEF OnPath, RotationSound, WriterOnTop
<1>3. idx' = idx - 1 /\ UNCHANGED <<rest, busy>>
  BY DEF Shift
<1>4. RestsFit'
  BY <1>3 DEF RestsFit
<1>5. CASE idx - 1 \in exists
  <2>1. /\ idx - 1 \in Indices /\ exists' = (exists \ {idx - 1}) \cup {idx}
        /\ file'[idx] = file[idx - 1]
        /\ \A i \in Indices \ {idx, idx - 1} : file'[i] = file[i]
        /\ fd' = IF fd = idx - 1 THEN idx ELSE fd
    BY <1>5, Shifted
  <2>2. OnPath'
    BY <1>1, <1>2, <1>3, <2>1 DEF OnPath
  <2>3. NoGap'
    <3>1. SUFFICES ASSUME NEW i \in exists', NEW j \in Indices, j < i, j # idx - 1
                   PROVE  j \in exists'
      BY <1>1, <1>3 DEF NoGap, Indices
    <3>2. i \in Nat /\ j \in Nat
      BY <2>1, <3>1 DEF TypeOK, Indices
    <3>3. CASE i = idx
      BY <1>1, <1>5, <2>1, <3>1, <3>2, <3>3 DEF NoGap
    <3>4. CASE i # idx
      BY <1>1, <2>1, <3>1, <3>4 DEF NoGap
    <3>. QED
      BY <3>3, <3>4
  <2>4. AllFull'
    <3>1. SUFFICES ASSUME NEW i \in exists', i # 0
                   PROVE  \E n \in Lengths : Len(file'[i]) + n > MaxSize /\ n <= MaxSize
      BY DEF AllFull
    <3>2. CASE i # idx
      BY <2>1, <3>1, <3>2 DEF AllFull, TypeOK
    <3>3. CASE i = idx /\ idx - 1 # 0
      BY <1>5, <2>1, <3>3 DEF AllFull
    <3>4. CASE i = idx /\ idx - 1 = 0
      <4>1. PICK n \in Lengths : Len(rest[w]) <= n /\ n <= MaxSize
        BY <1>2 DEF RestsFit
      <4>2. size + Len(rest[w]) > MaxSize /\ size = Len(file'[i])
        BY <1>2, <2>1, <3>4 DEF Exceeds
      <4>3. size \in Nat /\ Len(rest[w]) \in Nat /\ n \in Nat /\ MaxSize \in Nat
        BY <4>1 DEF TypeOK
      <4>4. size + n > MaxSize
        <5>1. \A a, b, c, d \in Nat : a + b > c /\ b <= d => a + d > c
          OBVIOUS
        <5>. QED
          BY <4>1, <4>2, <4>3, <5>1
      <4>. QED
        BY <4>1, <4>2, <4>4
    <3>. QED
      BY <3>2, <3>3, <3>4
  <2>. QED
    BY <1>4, <2>2, <2>3, <2>4
<1>6. CASE idx - 1 \notin exists
  <2>1. UNCHANGED <<exists, file, fd>>
    BY <1>6 DEF Shift
  <2>2. OnPath'
    BY <1>2, <2>1 DEF OnPath
  <2>3. NoGap'
    <3>1. SUFFICES ASSUME NEW i \in exists, NEW j \in Indices, j < i, j # idx - 1
                   PROVE  j \in exists
      BY <1>1, <1>3, <2>1 DEF NoGap, Indices
    <3>2. i \in Nat /\ j \in Nat /\ idx - 1 \in Indices
      BY <1>1, <3>1 DEF TypeOK, Indices
    <3>3. i < idx
      BY <1>1, <1>6, <3>1, <3>2 DEF NoGap
    <3>. QED
      BY <1>1, <3>1, <3>2, <3>3 DEF NoGap
  <2>4. AllFull'
    BY <2>1 DEF AllFull
  <2>. QED
    BY <1>4, <2>2, <2>3, <2>4
<1>. QED
  BY <1>5, <1>6

(* A write is to path, and leaves less of the record.                      *)
LEMMA WriteFull ==
  ASSUME IInv, NEW w \in Writers, Write(w), RestsFit, OnPath, NoGap, AllFull
  PROVE  RestsFit' /\ OnPath' /\ NoGap' /\ AllFull'
<1>. USE SizeAssumption DEF IInv
<1>1. PICK n \in 1..Len(rest[w]) :
        /\ n \in Nat /\ Len(rest[w]) \in Nat
        /\ \A i \in Indices \ {fd} : file'[i] = file[i]
        /\ \A u \in Writers \ {w} : rest'[u] = rest[u]
        /\ Len(rest'[w]) = Len(rest[w]) - n
        /\ busy' = NoWriter /\ UNCHANGED <<exists, fd, idx>>
  BY Written
<1>2. fd = 0 /\ fd \in exists /\ (busy # NoWriter => idx = 0)
  <2>1. MayWrite(w)
    BY DEF Write
  <2>2. busy = NoWriter \/ (idx = 0 /\ fd = 0)
    BY <2>1 DEF MayWrite
  <2>. QED
    BY <2>2 DEF OnPath, TypeOK
<1>3. RestsFit'
  <2>1. SUFFICES ASSUME NEW u \in Writers, rest'[u] # <<>>
                 PROVE  \E m \in Lengths : Len(rest'[u]) <= m /\ m <= MaxSize
    BY DEF RestsFit
  <2>2. CASE u # w
    BY <1>1, <2>1, <2>2 DEF RestsFit
  <2>3. CASE u = w
    <3>1. rest[w] # <<>>
      BY <1>1
    <3>2. PICK m \in Lengths : Len(rest[w]) <= m /\ m <= MaxSize
      BY <3>1 DEF RestsFit
    <3>3. Len(rest[w]) - n <= m
      BY <1>1, <3>2
    <3>. QED
      BY <1>1, <2>3, <3>2, <3>3
  <2>. QED
    BY <2>2, <2>3
<1>4. OnPath'
  BY <1>1, <1>2 DEF OnPath
<1>5. NoGap'
  BY <1>1, <1>2 DEF NoGap, Indices
<1>6. AllFull'
  BY <1>1, <1>2 DEF AllFull, TypeOK
<1>. QED
  BY <1>3, <1>4, <1>5, <1>6

LEMMA RotatedFullStep == IInv /\ [Next]_vars => RotatedFull'
<1>. SUFFICES ASSUME IInv, [Next]_vars, ~trouble'
              PROVE  RestsFit' /\ OnPath' /\ NoGap' /\ AllFull'
  BY RotatedFullParts
<1>. USE SizeAssumption
<1>1. ASSUME NEW w \in Writers, Fail(w) PROVE FALSE
  BY <1>1 DEF Fail
<1>2. CASE Restart
  BY <1>2 DEF Restart
<1>3. CASE UNCHANGED vars
  BY <1>3, RotatedFullParts
     DEF IInv, vars, RestsFit, OnPath, NoGap, AllFull, Indices
<1>4. ASSUME NEW w \in Writers, Log(w)
      PROVE  RestsFit' /\ OnPath' /\ NoGap' /\ AllFull'
  <2>1. TypeOK
    BY DEF IInv
  <2>2. /\ UNCHANGED <<exists, file, fd, size, busy, idx>> /\ rest[w] = <<>>
        /\ \A u \in Writers \ {w} : rest'[u] = rest[u]
        /\ Len(rest'[w]) \in Lengths
    BY <1>4, <2>1, Logged
  <2>3. ~trouble /\ Len(rest'[w]) <= MaxSize
    <3>1. PICK n \in Lengths : /\ rest' = [rest EXCEPT ![w] = [i \in 1..n |-> <<written + 1, i>>]]
                               /\ trouble' = (trouble \/ n > MaxSize)
      BY <1>4 DEF Log
    <3>2. ~trouble /\ ~(n > MaxSize)
      BY <3>1, Zenon
    <3>3. n \in Nat /\ Len([i \in 1..n |-> <<written + 1, i>>]) = n
      OBVIOUS
    <3>4. rest'[w] = [i \in 1..n |-> <<written + 1, i>>]
      BY <2>1, <3>1 DEF TypeOK
    <3>. QED
      BY <3>2, <3>3, <3>4
  <2>4. RestsFit /\ OnPath /\ NoGap /\ AllFull
    BY <2>3, RotatedFullParts DEF IInv
  <2>5. RestsFit'
    <3>1. Len(rest'[w]) <= Len(rest'[w])
      BY <2>2
    <3>. QED
      BY <2>2, <2>3, <2>4, <3>1 DEF RestsFit
  <2>. QED
    BY <2>2, <2>4, <2>5 DEF OnPath, NoGap, AllFull, Indices
<1>5. ASSUME NEW w \in Writers, BeginRotation(w)
      PROVE  RestsFit' /\ OnPath' /\ NoGap' /\ AllFull'
  <2>1. RestsFit /\ OnPath /\ NoGap /\ AllFull
    BY <1>5, RotatedFullParts DEF IInv, BeginRotation
  <2>. QED
    BY <1>5, <2>1 DEF BeginRotation, RestsFit, OnPath, NoGap, AllFull, Indices
<1>6. ASSUME NEW w \in Writers, Shift(w)
      PROVE  RestsFit' /\ OnPath' /\ NoGap' /\ AllFull'
  BY <1>6, ShiftFull, RotatedFullParts DEF IInv, Shift
<1>7. ASSUME NEW w \in Writers, Reopened(w)
      PROVE  RestsFit' /\ OnPath' /\ NoGap' /\ AllFull'
  <2>1. RestsFit /\ OnPath /\ NoGap /\ AllFull
    BY <1>7, RotatedFullParts DEF IInv, Reopened
  <2>. QED
    BY <1>7, <2>1 DEF Reopened, RestsFit, OnPath, NoGap, AllFull, Indices
<1>8. ASSUME NEW w \in Writers, Write(w)
      PROVE  RestsFit' /\ OnPath' /\ NoGap' /\ AllFull'
  BY <1>8, WriteFull, RotatedFullParts DEF IInv, Write
<1>. QED
  BY <1>1, <1>2, <1>3, <1>4, <1>5, <1>6, <1>7, <1>8
     DEF Next, Step, ShiftFails, ReopenFails, WriteFails

LEMMA InitIInv == Init => IInv
<1>. SUFFICES ASSUME Init PROVE IInv
  OBVIOUS
<1>1. RotatedFull
  <2>1. \A j \in Indices : ~(j < 0)
    BY SizeAssumption DEF Indices
  <2>. QED
    BY <2>1 DEF Init, RotatedFull
<1>. QED
  BY <1>1, InitSound DEF Sound, IInv

LEMMA NextIInv == IInv /\ [Next]_vars => IInv'
BY NextSound, RotatedFullStep DEF Sound, IInv

(* Always: no file outgrows the limit but for a record that alone is       *)
(* longer; no piece is in the files twice; the writer is at the newest end *)
(* and knows the size there, whatever has failed and wherever the process  *)
(* was killed; and a rotation always has a hole to shift into.             *)
THEOREM Invariance == Spec => []IInv
BY InitIInv, NextIInv, PTL DEF Spec

-----------------------------------------------------------------------------
(* The log in the files F: what Kept and Older are of file. *)

KeptOf(F) == UNION {ToSet(F[i]) : i \in Indices}

Within(F) == UNION {InOrder(F[i]) : i \in Indices}

Across(F) == UNION {ToSet(F[n[1]]) \X ToSet(F[n[2]]) : n \in Downwards}

OlderOf(F) == Within(F) \cup Across(F)

Files == [Indices -> Seq(Pieces)]

(* p is the k-th piece of file i.                                          *)
Sits(F, i, k, p) == i \in Indices /\ k \in DOMAIN F[i] /\ F[i][k] = p

(* The place k of file i is read before the place l of file j.             *)
Above(i, k, j, l) == i > j \/ (i = j /\ k < l)

Unique(F) == \A i, j, k, l, p : Sits(F, i, k, p) /\ Sits(F, j, l, p) => i = j /\ k = l

LEMMA IndicesNat == Indices \subseteq Nat
BY SizeAssumption DEF Indices

LEMMA PlacesNat ==
  ASSUME NEW F \in Files
  PROVE  \A i, k, p : Sits(F, i, k, p) => i \in Nat /\ k \in Nat
<1>. SUFFICES ASSUME NEW i, NEW k, NEW p, Sits(F, i, k, p) PROVE i \in Nat /\ k \in Nat
  OBVIOUS
<1>1. i \in Indices /\ F[i] \in Seq(Pieces) /\ k \in DOMAIN F[i]
  BY DEF Sits, Files
<1>. QED
  BY <1>1, IndicesNat

(* A piece is kept if it has a place.                                      *)
LEMMA InKept ==
  ASSUME NEW F
  PROVE  \A p : p \in KeptOf(F) <=> \E i, k : Sits(F, i, k, p)
<1>. SUFFICES ASSUME NEW p PROVE p \in KeptOf(F) <=> \E i, k : Sits(F, i, k, p)
  OBVIOUS
<1>1. ASSUME p \in KeptOf(F) PROVE \E i, k : Sits(F, i, k, p)
  <2>1. PICK i \in Indices : p \in ToSet(F[i])
    BY <1>1 DEF KeptOf
  <2>2. PICK k \in DOMAIN F[i] : F[i][k] = p
    BY <2>1 DEF ToSet
  <2>. QED
    BY <2>2 DEF Sits
<1>2. ASSUME NEW i, NEW k, Sits(F, i, k, p) PROVE p \in KeptOf(F)
  <2>1. p \in ToSet(F[i]) /\ i \in Indices
    BY <1>2 DEF Sits, ToSet
  <2>. QED
    BY <2>1 DEF KeptOf
<1>. QED
  BY <1>1, <1>2

(* Of two pieces, the one whose place is read first is the older.          *)
LEMMA InOlder ==
  ASSUME NEW F \in Files
  PROVE  /\ \A p, q : <<p, q>> \in OlderOf(F) <=>
                \E i, j, k, l : Sits(F, i, k, p) /\ Sits(F, j, l, q) /\ Above(i, k, j, l)
         /\ \A x \in OlderOf(F) : \E p, q \in KeptOf(F) : x = <<p, q>>
<1>1. ASSUME NEW x \in OlderOf(F)
      PROVE  \E i, j, k, l, p, q :
                x = <<p, q>> /\ Sits(F, i, k, p) /\ Sits(F, j, l, q) /\ Above(i, k, j, l)
  <2>1. CASE \E i \in Indices : x \in InOrder(F[i])
    <3>1. PICK i \in Indices : x \in InOrder(F[i])
      BY <2>1
    <3>2. PICK m \in {m \in (1..Len(F[i])) \X (1..Len(F[i])) : m[1] < m[2]} :
              x = <<F[i][m[1]], F[i][m[2]]>>
      BY <3>1 DEF InOrder
    <3>3. m[1] \in 1..Len(F[i]) /\ m[2] \in 1..Len(F[i]) /\ m[1] < m[2]
      BY <3>2
    <3>4. DOMAIN F[i] = 1..Len(F[i])
      BY DEF Files
    <3>5. Sits(F, i, m[1], F[i][m[1]]) /\ Sits(F, i, m[2], F[i][m[2]]) /\ Above(i, m[1], i, m[2])
      BY <3>3, <3>4 DEF Sits, Above
    <3>. QED
      BY <3>2, <3>5
  <2>2. CASE \E n \in Downwards : x \in ToSet(F[n[1]]) \X ToSet(F[n[2]])
    <3>1. PICK n \in Downwards :
              x \in ToSet(F[n[1]]) \X ToSet(F[n[2]])
      BY <2>2
    <3>2. n[1] \in Indices /\ n[2] \in Indices /\ n[1] > n[2]
      BY <3>1 DEF Downwards
    <3>3. PICK p \in ToSet(F[n[1]]), q \in ToSet(F[n[2]]) : x = <<p, q>>
      BY <3>1
    <3>4. PICK k \in DOMAIN F[n[1]] : F[n[1]][k] = p
      BY <3>3 DEF ToSet
    <3>5. PICK l \in DOMAIN F[n[2]] : F[n[2]][l] = q
      BY <3>3 DEF ToSet
    <3>6. Sits(F, n[1], k, p) /\ Sits(F, n[2], l, q) /\ Above(n[1], k, n[2], l)
      BY <3>2, <3>4, <3>5 DEF Sits, Above
    <3>. QED
      BY <3>3, <3>6
  <2>3. CASE x \in Within(F)
    BY <2>1, <2>3 DEF Within
  <2>4. CASE x \in Across(F)
    <3>1. x \in UNION {ToSet(F[n[1]]) \X ToSet(F[n[2]]) : n \in Downwards}
      BY <2>4 DEF Across
    <3>2. \E n \in Downwards : x \in ToSet(F[n[1]]) \X ToSet(F[n[2]])
      BY <3>1
    <3>. QED
      BY <2>2, <3>2
  <2>. QED
    BY <2>3, <2>4 DEF OlderOf
<1>2. ASSUME NEW i, NEW j, NEW k, NEW l, NEW p, NEW q,
             Sits(F, i, k, p), Sits(F, j, l, q), Above(i, k, j, l)
      PROVE  <<p, q>> \in OlderOf(F)
  <2>1. CASE i > j
    <3>1. <<i, j>> \in Downwards
      BY <1>2, <2>1 DEF Sits, Downwards
    <3>2. <<p, q>> \in ToSet(F[<<i, j>>[1]]) \X ToSet(F[<<i, j>>[2]])
      BY <1>2 DEF Sits, ToSet
    <3>3. \E n \in Downwards : <<p, q>> \in ToSet(F[n[1]]) \X ToSet(F[n[2]])
      BY <3>1, <3>2
    <3>4. <<p, q>> \in UNION {ToSet(F[n[1]]) \X ToSet(F[n[2]]) : n \in Downwards}
      BY <3>3
    <3>. QED
      BY <3>4 DEF OlderOf, Across
  <2>2. CASE i = j /\ k < l
    <3>1. i \in Indices /\ k \in 1..Len(F[i]) /\ l \in 1..Len(F[i])
      BY <1>2, <2>2 DEF Sits, Files
    <3>2. <<k, l>> \in {m \in (1..Len(F[i])) \X (1..Len(F[i])) : m[1] < m[2]}
      BY <2>2, <3>1
    <3>3. <<p, q>> = <<F[i][<<k, l>>[1]], F[i][<<k, l>>[2]]>>
      BY <1>2, <2>2 DEF Sits
    <3>4. <<p, q>> \in InOrder(F[i])
      BY <3>2, <3>3 DEF InOrder
    <3>. QED
      BY <3>1, <3>4 DEF OlderOf, Within
  <2>. QED
    BY <1>2, <2>1, <2>2 DEF Above
<1>3. ASSUME NEW p, NEW q, <<p, q>> \in OlderOf(F)
      PROVE  \E i, j, k, l : Sits(F, i, k, p) /\ Sits(F, j, l, q) /\ Above(i, k, j, l)
  BY <1>1, <1>3
<1>4. \A x \in OlderOf(F) : \E p, q \in KeptOf(F) : x = <<p, q>>
  BY <1>1, InKept
<1>. QED
  BY <1>2, <1>3, <1>4

(* With no piece twice, the pieces are ordered.                            *)
LEMMA Ordered ==
  ASSUME NEW F \in Files, Unique(F), NEW S, S \subseteq KeptOf(F)
  PROVE  Abstract!Orders(OlderOf(F) \cap (S \X S), S)
<1>. DEFINE R == OlderOf(F) \cap (S \X S)
<1>1. \A p \in S : \E i, k : Sits(F, i, k, p) /\ i \in Nat /\ k \in Nat
  BY InKept, PlacesNat
<1>2. \A p, q \in S : <<p, q>> \in R <=> <<p, q>> \in OlderOf(F)
  OBVIOUS
<1>3. R \subseteq S \X S
  OBVIOUS
<1>4. \A i, j, k, l, p, q : /\ Sits(F, i, k, p) /\ Sits(F, j, l, q)
                            => (<<p, q>> \in OlderOf(F) <=> Above(i, k, j, l))
  BY InOlder DEF Unique
<1>5. \A p, q \in S : <<p, q>> \in R => <<q, p>> \notin R
  <2>. SUFFICES ASSUME NEW p \in S, NEW q \in S, <<p, q>> \in R, <<q, p>> \in R
                PROVE  FALSE
    OBVIOUS
  <2>1. PICK i, k : Sits(F, i, k, p) /\ i \in Nat /\ k \in Nat
    BY <1>1
  <2>2. PICK j, l : Sits(F, j, l, q) /\ j \in Nat /\ l \in Nat
    BY <1>1
  <2>3. Above(i, k, j, l) /\ Above(j, l, i, k)
    BY <1>2, <1>4, <2>1, <2>2
  <2>. QED
    BY <2>1, <2>2, <2>3 DEF Above
<1>6. \A p, q \in S : p # q => <<p, q>> \in R \/ <<q, p>> \in R
  <2>. SUFFICES ASSUME NEW p \in S, NEW q \in S, p # q
                PROVE  <<p, q>> \in OlderOf(F) \/ <<q, p>> \in OlderOf(F)
    BY <1>2
  <2>1. PICK i, k : Sits(F, i, k, p) /\ i \in Nat /\ k \in Nat
    BY <1>1
  <2>2. PICK j, l : Sits(F, j, l, q) /\ j \in Nat /\ l \in Nat
    BY <1>1
  <2>3. ~(i = j /\ k = l)
    BY <2>1, <2>2 DEF Sits
  <2>4. Above(i, k, j, l) \/ Above(j, l, i, k)
    BY <2>1, <2>2, <2>3 DEF Above
  <2>. QED
    BY <1>4, <2>1, <2>2, <2>4
<1>7. \A p, q, r \in S : <<p, q>> \in R /\ <<q, r>> \in R => <<p, r>> \in R
  <2>. SUFFICES ASSUME NEW p \in S, NEW q \in S, NEW r \in S, <<p, q>> \in R, <<q, r>> \in R
                PROVE  <<p, r>> \in OlderOf(F)
    BY <1>2
  <2>1. PICK i, k : Sits(F, i, k, p) /\ i \in Nat /\ k \in Nat
    BY <1>1
  <2>2. PICK j, l : Sits(F, j, l, q) /\ j \in Nat /\ l \in Nat
    BY <1>1
  <2>3. PICK h, m : Sits(F, h, m, r) /\ h \in Nat /\ m \in Nat
    BY <1>1
  <2>4. Above(i, k, j, l) /\ Above(j, l, h, m)
    BY <1>2, <1>4, <2>1, <2>2, <2>3
  <2>5. Above(i, k, h, m)
    BY <2>1, <2>2, <2>3, <2>4 DEF Above
  <2>. QED
    BY <1>4, <2>1, <2>3, <2>5
<1>. HIDE DEF R
<1>8. Abstract!Orders(R, S)
  BY <1>3, <1>5, <1>6, <1>7 DEF Abstract!Orders
<1>. QED
  BY <1>8 DEF R

(* One log, in files and in Kept and Older.                                *)
LEMMA Views ==
  ASSUME TypeOK, NoPieceTwice
  PROVE  file \in Files /\ Unique(file) /\ Kept = KeptOf(file) /\ Older = OlderOf(file)
<1>1. file \in Files
  BY DEF TypeOK, Files, Pieces
<1>2. Kept = KeptOf(file)
  BY DEF Kept, KeptOf
<1>3. Older = OlderOf(file)
  BY DEF Older, OlderOf, Within, Across
<1>4. Unique(file)
  BY DEF Unique, Sits, NoPieceTwice
<1>. QED
  BY <1>1, <1>2, <1>3, <1>4

LEMMA ViewsAfter ==
  ASSUME TypeOK', NoPieceTwice'
  PROVE  file' \in Files /\ Unique(file') /\ Kept' = KeptOf(file') /\ Older' = OlderOf(file')
<1>1. file' \in Files
  BY DEF TypeOK, Files, Pieces, Indices
<1>2. Kept' = KeptOf(file')
  BY DEF Kept, KeptOf, Indices
<1>3. Older' = OlderOf(file')
  BY DEF Older, OlderOf, Within, Across, Downwards, Indices
<1>4. Unique(file')
  BY DEF Unique, Sits, NoPieceTwice, Indices
<1>. QED
  BY <1>1, <1>2, <1>3, <1>4

-----------------------------------------------------------------------------
(* What a removal, a shift and a write do to the log. *)

(* Where a shift to d puts the file i.                                     *)
Target(d, i) == IF i = d - 1 THEN d ELSE i

(* G is F without file d, to which the file below may have been shifted.   *)
Without(F, G, d) ==
    \/ G[d] = <<>> /\ \A i \in Indices \ {d} : G[i] = F[i]
    \/ /\ d - 1 \in Indices /\ G[d] = F[d - 1] /\ G[d - 1] = <<>>
       /\ \A i \in Indices \ {d, d - 1} : G[i] = F[i]

(* All the other places are in the same order, with the same pieces.       *)
LEMMA Places ==
  ASSUME NEW F \in Files, NEW G \in Files, NEW d \in Indices, Without(F, G, d)
  PROVE  \/ \A i, k, p : Sits(G, i, k, p) <=> i # d /\ Sits(F, i, k, p)
         \/ \A i, k, p : Sits(G, i, k, p) <=>
                \E h \in Indices : h # d /\ i = Target(d, h) /\ Sits(F, h, k, p)
<1>1. \A i \in Indices : i \in Nat
  BY IndicesNat
<1>2. CASE G[d] = <<>> /\ \A i \in Indices \ {d} : G[i] = F[i]
  BY <1>2 DEF Sits
<1>3. CASE /\ d - 1 \in Indices /\ G[d] = F[d - 1] /\ G[d - 1] = <<>>
           /\ \A i \in Indices \ {d, d - 1} : G[i] = F[i]
  <2>1. d # d - 1
    BY <1>1
  <2>. SUFFICES ASSUME NEW i, NEW k, NEW p
                PROVE  Sits(G, i, k, p) <=>
                          \E h \in Indices : h # d /\ i = Target(d, h) /\ Sits(F, h, k, p)
    OBVIOUS
  <2>2. ASSUME Sits(G, i, k, p)
        PROVE  \E h \in Indices : h # d /\ i = Target(d, h) /\ Sits(F, h, k, p)
    <3>1. i # d - 1
      BY <1>3, <2>2 DEF Sits
    <3>2. CASE i = d
      BY <1>3, <2>1, <2>2, <3>2 DEF Sits, Target
    <3>3. CASE i # d
      BY <1>3, <2>2, <3>1, <3>3 DEF Sits, Target
    <3>. QED
      BY <3>2, <3>3
  <2>3. ASSUME NEW h \in Indices, h # d, i = Target(d, h), Sits(F, h, k, p)
        PROVE  Sits(G, i, k, p)
    <3>1. CASE h = d - 1
      BY <1>3, <2>3, <3>1 DEF Sits, Target
    <3>2. CASE h # d - 1
      BY <1>3, <2>3, <3>2 DEF Sits, Target
    <3>. QED
      BY <3>1, <3>2
  <2>. QED
    BY <2>2, <2>3
<1>. QED
  BY <1>2, <1>3 DEF Without

(* The log loses the pieces of d, and nothing else changes.                *)
LEMMA Shortened ==
  ASSUME NEW F \in Files, NEW G \in Files, NEW d \in Indices, Unique(F), Without(F, G, d)
  PROVE  /\ KeptOf(G) = KeptOf(F) \ ToSet(F[d])
         /\ OlderOf(G) = OlderOf(F) \cap (KeptOf(G) \X KeptOf(G))
<1>1. \A i \in Indices : i \in Nat
  BY IndicesNat
<1>2. \A p : p \in ToSet(F[d]) <=> \E k : Sits(F, d, k, p)
  BY DEF Sits, ToSet
<1>3. \A p : p \in KeptOf(G) <=> \E i, k : i # d /\ Sits(F, i, k, p)
  <2>1. CASE \A i, k, p : Sits(G, i, k, p) <=> i # d /\ Sits(F, i, k, p)
    BY <2>1, InKept
  <2>2. CASE \A i, k, p : Sits(G, i, k, p) <=>
                 \E h \in Indices : h # d /\ i = Target(d, h) /\ Sits(F, h, k, p)
    <3>1. ASSUME NEW p, p \in KeptOf(G) PROVE \E i, k : i # d /\ Sits(F, i, k, p)
      BY <2>2, <3>1, InKept
    <3>2. ASSUME NEW p, NEW i, NEW k, i # d, Sits(F, i, k, p) PROVE p \in KeptOf(G)
      <4>1. i \in Indices
        BY <3>2 DEF Sits
      <4>2. Sits(G, Target(d, i), k, p)
        BY <2>2, <3>2, <4>1
      <4>. QED
        BY <4>2, InKept
    <3>. QED
      BY <3>1, <3>2
  <2>. QED
    BY <2>1, <2>2, Places
<1>4. KeptOf(G) = KeptOf(F) \ ToSet(F[d])
  <2>1. \A p : p \in KeptOf(F) <=> \E i, k : Sits(F, i, k, p)
    BY InKept
  <2>2. \A p : p \in KeptOf(G) <=> p \in KeptOf(F) /\ p \notin ToSet(F[d])
    BY <1>2, <1>3, <2>1 DEF Unique
  <2>. QED
    BY <2>2
<1>5. \A i, j \in Indices : i # d /\ j # d =>
        \A k, l : Above(Target(d, i), k, Target(d, j), l) <=> Above(i, k, j, l)
  BY <1>1 DEF Above, Target
<1>6. \A p, q : <<p, q>> \in OlderOf(G) <=>
        \E i, j, k, l : /\ i # d /\ j # d /\ Sits(F, i, k, p) /\ Sits(F, j, l, q)
                        /\ Above(i, k, j, l)
  <2>. SUFFICES ASSUME NEW p, NEW q
                PROVE  <<p, q>> \in OlderOf(G) <=>
                         \E i, j, k, l : /\ i # d /\ j # d /\ Sits(F, i, k, p) /\ Sits(F, j, l, q)
                                         /\ Above(i, k, j, l)
    OBVIOUS
  <2>1. <<p, q>> \in OlderOf(G) <=>
          \E i, j, k, l : Sits(G, i, k, p) /\ Sits(G, j, l, q) /\ Above(i, k, j, l)
    BY InOlder
  <2>2. CASE \A i, k, o : Sits(G, i, k, o) <=> i # d /\ Sits(F, i, k, o)
    BY <2>1, <2>2
  <2>3. CASE \A i, k, o : Sits(G, i, k, o) <=>
                 \E h \in Indices : h # d /\ i = Target(d, h) /\ Sits(F, h, k, o)
    <3>1. ASSUME NEW i, NEW j, NEW k, NEW l,
                 Sits(G, i, k, p), Sits(G, j, l, q), Above(i, k, j, l)
          PROVE  \E h, g : /\ h # d /\ g # d /\ Sits(F, h, k, p) /\ Sits(F, g, l, q)
                           /\ Above(h, k, g, l)
      <4>1. PICK h \in Indices : h # d /\ i = Target(d, h) /\ Sits(F, h, k, p)
        BY <2>3, <3>1
      <4>2. PICK g \in Indices : g # d /\ j = Target(d, g) /\ Sits(F, g, l, q)
        BY <2>3, <3>1
      <4>. QED
        BY <1>5, <3>1, <4>1, <4>2
    <3>2. ASSUME NEW h, NEW g, NEW k, NEW l, h # d, g # d,
                 Sits(F, h, k, p), Sits(F, g, l, q), Above(h, k, g, l)
          PROVE  /\ Sits(G, Target(d, h), k, p) /\ Sits(G, Target(d, g), l, q)
                 /\ Above(Target(d, h), k, Target(d, g), l)
      <4>1. h \in Indices /\ g \in Indices
        BY <3>2 DEF Sits
      <4>. QED
        BY <1>5, <2>3, <3>2, <4>1
    <3>. QED
      BY <2>1, <3>1, <3>2
  <2>. QED
    BY <2>2, <2>3, Places
<1>7. \A p, q : <<p, q>> \in OlderOf(G) <=>
        <<p, q>> \in OlderOf(F) /\ p \in KeptOf(G) /\ q \in KeptOf(G)
  <2>1. \A p, q : <<p, q>> \in OlderOf(F) <=>
          \E i, j, k, l : Sits(F, i, k, p) /\ Sits(F, j, l, q) /\ Above(i, k, j, l)
    BY InOlder
  <2>. SUFFICES ASSUME NEW p, NEW q
                PROVE  <<p, q>> \in OlderOf(G) <=>
                         <<p, q>> \in OlderOf(F) /\ p \in KeptOf(G) /\ q \in KeptOf(G)
    OBVIOUS
  <2>2. ASSUME <<p, q>> \in OlderOf(G)
        PROVE  <<p, q>> \in OlderOf(F) /\ p \in KeptOf(G) /\ q \in KeptOf(G)
    <3>1. PICK i, j, k, l : /\ i # d /\ j # d /\ Sits(F, i, k, p) /\ Sits(F, j, l, q)
                            /\ Above(i, k, j, l)
      BY <1>6, <2>2
    <3>. QED
      BY <1>3, <2>1, <3>1
  <2>3. ASSUME <<p, q>> \in OlderOf(F), p \in KeptOf(G), q \in KeptOf(G)
        PROVE  <<p, q>> \in OlderOf(G)
    <3>1. PICK i, j, k, l : Sits(F, i, k, p) /\ Sits(F, j, l, q) /\ Above(i, k, j, l)
      BY <2>1, <2>3
    <3>2. i # d /\ j # d
      BY <1>3, <2>3, <3>1 DEF Unique
    <3>. QED
      BY <1>6, <3>1, <3>2
  <2>. QED
    BY <2>2, <2>3
<1>8. \A x \in OlderOf(G) : \E p, q \in KeptOf(G) : x = <<p, q>>
  BY InOlder
<1>. QED
  BY <1>4, <1>7, <1>8

(* If d is the highest file it was the oldest part of the log.             *)
LEMMA OldestDropped ==
  ASSUME NEW F \in Files, NEW G \in Files, Unique(F), Without(F, G, MaxFiles)
  PROVE  ToSet(F[MaxFiles]) \X KeptOf(G) \subseteq OlderOf(F)
<1>1. MaxFiles \in Indices /\ \A i \in Indices : i \in Nat /\ i <= MaxFiles
  BY SizeAssumption DEF Indices
<1>2. KeptOf(G) = KeptOf(F) \ ToSet(F[MaxFiles])
  BY <1>1, Shortened
<1>. SUFFICES ASSUME NEW p \in ToSet(F[MaxFiles]), NEW q \in KeptOf(G)
              PROVE  <<p, q>> \in OlderOf(F)
  OBVIOUS
<1>3. PICK k : Sits(F, MaxFiles, k, p)
  BY <1>1 DEF Sits, ToSet
<1>4. PICK j, l : Sits(F, j, l, q)
  BY <1>2, InKept
<1>5. j # MaxFiles
  BY <1>2, <1>4 DEF Sits, ToSet
<1>6. Above(MaxFiles, k, j, l)
  BY <1>1, <1>4, <1>5, SizeAssumption DEF Above, Sits
<1>. QED
  BY <1>3, <1>4, <1>6, InOlder

(* A write puts new pieces above the newest place.                         *)
LEMMA Extended ==
  ASSUME NEW F \in Files, NEW G \in Files, NEW d \in Indices, NEW n \in Nat \ {0}, Unique(G),
         \A i \in Indices \ {d} : G[i] = F[i],
         Len(G[d]) = Len(F[d]) + n,
         \A k \in 1..Len(F[d]) : G[d][k] = F[d][k],
         \A i \in Indices : i < d => F[i] = <<>>
  PROVE  LET new == KeptOf(G) \ KeptOf(F) IN
         /\ KeptOf(F) \subseteq KeptOf(G) /\ new # {}
         /\ OlderOf(G) = OlderOf(F) \cup (KeptOf(F) \X new) \cup (OlderOf(G) \cap (new \X new))
<1>. DEFINE new == KeptOf(G) \ KeptOf(F)
<1>1. \A i \in Indices : i \in Nat
  BY IndicesNat
<1>2. /\ Len(F[d]) \in Nat /\ DOMAIN F[d] = 1..Len(F[d]) /\ DOMAIN G[d] = 1..(Len(F[d]) + n)
  <2>1. F[d] \in Seq(Pieces) /\ G[d] \in Seq(Pieces)
    BY DEF Files
  <2>. QED
    BY <2>1
<1>3. \A i, k, p : Sits(F, i, k, p) => Sits(G, i, k, p)
  <2>. SUFFICES ASSUME NEW i, NEW k, NEW p, Sits(F, i, k, p) PROVE Sits(G, i, k, p)
    OBVIOUS
  <2>1. CASE i = d
    BY <1>2, <2>1 DEF Sits
  <2>2. CASE i # d
    BY <2>2 DEF Sits
  <2>. QED
    BY <2>1, <2>2
<1>4. \A i, k, p : Sits(G, i, k, p) => Sits(F, i, k, p) \/ (i = d /\ k \in Nat /\ k > Len(F[d]))
  <2>. SUFFICES ASSUME NEW i, NEW k, NEW p, Sits(G, i, k, p)
                PROVE  Sits(F, i, k, p) \/ (i = d /\ k \in Nat /\ k > Len(F[d]))
    OBVIOUS
  <2>1. CASE i = d
    BY <1>2, <2>1 DEF Sits
  <2>2. CASE i # d
    BY <2>2 DEF Sits
  <2>. QED
    BY <2>1, <2>2
<1>5. \A i, k, p : Sits(F, i, k, p) => i \in Nat /\ k \in Nat /\ (i > d \/ (i = d /\ k <= Len(F[d])))
  <2>. SUFFICES ASSUME NEW i, NEW k, NEW p, Sits(F, i, k, p)
                PROVE  i \in Nat /\ k \in Nat /\ (i > d \/ (i = d /\ k <= Len(F[d])))
    OBVIOUS
  <2>1. i \in Nat /\ k \in Nat /\ d \in Nat
    BY <1>1, PlacesNat
  <2>2. ~(i < d)
    BY DEF Sits
  <2>3. i = d => k <= Len(F[d])
    BY <1>2 DEF Sits
  <2>. QED
    BY <2>1, <2>2, <2>3
<1>6. \A p : p \in KeptOf(F) <=> \E i, k : Sits(F, i, k, p)
  BY InKept
<1>7. \A p : p \in KeptOf(G) <=> \E i, k : Sits(G, i, k, p)
  BY InKept
<1>8. KeptOf(F) \subseteq KeptOf(G)
  BY <1>3, <1>6, <1>7
<1>9. \A p \in new : \E k \in Nat : Sits(G, d, k, p) /\ k > Len(F[d])
  BY <1>4, <1>6, <1>7
<1>10. new # {}
  <2>1. Sits(G, d, Len(F[d]) + n, G[d][Len(F[d]) + n])
    BY <1>2 DEF Sits
  <2>2. G[d][Len(F[d]) + n] \notin KeptOf(F)
    <3>1. SUFFICES ASSUME NEW i, NEW k, Sits(F, i, k, G[d][Len(F[d]) + n]) PROVE FALSE
      BY <1>6
    <3>2. i = d /\ k = Len(F[d]) + n
      BY <1>3, <2>1, <3>1 DEF Unique
    <3>3. k \in Nat /\ k <= Len(F[d])
      BY <1>1, <1>5, <3>1, <3>2
    <3>. QED
      BY <1>2, <3>2, <3>3
  <2>. QED
    BY <1>7, <2>1, <2>2
<1>11. \A p, q : <<p, q>> \in OlderOf(F) <=>
         \E i, j, k, l : Sits(F, i, k, p) /\ Sits(F, j, l, q) /\ Above(i, k, j, l)
  BY InOlder
<1>12. \A p, q : <<p, q>> \in OlderOf(G) <=>
         \E i, j, k, l : Sits(G, i, k, p) /\ Sits(G, j, l, q) /\ Above(i, k, j, l)
  BY InOlder
<1>13. \A p, q \in KeptOf(F) : <<p, q>> \in OlderOf(G) <=> <<p, q>> \in OlderOf(F)
  <2>. SUFFICES ASSUME NEW p \in KeptOf(F), NEW q \in KeptOf(F)
                PROVE  <<p, q>> \in OlderOf(G) <=> <<p, q>> \in OlderOf(F)
    OBVIOUS
  <2>1. PICK i, k : Sits(F, i, k, p)
    BY <1>6
  <2>2. PICK j, l : Sits(F, j, l, q)
    BY <1>6
  <2>3. ASSUME <<p, q>> \in OlderOf(G) PROVE Above(i, k, j, l)
    <3>1. PICK h, g, m, o : Sits(G, h, m, p) /\ Sits(G, g, o, q) /\ Above(h, m, g, o)
      BY <1>12, <2>3
    <3>2. h = i /\ m = k /\ g = j /\ o = l
      BY <1>3, <2>1, <2>2, <3>1 DEF Unique
    <3>. QED
      BY <3>1, <3>2
  <2>4. <<p, q>> \in OlderOf(F) => <<p, q>> \in OlderOf(G)
    BY <1>3, <1>11, <1>12
  <2>5. Above(i, k, j, l) => <<p, q>> \in OlderOf(F)
    BY <1>11, <2>1, <2>2
  <2>. QED
    BY <2>3, <2>4, <2>5
<1>14. \A p \in KeptOf(F), q \in new : <<p, q>> \in OlderOf(G) /\ <<q, p>> \notin OlderOf(G)
  <2>. SUFFICES ASSUME NEW p \in KeptOf(F), NEW q \in new
                PROVE  <<p, q>> \in OlderOf(G) /\ <<q, p>> \notin OlderOf(G)
    OBVIOUS
  <2>1. PICK i, k : Sits(F, i, k, p)
    BY <1>6
  <2>2. PICK l \in Nat : Sits(G, d, l, q) /\ l > Len(F[d])
    BY <1>9
  <2>3. i \in Nat /\ k \in Nat /\ d \in Nat /\ (i > d \/ (i = d /\ k <= Len(F[d])))
    BY <1>1, <1>5, <2>1
  <2>4. Above(i, k, d, l) /\ ~Above(d, l, i, k)
    BY <1>2, <2>2, <2>3 DEF Above
  <2>5. Sits(G, i, k, p)
    BY <1>3, <2>1
  <2>6. <<p, q>> \in OlderOf(G)
    BY <1>12, <2>2, <2>4, <2>5
  <2>7. ASSUME <<q, p>> \in OlderOf(G) PROVE FALSE
    <3>1. PICK h, g, m, o : Sits(G, h, m, q) /\ Sits(G, g, o, p) /\ Above(h, m, g, o)
      BY <1>12, <2>7
    <3>2. h = d /\ m = l /\ g = i /\ o = k
      BY <2>2, <2>5, <3>1 DEF Unique
    <3>. QED
      BY <2>4, <3>1, <3>2
  <2>. QED
    BY <2>6, <2>7
<1>15. /\ \A x \in OlderOf(G) : \E p, q \in KeptOf(G) : x = <<p, q>>
       /\ \A x \in OlderOf(F) : \E p, q \in KeptOf(F) : x = <<p, q>>
  BY InOlder
<1>16. KeptOf(G) = KeptOf(F) \cup new
  BY <1>8
<1>17. OlderOf(G) = OlderOf(F) \cup (KeptOf(F) \X new) \cup (OlderOf(G) \cap (new \X new))
  <2>. HIDE DEF new
  <2>1. ASSUME NEW x \in OlderOf(G)
        PROVE  x \in OlderOf(F) \cup (KeptOf(F) \X new) \cup (OlderOf(G) \cap (new \X new))
    <3>1. PICK p \in KeptOf(G), q \in KeptOf(G) : x = <<p, q>>
      BY <1>15
    <3>. QED
      BY <1>13, <1>14, <1>16, <3>1
  <2>2. ASSUME NEW x \in OlderOf(F) PROVE x \in OlderOf(G)
    BY <1>13, <1>15
  <2>3. ASSUME NEW x \in KeptOf(F) \X new PROVE x \in OlderOf(G)
    <3>1. PICK p \in KeptOf(F), q \in new : x = <<p, q>>
      BY <2>3
    <3>. QED
      BY <1>14, <3>1
  <2>. QED
    BY <2>1, <2>2, <2>3
<1>. QED
  BY <1>8, <1>10, <1>17

-----------------------------------------------------------------------------
(* What the steps do to the log. *)

(* A turn of the loop that removes or replaces a file.                     *)
Overwrites(w) == (Shift(w) /\ idx - 1 \in exists) \/ (ShiftFails(w) /\ file' # file)

(* It takes the file idx from the log; below the first turn that is empty. *)
LEMMA Overwritten ==
  ASSUME IInv, IInv', NEW w \in Writers, Overwrites(w)
  PROVE  /\ idx \in Indices /\ idx - 1 \in exists /\ busy = w
         /\ Without(file, file', idx)
         /\ Kept' = Kept \ ToSet(file[idx])
         /\ Older' = Older \cap (Kept' \X Kept')
         /\ idx # MaxFiles => ToSet(file[idx]) = {}
<1>1. TypeOK /\ NoPieceTwice /\ RotationSound
  BY DEF IInv
<1>2. idx \in Indices /\ idx - 1 \in exists /\ busy = w /\ Without(file, file', idx)
  <2>1. CASE Shift(w) /\ idx - 1 \in exists
    BY <1>1, <2>1, Shifted DEF Without
  <2>2. CASE ShiftFails(w) /\ file' # file
    BY <1>1, <2>2, Removed DEF Without
  <2>. QED
    BY <2>1, <2>2 DEF Overwrites
<1>3. file \in Files /\ Unique(file) /\ Kept = KeptOf(file) /\ Older = OlderOf(file)
  BY <1>1, Views
<1>4. file' \in Files /\ Kept' = KeptOf(file') /\ Older' = OlderOf(file')
  BY ViewsAfter DEF IInv
<1>5. /\ KeptOf(file') = KeptOf(file) \ ToSet(file[idx])
      /\ OlderOf(file') = OlderOf(file) \cap (KeptOf(file') \X KeptOf(file'))
  BY <1>2, <1>3, <1>4, Shortened
<1>6. idx # MaxFiles => ToSet(file[idx]) = {}
  <2>1. busy # NoWriter
    BY <1>1, <1>2, SizeAssumption DEF TypeOK
  <2>2. idx # MaxFiles => idx < MaxFiles
    BY <1>2, SizeAssumption DEF Indices
  <2>3. idx # MaxFiles => file[idx] = <<>>
    BY <1>1, <2>1, <2>2 DEF RotationSound
  <2>. QED
    BY <2>3 DEF ToSet
<1>. QED
  BY <1>2, <1>3, <1>4, <1>5, <1>6

(* It stutters, or drops the oldest pieces.                                *)
LEMMA Dropping ==
  ASSUME IInv, IInv', NEW w \in Writers, Overwrites(w)
  PROVE  UNCHANGED <<Kept, Older>> \/ Abstract!DropOldest
<1>1. /\ idx \in Indices /\ Without(file, file', idx)
      /\ Kept' = Kept \ ToSet(file[idx]) /\ Older' = Older \cap (Kept' \X Kept')
      /\ idx # MaxFiles => ToSet(file[idx]) = {}
  BY Overwritten
<1>2. file \in Files /\ Unique(file) /\ Kept = KeptOf(file) /\ Older = OlderOf(file)
  BY Views DEF IInv
<1>3. CASE ToSet(file[idx]) = {}
  <2>1. Kept' = Kept
    BY <1>1, <1>3
  <2>2. \A x \in Older : \E p, q \in Kept : x = <<p, q>>
    BY <1>2, InOlder
  <2>3. Older' = Older
    BY <1>1, <2>1, <2>2
  <2>. QED
    BY <2>1, <2>3
<1>4. CASE ToSet(file[idx]) # {}
  <2>1. file' \in Files /\ Kept' = KeptOf(file')
    BY ViewsAfter DEF IInv
  <2>2. idx = MaxFiles
    BY <1>1, <1>4
  <2>3. ToSet(file[idx]) \X Kept' \subseteq Older
    BY <1>1, <1>2, <2>1, <2>2, OldestDropped
  <2>4. ToSet(file[idx]) \subseteq Kept
    BY <1>1, <1>2 DEF KeptOf
  <2>5. Kept \ Kept' = ToSet(file[idx])
    BY <1>1, <2>4
  <2>. QED
    BY <1>1, <1>4, <2>3, <2>5 DEF Abstract!DropOldest
<1>. QED
  BY <1>3, <1>4

(* A write appends.                                                        *)
LEMMA Appending ==
  ASSUME IInv, IInv', NEW w \in Writers, Write(w)
  PROVE  Abstract!AppendPieces
<1>1. TypeOK /\ NoPieceTwice /\ WriterOnTop
  BY DEF IInv
<1>2. PICK n \in 1..Len(rest[w]) :
        /\ n \in Nat /\ fd \in Indices
        /\ \A i \in Indices \ {fd} : file'[i] = file[i]
        /\ Len(file'[fd]) = Len(file[fd]) + n
        /\ \A k \in 1..Len(file[fd]) : file'[fd][k] = file[fd][k]
  BY <1>1, Written
<1>3. n \in Nat \ {0}
  BY <1>2
<1>4. file \in Files /\ Kept = KeptOf(file) /\ Older = OlderOf(file)
  BY <1>1, Views
<1>5. file' \in Files /\ Unique(file') /\ Kept' = KeptOf(file') /\ Older' = OlderOf(file')
  BY ViewsAfter DEF IInv
<1>6. \A i \in Indices : i < fd => file[i] = <<>>
  BY <1>1 DEF WriterOnTop, TypeOK
<1>. DEFINE new == Kept' \ Kept
<1>7. /\ Kept \subseteq Kept' /\ new # {}
      /\ Older' = Older \cup (Kept \X new) \cup (Older' \cap (new \X new))
  BY <1>2, <1>3, <1>4, <1>5, <1>6, Extended
<1>8. new \subseteq Kept'
  OBVIOUS
<1>9. Abstract!Orders(Older' \cap (new \X new), new)
  BY <1>5, <1>8, Ordered
<1>. QED
  BY <1>7, <1>9 DEF Abstract!AppendPieces

LEMMA SameFiles == file' = file => UNCHANGED <<Kept, Older>>
BY DEF Kept, Older, Downwards, Indices

(* The steps: a write, a turn that overwrites a file, and the others, which*)
(* leave the files alone.                                                  *)
LEMMA Steps ==
  ASSUME [Next]_vars
  PROVE  \/ file' = file
         \/ \E w \in Writers : Write(w) \/ Overwrites(w)
<1>1. CASE Restart
  BY <1>1 DEF Restart
<1>2. CASE UNCHANGED vars
  BY <1>2 DEF vars
<1>3. ASSUME NEW w \in Writers, Step(w)
      PROVE  file' = file \/ Write(w) \/ Overwrites(w)
  <2>1. CASE Log(w) \/ BeginRotation(w) \/ Reopened(w) \/ ReopenFails(w) \/ WriteFails(w)
    BY <2>1 DEF Log, BeginRotation, Reopened, ReopenFails, WriteFails
  <2>2. CASE Shift(w)
    BY <2>2 DEF Shift, Overwrites
  <2>3. CASE ShiftFails(w)
    BY <2>3 DEF Overwrites
  <2>. QED
    BY <1>3, <2>1, <2>2, <2>3 DEF Step
<1>. QED
  BY <1>1, <1>2, <1>3 DEF Next

(* The files, read from the oldest rotated one to path, are one log: what  *)
(* rotations, failures and restarts do to them is to append in the order of*)
(* the writes, and to drop the oldest pieces.                              *)
THEOREM Refinement == Spec => ImplementsLog
<1>1. Init => Abstract!LogInit
  <2>. SUFFICES ASSUME Init PROVE Kept = {} /\ Older = {}
    BY DEF Abstract!LogInit
  <2>1. IInv
    BY InitIInv
  <2>2. file \in Files /\ Kept = KeptOf(file) /\ Older = OlderOf(file)
    BY <2>1, Views DEF IInv
  <2>3. \A i, k, p : ~Sits(file, i, k, p)
    BY DEF Init, Sits
  <2>4. Kept = {}
    BY <2>2, <2>3, InKept
  <2>5. Older = {}
    BY <2>2, <2>4, InOlder
  <2>. QED
    BY <2>4, <2>5
<1>2. IInv /\ IInv' /\ [Next]_vars
      => [Abstract!AppendPieces \/ Abstract!DropOldest]_<<Kept, Older>>
  <2>. SUFFICES ASSUME IInv, IInv', [Next]_vars
                PROVE  \/ UNCHANGED <<Kept, Older>>
                       \/ Abstract!AppendPieces \/ Abstract!DropOldest
    OBVIOUS
  <2>1. CASE file' = file
    BY <2>1, SameFiles
  <2>2. ASSUME NEW w \in Writers, Write(w) PROVE Abstract!AppendPieces
    BY <2>2, Appending
  <2>3. ASSUME NEW w \in Writers, Overwrites(w)
        PROVE  UNCHANGED <<Kept, Older>> \/ Abstract!DropOldest
    BY <2>3, Dropping
  <2>. QED
    BY <2>1, <2>2, <2>3, Steps
<1>. QED
  BY <1>1, <1>2, Invariance, PTL DEF Spec, ImplementsLog, Abstract!LogSpec

(* A rotation does not drop the newest piece, however often rotations fail *)
(* half-way, unless the record that causes it is longer than the limit.    *)
THEOREM NewestSurvives == Spec => KeepsNewest
<1>. DEFINE Survives ==
       Shrinks /\ (busy \in Writers => Len(rest[busy]) <= MaxSize) =>
         \E p \in Kept \cap Kept' : \A q \in Kept \ {p} : <<q, p>> \in Older
<1>1. IInv /\ IInv' /\ [Next]_vars => Survives
  <2>. SUFFICES ASSUME IInv, IInv', [Next]_vars, ~(Kept \subseteq Kept'),
                       busy \in Writers => Len(rest[busy]) <= MaxSize
                PROVE  \E p \in Kept \cap Kept' : \A q \in Kept \ {p} : <<q, p>> \in Older
    BY DEF Shrinks
  <2>1. PICK w \in Writers : Overwrites(w)
    <3>1. file' # file
      BY SameFiles
    <3>2. \A w \in Writers : ~Write(w)
      BY Appending DEF Abstract!AppendPieces
    <3>. QED
      BY <3>1, <3>2, Steps
  <2>2. /\ idx \in Indices /\ idx - 1 \in exists /\ busy = w
        /\ Kept' = Kept \ ToSet(file[idx]) /\ (idx # MaxFiles => ToSet(file[idx]) = {})
    BY <2>1, Overwritten
  <2>3. idx = MaxFiles
    BY <2>2
  <2>4. TypeOK /\ NoPieceTwice /\ WriterOnTop /\ RotationSound
    BY DEF IInv
  <2>5. file \in Files /\ Unique(file) /\ Kept = KeptOf(file) /\ Older = OlderOf(file)
    BY <2>4, Views
  <2>6. fd \in Indices /\ fd \in Nat /\ idx \in Nat /\ fd # idx
    <3>1. fd \in Indices /\ idx - 1 \in Indices
      BY <2>2, <2>4 DEF TypeOK
    <3>2. fd \in Nat /\ idx \in Nat /\ idx - 1 \in Nat
      BY <2>2, <3>1, IndicesNat
    <3>. QED
      BY <2>2, <2>4, <3>1, <3>2 DEF WriterOnTop
  <2>7. Len(file[fd]) \in Nat /\ Len(file[fd]) > 0 /\ DOMAIN file[fd] = 1..Len(file[fd])
    <3>1. file[fd] \in Seq(Pieces) /\ rest[w] \in Seq(Pieces)
      BY <2>4, <2>6 DEF TypeOK, Pieces
    <3>2. Exceeds(w) /\ Len(rest[w]) <= MaxSize
      BY <2>2, <2>3, <2>4, SizeAssumption DEF RotationSound
    <3>3. size = Len(file[fd]) /\ size + Len(rest[w]) > MaxSize
      BY <2>4, <3>2 DEF WriterOnTop, Exceeds
    <3>4. MaxSize \in Nat /\ size \in Nat /\ Len(rest[w]) \in Nat
      BY <3>1, <3>3, SizeAssumption
    <3>5. size > 0
      <4>1. size + Len(rest[w]) > MaxSize /\ Len(rest[w]) <= MaxSize
        BY <3>2, <3>3
      <4>. QED
        BY <3>4, <4>1
    <3>. QED
      BY <3>1, <3>3, <3>5
  <2>. DEFINE newest == file[fd][Len(file[fd])]
  <2>8. Sits(file, fd, Len(file[fd]), newest)
    BY <2>6, <2>7 DEF Sits
  <2>9. newest \in Kept
    BY <2>5, <2>8, InKept
  <2>10. newest \notin ToSet(file[idx])
    <3>1. SUFFICES ASSUME NEW k \in DOMAIN file[idx], file[idx][k] = newest PROVE FALSE
      BY DEF ToSet
    <3>2. Sits(file, idx, k, newest)
      BY <2>2, <3>1 DEF Sits
    <3>. QED
      BY <2>5, <2>6, <2>8, <3>2 DEF Unique
  <2>11. \A q \in Kept \ {newest} : <<q, newest>> \in Older
    <3>. TAKE q \in Kept \ {newest}
    <3>1. PICK j, l : Sits(file, j, l, q)
      BY <2>5, InKept
    <3>2. j \in Nat /\ l \in Nat /\ ~(j < fd)
      <4>1. j \in Nat /\ l \in Nat
        BY <2>5, <3>1, PlacesNat
      <4>2. j \in Indices /\ file[j] # <<>>
        BY <3>1 DEF Sits
      <4>. QED
        BY <2>4, <4>1, <4>2 DEF WriterOnTop, TypeOK
    <3>3. j = fd => l < Len(file[fd])
      <4>1. j = fd => l # Len(file[fd]) /\ l \in 1..Len(file[fd])
        BY <2>7, <3>1 DEF Sits
      <4>. QED
        BY <2>7, <4>1
    <3>4. Above(j, l, fd, Len(file[fd]))
      BY <2>6, <3>2, <3>3 DEF Above
    <3>. QED
      BY <2>5, <2>8, <3>1, <3>4, InOlder
  <2>. HIDE DEF newest
  <2>. QED
    BY <2>2, <2>9, <2>10, <2>11
<1>2. IInv /\ IInv' /\ [Next]_vars => [Survives]_vars
  BY <1>1
<1>. QED
  BY <1>2, Invariance, PTL DEF Spec, KeepsNewest

-----------------------------------------------------------------------------
(* How many pieces the files have. *)

(* They are finitely many.                                                 *)
LEMMA KeptFinite ==
  ASSUME NEW F \in Files
  PROVE  IsFiniteSet(KeptOf(F))
<1>1. ASSUME NEW i \in Indices PROVE IsFiniteSet(ToSet(F[i]))
  <2>1. F[i] \in Seq(Pieces) /\ Len(F[i]) \in Nat /\ DOMAIN F[i] = 1..Len(F[i])
    BY DEF Files
  <2>2. F[i] \in [1..Len(F[i]) -> ToSet(F[i])]
    BY <2>1 DEF ToSet
  <2>3. \A p \in ToSet(F[i]) : \E k \in 1..Len(F[i]) : F[i][k] = p
    BY <2>1 DEF ToSet
  <2>4. F[i] \in Surjection(1..Len(F[i]), ToSet(F[i]))
    BY <2>2, <2>3, Fun_IsSurj
  <2>5. IsFiniteSet(1..Len(F[i]))
    BY <2>1, FS_Interval
  <2>. QED
    BY <2>4, <2>5, FS_Surjection
<1>. DEFINE sets == {ToSet(F[i]) : i \in Indices}
            g    == [i \in Indices |-> ToSet(F[i])]
<1>2. IsFiniteSet(sets)
  <2>1. g \in Surjection(Indices, sets)
    BY Fun_IsSurj
  <2>2. IsFiniteSet(Indices)
    BY SizeAssumption, FS_Interval DEF Indices
  <2>. HIDE DEF sets, g
  <2>. QED
    BY <2>1, <2>2, FS_Surjection
<1>3. \A T \in sets : IsFiniteSet(T)
  BY <1>1
<1>4. IsFiniteSet(UNION sets)
  <2>. HIDE DEF sets
  <2>. QED
    BY <1>2, <1>3, FS_UNION
<1>. QED
  BY <1>4 DEF KeptOf

(* Files with at least n pieces each have as many together, as no piece is *)
(* there twice; so has any set that contains them.                         *)
LEMMA ManyPieces ==
  ASSUME NEW F \in Files, Unique(F), NEW n \in Nat, NEW K, IsFiniteSet(K),
         \A i \in 0..(MaxFiles - 1) : Len(F[i]) >= n /\ ToSet(F[i]) \subseteq K
  PROVE  Cardinality(K) >= MaxFiles * n
<1>. USE SizeAssumption
<1>. DEFINE places == (0..(MaxFiles - 1)) \X (1..n)
            f == [x \in places |-> F[x[1]][x[2]]]
<1>1. ASSUME NEW x \in places
      PROVE  x[1] \in Indices /\ x[2] \in 1..n /\ x = <<x[1], x[2]>>
             /\ Sits(F, x[1], x[2], f[x]) /\ f[x] \in K
  <2>1. x[1] \in 0..(MaxFiles - 1) /\ x[2] \in 1..n /\ x = <<x[1], x[2]>>
    OBVIOUS
  <2>2. x[1] \in Indices
    BY <2>1 DEF Indices
  <2>3. F[x[1]] \in Seq(Pieces) /\ Len(F[x[1]]) \in Nat /\ DOMAIN F[x[1]] = 1..Len(F[x[1]])
    BY <2>2 DEF Files
  <2>4. Len(F[x[1]]) >= n /\ ToSet(F[x[1]]) \subseteq K
    BY <2>1
  <2>5. x[2] \in DOMAIN F[x[1]]
    BY <2>1, <2>3, <2>4
  <2>6. F[x[1]][x[2]] \in K
    BY <2>4, <2>5 DEF ToSet
  <2>. QED
    BY <2>1, <2>2, <2>5, <2>6 DEF Sits
<1>2. f \in [places -> K]
  BY <1>1
<1>3. \A x, y \in places : f[x] = f[y] => x = y
  <2>. SUFFICES ASSUME NEW x \in places, NEW y \in places, f[x] = f[y] PROVE x = y
    OBVIOUS
  <2>1. x[1] = y[1] /\ x[2] = y[2]
    BY <1>1 DEF Unique
  <2>. QED
    BY <1>1, <2>1
<1>4. f \in Injection(places, K)
  <2>. HIDE DEF f, places
  <2>. QED
    BY <1>2, <1>3, Fun_IsInj
<1>5. IsFiniteSet(places) /\ Cardinality(places) = MaxFiles * n
  <2>1. IsFiniteSet(0..(MaxFiles - 1)) /\ Cardinality(0..(MaxFiles - 1)) = MaxFiles
    <3>1. MaxFiles - 1 \in Int /\ 0 \in Int
      OBVIOUS
    <3>2. /\ IsFiniteSet(0..(MaxFiles - 1))
          /\ Cardinality(0..(MaxFiles - 1)) = IF 0 > MaxFiles - 1 THEN 0 ELSE (MaxFiles - 1) - 0 + 1
      BY <3>1, FS_Interval
    <3>. QED
      BY <3>2
  <2>2. IsFiniteSet(1..n) /\ Cardinality(1..n) = n
    <3>1. /\ IsFiniteSet(1..n)
          /\ Cardinality(1..n) = IF 1 > n THEN 0 ELSE n - 1 + 1
      BY FS_Interval
    <3>. QED
      BY <3>1
  <2>. DEFINE A == 0..(MaxFiles - 1)
              B == 1..n
  <2>3. IsFiniteSet(A) /\ Cardinality(A) = MaxFiles /\ IsFiniteSet(B) /\ Cardinality(B) = n
    BY <2>1, <2>2
  <2>. HIDE DEF A, B
  <2>4. IsFiniteSet(A \X B) /\ Cardinality(A \X B) = Cardinality(A) * Cardinality(B)
    BY <2>3, FS_Product
  <2>5. IsFiniteSet(A \X B) /\ Cardinality(A \X B) = MaxFiles * n
    BY <2>3, <2>4
  <2>. QED
    BY <2>5 DEF A, B
<1>. HIDE DEF f, places
<1>6. Cardinality(places) <= Cardinality(K)
  BY <1>4, FS_Injection
<1>7. Cardinality(K) \in Nat /\ MaxFiles * n \in Nat
  BY FS_CardinalityType
<1>. QED
  BY <1>5, <1>6, <1>7

(* As long as nothing fails, what is dropped leaves MaxFiles full files:   *)
(* none could have taken the longest of the records that fit.              *)
THEOREM FullFilesKept == Spec => KeepsFullFiles
<1>. DEFINE Enough ==
       Shrinks /\ ~trouble' => \A n \in 1..MaxSize :
         NoneThatFitsExceeds(n) => Cardinality(Kept') >= MaxFiles * (MaxSize + 1 - n)
<1>1. IInv /\ IInv' /\ [Next]_vars => Enough
  <2>. SUFFICES ASSUME IInv, IInv', [Next]_vars, ~(Kept \subseteq Kept'), ~trouble',
                       NEW n \in 1..MaxSize, NoneThatFitsExceeds(n)
                PROVE  Cardinality(Kept') >= MaxFiles * (MaxSize + 1 - n)
    BY DEF Shrinks
  <2>. USE SizeAssumption
  <2>1. PICK w \in Writers : Overwrites(w)
    <3>1. file' # file
      BY SameFiles
    <3>2. \A w \in Writers : ~Write(w)
      BY Appending DEF Abstract!AppendPieces
    <3>. QED
      BY <3>1, <3>2, Steps
  <2>2. /\ idx \in Indices /\ idx - 1 \in exists /\ busy = w
        /\ Kept' = Kept \ ToSet(file[idx]) /\ (idx # MaxFiles => ToSet(file[idx]) = {})
    BY <2>1, Overwritten
  <2>3. idx = MaxFiles /\ file[MaxFiles] # <<>>
    <3>1. ToSet(file[idx]) # {}
      BY <2>2
    <3>2. file[idx] # <<>>
      BY <3>1 DEF ToSet
    <3>. QED
      BY <2>2, <3>1, <3>2
  <2>4. ~trouble
    BY <2>1 DEF Overwrites, Shift, ShiftFails, Fail
  <2>5. TypeOK /\ NoPieceTwice /\ WriterOnTop /\ RotationSound
    BY DEF IInv
  <2>6. RestsFit /\ OnPath /\ NoGap /\ AllFull
    BY <2>4, RotatedFullParts DEF IInv
  <2>7. file \in Files /\ Unique(file) /\ Kept = KeptOf(file)
    BY <2>5, Views
  <2>8. MaxFiles \in exists /\ MaxFiles \in Nat /\ MaxFiles # 0 /\ busy # NoWriter
    <3>1. busy # NoWriter
      BY <2>2
    <3>. QED
      BY <2>2, <2>3, <2>5, <3>1 DEF TypeOK, RotationSound
  <2>. DEFINE room == MaxSize + 1 - n
  <2>9. room \in Nat /\ MaxSize \in Nat /\ n \in Nat
    OBVIOUS
  <2>10. \A l, m \in Nat : l + m > MaxSize /\ m <= n => l >= room
    BY <2>9
  <2>11. ASSUME NEW i \in 0..(MaxFiles - 1)
         PROVE  Len(file[i]) >= room /\ ToSet(file[i]) \subseteq Kept'
    <3>1. i \in Indices /\ i < MaxFiles /\ i # idx /\ i \in Nat
      BY <2>3, <2>8 DEF Indices
    <3>2. i \in exists
      BY <2>3, <2>6, <2>8, <3>1 DEF NoGap
    <3>3. file[i] \in Seq(Pieces) /\ Len(file[i]) \in Nat
      BY <2>7, <3>1 DEF Files
    <3>4. Len(file[i]) >= room
      <4>1. CASE i # 0
        <5>1. PICK m \in Lengths : Len(file[i]) + m > MaxSize /\ m <= MaxSize
          BY <2>6, <3>2, <4>1 DEF AllFull
        <5>2. m \in Nat /\ m <= n
          BY <5>1 DEF NoneThatFitsExceeds
        <5>. HIDE DEF room
        <5>. QED
          BY <2>10, <3>3, <5>1, <5>2
      <4>2. CASE i = 0
        <5>1. rest[w] # <<>> /\ Exceeds(w) /\ fd = 0 /\ size = Len(file[0])
          BY <2>2, <2>3, <2>5, <2>6, <2>8 DEF RotationSound, OnPath, WriterOnTop
        <5>2. PICK m \in Lengths : Len(rest[w]) <= m /\ m <= MaxSize
          BY <2>6, <5>1 DEF RestsFit
        <5>3. m <= n /\ m \in Nat /\ Len(rest[w]) \in Nat
          BY <2>5, <5>2 DEF NoneThatFitsExceeds, TypeOK
        <5>4. Len(rest[w]) <= n
          BY <2>9, <5>2, <5>3
        <5>5. Len(file[i]) + Len(rest[w]) > MaxSize
          BY <4>2, <5>1 DEF Exceeds
        <5>. HIDE DEF room
        <5>. QED
          BY <2>10, <3>3, <5>3, <5>4, <5>5
      <4>. QED
        BY <4>1, <4>2
    <3>5. ASSUME NEW p \in ToSet(file[i]), p \in ToSet(file[idx]) PROVE FALSE
      <4>1. PICK k \in DOMAIN file[i] : file[i][k] = p
        BY DEF ToSet
      <4>2. PICK l \in DOMAIN file[idx] : file[idx][l] = p
        BY <3>5 DEF ToSet
      <4>3. Sits(file, i, k, p) /\ Sits(file, idx, l, p)
        BY <2>2, <3>1, <4>1, <4>2 DEF Sits
      <4>. QED
        BY <2>7, <3>1, <4>3 DEF Unique
    <3>6. ToSet(file[i]) \subseteq Kept
      BY <2>7, <3>1 DEF KeptOf
    <3>. QED
      BY <2>2, <3>4, <3>5, <3>6
  <2>12. IsFiniteSet(Kept')
    BY <2>2, <2>7, KeptFinite, FS_Difference
  <2>. HIDE DEF room
  <2>13. Cardinality(Kept') >= MaxFiles * room
    BY <2>7, <2>9, <2>11, <2>12, ManyPieces
  <2>. QED
    BY <2>13 DEF room
<1>2. IInv /\ IInv' /\ [Next]_vars => [Enough]_vars
  BY <1>1
<1>. QED
  BY <1>2, Invariance, PTL DEF Spec, KeepsFullFiles

=============================================================================
