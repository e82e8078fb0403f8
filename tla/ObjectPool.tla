----------------------------- MODULE ObjectPool ----------------------------
(***************************************************************************)
(* ObjectPool, StringPool and VecPool of src/src/pool.rs: threads take     *)
(* strings from a queue (or new ones if it is empty) and give them back.   *)
(*                                                                         *)
(* A string keeps its text while it lies in the pool; it is cleared when   *)
(* it is taken.                                                            *)
(***************************************************************************)
EXTENDS Naturals, FiniteSets, SequencesExt

CONSTANTS
    Threads,        \* threads that use the pool, one object at a time each
    Objects,        \* identities of objects; enough that a new one is never refused
    InitialSize,    \* initial_size: objects made by new()
    MaxSize,        \* max_size: objects kept on return
    NoObject

ASSUME PoolAssumption ==
    /\ InitialSize \in Nat /\ MaxSize \in Nat
    /\ NoObject \notin Objects /\ IsFiniteSet(Threads)

VARIABLES
    available,  \* the queue of the pool
    object,     \* PooledObject.object of each thread
    text        \* the text of each string, a sequence of what was pushed

poolVars == <<available, object, text>>

PoolTypeOK ==
    /\ available \in Seq(Objects)
    /\ object \in [Threads -> Objects \cup {NoObject}]
    /\ DOMAIN text = Objects

(* new(): pre-allocates InitialSize objects, even more than MaxSize. *)
PoolInit ==
    /\ available \in Injection(1..InitialSize, Objects)
    /\ object = [t \in Threads |-> NoObject]
    /\ text = [o \in Objects |-> <<>>]

Fresh == {o \in Objects : o \notin ToSet(available) /\ \A t \in Threads : object[t] # o}

(* faulty: the text of the last user is kept *)
GetUncleared(t, value) ==
    \E o \in (IF available = <<>> THEN Fresh ELSE {Head(available)}) :
        /\ available' = IF available = <<>> THEN <<>> ELSE Tail(available)
        /\ object' = [object EXCEPT ![t] = o]
        /\ text' = [text EXCEPT ![o] = Append(@, value)]

(* get_with_value(): pop or create, clear, push. *)
Get(t, value) ==
    \E o \in (IF available = <<>> THEN Fresh ELSE {Head(available)}) :
        /\ available' = IF available = <<>> THEN <<>> ELSE Tail(available)
        /\ object' = [object EXCEPT ![t] = o]
        /\ text' = [text EXCEPT ![o] = <<value>>]

(* faulty: the object is not taken out of the PooledObject, so return_to_pool
   and the Drop it runs into both return it *)
ReturnTwice(t) ==
    /\ object' = [object EXCEPT ![t] = NoObject]
    /\ available' = IF Len(available) < MaxSize
                    THEN available \o <<object[t], object[t]>> ELSE available
    /\ UNCHANGED text

(* return_to_pool or Drop: kept if there is room, else freed. *)
Return(t) ==
    /\ object' = [object EXCEPT ![t] = NoObject]
    /\ available' = IF Len(available) < MaxSize
                    THEN Append(available, object[t]) ELSE available
    /\ UNCHANGED text

-----------------------------------------------------------------------------
(* No object is in two hands, or in a hand and in the pool, or twice in the
   pool. *)
OneUser ==
    /\ IsInjective(available)
    /\ \A t \in Threads : object[t] \notin ToSet(available)
    /\ \A t, u \in Threads : object[t] = object[u] /\ object[t] # NoObject => t = u

(* The pool holds no more than it began with or may keep. *)
PoolBounded == Len(available) <= Max({InitialSize, MaxSize})

=============================================================================
