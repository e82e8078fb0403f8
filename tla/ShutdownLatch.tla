--------------------------- MODULE ShutdownLatch ---------------------------
(***************************************************************************)
(* What the shutdown coordinator promises to the rest of the daemon: a     *)
(* latch that opens once, with one reason, and lets every waiter through.  *)
(* Module Shutdown refines this specification.                             *)
(***************************************************************************)

CONSTANTS
    Waiters,    \* tasks that await the shutdown
    Reasons,    \* the reasons a shutdown can be initiated with
    Undecided   \* no shutdown has been initiated; not a reason

VARIABLES
    decision,   \* the reason the shutdown was initiated with, or Undecided
    place       \* where each waiter is with respect to the latch

latchVars == <<decision, place>>

LatchInit ==
    /\ decision = Undecided
    /\ place = [w \in Waiters |-> "away"]

(* One initiator wins; nobody can change the decision afterwards. *)
Open(r) ==
    /\ decision = Undecided
    /\ decision' = r
    /\ UNCHANGED place

Enter(w) ==
    /\ place[w] \in {"away", "released"}
    /\ place' = [place EXCEPT ![w] = "waiting"]
    /\ UNCHANGED decision

Leave(w) ==
    /\ place[w] = "waiting"
    /\ decision # Undecided
    /\ place' = [place EXCEPT ![w] = "released"]
    /\ UNCHANGED decision

(* A waiter may give up: its future is dropped by a select. *)
Abandon(w) ==
    /\ place[w] = "waiting"
    /\ place' = [place EXCEPT ![w] = "away"]
    /\ UNCHANGED decision

LatchNext ==
    \/ \E r \in Reasons : Open(r)
    \/ \E w \in Waiters : Enter(w) \/ Leave(w) \/ Abandon(w)

LatchSafeSpec == LatchInit /\ [][LatchNext]_latchVars

LatchSpec == LatchSafeSpec /\ \A w \in Waiters : WF_latchVars(Leave(w))

=============================================================================
