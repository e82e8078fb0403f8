---------------------------- MODULE RetainedLog ----------------------------
(* What a rotating log promises: it grows at its newest end and is shortened at
   its oldest; nothing is repeated, reordered or lost from the middle. *)

VARIABLES
    kept,   \* the pieces of records in the log
    older   \* the pairs <<p, q>> of them, p before q

LogInit == kept = {} /\ older = {}

(* The pairs of S are ordered, one way round, all of them. *)
Orders(R, S) ==
    /\ R \subseteq S \X S
    /\ \A p, q \in S : <<p, q>> \in R => <<q, p>> \notin R
    /\ \A p, q \in S : p # q => <<p, q>> \in R \/ <<q, p>> \in R
    /\ \A p, q, r \in S : <<p, q>> \in R /\ <<q, r>> \in R => <<p, r>> \in R

(* New pieces come after all the others, in an order of their own. *)
AppendPieces ==
    LET new   == kept' \ kept
        order == older' \cap (new \X new)
    IN  /\ kept \subseteq kept' /\ new # {}
        /\ older' = older \cup (kept \X new) \cup order
        /\ Orders(order, new)

(* What is dropped was before all that stays. *)
DropOldest ==
    LET dropped == kept \ kept' IN
    /\ kept' \subseteq kept /\ dropped # {}
    /\ dropped \X kept' \subseteq older
    /\ older' = older \cap (kept' \X kept')

LogSpec == LogInit /\ [][AppendPieces \/ DropOldest]_<<kept, older>>

=============================================================================
