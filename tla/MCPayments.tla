----------------------------- MODULE MCPayments -----------------------------
(* Instances of Payments for TLC. *)
EXTENDS Payments

CONSTANTS p1, p2, u1

MCOwner2 == [p \in {p1, p2} |-> u1]
=============================================================================
