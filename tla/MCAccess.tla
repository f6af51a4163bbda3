---- MODULE MCAccess ----
(* Values for the small instances of Access. *)
EXTENDS Access
CONSTANTS u1, u2, a1, a2
MCOne       == {u1}
MCTwo       == {u1, u2}
MCKindOne   == [u \in {u1} |-> "user"]
MCWaiters   == [u \in {u1, u2} |-> "user"]
=============================================================================
