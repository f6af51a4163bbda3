---- MODULE MCSubscriptions ----
(* Values for the small instances of Subscriptions. *)
EXTENDS Subscriptions, TLC
CONSTANTS o1, o2
MCSymmetry == Permutations({o1, o2})
=============================================================================
