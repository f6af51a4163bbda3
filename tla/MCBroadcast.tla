---- MODULE MCBroadcast ----
(* Values for the small instances of Broadcast. *)
EXTENDS Broadcast, TLC
CONSTANTS r1, r2, r3, d1, d2
MCTwo      == {r1, r2}
MCThree    == {r1, r2, r3}
MCSymmetry == Permutations({r1, r2, r3}) \cup Permutations({d1, d2})
=============================================================================
