---- MODULE MCAccounts ----
(* Values for the small instances of Accounts. *)
EXTENDS Accounts, TLC
CONSTANTS u1, u2, u3, t1, t2
MCTwo      == {u1, u2}
MCThree    == {u1, u2, u3}
MCTasks    == {t1, t2}
MCSymmetry == Permutations(MCThree) \cup Permutations(MCTasks)
=============================================================================
