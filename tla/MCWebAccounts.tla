---- MODULE MCWebAccounts ----
(* Values for the small instance of WebAccounts. *)
EXTENDS WebAccounts, TLC
CONSTANTS u1, u2, e1, e2, e3, t1, t2
MCUsers  == {u1, u2}
MCEmails == {e1, e2, e3}
MCTasks  == {t1, t2}
MCRegistration == (u1 :> e1) @@ (u2 :> e2)
MCSymmetry == Permutations(MCTasks)
=============================================================================
