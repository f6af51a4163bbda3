---- MODULE MCReferrals ----
(* Values for the small instance of Referrals. *)
EXTENDS Referrals, TLC
CONSTANTS u1, u2, u3, o1, o2
MCUsers      == {u1, u2, u3}
MCOrders     == {o1, o2}
MCKinds      == {"paid"}
MCChanges    == {-1}
MCConfigured == {[enable |-> TRUE, level |-> SECOND, type |-> "POINTS", strategy |-> "PERCENT",
                  accrual_strategy |-> "ON_EACH_PAYMENT", config |-> [l \in Levels |-> l]]}
MCSymmetry   == Permutations(MCUsers) \cup Permutations(MCOrders)
=============================================================================
