---- MODULE MCPromocodes ----
(* The rules that the codes of the instance are given. *)
EXTENDS Promocodes
CONSTANTS c1, c2, u1, u2
Offer(limit, reusable, kind, audience) ==
    [limit |-> limit, reusable |-> reusable, kind |-> kind, audience |-> audience]
MCOffers == {Offer(1, FALSE, "extend", "ALL"),      Offer(2, TRUE, "extend", "EXISTING"),
             Offer(NoLimit, FALSE, "extend", "ALL"), Offer(NoLimit, TRUE, "plan", "ALL"),
             Offer(1, FALSE, "plan", "ALL"),        Offer(2, TRUE, "discount", "ALL"),
             Offer(NoLimit, FALSE, "plan", "NEW")}
=============================================================================
