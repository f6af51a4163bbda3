----------------------------- MODULE RewardLedger -----------------------------
(***************************************************************************)
(* What the referral program promises, whatever purchases, settings,       *)
(* administrators and failures overlap: an order earns at most one reward  *)
(* a level, for who is there in the chain of invitations; the reward stays *)
(* what it was made; it is granted in one step, at most once, and marked   *)
(* issued only then; and points and days change in no other way, except    *)
(* that administrators add to the points. Referrals implements it.         *)
(***************************************************************************)
EXTENDS Integers

CONSTANTS Users, NoUser, Orders, FIRST, SECOND,
          Changes    \* what administrators add

VARIABLES inviter,   \* who invited a user
          buyer,     \* whose an order is
          reward,    \* the reward of an order and a level
          granted,   \* how often it was granted
          points, days,
          overlap    \* users of whose points two changes overlapped

Levels == {FIRST, SECOND}

RewardOf(status, v) ==
    [status : {status}, user : {v}, type : {"POINTS", "EXTRA_DAYS"}, amount : Nat]

LedgerInit ==
    /\ inviter = [u \in Users |-> NoUser]
    /\ buyer = [o \in Orders |-> NoUser]
    /\ reward \in [Orders -> [Levels -> RewardOf("none", NoUser)]]
    /\ granted = [o \in Orders |-> [l \in Levels |-> 0]]
    /\ points = [u \in Users |-> 0] /\ days = [u \in Users |-> 0]
    /\ overlap = {}

\* Once and for all, and by somebody else.
Invite(u) ==
    /\ inviter[u] = NoUser /\ inviter'[u] \in Users \ {u}
    /\ inviter' = [inviter EXCEPT ![u] = inviter'[u]]
    /\ UNCHANGED <<buyer, reward, granted, points, days, overlap>>

Order(o) ==
    /\ buyer[o] = NoUser /\ buyer'[o] \in Users
    /\ buyer' = [buyer EXCEPT ![o] = buyer'[o]]
    /\ UNCHANGED <<inviter, reward, granted, points, days, overlap>>

Earn(o, l) ==
    LET v == IF l = FIRST THEN inviter[buyer[o]] ELSE inviter[inviter[buyer[o]]] IN
    /\ reward[o][l].status = "none" /\ reward'[o][l].status = "pending"
    /\ buyer[o] # NoUser /\ inviter[buyer[o]] # NoUser /\ v # NoUser
    /\ reward'[o][l] \in RewardOf("pending", v) /\ reward'[o][l].amount > 0
    /\ reward' = [reward EXCEPT ![o][l] = reward'[o][l]]
    /\ UNCHANGED <<inviter, buyer, granted, points, days, overlap>>

\* The points of u, and of nobody else, become what is added to them; where two
\* changes have overlapped, one of them may be lost.
PointsOf(u) ==
    /\ points' = [points EXCEPT ![u] = points'[u]]
    /\ points'[u] >= 0
    /\ overlap' \in {overlap, overlap \cup {u}}

Grant(o, l) ==
    LET r == reward[o][l] IN
    /\ r.status = "pending" /\ granted[o][l] = 0
    /\ granted' = [granted EXCEPT ![o][l] = 1]
    /\ \/ /\ r.type = "POINTS"
          /\ PointsOf(r.user) /\ UNCHANGED days
          /\ r.user \notin overlap => points'[r.user] = points[r.user] + r.amount
       \/ /\ r.type = "EXTRA_DAYS"
          /\ days' = [days EXCEPT ![r.user] = @ + r.amount]
          /\ UNCHANGED <<points, overlap>>
    /\ UNCHANGED <<inviter, buyer, reward>>

Issue(o, l) ==
    /\ reward[o][l].status = "pending" /\ granted[o][l] = 1
    /\ reward' = [reward EXCEPT ![o][l].status = "issued"]
    /\ UNCHANGED <<inviter, buyer, granted, points, days, overlap>>

Adjust(u) ==
    /\ u \notin overlap => points'[u] - points[u] \in Changes
    /\ PointsOf(u)
    /\ UNCHANGED <<inviter, buyer, reward, granted, days>>

LedgerNext ==
    \/ \E u \in Users : Invite(u) \/ Adjust(u)
    \/ \E o \in Orders : Order(o) \/ \E l \in Levels : Earn(o, l) \/ Grant(o, l) \/ Issue(o, l)

LedgerSpec ==
    LedgerInit /\ [][LedgerNext]_<<inviter, buyer, reward, granted, points, days, overlap>>
=============================================================================
