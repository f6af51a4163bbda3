--------------------------- MODULE ReferralsProofs ---------------------------
(***************************************************************************)
(* Proofs about Referrals, for any users, orders, administrators and       *)
(* settings.                                                               *)
(*                                                                         *)
(* A task writes only the rewards of its own order, so the argument        *)
(* follows one task through its levels; what it has read of the chain of   *)
(* referrers stays true, since who has a referrer keeps that one. Points   *)
(* that were read are still those of the row, or an overlap will be noted. *)
(***************************************************************************)
EXTENDS Referrals, TLAPS

Before  == {"new", "open", "assign"}
Granting == {"grant", "write", "mark"}
Running == {"create"} \cup Granting

\* Levels a task has yet to come to.
Ahead(r, l) ==
    \/ r.pc \in Before
    \/ r.pc = "create" /\ l >= r.level
    \/ r.pc \in Granting /\ l > r.level

\* Who is rewarded at level l for a purchase of u.
Up(u, l, v) ==
    /\ user[u].referrer # NoUser
    /\ l = FIRST  => v = user[u].referrer
    /\ l = SECOND => v = user[user[u].referrer].referrer

NewIfFirst(r) == r.settings.accrual_strategy = "ON_FIRST_PAYMENT" => r.purchase_type = "NEW"

\* What a task has read and is going to use.
ReadsHold(o) ==
    LET r == order[o] IN
    /\ r.pc # "new" => r.buyer \in Users
    /\ r.pc \in Before => r.level = FIRST /\ \A l \in Levels : r.chain[l] = NoUser
    /\ r.pc \in Running =>
          NewIfFirst(r) /\ \A l \in Levels : r.chain[l] # NoUser => Up(r.buyer, l, r.chain[l])
    /\ r.pc \in Granting =>
          Held(o) # NoUser /\ reward[o][r.level].status = "pending"

\* How far the rewards of an order are.
RewardsHold(o) ==
    LET r == order[o] IN
    \A l \in Levels :
        /\ Ahead(r, l) => reward[o][l].status = "none" /\ granted[o][l] = 0
        /\ r.pc \in {"grant", "write"} /\ l = r.level => granted[o][l] = 0
        /\ r.pc = "mark" /\ l = r.level => granted[o][l] = 1
        /\ reward[o][l].status = "issued" => granted[o][l] = 1
        /\ granted[o][l] <= IF reward[o][l].status = "none" THEN 0 ELSE 1
        /\ granted[o][l] = 1 /\ reward[o][l].status # "issued" =>
              (r.pc = "mark" /\ r.level = l) \/ <<o, l>> \in failed
        /\ reward[o][l].status # "none" =>
              /\ r.pc # "new" /\ NewIfFirst(r)
              /\ reward[o][l].user # NoUser /\ Up(r.buyer, l, reward[o][l].user)

\* Somebody is to be rewarded at the second level.
Owed(r) ==
    LET q == [r EXCEPT !.level = SECOND] IN
    q.chain[SECOND] # NoUser /\ RewardAmount(q.settings, q) > 0

\* The second level has had its turn once the task is over.
SecondHolds(o) ==
    order[o].pc = "done" /\ <<o, SECOND>> \notin failed /\ Owed(order[o])
    => reward[o][SECOND].status # "none"

OrderHolds(o) == ReadsHold(o) /\ RewardsHold(o) /\ SecondHolds(o)

\* Who invites was registered before; the referrer comes once.
Earlier ==
    \A u \in Users :
        /\ user[u].id < next_id
        /\ user[u].referrer # NoUser => 0 < user[user[u].referrer].id
                                        /\ user[user[u].referrer].id < user[u].id
        /\ user[u].invited_by # NoUser =>
              /\ user[u].referrer = NoUser
              /\ 0 < user[user[u].invited_by].id
              /\ user[user[u].invited_by].id < user[u].id

\* Two NEW orders of one buyer are noted.
Noted ==
    \A o, p \in Orders :
        /\ o # p /\ order[o].buyer = order[p].buyer /\ order[o].buyer \in Users
        /\ order[o].purchase_type = "NEW" /\ order[p].purchase_type = "NEW"
        => order[o].buyer \in again

\* Points that were read are those of the row.
Balanced ==
    \A u \in Users \ overlap :
        /\ user[u].points = given[u]
        /\ \A o \in Orders : order[o].pc = "write" /\ Held(o) = u => order[o].points = user[u].points
        /\ \A a \in Admins : change[a].pc = "write" /\ change[a].user = u =>
                                change[a].points = user[u].points

ChangesHold == \A a \in Admins : change[a].pc = "write" => change[a].user \in Users

IInv ==
    /\ TypeOK /\ Earlier /\ Noted /\ Balanced /\ ChangesHold
    /\ \A o \in Orders : OrderHolds(o)

-----------------------------------------------------------------------------
(* Constants and records *)

LEMMA Constants ==
    /\ NoUser \notin Users /\ NoUser \notin Admins /\ NoUser \notin Orders
    /\ Kinds \subseteq {"paid", "free", "trial"} /\ Prices \subseteq Nat /\ Durations \subseteq Nat
    /\ Changes \subseteq Int /\ Values \subseteq Nat /\ Configured \subseteq Settings
    BY ReferralsAssumption

LEMMA LevelsAre == Levels = {1, 2} /\ FIRST = 1 /\ SECOND = 2
    BY DEF Levels, FIRST, SECOND

LEMMA PassedIs ==
    ASSUME NEW r \in OrderRecords
    PROVE  /\ Passed(r) \in OrderRecords
           /\ r.level = FIRST => Passed(r).pc = "create" /\ Passed(r).level = SECOND
           /\ r.level # FIRST => Passed(r).pc = "done" /\ Passed(r).level = SECOND
           /\ Passed(r).buyer = r.buyer /\ Passed(r).purchase_type = r.purchase_type
           /\ Passed(r).settings = r.settings /\ Passed(r).chain = r.chain
           /\ Passed(r).price = r.price /\ Passed(r).duration = r.duration
    BY LevelsAre DEF Passed, OrderRecords

LEMMA AmountIsNat ==
    ASSUME NEW s \in Settings, NEW r \in OrderRecords
    PROVE  RewardAmount(s, r) \in Nat
<1>1. /\ s.config[r.level] \in Nat /\ r.price \in Nat /\ r.duration \in Nat
      /\ r.level \in Nat /\ s.level \in Nat
    BY LevelsAre DEF Settings, OrderRecords
<1>2. \A a, b \in Nat : a * b \in Nat
    OBVIOUS
<1>3. \A n \in Nat : n \div 100 \in Nat
    OBVIOUS
<1> DEFINE base    == IF s.type = "POINTS" THEN r.price ELSE r.duration
           product == base * s.config[r.level]
<1>4. base \in Nat
    BY <1>1
<1>5. product \in Nat
    BY <1>1, <1>2, <1>4
<1>6. product \div 100 \in Nat
    BY <1>3, <1>5
<1> HIDE DEF base
<1> QED
    BY <1>1, <1>6 DEF RewardAmount, base

\* What is owed depends on few fields of the order.
LEMMA OwedIsSame ==
    ASSUME NEW r \in OrderRecords, NEW q \in OrderRecords,
           r.chain = q.chain, r.settings = q.settings, r.price = q.price, r.duration = q.duration
    PROVE  Owed(r) = Owed(q)
<1> DEFINE r2 == [r EXCEPT !.level = SECOND]
           q2 == [q EXCEPT !.level = SECOND]
<1>1. /\ r2.chain = q2.chain /\ r2.settings = q2.settings /\ r2.price = q2.price
      /\ r2.duration = q2.duration /\ r2.level = q2.level
    BY DEF OrderRecords
<1>2. RewardAmount(r2.settings, r2) = RewardAmount(q2.settings, q2)
  <2> HIDE DEF r2, q2
  <2> QED
    BY <1>1 DEF RewardAmount
<1> QED
    BY <1>1, <1>2 DEF Owed

LEMMA SecondPrimed ==
    ASSUME NEW o \in Orders, NEW q, order'[o] = q
    PROVE  SecondHolds(o)' <=>
              (q.pc = "done" /\ <<o, SECOND>> \notin failed' /\ Owed(q)
               => reward'[o][SECOND].status # "none")
    BY DEF SecondHolds, Owed, RewardAmount, FIRST, SECOND

LEMMA OneOrder ==
    ASSUME TypeOK, NEW o \in Orders, NEW r \in OrderRecords, order' = [order EXCEPT ![o] = r]
    PROVE  /\ order' \in [Orders -> OrderRecords] /\ order'[o] = r
           /\ \A p \in Orders \ {o} : order'[p] = order[p]
    BY DEF TypeOK

-----------------------------------------------------------------------------
(* What a step leaves to the others *)

\* Who has a referrer keeps that one.
UpNext(u, l, v) ==
    /\ user'[u].referrer # NoUser
    /\ l = FIRST  => v = user'[u].referrer
    /\ l = SECOND => v = user'[user'[u].referrer].referrer

KeepsUp == \A u \in Users, l \in Levels, v \in Users : Up(u, l, v) => UpNext(u, l, v)

LEMMA SameReferrers ==
    ASSUME \A u \in Users : user'[u].referrer = user[u].referrer, TypeOK
    PROVE  KeepsUp
<1> SUFFICES ASSUME NEW u \in Users, NEW l \in Levels, NEW v \in Users, Up(u, l, v)
             PROVE  UpNext(u, l, v)
    BY DEF KeepsUp
<1>1. user[u].referrer \in Users
    BY DEF Up, TypeOK, UserRecords
<1> QED
    BY <1>1 DEF Up, UpNext

LEMMA OthersHold ==
    ASSUME IInv, NEW p \in Orders, order'[p] = order[p], reward'[p] = reward[p],
           granted'[p] = granted[p], failed \subseteq failed', KeepsUp
    PROVE  OrderHolds(p)'
<1> DEFINE r == order[p]
<1>0. /\ r \in OrderRecords /\ order'[p] = r
      /\ \A l \in Levels : reward[p][l].user \in Users \cup {NoUser}
      /\ \A l \in Levels : r.chain[l] \in Users \cup {NoUser}
    BY DEF IInv, TypeOK, OrderRecords, RewardRecords
<1>1. ReadsHold(p) /\ RewardsHold(p) /\ SecondHolds(p)
    BY DEF IInv, OrderHolds
<1>2. ReadsHold(p)'
  <2>1. \A l \in Levels : r.pc \in Running /\ r.chain[l] # NoUser => UpNext(r.buyer, l, r.chain[l])
      BY <1>0, <1>1 DEF ReadsHold, KeepsUp, Running, Granting
  <2> QED
      BY <1>0, <1>1, <2>1 DEF ReadsHold, Held, Up, UpNext
<1>3. RewardsHold(p)'
  <2>1. \A l \in Levels : reward[p][l].status # "none" => UpNext(r.buyer, l, reward[p][l].user)
      BY <1>0, <1>1 DEF ReadsHold, RewardsHold, KeepsUp
  <2> QED
      BY <1>0, <1>1, <2>1 DEF RewardsHold, Up, UpNext
<1>4. SecondHolds(p)'
    BY <1>0, <1>1, SecondPrimed DEF SecondHolds
<1> QED
    BY <1>2, <1>3, <1>4 DEF OrderHolds

\* Rewards and grants of the other orders are left alone.
Own(o) == \A p \in Orders \ {o} :
    order'[p] = order[p] /\ reward'[p] = reward[p] /\ granted'[p] = granted[p]

LEMMA OneTask ==
    ASSUME IInv, NEW o \in Orders, Own(o), failed \subseteq failed', KeepsUp, OrderHolds(o)',
           TypeOK', Earlier', Noted', Balanced', ChangesHold'
    PROVE  IInv'
<1>1. \A p \in Orders \ {o} : OrderHolds(p)'
    BY OthersHold DEF Own
<1> QED
    BY <1>1 DEF IInv

\* The fields of users that registration writes.
SameUsers ==
    next_id' = next_id
    /\ \A u \in Users : user'[u].id = user[u].id /\ user'[u].referrer = user[u].referrer
                        /\ user'[u].invited_by = user[u].invited_by

LEMMA EarlierKept ==
    ASSUME IInv, SameUsers
    PROVE  Earlier' /\ KeepsUp
<1>1. \A u \in Users : user[u].referrer \in Users \cup {NoUser}
                       /\ user[u].invited_by \in Users \cup {NoUser}
    BY DEF IInv, TypeOK, UserRecords
<1>2. Earlier'
    BY <1>1 DEF IInv, Earlier, SameUsers
<1> QED
    BY <1>2, SameReferrers DEF IInv, SameUsers

LEMMA NotedKept ==
    ASSUME IInv, again' = again,
           \A p \in Orders : order'[p].buyer = order[p].buyer
                             /\ order'[p].purchase_type = order[p].purchase_type
    PROVE  Noted'
    BY DEF IInv, Noted

\* A step of a task that does not touch points.
LEMMA QuietStep ==
    ASSUME IInv, NEW o \in Orders, NEW r \in OrderRecords, order' = [order EXCEPT ![o] = r],
           r.buyer = order[o].buyer, r.purchase_type = order[o].purchase_type, r.pc # "write",
           UNCHANGED <<settings, change, given, overlap, again, next_id>>,
           \A p \in Orders \ {o} : reward'[p] = reward[p] /\ granted'[p] = granted[p],
           SameUsers, \A u \in Users : user'[u].points = user[u].points,
           failed \subseteq failed', TypeOK', OrderHolds(o)'
    PROVE  IInv'
<1>1. /\ order'[o] = r
      /\ \A p \in Orders \ {o} : order'[p] = order[p]
    BY OneOrder DEF IInv
<1>2. Own(o)
    BY <1>1 DEF Own
<1>3. Noted'
    BY <1>1, NotedKept
<1>4. Balanced'
  <2>1. \A u \in Users \ overlap, p \in Orders :
            order'[p].pc = "write" /\ order'[p].chain[order'[p].level] = u
            => order'[p].points = user'[u].points
      BY <1>1 DEF IInv, Balanced, Held
  <2>2. change' = change /\ overlap' = overlap /\ given' = given
      OBVIOUS
  <2> QED
      BY <2>1, <2>2 DEF IInv, Balanced, Held
<1>5. ChangesHold'
    BY DEF IInv, ChangesHold
<1> QED
    BY <1>2, <1>3, <1>4, <1>5, EarlierKept, OneTask

\* A step that only writes users, and none of their points.
LEMMA UserStep ==
    ASSUME IInv, UNCHANGED <<settings, order, reward, change, history>>,
           \A u \in Users : user'[u].points = user[u].points,
           KeepsUp, Earlier', TypeOK'
    PROVE  IInv'
<1>1. /\ order' = order /\ reward' = reward /\ change' = change /\ given' = given
      /\ overlap' = overlap /\ granted' = granted /\ again' = again /\ failed' = failed
    BY DEF history
<1>2. \A p \in Orders : OrderHolds(p)'
    BY <1>1, OthersHold
<1>3. Noted' /\ Balanced' /\ ChangesHold'
    BY <1>1 DEF IInv, Noted, Balanced, ChangesHold, Held
<1> QED
    BY <1>2, <1>3 DEF IInv

-----------------------------------------------------------------------------
(* Registration *)

LEMMA CreateUserKeeps ==
    ASSUME IInv, NEW u \in Users, CreateUser(u)
    PROVE  IInv'
<1>1. PICK code \in {v \in Users : Registered(v)} \cup {NoUser} :
         user' = [user EXCEPT ![u].id = next_id, ![u].invited_by = code]
    BY DEF CreateUser
<1>2. /\ TypeOK /\ Earlier /\ user[u].id = 0 /\ next_id' = next_id + 1
      /\ UNCHANGED <<settings, order, reward, change, history, events>>
      /\ user[u] \in UserRecords /\ next_id \in Nat \ {0}
    BY DEF IInv, TypeOK, CreateUser, Registered, UserRecords
<1> DEFINE w == [user[u] EXCEPT !.id = next_id, !.invited_by = code]
<1>3. /\ w \in UserRecords /\ w.id = next_id /\ w.invited_by = code
      /\ w.referrer = user[u].referrer /\ w.points = user[u].points
    BY <1>1, <1>2 DEF UserRecords
<1>4. user' = [user EXCEPT ![u] = w]
    BY <1>1, <1>2 DEF TypeOK
<1>5. /\ user' \in [Users -> UserRecords] /\ user'[u] = w
      /\ \A v \in Users \ {u} : user'[v] = user[v]
    BY <1>2, <1>3, <1>4 DEF TypeOK
<1>6. TypeOK'
    BY <1>2, <1>5 DEF TypeOK, history
<1>7. user[u].referrer = NoUser
    BY <1>2, Constants DEF Earlier, TypeOK, UserRecords
<1> HIDE DEF w
<1>8. code # NoUser => code \in Users /\ code # u /\ user[code].id > 0
    BY <1>2 DEF Registered
<1>9. \A v \in Users : user[v].id \in Nat
    BY <1>2 DEF TypeOK, UserRecords
<1>10. Earlier'
  <2>1. \A v \in Users \ {u} :
            /\ user[v].referrer # NoUser => user[v].referrer \in Users /\ user[v].referrer # u
            /\ user[v].invited_by # NoUser => user[v].invited_by \in Users /\ user[v].invited_by # u
      BY <1>2 DEF Earlier, TypeOK, UserRecords
  <2>2. ASSUME NEW v \in Users \ {u}
        PROVE  /\ user'[v].id < next_id'
               /\ user'[v].referrer # NoUser => 0 < user'[user'[v].referrer].id
                                                /\ user'[user'[v].referrer].id < user'[v].id
               /\ user'[v].invited_by # NoUser =>
                     /\ user'[v].referrer = NoUser
                     /\ 0 < user'[user'[v].invited_by].id
                     /\ user'[user'[v].invited_by].id < user'[v].id
      BY <1>2, <1>5, <1>9, <2>1 DEF Earlier
  <2>3. /\ user'[u].id = next_id /\ next_id < next_id' /\ user'[u].referrer = NoUser
        /\ user'[u].invited_by = code
        /\ code # NoUser => user'[code] = user[code] /\ 0 < user[code].id /\ user[code].id < next_id
      BY <1>2, <1>3, <1>5, <1>7, <1>8, <1>9 DEF Earlier
  <2> QED
      BY <2>2, <2>3 DEF Earlier
<1>11. KeepsUp
    BY <1>2, <1>3, <1>5, SameReferrers
<1>12. \A v \in Users : user'[v].points = user[v].points
    BY <1>3, <1>5
<1> QED
    BY <1>2, <1>6, <1>10, <1>11, <1>12, UserStep

LEMMA AttachReferralKeeps ==
    ASSUME IInv, NEW u \in Users, AttachReferral(u)
    PROVE  IInv'
<1> DEFINE v == IF settings.enable /\ user[u].invited_by # u THEN user[u].invited_by ELSE NoUser
           w == [user[u] EXCEPT !.invited_by = NoUser, !.referrer = v]
<1>1. /\ TypeOK /\ Earlier /\ user[u] \in UserRecords /\ user[u].invited_by # NoUser
      /\ UNCHANGED <<settings, order, reward, change, history, next_id, events>>
    BY DEF IInv, TypeOK, AttachReferral
<1>2. user' = [user EXCEPT ![u] = w]
    BY <1>1 DEF AttachReferral, TypeOK
<1>3. /\ w \in UserRecords /\ w.id = user[u].id /\ w.invited_by = NoUser
      /\ w.referrer = v /\ w.points = user[u].points
    BY <1>1 DEF UserRecords
<1>4. /\ user' \in [Users -> UserRecords] /\ user'[u] = w
      /\ \A x \in Users \ {u} : user'[x] = user[x]
    BY <1>1, <1>2, <1>3 DEF TypeOK
<1>5. TypeOK'
    BY <1>1, <1>4 DEF TypeOK, history
<1>6. v = NoUser \/ v = user[u].invited_by
    OBVIOUS
<1> HIDE DEF w, v
<1>7. user[u].referrer = NoUser
    BY <1>1 DEF Earlier
<1>8. \A x \in Users : /\ user'[x].id = user[x].id /\ user'[x].points = user[x].points
                       /\ user[x].referrer \in Users \cup {NoUser}
                       /\ user[x].invited_by \in Users \cup {NoUser}
    BY <1>1, <1>3, <1>4 DEF TypeOK, UserRecords
<1>9. Earlier'
  <2>1. ASSUME NEW x \in Users \ {u}
        PROVE  /\ user'[x].id < next_id'
               /\ user'[x].referrer # NoUser => 0 < user'[user'[x].referrer].id
                                                /\ user'[user'[x].referrer].id < user'[x].id
               /\ user'[x].invited_by # NoUser =>
                     /\ user'[x].referrer = NoUser
                     /\ 0 < user'[user'[x].invited_by].id
                     /\ user'[user'[x].invited_by].id < user'[x].id
      BY <1>1, <1>4, <1>8 DEF Earlier
  <2>2. /\ user'[u].id < next_id' /\ user'[u].invited_by = NoUser
        /\ user'[u].referrer # NoUser => 0 < user'[user'[u].referrer].id
                                         /\ user'[user'[u].referrer].id < user'[u].id
      BY <1>1, <1>3, <1>4, <1>6, <1>8 DEF Earlier
  <2> QED
      BY <2>1, <2>2 DEF Earlier
<1>10. KeepsUp
  <2> SUFFICES ASSUME NEW x \in Users, NEW l \in Levels, NEW y \in Users, Up(x, l, y)
               PROVE  UpNext(x, l, y)
      BY DEF KeepsUp
  <2>1. x # u /\ user[x].referrer \in Users
      BY <1>7, <1>8 DEF Up
  <2>2. l = SECOND => user[x].referrer # u
      BY <1>7, Constants DEF Up
  <2> QED
      BY <1>4, <2>1, <2>2 DEF Up, UpNext
<1> QED
    BY <1>1, <1>5, <1>8, <1>9, <1>10, UserStep

LEMMA RegistrationFailsKeeps ==
    ASSUME IInv, NEW u \in Users, RegistrationFails(u)
    PROVE  IInv'
<1> DEFINE w == [user[u] EXCEPT !.invited_by = NoUser]
<1>1. /\ TypeOK /\ Earlier /\ user[u] \in UserRecords
      /\ UNCHANGED <<settings, order, reward, change, history, next_id>> /\ events' \in Nat
    BY DEF IInv, TypeOK, RegistrationFails, Event
<1>2. user' = [user EXCEPT ![u] = w]
    BY <1>1 DEF RegistrationFails, TypeOK
<1>3. /\ w \in UserRecords /\ w.id = user[u].id /\ w.invited_by = NoUser
      /\ w.referrer = user[u].referrer /\ w.points = user[u].points
    BY <1>1 DEF UserRecords
<1>4. /\ user' \in [Users -> UserRecords] /\ user'[u] = w
      /\ \A x \in Users \ {u} : user'[x] = user[x]
    BY <1>1, <1>2, <1>3 DEF TypeOK
<1>5. TypeOK'
    BY <1>1, <1>4 DEF TypeOK, history
<1> HIDE DEF w
<1>6. \A x \in Users : /\ user'[x].id = user[x].id /\ user'[x].points = user[x].points
                       /\ user'[x].referrer = user[x].referrer
                       /\ user'[x].invited_by \in {NoUser, user[x].invited_by}
                       /\ user[x].referrer \in Users \cup {NoUser}
                       /\ user[x].invited_by \in Users \cup {NoUser}
    BY <1>1, <1>3, <1>4 DEF TypeOK, UserRecords
<1>7. Earlier'
    BY <1>1, <1>6 DEF Earlier
<1> QED
    BY <1>1, <1>5, <1>6, <1>7, SameReferrers, UserStep

LEMMA DeleteSubscriptionKeeps ==
    ASSUME IInv, NEW u \in Users, DeleteSubscription(u)
    PROVE  IInv'
<1> DEFINE w == [user[u] EXCEPT !.subscription = "none"]
<1>1. /\ TypeOK /\ user[u] \in UserRecords
      /\ UNCHANGED <<settings, order, reward, change, history, next_id>> /\ events' \in Nat
    BY DEF IInv, TypeOK, DeleteSubscription, Event
<1>2. user' = [user EXCEPT ![u] = w]
    BY <1>1 DEF DeleteSubscription, TypeOK
<1>3. /\ w \in UserRecords /\ w.id = user[u].id /\ w.invited_by = user[u].invited_by
      /\ w.referrer = user[u].referrer /\ w.points = user[u].points
    BY <1>1 DEF UserRecords
<1>4. /\ user' \in [Users -> UserRecords] /\ user'[u] = w
      /\ \A x \in Users \ {u} : user'[x] = user[x]
    BY <1>1, <1>2, <1>3 DEF TypeOK
<1>5. TypeOK'
    BY <1>1, <1>4 DEF TypeOK, history
<1> HIDE DEF w
<1>6. SameUsers /\ \A x \in Users : user'[x].points = user[x].points
    BY <1>1, <1>3, <1>4 DEF SameUsers
<1> QED
    BY <1>1, <1>5, <1>6, EarlierKept, UserStep

-----------------------------------------------------------------------------
(* Purchases *)

\* A task that has granted nothing yet.
LEMMA NothingYet ==
    ASSUME IInv, NEW o \in Orders, order[o].pc \in Before
    PROVE  \A l \in Levels : /\ reward[o][l].status = "none" /\ granted[o][l] = 0
                             /\ order[o].chain[l] = NoUser
    BY DEF IInv, OrderHolds, RewardsHold, ReadsHold, Ahead

LEMMA StillNothing ==
    ASSUME IInv, NEW o \in Orders, order[o].pc \in Before, NEW r \in OrderRecords, order'[o] = r,
           reward'[o] = reward[o], granted'[o] = granted[o],
           r.pc \in {"open", "assign", "done"}, r.buyer \in Users,
           r.pc \in Before => r.level = order[o].level, r.chain = order[o].chain
    PROVE  OrderHolds(o)'
<1>1. /\ ReadsHold(o) /\ order[o].level = FIRST
      /\ \A l \in Levels : reward[o][l].status = "none" /\ granted[o][l] = 0 /\ r.chain[l] = NoUser
    BY NothingYet DEF IInv, OrderHolds, ReadsHold
<1>2. ReadsHold(o)'
    BY <1>1 DEF ReadsHold, Running, Granting, Before
<1>3. RewardsHold(o)'
    BY <1>1 DEF RewardsHold, Ahead, Granting, Before
<1>4. ~Owed(r)
    BY <1>1, LevelsAre DEF Owed, OrderRecords
<1> QED
    BY <1>2, <1>3, <1>4, SecondPrimed DEF OrderHolds

LEMMA OpenOrderKeeps ==
    ASSUME IInv, NEW o \in Orders, NEW u \in Users, OpenOrder(o, u)
    PROVE  IInv'
<1>1. PICK kind \in Kinds, price \in Prices, duration \in Durations :
         order' = [order EXCEPT ![o] =
              [@ EXCEPT !.pc = "open", !.buyer = u, !.kind = kind,
                        !.price = price, !.duration = duration,
                        !.purchase_type = IF user[u].subscription = "none"
                                          THEN "NEW" ELSE "OTHER"]]
    BY DEF OpenOrder
<1> DEFINE type == IF user[u].subscription = "none" THEN "NEW" ELSE "OTHER"
           r == [order[o] EXCEPT !.pc = "open", !.buyer = u, !.kind = kind,
                        !.price = price, !.duration = duration, !.purchase_type = type]
<1>2. /\ TypeOK /\ order[o] \in OrderRecords /\ order[o].pc = "new" /\ order[o].pc \in Before
      /\ UNCHANGED <<settings, user, reward, change, given, overlap, granted, failed, next_id, events>>
    BY DEF IInv, TypeOK, OpenOrder, Before
<1>3. r \in OrderRecords
    BY <1>2, Constants DEF OrderRecords
<1>4. /\ r.pc = "open" /\ r.buyer = u /\ r.purchase_type = type
      /\ r.level = order[o].level /\ r.chain = order[o].chain
    BY <1>2 DEF OrderRecords
<1>5. order' = [order EXCEPT ![o] = r]
    BY <1>1, <1>2 DEF TypeOK
<1>6. /\ order' \in [Orders -> OrderRecords] /\ order'[o] = r
      /\ \A p \in Orders \ {o} : order'[p] = order[p]
    BY <1>2, <1>3, <1>5, OneOrder
<1>7. again' = IF order'[o].purchase_type = "NEW"
                  /\ \E p \in Orders : order[p].buyer = u /\ order[p].purchase_type = "NEW"
               THEN again \cup {u} ELSE again
    BY DEF OpenOrder
<1> HIDE DEF r
<1>8. TypeOK'
    BY <1>2, <1>6, <1>7 DEF TypeOK
<1>9. Noted'
    BY <1>4, <1>6, <1>7 DEF IInv, Noted
<1>10. Balanced' /\ ChangesHold' /\ Earlier'
    BY <1>2, <1>4, <1>6 DEF IInv, Balanced, ChangesHold, Earlier, Held
<1>11. KeepsUp
    BY <1>2, SameReferrers
<1>12. Own(o)
    BY <1>2, <1>6 DEF Own
<1>13. OrderHolds(o)'
    BY <1>2, <1>3, <1>4, <1>6, StillNothing
<1> QED
    BY <1>2, <1>8, <1>9, <1>10, <1>11, <1>12, <1>13, OneTask

LEMMA CompletePurchaseKeeps ==
    ASSUME IInv, NEW o \in Orders, CompletePurchase(o)
    PROVE  IInv'
<1> DEFINE u == order[o].buyer
           w == [user[u] EXCEPT !.subscription = IF order[o].kind = "trial" THEN "trial" ELSE "paid"]
           r == [order[o] EXCEPT !.pc = IF order[o].kind = "free" THEN "done" ELSE "assign"]
<1>1. /\ TypeOK /\ order[o] \in OrderRecords /\ order[o].pc = "open" /\ order[o].pc \in Before
      /\ UNCHANGED <<settings, reward, change, history, next_id, events>> /\ ReadsHold(o)
    BY DEF IInv, TypeOK, CompletePurchase, Before, OrderHolds
<1>2. u \in Users /\ user[u] \in UserRecords
    BY <1>1 DEF ReadsHold, TypeOK
<1>3. /\ user' = [user EXCEPT ![u] = w] /\ order' = [order EXCEPT ![o] = r]
    BY <1>1, <1>2 DEF CompletePurchase, TypeOK
<1>4. /\ w \in UserRecords /\ w.id = user[u].id /\ w.invited_by = user[u].invited_by
      /\ w.referrer = user[u].referrer /\ w.points = user[u].points
    BY <1>2 DEF UserRecords
<1>5. /\ r \in OrderRecords /\ r.pc \in {"assign", "done"} /\ r.buyer = u
      /\ r.purchase_type = order[o].purchase_type /\ r.level = order[o].level
      /\ r.chain = order[o].chain
    BY <1>1 DEF OrderRecords
<1> HIDE DEF w, r
<1>6. /\ user' \in [Users -> UserRecords] /\ user'[u] = w
      /\ \A x \in Users \ {u} : user'[x] = user[x]
    BY <1>1, <1>2, <1>3, <1>4 DEF TypeOK
<1>7. /\ order' \in [Orders -> OrderRecords] /\ order'[o] = r
    BY <1>1, <1>3, <1>5, OneOrder
<1>8. TypeOK'
    BY <1>1, <1>6, <1>7 DEF TypeOK, history
<1>9. SameUsers /\ \A x \in Users : user'[x].points = user[x].points
    BY <1>1, <1>4, <1>6 DEF SameUsers
<1>10. OrderHolds(o)'
    BY <1>1, <1>2, <1>5, <1>7, StillNothing DEF history
<1> QED
    BY <1>1, <1>3, <1>5, <1>8, <1>9, <1>10, QuietStep DEF history

-----------------------------------------------------------------------------
(* The reward task *)

LEMMA AssignRewardsKeeps ==
    ASSUME IInv, NEW o \in Orders, AssignRewards(o)
    PROVE  IInv'
<1> DEFINE b == order[o].buyer
           r == IF Earns(settings, order[o]) /\ user[b].referrer # NoUser
                THEN [order[o] EXCEPT !.pc = "create", !.settings = settings, !.chain = Chain(b)]
                ELSE [order[o] EXCEPT !.pc = "done"]
<1>1. /\ TypeOK /\ order[o] \in OrderRecords /\ order[o].pc = "assign" /\ order[o].pc \in Before
      /\ UNCHANGED <<settings, user, reward, change, history, next_id, events>> /\ ReadsHold(o)
      /\ order' = [order EXCEPT ![o] = r]
    BY DEF IInv, TypeOK, AssignRewards, Before, OrderHolds
<1>2. b \in Users /\ \A x \in Users : user[x].referrer \in Users \cup {NoUser}
    BY <1>1 DEF ReadsHold, TypeOK, UserRecords
<1>3. user[b].referrer # NoUser => Chain(b) \in [Levels -> Users \cup {NoUser}]
    BY <1>2 DEF Chain
<1>4. /\ r \in OrderRecords /\ r.buyer = b /\ r.purchase_type = order[o].purchase_type
      /\ r.level = order[o].level /\ r.pc \in {"create", "done"}
      /\ r.pc = "done" => r.chain = order[o].chain
      /\ r.pc = "create" => Earns(settings, order[o]) /\ user[b].referrer # NoUser
                            /\ r.settings = settings /\ r.chain = Chain(b)
    BY <1>1, <1>3 DEF OrderRecords, TypeOK
<1> HIDE DEF r
<1>5. /\ order' \in [Orders -> OrderRecords] /\ order'[o] = r
    BY <1>1, <1>4, OneOrder
<1>6. TypeOK'
    BY <1>1, <1>5 DEF TypeOK, history
<1>7. SameUsers /\ \A x \in Users : user'[x].points = user[x].points
    BY <1>1 DEF SameUsers
<1>8. CASE r.pc = "done"
  <2>1. OrderHolds(o)'
      BY <1>1, <1>2, <1>4, <1>5, <1>8, StillNothing DEF history
  <2> QED
      BY <1>1, <1>4, <1>6, <1>7, <1>8, <2>1, QuietStep DEF history
<1>9. CASE r.pc = "create"
  <2>1. /\ reward'[o] = reward[o] /\ granted'[o] = granted[o] /\ user' = user /\ r.level = FIRST
        /\ \A l \in Levels : reward[o][l].status = "none" /\ granted[o][l] = 0
      BY <1>1, <1>4, NothingYet DEF history, ReadsHold
  <2>2. NewIfFirst(r)
      BY <1>4, <1>9 DEF NewIfFirst, Earns
  <2>3. \A l \in Levels : r.chain[l] # NoUser => Up(b, l, r.chain[l])
      BY <1>4, <1>9, LevelsAre DEF Chain, Up
  <2>4. \A l \in Levels : r.chain[l] # NoUser => UpNext(b, l, r.chain[l])
      BY <2>1, <2>3 DEF Up, UpNext
  <2>5. ReadsHold(o)'
      BY <1>2, <1>4, <1>5, <1>9, <2>2, <2>4 DEF ReadsHold, NewIfFirst, Up, UpNext, Running, Granting, Before
  <2>6. RewardsHold(o)'
      BY <1>5, <1>9, <2>1 DEF RewardsHold
  <2>7. SecondHolds(o)'
      BY <1>5, <1>9, SecondPrimed
  <2>8. OrderHolds(o)'
      BY <2>5, <2>6, <2>7 DEF OrderHolds
  <2> QED
      BY <1>1, <1>4, <1>6, <1>7, <1>9, <2>8, QuietStep DEF history
<1> QED
    BY <1>4, <1>8, <1>9

\* A task that passes on to the next level, or ends, leaves the level it was at
\* as it may be left.
LEMMA PassedHolds ==
    ASSUME IInv, NEW o \in Orders, order[o].pc \in Running,
           order' = [order EXCEPT ![o] = Passed(order[o])], KeepsUp, failed \subseteq failed',
           NEW l \in Levels, l = order[o].level,
           \A k \in Levels \ {l} : reward'[o][k] = reward[o][k],
           granted' = granted,
           LET w == reward'[o][l] IN
           /\ w.user = reward[o][l].user
           /\ (w.status # "none") = (reward[o][l].status # "none")
           /\ w.status = "issued" => granted[o][l] = 1
           /\ granted[o][l] = 1 /\ w.status # "issued" => <<o, l>> \in failed'
           /\ w.status = "none" => Held(o) = NoUser \/ <<o, l>> \in failed'
                                   \/ RewardAmount(order[o].settings, order[o]) = 0
    PROVE  OrderHolds(o)'
<1> DEFINE r == order[o]
           q == Passed(r)
<1>1. /\ r \in OrderRecords /\ ReadsHold(o) /\ RewardsHold(o) /\ TypeOK
    BY DEF IInv, TypeOK, OrderHolds
<1>2. /\ q \in OrderRecords /\ order'[o] = q
      /\ r.level = FIRST => q.pc = "create" /\ q.level = SECOND
      /\ r.level # FIRST => q.pc = "done" /\ q.level = SECOND
      /\ q.buyer = r.buyer /\ q.purchase_type = r.purchase_type
      /\ q.settings = r.settings /\ q.chain = r.chain
      /\ q.price = r.price /\ q.duration = r.duration
    BY <1>1, OneOrder, PassedIs
<1>3. Owed(q) = Owed(r)
    BY <1>1, <1>2, OwedIsSame
<1> HIDE DEF q
<1>4. /\ r.buyer \in Users /\ NewIfFirst(r) /\ r.pc \notin Before
      /\ \A k \in Levels : r.chain[k] # NoUser => Up(r.buyer, k, r.chain[k])
      /\ \A k \in Levels : r.chain[k] \in Users \cup {NoUser}
      /\ \A k \in Levels : reward[o][k].user \in Users \cup {NoUser}
    BY <1>1 DEF ReadsHold, Running, Granting, Before, OrderRecords, TypeOK, RewardRecords
<1>5. ReadsHold(o)'
  <2>1. \A k \in Levels : r.chain[k] # NoUser => UpNext(r.buyer, k, r.chain[k])
      BY <1>4 DEF KeepsUp
  <2> QED
      BY <1>2, <1>4, <2>1 DEF ReadsHold, NewIfFirst, Up, UpNext, Before, Granting
<1>6. RewardsHold(o)'
  <2> SUFFICES ASSUME NEW k \in Levels
               PROVE  /\ Ahead(q, k) => reward'[o][k].status = "none" /\ granted[o][k] = 0
                      /\ reward'[o][k].status = "issued" => granted[o][k] = 1
                      /\ granted[o][k] <= IF reward'[o][k].status = "none" THEN 0 ELSE 1
                      /\ granted[o][k] = 1 /\ reward'[o][k].status # "issued" => <<o, k>> \in failed'
                      /\ reward'[o][k].status # "none" =>
                            /\ NewIfFirst(r) /\ reward'[o][k].user # NoUser
                            /\ UpNext(r.buyer, k, reward'[o][k].user)
      BY <1>2, LevelsAre DEF RewardsHold, NewIfFirst, Up, UpNext
  <2>1. /\ reward'[o][k].user = reward[o][k].user
        /\ (reward'[o][k].status # "none") = (reward[o][k].status # "none")
        /\ reward'[o][k].status = "issued" => granted[o][k] = 1
        /\ granted[o][k] = 1 /\ reward'[o][k].status # "issued" => <<o, k>> \in failed'
      BY <1>1 DEF RewardsHold
  <2>2. Ahead(q, k) => Ahead(r, k)
      BY <1>2, <1>4, LevelsAre DEF Ahead, Before, Granting, Running
  <2>3. /\ Ahead(r, k) => reward[o][k].status = "none" /\ granted[o][k] = 0
        /\ granted[o][k] <= IF reward[o][k].status = "none" THEN 0 ELSE 1
        /\ reward[o][k].status # "none" =>
              reward[o][k].user # NoUser /\ Up(r.buyer, k, reward[o][k].user)
      BY <1>1 DEF RewardsHold
  <2>4. reward[o][k].status # "none" => UpNext(r.buyer, k, reward[o][k].user)
      BY <1>4, <2>3 DEF KeepsUp
  <2> QED
      BY <1>4, <2>1, <2>2, <2>3, <2>4
<1>7. SecondHolds(o)'
  <2> SUFFICES ASSUME q.pc = "done", <<o, SECOND>> \notin failed', Owed(q)
               PROVE  reward'[o][SECOND].status # "none"
      BY <1>2, SecondPrimed
  <2>1. r.level = SECOND /\ l = SECOND
      BY <1>2, LevelsAre
  <2>2. Held(o) # NoUser /\ RewardAmount(r.settings, r) > 0
    <3>1. [r EXCEPT !.level = SECOND] = r
        BY <1>1, <2>1 DEF OrderRecords
    <3> QED
        BY <1>3, <2>1, <3>1 DEF Owed, Held
  <2> QED
      BY <2>1, <2>2
<1> QED
    BY <1>5, <1>6, <1>7 DEF OrderHolds

\* What is known of a task that runs.
LEMMA RunningIs ==
    ASSUME IInv, NEW o \in Orders, order[o].pc \in Running
    PROVE  /\ TypeOK /\ order[o] \in OrderRecords /\ order[o].level \in Levels
           /\ order[o].buyer \in Users /\ NewIfFirst(order[o])
           /\ Held(o) # NoUser => Held(o) \in Users /\ Up(order[o].buyer, order[o].level, Held(o))
           /\ order[o].pc \in Granting => Held(o) # NoUser
                                          /\ reward[o][order[o].level].status = "pending"
           /\ order[o].pc = "create" => reward[o][order[o].level].status = "none"
                                        /\ granted[o][order[o].level] = 0
           /\ order[o].pc \in {"grant", "write"} => granted[o][order[o].level] = 0
           /\ order[o].pc = "mark" => granted[o][order[o].level] = 1
<1>1. TypeOK /\ order[o] \in OrderRecords /\ order[o].level \in Levels
    BY DEF IInv, TypeOK, OrderRecords
<1>2. ReadsHold(o) /\ RewardsHold(o)
    BY DEF IInv, OrderHolds
<1>3. order[o].pc # "new" /\ order[o].buyer \in Users /\ NewIfFirst(order[o])
    BY <1>2 DEF ReadsHold, Running, Granting
<1>4. Held(o) # NoUser => Held(o) \in Users /\ Up(order[o].buyer, order[o].level, Held(o))
    BY <1>1, <1>2 DEF ReadsHold, Held, OrderRecords
<1>5. order[o].pc = "create" => Ahead(order[o], order[o].level)
    BY <1>1, LevelsAre DEF Ahead
<1> QED
    BY <1>1, <1>2, <1>3, <1>4, <1>5 DEF ReadsHold, RewardsHold

\* Passing on changes no type.
LEMMA PassedStep ==
    ASSUME IInv, NEW o \in Orders, order[o].pc \in Running,
           order' = [order EXCEPT ![o] = Passed(order[o])],
           UNCHANGED <<settings, user, change, given, overlap, granted, again, next_id>>,
           \A p \in Orders \ {o} : reward'[p] = reward[p],
           failed \subseteq failed', TypeOK',
           NEW l \in Levels, l = order[o].level,
           \A k \in Levels \ {l} : reward'[o][k] = reward[o][k],
           LET w == reward'[o][l] IN
           /\ w.user = reward[o][l].user
           /\ (w.status # "none") = (reward[o][l].status # "none")
           /\ w.status = "issued" => granted[o][l] = 1
           /\ granted[o][l] = 1 /\ w.status # "issued" => <<o, l>> \in failed'
           /\ w.status = "none" => Held(o) = NoUser \/ <<o, l>> \in failed'
                                   \/ RewardAmount(order[o].settings, order[o]) = 0
    PROVE  IInv'
<1>1. TypeOK /\ order[o] \in OrderRecords
    BY RunningIs
<1>2. /\ Passed(order[o]) \in OrderRecords /\ Passed(order[o]).buyer = order[o].buyer
      /\ Passed(order[o]).purchase_type = order[o].purchase_type
      /\ Passed(order[o]).pc # "write"
    BY <1>1, PassedIs
<1>3. SameUsers /\ \A x \in Users : user'[x].points = user[x].points
    BY DEF SameUsers
<1>4. KeepsUp
    BY <1>1, SameReferrers
<1>5. OrderHolds(o)'
    BY <1>4, PassedHolds
<1>6. \A p \in Orders \ {o} : reward'[p] = reward[p] /\ granted'[p] = granted[p]
    OBVIOUS
<1> QED
    BY <1>2, <1>3, <1>5, <1>6, QuietStep

LEMMA CreateRewardKeeps ==
    ASSUME IInv, NEW o \in Orders, CreateReward(o)
    PROVE  IInv'
<1> DEFINE l == order[o].level
           amount == RewardAmount(order[o].settings, order[o])
           w == [status |-> "pending", user |-> Held(o),
                 type |-> order[o].settings.type, amount |-> amount]
           r == [order[o] EXCEPT !.pc = "grant"]
<1>1. /\ order[o].pc = "create" /\ order[o].pc \in Running
      /\ UNCHANGED <<settings, user, change, history, next_id, events>>
    BY DEF CreateReward, Running
<1>2. /\ TypeOK /\ order[o] \in OrderRecords /\ l \in Levels /\ order[o].settings \in Settings
      /\ reward[o][l].status = "none" /\ granted[o][l] = 0 /\ order[o].buyer \in Users
      /\ NewIfFirst(order[o]) /\ reward[o] \in [Levels -> RewardRecords]
    BY <1>1, RunningIs DEF OrderRecords, TypeOK
<1>3. CASE amount = 0 \/ Held(o) = NoUser
  <2>1. order' = [order EXCEPT ![o] = Passed(order[o])] /\ reward' = reward
      BY <1>3 DEF CreateReward
  <2>2. TypeOK'
    <3>1. order' \in [Orders -> OrderRecords]
        BY <1>2, <2>1, PassedIs, OneOrder
    <3> QED
        BY <1>1, <1>2, <2>1, <3>1 DEF TypeOK, history
  <2> QED
    <3>1. /\ \A p \in Orders \ {o} : reward'[p] = reward[p]
          /\ \A k \in Levels \ {l} : reward'[o][k] = reward[o][k]
          /\ reward'[o][l] = reward[o][l] /\ failed \subseteq failed'
        BY <1>1, <2>1 DEF history
    <3>2. UNCHANGED <<settings, user, change, given, overlap, granted, again, next_id>>
        BY <1>1 DEF history
    <3>3. Held(o) = NoUser \/ RewardAmount(order[o].settings, order[o]) = 0
        BY <1>3
    <3>4. granted[o][l] # 1 /\ reward'[o][l].status = "none"
        BY <1>2, <3>1
    <3> HIDE DEF amount, l
    <3>5. l = order[o].level
        BY DEF l
    <3> QED
        BY <1>1, <1>2, <2>1, <2>2, <3>1, <3>2, <3>3, <3>4, <3>5, PassedStep
<1>4. CASE ~(amount = 0 \/ Held(o) = NoUser)
  <2>1. reward' = [reward EXCEPT ![o][l] = w] /\ order' = [order EXCEPT ![o] = r]
      BY <1>2, <1>4 DEF CreateReward, TypeOK
  <2>2. Held(o) \in Users /\ Up(order[o].buyer, l, Held(o))
      BY <1>1, <1>4, RunningIs
  <2>3. w \in RewardRecords /\ w.status = "pending" /\ w.user = Held(o)
    <3>1. amount \in Nat /\ order[o].settings.type \in {"POINTS", "EXTRA_DAYS"}
        BY <1>2, AmountIsNat DEF Settings
    <3> HIDE DEF amount
    <3> QED
        BY <2>2, <3>1 DEF RewardRecords
  <2>4. /\ r \in OrderRecords /\ r.pc = "grant" /\ r.buyer = order[o].buyer /\ r.level = l
        /\ r.purchase_type = order[o].purchase_type /\ r.chain = order[o].chain
        /\ r.settings = order[o].settings
      BY <1>2 DEF OrderRecords
  <2> HIDE DEF w, r
  <2>5. /\ order' \in [Orders -> OrderRecords] /\ order'[o] = r
      BY <1>2, <2>1, <2>4, OneOrder
  <2>6. /\ reward' \in [Orders -> [Levels -> RewardRecords]] /\ reward'[o][l] = w
        /\ \A p \in Orders \ {o} : reward'[p] = reward[p]
        /\ \A k \in Levels \ {l} : reward'[o][k] = reward[o][k]
      BY <1>2, <2>1, <2>3 DEF TypeOK
  <2>7. TypeOK'
      BY <1>1, <1>2, <2>5, <2>6 DEF TypeOK, history
  <2>8. ReadsHold(o) /\ RewardsHold(o) /\ user' = user /\ granted' = granted /\ failed' = failed
      BY <1>1 DEF IInv, OrderHolds, history
  <2>9. ReadsHold(o)'
    <3>1. \A k \in Levels : r.chain[k] # NoUser => Up(r.buyer, k, r.chain[k])
        BY <1>1, <2>4, <2>8 DEF ReadsHold
    <3>2. r.chain[r.level] # NoUser /\ reward'[o][r.level].status = "pending"
        BY <2>2, <2>3, <2>4, <2>6, Constants DEF Held
    <3>3. NewIfFirst(r)
        BY <1>2, <2>4 DEF NewIfFirst
    <3> QED
        BY <1>2, <2>4, <2>5, <2>8, <3>1, <3>2, <3>3
           DEF ReadsHold, Held, Up, NewIfFirst, Before, Running, Granting
  <2>10. RewardsHold(o)'
    <3>1. \A k \in Levels : Ahead(r, k) => k # l /\ Ahead(order[o], k)
        BY <1>1, <1>2, <2>4, LevelsAre DEF Ahead, Before, Granting
    <3>2. Up(r.buyer, l, w.user) /\ NewIfFirst(r) /\ w.user # NoUser
        BY <1>2, <2>2, <2>3, <2>4, Constants DEF NewIfFirst
    <3>3. ASSUME NEW k \in Levels
          PROVE  /\ Ahead(r, k) => reward'[o][k].status = "none" /\ granted[o][k] = 0
                 /\ k = r.level => granted[o][k] = 0
                 /\ reward'[o][k].status = "issued" => granted[o][k] = 1
                 /\ granted[o][k] <= IF reward'[o][k].status = "none" THEN 0 ELSE 1
                 /\ granted[o][k] = 1 /\ reward'[o][k].status # "issued" => <<o, k>> \in failed
                 /\ reward'[o][k].status # "none" =>
                       /\ reward'[o][k].user # NoUser /\ Up(r.buyer, k, reward'[o][k].user)
      <4>1. CASE k = l
          BY <1>2, <2>3, <2>6, <3>1, <3>2, <4>1
      <4>2. CASE k # l
          BY <1>1, <1>2, <2>4, <2>6, <2>8, <3>1, <4>2 DEF RewardsHold
      <4> QED
          BY <4>1, <4>2
    <3> QED
        BY <2>4, <2>5, <2>8, <3>2, <3>3 DEF RewardsHold, Up
  <2>11. SecondHolds(o)'
      BY <2>4, <2>5, SecondPrimed
  <2>12. SameUsers /\ \A x \in Users : user'[x].points = user[x].points
      BY <1>1, <2>8 DEF SameUsers
  <2>13. OrderHolds(o)'
      BY <2>9, <2>10, <2>11 DEF OrderHolds
  <2> QED
      BY <1>1, <2>1, <2>4, <2>6, <2>7, <2>8, <2>12, <2>13, QuietStep DEF history
<1> QED
    BY <1>3, <1>4

\* A task that goes on at its level: it has read points, or granted.
LEMMA GoesOn ==
    ASSUME IInv, NEW o \in Orders, order[o].pc \in {"grant", "write"},
           NEW r \in OrderRecords, order'[o] = r,
           r.buyer = order[o].buyer, r.purchase_type = order[o].purchase_type,
           r.settings = order[o].settings, r.chain = order[o].chain, r.level = order[o].level,
           \/ r.pc = "write" /\ granted'[o] = granted[o]
           \/ r.pc = "mark" /\ granted'[o] = [granted[o] EXCEPT ![r.level] = @ + 1],
           reward'[o] = reward[o], KeepsUp, failed' = failed
    PROVE  OrderHolds(o)'
<1>1. /\ order[o].pc \in Running /\ order[o].pc \in Granting /\ order[o].pc \notin Before
      /\ r.pc \in Granting /\ r.pc \in Running /\ r.pc # "new" /\ r.pc \notin Before
    BY DEF Running, Granting, Before
<1>2. /\ ReadsHold(o) /\ RewardsHold(o) /\ granted[o] \in [Levels -> Nat]
      /\ \A k \in Levels : r.chain[k] \in Users \cup {NoUser}
      /\ \A k \in Levels : reward[o][k].user \in Users \cup {NoUser}
    BY DEF IInv, OrderHolds, TypeOK, RewardRecords, OrderRecords
<1>3. /\ r.level \in Levels /\ r.buyer \in Users /\ NewIfFirst(r) /\ Held(o) # NoUser
      /\ reward[o][r.level].status = "pending" /\ granted[o][r.level] = 0
    BY <1>1, RunningIs DEF NewIfFirst
<1>4. \A k \in Levels : r.chain[k] # NoUser => UpNext(r.buyer, k, r.chain[k])
    BY <1>1, <1>2, <1>3 DEF ReadsHold, KeepsUp
<1>5. ReadsHold(o)'
    BY <1>1, <1>3, <1>4 DEF ReadsHold, Held, Up, UpNext, NewIfFirst
<1>6. RewardsHold(o)'
  <2>1. \A k \in Levels : Ahead(r, k) = Ahead(order[o], k)
      BY <1>1 DEF Ahead, Granting, Before
  <2>2. \A k \in Levels : reward[o][k].status # "none" =>
            reward[o][k].user # NoUser /\ UpNext(r.buyer, k, reward[o][k].user)
      BY <1>2, <1>3 DEF RewardsHold, KeepsUp
  <2>3. \A k \in Levels : granted'[o][k] = IF k = r.level /\ r.pc = "mark" THEN 1 ELSE granted[o][k]
      BY <1>2, <1>3
  <2>4. ASSUME NEW k \in Levels
        PROVE  /\ Ahead(r, k) => reward[o][k].status = "none" /\ granted'[o][k] = 0
               /\ r.pc = "write" /\ k = r.level => granted'[o][k] = 0
               /\ r.pc = "mark" /\ k = r.level => granted'[o][k] = 1
               /\ reward[o][k].status = "issued" => granted'[o][k] = 1
               /\ granted'[o][k] <= IF reward[o][k].status = "none" THEN 0 ELSE 1
               /\ granted'[o][k] = 1 /\ reward[o][k].status # "issued" =>
                     (r.pc = "mark" /\ r.level = k) \/ <<o, k>> \in failed
    <3>1. CASE k = r.level
        BY <1>1, <1>3, <2>3, <3>1, LevelsAre DEF Ahead
    <3>2. CASE k # r.level
        BY <1>1, <1>2, <2>1, <2>3, <3>2 DEF RewardsHold
    <3> QED
        BY <3>1, <3>2
  <2> QED
      BY <1>1, <1>3, <2>2, <2>4 DEF RewardsHold, NewIfFirst, Up, UpNext
<1>7. SecondHolds(o)'
    BY SecondPrimed
<1> QED
    BY <1>5, <1>6, <1>7 DEF OrderHolds

LEMMA ReadPointsKeeps ==
    ASSUME IInv, NEW o \in Orders, ReadPoints(o)
    PROVE  IInv'
<1> DEFINE r == [order[o] EXCEPT !.pc = "write", !.points = user[Held(o)].points]
<1>1. /\ order[o].pc = "grant" /\ order[o].pc \in Running /\ order[o].pc \in Granting
      /\ UNCHANGED <<settings, user, reward, change, history, next_id, events>>
    BY DEF ReadPoints, Running, Granting
<1>2. /\ TypeOK /\ order[o] \in OrderRecords /\ Held(o) \in Users
      /\ user[Held(o)].points \in Nat
    BY <1>1, RunningIs DEF TypeOK, UserRecords
<1>3. /\ r \in OrderRecords /\ r.pc = "write" /\ r.buyer = order[o].buyer
      /\ r.purchase_type = order[o].purchase_type /\ r.settings = order[o].settings
      /\ r.chain = order[o].chain /\ r.level = order[o].level /\ r.points = user[Held(o)].points
    BY <1>2 DEF OrderRecords
<1>4. order' = [order EXCEPT ![o] = r]
    BY <1>2 DEF ReadPoints, TypeOK
<1> HIDE DEF r
<1>5. /\ order' \in [Orders -> OrderRecords] /\ order'[o] = r
      /\ \A p \in Orders \ {o} : order'[p] = order[p]
    BY <1>2, <1>3, <1>4, OneOrder
<1>6. TypeOK'
    BY <1>1, <1>2, <1>5 DEF TypeOK, history
<1>7. SameUsers
    BY <1>1 DEF SameUsers
<1>8. Earlier' /\ KeepsUp
    BY <1>7, EarlierKept
<1>9. OrderHolds(o)'
    BY <1>1, <1>3, <1>5, <1>8, GoesOn DEF history
<1>10. Own(o)
    BY <1>1, <1>5 DEF Own, history
<1>11. Noted'
    BY <1>1, <1>3, <1>5, NotedKept DEF history
<1>12. ChangesHold'
    BY <1>1 DEF IInv, ChangesHold
<1>13. Balanced'
  <2>1. /\ user' = user /\ given' = given /\ overlap' = overlap /\ change' = change
      BY <1>1 DEF history
  <2>2. \A u \in Users \ overlap, p \in Orders :
            order'[p].pc = "write" /\ order'[p].chain[order'[p].level] = u
            => order'[p].points = user[u].points
      BY <1>3, <1>5 DEF IInv, Balanced, Held
  <2> QED
      BY <2>1, <2>2 DEF IInv, Balanced, Held
<1> QED
    BY <1>1, <1>6, <1>8, <1>9, <1>10, <1>11, <1>12, <1>13, OneTask DEF history

\* The points written are those that were read and the amount; what was read
\* is what the row has, or somebody else is about to write, which is noted.
LEMMA WritePointsKeeps ==
    ASSUME IInv, NEW o \in Orders, WritePoints(o)
    PROVE  IInv'
<1> DEFINE u == Held(o)
           l == order[o].level
           r == [order[o] EXCEPT !.pc = "mark", !.points = 0]
           x == [user[u] EXCEPT !.points = order[o].points + Amount(o)]
           g == [granted[o] EXCEPT ![l] = @ + 1]
<1>1. /\ order[o].pc = "write" /\ order[o].pc \in Running /\ order[o].pc \in Granting
      /\ UNCHANGED <<settings, reward, change, again, failed, next_id, events>>
    BY DEF WritePoints, Running, Granting
<1>2. /\ TypeOK /\ order[o] \in OrderRecords /\ u \in Users /\ l \in Levels
      /\ user[u] \in UserRecords /\ Amount(o) \in Nat /\ order[o].points \in Nat
      /\ granted[o] \in [Levels -> Nat]
    BY <1>1, RunningIs DEF TypeOK, OrderRecords, RewardRecords, Amount
<1>3. /\ r \in OrderRecords /\ r.pc = "mark" /\ r.buyer = order[o].buyer
      /\ r.purchase_type = order[o].purchase_type /\ r.settings = order[o].settings
      /\ r.chain = order[o].chain /\ r.level = l
    BY <1>2 DEF OrderRecords
<1>4. /\ x \in UserRecords /\ x.id = user[u].id /\ x.referrer = user[u].referrer
      /\ x.invited_by = user[u].invited_by /\ x.points = order[o].points + Amount(o)
    BY <1>2 DEF UserRecords
<1>5. /\ order' = [order EXCEPT ![o] = r] /\ user' = [user EXCEPT ![u] = x]
      /\ given' = [given EXCEPT ![u] = @ + Amount(o)]
      /\ overlap' = IF ReadMeanwhile(u, o, NoUser) THEN overlap \cup {u} ELSE overlap
      /\ granted' = [granted EXCEPT ![o] = g]
    BY <1>2 DEF WritePoints, Granted, TypeOK
<1>6. g \in [Levels -> Nat]
    BY <1>2
<1> HIDE DEF r, x, g
<1>7. /\ order' \in [Orders -> OrderRecords] /\ order'[o] = r
      /\ \A p \in Orders \ {o} : order'[p] = order[p]
    BY <1>2, <1>3, <1>5, OneOrder
<1>8. /\ user' \in [Users -> UserRecords] /\ user'[u] = x
      /\ \A v \in Users \ {u} : user'[v] = user[v]
      /\ given' \in [Users -> Int] /\ given'[u] = given[u] + Amount(o)
      /\ \A v \in Users \ {u} : given'[v] = given[v]
      /\ granted' \in [Orders -> [Levels -> Nat]] /\ granted'[o] = g
      /\ \A p \in Orders \ {o} : granted'[p] = granted[p]
    BY <1>2, <1>4, <1>5, <1>6 DEF TypeOK
<1>9. TypeOK'
    BY <1>1, <1>2, <1>5, <1>7, <1>8 DEF TypeOK
<1>10. SameUsers
    BY <1>1, <1>4, <1>8 DEF SameUsers
<1>11. Earlier' /\ KeepsUp
    BY <1>10, EarlierKept
<1>12. OrderHolds(o)'
  <2>1. granted'[o] = [granted[o] EXCEPT ![r.level] = @ + 1]
      BY <1>3, <1>8 DEF g
  <2> QED
      BY <1>1, <1>3, <1>7, <1>11, <2>1, GoesOn
<1>13. Own(o)
    BY <1>1, <1>7, <1>8 DEF Own
<1>14. Noted'
    BY <1>1, <1>3, <1>7, NotedKept
<1>15. ChangesHold'
    BY <1>1 DEF IInv, ChangesHold
<1>16. Balanced'
  <2>1. ASSUME NEW v \in Users \ overlap'
        PROVE  /\ user'[v].points = given'[v]
               /\ \A p \in Orders : order'[p].pc = "write" /\ order'[p].chain[order'[p].level] = v
                                    => order'[p].points = user'[v].points
               /\ \A a \in Admins : change[a].pc = "write" /\ change[a].user = v =>
                                    change[a].points = user'[v].points
    <3>0. /\ v \in Users \ overlap
          /\ \A p \in Orders : order'[p].pc = "write" => p # o /\ order'[p] = order[p]
        BY <1>3, <1>5, <1>7
    <3>1. /\ user[v].points = given[v]
          /\ \A p \in Orders : order[p].pc = "write" /\ Held(p) = v => order[p].points = user[v].points
          /\ \A a \in Admins : change[a].pc = "write" /\ change[a].user = v =>
                                change[a].points = user[v].points
        BY <3>0 DEF IInv, Balanced
    <3>2. CASE v # u
        BY <1>8, <3>0, <3>1, <3>2 DEF Held
    <3>3. CASE v = u
      <4>1. ~ReadMeanwhile(u, o, NoUser)
          BY <1>5, <3>3
      <4>2. /\ \A p \in Orders \ {o} : ~(order[p].pc = "write" /\ Held(p) = u)
            /\ \A a \in Admins : ~(change[a].pc = "write" /\ change[a].user = u)
          BY <4>1, Constants DEF ReadMeanwhile
      <4>3. user'[u].points = given'[u]
          BY <1>1, <1>4, <1>8, <3>1, <3>3
      <4> QED
          BY <3>0, <3>3, <4>2, <4>3 DEF Held
    <3> QED
        BY <3>2, <3>3
  <2> QED
      BY <1>1, <2>1 DEF Balanced, Held
<1> QED
    BY <1>1, <1>9, <1>11, <1>12, <1>13, <1>14, <1>15, <1>16, OneTask

LEMMA GrantDaysKeeps ==
    ASSUME IInv, NEW o \in Orders, GrantDays(o)
    PROVE  IInv'
<1> DEFINE u == Held(o)
           l == order[o].level
<1>1. /\ order[o].pc = "grant" /\ order[o].pc \in Running /\ order[o].pc \in Granting
      /\ UNCHANGED <<settings, reward, change, given, overlap, again, failed, next_id, events>>
    BY DEF GrantDays, Running, Granting
<1>2. /\ TypeOK /\ order[o] \in OrderRecords /\ u \in Users /\ l \in Levels
      /\ user[u] \in UserRecords /\ Amount(o) \in Nat /\ granted[o] \in [Levels -> Nat]
      /\ granted[o][l] = 0 /\ reward[o][l].status = "pending"
    BY <1>1, RunningIs DEF TypeOK, OrderRecords, RewardRecords, Amount
<1>3. CASE user[u].subscription = "paid"
  <2> DEFINE r == [order[o] EXCEPT !.pc = "mark"]
             x == [user[u] EXCEPT !.days = @ + Amount(o)]
             g == [granted[o] EXCEPT ![l] = @ + 1]
  <2>1. /\ order' = [order EXCEPT ![o] = r] /\ user' = [user EXCEPT ![u] = x]
        /\ granted' = [granted EXCEPT ![o] = g]
      BY <1>2, <1>3 DEF GrantDays, Granted, TypeOK
  <2>2. /\ r \in OrderRecords /\ r.pc = "mark" /\ r.buyer = order[o].buyer
        /\ r.purchase_type = order[o].purchase_type /\ r.settings = order[o].settings
        /\ r.chain = order[o].chain /\ r.level = l
      BY <1>2 DEF OrderRecords
  <2>3. /\ x \in UserRecords /\ x.id = user[u].id /\ x.referrer = user[u].referrer
        /\ x.invited_by = user[u].invited_by /\ x.points = user[u].points
      BY <1>2 DEF UserRecords
  <2>4. g \in [Levels -> Nat]
      BY <1>2
  <2> HIDE DEF r, x, g
  <2>5. /\ order' \in [Orders -> OrderRecords] /\ order'[o] = r
      BY <1>2, <2>1, <2>2, OneOrder
  <2>6. /\ user' \in [Users -> UserRecords] /\ user'[u] = x
        /\ \A v \in Users \ {u} : user'[v] = user[v]
        /\ granted' \in [Orders -> [Levels -> Nat]] /\ granted'[o] = g
        /\ \A p \in Orders \ {o} : granted'[p] = granted[p]
      BY <1>2, <2>1, <2>3, <2>4 DEF TypeOK
  <2>7. TypeOK'
      BY <1>1, <1>2, <2>5, <2>6 DEF TypeOK
  <2>8. SameUsers /\ \A v \in Users : user'[v].points = user[v].points
      BY <1>1, <2>3, <2>6 DEF SameUsers
  <2>9. granted'[o] = [granted[o] EXCEPT ![r.level] = @ + 1]
      BY <2>2, <2>6 DEF g
  <2>10. OrderHolds(o)'
      BY <1>1, <2>2, <2>5, <2>8, <2>9, EarlierKept, GoesOn
  <2> QED
      BY <1>1, <2>1, <2>2, <2>6, <2>7, <2>8, <2>10, QuietStep
<1>4. CASE user[u].subscription # "paid"
  <2>1. order' = [order EXCEPT ![o] = Passed(order[o])] /\ user' = user /\ granted' = granted
      BY <1>4 DEF GrantDays
  <2>2. order' \in [Orders -> OrderRecords]
      BY <1>2, <2>1, PassedIs, OneOrder
  <2>3. TypeOK'
      BY <1>1, <1>2, <2>1, <2>2 DEF TypeOK
  <2>4. granted[o][l] # 1 /\ reward' = reward
      BY <1>1, <1>2
  <2> HIDE DEF l
  <2>5. l = order[o].level
      BY DEF l
  <2> QED
      BY <1>1, <1>2, <2>1, <2>3, <2>4, <2>5, PassedStep
<1> QED
    BY <1>3, <1>4

LEMMA MarkIssuedKeeps ==
    ASSUME IInv, NEW o \in Orders, MarkIssued(o)
    PROVE  IInv'
<1> DEFINE l == order[o].level
           w == [reward[o][l] EXCEPT !.status = "issued"]
<1>1. /\ order[o].pc = "mark" /\ order[o].pc \in Running /\ order[o].pc \in Granting
      /\ UNCHANGED <<settings, user, change, history, next_id, events>>
      /\ order' = [order EXCEPT ![o] = Passed(order[o])]
    BY DEF MarkIssued, Running, Granting
<1>2. /\ TypeOK /\ order[o] \in OrderRecords /\ l \in Levels
      /\ granted[o][l] = 1 /\ reward[o][l].status = "pending" /\ reward[o][l] \in RewardRecords
    BY <1>1, RunningIs DEF TypeOK, OrderRecords
<1>3. w \in RewardRecords /\ w.status = "issued" /\ w.user = reward[o][l].user
    BY <1>2 DEF RewardRecords
<1>4. reward' = [reward EXCEPT ![o][l] = w]
    BY <1>2 DEF MarkIssued, TypeOK
<1> HIDE DEF w
<1>5. /\ reward' \in [Orders -> [Levels -> RewardRecords]] /\ reward'[o][l] = w
      /\ \A p \in Orders \ {o} : reward'[p] = reward[p]
      /\ \A k \in Levels \ {l} : reward'[o][k] = reward[o][k]
    BY <1>2, <1>3, <1>4 DEF TypeOK
<1>6. order' \in [Orders -> OrderRecords]
    BY <1>1, <1>2, PassedIs, OneOrder
<1>7. TypeOK'
    BY <1>1, <1>2, <1>5, <1>6 DEF TypeOK, history
<1>8. UNCHANGED <<settings, user, change, given, overlap, granted, again, next_id>> /\ failed' = failed
    BY <1>1 DEF history
<1> HIDE DEF l
<1>9. l = order[o].level
    BY DEF l
<1> QED
    BY <1>1, <1>2, <1>3, <1>5, <1>7, <1>8, <1>9, PassedStep

LEMMA LevelFailsKeeps ==
    ASSUME IInv, NEW o \in Orders, LevelFails(o)
    PROVE  IInv'
<1> DEFINE l == order[o].level
<1>1. /\ order[o].pc \in Running /\ events' \in Nat
      /\ UNCHANGED <<settings, user, reward, change, given, overlap, granted, again, next_id>>
      /\ order' = [order EXCEPT ![o] = Passed(order[o])]
      /\ failed' = failed \cup {<<o, l>>}
    BY DEF LevelFails, Running, Granting, IInv, TypeOK, Event
<1>2. /\ TypeOK /\ order[o] \in OrderRecords /\ l \in Levels /\ RewardsHold(o)
    BY <1>1, RunningIs DEF IInv, OrderHolds
<1>3. order' \in [Orders -> OrderRecords]
    BY <1>1, <1>2, PassedIs, OneOrder
<1>4. TypeOK'
    BY <1>1, <1>2, <1>3 DEF TypeOK
<1>5. reward[o][l].status = "issued" => granted[o][l] = 1
    BY <1>2 DEF RewardsHold
<1> HIDE DEF l
<1>6. l = order[o].level
    BY DEF l
<1> QED
    BY <1>1, <1>2, <1>4, <1>5, <1>6, PassedStep

LEMMA EventIsNat ==
    ASSUME TypeOK, Event
    PROVE  events' \in Nat
    BY DEF TypeOK, Event

\* Every running task ends where it is.
LEMMA WorkerDiesKeeps ==
    ASSUME IInv, WorkerDies
    PROVE  IInv'
<1> DEFINE running == {o \in Orders : order[o].pc \notin {"new", "open", "done"}}
<1>1. /\ order' = [o \in Orders |-> IF o \in running THEN [order[o] EXCEPT !.pc = "done", !.points = 0]
                                    ELSE order[o]]
      /\ failed' = failed \cup (running \X Levels) /\ Event
      /\ UNCHANGED <<settings, user, reward, change, given, overlap, granted, again, next_id>>
    BY DEF WorkerDies
<1>2. TypeOK /\ \A o \in Orders : order[o] \in OrderRecords
    BY DEF IInv, TypeOK
<1>3. /\ \A o \in running : /\ order'[o] \in OrderRecords /\ order'[o].pc = "done"
                            /\ order'[o].buyer = order[o].buyer
                            /\ order'[o].purchase_type = order[o].purchase_type
                            /\ order'[o].settings = order[o].settings
                            /\ \A l \in Levels : <<o, l>> \in failed'
      /\ \A o \in Orders \ running : order'[o] = order[o]
  <2>1. ASSUME NEW o \in running
        PROVE  /\ order'[o] = [order[o] EXCEPT !.pc = "done", !.points = 0]
               /\ order[o] \in OrderRecords
      BY <1>1, <1>2
  <2>2. ASSUME NEW o \in running
        PROVE  /\ order'[o] \in OrderRecords /\ order'[o].pc = "done"
               /\ order'[o].buyer = order[o].buyer
               /\ order'[o].purchase_type = order[o].purchase_type
               /\ order'[o].settings = order[o].settings
    <3> DEFINE q == [order[o] EXCEPT !.pc = "done", !.points = 0]
    <3>1. order[o] \in OrderRecords /\ order'[o] = q
        BY <2>1
    <3>2. /\ q \in OrderRecords /\ q.pc = "done" /\ q.buyer = order[o].buyer
          /\ q.purchase_type = order[o].purchase_type /\ q.settings = order[o].settings
        BY <3>1 DEF OrderRecords
    <3> HIDE DEF q
    <3> QED
        BY <3>1, <3>2
  <2>3. \A o \in running, l \in Levels : <<o, l>> \in failed'
      BY <1>1
  <2>4. \A o \in Orders \ running : order'[o] = order[o]
      BY <1>1
  <2> HIDE DEF running
  <2> QED
      BY <2>2, <2>3, <2>4
<1>4. \A o \in running : order[o].pc \notin {"new", "open", "done"} /\ o \in Orders
    OBVIOUS
<1>5. order' \in [Orders -> OrderRecords] /\ failed' \subseteq Orders \X Levels
    BY <1>1, <1>2, <1>3, <1>4 DEF TypeOK
<1>6. failed \subseteq failed' /\ reward' = reward /\ granted' = granted /\ user' = user
    BY <1>1
<1> HIDE DEF running
<1>7. TypeOK'
    BY <1>1, <1>2, <1>5, EventIsNat DEF TypeOK
<1>8. SameUsers
    BY <1>1 DEF SameUsers
<1>9. Earlier' /\ KeepsUp
    BY <1>8, EarlierKept
<1>10. Noted'
    BY <1>1, <1>3, NotedKept
<1>11. ChangesHold'
    BY <1>1 DEF IInv, ChangesHold
<1>12. Balanced'
  <2>1. \A p \in Orders : order'[p].pc = "write" => order'[p] = order[p]
      BY <1>3
  <2>2. change' = change /\ given' = given /\ overlap' = overlap
      BY <1>1
  <2> QED
      BY <1>6, <2>1, <2>2 DEF IInv, Balanced, Held
<1>13. ASSUME NEW o \in running PROVE OrderHolds(o)'
  <2>1. /\ o \in Orders /\ ReadsHold(o) /\ RewardsHold(o) /\ order[o].buyer \in Users
        /\ order'[o].pc = "done" /\ order'[o].buyer = order[o].buyer
        /\ order'[o].settings = order[o].settings
        /\ order'[o].purchase_type = order[o].purchase_type
        /\ \A l \in Levels : <<o, l>> \in failed'
      BY <1>3, <1>4 DEF IInv, OrderHolds, ReadsHold
  <2>2. ReadsHold(o)'
      BY <2>1 DEF ReadsHold, Before, Running, Granting
  <2>3. RewardsHold(o)'
      BY <1>6, <2>1 DEF RewardsHold, NewIfFirst, Up, Ahead, Before, Granting
  <2>4. SecondHolds(o)'
      BY <2>1, LevelsAre DEF SecondHolds
  <2> QED
      BY <2>2, <2>3, <2>4 DEF OrderHolds
<1>14. \A o \in Orders \ running : OrderHolds(o)'
    BY <1>3, <1>6, <1>9, OthersHold
<1> QED
    BY <1>7, <1>9, <1>10, <1>11, <1>12, <1>13, <1>14 DEF IInv

-----------------------------------------------------------------------------
(* Administrators *)

\* Orders, rewards and who invited whom stay.
LEMMA AdminStep ==
    ASSUME IInv, UNCHANGED <<order, reward, granted, again, failed>>, SameUsers,
           TypeOK', Balanced', ChangesHold'
    PROVE  IInv'
<1>1. Earlier' /\ KeepsUp
    BY EarlierKept
<1>2. \A p \in Orders : OrderHolds(p)'
    BY <1>1, OthersHold
<1>3. Noted'
    BY NotedKept
<1> QED
    BY <1>1, <1>2, <1>3 DEF IInv

LEMMA ReadForChangeKeeps ==
    ASSUME IInv, NEW a \in Admins, ReadForChange(a)
    PROVE  IInv'
<1>1. PICK u \in Users, amount \in Changes :
         change' = [change EXCEPT ![a] = [pc |-> "write", user |-> u, amount |-> amount,
                                          points |-> user[u].points]]
    BY DEF ReadForChange
<1> DEFINE c == [pc |-> "write", user |-> u, amount |-> amount, points |-> user[u].points]
<1>2. /\ TypeOK /\ UNCHANGED <<settings, user, order, reward, history, next_id>> /\ events' \in Nat
      /\ user[u].points \in Nat /\ amount \in Int
    BY Constants DEF IInv, TypeOK, ReadForChange, Event, UserRecords
<1>3. c \in ChangeRecords /\ c.pc = "write" /\ c.user = u /\ c.points = user[u].points
    BY <1>2 DEF ChangeRecords
<1> HIDE DEF c
<1>4. /\ change' \in [Admins -> ChangeRecords] /\ change'[a] = c
      /\ \A b \in Admins \ {a} : change'[b] = change[b]
    BY <1>1, <1>2, <1>3 DEF TypeOK, c
<1>5. TypeOK'
    BY <1>2, <1>4 DEF TypeOK, history
<1>6. ChangesHold'
    BY <1>3, <1>4 DEF IInv, ChangesHold
<1>7. SameUsers
    BY <1>2 DEF SameUsers
<1>8. Balanced'
  <2>1. \A v \in Users \ overlap, b \in Admins :
            change'[b].pc = "write" /\ change'[b].user = v => change'[b].points = user[v].points
      BY <1>3, <1>4 DEF IInv, Balanced
  <2> QED
      BY <1>2, <2>1 DEF IInv, Balanced, Held, history
<1> QED
    BY <1>2, <1>5, <1>6, <1>7, <1>8, AdminStep DEF history

LEMMA WriteChangeKeeps ==
    ASSUME IInv, NEW a \in Admins, WriteChange(a)
    PROVE  IInv'
<1> DEFINE c == change[a]
           u == c.user
<1>1. /\ TypeOK /\ c.pc = "write" /\ change' = [change EXCEPT ![a] = NoChange]
      /\ UNCHANGED <<settings, order, reward, granted, again, failed, next_id, events>>
      /\ c \in ChangeRecords /\ u \in Users /\ user[u] \in UserRecords
    BY DEF IInv, TypeOK, WriteChange, ChangesHold
<1>2. NoChange \in ChangeRecords /\ NoChange.pc = "idle"
    BY DEF NoChange, ChangeRecords
<1>3. /\ change' \in [Admins -> ChangeRecords] /\ change'[a] = NoChange
      /\ \A b \in Admins \ {a} : change'[b] = change[b]
    BY <1>1, <1>2 DEF TypeOK
<1>4. ChangesHold'
    BY <1>2, <1>3 DEF IInv, ChangesHold
<1>5. CASE c.points + c.amount < 0
  <2>1. user' = user /\ given' = given /\ overlap' = overlap
      BY <1>5 DEF WriteChange
  <2>2. TypeOK' /\ SameUsers
      BY <1>1, <1>3, <2>1 DEF TypeOK, SameUsers
  <2>3. Balanced'
      BY <1>1, <1>2, <1>3, <2>1 DEF IInv, Balanced, Held
  <2> QED
      BY <1>1, <1>4, <2>2, <2>3, AdminStep
<1>6. CASE ~(c.points + c.amount < 0)
  <2> DEFINE x == [user[u] EXCEPT !.points = c.points + c.amount]
  <2>1. /\ user' = [user EXCEPT ![u] = x] /\ given' = [given EXCEPT ![u] = @ + c.amount]
        /\ overlap' = IF ReadMeanwhile(u, NoUser, a) THEN overlap \cup {u} ELSE overlap
      BY <1>1, <1>6 DEF WriteChange, TypeOK
  <2>2. c.amount \in Int /\ c.points + c.amount \in Nat
      BY <1>1, <1>6 DEF ChangeRecords
  <2>3. /\ x \in UserRecords /\ x.id = user[u].id /\ x.referrer = user[u].referrer
        /\ x.invited_by = user[u].invited_by /\ x.points = c.points + c.amount
      BY <1>1, <2>2 DEF UserRecords
  <2> HIDE DEF x
  <2>4. /\ user' \in [Users -> UserRecords] /\ user'[u] = x
        /\ \A v \in Users \ {u} : user'[v] = user[v]
        /\ given' \in [Users -> Int] /\ given'[u] = given[u] + c.amount
        /\ \A v \in Users \ {u} : given'[v] = given[v]
      BY <1>1, <2>1, <2>2, <2>3 DEF TypeOK
  <2>5. TypeOK'
      BY <1>1, <1>3, <2>1, <2>4 DEF TypeOK
  <2>6. SameUsers
      BY <1>1, <2>3, <2>4 DEF SameUsers
  <2>7. ASSUME NEW v \in Users \ overlap'
        PROVE  /\ user'[v].points = given'[v]
               /\ \A p \in Orders : order[p].pc = "write" /\ Held(p) = v
                                    => order[p].points = user'[v].points
               /\ \A b \in Admins : change'[b].pc = "write" /\ change'[b].user = v =>
                                    change'[b].points = user'[v].points
    <3>0. /\ v \in Users \ overlap
          /\ \A b \in Admins : change'[b].pc = "write" => b # a /\ change'[b] = change[b]
        BY <1>2, <1>3, <2>1
    <3>1. /\ user[v].points = given[v]
          /\ \A p \in Orders : order[p].pc = "write" /\ Held(p) = v => order[p].points = user[v].points
          /\ \A b \in Admins : change[b].pc = "write" /\ change[b].user = v =>
                                change[b].points = user[v].points
        BY <3>0 DEF IInv, Balanced
    <3>2. CASE v # u
        BY <2>4, <3>0, <3>1, <3>2
    <3>3. CASE v = u
      <4>1. ~ReadMeanwhile(u, NoUser, a)
          BY <2>1, <3>3
      <4>2. /\ \A p \in Orders : ~(order[p].pc = "write" /\ Held(p) = u)
            /\ \A b \in Admins \ {a} : ~(change[b].pc = "write" /\ change[b].user = u)
          BY <4>1, Constants DEF ReadMeanwhile
      <4>3. user'[u].points = given'[u]
          BY <1>1, <2>3, <2>4, <3>1, <3>3
      <4> QED
          BY <3>0, <3>3, <4>2, <4>3
    <3> QED
        BY <3>2, <3>3
  <2>8. Balanced'
      BY <1>1, <2>7 DEF Balanced, Held
  <2> QED
      BY <1>1, <1>4, <2>5, <2>6, <2>8, AdminStep
<1> QED
    BY <1>5, <1>6

LEMMA ChangeSettingsKeeps ==
    ASSUME IInv, ChangeSettings
    PROVE  IInv'
<1>1. /\ TypeOK /\ settings \in Settings /\ settings.enable \in BOOLEAN
      /\ settings.config \in [Levels -> Nat]
      /\ UNCHANGED <<user, order, reward, change, history, next_id>> /\ events' \in Nat
    BY DEF IInv, TypeOK, Settings, ChangeSettings, Event
<1>2. settings' \in Settings
  <2>1. CASE ToggleReferralSystem
      BY <1>1, <2>1 DEF ToggleReferralSystem, Settings
  <2>2. CASE UpdateReferralLevel
    <3>1. PICK level \in Levels :
             settings' = [settings EXCEPT !.level = level,
                !.config = [l \in Levels |-> IF l > level THEN 0
                                         ELSE IF @[l] = 0 THEN @[FIRST] ELSE @[l]]]
        BY <2>2 DEF UpdateReferralLevel
    <3>2. [l \in Levels |-> IF l > level THEN 0
                            ELSE IF settings.config[l] = 0 THEN settings.config[FIRST]
                            ELSE settings.config[l]] \in [Levels -> Nat]
        BY <1>1, LevelsAre
    <3> QED
        BY <1>1, <3>1, <3>2 DEF Settings
  <2>3. CASE UpdateReferralRewardType
      BY <1>1, <2>3 DEF UpdateReferralRewardType, Settings
  <2>4. CASE UpdateReferralAccrualStrategy
      BY <1>1, <2>4 DEF UpdateReferralAccrualStrategy, Settings
  <2>5. CASE UpdateReferralRewardStrategy
      BY <1>1, <2>5 DEF UpdateReferralRewardStrategy, Settings
  <2>6. CASE UpdateReferralRewardConfig
    <3>1. PICK l \in Levels, value \in Values : settings' = [settings EXCEPT !.config[l] = value]
        BY <2>6 DEF UpdateReferralRewardConfig
    <3> QED
        BY <1>1, <3>1, Constants DEF Settings
  <2> QED
      BY <2>1, <2>2, <2>3, <2>4, <2>5, <2>6 DEF ChangeSettings
<1>3. TypeOK'
    BY <1>1, <1>2 DEF TypeOK, history
<1>4. Balanced' /\ ChangesHold' /\ SameUsers
    BY <1>1 DEF IInv, Balanced, ChangesHold, SameUsers, Held, history
<1> QED
    BY <1>1, <1>3, <1>4, AdminStep DEF history

-----------------------------------------------------------------------------
(* The invariant *)

LEMMA DefaultsAreSettings == DefaultSettings \in Settings
<1>1. [l \in Levels |-> IF l = FIRST THEN 5 ELSE 0] \in [Levels -> Nat]
    OBVIOUS
<1> QED
    BY <1>1, LevelsAre DEF DefaultSettings, Settings

LEMMA Initially == Init => IInv
<1> SUFFICES ASSUME Init PROVE IInv
    OBVIOUS
<1>1. /\ settings \in Settings /\ user = [u \in Users |-> Absent]
      /\ order = [o \in Orders |-> NewOrder]
      /\ reward = [o \in Orders |-> [l \in Levels |-> NoReward]]
      /\ change = [a \in Admins |-> NoChange]
      /\ given = [u \in Users |-> 0] /\ overlap = {}
      /\ granted = [o \in Orders |-> [l \in Levels |-> 0]]
      /\ again = {} /\ failed = {} /\ next_id = 1 /\ events = 0
    BY DefaultsAreSettings, Constants DEF Init
<1>2. /\ Absent \in UserRecords /\ NoReward \in RewardRecords /\ NoChange \in ChangeRecords
    BY DEF Absent, UserRecords, NoReward, RewardRecords, NoChange, ChangeRecords
<1>3. NewOrder \in OrderRecords
    BY DefaultsAreSettings, LevelsAre DEF NewOrder, OrderRecords
<1>4. TypeOK
    BY <1>1, <1>2, <1>3 DEF TypeOK
<1>5. /\ Absent.id = 0 /\ Absent.referrer = NoUser /\ Absent.invited_by = NoUser /\ Absent.points = 0
      /\ NoReward.status = "none" /\ NoChange.pc = "idle"
      /\ NewOrder.pc = "new" /\ NewOrder.buyer = NoUser /\ NewOrder.level = FIRST
      /\ \A l \in Levels : NewOrder.chain[l] = NoUser
    BY DEF Absent, NoReward, NoChange, NewOrder
<1>6. Earlier /\ Noted /\ Balanced /\ ChangesHold
    BY <1>1, <1>5, Constants DEF Earlier, Noted, Balanced, ChangesHold
<1>7. ASSUME NEW o \in Orders PROVE OrderHolds(o)
    BY <1>1, <1>5 DEF OrderHolds, ReadsHold, RewardsHold, SecondHolds, Ahead, Running, Granting, Before
<1> QED
    BY <1>4, <1>6, <1>7 DEF IInv

LEMMA Kept == IInv /\ [Next]_vars => IInv'
<1> SUFFICES ASSUME IInv, [Next]_vars PROVE IInv'
    OBVIOUS
<1>1. CASE UNCHANGED vars
  <2>1. /\ UNCHANGED <<order, reward, granted, again, failed>>
        /\ UNCHANGED <<settings, user, change, given, overlap, next_id, events>>
      BY <1>1 DEF vars, history
  <2>2. TypeOK' /\ Balanced' /\ ChangesHold' /\ SameUsers
      BY <2>1 DEF IInv, TypeOK, Balanced, ChangesHold, SameUsers, Held
  <2> QED
      BY <2>1, <2>2, AdminStep
<1>2. ASSUME NEW o \in Orders, RewardStep(o) PROVE IInv'
    BY <1>2, AssignRewardsKeeps, CreateRewardKeeps, ReadPointsKeeps, WritePointsKeeps,
       GrantDaysKeeps, MarkIssuedKeeps DEF RewardStep
<1> QED
    BY <1>1, <1>2, CreateUserKeeps, AttachReferralKeeps, RegistrationFailsKeeps,
       DeleteSubscriptionKeeps, OpenOrderKeeps, CompletePurchaseKeeps, LevelFailsKeeps,
       ReadForChangeKeeps, WriteChangeKeeps, WorkerDiesKeeps, ChangeSettingsKeeps DEF Next

\* Every reachable state satisfies the inductive invariant.
THEOREM Invariance == Spec => []IInv
    BY Initially, Kept, PTL DEF Spec

-----------------------------------------------------------------------------
(* What is shown of rewards *)

\* The variables keep their types: points never fall below zero, and every
\* reward has an amount.
THEOREM TypeCorrect == Spec => []TypeOK
<1>1. IInv => TypeOK
    BY DEF IInv
<1> QED
    BY <1>1, Invariance, PTL

\* A reward is granted at most once, and before it is marked issued; one that
\* was granted and stays pending belongs to a task an error has hit
\* (rewards.py 65-117).
THEOREM IssuedWasGrantedHolds == Spec => []IssuedWasGranted
<1>1. IInv => IssuedWasGranted
    BY DEF IInv, OrderHolds, RewardsHold, IssuedWasGranted
<1> QED
    BY <1>1, Invariance, PTL

\* Rewards go to who invited the buyer and to who invited that one, both
\* registered earlier, so that no chain comes round (attachment.py 37-97,
\* referral.py 132-148).
THEOREM RewardsGoUpHolds == Spec => []RewardsGoUp
<1>1. IInv => RewardsGoUp
  <2> SUFFICES ASSUME IInv PROVE RewardsGoUp
      OBVIOUS
  <2>1. /\ TypeOK /\ Earlier /\ \A u \in Users : user[u].referrer \in Users \cup {NoUser}
        /\ \A u \in Users : user[u].id \in Nat
      BY DEF IInv, TypeOK, UserRecords
  <2>2. ASSUME NEW o \in Orders, NEW l \in Levels, reward[o][l].status # "none"
        PROVE  /\ reward[o][l].user # NoUser
               /\ user[reward[o][l].user].id < user[order[o].buyer].id
               /\ l = FIRST => reward[o][l].user = user[order[o].buyer].referrer
               /\ l = SECOND => reward[o][l].user = user[user[order[o].buyer].referrer].referrer
    <3>1. /\ order[o].buyer \in Users /\ reward[o][l].user # NoUser
          /\ Up(order[o].buyer, l, reward[o][l].user) /\ l \in {FIRST, SECOND}
        BY <2>2 DEF IInv, OrderHolds, RewardsHold, ReadsHold, Levels
    <3>2. user[order[o].buyer].referrer \in Users
        BY <2>1, <3>1 DEF Up
    <3>3. CASE l = FIRST
        BY <2>1, <3>1, <3>2, <3>3, LevelsAre DEF Up, Earlier
    <3>4. CASE l = SECOND
      <4> DEFINE b == order[o].buyer
                 f == user[b].referrer
                 s == user[f].referrer
      <4>1. s = reward[o][l].user /\ s # NoUser /\ s \in Users
          BY <2>1, <3>1, <3>2, <3>4 DEF Up
      <4>2. user[f].id < user[b].id /\ user[s].id < user[f].id
          BY <2>1, <3>1, <3>2, <4>1, Constants DEF Earlier
      <4>3. user[s].id < user[b].id
          BY <2>1, <3>1, <3>2, <4>1, <4>2
      <4> QED
          BY <3>1, <3>4, <4>1, <4>3, LevelsAre
    <3> QED
        BY <3>1, <3>3, <3>4
  <2> QED
      BY <2>1, <2>2 DEF RewardsGoUp, Earlier
<1> QED
    BY <1>1, Invariance, PTL

\* Nothing that was added to a user's points is lost, except where two of those
\* who add were between reading and writing (profile_edit.py 132-154).
THEOREM PointsAddUpHolds == Spec => []PointsAddUp
<1>1. IInv => PointsAddUp
    BY DEF IInv, Balanced, PointsAddUp
<1> QED
    BY <1>1, Invariance, PTL

\* With rewards for first payments, one purchase of a buyer earns them, except
\* of buyers who opened two orders as NEW (rewards.py 157-175, payment.py 207).
THEOREM FirstPaymentOnceHolds == Spec => []FirstPaymentOnce
<1>1. IInv => FirstPaymentOnce
  <2> SUFFICES ASSUME IInv, NEW o \in Orders, NEW p \in Orders, NEW l \in Levels,
                      o # p, order[o].buyer = order[p].buyer,
                      \A q \in {o, p} : /\ reward[q][l].status # "none"
                                        /\ order[q].settings.accrual_strategy = "ON_FIRST_PAYMENT"
               PROVE  order[o].buyer \in again
      BY DEF FirstPaymentOnce
  <2>1. \A q \in {o, p} : order[q].purchase_type = "NEW" /\ order[q].buyer \in Users
      BY DEF IInv, OrderHolds, RewardsHold, ReadsHold, NewIfFirst
  <2> QED
      BY <2>1 DEF IInv, Noted
<1> QED
    BY <1>1, Invariance, PTL

\* What happens at the first level, an error included, takes nothing from the
\* second (rewards.py 191-244).
THEOREM LevelsIndependentHolds == Spec => []LevelsIndependent
<1>1. IInv => LevelsIndependent
  <2> SUFFICES ASSUME IInv, NEW o \in Orders
               PROVE  LET r == [order[o] EXCEPT !.level = SECOND] IN
                      /\ r.pc = "done" /\ <<o, SECOND>> \notin failed
                      /\ r.chain[SECOND] # NoUser /\ RewardAmount(r.settings, r) > 0
                      => reward[o][SECOND].status # "none"
      BY DEF LevelsIndependent
  <2>1. order[o] \in OrderRecords /\ SecondHolds(o)
      BY DEF IInv, TypeOK, OrderHolds
  <2>2. [order[o] EXCEPT !.level = SECOND].pc = order[o].pc
      BY <2>1 DEF OrderRecords
  <2> QED
      BY <2>1, <2>2 DEF SecondHolds, Owed
<1> QED
    BY <1>1, Invariance, PTL

-----------------------------------------------------------------------------
(* Referrals implements RewardLedger *)

\* A task grants the reward it has made: to whom and of what type the row says.
Faithful(o) ==
    LET r == order[o] IN
    /\ r.pc = "new" => r.buyer = NoUser
    /\ r.pc \in Granting => /\ reward[o][r.level].user = Held(o)
                            /\ reward[o][r.level].type = r.settings.type
    /\ r.pc = "write" => r.settings.type = "POINTS"

AllFaithful == \A o \in Orders : Faithful(o)

\* The steps of one order's task.
StepsOf(o) ==
    \/ \E u \in Users : OpenOrder(o, u)
    \/ CompletePurchase(o) \/ RewardStep(o) \/ LevelFails(o)

\* Every other step leaves the task alone, unless the worker dies.
LEMMA NotMine ==
    ASSUME TypeOK, [Next]_vars, NEW o \in Orders, ~StepsOf(o)
    PROVE  /\ reward'[o] = reward[o]
           /\ order'[o] = order[o] \/ order'[o].pc = "done"
<1>1. ASSUME NEW p \in Orders, p # o, StepsOf(p)
      PROVE  reward'[o] = reward[o] /\ order'[o] = order[o]
  <2>1. order'[o] = order[o]
    BY <1>1 DEF StepsOf, OpenOrder, CompletePurchase, RewardStep, LevelFails, AssignRewards,
                CreateReward, ReadPoints, WritePoints, GrantDays, MarkIssued, TypeOK
  <2>2. reward'[o] = reward[o]
    BY <1>1 DEF StepsOf, OpenOrder, CompletePurchase, RewardStep, LevelFails, AssignRewards,
                CreateReward, ReadPoints, WritePoints, GrantDays, MarkIssued, TypeOK
  <2> QED
    BY <2>1, <2>2
<1>2. CASE WorkerDies
  <2>1. reward' = reward
    BY <1>2 DEF WorkerDies
  <2>2. order'[o] = order[o] \/ order'[o] = [order[o] EXCEPT !.pc = "done", !.points = 0]
    BY <1>2 DEF WorkerDies
  <2>3. [order[o] EXCEPT !.pc = "done", !.points = 0].pc = "done"
    BY DEF TypeOK, OrderRecords
  <2> QED
    BY <2>1, <2>2, <2>3
<1>3. CASE ~WorkerDies /\ ~\E p \in Orders : StepsOf(p)
  <2>1. UNCHANGED <<order, reward>>
    BY <1>3 DEF Next, StepsOf, vars, CreateUser, AttachReferral, RegistrationFails,
                DeleteSubscription, ReadForChange, WriteChange, ChangeSettings
  <2> QED
    BY <2>1
<1> QED
    BY <1>1, <1>2, <1>3

LEMMA FaithfulStep == IInv /\ AllFaithful /\ [Next]_vars => AllFaithful'
<1> SUFFICES ASSUME IInv, AllFaithful, [Next]_vars, NEW o \in Orders PROVE Faithful(o)'
    BY DEF AllFaithful
<1> DEFINE r == order[o]
<1>0. /\ TypeOK /\ r \in OrderRecords /\ Faithful(o)
      /\ \A q \in OrderRecords : order' = [order EXCEPT ![o] = q] => order'[o] = q
    BY DEF IInv, TypeOK, AllFaithful
<1>1. ASSUME order'[o].pc \notin {"new"} \cup Granting PROVE Faithful(o)'
    BY <1>1 DEF Faithful, Granting
<1>2. ASSUME order' = [order EXCEPT ![o] = Passed(r)] PROVE Faithful(o)'
  <2>1. order'[o] = Passed(r) /\ Passed(r).pc \in {"create", "done"}
    BY <1>0, <1>2, PassedIs
  <2> QED
    BY <1>1, <2>1 DEF Granting
<1>3. CASE ~StepsOf(o)
  <2>1. reward'[o] = reward[o] /\ (order'[o] = r \/ order'[o].pc = "done")
    BY <1>0, <1>3, NotMine
  <2> QED
    BY <1>0, <1>1, <2>1 DEF Faithful, Held, Granting
<1>4. ASSUME NEW u \in Users, OpenOrder(o, u) PROVE Faithful(o)'
  <2>1. order'[o].pc = "open"
    BY <1>0, <1>4 DEF OpenOrder, TypeOK, OrderRecords
  <2> QED
    BY <1>1, <2>1 DEF Granting
<1>5. CASE CompletePurchase(o)
  <2>1. order'[o].pc \in {"done", "assign"}
    BY <1>0, <1>5 DEF CompletePurchase, TypeOK, OrderRecords
  <2> QED
    BY <1>1, <2>1 DEF Granting
<1>6. CASE AssignRewards(o)
  <2>1. \/ order'[o] = [r EXCEPT !.pc = "create", !.settings = settings, !.chain = Chain(r.buyer)]
        \/ order'[o] = [r EXCEPT !.pc = "done"]
    BY <1>0, <1>6 DEF AssignRewards, TypeOK
  <2>2. order'[o].pc \in {"create", "done"}
    BY <1>0, <2>1 DEF OrderRecords
  <2> QED
    BY <1>1, <2>2 DEF Granting
<1>7. CASE CreateReward(o)
  <2>1. CASE order' = [order EXCEPT ![o] = Passed(r)]
    BY <1>2, <2>1
  <2>2. CASE order' # [order EXCEPT ![o] = Passed(r)]
    <3>1. PICK amount : /\ reward' = [reward EXCEPT ![o][r.level] =
                                   [status |-> "pending", user |-> Held(o),
                                    type |-> r.settings.type, amount |-> amount]]
                        /\ order' = [order EXCEPT ![o].pc = "grant"]
      BY <1>7, <2>2 DEF CreateReward
    <3>2. order'[o] = [r EXCEPT !.pc = "grant"]
      BY <1>0, <3>1 DEF TypeOK
    <3>3. /\ order'[o].pc = "grant" /\ order'[o].level = r.level /\ r.level \in Levels
          /\ order'[o].chain = r.chain /\ order'[o].settings = r.settings
      BY <1>0, <3>2 DEF OrderRecords
    <3>4. reward'[o][r.level].user = Held(o) /\ reward'[o][r.level].type = r.settings.type
      BY <1>0, <3>1, <3>3 DEF TypeOK
    <3> QED
      BY <3>3, <3>4 DEF Faithful, Held
  <2> QED
    BY <2>1, <2>2
<1>8. CASE ReadPoints(o) \/ WritePoints(o)
  <2>1. /\ reward' = reward /\ r.pc \in Granting
        /\ order'[o].pc = "write" => r.settings.type = "POINTS"
    BY <1>0, <1>8 DEF ReadPoints, WritePoints, Granting, TypeOK, OrderRecords
  <2>2. /\ order'[o].pc \in {"write", "mark"} /\ order'[o].level = r.level
        /\ order'[o].chain = r.chain /\ order'[o].settings = r.settings
    BY <1>0, <1>8 DEF ReadPoints, WritePoints, TypeOK, OrderRecords
  <2> QED
    BY <1>0, <2>1, <2>2 DEF Faithful, Held
<1>9. CASE GrantDays(o)
  <2>1. reward' = reward /\ r.pc \in Granting
    BY <1>9 DEF GrantDays, Granting
  <2>2. CASE order' = [order EXCEPT ![o].pc = "mark"]
    <3>1. /\ order'[o].pc = "mark" /\ order'[o].level = r.level
          /\ order'[o].chain = r.chain /\ order'[o].settings = r.settings
      BY <1>0, <2>2 DEF TypeOK, OrderRecords
    <3> QED
      BY <1>0, <2>1, <3>1 DEF Faithful, Held
  <2>3. CASE order' = [order EXCEPT ![o] = Passed(r)]
    BY <1>2, <2>3
  <2> QED
    BY <1>9, <2>2, <2>3 DEF GrantDays
<1>10. CASE MarkIssued(o) \/ LevelFails(o)
  <2>1. order' = [order EXCEPT ![o] = Passed(r)]
    BY <1>10 DEF MarkIssued, LevelFails
  <2> QED
    BY <1>2, <2>1
<1> QED
    BY <1>3, <1>4, <1>5, <1>6, <1>7, <1>8, <1>9, <1>10 DEF StepsOf, RewardStep

LEMMA FaithfulInvariance == Spec => []AllFaithful
<1>1. Init => AllFaithful
    BY DEF Init, NewOrder, AllFaithful, Faithful, Granting
<1> QED
    BY <1>1, FaithfulStep, Invariance, PTL DEF Spec

\* The ledger's view of the users and the orders.
Inviter == [u \in Users |-> user[u].referrer]
Points  == [u \in Users |-> user[u].points]
Days    == [u \in Users |-> user[u].days]
Buyer   == [o \in Orders |-> order[o].buyer]

SameAccounts == Points' = Points /\ Days' = Days /\ overlap' = overlap
SameRewards  == reward' = reward /\ granted' = granted
SameLedger   == Inviter' = Inviter /\ Buyer' = Buyer /\ SameRewards /\ SameAccounts

\* What the ledger sees of an order whose buyer stays, and of users who keep
\* the referrer, the points and the days.
LEMMA SameBuyers ==
    ASSUME NEW o \in Orders, TypeOK, NEW r \in OrderRecords,
           order' = [order EXCEPT ![o] = r], r.buyer = order[o].buyer
    PROVE  Buyer' = Buyer
<1>1. \A p \in Orders : order'[p].buyer = order[p].buyer
    BY DEF TypeOK
<1> QED
    BY <1>1 DEF Buyer

LEMMA SameUserRows ==
    ASSUME \A u \in Users : /\ user'[u].referrer = user[u].referrer
                             /\ user'[u].points = user[u].points
                             /\ user'[u].days = user[u].days
    PROVE  Inviter' = Inviter /\ Points' = Points /\ Days' = Days
    BY DEF Inviter, Points, Days

LEMMA LedgerIs ==
    /\ Ledger!Levels = Levels
    /\ \A u \in Users : Ledger!Invite(u) => Ledger!LedgerNext
    /\ \A u \in Users : Ledger!Adjust(u) => Ledger!LedgerNext
    /\ \A o \in Orders : Ledger!Order(o) => Ledger!LedgerNext
    /\ \A o \in Orders, l \in Levels :
          Ledger!Earn(o, l) \/ Ledger!Grant(o, l) \/ Ledger!Issue(o, l) => Ledger!LedgerNext
<1>1. Ledger!Levels = Levels
    BY DEF Ledger!Levels, Levels
<1> QED
    BY <1>1 DEF Ledger!LedgerNext

\* Registration: a referrer comes once.
LEMMA AttachInvites ==
    ASSUME IInv, NEW u \in Users, AttachReferral(u)
    PROVE  Ledger!LedgerNext \/ SameLedger
<1> DEFINE v == IF settings.enable /\ user[u].invited_by # u THEN user[u].invited_by ELSE NoUser
           x == [user[u] EXCEPT !.invited_by = NoUser, !.referrer = v]
<1>1. /\ TypeOK /\ user[u] \in UserRecords /\ user[u].invited_by \in Users
      /\ user[u].referrer = NoUser
      /\ UNCHANGED <<order, reward, granted, overlap>>
    BY DEF IInv, TypeOK, Earlier, AttachReferral, UserRecords, history
<1>2. user' = [user EXCEPT ![u] = x]
    BY <1>1 DEF AttachReferral, TypeOK
<1>3. x.referrer = v /\ x.points = user[u].points /\ x.days = user[u].days
    BY <1>1 DEF UserRecords
<1>4. v = NoUser \/ v \in Users \ {u}
    BY <1>1
<1> HIDE DEF x, v
<1>5. /\ user'[u] = x /\ \A w \in Users \ {u} : user'[w] = user[w]
    BY <1>1, <1>2 DEF TypeOK
<1>6. Points' = Points /\ Days' = Days /\ Buyer' = Buyer
    BY <1>1, <1>3, <1>5 DEF Points, Days, Buyer
<1>7. Inviter' = [Inviter EXCEPT ![u] = v] /\ Inviter[u] = NoUser /\ Inviter'[u] = v
    BY <1>1, <1>3, <1>5 DEF Inviter
<1>8. CASE v = NoUser
  <2>1. Inviter' = Inviter
    BY <1>7, <1>8 DEF Inviter
  <2> QED
    BY <1>1, <1>6, <2>1 DEF SameLedger, SameRewards, SameAccounts
<1>9. CASE v \in Users \ {u}
  <2>1. Ledger!Invite(u)
    BY <1>1, <1>6, <1>7, <1>9 DEF Ledger!Invite, Inviter, Points, Days, Buyer
  <2> QED
    BY <2>1, LedgerIs
<1> QED
    BY <1>4, <1>8, <1>9

LEMMA OpenOrders ==
    ASSUME IInv, AllFaithful, NEW o \in Orders, NEW u \in Users, OpenOrder(o, u)
    PROVE  Ledger!LedgerNext
<1>1. /\ TypeOK /\ order[o] \in OrderRecords /\ order[o].buyer = NoUser
      /\ UNCHANGED <<user, reward, granted, overlap>>
    BY DEF IInv, TypeOK, OpenOrder, AllFaithful, Faithful
<1>2. /\ order'[o].buyer = u
      /\ \A p \in Orders \ {o} : order'[p] = order[p]
    BY <1>1 DEF OpenOrder, TypeOK, OrderRecords
<1>3. Buyer[o] = NoUser /\ Buyer'[o] = u /\ Buyer' = [Buyer EXCEPT ![o] = u]
    BY <1>1, <1>2 DEF Buyer
<1>4. Inviter' = Inviter /\ Points' = Points /\ Days' = Days
    BY <1>1 DEF Inviter, Points, Days
<1>5. Ledger!Order(o)
    BY <1>1, <1>3, <1>4 DEF Ledger!Order, Buyer, Inviter, Points, Days
<1> QED
    BY <1>5, LedgerIs

\* A level earns a reward for who is there in the chain.
LEMMA CreateEarns ==
    ASSUME IInv, NEW o \in Orders, CreateReward(o)
    PROVE  Ledger!LedgerNext \/ SameLedger
<1> DEFINE l == order[o].level
           b == order[o].buyer
           amount == RewardAmount(order[o].settings, order[o])
           w == [status |-> "pending", user |-> Held(o),
                 type |-> order[o].settings.type, amount |-> amount]
<1>1. /\ order[o].pc = "create" /\ order[o].pc \in Running
      /\ UNCHANGED <<user, granted, overlap>>
    BY DEF CreateReward, Running, history
<1>2. /\ TypeOK /\ order[o] \in OrderRecords /\ l \in Levels /\ order[o].settings \in Settings
      /\ reward[o][l].status = "none" /\ order[o].buyer \in Users
      /\ reward[o] \in [Levels -> RewardRecords]
    BY <1>1, RunningIs DEF OrderRecords, TypeOK
<1>3. Inviter' = Inviter /\ Points' = Points /\ Days' = Days
    BY <1>1 DEF Inviter, Points, Days
<1>4. CASE amount = 0 \/ Held(o) = NoUser
  <2>1. order' = [order EXCEPT ![o] = Passed(order[o])] /\ reward' = reward
    BY <1>4 DEF CreateReward
  <2>2. Buyer' = Buyer
    BY <1>2, <2>1, PassedIs, SameBuyers
  <2> QED
    BY <1>1, <1>3, <2>1, <2>2 DEF SameLedger, SameRewards, SameAccounts
<1>5. CASE ~(amount = 0 \/ Held(o) = NoUser)
  <2>1. /\ reward' = [reward EXCEPT ![o][l] = w]
        /\ order' = [order EXCEPT ![o] = [order[o] EXCEPT !.pc = "grant"]]
    BY <1>2, <1>5 DEF CreateReward, TypeOK
  <2>2. Buyer' = Buyer
    <3>1. /\ [order[o] EXCEPT !.pc = "grant"] \in OrderRecords
          /\ [order[o] EXCEPT !.pc = "grant"].buyer = order[o].buyer
      BY <1>2 DEF OrderRecords
    <3> QED
      BY <1>2, <2>1, <3>1, SameBuyers
  <2>3. Held(o) \in Users /\ Up(b, l, Held(o))
    BY <1>1, <1>5, RunningIs
  <2>4. /\ Inviter[b] # NoUser /\ Inviter[b] \in Users /\ Buyer[o] = b
        /\ Held(o) = IF l = FIRST THEN Inviter[Buyer[o]] ELSE Inviter[Inviter[Buyer[o]]]
    BY <1>2, <2>3 DEF Up, Inviter, Buyer, Levels, TypeOK, UserRecords
  <2>5. w.amount > 0 /\ w \in Ledger!RewardOf("pending", Held(o)) /\ w.status = "pending"
    <3>1. amount \in Nat /\ order[o].settings.type \in {"POINTS", "EXTRA_DAYS"}
      BY <1>2, AmountIsNat DEF Settings
    <3> HIDE DEF amount
    <3> QED
      BY <1>5, <3>1 DEF Ledger!RewardOf
  <2> HIDE DEF w
  <2>6. reward'[o][l] = w /\ reward' = [reward EXCEPT ![o][l] = reward'[o][l]]
    BY <1>2, <2>1 DEF TypeOK
  <2>7. Ledger!Earn(o, l)
    <3>1. b # NoUser /\ Held(o) # NoUser
      BY <1>2, <2>3, Constants
    <3> HIDE DEF l, b
    <3> QED
      BY <1>1, <1>2, <1>3, <2>2, <2>4, <2>5, <2>6, <3>1
      DEF Ledger!Earn, Buyer, Inviter, Points, Days
  <2> QED
    BY <1>2, <2>7, LedgerIs
<1> QED
    BY <1>4, <1>5

\* Points are granted as one step of the ledger, although they were read before.
LEMMA WriteGrants ==
    ASSUME IInv, AllFaithful, NEW o \in Orders, WritePoints(o)
    PROVE  Ledger!LedgerNext
<1> PICK l \in Levels : l = order[o].level
    BY DEF IInv, TypeOK, OrderRecords
<1> DEFINE u == Held(o)
           w == reward[o][l]
<1>1. /\ order[o].pc = "write" /\ order[o].pc \in Running /\ order[o].pc \in Granting
      /\ reward' = reward
    BY DEF WritePoints, Running, Granting
<1>2. /\ TypeOK /\ order[o] \in OrderRecords /\ u \in Users /\ l \in Levels
      /\ user[u] \in UserRecords /\ w \in RewardRecords /\ order[o].points \in Nat
      /\ granted[o] \in [Levels -> Nat]
      /\ w.status = "pending" /\ granted[o][l] = 0
    BY <1>1, RunningIs DEF TypeOK, OrderRecords
<1>3. w.user = u /\ w.type = "POINTS" /\ w.amount = Amount(o) /\ w.amount \in Nat
    BY <1>1, <1>2 DEF AllFaithful, Faithful, Amount, RewardRecords
<1>4. /\ user'[u].points = order[o].points + Amount(o)
      /\ user'[u].referrer = user[u].referrer /\ user'[u].days = user[u].days
      /\ \A v \in Users \ {u} : user'[v] = user[v]
    BY <1>2 DEF WritePoints, TypeOK, UserRecords
<1>5. u \notin overlap => order[o].points = user[u].points
    BY <1>1, <1>2 DEF IInv, Balanced
<1>6. overlap' \in {overlap, overlap \cup {u}}
    BY DEF WritePoints
<1>7. granted' = [granted EXCEPT ![o][l] = 1]
    BY <1>2 DEF WritePoints, Granted, TypeOK
<1>8. Inviter' = Inviter /\ Days' = Days
    BY <1>4 DEF Inviter, Days
<1>9. /\ Points' = [Points EXCEPT ![u] = Points'[u]] /\ Points'[u] >= 0
      /\ u \notin overlap => Points'[u] = Points[u] + w.amount
  <2>1. /\ Points'[u] = order[o].points + w.amount /\ Points[u] = user[u].points
        /\ \A v \in Users \ {u} : Points'[v] = Points[v]
    BY <1>2, <1>3, <1>4 DEF Points
  <2>2. Points' = [Points EXCEPT ![u] = Points'[u]]
    BY <1>2, <2>1 DEF Points
  <2> HIDE DEF u, w
  <2>3. Points'[u] >= 0
    BY <1>2, <1>3, <2>1
  <2> QED
    BY <1>5, <2>1, <2>2, <2>3
<1>10. Buyer' = Buyer
  <2>1. order' = [order EXCEPT ![o] = [order[o] EXCEPT !.pc = "mark", !.points = 0]]
    BY <1>2 DEF WritePoints, TypeOK
  <2>2. /\ [order[o] EXCEPT !.pc = "mark", !.points = 0] \in OrderRecords
        /\ [order[o] EXCEPT !.pc = "mark", !.points = 0].buyer = order[o].buyer
    BY <1>2 DEF OrderRecords
  <2> QED
    BY <1>2, <2>1, <2>2, SameBuyers
<1> HIDE DEF u
<1>11. Ledger!Grant(o, l)
    BY <1>1, <1>2, <1>3, <1>6, <1>7, <1>8, <1>9, <1>10
    DEF Ledger!Grant, Ledger!PointsOf, Inviter, Points, Days, Buyer
<1> QED
    BY <1>11, LedgerIs

LEMMA DaysGrant ==
    ASSUME IInv, AllFaithful, NEW o \in Orders, GrantDays(o)
    PROVE  Ledger!LedgerNext \/ SameLedger
<1> PICK l \in Levels : l = order[o].level
    BY DEF IInv, TypeOK, OrderRecords
<1> DEFINE u == Held(o)
           w == reward[o][l]
<1>1. /\ order[o].pc = "grant" /\ order[o].pc \in Running /\ order[o].pc \in Granting
      /\ order[o].settings.type = "EXTRA_DAYS"
      /\ reward' = reward /\ overlap' = overlap
    BY DEF GrantDays, Running, Granting
<1>2. /\ TypeOK /\ order[o] \in OrderRecords /\ u \in Users /\ l \in Levels
      /\ user[u] \in UserRecords /\ w \in RewardRecords
      /\ granted[o] \in [Levels -> Nat]
      /\ w.status = "pending" /\ granted[o][l] = 0
    BY <1>1, RunningIs DEF TypeOK, OrderRecords
<1>3. w.user = u /\ w.type = "EXTRA_DAYS" /\ w.amount = Amount(o) /\ w.amount \in Nat
    BY <1>1, <1>2 DEF AllFaithful, Faithful, Amount, RewardRecords
<1>4. CASE user[u].subscription = "paid"
  <2>1. /\ user'[u].days = user[u].days + Amount(o)
        /\ user'[u].referrer = user[u].referrer /\ user'[u].points = user[u].points
        /\ \A v \in Users \ {u} : user'[v] = user[v]
    BY <1>2, <1>4 DEF GrantDays, TypeOK, UserRecords
  <2>2. Inviter' = Inviter /\ Points' = Points
    BY <2>1 DEF Inviter, Points
  <2>3. Days' = [Days EXCEPT ![u] = @ + w.amount]
    BY <1>2, <1>3, <2>1 DEF Days
  <2>4. granted' = [granted EXCEPT ![o][l] = 1]
    BY <1>2, <1>4 DEF GrantDays, Granted, TypeOK
  <2>5. Buyer' = Buyer
    <3>1. order' = [order EXCEPT ![o] = [order[o] EXCEPT !.pc = "mark"]]
      BY <1>2, <1>4 DEF GrantDays, TypeOK
    <3>2. /\ [order[o] EXCEPT !.pc = "mark"] \in OrderRecords
          /\ [order[o] EXCEPT !.pc = "mark"].buyer = order[o].buyer
      BY <1>2 DEF OrderRecords
    <3> QED
      BY <1>2, <3>1, <3>2, SameBuyers
  <2> HIDE DEF u
  <2>6. Ledger!Grant(o, l)
    BY <1>1, <1>2, <1>3, <2>2, <2>3, <2>4, <2>5
    DEF Ledger!Grant, Inviter, Points, Days, Buyer
  <2> QED
    BY <2>6, LedgerIs
<1>5. CASE user[u].subscription # "paid"
  <2>1. /\ order' = [order EXCEPT ![o] = Passed(order[o])]
        /\ user' = user /\ granted' = granted
    BY <1>5 DEF GrantDays
  <2>2. Buyer' = Buyer
    BY <1>2, <2>1, PassedIs, SameBuyers
  <2>3. Inviter' = Inviter /\ Points' = Points /\ Days' = Days
    BY <2>1 DEF Inviter, Points, Days
  <2> QED
    BY <1>1, <2>1, <2>2, <2>3 DEF SameLedger, SameRewards, SameAccounts
<1> QED
    BY <1>4, <1>5

LEMMA MarkIssues ==
    ASSUME IInv, NEW o \in Orders, MarkIssued(o)
    PROVE  Ledger!LedgerNext
<1> DEFINE l == order[o].level
<1>1. /\ order[o].pc = "mark" /\ order[o].pc \in Running /\ order[o].pc \in Granting
      /\ UNCHANGED <<user, granted, overlap>>
      /\ order' = [order EXCEPT ![o] = Passed(order[o])]
      /\ reward' = [reward EXCEPT ![o][l].status = "issued"]
    BY DEF MarkIssued, Running, Granting, history
<1>2. /\ TypeOK /\ order[o] \in OrderRecords /\ l \in Levels
      /\ reward[o][l].status = "pending" /\ granted[o][l] = 1
    BY <1>1, RunningIs
<1>3. Inviter' = Inviter /\ Points' = Points /\ Days' = Days
    BY <1>1 DEF Inviter, Points, Days
<1>4. Buyer' = Buyer
    BY <1>1, <1>2, PassedIs, SameBuyers
<1> HIDE DEF l
<1>5. Ledger!Issue(o, l)
    BY <1>1, <1>2, <1>3, <1>4 DEF Ledger!Issue, Inviter, Points, Days, Buyer
<1> QED
    BY <1>2, <1>5, LedgerIs

\* An administrator adds to the points, or is refused.
LEMMA ChangeAdjusts ==
    ASSUME IInv, NEW a \in Admins, WriteChange(a), change[a].amount \in Changes
    PROVE  Ledger!LedgerNext \/ SameLedger
<1> PICK u \in Users : u = change[a].user
    BY DEF IInv, WriteChange, ChangesHold
<1> DEFINE c == change[a]
<1>1. /\ TypeOK /\ c.pc = "write" /\ c \in ChangeRecords /\ u = c.user
      /\ user[u] \in UserRecords
      /\ UNCHANGED <<order, reward, granted>>
    BY DEF IInv, TypeOK, WriteChange, ChangesHold
<1>2. Buyer' = Buyer
    BY <1>1 DEF Buyer
<1>3. CASE c.points + c.amount < 0
  <2>1. user' = user /\ overlap' = overlap
    BY <1>3 DEF WriteChange
  <2>2. Inviter' = Inviter /\ Points' = Points /\ Days' = Days
    BY <2>1 DEF Inviter, Points, Days
  <2> QED
    BY <1>1, <1>2, <2>1, <2>2 DEF SameLedger, SameRewards, SameAccounts
<1>4. CASE ~(c.points + c.amount < 0)
  <2>1. /\ user'[u].points = c.points + c.amount
        /\ user'[u].referrer = user[u].referrer /\ user'[u].days = user[u].days
        /\ \A v \in Users \ {u} : user'[v] = user[v]
    BY <1>1, <1>4 DEF WriteChange, TypeOK, UserRecords
  <2>2. overlap' \in {overlap, overlap \cup {u}}
    BY <1>4 DEF WriteChange
  <2>3. u \notin overlap => c.points = user[u].points
    BY <1>1 DEF IInv, Balanced
  <2>4. /\ c.amount \in Int /\ c.points + c.amount >= 0 /\ c.points \in Nat
        /\ user[u].points \in Nat
    BY <1>1, <1>4 DEF ChangeRecords, UserRecords
  <2>5. Inviter' = Inviter /\ Days' = Days
    BY <2>1 DEF Inviter, Days
  <2>6. /\ Points' = [Points EXCEPT ![u] = Points'[u]] /\ Points'[u] >= 0
        /\ u \notin overlap => Points'[u] - Points[u] = c.amount
    BY <1>1, <2>1, <2>3, <2>4 DEF Points
  <2> HIDE DEF c
  <2>7. Ledger!Adjust(u)
    <3>1. c.amount \in Changes
      BY DEF c
    <3> QED
      BY <1>1, <1>2, <2>2, <2>5, <2>6, <3>1
      DEF Ledger!Adjust, Ledger!PointsOf, Inviter, Points, Days, Buyer
  <2> QED
    BY <2>7, LedgerIs
<1> QED
    BY <1>3, <1>4

\* Changes that are being made are of the amounts administrators enter.
ChangesEntered == \A a \in Admins : change[a].pc = "write" => change[a].amount \in Changes

LEMMA EnteredInvariance == Spec => []ChangesEntered
<1>1. Init => ChangesEntered
    BY DEF Init, NoChange, ChangesEntered
<1>2. ASSUME IInv, ChangesEntered, [Next]_vars PROVE ChangesEntered'
  <2>1. change \in [Admins -> ChangeRecords]
    BY <1>2 DEF IInv, TypeOK
  <2>2. ASSUME NEW a \in Admins, ReadForChange(a) PROVE ChangesEntered'
    BY <1>2, <2>1, <2>2 DEF ReadForChange, ChangesEntered
  <2>3. ASSUME NEW a \in Admins, WriteChange(a) PROVE ChangesEntered'
    BY <1>2, <2>1, <2>3 DEF WriteChange, ChangesEntered, NoChange
  <2>4. CASE change' = change
    BY <1>2, <2>4 DEF ChangesEntered
  <2> QED
    BY <1>2, <2>2, <2>3, <2>4
    DEF Next, vars, CreateUser, AttachReferral, RegistrationFails, DeleteSubscription, OpenOrder,
        CompletePurchase, RewardStep, AssignRewards, CreateReward, ReadPoints, WritePoints,
        GrantDays, MarkIssued, LevelFails, WorkerDies, ChangeSettings
<1> QED
    BY <1>1, <1>2, Invariance, PTL DEF Spec

\* The steps the ledger does not see.
LEMMA RowsUnseen ==
    ASSUME IInv, NEW u \in Users,
           CreateUser(u) \/ RegistrationFails(u) \/ DeleteSubscription(u)
    PROVE  SameLedger
<1>1. /\ TypeOK /\ user[u] \in UserRecords
      /\ UNCHANGED <<order, reward, granted, overlap>>
    BY DEF IInv, TypeOK, CreateUser, RegistrationFails, DeleteSubscription, history
<1>2. \A v \in Users : /\ user'[v].referrer = user[v].referrer
                       /\ user'[v].points = user[v].points
                       /\ user'[v].days = user[v].days
  <2>1. \A v \in Users : user[v] \in UserRecords
    BY <1>1 DEF TypeOK
  <2>2. CASE CreateUser(u)
    <3>1. PICK code : user' = [user EXCEPT ![u].id = next_id, ![u].invited_by = code]
      BY <2>2 DEF CreateUser
    <3> QED
      BY <1>1, <2>1, <3>1 DEF TypeOK, UserRecords
  <2>3. CASE RegistrationFails(u) \/ DeleteSubscription(u)
    <3>1. CASE user' = [user EXCEPT ![u].invited_by = NoUser]
      BY <1>1, <2>1, <3>1 DEF TypeOK, UserRecords
    <3>2. CASE user' = [user EXCEPT ![u].subscription = "none"]
      BY <1>1, <2>1, <3>2 DEF TypeOK, UserRecords
    <3> QED
      BY <2>3, <3>1, <3>2 DEF RegistrationFails, DeleteSubscription
  <2> QED
    BY <2>2, <2>3
<1>3. Buyer' = Buyer
    BY <1>1 DEF Buyer
<1> QED
    BY <1>1, <1>2, <1>3, SameUserRows DEF SameLedger, SameRewards, SameAccounts

LEMMA TasksUnseen ==
    ASSUME IInv, NEW o \in Orders,
           CompletePurchase(o) \/ AssignRewards(o) \/ ReadPoints(o) \/ LevelFails(o)
    PROVE  SameLedger
<1>1. /\ TypeOK /\ order[o] \in OrderRecords
      /\ UNCHANGED <<reward, granted, overlap>>
    BY DEF IInv, TypeOK, CompletePurchase, AssignRewards, ReadPoints, LevelFails, history
<1>2. \A v \in Users : /\ user'[v].referrer = user[v].referrer
                       /\ user'[v].points = user[v].points
                       /\ user'[v].days = user[v].days
    BY <1>1 DEF CompletePurchase, AssignRewards, ReadPoints, LevelFails, TypeOK, UserRecords
<1>3. \A p \in Orders : order'[p].buyer = order[p].buyer
  <2>1. CASE CompletePurchase(o) \/ ReadPoints(o)
    <3>1. CASE CompletePurchase(o)
      <4>1. PICK s : order' = [order EXCEPT ![o].pc = s]
        BY <3>1 DEF CompletePurchase
      <4> QED
        BY <1>1, <4>1 DEF TypeOK, OrderRecords
    <3>2. CASE ReadPoints(o)
      <4>1. PICK n : order' = [order EXCEPT ![o].pc = "write", ![o].points = n]
        BY <3>2 DEF ReadPoints
      <4> QED
        BY <1>1, <4>1 DEF TypeOK, OrderRecords
    <3> QED
      BY <2>1, <3>1, <3>2
  <2>2. CASE AssignRewards(o)
    <3>1. PICK r \in {[order[o] EXCEPT !.pc = "create", !.settings = settings,
                                       !.chain = Chain(order[o].buyer)],
                      [order[o] EXCEPT !.pc = "done"]} : order' = [order EXCEPT ![o] = r]
      BY <2>2 DEF AssignRewards
    <3>2. r.buyer = order[o].buyer
      BY <1>1, <3>1 DEF OrderRecords
    <3> QED
      BY <1>1, <3>1, <3>2 DEF TypeOK
  <2>3. CASE LevelFails(o)
    <3>1. order' = [order EXCEPT ![o] = Passed(order[o])]
      BY <2>3 DEF LevelFails
    <3> QED
      BY <1>1, <3>1, PassedIs DEF TypeOK
  <2> QED
    BY <2>1, <2>2, <2>3
<1>4. Buyer' = Buyer
    BY <1>3 DEF Buyer
<1> QED
    BY <1>1, <1>2, <1>4, SameUserRows DEF SameLedger, SameRewards, SameAccounts

LEMMA OthersUnseen ==
    ASSUME IInv,
           \/ WorkerDies \/ ChangeSettings \/ UNCHANGED vars
           \/ \E a \in Admins : ReadForChange(a)
    PROVE  SameLedger
<1>1. TypeOK /\ UNCHANGED <<user, reward, granted, overlap>>
    BY DEF IInv, WorkerDies, ChangeSettings, ReadForChange, vars, history
<1>2. \A p \in Orders : order'[p].buyer = order[p].buyer
    BY <1>1 DEF WorkerDies, ChangeSettings, ReadForChange, vars, TypeOK, OrderRecords
<1>3. Buyer' = Buyer /\ Inviter' = Inviter /\ Points' = Points /\ Days' = Days
    BY <1>1, <1>2 DEF Buyer, Inviter, Points, Days
<1> QED
    BY <1>1, <1>3 DEF SameLedger, SameRewards, SameAccounts

LEMMA LedgerStep ==
    ASSUME IInv, AllFaithful, ChangesEntered, [Next]_vars
    PROVE  Ledger!LedgerNext \/ SameLedger
<1>1. ASSUME NEW a \in Admins, WriteChange(a) PROVE Ledger!LedgerNext \/ SameLedger
  <2>1. change[a].amount \in Changes
    BY <1>1 DEF WriteChange, ChangesEntered
  <2> QED
    BY <1>1, <2>1, ChangeAdjusts
<1>2. ASSUME NEW o \in Orders, RewardStep(o) PROVE Ledger!LedgerNext \/ SameLedger
    BY <1>2, TasksUnseen, CreateEarns, WriteGrants, DaysGrant, MarkIssues DEF RewardStep
<1>3. ASSUME NEW o \in Orders, NEW u \in Users, OpenOrder(o, u) PROVE Ledger!LedgerNext
    BY <1>3, OpenOrders
<1> QED
    BY <1>1, <1>2, <1>3, AttachInvites, RowsUnseen, TasksUnseen, OthersUnseen DEF Next

LEMMA InitLedger == Init => Ledger!LedgerInit
<1> SUFFICES ASSUME Init PROVE Ledger!LedgerInit
    OBVIOUS
<1>1. reward \in [Orders -> [Levels -> Ledger!RewardOf("none", NoUser)]]
    BY DEF Init, NoReward, Ledger!RewardOf
<1>2. /\ Inviter = [u \in Users |-> NoUser] /\ Buyer = [o \in Orders |-> NoUser]
      /\ Points = [u \in Users |-> 0] /\ Days = [u \in Users |-> 0]
    BY DEF Init, Absent, NewOrder, Inviter, Buyer, Points, Days
<1> QED
    BY <1>1, <1>2, LedgerIs DEF Init, Ledger!LedgerInit, Inviter, Buyer, Points, Days

\* Computing, granting and marking a reward takes three transactions; for who
\* gets it, it is one step of the ledger, and nothing else changes points or days
\* (rewards.py 57-130, profile_edit.py 132-154).
THEOREM Implements == Spec => RewardedOnce
<1>1. SameLedger => UNCHANGED <<Inviter, Buyer, reward, granted, Points, Days, overlap>>
    BY DEF SameLedger, SameRewards, SameAccounts
<1>2. IInv /\ AllFaithful /\ ChangesEntered /\ [Next]_vars =>
        [Ledger!LedgerNext]_<<Inviter, Buyer, reward, granted, Points, Days, overlap>>
    BY <1>1, LedgerStep
<1> QED
    BY <1>2, InitLedger, Invariance, FaithfulInvariance, EnteredInvariance, PTL
    DEF Spec, RewardedOnce, Ledger!LedgerSpec, Inviter, Buyer, Points, Days
=============================================================================
