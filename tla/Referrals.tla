------------------------------ MODULE Referrals ------------------------------
(***************************************************************************)
(* Referrals: who invited whom, the settings of the program, and the       *)
(* rewards the referrers of a buyer get after a purchase. A reward is a    *)
(* row of its own; the points or days are granted in a second transaction  *)
(* and the row is marked issued in a third. Administrators change points   *)
(* of the same users meanwhile.                                            *)
(***************************************************************************)
EXTENDS Integers

CONSTANTS
    Users, NoUser,
    Admins,            \* who changes points and the settings
    Orders,            \* purchases of the users
    Kinds,             \* what they are: paid, free or of a trial plan
    Prices, Durations, \* of the orders; a duration of 0 is unlimited
    Changes,           \* what administrators add to a user's points
    Values,            \* reward values administrators enter
    Configured,        \* settings a running shop may have
    PERCENT_MAX_REWARD, AMOUNT_MAX_REWARD,
    MaxEvents          \* bound: settings and points changed, subscriptions
                       \* deleted, errors and deaths

FIRST  == 1
SECOND == 2
Levels == {FIRST, SECOND}

Settings ==
    [enable : BOOLEAN, level : Levels, type : {"POINTS", "EXTRA_DAYS"},
     accrual_strategy : {"ON_FIRST_PAYMENT", "ON_EACH_PAYMENT"},
     strategy : {"AMOUNT", "PERCENT"},
     config : [Levels -> Nat]]           \* 0: the level has no entry

ASSUME ReferralsAssumption ==
    /\ NoUser \notin Users \cup Admins \cup Orders
    /\ Kinds \subseteq {"paid", "free", "trial"}
    /\ Prices \subseteq Nat \ {0} /\ Durations \subseteq Nat
    /\ Changes \subseteq Int /\ Values \subseteq Nat \ {0}
    /\ Configured \subseteq Settings
    /\ PERCENT_MAX_REWARD \in Nat /\ AMOUNT_MAX_REWARD \in Nat
    /\ MaxEvents \in Nat

VARIABLES
    settings,      \* the referral settings
    user,          \* the user rows, with the referral row of each
    order,         \* every order, and what its reward task is doing
    reward,        \* the reward rows, by order and level
    change,        \* what every administrator's change of points is doing
    given,         \* history: all that was added to a user's points
    overlap,       \* history: users whose points were changed by two at once
    granted,       \* history: how often a reward was granted
    again,         \* history: buyers who ordered NEW more than once
    failed,        \* history: orders and levels an error has touched
    next_id, events

history == <<given, overlap, granted, again, failed>>
vars    == <<settings, user, order, reward, change, history, next_id, events>>

DefaultSettings ==
    [enable |-> TRUE, level |-> FIRST, type |-> "EXTRA_DAYS",
     accrual_strategy |-> "ON_FIRST_PAYMENT", strategy |-> "AMOUNT",
     config |-> [l \in Levels |-> IF l = FIRST THEN 5 ELSE 0]]

UserRecords ==
    [id : Nat,                           \* 0: not registered
     invited_by : Users \cup {NoUser},   \* the code of the link, while registering
     referrer : Users \cup {NoUser},
     points : Nat, days : Nat, subscription : {"none", "trial", "paid"}]

Absent == [id |-> 0, invited_by |-> NoUser, referrer |-> NoUser,
           points |-> 0, days |-> 0, subscription |-> "none"]

OrderRecords ==
    [pc : {"new", "open", "assign", "create", "grant", "write", "mark", "done"},
     buyer : Users \cup {NoUser}, purchase_type : {"NEW", "OTHER"}, kind : {"paid", "free", "trial"},
     price : Nat, duration : Nat, settings : Settings, level : Levels,
     chain : [Levels -> Users \cup {NoUser}],
     points : Nat]                       \* as read by ChangeUserPoints

NewOrder ==
    [pc |-> "new", buyer |-> NoUser, purchase_type |-> "NEW", kind |-> "paid",
     price |-> 0, duration |-> 0, settings |-> DefaultSettings, level |-> FIRST,
     chain |-> [l \in Levels |-> NoUser], points |-> 0]

RewardRecords ==
    [status : {"none", "pending", "issued"}, user : Users \cup {NoUser},
     type : {"POINTS", "EXTRA_DAYS"}, amount : Nat]

NoReward == [status |-> "none", user |-> NoUser, type |-> "POINTS", amount |-> 0]

ChangeRecords ==
    [pc : {"idle", "write"}, user : Users \cup {NoUser}, amount : Int, points : Nat]

NoChange == [pc |-> "idle", user |-> NoUser, amount |-> 0, points |-> 0]

TypeOK ==
    /\ settings \in Settings
    /\ user \in [Users -> UserRecords]
    /\ order \in [Orders -> OrderRecords]
    /\ reward \in [Orders -> [Levels -> RewardRecords]]
    /\ change \in [Admins -> ChangeRecords]
    /\ given \in [Users -> Int]
    /\ overlap \subseteq Users
    /\ granted \in [Orders -> [Levels -> Nat]]
    /\ again \subseteq Users
    /\ failed \subseteq Orders \X Levels
    /\ next_id \in Nat \ {0} /\ events \in Nat

Init ==
    /\ settings \in {DefaultSettings} \cup Configured
    /\ user = [u \in Users |-> Absent]
    /\ order = [o \in Orders |-> NewOrder]
    /\ reward = [o \in Orders |-> [l \in Levels |-> NoReward]]
    /\ change = [a \in Admins |-> NoChange]
    /\ given = [u \in Users |-> 0] /\ overlap = {}
    /\ granted = [o \in Orders |-> [l \in Levels |-> 0]]
    /\ again = {} /\ failed = {}
    /\ next_id = 1 /\ events = 0

Event == events < MaxEvents /\ events' = events + 1

Registered(u) == user[u].id > 0

-----------------------------------------------------------------------------
(* Registration *)

\* A new user is created; the link may carry the code of somebody who had one
\* by then, the user's own code being made only now.
CreateUser(u) ==
    /\ ~Registered(u)
    /\ \E code \in {v \in Users : Registered(v)} \cup {NoUser} :
          user' = [user EXCEPT ![u].id = next_id, ![u].invited_by = code]
    /\ next_id' = next_id + 1
    /\ UNCHANGED <<settings, order, reward, change, history, events>>

AttachReferral_Again(u) ==                  \* mutant: for every user, not only a new one
    /\ Registered(u)
    /\ \E code \in {v \in Users \ {u} : Registered(v)} :
          user' = [user EXCEPT ![u].referrer = code]
    /\ UNCHANGED <<settings, order, reward, change, history, next_id, events>>

\* The referral follows in a transaction of its own, for the new user only.
AttachReferral(u) ==
    /\ user[u].invited_by # NoUser
    /\ user' = [user EXCEPT ![u].invited_by = NoUser,
                            ![u].referrer = IF settings.enable /\ user[u].invited_by # u
                                            THEN user[u].invited_by ELSE NoUser]
    /\ UNCHANGED <<settings, order, reward, change, history, next_id, events>>

\* An error, or the death of the process, between the two: the user exists,
\* and nobody is recorded to have invited the user.
RegistrationFails(u) ==
    /\ user[u].invited_by # NoUser
    /\ Event
    /\ user' = [user EXCEPT ![u].invited_by = NoUser]
    /\ UNCHANGED <<settings, order, reward, change, history, next_id>>

-----------------------------------------------------------------------------
(* Purchases *)

\* An order is opened with the purchase type of the moment.
OpenOrder(o, u) ==
    /\ order[o].pc = "new" /\ Registered(u)
    /\ \E kind \in Kinds, price \in Prices, duration \in Durations :
          order' = [order EXCEPT ![o] =
              [@ EXCEPT !.pc = "open", !.buyer = u, !.kind = kind,
                        !.price = price, !.duration = duration,
                        !.purchase_type = IF user[u].subscription = "none"
                                          THEN "NEW" ELSE "OTHER"]]
    /\ again' = IF order'[o].purchase_type = "NEW"
                   /\ \E p \in Orders : order[p].buyer = u /\ order[p].purchase_type = "NEW"
                THEN again \cup {u} ELSE again
    /\ UNCHANGED <<settings, user, reward, change, given, overlap, granted, failed, next_id, events>>

\* It is paid and delivered; a free order earns nobody anything.
CompletePurchase(o) ==
    LET u == order[o].buyer IN
    /\ order[o].pc = "open"
    /\ user' = [user EXCEPT ![u].subscription =
                    IF order[o].kind = "trial" THEN "trial" ELSE "paid"]
    /\ order' = [order EXCEPT ![o].pc = IF order[o].kind = "free" THEN "done" ELSE "assign"]
    /\ UNCHANGED <<settings, reward, change, history, next_id, events>>

\* The subscription is deleted, in the bot or on the panel.
DeleteSubscription(u) ==
    /\ user[u].subscription # "none"
    /\ Event
    /\ user' = [user EXCEPT ![u].subscription = "none"]
    /\ UNCHANGED <<settings, order, reward, change, history, next_id>>

-----------------------------------------------------------------------------
(* Rewards: AssignReferralRewards and GiveReferrerReward, a task per order *)

Held(o)   == order[o].chain[order[o].level]     \* who is rewarded at this level
Amount(o) == reward[o][order[o].level].amount

\* The next level, or the end of the task.
Passed(r) ==
    IF r.level = FIRST THEN [r EXCEPT !.pc = "create", !.level = SECOND, !.points = 0]
    ELSE [r EXCEPT !.pc = "done", !.points = 0]

Earns_Always(s, r) == s.enable /\ r.kind # "trial"   \* mutant: a renewal counts

Earns(s, r) ==
    /\ s.enable /\ r.kind # "trial"
    /\ s.accrual_strategy = "ON_FIRST_PAYMENT" => r.purchase_type = "NEW"

Chain(u) ==
    [l \in Levels |->
        IF l = FIRST \/ user[u].referrer = NoUser THEN user[u].referrer
        ELSE user[user[u].referrer].referrer]

AssignRewards(o) ==
    LET r == order[o] IN
    /\ r.pc = "assign"
    /\ order' = [order EXCEPT ![o] =
           IF Earns(settings, r) /\ user[r.buyer].referrer # NoUser
           THEN [r EXCEPT !.pc = "create", !.settings = settings, !.chain = Chain(r.buyer)]
           ELSE [r EXCEPT !.pc = "done"]]
    /\ UNCHANGED <<settings, user, reward, change, history, next_id, events>>

\* What the level earns: 0 if it is off, has no value or nothing to count from.
RewardAmount(s, r) ==
    LET base    == IF s.type = "POINTS" THEN r.price ELSE r.duration
        percent == (base * s.config[r.level]) \div 100
    IN  IF r.level > s.level \/ s.config[r.level] = 0 THEN 0
        ELSE IF s.strategy = "AMOUNT" THEN s.config[r.level]
        ELSE IF base = 0 THEN 0
        ELSE IF percent < 1 THEN 1 ELSE percent

CreateReward(o) ==
    LET r      == order[o]
        amount == RewardAmount(r.settings, r)
    IN  /\ r.pc = "create"
        /\ IF amount = 0 \/ Held(o) = NoUser
           THEN order' = [order EXCEPT ![o] = Passed(r)] /\ UNCHANGED reward
           ELSE /\ reward' = [reward EXCEPT ![o][r.level] =
                      [status |-> "pending", user |-> Held(o),
                       type |-> r.settings.type, amount |-> amount]]
                /\ order' = [order EXCEPT ![o].pc = "grant"]
        /\ UNCHANGED <<settings, user, change, history, next_id, events>>

ReadPoints(o) ==
    /\ order[o].pc = "grant" /\ order[o].settings.type = "POINTS"
    /\ order' = [order EXCEPT ![o].pc = "write", ![o].points = user[Held(o)].points]
    /\ UNCHANGED <<settings, user, reward, change, history, next_id, events>>

\* Somebody else has read u's points and not written them yet.
ReadMeanwhile(u, o, a) ==
    \/ \E p \in Orders \ {o} : order[p].pc = "write" /\ Held(p) = u
    \/ \E b \in Admins \ {a} : change[b].pc = "write" /\ change[b].user = u

Granted(o) == granted' = [granted EXCEPT ![o][order[o].level] = @ + 1]

WritePoints_Lost(o) ==                      \* mutant: the amount replaces the points
    LET u == Held(o) IN
    /\ order[o].pc = "write"
    /\ user' = [user EXCEPT ![u].points = Amount(o)]
    /\ given' = [given EXCEPT ![u] = @ + Amount(o)]
    /\ overlap' = IF ReadMeanwhile(u, o, NoUser) THEN overlap \cup {u} ELSE overlap
    /\ Granted(o)
    /\ order' = [order EXCEPT ![o].pc = "mark", ![o].points = 0]
    /\ UNCHANGED <<settings, reward, change, again, failed, next_id, events>>

\* The sum is written over whatever the row has by now.
WritePoints(o) ==
    LET u == Held(o) IN
    /\ order[o].pc = "write"
    /\ user' = [user EXCEPT ![u].points = order[o].points + Amount(o)]
    /\ given' = [given EXCEPT ![u] = @ + Amount(o)]
    /\ overlap' = IF ReadMeanwhile(u, o, NoUser) THEN overlap \cup {u} ELSE overlap
    /\ Granted(o)
    /\ order' = [order EXCEPT ![o].pc = "mark", ![o].points = 0]
    /\ UNCHANGED <<settings, reward, change, again, failed, next_id, events>>

GrantDays_Anyway(o) ==                      \* mutant: marked without a subscription
    LET u == Held(o) IN
    /\ order[o].pc = "grant" /\ order[o].settings.type = "EXTRA_DAYS"
    /\ IF user[u].subscription = "paid"
       THEN user' = [user EXCEPT ![u].days = @ + Amount(o)] /\ Granted(o)
       ELSE UNCHANGED <<user, granted>>
    /\ order' = [order EXCEPT ![o].pc = "mark"]
    /\ UNCHANGED <<settings, reward, change, given, overlap, again, failed, next_id, events>>

\* Days are added to a subscription that is paid for; who has none is told so,
\* and the reward stays pending.
GrantDays(o) ==
    LET u == Held(o) IN
    /\ order[o].pc = "grant" /\ order[o].settings.type = "EXTRA_DAYS"
    /\ IF user[u].subscription = "paid"
       THEN /\ user' = [user EXCEPT ![u].days = @ + Amount(o)]
            /\ Granted(o)
            /\ order' = [order EXCEPT ![o].pc = "mark"]
       ELSE /\ order' = [order EXCEPT ![o] = Passed(@)]
            /\ UNCHANGED <<user, granted>>
    /\ UNCHANGED <<settings, reward, change, given, overlap, again, failed, next_id, events>>

MarkIssued(o) ==
    /\ order[o].pc = "mark"
    /\ reward' = [reward EXCEPT ![o][order[o].level].status = "issued"]
    /\ order' = [order EXCEPT ![o] = Passed(@)]
    /\ UNCHANGED <<settings, user, change, history, next_id, events>>

LevelFails_Stops(o) ==                      \* mutant: an error ends the task
    /\ order[o].pc \in {"create", "grant", "write", "mark"}
    /\ Event
    /\ failed' = failed \cup {<<o, order[o].level>>}
    /\ order' = [order EXCEPT ![o].pc = "done"]
    /\ UNCHANGED <<settings, user, reward, change, given, overlap, granted, again, next_id>>

LevelFails_Retried(o) ==                    \* mutant: the grant is tried again
    /\ order[o].pc \in {"grant", "write", "mark"}
    /\ Event
    /\ failed' = failed \cup {<<o, order[o].level>>}
    /\ order' = [order EXCEPT ![o].pc = "grant", ![o].points = 0]
    /\ UNCHANGED <<settings, user, reward, change, given, overlap, granted, again, next_id>>

\* An error at a level is logged, and the next level has its turn.
LevelFails(o) ==
    /\ order[o].pc \in {"create", "grant", "write", "mark"}
    /\ Event
    /\ failed' = failed \cup {<<o, order[o].level>>}
    /\ order' = [order EXCEPT ![o] = Passed(@)]
    /\ UNCHANGED <<settings, user, reward, change, given, overlap, granted, again, next_id>>

\* The worker dies with the tasks it runs; their messages are acknowledged.
WorkerDies ==
    LET running == {o \in Orders : order[o].pc \notin {"new", "open", "done"}} IN
    /\ running # {}
    /\ Event
    /\ order' = [o \in Orders |-> IF o \in running THEN [order[o] EXCEPT !.pc = "done", !.points = 0]
                                  ELSE order[o]]
    /\ failed' = failed \cup (running \X Levels)
    /\ UNCHANGED <<settings, user, reward, change, given, overlap, granted, again, next_id>>

-----------------------------------------------------------------------------
(* Administrators: ChangeUserPoints, and the settings of the program *)

ReadForChange(a) ==
    /\ change[a].pc = "idle"
    /\ Event
    /\ \E u \in Users, amount \in Changes :
          /\ Registered(u)
          /\ change' = [change EXCEPT ![a] = [pc |-> "write", user |-> u, amount |-> amount,
                                              points |-> user[u].points]]
    /\ UNCHANGED <<settings, user, order, reward, history, next_id>>

\* A balance below zero is refused.
WriteChange(a) ==
    LET c == change[a] IN
    /\ c.pc = "write"
    /\ change' = [change EXCEPT ![a] = NoChange]
    /\ IF c.points + c.amount < 0 THEN UNCHANGED <<user, given, overlap>>
       ELSE /\ user' = [user EXCEPT ![c.user].points = c.points + c.amount]
            /\ given' = [given EXCEPT ![c.user] = @ + c.amount]
            /\ overlap' = IF ReadMeanwhile(c.user, NoUser, a)
                          THEN overlap \cup {c.user} ELSE overlap
    /\ UNCHANGED <<settings, order, reward, granted, again, failed, next_id, events>>

ToggleReferralSystem == settings' = [settings EXCEPT !.enable = ~@]

\* A level that is new gets the value of the one before it.
UpdateReferralLevel ==
    \E level \in Levels :
        settings' = [settings EXCEPT !.level = level,
            !.config = [l \in Levels |-> IF l > level THEN 0
                                         ELSE IF @[l] = 0 THEN @[FIRST] ELSE @[l]]]

UpdateReferralRewardType ==
    \E type \in {"POINTS", "EXTRA_DAYS"} : settings' = [settings EXCEPT !.type = type]

UpdateReferralAccrualStrategy ==
    \E accrual \in {"ON_FIRST_PAYMENT", "ON_EACH_PAYMENT"} :
        settings' = [settings EXCEPT !.accrual_strategy = accrual]

\* The values are kept, also where they are too large for the new strategy.
UpdateReferralRewardStrategy ==
    \E strategy \in {"AMOUNT", "PERCENT"} : settings' = [settings EXCEPT !.strategy = strategy]

UpdateReferralRewardConfig ==
    \E l \in Levels, value \in Values :
        /\ l <= settings.level
        /\ value <= (IF settings.strategy = "PERCENT" THEN PERCENT_MAX_REWARD
                     ELSE AMOUNT_MAX_REWARD)
        /\ settings' = [settings EXCEPT !.config[l] = value]

ChangeSettings ==
    /\ Event
    /\ \/ ToggleReferralSystem \/ UpdateReferralLevel \/ UpdateReferralRewardType
       \/ UpdateReferralAccrualStrategy \/ UpdateReferralRewardStrategy
       \/ UpdateReferralRewardConfig
    /\ UNCHANGED <<user, order, reward, change, history, next_id>>

-----------------------------------------------------------------------------
RewardStep(o) ==
    \/ AssignRewards(o) \/ CreateReward(o)
    \/ ReadPoints(o) \/ WritePoints(o) \/ GrantDays(o)
    \/ MarkIssued(o)

Next ==
    \/ \E u \in Users :
          CreateUser(u) \/ AttachReferral(u) \/ RegistrationFails(u) \/ DeleteSubscription(u)
    \/ \E o \in Orders :
          \/ \E u \in Users : OpenOrder(o, u)
          \/ CompletePurchase(o) \/ RewardStep(o) \/ LevelFails(o)
    \/ \E a \in Admins : ReadForChange(a) \/ WriteChange(a)
    \/ WorkerDies
    \/ ChangeSettings

Spec == Init /\ [][Next]_vars

-----------------------------------------------------------------------------
(* Properties *)

\* A reward is marked issued only after its points or days were granted, and is
\* granted once. One that was granted and is not marked (the comment at
\* rewards.py 107-112) is about to be, or its task was hit by an error.
IssuedWasGranted ==
    \A o \in Orders, l \in Levels :
        /\ reward[o][l].status = "issued" => granted[o][l] = 1
        /\ granted[o][l] <= IF reward[o][l].status = "none" THEN 0 ELSE 1
        /\ granted[o][l] = 1 /\ reward[o][l].status # "issued" =>
              \/ order[o].pc = "mark" /\ order[o].level = l
              \/ <<o, l>> \in failed

\* Rewards go up the chain of invitations: to who invited the buyer, and to who
\* invited that one. Whoever invited was registered first, so the chain never
\* comes round and nobody is rewarded for a purchase of one's own.
RewardsGoUp ==
    /\ \A u \in Users : user[u].referrer # NoUser =>
          0 < user[user[u].referrer].id /\ user[user[u].referrer].id < user[u].id
    /\ \A o \in Orders, l \in Levels : reward[o][l].status # "none" =>
          /\ reward[o][l].user # NoUser
          /\ user[reward[o][l].user].id < user[order[o].buyer].id
          /\ l = FIRST => reward[o][l].user = user[order[o].buyer].referrer
          /\ l = SECOND => reward[o][l].user = user[user[order[o].buyer].referrer].referrer

\* A user's points are the sum of what rewards and administrators added,
\* except for users whose points two of them were changing at once.
PointsAddUp == \A u \in Users \ overlap : user[u].points = given[u]

\* "For the first purchase of a subscription by the invited user"
\* (messages.ftl:118): once per buyer and level, except for buyers who ordered
\* NEW more than once. Those, after a deletion of the subscription or with two
\* orders open, earn the reward again.
FirstPaymentOnce ==
    \A o, p \in Orders, l \in Levels :
        /\ o # p /\ order[o].buyer = order[p].buyer
        /\ \A q \in {o, p} : /\ reward[q][l].status # "none"
                             /\ order[q].settings.accrual_strategy = "ON_FIRST_PAYMENT"
        => order[o].buyer \in again

\* The levels do not depend on each other: a referrer of the second level gets
\* the reward row whatever happened at the first.
LevelsIndependent ==
    \A o \in Orders :
        LET r == [order[o] EXCEPT !.level = SECOND] IN
        /\ r.pc = "done" /\ <<o, SECOND>> \notin failed
        /\ r.chain[SECOND] # NoUser /\ RewardAmount(r.settings, r) > 0
        => reward[o][SECOND].status # "none"

\* Referrals implements RewardLedger.
Ledger == INSTANCE RewardLedger WITH
    inviter <- [u \in Users |-> user[u].referrer],
    points <- [u \in Users |-> user[u].points], days <- [u \in Users |-> user[u].days],
    buyer <- [o \in Orders |-> order[o].buyer]

\* A reward is computed, granted and marked in three transactions, between which
\* other rewards, changes of points and settings, errors and deaths of the worker
\* come (rewards.py 57-130). For who gets it, it is one step: made for who is up
\* the chain then, never changed, granted once for its amount, and marked only
\* then; and nothing but rewards and administrators changes points or days.
RewardedOnce == Ledger!LedgerSpec
=============================================================================
