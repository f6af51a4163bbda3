-------------------------- MODULE PromocodesProofs --------------------------
(***************************************************************************)
(* Proofs about Promocodes, for any codes, users, requests and edits.      *)
(*                                                                         *)
(* The inductive invariant says who may be past the check of the rules: a  *)
(* request whose code has rules holds the code's row lock from the check   *)
(* to the end of its transaction, so what it checked still holds when it   *)
(* adds its row. A request that takes no lock was looked up as unlimited   *)
(* and reusable, and then neither the limit nor the one activation per     *)
(* user was ever promised.                                                 *)
(*                                                                         *)
(* A second one, Sums, inductive given the first, says that the row of a   *)
(* user counts the activations that extended it: what a request has read   *)
(* is still in the row when it commits, or the requests overlapped.        *)
(*                                                                         *)
(* A third, Promised, says what else a commit relies on: the reward is one *)
(* the code was offered with, who is to be extended has a subscription,    *)
(* and a discount was given by an activation that is recorded. With it     *)
(* every commit is a redemption of PromocodeLedger.                        *)
(***************************************************************************)
EXTENDS Promocodes, FiniteSetTheorems, TLAPS

\* The rules r are within what the history records of code c.
Covered(c, r) ==
    /\ peak[c] # NoLimit => r.limit \in Nat /\ r.limit <= peak[c]
    /\ r.reusable => c \in reused

RulesCovered ==
    /\ \A c \in Codes : promo[c].state # "absent" => Covered(c, promo[c].rules)
    /\ \A c \in Codes : promo[c].open => promo[c].state = "live"
    /\ \A t \in Tasks : Busy(t) =>
          /\ promo[task[t].code].state # "absent"
          /\ Covered(task[t].code, task[t].rules)

LockHeld ==
    /\ \A c \in Codes, t \in Tasks :
          lock[c] = t => task[t].pc \in {"check", "commit"} /\ task[t].code = c
    /\ \A t \in Tasks :
          task[t].pc \in {"check", "commit"} /\ Locks(t) =>
              \/ lock[task[t].code] = t
              \/ promo[task[t].code].state = "gone"

\* One more activation by u stays within the limits code c has ever had.
RoomFor(c, u) ==
    /\ peak[c] # NoLimit => Len(acts[c]) < peak[c]
    /\ c \notin reused => ~Contains(acts[c], u)

Checked ==
    \A t \in Tasks :
        task[t].pc = "commit" /\ promo[task[t].code].state = "live" =>
            RoomFor(task[t].code, task[t].user)

\* Rewards in flight: with none, the panel says what the database says; with
\* one, it says what that request is going to write.
Settled ==
    \A u \in Users \ (excess \cup mixed) :
        (\A t \in Tasks : ~(Rewarded(t) /\ task[t].user = u)) => panel[u] = sub[u]
InTransit ==
    \A u \in Users \ (excess \cup mixed) : \A t \in Tasks :
        /\ Rewarded(t) /\ task[t].user = u
        /\ \A o \in Tasks : Rewarded(o) /\ task[o].user = u => o = t
        => panel[u] = NewUnits(t)

IInv ==
    /\ TypeOK /\ RulesCovered /\ LockHeld /\ Checked
    /\ LimitHolds /\ OncePerUser /\ Settled /\ InTransit

-----------------------------------------------------------------------------
(* The type invariant *)

LEMMA TypeInit == Init => TypeOK
<1> SUFFICES ASSUME Init PROVE TypeOK
    OBVIOUS
<1>1. \A c \in Codes : <<>> \in Seq(Users)
    OBVIOUS
<1> QED
    BY <1>1, PromocodesAssumption, SMTT(30) DEF Init, TypeOK, Rules, Idle

\* A request moves on or ends.
LEMMA TaskStep ==
    ASSUME TypeOK, NEW t \in Tasks,
           NEW pc \in {"validate", "read", "remote", "lock", "check", "commit"},
           Busy(t), Goto(t, pc) \/ task' = [task EXCEPT ![t] = Idle]
    PROVE  task' \in [Tasks -> {Idle} \cup BusyTasks]
<1>1. task \in [Tasks -> {Idle} \cup BusyTasks]
    BY DEF TypeOK
<1>2. task[t] \in BusyTasks
    BY <1>1 DEF Busy, Idle
<1>3. [task[t] EXCEPT !.pc = pc] \in BusyTasks
    BY <1>2 DEF BusyTasks
<1> QED
    BY <1>1, <1>3 DEF Goto

LEMMA Limited == Offers \subseteq Rules
    BY PromocodesAssumption DEF Rules

\* New rules keep the types of what they change.
LEMMA RulesStep ==
    ASSUME TypeOK, NEW c \in Codes, NEW r \in Rules, NEW isOpen \in BOOLEAN,
           SetRules(c, r, isOpen)
    PROVE  /\ promo' \in [Codes -> [state : {"absent", "live", "gone"},
                                     open : BOOLEAN, rules : Rules]]
           /\ peak' \in [Codes -> Nat \cup {NoLimit}]
           /\ reused' \subseteq Codes
           /\ kinds' \in [Codes -> SUBSET {"extend", "plan", "discount"}]
<1>1. [state |-> "live", open |-> isOpen, rules |-> r]
         \in [state : {"absent", "live", "gone"}, open : BOOLEAN, rules : Rules]
    OBVIOUS
<1>2. peak[c] \in Nat \cup {NoLimit} /\ r.limit \in Nat \cup {NoLimit}
    BY DEF TypeOK, Rules
<1>3. Higher(peak[c], r.limit) \in Nat \cup {NoLimit}
    BY <1>2 DEF Higher
<1>4. kinds[c] \cup {r.kind} \in SUBSET {"extend", "plan", "discount"}
    BY DEF TypeOK, Rules
<1> QED
    BY <1>1, <1>3, <1>4 DEF SetRules, TypeOK

LEMMA TypeStep == TypeOK /\ [Next]_vars => TypeOK'
<1> SUFFICES ASSUME TypeOK, [Next]_vars PROVE TypeOK'
    OBVIOUS
<1> USE PromocodesAssumption
<1>1. ASSUME NEW c \in Codes, Admin(c) PROVE TypeOK'
  <2>1. ASSUME NEW r \in Offers, CreatePromocode(c, r)
        PROVE  TypeOK'
    BY <2>1, RulesStep, Limited DEF CreatePromocode, TypeOK, rewards, count
  <2>2. ASSUME NEW r \in Offers, NEW isOpen \in BOOLEAN,
               UpdatePromocode(c, r, isOpen)
        PROVE  TypeOK'
    BY <2>2, RulesStep, Limited DEF UpdatePromocode, TypeOK, rewards
  <2>3. CASE DeletePromocode(c)
    <3>1. promo[c] \in [state : {"absent", "live", "gone"}, open : BOOLEAN, rules : Rules]
      BY DEF TypeOK
    <3>2. [promo[c] EXCEPT !.state = "gone", !.open = FALSE]
             \in [state : {"absent", "live", "gone"}, open : BOOLEAN, rules : Rules]
      BY <3>1
    <3>3. promo' \in [Codes -> [state : {"absent", "live", "gone"},
                                open : BOOLEAN, rules : Rules]]
      BY <2>3, <3>2 DEF DeletePromocode, TypeOK
    <3>4. <<>> \in Seq(Users)
      OBVIOUS
    <3>5. acts' \in [Codes -> Seq(Users)]
      BY <2>3, <3>4 DEF DeletePromocode, TypeOK
    <3> QED
      BY <2>3, <3>3, <3>5 DEF DeletePromocode, TypeOK, rewards, past
  <2> QED
    BY <1>1, <2>1, <2>2, <2>3 DEF Admin
<1>2. ASSUME NEW u \in Users, SpendDiscount(u) PROVE TypeOK'
    BY <1>2 DEF SpendDiscount, TypeOK, table, past, count
<1>3. ASSUME NEW t \in Tasks, NEW c \in Codes, NEW u \in Users, LookUp(t, c, u)
      PROVE  TypeOK'
  <2>1. [pc |-> "validate", code |-> c, user |-> u, rules |-> promo[c].rules,
         units |-> 0, had |-> discount[u]] \in BusyTasks
    BY <1>3 DEF TypeOK, BusyTasks
  <2> QED
    BY <1>3, <2>1 DEF LookUp, TypeOK, table, rewards, past
<1>4. ASSUME NEW t \in Tasks, Advance(t) PROVE TypeOK'
  <2>1. CASE Validate(t)
    <3>1. task' \in [Tasks -> {Idle} \cup BusyTasks]
      BY <2>1, TaskStep DEF Validate, Busy
    <3> QED
      BY <2>1, <3>1 DEF Validate, TypeOK, table, rewards, past, count
  <2>2. CASE ReadSubscription(t)
    <3>1. task' \in [Tasks -> {Idle} \cup BusyTasks]
      <4>1. task[t] \in BusyTasks /\ sub[task[t].user] \in Nat
        BY <2>2 DEF ReadSubscription, TypeOK, Idle, BusyTasks
      <4>2. [task[t] EXCEPT !.pc = "remote", !.units = sub[task[t].user]] \in BusyTasks
        BY <4>1 DEF BusyTasks
      <4> QED
        BY <2>2, <4>2 DEF ReadSubscription, TypeOK
    <3> QED
      BY <2>2, <3>1 DEF ReadSubscription, TypeOK, table, rewards, past, count
  <2>3. CASE ApplyRewardRemote(t)
    <3>1. task' \in [Tasks -> {Idle} \cup BusyTasks]
      BY <2>3, TaskStep DEF ApplyRewardRemote, Busy
    <3>2. NewUnits(t) \in Nat
      BY <2>3 DEF ApplyRewardRemote, NewUnits, TypeOK, Idle, BusyTasks
    <3>3. panel' \in [Users -> Nat]
      BY <2>3, <3>2 DEF ApplyRewardRemote, TypeOK
    <3> QED
      BY <2>3, <3>1, <3>3 DEF ApplyRewardRemote, TypeOK, table, past, count
  <2>4. CASE PanelRefuses(t)
    <3>1. task' \in [Tasks -> {Idle} \cup BusyTasks]
      BY <2>4, TaskStep DEF PanelRefuses, Busy
    <3> QED
      BY <2>4, <3>1 DEF PanelRefuses, TypeOK, table, rewards, past, count
  <2>5. CASE LockPromocode(t)
    <3>1. task' \in [Tasks -> {Idle} \cup BusyTasks]
      BY <2>5, TaskStep DEF LockPromocode, Busy
    <3>2. lock' \in [Codes -> Tasks \cup {NoTask}]
      <4>1. lock' = lock \/ lock' = [lock EXCEPT ![task[t].code] = t]
        BY <2>5, Zenon DEF LockPromocode
      <4> QED
        BY <4>1 DEF TypeOK
    <3> QED
      BY <2>5, <3>1, <3>2 DEF LockPromocode, TypeOK, rewards, past, count
  <2>6. CASE CheckActivation(t)
    <3>1. task' \in [Tasks -> {Idle} \cup BusyTasks]
      BY <2>6, TaskStep DEF CheckActivation, Abandon, Busy
    <3>2. task[t].user \in Users
      BY <2>6 DEF CheckActivation, TypeOK, Idle, BusyTasks
    <3> QED
      BY <2>6, <3>1, <3>2 DEF CheckActivation, Abandon, Release, TypeOK, rewards, count
  <2>7. CASE CommitActivation(t)
    <3>1. task' \in [Tasks -> {Idle} \cup BusyTasks]
      BY <2>7, TaskStep DEF CommitActivation, Busy
    <3>2. task[t].user \in Users /\ task[t].code \in Codes /\ NewUnits(t) \in Nat
      BY <2>7 DEF CommitActivation, NewUnits, TypeOK, Idle, BusyTasks
    <3>3. acts' \in [Codes -> Seq(Users)]
      BY <2>7, <3>2, SMTT(30) DEF CommitActivation, TypeOK
    <3>4. lock' \in [Codes -> Tasks \cup {NoTask}]
      BY <2>7 DEF CommitActivation, Release, TypeOK
    <3>5. sub' \in [Users -> Nat] /\ mixed' \subseteq Users
          /\ discount' \in [Users -> Codes \cup {NoCode}]
      BY <2>7, <3>2 DEF CommitActivation, TypeOK
    <3> QED
      BY <2>7, <3>1, <3>3, <3>4, <3>5 DEF CommitActivation, TypeOK, count
  <2>8. CASE CodeIsGone(t)
    <3>1. task' \in [Tasks -> {Idle} \cup BusyTasks]
      BY <2>8, TaskStep DEF CodeIsGone, Abandon, Busy
    <3>2. task[t].user \in Users
      BY <2>8 DEF CodeIsGone, TypeOK, Idle, BusyTasks
    <3> QED
      BY <2>8, <3>1, <3>2 DEF CodeIsGone, Abandon, Release, TypeOK, rewards, count
  <2> QED
    BY <1>4, <2>1, <2>2, <2>3, <2>4, <2>5, <2>6, <2>7, <2>8 DEF Advance
<1>5. ASSUME NEW t \in Tasks, Fail(t) PROVE TypeOK'
  <2>1. task' \in [Tasks -> {Idle} \cup BusyTasks]
    BY <1>5, TaskStep DEF Fail, Abandon
  <2>2. task[t].user \in Users
    BY <1>5 DEF Fail, Busy, TypeOK, Idle, BusyTasks
  <2> QED
    BY <1>5, <2>1, <2>2 DEF Fail, Abandon, Release, TypeOK, rewards
<1>6. CASE UNCHANGED vars
    BY <1>6 DEF vars, table, rewards, past, count, TypeOK
<1> QED
    BY <1>1, <1>2, <1>3, <1>4, <1>5, <1>6 DEF Next

-----------------------------------------------------------------------------
(* The rules and the lock *)

\* A request that is not idle has a code, a user and rules.
LEMMA BusyType ==
    ASSUME TypeOK, NEW t \in Tasks, Busy(t)
    PROVE  task[t] \in BusyTasks
    BY DEF TypeOK, Busy, Idle

\* A step changes one request at most, and a request keeps what it looked up.
KeepsRequest(t) ==
    \A o \in Tasks :
        \/ task'[o] = task[o]
        \/ task'[o] = Idle
        \/ /\ o = t /\ Busy(o)
           /\ task'[o].code = task[o].code
           /\ task'[o].user = task[o].user
           /\ task'[o].rules = task[o].rules

LEMMA AdvanceKeeps ==
    ASSUME TypeOK, NEW t \in Tasks, Advance(t) \/ Fail(t)
    PROVE  KeepsRequest(t)
<1>1. task \in [Tasks -> {Idle} \cup BusyTasks]
    BY DEF TypeOK
<1>2. Busy(t)
    BY DEF Advance, Validate, ReadSubscription, ApplyRewardRemote, PanelRefuses,
           LockPromocode, CheckActivation, CommitActivation, CodeIsGone, Fail, Busy
<1>3. task[t] \in BusyTasks
    BY <1>2, BusyType
<1>4. CASE task' = [task EXCEPT ![t] = Idle]
    BY <1>1, <1>4 DEF KeepsRequest
<1>5. ASSUME NEW pc, task' = [task EXCEPT ![t].pc = pc]
      PROVE  KeepsRequest(t)
    BY <1>1, <1>2, <1>3, <1>5 DEF KeepsRequest, BusyTasks
<1>6. CASE ReadSubscription(t)
    BY <1>1, <1>2, <1>3, <1>6 DEF KeepsRequest, BusyTasks, ReadSubscription
<1> QED
    BY <1>4, <1>5, <1>6
    DEF Advance, Validate, ApplyRewardRemote, PanelRefuses, LockPromocode,
        CheckActivation, CommitActivation, CodeIsGone, Fail, Abandon, Goto

\* Only an administrator changes a code's rules or the history of them.
LEMMA RulesKept ==
    ASSUME TypeOK, RulesCovered, NEW t \in Tasks, KeepsRequest(t),
           UNCHANGED <<promo, peak, reused>>
    PROVE  RulesCovered'
<1>1. ASSUME NEW c \in Codes, promo'[c].state # "absent"
      PROVE  Covered(c, promo[c].rules)' 
    BY <1>1 DEF RulesCovered, Covered
<1>2. ASSUME NEW o \in Tasks, Busy(o)'
      PROVE  /\ promo'[task'[o].code].state # "absent"
             /\ Covered(task[o].code, task[o].rules)'
    BY <1>2 DEF RulesCovered, Covered, KeepsRequest, Busy, Idle
<1> QED
    BY <1>1, <1>2 DEF RulesCovered

LEMMA RulesCoveredStep == IInv /\ [Next]_vars => RulesCovered'
<1> SUFFICES ASSUME TypeOK, RulesCovered, [Next]_vars PROVE RulesCovered'
    BY DEF IInv
<1>1. ASSUME NEW c \in Codes, Admin(c) PROVE RulesCovered'
  <2>1. ASSUME NEW r \in Offers, NEW isOpen \in BOOLEAN,
               SetRules(c, r, isOpen), UNCHANGED task
        PROVE  RulesCovered'
    <3>1. r \in Rules
      BY Limited
    <3>2. /\ peak' = [peak EXCEPT ![c] = Higher(peak[c], r.limit)]
          /\ peak[c] \in Nat \cup {NoLimit} /\ r.limit \in Nat \cup {NoLimit}
      BY <2>1, <3>1 DEF SetRules, TypeOK, Rules
    <3>3. \A d \in Codes, s \in Rules : Covered(d, s) => Covered(d, s)'
      BY <2>1, <3>2, PromocodesAssumption DEF Covered, Higher, SetRules, TypeOK, Rules
    <3>4. Covered(c, r)'
      BY <2>1, <3>1, <3>2, PromocodesAssumption DEF Covered, Higher, SetRules, TypeOK, Rules
    <3>5. \A d \in Codes : promo[d].rules \in Rules
      BY DEF TypeOK
    <3>6. promo'[c] = [state |-> "live", open |-> isOpen, rules |-> r]
          /\ \A d \in Codes \ {c} : promo'[d] = promo[d]
      BY <2>1 DEF SetRules, TypeOK
    <3>7. ASSUME NEW d \in Codes, promo'[d].state # "absent"
          PROVE  Covered(d, promo[d].rules)'
      <4>1. CASE d = c
        BY <3>4, <3>6, <4>1 DEF Covered
      <4>2. CASE d # c
        BY <3>3, <3>5, <3>6, <3>7, <4>2 DEF RulesCovered, Covered
      <4> QED
        BY <4>1, <4>2
    <3>8. ASSUME NEW d \in Codes, promo'[d].open
          PROVE  promo'[d].state = "live"
      BY <3>6, <3>8 DEF RulesCovered
    <3>9. ASSUME NEW o \in Tasks, Busy(o)'
          PROVE  /\ promo'[task'[o].code].state # "absent"
                 /\ Covered(task[o].code, task[o].rules)'
      <4>1. Busy(o) /\ task' = task
        BY <2>1, <3>9 DEF Busy
      <4>2. task[o] \in BusyTasks
        BY <4>1, BusyType
      <4>3. task[o].code \in Codes /\ task[o].rules \in Rules
        BY <4>2 DEF BusyTasks
      <4> QED
        BY <3>3, <3>6, <4>1, <4>3 DEF RulesCovered, Covered
    <3> QED
      BY <3>7, <3>8, <3>9 DEF RulesCovered
  <2>2. ASSUME NEW r \in Offers, CreatePromocode(c, r)
        PROVE  RulesCovered'
    BY <2>1, <2>2 DEF CreatePromocode
  <2>3. ASSUME NEW r \in Offers, NEW isOpen \in BOOLEAN,
               UpdatePromocode(c, r, isOpen)
        PROVE  RulesCovered'
    BY <2>1, <2>3 DEF UpdatePromocode
  <2>4. CASE DeletePromocode(c)
    <3>1. \A d \in Codes : promo'[d].rules = promo[d].rules
          /\ (promo'[d].state = "absent" <=> promo[d].state = "absent")
          /\ (promo'[d].open => promo[d].open /\ d # c)
          /\ (d # c => promo'[d] = promo[d])
      BY <2>4 DEF DeletePromocode, TypeOK
    <3>2. UNCHANGED <<task, peak, reused>>
      BY <2>4 DEF DeletePromocode, past
    <3>3. \A o \in Tasks : Busy(o) => task[o].code \in Codes
      BY BusyType DEF BusyTasks
    <3>4. \A d \in Codes : \A s : Covered(d, s)' <=> Covered(d, s)
      BY <3>2 DEF Covered
    <3>5. \A o \in Tasks : Busy(o)' <=> Busy(o)
      BY <3>2 DEF Busy
    <3>6. \A d \in Codes : promo'[d].open => promo'[d].state = "live"
      BY <3>1 DEF RulesCovered
    <3>7. ASSUME NEW d \in Codes, promo'[d].state # "absent"
          PROVE  Covered(d, promo[d].rules)'
      <4>1. Covered(d, promo[d].rules) /\ promo'[d].rules = promo[d].rules
        BY <3>1, <3>7 DEF RulesCovered
      <4> QED
        BY <3>2, <4>1 DEF Covered
    <3>8. \A o \in Tasks : Busy(o)' =>
             /\ promo'[task'[o].code].state # "absent"
             /\ Covered(task[o].code, task[o].rules)'
      BY <3>1, <3>2, <3>3, <3>5 DEF RulesCovered, Covered
    <3> QED
      BY <3>6, <3>7, <3>8 DEF RulesCovered
  <2> QED
    BY <1>1, <2>2, <2>3, <2>4 DEF Admin
<1>2. ASSUME NEW u \in Users, SpendDiscount(u) PROVE RulesCovered'
    BY <1>2 DEF SpendDiscount, RulesCovered, Covered, Busy, table, past
<1>3. ASSUME NEW t \in Tasks, NEW c \in Codes, NEW u \in Users, LookUp(t, c, u)
      PROVE  RulesCovered'
  <2>1. /\ \A o \in Tasks \ {t} : task'[o] = task[o]
        /\ task'[t].code = c /\ task'[t].rules = promo[c].rules
      BY <1>3 DEF LookUp, TypeOK
  <2>2. UNCHANGED <<promo, peak, reused>> /\ promo[c].state = "live"
      BY <1>3 DEF LookUp, table, past, RulesCovered
  <2>3. Covered(c, promo[c].rules)
      BY <2>2 DEF RulesCovered
  <2> QED
      BY <2>1, <2>2, <2>3 DEF RulesCovered, Covered, Busy
<1>4. ASSUME NEW t \in Tasks, Advance(t) \/ Fail(t) PROVE RulesCovered'
  <2>1. UNCHANGED <<promo, peak, reused>>
    BY <1>4 DEF Advance, Validate, ReadSubscription, ApplyRewardRemote, PanelRefuses,
                LockPromocode, CheckActivation, CommitActivation, CodeIsGone, Fail,
                table, past
  <2> QED
    BY <1>4, <2>1, AdvanceKeeps, RulesKept
<1>5. CASE UNCHANGED vars
    BY <1>5 DEF vars, table, past, RulesCovered, Covered, Busy
<1> QED
    BY <1>1, <1>2, <1>3, <1>4, <1>5 DEF Next

LEMMA LockHeldStep == IInv /\ [Next]_vars => LockHeld'
<1> SUFFICES ASSUME TypeOK, RulesCovered, LockHeld, [Next]_vars PROVE LockHeld'
    BY DEF IInv
<1>1. ASSUME NEW c \in Codes, Admin(c) PROVE LockHeld'
  <2>1. UNCHANGED <<lock, task>>
    BY <1>1 DEF Admin, CreatePromocode, UpdatePromocode, DeletePromocode
  <2>2. \A d \in Codes : promo[d].state = "gone" => promo'[d].state = "gone"
    <3>1. ASSUME NEW new, promo' = [promo EXCEPT ![c] = new],
                 promo[c].state # "gone" \/ new.state = "gone"
          PROVE  \A d \in Codes : promo[d].state = "gone" => promo'[d].state = "gone"
      BY <3>1 DEF TypeOK
    <3>2. CASE DeletePromocode(c)
      BY <3>2 DEF DeletePromocode, TypeOK
    <3> QED
      BY <1>1, <3>1, <3>2 DEF Admin, CreatePromocode, UpdatePromocode, SetRules
  <2>3. \A t \in Tasks : task[t].pc \in {"check", "commit"} => task[t].code \in Codes
    BY BusyType DEF Busy, BusyTasks
  <2> QED
    BY <2>1, <2>2, <2>3 DEF LockHeld, Locks
<1>2. ASSUME NEW u \in Users, SpendDiscount(u) PROVE LockHeld'
    BY <1>2 DEF SpendDiscount, LockHeld, Locks, table
<1>3. ASSUME NEW t \in Tasks, NEW c \in Codes, NEW u \in Users, LookUp(t, c, u)
      PROVE  LockHeld'
  <2>1. /\ \A o \in Tasks \ {t} : task'[o] = task[o]
        /\ task'[t].pc = "validate" /\ task[t].pc = "idle"
        /\ UNCHANGED <<promo, lock>>
    BY <1>3 DEF LookUp, Busy, TypeOK, table
  <2> QED
    BY <2>1 DEF LockHeld, Locks
<1>4. ASSUME NEW t \in Tasks, Advance(t) \/ Fail(t) PROVE LockHeld'
  <2>1. task \in [Tasks -> {Idle} \cup BusyTasks]
        /\ lock \in [Codes -> Tasks \cup {NoTask}] /\ promo' = promo
    BY <1>4 DEF TypeOK, Advance, Validate, ReadSubscription, ApplyRewardRemote,
                PanelRefuses, LockPromocode, CheckActivation, CommitActivation,
                CodeIsGone, Fail, table
  <2>2. Busy(t)
    BY <1>4 DEF Advance, Validate, ReadSubscription, ApplyRewardRemote, PanelRefuses,
           LockPromocode, CheckActivation, CommitActivation, CodeIsGone, Fail, Busy
  <2>3. task[t] \in BusyTasks
    BY <2>2, BusyType
  \* The transaction ends: the lock, if it was held, is released.
  <2>4. ASSUME task' = [task EXCEPT ![t] = Idle], Release(t)
        PROVE  LockHeld'
    <3>1. \A o \in Tasks \ {t} : task'[o] = task[o]
      BY <2>1, <2>4
    <3>2. task'[t].pc = "idle"
      BY <2>1, <2>4 DEF Idle
    <3>3. \A c \in Codes : lock'[c] = IF lock[c] = t THEN NoTask ELSE lock[c]
      BY <2>1, <2>4 DEF Release
    <3>4. \A o \in Tasks : task[o].pc \in {"check", "commit"} => task[o].code \in Codes
      BY BusyType DEF Busy, BusyTasks
    <3> QED
      BY <2>1, <3>1, <3>2, <3>3, <3>4, PromocodesAssumption DEF LockHeld, Locks
  \* The request ends or moves on before the lock.
  <2>5. ASSUME UNCHANGED lock, task[t].pc \notin {"check", "commit"},
               \A o \in Tasks \ {t} : task'[o] = task[o],
               task'[t].pc \notin {"check", "commit"}
        PROVE  LockHeld'
    BY <2>1, <2>5 DEF LockHeld, Locks
  <2>6. CASE Validate(t)
    BY <2>1, <2>3, <2>5, <2>6 DEF Validate, Goto, Idle, BusyTasks, table
  <2>7. CASE ReadSubscription(t)
    BY <2>1, <2>3, <2>5, <2>7 DEF ReadSubscription, BusyTasks, table
  <2>8. CASE ApplyRewardRemote(t)
    BY <2>1, <2>3, <2>5, <2>8 DEF ApplyRewardRemote, Goto, BusyTasks, table
  <2>9. CASE PanelRefuses(t)
    BY <2>1, <2>3, <2>5, <2>9 DEF PanelRefuses, Idle, BusyTasks, table
  <2>10. CASE LockPromocode(t)
    <3>1. task'[t].code = task[t].code /\ task'[t].rules = task[t].rules
          /\ task'[t].pc = (IF Locks(t) THEN "check" ELSE "commit")
      BY <2>1, <2>3, <2>10 DEF LockPromocode, Goto, BusyTasks
    <3>2. \A o \in Tasks \ {t} : task'[o] = task[o]
      BY <2>1, <2>10 DEF LockPromocode, Goto
    <3>3. task[t].code \in Codes /\ task[t].pc = "lock"
      BY <2>3, <2>10 DEF BusyTasks, LockPromocode
    <3>4. Locks(t)' <=> Locks(t)
      BY <3>1 DEF Locks
    <3>5. promo[task[t].code].state # "absent" /\ promo[task[t].code].state \in {"absent", "live", "gone"}
      BY <2>2, <3>3 DEF RulesCovered, TypeOK
    <3>6. CASE Locks(t) /\ promo[task[t].code].state = "live"
      <4>1. lock[task[t].code] = NoTask /\ lock' = [lock EXCEPT ![task[t].code] = t]
        BY <2>10, <3>6, Zenon DEF LockPromocode
      <4>2. lock'[task[t].code] = t
            /\ \A c \in Codes \ {task[t].code} : lock'[c] = lock[c]
        BY <2>1, <3>3, <4>1
      <4>3. \A o \in Tasks \ {t} : task[o].pc \in {"check", "commit"} /\ Locks(o)
               => task[o].code # task[t].code \/ promo[task[o].code].state = "gone"
        BY <3>6, <4>1, PromocodesAssumption DEF LockHeld
      <4>4. \A o \in Tasks \ {t} : Locks(o)' <=> Locks(o)
        BY <3>2 DEF Locks
      <4>5. \A o \in Tasks : task[o].pc \in {"check", "commit"} => task[o].code \in Codes
        BY BusyType DEF Busy, BusyTasks
      <4>6. ASSUME NEW c \in Codes, NEW o \in Tasks, lock'[c] = o
            PROVE  task'[o].pc \in {"check", "commit"} /\ task'[o].code = c
        <5>1. CASE c = task[t].code
          BY <3>1, <3>6, <4>2, <4>6, <5>1
        <5>2. CASE c # task[t].code
          <6>1. lock[c] = o /\ o # t
            BY <3>3, <4>2, <4>6, <5>2 DEF LockHeld
          <6> QED
            BY <3>2, <6>1 DEF LockHeld
        <5> QED
          BY <5>1, <5>2
      <4>7. ASSUME NEW o \in Tasks, task'[o].pc \in {"check", "commit"}, Locks(o)'
            PROVE  lock'[task'[o].code] = o \/ promo'[task'[o].code].state = "gone"
        <5>1. CASE o = t
          BY <3>1, <4>2, <5>1
        <5>2. CASE o # t
          BY <2>1, <3>2, <4>2, <4>3, <4>4, <4>5, <4>7, <5>2 DEF LockHeld
        <5> QED
          BY <5>1, <5>2
      <4> QED
        BY <4>6, <4>7 DEF LockHeld
    <3>7. CASE ~(Locks(t) /\ promo[task[t].code].state = "live")
      <4>1. lock' = lock
        BY <2>10, <3>7, Zenon DEF LockPromocode
      <4>2. \A o \in Tasks \ {t} : Locks(o)' <=> Locks(o)
        BY <3>2 DEF Locks
      <4>3. \A c \in Codes : lock[c] # t
        BY <3>3 DEF LockHeld
      <4> QED
        BY <2>1, <3>1, <3>2, <3>4, <3>5, <3>7, <4>1, <4>2, <4>3 DEF LockHeld
    <3> QED
      BY <3>6, <3>7
  <2>11. CASE CheckActivation(t)
    <3>1. CASE Goto(t, "commit") /\ UNCHANGED lock
      <4>1. \A o \in Tasks \ {t} : task'[o] = task[o]
        BY <2>1, <3>1 DEF Goto
      <4>2. /\ task'[t].pc = "commit" /\ task[t].pc = "check"
            /\ task'[t].code = task[t].code /\ task'[t].rules = task[t].rules
        BY <2>1, <2>3, <2>11, <3>1 DEF CheckActivation, Goto, BusyTasks
      <4> QED
        BY <2>1, <3>1, <4>1, <4>2 DEF LockHeld, Locks
    <3>2. CASE Abandon(t)
      BY <2>4, <3>2 DEF Abandon
    <3> QED
      BY <2>11, <3>1, <3>2 DEF CheckActivation
  <2>12. CASE CommitActivation(t)
    BY <2>4, <2>12 DEF CommitActivation
  <2>13. CASE CodeIsGone(t)
    BY <2>4, <2>13 DEF CodeIsGone, Abandon
  <2>14. CASE Fail(t)
    BY <2>4, <2>14 DEF Fail, Abandon
  <2> QED
    BY <1>4, <2>6, <2>7, <2>8, <2>9, <2>10, <2>11, <2>12, <2>13, <2>14 DEF Advance
<1>5. CASE UNCHANGED vars
    BY <1>5 DEF vars, table, LockHeld, Locks
<1> QED
    BY <1>1, <1>2, <1>3, <1>4, <1>5 DEF Next

-----------------------------------------------------------------------------
(* The limit and the one activation per user *)

\* What a step must leave alone for the checks made so far to stay good.
LEMMA CheckedKept ==
    ASSUME TypeOK, RulesCovered, Checked, NEW t \in Tasks, KeepsRequest(t),
           UNCHANGED <<promo, acts, peak, reused>>,
           task'[t].pc = "commit" /\ promo[task[t].code].state = "live"
               => RoomFor(task[t].code, task[t].user),
           \A o \in Tasks \ {t} : task'[o] = task[o]
    PROVE  Checked'
<1> SUFFICES ASSUME NEW o \in Tasks, task'[o].pc = "commit",
                    promo'[task'[o].code].state = "live"
             PROVE  RoomFor(task[o].code, task[o].user)'
    BY DEF Checked
<1>1. \A c, u : RoomFor(c, u) => RoomFor(c, u)'
    BY DEF RoomFor
<1>2. task'[o].code = task[o].code /\ task'[o].user = task[o].user
    BY DEF KeepsRequest, Idle
<1>3. RoomFor(task[o].code, task[o].user)
    BY <1>2 DEF Checked
<1> QED
    BY <1>1, <1>2, <1>3 DEF RoomFor

LEMMA LimitsKept ==
    ASSUME LimitHolds, OncePerUser, UNCHANGED <<acts, peak, reused>>
    PROVE  LimitHolds' /\ OncePerUser'
    BY DEF LimitHolds, OncePerUser

\* A check made under the rules that were looked up leaves room by the
\* history: the rules are covered by it.
LEMMA WithinIsRoom ==
    ASSUME TypeOK, RulesCovered, NEW t \in Tasks, Busy(t),
           WithinRules(t) \/ ~Locks(t)
    PROVE  RoomFor(task[t].code, task[t].user)
<1>1. task[t] \in BusyTasks
    BY BusyType
<1>2. Covered(task[t].code, task[t].rules)
    BY DEF RulesCovered
<1>3. /\ task[t].code \in Codes /\ task[t].rules.limit \in Nat \cup {NoLimit}
      /\ task[t].rules.reusable \in BOOLEAN
    BY <1>1 DEF BusyTasks, Rules
<1>4. Len(acts[task[t].code]) \in Nat /\ peak[task[t].code] \in Nat \cup {NoLimit}
    BY <1>3 DEF TypeOK
<1>5. CASE ~Locks(t)
    BY <1>2, <1>3, <1>5, PromocodesAssumption DEF Locks, Covered, RoomFor
<1>6. CASE WithinRules(t)
    BY <1>2, <1>3, <1>4, <1>6, PromocodesAssumption DEF WithinRules, Covered, RoomFor
<1> QED
    BY <1>5, <1>6

\* Adding a user who is not there keeps a sequence free of repetitions.
LEMMA NewUserKeepsInjective ==
    ASSUME NEW S, NEW s \in Seq(S), NEW e \in S, IsInjective(s), ~Contains(s, e)
    PROVE  IsInjective(Append(s, e))
<1>1. \A a, b \in DOMAIN s : s[a] = s[b] => a = b
    BY DEF IsInjective
<1>2. \A i \in 1 .. Len(s) : s[i] # e
    BY DEF Contains
<1>3. \A a, b \in DOMAIN Append(s, e) : Append(s, e)[a] = Append(s, e)[b] => a = b
    BY <1>1, <1>2
<1> QED
    BY <1>3, Zenon DEF IsInjective

LEMMA LimitStep == IInv /\ [Next]_vars => Checked' /\ LimitHolds' /\ OncePerUser'
<1> SUFFICES ASSUME IInv, [Next]_vars
             PROVE  Checked' /\ LimitHolds' /\ OncePerUser'
    OBVIOUS
<1>0. TypeOK /\ RulesCovered /\ LockHeld /\ Checked /\ LimitHolds /\ OncePerUser
    BY DEF IInv
<1>a. \A c \in Codes : Len(acts[c]) \in Nat /\ peak[c] \in Nat \cup {NoLimit}
                      /\ acts[c] \in Seq(Users)
    BY <1>0 DEF TypeOK
<1>b. \A o \in Tasks : task[o].pc = "commit" =>
          Busy(o) /\ task[o].code \in Codes /\ task[o].user \in Users
                 /\ promo[task[o].code].state # "absent"
    BY <1>0, BusyType DEF Busy, BusyTasks, RulesCovered
<1>1. ASSUME NEW c \in Codes, Admin(c)
      PROVE  Checked' /\ LimitHolds' /\ OncePerUser'
  <2>0. task' = task
    BY <1>1 DEF Admin, CreatePromocode, UpdatePromocode, DeletePromocode
  <2>1. ASSUME NEW r \in Offers, NEW isOpen \in BOOLEAN,
               SetRules(c, r, isOpen), acts' = acts, promo[c].state # "gone"
        PROVE  Checked' /\ LimitHolds' /\ OncePerUser'
    <3>1. /\ peak' = [peak EXCEPT ![c] = Higher(peak[c], r.limit)]
          /\ reused \subseteq reused'
          /\ r.limit \in Nat \cup {NoLimit}
      BY <2>1, Limited DEF SetRules, Rules
    <3>2. \A d \in Codes : peak'[d] # NoLimit =>
              peak[d] # NoLimit /\ peak[d] \in Nat /\ peak'[d] \in Nat
              /\ peak[d] <= peak'[d]
      BY <1>0, <3>1, PromocodesAssumption DEF Higher, TypeOK
    <3>3. \A d \in Codes, u \in Users : RoomFor(d, u) => RoomFor(d, u)'
      BY <1>a, <2>1, <3>1, <3>2 DEF RoomFor
    <3>4. LimitHolds'
      BY <1>0, <1>a, <2>1, <3>2 DEF LimitHolds
    <3>5. OncePerUser'
      BY <1>0, <2>1, <3>1 DEF OncePerUser
    <3>6. \A d \in Codes : d # c => promo'[d] = promo[d]
      BY <1>0, <2>1 DEF SetRules, TypeOK
    <3>7. ASSUME NEW o \in Tasks, task[o].pc = "commit"
          PROVE  RoomFor(task[o].code, task[o].user) \/ promo'[task[o].code].state # "live"
      <4>1. task[o].code \in Codes
        BY <1>b, <3>7
      <4>2. promo[task[o].code].state \in {"live", "gone"}
        BY <1>0, <1>b, <3>7, <4>1 DEF TypeOK
      <4> QED
        BY <1>0, <2>1, <3>6, <3>7, <4>1, <4>2 DEF Checked
    <3>8. Checked'
      BY <1>b, <2>0, <3>3, <3>7 DEF Checked, RoomFor
    <3> QED
      BY <3>4, <3>5, <3>8
  <2>2. ASSUME NEW r \in Offers,
               \/ CreatePromocode(c, r)
               \/ \E isOpen \in BOOLEAN : UpdatePromocode(c, r, isOpen)
        PROVE  Checked' /\ LimitHolds' /\ OncePerUser'
    BY <2>1, <2>2 DEF CreatePromocode, UpdatePromocode
  <2>3. CASE DeletePromocode(c)
    <3>1. /\ UNCHANGED <<peak, reused>> /\ acts' = [acts EXCEPT ![c] = <<>>]
          /\ promo'[c].state = "gone"
          /\ \A d \in Codes : d # c => promo'[d] = promo[d]
      BY <1>0, <2>3 DEF DeletePromocode, TypeOK, past
    <3>2. /\ \A d \in Codes : d # c => acts'[d] = acts[d]
          /\ acts'[c] = <<>> /\ Len(acts'[c]) = 0 /\ DOMAIN acts'[c] = {}
      BY <1>0, <3>1 DEF TypeOK
    <3>3. LimitHolds'
      BY <1>0, <1>a, <3>1, <3>2, PromocodesAssumption DEF LimitHolds
    <3>4. OncePerUser'
      BY <1>0, <3>1, <3>2 DEF OncePerUser, IsInjective
    <3>5. Checked'
      BY <1>0, <1>b, <2>0, <3>1, <3>2 DEF Checked, RoomFor
    <3> QED
      BY <3>3, <3>4, <3>5
  <2> QED
    BY <1>1, <2>2, <2>3 DEF Admin
<1>2. ASSUME NEW u \in Users, SpendDiscount(u)
      PROVE  Checked' /\ LimitHolds' /\ OncePerUser'
    BY <1>0, <1>2, LimitsKept DEF SpendDiscount, Checked, RoomFor, table, past
<1>3. ASSUME NEW t \in Tasks, NEW c \in Codes, NEW u \in Users, LookUp(t, c, u)
      PROVE  Checked' /\ LimitHolds' /\ OncePerUser'
  <2>1. /\ \A o \in Tasks \ {t} : task'[o] = task[o]
        /\ task'[t].pc = "validate" /\ UNCHANGED <<promo, acts, peak, reused>>
    BY <1>0, <1>3 DEF LookUp, TypeOK, table, past
  <2> QED
    BY <1>0, <2>1, LimitsKept DEF Checked, RoomFor
<1>4. ASSUME NEW t \in Tasks, Advance(t) \/ Fail(t)
      PROVE  Checked' /\ LimitHolds' /\ OncePerUser'
  <2>1. KeepsRequest(t)
    BY <1>0, <1>4, AdvanceKeeps
  <2>2. task \in [Tasks -> {Idle} \cup BusyTasks] /\ promo' = promo
        /\ UNCHANGED <<peak, reused>>
    BY <1>0, <1>4 DEF TypeOK, Advance, Validate, ReadSubscription, ApplyRewardRemote,
                PanelRefuses, LockPromocode, CheckActivation, CommitActivation,
                CodeIsGone, Fail, table, past
  <2>3. Busy(t)
    BY <1>4 DEF Advance, Validate, ReadSubscription, ApplyRewardRemote, PanelRefuses,
           LockPromocode, CheckActivation, CommitActivation, CodeIsGone, Fail, Busy
  <2>4. task[t] \in BusyTasks
    BY <1>0, <2>3, BusyType
  \* A step that adds no activation, and reaches the commit only with room.
  <2>5. ASSUME UNCHANGED acts, \A o \in Tasks \ {t} : task'[o] = task[o],
               task'[t].pc # "commit" \/ RoomFor(task[t].code, task[t].user)
        PROVE  Checked' /\ LimitHolds' /\ OncePerUser'
    BY <1>0, <2>1, <2>2, <2>5, CheckedKept, LimitsKept
  <2>6. CASE Validate(t)
    BY <2>2, <2>4, <2>5, <2>6 DEF Validate, Goto, Idle, BusyTasks, table
  <2>7. CASE ReadSubscription(t)
    BY <2>2, <2>4, <2>5, <2>7 DEF ReadSubscription, BusyTasks, table
  <2>8. CASE ApplyRewardRemote(t)
    BY <2>2, <2>4, <2>5, <2>8 DEF ApplyRewardRemote, Goto, BusyTasks, table
  <2>9. CASE PanelRefuses(t)
    BY <2>2, <2>4, <2>5, <2>9 DEF PanelRefuses, Idle, BusyTasks, table
  <2>10. CASE LockPromocode(t)
    <3>1. task'[t].pc # "commit" \/ ~Locks(t)
      BY <2>2, <2>4, <2>10 DEF LockPromocode, Goto, BusyTasks
    <3>2. \A o \in Tasks \ {t} : task'[o] = task[o]
      BY <2>2, <2>10 DEF LockPromocode, Goto
    <3> QED
      BY <1>0, <2>3, <2>5, <2>10, <3>1, <3>2, WithinIsRoom DEF LockPromocode
  <2>11. CASE CheckActivation(t)
    <3>1. CASE WithinRules(t) /\ Goto(t, "commit")
      BY <1>0, <2>2, <2>3, <2>5, <2>11, <3>1, WithinIsRoom DEF CheckActivation, Goto
    <3>2. CASE Abandon(t)
      BY <2>2, <2>5, <2>11, <3>2 DEF CheckActivation, Abandon, Idle
    <3> QED
      BY <2>11, <3>1, <3>2 DEF CheckActivation
  <2>12. CASE CommitActivation(t)
    <3> DEFINE c == task[t].code
               u == task[t].user
    <3>1. /\ task[t].pc = "commit" /\ promo[c].state = "live"
          /\ acts' = [acts EXCEPT ![c] = Append(@, u)]
          /\ task' = [task EXCEPT ![t] = Idle]
      BY <2>12 DEF CommitActivation
    <3>2. c \in Codes /\ u \in Users
      BY <2>4 DEF BusyTasks
    <3>3. RoomFor(c, u)
      BY <1>0, <3>1 DEF Checked
    <3>4. /\ acts'[c] = Append(acts[c], u)
          /\ \A d \in Codes : d # c => acts'[d] = acts[d]
          /\ Len(acts'[c]) = Len(acts[c]) + 1
      BY <1>0, <1>a, <3>1, <3>2 DEF TypeOK
    <3>5. LimitHolds'
      BY <1>0, <1>a, <2>2, <3>2, <3>3, <3>4, PromocodesAssumption DEF LimitHolds, RoomFor
    <3>6. OncePerUser'
      <4>1. ASSUME NEW d \in Codes, d \notin reused PROVE IsInjective(acts'[d])
        <5>1. CASE d = c
          <6>1. IsInjective(acts[c]) /\ ~Contains(acts[c], u)
            BY <1>0, <3>2, <3>3, <4>1, <5>1 DEF OncePerUser, RoomFor
          <6> QED
            <7>1. IsInjective(Append(acts[c], u))
              BY <1>a, <3>2, <6>1, NewUserKeepsInjective
            <7> QED
              BY <3>4, <5>1, <7>1
        <5>2. CASE d # c
          BY <1>0, <3>4, <4>1, <5>2 DEF OncePerUser
        <5> QED
          BY <5>1, <5>2
      <4> QED
        BY <2>2, <4>1 DEF OncePerUser
    \* Another request about to commit for the same code: were both locked,
    \* both would hold the one lock; an unlocked one leaves nothing to check.
    <3>7. ASSUME NEW o \in Tasks, task'[o].pc = "commit"
          PROVE  RoomFor(task[o].code, task[o].user)'
                 \/ promo'[task'[o].code].state # "live"
      <4>1. o # t /\ task'[o] = task[o] /\ task[o].pc = "commit"
        BY <2>2, <3>1, <3>7 DEF Idle
      <4>2. task[o].code \in Codes /\ Busy(o)
        BY <1>b, <4>1
      <4>3. CASE task[o].code # c
        BY <1>0, <2>2, <3>4, <4>1, <4>2, <4>3 DEF Checked, RoomFor
      <4>4. CASE task[o].code = c
        <5>1. ~Locks(o) \/ ~Locks(t)
          BY <1>0, <3>1, <3>2, <4>1, <4>4 DEF LockHeld
        <5>2. Covered(c, task[o].rules) /\ Covered(c, task[t].rules)
          BY <1>0, <2>3, <4>2, <4>4 DEF RulesCovered
        <5>3. peak[c] = NoLimit /\ c \in reused
          BY <5>1, <5>2, PromocodesAssumption DEF Locks, Covered
        <5> QED
          BY <2>2, <4>1, <4>4, <5>3 DEF RoomFor
      <4> QED
        BY <4>3, <4>4
    <3>8. Checked'
      <4>1. \A o \in Tasks : task'[o].pc = "commit" => task'[o] = task[o]
        BY <2>2, <3>1 DEF Idle
      <4> QED
        BY <3>7, <4>1 DEF Checked, RoomFor
    <3> QED
      BY <3>5, <3>6, <3>8
  <2>13. CASE CodeIsGone(t)
    BY <2>2, <2>5, <2>13 DEF CodeIsGone, Abandon, Idle
  <2>14. CASE Fail(t)
    BY <2>2, <2>5, <2>14 DEF Fail, Abandon, Idle
  <2> QED
    BY <1>4, <2>6, <2>7, <2>8, <2>9, <2>10, <2>11, <2>12, <2>13, <2>14 DEF Advance
<1>5. CASE UNCHANGED vars
    BY <1>0, <1>5, LimitsKept DEF vars, table, past, Checked, RoomFor
<1> QED
    BY <1>1, <1>2, <1>3, <1>4, <1>5 DEF Next

-----------------------------------------------------------------------------
(* The panel and the database *)

Part(u) ==
    /\ (\A t \in Tasks : ~(Rewarded(t) /\ task[t].user = u)) => panel[u] = sub[u]
    /\ \A t \in Tasks :
          /\ Rewarded(t) /\ task[t].user = u
          /\ \A o \in Tasks : Rewarded(o) /\ task[o].user = u => o = t
          => panel[u] = NewUnits(t)

LEMMA PartsMakeBoth ==
    Settled /\ InTransit <=> \A u \in Users \ (excess \cup mixed) : Part(u)
    BY DEF Settled, InTransit, Part

\* A step that leaves the panel, the database and the rewards in flight alone.
LEMMA PartKept ==
    ASSUME NEW u \in Users, Part(u), panel'[u] = panel[u], sub'[u] = sub[u],
           \A o \in Tasks :
              /\ (Rewarded(o) /\ task[o].user = u)' <=> Rewarded(o) /\ task[o].user = u
              /\ Rewarded(o) /\ task[o].user = u => NewUnits(o)' = NewUnits(o)
    PROVE  Part(u)'
    BY DEF Part

LEMMA PanelStep == IInv /\ [Next]_vars => Settled' /\ InTransit'
<1> SUFFICES ASSUME IInv, [Next]_vars,
                    NEW u \in Users, u \notin (excess \cup mixed)'
             PROVE  Part(u)'
    BY DEF Settled, InTransit, Part
<1>0. TypeOK
    BY DEF IInv
<1>a. \A o \in Tasks : Rewarded(o) => task[o] \in BusyTasks
    BY <1>0, BusyType DEF Rewarded, Busy
<1>b. u \notin excess \cup mixed => Part(u)
    BY DEF IInv, Settled, InTransit, Part
<1>1. ASSUME UNCHANGED <<panel, sub, task, excess, mixed>> PROVE Part(u)'
    BY <1>b, <1>1, PartKept DEF Rewarded, NewUnits
<1>2. ASSUME NEW c \in Codes, Admin(c) PROVE Part(u)'
    BY <1>1, <1>2 DEF Admin, CreatePromocode, UpdatePromocode, DeletePromocode, SetRules,
                      rewards, past
<1>3. ASSUME NEW v \in Users, SpendDiscount(v) PROVE Part(u)'
    BY <1>1, <1>3 DEF SpendDiscount, past
<1>4. ASSUME NEW t \in Tasks, NEW c \in Codes, NEW v \in Users, LookUp(t, c, v)
      PROVE  Part(u)'
  <2>1. /\ \A o \in Tasks \ {t} : task'[o] = task[o]
        /\ task'[t].pc = "validate" /\ task[t].pc = "idle"
        /\ UNCHANGED <<panel, sub, excess, mixed>>
    BY <1>0, <1>4 DEF LookUp, Busy, TypeOK, rewards, past
  <2>2. \A o \in Tasks :
           /\ Rewarded(o)' <=> Rewarded(o)
           /\ Rewarded(o) => task'[o] = task[o]
    BY <2>1 DEF Rewarded
  <2> QED
    BY <1>b, <2>1, <2>2, PartKept DEF NewUnits
<1>5. ASSUME NEW t \in Tasks, Advance(t) \/ Fail(t) PROVE Part(u)'
  <2>1. task \in [Tasks -> {Idle} \cup BusyTasks]
        /\ panel \in [Users -> Nat] /\ sub \in [Users -> Nat]
    BY <1>0 DEF TypeOK
  <2>2. Busy(t)
    BY <1>5 DEF Advance, Validate, ReadSubscription, ApplyRewardRemote, PanelRefuses,
           LockPromocode, CheckActivation, CommitActivation, CodeIsGone, Fail, Busy
  <2>3. task[t] \in BusyTasks
    BY <1>0, <2>2, BusyType
  \* A request that was not rewarding, and is not after the step.
  <2>4. ASSUME UNCHANGED <<panel, sub, excess, mixed>>, ~Rewarded(t), ~Rewarded(t)',
               \A o \in Tasks \ {t} : task'[o] = task[o]
        PROVE  Part(u)'
    <3>1. \A o \in Tasks : Rewarded(o)' <=> Rewarded(o)
      BY <2>4 DEF Rewarded
    <3> QED
      BY <1>b, <2>4, <3>1, PartKept DEF NewUnits
  \* A rewarding request that goes on.
  <2>5. ASSUME UNCHANGED <<panel, sub, excess, mixed>>,
               NEW pc \in {"check", "commit"}, Goto(t, pc),
               task[t].pc \in {"lock", "check"}
        PROVE  Part(u)'
    <3>1. /\ \A o \in Tasks \ {t} : task'[o] = task[o]
          /\ task'[t] = [task[t] EXCEPT !.pc = pc]
      BY <2>1, <2>5 DEF Goto
    <3>2. /\ task'[t].pc = pc /\ task'[t].rules = task[t].rules
          /\ task'[t].user = task[t].user /\ task'[t].units = task[t].units
      BY <2>3, <3>1 DEF BusyTasks
    <3>3. \A o \in Tasks : /\ Rewarded(o)' <=> Rewarded(o)
                           /\ task'[o].user = task[o].user
                           /\ NewUnits(o)' = NewUnits(o)
      BY <2>5, <3>1, <3>2 DEF Rewarded, NewUnits
    <3> QED
      BY <1>b, <2>5, <3>3, PartKept
  \* A request that fails after it has rewarded its user.
  <2>6. ASSUME UNCHANGED <<panel, sub, mixed>>, Abandon(t)
        PROVE  Part(u)'
    <3>1. /\ \A o \in Tasks \ {t} : task'[o] = task[o]
          /\ task'[t].pc = "idle"
      BY <2>1, <2>6 DEF Abandon, Idle
    <3>2. CASE Rewarded(t) /\ task[t].user = u
      BY <2>6, <3>2 DEF Abandon
    <3>3. CASE ~(Rewarded(t) /\ task[t].user = u)
      <4>1. \A o \in Tasks :
               /\ (Rewarded(o) /\ task[o].user = u)' <=> Rewarded(o) /\ task[o].user = u
               /\ Rewarded(o) /\ task[o].user = u => NewUnits(o)' = NewUnits(o)
        BY <3>1, <3>3 DEF Rewarded, NewUnits
      <4>2. u \notin excess \cup mixed
        BY <2>6, Zenon DEF Abandon
      <4> QED
        BY <1>b, <2>6, <4>1, <4>2, PartKept
    <3> QED
      BY <3>2, <3>3
  <2>7. CASE Validate(t)
    BY <2>1, <2>3, <2>4, <2>7 DEF Validate, Goto, Idle, BusyTasks, Rewarded, rewards, past
  <2>8. CASE ReadSubscription(t)
    BY <2>1, <2>3, <2>4, <2>8 DEF ReadSubscription, BusyTasks, Rewarded, rewards, past
  <2>9. CASE ApplyRewardRemote(t)
    <3>1. /\ \A o \in Tasks \ {t} : task'[o] = task[o]
          /\ task'[t] = [task[t] EXCEPT !.pc = "lock"]
          /\ UNCHANGED <<sub, excess, mixed>> /\ task[t].pc = "remote"
      BY <2>1, <2>9 DEF ApplyRewardRemote, Goto, past
    <3>2. /\ task'[t].pc = "lock" /\ task'[t].rules = task[t].rules
          /\ task'[t].user = task[t].user /\ task'[t].units = task[t].units
      BY <2>3, <3>1 DEF BusyTasks
    <3>3. CASE task[t].rules.kind = "discount"
      <4>1. panel' = panel
        BY <2>9, <3>3, Zenon DEF ApplyRewardRemote
      <4> QED
        BY <2>4, <3>1, <3>2, <3>3, <4>1 DEF Rewarded
    <3>4. CASE task[t].rules.kind # "discount"
      <4>1. panel' = [panel EXCEPT ![task[t].user] = NewUnits(t)]
        BY <2>9, <3>4, Zenon DEF ApplyRewardRemote
      <4>2. CASE task[t].user = u
        <5>1. Rewarded(t)' /\ task'[t].user = u
          BY <3>2, <3>4, <4>2 DEF Rewarded
        <5>2. panel'[u] = NewUnits(t)'
          BY <2>1, <3>2, <4>1, <4>2 DEF NewUnits
        <5> QED
          BY <5>1, <5>2 DEF Part
      <4>3. CASE task[t].user # u
        <5>1. panel'[u] = panel[u]
          BY <2>1, <4>1, <4>3
        <5>2. \A o \in Tasks :
                 /\ (Rewarded(o) /\ task[o].user = u)' <=> Rewarded(o) /\ task[o].user = u
                 /\ Rewarded(o) /\ task[o].user = u => NewUnits(o)' = NewUnits(o)
          BY <3>1, <3>2, <4>3 DEF Rewarded, NewUnits
        <5> QED
          BY <1>b, <3>1, <5>1, <5>2, PartKept
      <4> QED
        BY <4>2, <4>3
    <3> QED
      BY <3>3, <3>4
  <2>10. CASE PanelRefuses(t)
    BY <2>1, <2>3, <2>4, <2>10 DEF PanelRefuses, Idle, BusyTasks, Rewarded, rewards, past
  <2>11. CASE LockPromocode(t)
    <3>1. task[t].pc = "lock" /\ UNCHANGED <<panel, sub, excess, mixed>>
          /\ (Goto(t, "check") \/ Goto(t, "commit"))
      BY <2>11 DEF LockPromocode, rewards, past
    <3> QED
      BY <2>5, <3>1
  <2>12. CASE CheckActivation(t)
    <3>1. UNCHANGED <<panel, sub, mixed>> /\ task[t].pc = "check"
      BY <2>12 DEF CheckActivation, rewards
    <3>2. Abandon(t) \/ (Goto(t, "commit") /\ UNCHANGED excess)
      BY <2>12 DEF CheckActivation
    <3> QED
      BY <2>5, <2>6, <3>1, <3>2
  <2>13. CASE CommitActivation(t)
    <3>1. /\ \A o \in Tasks \ {t} : task'[o] = task[o]
          /\ task'[t].pc = "idle" /\ UNCHANGED <<panel, excess>>
          /\ task[t].pc = "commit" /\ mixed \subseteq mixed'
      BY <2>1, <2>13 DEF CommitActivation, Idle
    <3>2. CASE task[t].rules.kind = "discount"
      <4>1. sub' = sub /\ mixed' = mixed
        BY <2>13, <3>2 DEF CommitActivation
      <4> QED
        BY <2>4, <3>1, <3>2, <4>1 DEF Rewarded
    <3>3. CASE task[t].rules.kind # "discount" /\ task[t].user = u
      <4>1. sub'[u] = NewUnits(t)
        BY <2>1, <2>13, <3>3 DEF CommitActivation
      <4>2. \A o \in Tasks \ {t} : ~(InFlight(o) /\ task[o].user = u)
        BY <2>13, <3>3 DEF CommitActivation
      <4>3. \A o \in Tasks \ {t} : ~(Rewarded(o) /\ task[o].user = u)
        BY <4>2 DEF Rewarded, InFlight
      <4>4. panel[u] = NewUnits(t)
        BY <1>b, <3>1, <3>3, <4>3 DEF Part, Rewarded
      <4>5. \A o \in Tasks : ~(Rewarded(o) /\ task[o].user = u)'
        BY <3>1, <4>3 DEF Rewarded
      <4> QED
        BY <3>1, <4>1, <4>4, <4>5 DEF Part
    <3>4. CASE task[t].rules.kind # "discount" /\ task[t].user # u
      <4>1. sub'[u] = sub[u]
        BY <2>1, <2>13, <3>4 DEF CommitActivation
      <4>2. \A o \in Tasks :
               /\ (Rewarded(o) /\ task[o].user = u)' <=> Rewarded(o) /\ task[o].user = u
               /\ Rewarded(o) /\ task[o].user = u => NewUnits(o)' = NewUnits(o)
        BY <3>1, <3>4 DEF Rewarded, NewUnits
      <4> QED
        BY <1>b, <3>1, <4>1, <4>2, PartKept
    <3> QED
      BY <3>2, <3>3, <3>4
  <2>14. CASE CodeIsGone(t)
    BY <2>6, <2>14 DEF CodeIsGone, rewards
  <2>15. CASE Fail(t)
    BY <2>6, <2>15 DEF Fail, rewards
  <2> QED
    BY <1>5, <2>7, <2>8, <2>9, <2>10, <2>11, <2>12, <2>13, <2>14, <2>15 DEF Advance
<1>6. CASE UNCHANGED vars
    BY <1>1, <1>6 DEF vars, rewards, past
<1> QED
    BY <1>2, <1>3, <1>4, <1>5, <1>6 DEF Next

-----------------------------------------------------------------------------
(* The sum of the extensions *)

\* What a request has read of the subscription is what the row has, unless
\* another of the user's requests committed meanwhile.
ReadHolds ==
    \A t \in Tasks :
        InFlight(t) /\ task[t].user \notin mixed => task[t].units = sub[task[t].user]

\* Until an administrator edits or deletes a code, requests have its rules.
Unedited ==
    edits = 0 =>
        /\ \A c \in Codes : promo[c].state = "absent" => acts[c] = <<>>
        /\ \A t \in Tasks : Busy(t) => task[t].rules = promo[task[t].code].rules

Recorded(u) ==
    /\ IsFiniteSet(Activations(u, "extend"))
    /\ Activations(u, "plan") = {} => sub[u] = 1 + Cardinality(Activations(u, "extend"))

Sums ==
    /\ ReadHolds /\ Unedited
    /\ edits = 0 => \A u \in Subscribed \ mixed : Recorded(u)

\* The activations of a kind, one by one.
LEMMA ActivationRows ==
    ASSUME NEW u, NEW kind, NEW a
    PROVE  a \in Activations(u, kind) <=>
              \E c \in Codes : \E i \in 1..Len(acts[c]) :
                  a = <<c, i>> /\ promo[c].rules.kind = kind /\ acts[c][i] = u
BY DEF Activations

\* Steps that record nothing.
LEMMA ActivationsKept ==
    ASSUME NEW u, NEW kind, acts' = acts,
           \A c \in Codes : promo'[c].rules = promo[c].rules \/ Len(acts[c]) = 0
    PROVE  Activations(u, kind)' = Activations(u, kind)
<1>1. ASSUME NEW a
      PROVE  a \in Activations(u, kind)' <=>
                \E c \in Codes : \E i \in 1..Len(acts'[c]) :
                    a = <<c, i>> /\ promo'[c].rules.kind = kind /\ acts'[c][i] = u
  BY DEF Activations
<1>2. ASSUME NEW c \in Codes, NEW i \in 1..Len(acts[c]) PROVE promo'[c].rules = promo[c].rules
  BY <1>2
<1>3. ASSUME NEW a PROVE a \in Activations(u, kind)' <=> a \in Activations(u, kind)
  BY <1>1, <1>2, ActivationRows
<1> QED
  BY <1>3

\* A commit adds one activation, to those of its user and of its code's kind.
LEMMA ActivationAdded ==
    ASSUME TypeOK, NEW t \in Tasks, CommitActivation(t), NEW c \in Codes, NEW v \in Users,
           c = task[t].code, v = task[t].user, NEW u \in Users, NEW kind
    PROVE  /\ u = v /\ promo[c].rules.kind = kind =>
                 \E a : /\ a \notin Activations(u, kind)
                       /\ Activations(u, kind)' = Activations(u, kind) \cup {a}
           /\ ~(u = v /\ promo[c].rules.kind = kind) =>
                 Activations(u, kind)' = Activations(u, kind)
<1> PICK n : n = Len(acts[c])
  OBVIOUS
<1>1. acts[c] \in Seq(Users) /\ n \in Nat
  BY DEF TypeOK
<1>0. acts' = [acts EXCEPT ![c] = Append(@, v)] /\ promo' = promo
  BY DEF CommitActivation
<1>2. /\ Len(acts'[c]) = n + 1 /\ acts'[c][n + 1] = v
      /\ \A i \in 1..n : acts'[c][i] = acts[c][i]
      /\ \A d \in Codes \ {c} : acts'[d] = acts[d]
  BY <1>0, <1>1 DEF TypeOK
<1>3. ASSUME NEW a
      PROVE  a \in Activations(u, kind)' <=>
                \E d \in Codes : \E i \in 1..Len(acts'[d]) :
                    a = <<d, i>> /\ promo[d].rules.kind = kind /\ acts'[d][i] = u
  BY <1>0 DEF Activations
<1>4. <<c, n + 1>> \notin Activations(u, kind)
  BY <1>1, ActivationRows
<1>5. ASSUME NEW d \in Codes, NEW i
      PROVE  i \in 1..Len(acts'[d]) /\ acts'[d][i] = u <=>
                \/ i \in 1..Len(acts[d]) /\ acts[d][i] = u
                \/ d = c /\ i = n + 1 /\ u = v
  <2>1. 1..(n + 1) = (1..n) \cup {n + 1} /\ n + 1 \notin 1..n
    BY <1>1
  <2> QED
    BY <1>2, <2>1
<1>6. ASSUME NEW a
      PROVE  a \in Activations(u, kind)' <=>
                \/ a \in Activations(u, kind)
                \/ a = <<c, n + 1>> /\ u = v /\ promo[c].rules.kind = kind
  <2>1. ASSUME a \in Activations(u, kind)'
        PROVE  \/ a \in Activations(u, kind)
               \/ a = <<c, n + 1>> /\ u = v /\ promo[c].rules.kind = kind
    <3>1. PICK d \in Codes : \E i \in 1..Len(acts'[d]) :
             a = <<d, i>> /\ promo[d].rules.kind = kind /\ acts'[d][i] = u
      BY <1>3, <2>1
    <3> QED
      BY <1>5, <3>1, ActivationRows
  <2>2. ASSUME a \in Activations(u, kind) PROVE a \in Activations(u, kind)'
    <3>1. PICK d \in Codes : \E i \in 1..Len(acts[d]) :
             a = <<d, i>> /\ promo[d].rules.kind = kind /\ acts[d][i] = u
      BY <2>2, ActivationRows
    <3> QED
      BY <1>3, <1>5, <3>1
  <2>3. ASSUME a = <<c, n + 1>>, u = v, promo[c].rules.kind = kind
        PROVE  a \in Activations(u, kind)'
    <3>1. n + 1 \in 1..Len(acts'[c]) /\ acts'[c][n + 1] = u
      BY <1>1, <1>2, <2>3
    <3> QED
      BY <1>3, <2>3, <3>1
  <2> QED
    BY <2>1, <2>2, <2>3
<1>7. CASE u = v /\ promo[c].rules.kind = kind
  <2>1. Activations(u, kind)' = Activations(u, kind) \cup {<<c, n + 1>>}
    BY <1>6, <1>7
  <2> QED
    BY <1>4, <1>7, <2>1
<1>8. CASE ~(u = v /\ promo[c].rules.kind = kind)
  BY <1>6, <1>8
<1> QED
  BY <1>7, <1>8

\* Requests that go on as they are keep what they read while the row stays.
LEMMA ReadHoldsKept ==
    ASSUME ReadHolds, mixed \subseteq mixed',
           \A t \in Tasks : InFlight(t)' /\ task'[t].user \notin mixed' =>
               \/ task'[t].units = sub'[task'[t].user]
               \/ /\ InFlight(t) /\ task'[t].user = task[t].user
                  /\ task'[t].units = task[t].units
                  /\ sub'[task[t].user] = sub[task[t].user]
    PROVE  ReadHolds'
BY DEF ReadHolds

LEMMA InitSums == Init => Sums
<1> SUFFICES ASSUME Init PROVE Sums
  OBVIOUS
<1>1. \A t \in Tasks : task[t].pc = "idle"
  BY DEF Init, Idle
<1>2. \A c \in Codes : acts[c] = <<>> /\ Len(acts[c]) = 0
  BY DEF Init
<1>3. ReadHolds /\ Unedited
  BY <1>1, <1>2 DEF ReadHolds, Unedited, InFlight, Busy
<1>4. ASSUME NEW u \in Subscribed PROVE Recorded(u)
  <2>1. \A kind : Activations(u, kind) = {}
    BY <1>2, ActivationRows
  <2>2. sub[u] = 1
    BY <1>4, PromocodesAssumption DEF Init
  <2> QED
    BY <2>1, <2>2, FS_EmptySet DEF Recorded
<1> QED
  BY <1>3, <1>4 DEF Sums

\* A step in which no request commits.
LEMMA QuietSums ==
    ASSUME Sums, UNCHANGED <<acts, sub>>, mixed' = mixed, edits' = 0 => edits = 0,
           edits' = 0 => \A c \in Codes :
               \/ promo'[c] = promo[c]
               \/ promo[c].state = "absent" /\ promo'[c].state # "absent",
           \A t \in Tasks :
               \/ ~Busy(t)'
               \/ /\ task'[t].user = task[t].user /\ task'[t].code = task[t].code
                  /\ task'[t].rules = task[t].rules /\ Busy(t)
                  /\ \/ InFlight(t)' => InFlight(t) /\ task'[t].units = task[t].units
                     \/ task'[t].units = sub[task[t].user]
               \/ task'[t].pc = "validate" /\ task'[t].rules = promo[task'[t].code].rules,
           \A t \in Tasks : Busy(t)' =>
               task'[t].code \in Codes /\ promo[task'[t].code].state # "absent"
    PROVE  Sums'
<1>1. ReadHolds'
  <2>1. \A t \in Tasks : InFlight(t)' => Busy(t)' /\ task'[t].pc # "validate"
    BY DEF InFlight, Busy
  <2> QED
    BY <2>1, ReadHoldsKept DEF Sums
<1>2. ASSUME edits' = 0, NEW c \in Codes
      PROVE  /\ promo'[c].rules = promo[c].rules \/ Len(acts[c]) = 0
             /\ promo'[c].state = "absent" => acts'[c] = <<>>
             /\ promo[c].state # "absent" => promo'[c] = promo[c]
  BY <1>2 DEF Sums, Unedited
<1>3. Unedited'
  BY <1>2 DEF Sums, Unedited
<1>4. ASSUME edits' = 0, NEW u \in Subscribed \ mixed PROVE Recorded(u)'
  <2>1. /\ Activations(u, "plan")' = Activations(u, "plan")
        /\ Activations(u, "extend")' = Activations(u, "extend")
    BY <1>2, <1>4, ActivationsKept
  <2> QED
    BY <1>4, <2>1 DEF Recorded, Sums
<1> QED
  BY <1>1, <1>3, <1>4 DEF Sums

\* A commit records the activation and writes what it gives.
LEMMA CommitSums ==
    ASSUME IInv, Sums, NEW t \in Tasks, CommitActivation(t)
    PROVE  Sums'
<1> PICK c, v : c = task[t].code /\ v = task[t].user
  OBVIOUS
<1>0. /\ TypeOK /\ Busy(t) /\ task[t] \in BusyTasks /\ c \in Codes /\ v \in Users
      /\ task[t].rules \in Rules /\ task[t].units \in Nat
  <2>1. TypeOK /\ Busy(t)
    BY DEF IInv, CommitActivation, Busy
  <2>2. task[t] \in BusyTasks
    BY <2>1, BusyType
  <2> QED
    BY <2>1, <2>2 DEF BusyTasks
<1>1. /\ task[t].pc = "commit" /\ acts' = [acts EXCEPT ![c] = Append(@, v)]
      /\ promo' = promo /\ edits' = edits /\ mixed \subseteq mixed'
      /\ \A s \in Tasks \ {t} : task'[s] = task[s]
      /\ task'[t].pc = "idle" /\ promo[c].state = "live"
      /\ \A u \in Users \ {v} : sub'[u] = sub[u]
  BY <1>0 DEF CommitActivation, TypeOK, Idle, count
<1>2. /\ task[t].rules.kind = "discount" => sub' = sub
      /\ task[t].rules.kind # "discount" =>
            /\ sub'[v] = NewUnits(t) /\ InFlight(t)
            /\ v \notin mixed' => \A s \in Tasks \ {t} : ~(InFlight(s) /\ task[s].user = v)
  BY <1>0 DEF CommitActivation, TypeOK, InFlight
<1>3. ReadHolds'
  <2>1. ASSUME NEW s \in Tasks, InFlight(s)', task'[s].user \notin mixed'
        PROVE  /\ InFlight(s) /\ task'[s] = task[s]
               /\ sub'[task[s].user] = sub[task[s].user]
    <3>1. s # t /\ InFlight(s) /\ task'[s] = task[s]
      BY <1>1, <2>1 DEF InFlight
    <3>2. task[s].user \in Users
      BY <1>0, <3>1, BusyType DEF InFlight, Busy, BusyTasks
    <3> QED
      BY <1>1, <1>2, <2>1, <3>1, <3>2
  <2> QED
    BY <1>1, <2>1, ReadHoldsKept DEF Sums
<1>4. Unedited'
  <2>1. ASSUME NEW d \in Codes, promo[d].state = "absent" PROVE acts'[d] = acts[d]
    BY <1>0, <1>1, <2>1 DEF TypeOK
  <2> QED
    BY <1>1, <2>1 DEF Sums, Unedited, Busy
<1>6. ASSUME NEW u \in Users, NEW kind
      PROVE  /\ u = v /\ promo[c].rules.kind = kind =>
                   \E a : /\ a \notin Activations(u, kind)
                         /\ Activations(u, kind)' = Activations(u, kind) \cup {a}
             /\ ~(u = v /\ promo[c].rules.kind = kind) =>
                   Activations(u, kind)' = Activations(u, kind)
  BY <1>0, ActivationAdded
<1>5. ASSUME edits = 0, NEW u \in Subscribed \ mixed' PROVE Recorded(u)'
  <2> PICK ext, plan : ext = Activations(u, "extend") /\ plan = Activations(u, "plan")
    OBVIOUS
  <2>1. /\ u \in Users /\ IsFiniteSet(ext)
        /\ plan = {} => sub[u] = 1 + Cardinality(ext)
    BY <1>1, <1>5, PromocodesAssumption DEF Sums, Recorded
  <2>2. promo[c].rules = task[t].rules
    BY <1>0, <1>5 DEF Sums, Unedited
  <2>3. CASE u # v
    <3>1. Activations(u, "extend")' = ext /\ Activations(u, "plan")' = plan
      BY <1>6, <2>1, <2>3
    <3> QED
      BY <1>1, <2>1, <2>3, <3>1 DEF Recorded
  <2>4. CASE u = v /\ task[t].rules.kind = "discount"
    <3>1. Activations(u, "extend")' = ext /\ Activations(u, "plan")' = plan
      BY <1>6, <2>1, <2>2, <2>4
    <3> QED
      BY <1>2, <2>1, <2>4, <3>1 DEF Recorded
  <2>5. CASE u = v /\ task[t].rules.kind = "plan"
    <3>1. Activations(u, "extend")' = ext /\ Activations(u, "plan")' # {}
      BY <1>6, <2>1, <2>2, <2>5
    <3> QED
      BY <2>1, <3>1 DEF Recorded
  <2>6. CASE u = v /\ task[t].rules.kind = "extend"
    <3>1. PICK a : /\ a \notin ext /\ Activations(u, "extend")' = ext \cup {a}
                   /\ Activations(u, "plan")' = plan
      BY <1>6, <2>1, <2>2, <2>6
    <3>2. /\ Cardinality(ext) \in Nat /\ IsFiniteSet(ext \cup {a})
          /\ Cardinality(ext \cup {a}) = Cardinality(ext) + 1
      BY <2>1, <3>1, FS_AddElement, FS_CardinalityType
    <3>3. task[t].units = sub[u] /\ sub'[u] = task[t].units + 1
      BY <1>1, <1>2, <1>5, <2>6 DEF Sums, ReadHolds, NewUnits
    <3>4. plan = {} => sub'[u] = 1 + Cardinality(ext \cup {a})
      BY <2>1, <3>2, <3>3
    <3> QED
      BY <3>1, <3>2, <3>4 DEF Recorded
  <2> QED
    BY <1>0, <2>3, <2>4, <2>5, <2>6 DEF Rules
<1> QED
  BY <1>1, <1>3, <1>4, <1>5 DEF Sums

\* Every step keeps the sums.
LEMMA StepSums == IInv /\ Sums /\ [Next]_vars => Sums'
<1> SUFFICES ASSUME IInv, Sums, [Next]_vars PROVE Sums'
  OBVIOUS
<1>0. /\ TypeOK /\ task \in [Tasks -> {Idle} \cup BusyTasks] /\ edits \in Nat
      /\ \A t \in Tasks : Busy(t) =>
            /\ task[t] \in BusyTasks /\ task[t].code \in Codes
            /\ promo[task[t].code].state # "absent"
      /\ \A c \in Codes : promo[c].open => promo[c].state = "live"
  <2>1. TypeOK /\ RulesCovered
    BY DEF IInv
  <2>2. \A t \in Tasks : Busy(t) => task[t] \in BusyTasks
    BY <2>1, BusyType
  <2> QED
    BY <2>1, <2>2 DEF TypeOK, RulesCovered, BusyTasks
<1>1. ASSUME NEW c \in Codes, Admin(c) PROVE Sums'
  <2>1. UNCHANGED <<sub, task, mixed>>
    BY <1>1 DEF Admin, CreatePromocode, UpdatePromocode, DeletePromocode, rewards, past
  <2>2. CASE edits' = 0
    <3>1. PICK r \in Offers : CreatePromocode(c, r)
      BY <1>0, <1>1, <2>2 DEF Admin, UpdatePromocode, DeletePromocode
    <3>2. /\ UNCHANGED <<acts, edits>> /\ promo[c].state = "absent"
          /\ promo' = [promo EXCEPT ![c] = [state |-> "live", open |-> TRUE, rules |-> r]]
      BY <3>1 DEF CreatePromocode, SetRules, count
    <3>3. ASSUME NEW d \in Codes
          PROVE  \/ promo'[d] = promo[d]
                 \/ promo[d].state = "absent" /\ promo'[d].state # "absent"
      BY <1>0, <3>2 DEF TypeOK
    <3> QED
      BY <1>0, <2>1, <3>2, <3>3, QuietSums DEF Busy, InFlight
  <2>3. CASE edits' # 0
    BY <2>1, <2>3 DEF Sums, ReadHolds, Unedited, InFlight
  <2> QED
    BY <2>2, <2>3
<1>2. ASSUME NEW t \in Tasks, CommitActivation(t) PROVE Sums'
  BY <1>2, CommitSums
\* The other steps are about one request, and record nothing.
<1>3. ASSUME NEW t \in Tasks,
             UNCHANGED <<promo, acts, sub, mixed, edits>>,
             \A s \in Tasks \ {t} : task'[s] = task[s],
             \/ task'[t].pc = "idle"
             \/ /\ Busy(t) /\ task'[t].user = task[t].user /\ task'[t].code = task[t].code
                /\ task'[t].rules = task[t].rules
                /\ \/ task'[t].units = sub[task[t].user]
                   \/ task'[t].units = task[t].units /\ (InFlight(t)' => InFlight(t))
             \/ \E c \in Codes : /\ promo[c].open /\ task'[t].pc = "validate"
                                 /\ task'[t].code = c /\ task'[t].rules = promo[c].rules
      PROVE  Sums'
  <2>1. ASSUME NEW s \in Tasks
        PROVE  /\ \/ ~Busy(s)'
                  \/ /\ task'[s].user = task[s].user /\ task'[s].code = task[s].code
                     /\ task'[s].rules = task[s].rules /\ Busy(s)
                     /\ \/ InFlight(s)' => InFlight(s) /\ task'[s].units = task[s].units
                        \/ task'[s].units = sub[task[s].user]
                  \/ /\ task'[s].pc = "validate"
                     /\ task'[s].rules = promo[task'[s].code].rules
               /\ Busy(s)' => /\ task'[s].code \in Codes
                              /\ promo[task'[s].code].state # "absent"
    <3>1. CASE s = t
      BY <1>0, <1>3, <3>1 DEF Busy
    <3>2. CASE s # t
      BY <1>0, <1>3, <3>2 DEF Busy, InFlight
    <3> QED
      BY <3>1, <3>2
  <2> QED
    BY <1>3, <2>1, QuietSums
<1>4. ASSUME NEW t \in Tasks, NEW c \in Codes, NEW u \in Users, LookUp(t, c, u) PROVE Sums'
  <2>1. /\ task' = [task EXCEPT ![t] = [pc |-> "validate", code |-> c, user |-> u,
                       rules |-> promo[c].rules, units |-> 0, had |-> discount[u]]]
        /\ promo[c].open
    BY <1>4 DEF LookUp
  <2> QED
    BY <1>0, <1>3, <1>4, <2>1 DEF LookUp, table, rewards, past
<1>5. ASSUME NEW t \in Tasks, (Advance(t) /\ ~CommitActivation(t)) \/ Fail(t) PROVE Sums'
  <2>1. UNCHANGED <<promo, acts, sub, mixed, edits>>
    BY <1>5 DEF Advance, Validate, ReadSubscription, ApplyRewardRemote, PanelRefuses,
       LockPromocode, CheckActivation, CodeIsGone, Fail, table, rewards, past, count
  <2>2. Busy(t) /\ task[t] \in BusyTasks
    BY <1>0, <1>5 DEF Advance, Validate, ReadSubscription, ApplyRewardRemote, PanelRefuses,
       LockPromocode, CheckActivation, CodeIsGone, Fail, Busy
  <2>3. ASSUME NEW pc, Goto(t, pc), pc \in {"remote", "lock", "check", "commit"} => InFlight(t)
                                     \/ task[t].rules.kind = "discount"
        PROVE  Sums'
    <3>1. /\ \A s \in Tasks \ {t} : task'[s] = task[s]
          /\ task'[t].pc = pc /\ task'[t].user = task[t].user
          /\ task'[t].code = task[t].code /\ task'[t].rules = task[t].rules
          /\ task'[t].units = task[t].units
      BY <1>0, <2>2, <2>3 DEF Goto, BusyTasks
    <3>2. InFlight(t)' => InFlight(t)
      BY <2>3, <3>1 DEF InFlight
    <3> QED
      BY <1>3, <2>1, <2>2, <3>1, <3>2
  <2>4. ASSUME task' = [task EXCEPT ![t] = Idle] PROVE Sums'
    BY <1>0, <1>3, <2>1, <2>4 DEF Idle
  <2>5. CASE Validate(t)
    BY <2>3, <2>4, <2>5 DEF Validate
  <2>6. CASE ReadSubscription(t)
    <3>1. /\ \A s \in Tasks \ {t} : task'[s] = task[s]
          /\ task'[t].user = task[t].user /\ task'[t].code = task[t].code
          /\ task'[t].rules = task[t].rules /\ task'[t].units = sub[task[t].user]
      BY <1>0, <2>2, <2>6 DEF ReadSubscription, BusyTasks
    <3> QED
      BY <1>3, <2>1, <2>2, <3>1
  <2>7. CASE ApplyRewardRemote(t)
    BY <2>3, <2>7 DEF ApplyRewardRemote, InFlight
  <2>8. CASE LockPromocode(t)
    <3>1. task[t].pc = "lock" /\ (Goto(t, "check") \/ Goto(t, "commit"))
      BY <2>8 DEF LockPromocode
    <3> QED
      BY <2>3, <3>1 DEF InFlight
  <2>9. CASE CheckActivation(t)
    BY <2>3, <2>4, <2>9 DEF CheckActivation, InFlight, Abandon
  <2>10. CASE PanelRefuses(t) \/ CodeIsGone(t) \/ Fail(t)
    BY <2>4, <2>10 DEF PanelRefuses, CodeIsGone, Fail, Abandon
  <2> QED
    BY <1>5, <2>5, <2>6, <2>7, <2>8, <2>9, <2>10 DEF Advance
<1>6. ASSUME UNCHANGED <<promo, acts, sub, mixed, edits, task>> PROVE Sums'
  BY <1>0, <1>6, QuietSums DEF Busy, InFlight
<1>7. ASSUME NEW u \in Users, SpendDiscount(u) PROVE Sums'
  BY <1>6, <1>7 DEF SpendDiscount, table, past, count
<1>8. CASE UNCHANGED vars
  BY <1>6, <1>8 DEF vars, table, rewards, past, count
<1> QED
  BY <1>1, <1>2, <1>4, <1>5, <1>7, <1>8 DEF Next

-----------------------------------------------------------------------------
(* Promocodes implements PromocodeLedger *)

KindsKnown ==
    /\ \A c \in Codes : promo[c].state # "absent" => promo[c].rules.kind \in kinds[c]
    /\ \A t \in Tasks : Busy(t) => task[t].rules.kind \in kinds[task[t].code]

\* Who is to be extended was found to have a subscription, and keeps one.
HasOne ==
    \A t \in Tasks : Busy(t) /\ task[t].pc # "validate" /\ task[t].rules.kind = "extend" =>
        sub[task[t].user] # 0

\* A discount is the trace of an activation, also where a request remembers it.
DiscountsEarned ==
    \A c \in Codes : promo[c].state # "gone" =>
        /\ \A u \in Users : discount[u] = c => Contains(acts[c], u)
        /\ \A t \in Tasks : Busy(t) /\ task[t].had = c => Contains(acts[c], task[t].user)

Promised == KindsKnown /\ HasOne /\ DiscountsEarned

LEMMA InitPromised == Init => Promised
<1> SUFFICES ASSUME Init PROVE Promised
  OBVIOUS
<1>1. \A t \in Tasks : ~Busy(t)
  BY DEF Init, Idle, Busy
<1> QED
  BY <1>1, PromocodesAssumption DEF Init, Promised, KindsKnown, HasOne, DiscountsEarned

\* Steps that change no code, activation, subscription or discount.
LEMMA QuietPromised ==
    ASSUME Promised, UNCHANGED <<promo, acts, kinds, sub>>,
           \A u \in Users : discount'[u] \in {discount[u], NoCode},
           \A t \in Tasks :
               \/ ~Busy(t)'
               \/ /\ Busy(t) /\ task'[t].user = task[t].user /\ task'[t].code = task[t].code
                  /\ task'[t].rules = task[t].rules /\ task'[t].had = task[t].had
                  /\ \/ task'[t].pc = "validate" \/ task[t].pc # "validate" \/ Eligible(t)
               \/ /\ task'[t].pc = "validate" /\ task'[t].user \in Users
                  /\ task'[t].had = discount[task'[t].user]
                  /\ promo[task'[t].code].state # "absent" /\ task'[t].code \in Codes
                  /\ task'[t].rules = promo[task'[t].code].rules
    PROVE  Promised'
<1>1. KindsKnown'
  BY DEF Promised, KindsKnown
<1>2. HasOne'
  BY DEF Promised, HasOne, Eligible, Busy
<1>3. DiscountsEarned'
  BY PromocodesAssumption DEF Promised, DiscountsEarned
<1> QED
  BY <1>1, <1>2, <1>3 DEF Promised

\* Adding to a sequence loses nobody.
LEMMA AppendContains ==
    ASSUME NEW S, NEW s \in Seq(S), NEW e \in S
    PROVE  /\ Contains(Append(s, e), e)
           /\ \A f : Contains(s, f) => Contains(Append(s, e), f)
<1>1. /\ Len(Append(s, e)) = Len(s) + 1 /\ Len(s) \in Nat
      /\ Append(s, e)[Len(s) + 1] = e
      /\ \A i \in 1..Len(s) : Append(s, e)[i] = s[i]
  OBVIOUS
<1>2. /\ Len(s) + 1 \in 1..(Len(s) + 1)
      /\ \A i \in 1..Len(s) : i \in 1..(Len(s) + 1)
  BY <1>1
<1> QED
  BY <1>1, <1>2 DEF Contains

\* What a commit by the user v of the code c reads and writes, by parts.
Written(t, c, v) ==
    /\ c = task[t].code /\ v = task[t].user /\ task[t].pc = "commit"
    /\ promo[c].state = "live" /\ acts[c] \in Seq(Users)
    /\ acts' = [acts EXCEPT ![c] = Append(@, v)]
    /\ UNCHANGED <<promo, peak, reused, kinds>>
    /\ mixed' \in {mixed, mixed \cup {v}}
    /\ task'[t].pc = "idle" /\ \A s \in Tasks \ {t} : task'[s] = task[s]
    /\ \/ /\ task[t].rules.kind = "discount" /\ sub' = sub
          /\ \/ discount' = [discount EXCEPT ![v] = c]
             \/ discount' = discount /\ task[t].had = c
       \/ /\ task[t].rules.kind = "plan" /\ discount' = discount
          /\ sub' = [sub EXCEPT ![v] = 1]
       \/ /\ task[t].rules.kind = "extend" /\ discount' = discount
          /\ sub' = [sub EXCEPT ![v] = task[t].units + 1]

LEMMA CommitParts ==
    ASSUME TypeOK, NEW t \in Tasks, CommitActivation(t)
    PROVE  \E c \in Codes, v \in Users : Written(t, c, v)
<1>1. Busy(t) /\ task[t] \in BusyTasks
  BY BusyType DEF CommitActivation, Busy
<1> PICK c \in Codes, v \in Users : c = task[t].code /\ v = task[t].user
  BY <1>1 DEF BusyTasks
<1>2. task[t].rules.kind \in {"extend", "plan", "discount"}
  BY <1>1 DEF BusyTasks, Rules
<1>3. /\ task[t].pc = "commit" /\ promo[c].state = "live" /\ acts[c] \in Seq(Users)
      /\ acts' = [acts EXCEPT ![c] = Append(@, v)]
      /\ UNCHANGED <<promo, peak, reused, kinds>>
      /\ mixed' \in {mixed, mixed \cup {v}}
  BY DEF CommitActivation, TypeOK
<1>4. task'[t].pc = "idle" /\ \A s \in Tasks \ {t} : task'[s] = task[s]
  BY DEF CommitActivation, TypeOK, Idle
<1>5. \/ /\ task[t].rules.kind = "discount" /\ sub' = sub
         /\ \/ discount' = [discount EXCEPT ![v] = c]
            \/ discount' = discount /\ task[t].had = c
      \/ /\ task[t].rules.kind = "plan" /\ discount' = discount
         /\ sub' = [sub EXCEPT ![v] = 1]
      \/ /\ task[t].rules.kind = "extend" /\ discount' = discount
         /\ sub' = [sub EXCEPT ![v] = task[t].units + 1]
  BY <1>2 DEF CommitActivation, NewUnits
<1> QED
  BY <1>3, <1>4, <1>5 DEF Written

LEMMA CommitPromised ==
    ASSUME TypeOK, Promised, NEW t \in Tasks, CommitActivation(t)
    PROVE  Promised'
<1> USE DEF Written
<1> PICK c \in Codes, v \in Users : Written(t, c, v)
  BY CommitParts
<1>0. /\ task[t].units \in Nat
      /\ \A s \in Tasks : Busy(s) => task[s].user \in Users
  BY BusyType DEF Busy, BusyTasks
<1>1. \A s \in Tasks : Busy(s)' => s # t /\ Busy(s) /\ task'[s] = task[s]
  BY DEF Busy
<1>2. KindsKnown'
  BY <1>1 DEF Promised, KindsKnown
<1>3. \A u \in Users : sub[u] # 0 => sub'[u] # 0
  BY <1>0 DEF TypeOK
<1>4. HasOne'
  BY <1>0, <1>1, <1>3 DEF Promised, HasOne
<1>5. \A d \in Codes, u \in Users : Contains(acts[d], u) => Contains(acts'[d], u)
  BY AppendContains DEF TypeOK
<1>6. Contains(acts'[c], v)
  BY AppendContains DEF TypeOK
<1>7. ASSUME NEW d \in Codes, promo[d].state # "gone", NEW u \in Users, discount'[u] = d
      PROVE  Contains(acts'[d], u)
  <2>1. discount' = discount \/ discount' = [discount EXCEPT ![v] = c]
    OBVIOUS
  <2>2. DOMAIN discount = Users
    BY DEF TypeOK
  <2>3. discount[u] = d \/ (u = v /\ d = c)
    BY <1>7, <2>1, <2>2
  <2> QED
    BY <1>5, <1>6, <1>7, <2>3 DEF Promised, DiscountsEarned
<1>8. DiscountsEarned'
  BY <1>0, <1>1, <1>5, <1>7 DEF Promised, DiscountsEarned
<1> QED
  BY <1>2, <1>4, <1>8 DEF Promised

LEMMA AdminPromised ==
    ASSUME TypeOK, RulesCovered, Promised, NEW c \in Codes, Admin(c)
    PROVE  Promised'
<1>1. UNCHANGED <<sub, discount, task>>
  BY DEF Admin, CreatePromocode, UpdatePromocode, DeletePromocode, rewards
<1>2. ASSUME NEW r, NEW isOpen, SetRules(c, r, isOpen), acts' = acts, promo[c].state # "gone"
      PROVE  Promised'
  <2>1. /\ promo' = [promo EXCEPT ![c] = [state |-> "live", open |-> isOpen, rules |-> r]]
        /\ kinds' = [kinds EXCEPT ![c] = @ \cup {r.kind}]
    BY <1>2 DEF SetRules
  <2>2. \A d \in Codes : /\ kinds[d] \subseteq kinds'[d]
                         /\ d # c => promo'[d] = promo[d]
                         /\ promo'[c].state = "live" /\ promo'[c].rules.kind \in kinds'[c]
    BY <2>1 DEF TypeOK
  <2>3. KindsKnown'
    <3>1. ASSUME NEW t \in Tasks, Busy(t) PROVE task[t].code \in Codes
      BY <3>1, BusyType DEF BusyTasks
    <3> QED
      BY <1>1, <2>2, <3>1 DEF Promised, KindsKnown, Busy
  <2>4. HasOne'
    BY <1>1 DEF Promised, HasOne, Busy
  <2>5. DiscountsEarned'
    BY <1>1, <1>2, <2>2 DEF Promised, DiscountsEarned, Busy
  <2> QED
    BY <2>3, <2>4, <2>5 DEF Promised
<1>3. CASE DeletePromocode(c)
  <2>1. /\ promo' = [promo EXCEPT ![c].state = "gone", ![c].open = FALSE] /\ kinds' = kinds
        /\ acts' = [acts EXCEPT ![c] = <<>>] /\ promo[c].state = "live"
    BY <1>3 DEF DeletePromocode, past
  <2>2. \A d \in Codes : /\ promo'[d].rules = promo[d].rules
                         /\ d # c => promo'[d] = promo[d] /\ acts'[d] = acts[d]
                         /\ promo'[c].state = "gone"
    BY <2>1 DEF TypeOK
  <2>3. KindsKnown'
    BY <1>1, <2>1, <2>2 DEF Promised, KindsKnown, Busy
  <2>4. HasOne' /\ DiscountsEarned'
    BY <1>1, <2>2 DEF Promised, HasOne, DiscountsEarned, Busy
  <2> QED
    BY <2>3, <2>4 DEF Promised
<1> QED
  BY <1>2, <1>3 DEF Admin, CreatePromocode, UpdatePromocode

LEMMA StepPromised == IInv /\ Promised /\ [Next]_vars => Promised'
<1> SUFFICES ASSUME IInv, Promised, [Next]_vars PROVE Promised'
  OBVIOUS
<1>0. /\ TypeOK /\ RulesCovered /\ task \in [Tasks -> {Idle} \cup BusyTasks]
      /\ \A c \in Codes : promo[c].open => promo[c].state = "live"
  BY DEF IInv, TypeOK, RulesCovered
<1>1. ASSUME NEW c \in Codes, Admin(c) PROVE Promised'
  BY <1>0, <1>1, AdminPromised
<1>2. ASSUME NEW t \in Tasks, CommitActivation(t) PROVE Promised'
  BY <1>0, <1>2, CommitPromised
<1>3. ASSUME NEW t \in Tasks, NEW c \in Codes, NEW u \in Users, LookUp(t, c, u)
      PROVE  Promised'
  <2>1. /\ task' = [task EXCEPT ![t] = [pc |-> "validate", code |-> c, user |-> u,
                       rules |-> promo[c].rules, units |-> 0, had |-> discount[u]]]
        /\ promo[c].state = "live" /\ UNCHANGED <<promo, acts, kinds, sub, discount>>
    BY <1>0, <1>3 DEF LookUp, table, rewards, past
  <2>2. /\ \A s \in Tasks \ {t} : task'[s] = task[s]
        /\ task'[t].pc = "validate" /\ task'[t].user = u /\ task'[t].had = discount[u]
        /\ task'[t].code = c /\ task'[t].rules = promo[c].rules
    BY <1>0, <2>1
  <2> QED
    BY <2>1, <2>2, QuietPromised DEF Busy
<1>4. ASSUME NEW t \in Tasks, (Advance(t) /\ ~CommitActivation(t)) \/ Fail(t) PROVE Promised'
  <2>1. UNCHANGED <<promo, acts, kinds, sub, discount>>
    BY <1>4 DEF Advance, Validate, ReadSubscription, ApplyRewardRemote, PanelRefuses,
       LockPromocode, CheckActivation, CodeIsGone, Fail, table, rewards, past, count
  <2>2. Busy(t) /\ task[t] \in BusyTasks
    BY <1>0, <1>4, BusyType DEF Advance, Validate, ReadSubscription, ApplyRewardRemote,
       PanelRefuses, LockPromocode, CheckActivation, CodeIsGone, Fail, Busy
  <2>3. ASSUME NEW new, task' = [task EXCEPT ![t] = new],
               \/ new = Idle
               \/ /\ new.user = task[t].user /\ new.code = task[t].code
                  /\ new.rules = task[t].rules /\ new.had = task[t].had
                  /\ task[t].pc # "validate" \/ Eligible(t)
        PROVE  Promised'
    <3>1. task'[t] = new /\ \A s \in Tasks \ {t} : task'[s] = task[s]
      BY <1>0, <2>3
    <3>2. ASSUME NEW s \in Tasks
          PROVE  \/ ~Busy(s)'
                 \/ /\ Busy(s) /\ task'[s].user = task[s].user /\ task'[s].code = task[s].code
                    /\ task'[s].rules = task[s].rules /\ task'[s].had = task[s].had
                    /\ \/ task'[s].pc = "validate" \/ task[s].pc # "validate" \/ Eligible(s)
      <4>1. CASE s = t
        BY <2>2, <2>3, <3>1, <4>1 DEF Busy, Idle
      <4>2. CASE s # t
        BY <3>1, <4>2 DEF Busy
      <4> QED
        BY <4>1, <4>2
    <3> QED
      BY <2>1, <3>2, QuietPromised
  <2>4. ASSUME NEW pc, Goto(t, pc), task[t].pc # "validate" \/ Eligible(t) PROVE Promised'
    <3>1. task' = [task EXCEPT ![t] = [task[t] EXCEPT !.pc = pc]]
      BY <2>4 DEF Goto
    <3>2. /\ [task[t] EXCEPT !.pc = pc].user = task[t].user
          /\ [task[t] EXCEPT !.pc = pc].code = task[t].code
          /\ [task[t] EXCEPT !.pc = pc].rules = task[t].rules
          /\ [task[t] EXCEPT !.pc = pc].had = task[t].had
      BY <2>2 DEF BusyTasks
    <3> QED
      BY <2>3, <2>4, <3>1, <3>2
  <2>5. ASSUME task' = [task EXCEPT ![t] = Idle] PROVE Promised'
    BY <2>3, <2>5
  <2>6. CASE Validate(t)
    BY <2>4, <2>5, <2>6 DEF Validate
  <2>7. CASE ReadSubscription(t)
    <3>1. /\ task[t].pc = "read"
          /\ task' = [task EXCEPT ![t] =
                        [task[t] EXCEPT !.pc = "remote", !.units = sub[task[t].user]]]
      BY <2>7 DEF ReadSubscription
    <3> PICK new : new = [task[t] EXCEPT !.pc = "remote", !.units = sub[task[t].user]]
      OBVIOUS
    <3>2. /\ new.user = task[t].user /\ new.code = task[t].code
          /\ new.rules = task[t].rules /\ new.had = task[t].had
      BY <2>2 DEF BusyTasks
    <3> QED
      BY <2>3, <3>1, <3>2
  <2>8. CASE ApplyRewardRemote(t)
    BY <2>4, <2>8 DEF ApplyRewardRemote
  <2>9. CASE LockPromocode(t)
    BY <2>4, <2>9 DEF LockPromocode
  <2>10. CASE CheckActivation(t)
    BY <2>4, <2>5, <2>10 DEF CheckActivation, Abandon
  <2>11. CASE PanelRefuses(t) \/ CodeIsGone(t) \/ Fail(t)
    BY <2>5, <2>11 DEF PanelRefuses, CodeIsGone, Fail, Abandon
  <2> QED
    BY <1>4, <2>6, <2>7, <2>8, <2>9, <2>10, <2>11 DEF Advance
<1>5. ASSUME UNCHANGED <<promo, acts, kinds, sub, task>>,
             \A u \in Users : discount'[u] \in {discount[u], NoCode}
      PROVE  Promised'
  <2>1. \A t \in Tasks : /\ task'[t] = task[t] /\ (Busy(t)' => Busy(t))
                         /\ task'[t].pc = "validate" \/ task[t].pc # "validate"
    BY <1>5 DEF Busy
  <2> QED
    BY <1>5, <2>1, QuietPromised
<1>6. ASSUME NEW u \in Users, SpendDiscount(u) PROVE Promised'
  BY <1>0, <1>5, <1>6 DEF SpendDiscount, table, past, count, TypeOK
<1>7. CASE UNCHANGED vars
  BY <1>5, <1>7 DEF vars, table, rewards, past, count
<1> QED
  BY <1>1, <1>2, <1>3, <1>4, <1>6, <1>7 DEF Next

\* The initial states are the ledger's.
LEMMA InitLedger == Init => Ledger!LedgerInit
BY PromocodesAssumption DEF Init, Ledger!LedgerInit

\* A commit redeems the code: what was checked under the lock leaves room, and
\* what was read of the subscription still holds, or requests overlapped.
LEMMA CommitRedeems ==
    ASSUME IInv, ReadHolds, Promised, NEW t \in Tasks, CommitActivation(t)
    PROVE  \E c \in Codes, v \in Users : Ledger!Redeem(c, v)
<1>0. TypeOK /\ Checked
  BY DEF IInv
<1> USE DEF Written
<1> PICK c \in Codes, v \in Users : Written(t, c, v)
  BY <1>0, CommitParts
<1>1. /\ Busy(t) /\ task[t].units \in Nat /\ sub[v] \in Nat
      /\ v \in DOMAIN sub /\ task[t].rules.kind \in kinds[c]
  BY <1>0, BusyType DEF Busy, BusyTasks, Promised, KindsKnown, TypeOK
<1>2. Ledger!Room(c, v)
  BY <1>0 DEF Checked, RoomFor, Contains, Ledger!Room, Ledger!Contains
<1>3. Ledger!GiveDiscount(c, v) \/ Ledger!Subscribe(c, v)
  <2>1. CASE task[t].rules.kind = "discount"
    <3>1. sub' = sub /\ (discount' = [discount EXCEPT ![v] = c]
                          \/ (discount' = discount /\ task[t].had = c))
      BY <2>1
    <3>2. task[t].had = c => Contains(acts[c], v)
      BY <1>1 DEF Promised, DiscountsEarned
    <3> QED
      BY <1>1, <2>1, <3>1, <3>2 DEF Contains, Ledger!GiveDiscount, Ledger!Contains
  <2>2. CASE task[t].rules.kind = "plan"
    <3>1. sub' = [sub EXCEPT ![v] = 1] /\ discount' = discount
      BY <2>2
    <3> QED
      BY <1>1, <2>2, <3>1 DEF Ledger!Subscribe
  <2>3. CASE task[t].rules.kind = "extend"
    <3>1. sub' = [sub EXCEPT ![v] = task[t].units + 1] /\ discount' = discount
      BY <2>3
    <3>2. sub[v] # 0
      BY <1>1, <2>3 DEF Promised, HasOne
    <3>3. v \in mixed \/ task[t].units = sub[v]
      BY <2>3 DEF ReadHolds, InFlight
    <3>4. sub'[v] = task[t].units + 1 /\ sub'[v] # 0
      BY <1>1, <3>1
    <3> QED
      BY <1>1, <2>3, <3>1, <3>2, <3>3, <3>4 DEF Ledger!Subscribe
  <2> QED
    BY <2>1, <2>2, <2>3
<1> QED
  BY <1>2, <1>3 DEF Ledger!Redeem, Ledger!terms

\* Every step is a step of the ledger, or none.
LEMMA LedgerStep ==
    ASSUME IInv, ReadHolds, Promised, [Next]_vars
    PROVE  Ledger!LedgerNext \/ UNCHANGED <<Ledger!terms, acts, Ledger!assets>>
<1>0. TypeOK /\ IInv
  BY DEF IInv
<1>1. ASSUME NEW c \in Codes, NEW r \in Rules, NEW isOpen, SetRules(c, r, isOpen),
             promo[c].state # "gone", UNCHANGED <<acts, sub, discount, mixed>>
      PROVE  Ledger!Widen(c)
  <2>1. /\ promo' = [promo EXCEPT ![c] = [state |-> "live", open |-> isOpen, rules |-> r]]
        /\ peak' = [peak EXCEPT ![c] = Higher(@, r.limit)]
        /\ reused' \in {reused, reused \cup {c}}
        /\ kinds' = [kinds EXCEPT ![c] = @ \cup {r.kind}]
    BY <1>1 DEF SetRules
  <2>2. \A d \in Codes : promo'[d].state = "gone" <=> promo[d].state = "gone"
    BY <1>0, <1>1, <2>1 DEF TypeOK
  <2>3. c \in DOMAIN peak /\ c \in DOMAIN kinds /\ peak[c] \in Nat \cup {NoLimit}
        /\ r.limit \in Nat \cup {NoLimit}
    BY <1>0 DEF TypeOK, Rules
  <2>4. /\ peak' = [peak EXCEPT ![c] = peak'[c]]
        /\ peak'[c] # NoLimit => peak[c] # NoLimit /\ peak'[c] >= peak[c]
    BY <2>1, <2>3, PromocodesAssumption DEF Higher
  <2>5. kinds' = [kinds EXCEPT ![c] = kinds'[c]] /\ kinds[c] \subseteq kinds'[c]
    BY <2>1, <2>3
  <2> QED
    BY <1>1, <2>1, <2>2, <2>4, <2>5 DEF Ledger!Widen, Ledger!assets
<1>2. ASSUME NEW c \in Codes, DeletePromocode(c) PROVE Ledger!Withdraw(c)
  <2>1. /\ promo' = [promo EXCEPT ![c].state = "gone", ![c].open = FALSE]
        /\ acts' = [acts EXCEPT ![c] = <<>>] /\ promo[c].state = "live"
        /\ UNCHANGED <<peak, reused, kinds, sub, discount, mixed>>
    BY <1>2 DEF DeletePromocode, past, rewards
  <2>2. \A d \in Codes : promo'[d].state = "gone" <=> promo[d].state = "gone" \/ d = c
    BY <1>0, <2>1 DEF TypeOK
  <2> QED
    BY <2>1, <2>2 DEF Ledger!Withdraw, Ledger!assets
<1>3. ASSUME NEW c \in Codes, Admin(c) PROVE Ledger!LedgerNext
  <2>1. ASSUME NEW r \in Offers, NEW isOpen \in BOOLEAN,
               CreatePromocode(c, r) \/ UpdatePromocode(c, r, isOpen)
        PROVE  Ledger!Widen(c)
    BY <1>1, <2>1, Limited DEF CreatePromocode, UpdatePromocode, rewards
  <2> QED
    BY <1>2, <1>3, <2>1 DEF Admin, Ledger!LedgerNext
<1>4. ASSUME NEW t \in Tasks, CommitActivation(t) PROVE Ledger!LedgerNext
  BY <1>4, CommitRedeems DEF Ledger!LedgerNext
<1>5. ASSUME NEW u \in Users, SpendDiscount(u) PROVE Ledger!LedgerNext
  <2>1. Ledger!Spend(u)
    BY <1>5 DEF SpendDiscount, table, past, Ledger!Spend, Ledger!terms
  <2> QED
    BY <2>1 DEF Ledger!LedgerNext
<1>6. ASSUME UNCHANGED <<promo, peak, reused, kinds, acts, sub, discount, mixed>>
      PROVE  UNCHANGED <<Ledger!terms, acts, Ledger!assets>>
  BY <1>6 DEF Ledger!terms, Ledger!assets
<1>7. ASSUME NEW t \in Tasks,
             \/ Advance(t) /\ ~CommitActivation(t)
             \/ Fail(t)
             \/ \E c \in Codes, u \in Users : LookUp(t, c, u)
      PROVE  UNCHANGED <<promo, peak, reused, kinds, acts, sub, discount, mixed>>
  BY <1>7, Zenon DEF Advance, Validate, ReadSubscription, ApplyRewardRemote, PanelRefuses,
     LockPromocode, CheckActivation, CodeIsGone, Fail, LookUp, table, rewards, past
<1>8. CASE UNCHANGED vars
  BY <1>6, <1>8 DEF vars, table, rewards, past
<1> QED
  BY <1>3, <1>4, <1>5, <1>6, <1>7, <1>8 DEF Next

-----------------------------------------------------------------------------
(* The theorems *)

LEMMA InitIInv == Init => IInv
<1> SUFFICES ASSUME Init PROVE IInv
    OBVIOUS
<1>1. \A t \in Tasks : task[t].pc = "idle"
    BY DEF Init, Idle
<1>2. \A c \in Codes : acts[c] = <<>> /\ Len(acts[c]) = 0 /\ peak[c] = 0
    BY DEF Init
<1>3. RulesCovered
    BY <1>1 DEF Init, RulesCovered, Busy
<1>4. LockHeld
    BY <1>1, PromocodesAssumption DEF Init, LockHeld
<1>5. Checked
    BY <1>1 DEF Checked
<1>6. LimitHolds
    BY <1>2 DEF LimitHolds
<1>7. OncePerUser
    BY <1>2 DEF OncePerUser, IsInjective
<1>8. Settled /\ InTransit
    BY <1>1 DEF Init, Settled, InTransit, Rewarded
<1> QED
    BY TypeInit, <1>3, <1>4, <1>5, <1>6, <1>7, <1>8 DEF IInv

\* Every reachable state satisfies the inductive invariant.
THEOREM Invariance == Spec => []IInv
<1>1. IInv /\ [Next]_vars => IInv'
  BY TypeStep, RulesCoveredStep, LockHeldStep, LimitStep, PanelStep DEF IInv
<1> QED
  BY <1>1, InitIInv, PTL DEF Spec

\* Type correctness.
THEOREM TypeCorrect == Spec => []TypeOK
<1>1. IInv => TypeOK
  BY DEF IInv
<1> QED
  BY <1>1, Invariance, PTL

\* However many requests validate the same code at once, and however it is
\* edited meanwhile, it is never activated more often than its highest limit,
\* nor twice by one user if it was never reusable.
THEOREM WithinTermsHolds == Spec => []WithinTerms
<1>1. IInv => WithinTerms
  BY DEF IInv, WithinTerms
<1> QED
  BY <1>1, Invariance, PTL

\* With the user's requests ended, the panel and the database agree, except
\* after a request that failed once the panel had been told, or overlapped.
THEOREM PanelAgreesHolds == Spec => []PanelAgrees
<1>1. IInv => PanelAgrees
  BY DEF IInv, Settled, PanelAgrees, Rewarded, Busy
<1> QED
  BY <1>1, Invariance, PTL

\* Rows are added by commits only.
LEMMA OnlyCommitAdds ==
    ASSUME IInv, Next, NEW c \in Codes, Len(acts'[c]) > Len(acts[c])
    PROVE  \E t \in Tasks : CommitActivation(t) /\ task[t].code = c
<1>1. acts \in [Codes -> Seq(Users)] /\ Len(acts[c]) \in Nat
  BY DEF IInv, TypeOK
<1>2. acts' # acts
  BY <1>1
<1>3. ASSUME NEW d \in Codes, DeletePromocode(d) PROVE FALSE
  <2>1. acts'[c] = IF c = d THEN <<>> ELSE acts[c]
    BY <1>1, <1>3 DEF DeletePromocode
  <2>2. Len(<<>>) = 0
    OBVIOUS
  <2>3. CASE c = d
    BY <1>1, <2>1, <2>2, <2>3
  <2>4. CASE c # d
    BY <1>1, <2>1, <2>4
  <2> QED
    BY <2>3, <2>4
<1>4. PICK t \in Tasks : CommitActivation(t)
  BY <1>2, <1>3, Zenon
  DEF Next, Admin, Advance, CreatePromocode, UpdatePromocode, SpendDiscount,
      LookUp, Validate, ReadSubscription, ApplyRewardRemote, PanelRefuses,
      LockPromocode, CheckActivation, CodeIsGone, Fail, table
<1>5. acts' = [acts EXCEPT ![task[t].code] = Append(@, task[t].user)]
  BY <1>4 DEF CommitActivation
<1>6. task[t].code = c
  BY <1>1, <1>5
<1> QED
  BY <1>4, <1>6

\* A code that has ever had rules gets its activations one lock holder at a time.
THEOREM AddsUnderLockHolds == Spec => AddsUnderLock
<1>1. ASSUME IInv, [Next]_vars, NEW c \in Codes,
             Len(acts'[c]) > Len(acts[c]), peak[c] # NoLimit \/ c \notin reused
      PROVE  lock[c] # NoTask /\ task[lock[c]].pc = "commit"
  <2>1. Len(acts[c]) \in Nat
    BY <1>1 DEF IInv, TypeOK
  <2>2. Next
    BY <1>1, <2>1 DEF vars, table
  <2>3. PICK t \in Tasks : CommitActivation(t) /\ task[t].code = c
    BY <1>1, <2>2, OnlyCommitAdds
  <2>4. Busy(t) /\ task[t].pc = "commit" /\ promo[c].state = "live"
    BY <2>3 DEF CommitActivation, Busy
  <2>5. Covered(c, task[t].rules)
    BY <1>1, <2>3, <2>4 DEF IInv, RulesCovered
  <2>6. Locks(t)
    BY <1>1, <2>5, PromocodesAssumption DEF Covered, Locks
  <2>7. lock[c] = t
    BY <1>1, <2>3, <2>4, <2>6 DEF IInv, LockHeld
  <2> QED
    BY <2>4, <2>7, PromocodesAssumption
<1>2. IInv /\ [Next]_vars =>
        [\A c \in Codes :
          /\ Len(acts'[c]) > Len(acts[c])
          /\ peak[c] # NoLimit \/ c \notin reused
          => lock[c] # NoTask /\ task[lock[c]].pc = "commit"]_vars
  BY <1>1
<1> QED
  BY <1>2, Invariance, PTL DEF Spec, AddsUnderLock

\* Every reachable state satisfies what the sum of the extensions rests on.
THEOREM SumsInvariance == Spec => []Sums
<1>1. Sums /\ IInv /\ [Next]_vars => Sums'
  BY StepSums
<1> QED
  BY <1>1, InitSums, Invariance, PTL DEF Spec

\* Every extension recorded for a user is in the subscription row, once, for
\* any number of codes and requests that do not overlap.
THEOREM ExtensionsAddUpHolds == Spec => []ExtensionsAddUp
<1>1. Sums => ExtensionsAddUp
  BY DEF Sums, Recorded, ExtensionsAddUp
<1> QED
  BY <1>1, SumsInvariance, PTL

\* Every reachable state satisfies what a commit relies on.
THEOREM PromisedInvariance == Spec => []Promised
<1>1. Promised /\ IInv /\ [Next]_vars => Promised'
  BY StepPromised
<1> QED
  BY <1>1, InitPromised, Invariance, PTL DEF Spec

\* Whatever requests, edits and failures overlap, each activation consumes the
\* code and gives its reward in one step, and nothing else gives anything: for
\* any number of codes, users and requests, Promocodes implements the ledger.
THEOREM Implements == Spec => RedeemedAtOnce
<1>1. Sums => ReadHolds
  BY DEF Sums
<1>2. IInv /\ ReadHolds /\ Promised /\ [Next]_vars =>
        [Ledger!LedgerNext]_<<Ledger!terms, acts, Ledger!assets>>
  BY LedgerStep
<1> QED
  BY <1>1, <1>2, InitLedger, Invariance, SumsInvariance, PromisedInvariance, PTL
  DEF Spec, RedeemedAtOnce, Ledger!LedgerSpec
=============================================================================
