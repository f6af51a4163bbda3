----------------------------- MODULE Promocodes -----------------------------
(***************************************************************************)
(* Activation of promocodes. A request looks the code up, validates it,    *)
(* reads the user's current subscription, applies the reward on the panel  *)
(* and only then, in one database transaction, records the activation      *)
(* under a lock on the code's row and writes the reward. Administrators    *)
(* create, edit and delete codes meanwhile.                                *)
(***************************************************************************)
EXTENDS Integers, Sequences, SequencesExt

CONSTANTS
    Codes,        \* promocode rows
    Users,        \* the users who activate them
    Tasks,        \* slots for concurrent activation requests
    Subscribed,   \* users who start with a subscription
    NoLimit,      \* max_activations is None
    Offers,       \* the rules administrators give
    NoTask,       \* nobody holds the row lock
    NoCode,       \* no discount
    MaxRequests,  \* bound: activation requests
    MaxEdits,     \* bound: administrator edits and deletions
    MaxFaults     \* bound: requests killed or failed by the panel or database

\* max_activations, is_reusable, what the reward is (more of the subscription,
\* a plan, a discount) and for whom.
Rules == [limit : Nat \cup {NoLimit}, reusable : BOOLEAN,
          kind : {"extend", "plan", "discount"}, audience : {"ALL", "NEW", "EXISTING"}]

ASSUME PromocodesAssumption ==
    /\ Subscribed \subseteq Users
    /\ NoLimit \notin Nat
    /\ Offers \subseteq Rules
    /\ NoTask \notin Tasks
    /\ NoCode \notin Codes
    /\ MaxRequests \in Nat /\ MaxEdits \in Nat /\ MaxFaults \in Nat

VARIABLES
    promo,      \* the promocodes table
    acts,       \* promocode_activations: the users of a code's rows, in order
    lock,       \* the request that holds the row lock of a code
    sub,        \* units in the user's current subscription row, 0: no row
    panel,      \* units the panel gives the user, 0: no panel user
    discount,   \* the code that set users.purchase_discount
    task,       \* the activation requests in progress
    peak,       \* history: the highest limit a code has had
    reused,     \* history: codes that have ever been reusable
    kinds,      \* history: the rewards a code has had
    mixed,      \* history: users of whose overlapping requests one committed
    excess,     \* history: users rewarded on the panel by a request that failed
    requests, edits, faults   \* counters of the bounded events

table   == <<promo, acts, lock>>
rewards == <<sub, panel, discount>>
past    == <<peak, reused, kinds, mixed, excess>>
count   == <<requests, edits, faults>>
vars    == <<table, rewards, task, past, count>>

Idle == [pc |-> "idle"]
\* What a request holds in memory: the code as it was looked up, and the units
\* and the discount it read.
BusyTasks ==
    [pc : {"validate", "read", "remote", "lock", "check", "commit"},
     code : Codes, user : Users, rules : Rules, units : Nat,
     had : Codes \cup {NoCode}]

Busy(t)     == task[t].pc # "idle"
\* A code that is neither unlimited nor reusable by everyone is locked.
Locks(t)    == task[t].rules.limit # NoLimit \/ ~task[t].rules.reusable
\* The request has read the user's subscription to change it.
InFlight(t) == task[t].pc \in {"remote", "lock", "check", "commit"}
               /\ task[t].rules.kind # "discount"
\* The request has changed the panel.
Rewarded(t) == task[t].pc \in {"lock", "check", "commit"}
               /\ task[t].rules.kind # "discount"

TypeOK ==
    /\ promo    \in [Codes -> [state : {"absent", "live", "gone"},
                               open : BOOLEAN, rules : Rules]]
    /\ acts     \in [Codes -> Seq(Users)]
    /\ lock     \in [Codes -> Tasks \cup {NoTask}]
    /\ sub      \in [Users -> Nat]
    /\ panel    \in [Users -> Nat]
    /\ discount \in [Users -> Codes \cup {NoCode}]
    /\ task     \in [Tasks -> {Idle} \cup BusyTasks]
    /\ peak     \in [Codes -> Nat \cup {NoLimit}]
    /\ reused   \subseteq Codes
    /\ kinds    \in [Codes -> SUBSET {"extend", "plan", "discount"}]
    /\ mixed    \subseteq Users
    /\ excess   \subseteq Users
    /\ requests \in Nat /\ edits \in Nat /\ faults \in Nat

Init ==
    /\ promo = [c \in Codes |->
                  [state |-> "absent", open |-> FALSE,
                   rules |-> [limit |-> 0, reusable |-> FALSE,
                              kind |-> "extend", audience |-> "ALL"]]]
    /\ acts = [c \in Codes |-> <<>>]
    /\ lock = [c \in Codes |-> NoTask]
    /\ sub = [u \in Users |-> IF u \in Subscribed THEN 1 ELSE 0]
    /\ panel = sub
    /\ discount = [u \in Users |-> NoCode]
    /\ task = [t \in Tasks |-> Idle]
    /\ peak = [c \in Codes |-> 0]
    /\ kinds = [c \in Codes |-> {}]
    /\ reused = {} /\ mixed = {} /\ excess = {}
    /\ requests = 0 /\ edits = 0 /\ faults = 0

-----------------------------------------------------------------------------
(* Administration *)

Higher(a, b) ==
    IF a = NoLimit \/ b = NoLimit THEN NoLimit ELSE IF a >= b THEN a ELSE b

\* The row of a code gets new rules; the history follows.
SetRules(c, r, isOpen) ==
    /\ promo' = [promo EXCEPT ![c] = [state |-> "live", open |-> isOpen, rules |-> r]]
    /\ peak' = [peak EXCEPT ![c] = Higher(@, r.limit)]
    /\ reused' = IF r.reusable THEN reused \cup {c} ELSE reused
    /\ kinds' = [kinds EXCEPT ![c] = @ \cup {r.kind}]

CreatePromocode(c, r) ==
    /\ promo[c].state = "absent"
    /\ SetRules(c, r, TRUE)
    /\ UNCHANGED <<acts, lock, rewards, task, mixed, excess, count>>

\* An edit writes the whole row, so it waits for the row lock. A code whose
\* expiry passes is one that closes.
UpdatePromocode(c, r, isOpen) ==
    /\ edits < MaxEdits
    /\ promo[c].state = "live"
    /\ lock[c] = NoTask
    /\ SetRules(c, r, isOpen)
    /\ edits' = edits + 1
    /\ UNCHANGED <<acts, lock, rewards, task, mixed, excess, requests, faults>>

\* The activations are deleted with the code.
DeletePromocode(c) ==
    /\ edits < MaxEdits
    /\ promo[c].state = "live"
    /\ lock[c] = NoTask
    /\ promo' = [promo EXCEPT ![c].state = "gone", ![c].open = FALSE]
    /\ acts' = [acts EXCEPT ![c] = <<>>]
    /\ edits' = edits + 1
    /\ UNCHANGED <<lock, rewards, task, past, requests, faults>>

\* A purchase uses up the discount (PurchaseSubscription).
SpendDiscount(u) ==
    /\ discount[u] # NoCode
    /\ discount' = [discount EXCEPT ![u] = NoCode]
    /\ UNCHANGED <<table, sub, panel, task, past, count>>

-----------------------------------------------------------------------------
(* Activation *)

Goto(t, pc) == task' = [task EXCEPT ![t].pc = pc]

\* The user is loaded with the request, and the code is found and open.
LookUp(t, c, u) ==
    /\ ~Busy(t)
    /\ requests < MaxRequests
    /\ promo[c].open
    /\ requests' = requests + 1
    /\ task' = [task EXCEPT ![t] =
                  [pc |-> "validate", code |-> c, user |-> u,
                   rules |-> promo[c].rules, units |-> 0, had |-> discount[u]]]
    /\ UNCHANGED <<table, rewards, past, edits, faults>>

\* The limit and the one activation per user, by the rules looked up.
WithinRules(t) ==
    LET c == task[t].code  r == task[t].rules IN
    /\ r.limit # NoLimit => Len(acts[c]) < r.limit
    /\ ~r.reusable => ~Contains(acts[c], task[t].user)

\* Extending needs a subscription; a code may be for some users only.
Eligible(t) ==
    LET r == task[t].rules  has == sub[task[t].user] # 0 IN
    /\ r.kind = "extend" => has
    /\ r.audience = "NEW" => ~has
    /\ r.audience = "EXISTING" => has

\* A refusal here has changed nothing.
Validate(t) ==
    /\ task[t].pc = "validate"
    /\ IF WithinRules(t) /\ Eligible(t)
       THEN Goto(t, "read")
       ELSE task' = [task EXCEPT ![t] = Idle]
    /\ UNCHANGED <<table, rewards, past, count>>

\* A code that extends finds here the subscription Validate has seen. Were it
\* deleted in between, which no action here does, the code would give an empty
\* reward and be consumed all the same (activate.py 156, 180, 204).
ReadSubscription(t) ==
    /\ task[t].pc = "read"
    /\ task' = [task EXCEPT ![t].pc = "remote", ![t].units = sub[task[t].user]]
    /\ UNCHANGED <<table, rewards, past, count>>

NewUnits_Set(t) ==                          \* mutant: an extension is not added but set
    CASE task[t].rules.kind = "extend" -> 2
      [] task[t].rules.kind = "plan"   -> 1
      [] OTHER                         -> task[t].units

\* The units the reward leaves the user with: an extension adds to what was
\* READ, a plan starts anew.
NewUnits(t) ==
    CASE task[t].rules.kind = "extend" -> task[t].units + 1
      [] task[t].rules.kind = "plan"   -> 1
      [] OTHER                         -> task[t].units

\* Without a row the panel user is created, and there must be none yet.
PanelAccepts(t) == (panel[task[t].user] = 0) = (task[t].units = 0)

\* An update that has changed the panel and then raises, as one that cannot reset
\* the traffic does, is this step and then Fail.
ApplyRewardRemote(t) ==
    /\ task[t].pc = "remote"
    /\ IF task[t].rules.kind = "discount"
       THEN UNCHANGED panel
       ELSE /\ PanelAccepts(t)
            /\ panel' = [panel EXCEPT ![task[t].user] = NewUnits(t)]
    /\ Goto(t, "lock")
    /\ UNCHANGED <<table, sub, discount, past, count>>

\* The panel refuses (a user of that name exists): the request ends.
PanelRefuses(t) ==
    /\ task[t].pc = "remote"
    /\ task[t].rules.kind # "discount"
    /\ ~PanelAccepts(t)
    /\ task' = [task EXCEPT ![t] = Idle]
    /\ UNCHANGED <<table, rewards, past, count>>

\* SELECT ... FOR UPDATE waits for the lock; a code that is gone has no row
\* to lock, and one without rules is not locked.
LockPromocode(t) ==
    LET c == task[t].code IN
    /\ task[t].pc = "lock"
    /\ IF Locks(t) /\ promo[c].state = "live"
       THEN lock[c] = NoTask /\ lock' = [lock EXCEPT ![c] = t]
       ELSE UNCHANGED lock
    /\ Goto(t, IF Locks(t) THEN "check" ELSE "commit")
    /\ UNCHANGED <<promo, acts, rewards, past, count>>

\* Every end of the transaction, commit or rollback, releases the lock.
Release(t) == lock' = [c \in Codes |-> IF lock[c] = t THEN NoTask ELSE lock[c]]

\* The transaction is rolled back and the request fails; what the panel was
\* told stays.
Abandon_Held(t) ==                          \* mutant: the lock is kept
    /\ task' = [task EXCEPT ![t] = Idle]
    /\ excess' = IF Rewarded(t) THEN excess \cup {task[t].user} ELSE excess
    /\ UNCHANGED lock

Abandon(t) ==
    /\ task' = [task EXCEPT ![t] = Idle]
    /\ excess' = IF Rewarded(t) THEN excess \cup {task[t].user} ELSE excess
    /\ Release(t)

\* The rules are checked again, now under the lock.
CheckActivation_Skipped(t) ==               \* mutant: validated once already
    /\ task[t].pc = "check"
    /\ Goto(t, "commit") /\ UNCHANGED <<lock, excess>>
    /\ UNCHANGED <<promo, acts, rewards, peak, reused, kinds, mixed, count>>

CheckActivation(t) ==
    /\ task[t].pc = "check"
    /\ IF WithinRules(t)
       THEN Goto(t, "commit") /\ UNCHANGED <<lock, excess>>
       ELSE Abandon(t)
    /\ UNCHANGED <<promo, acts, rewards, peak, reused, kinds, mixed, count>>

CommitActivation_PanelOnly(t) ==            \* mutant: an existing row is left
    LET c == task[t].code  u == task[t].user IN
    /\ task[t].pc = "commit"
    /\ promo[c].state = "live"
    /\ lock[c] \in {NoTask, t}
    /\ acts' = [acts EXCEPT ![c] = Append(@, u)]
    /\ sub' = IF task[t].rules.kind = "discount" \/ task[t].units # 0 THEN sub
              ELSE [sub EXCEPT ![u] = NewUnits(t)]
    /\ task' = [task EXCEPT ![t] = Idle]
    /\ Release(t)
    /\ UNCHANGED <<promo, panel, discount, past, count>>

\* The activation and the reward are written and committed together; the
\* foreign key of the new row waits for the lock too. A discount equal to the
\* one the request had loaded is not written.
CommitActivation(t) ==
    LET c == task[t].code  u == task[t].user IN
    /\ task[t].pc = "commit"
    /\ promo[c].state = "live"
    /\ lock[c] \in {NoTask, t}
    /\ acts' = [acts EXCEPT ![c] = Append(@, u)]
    /\ sub' = IF task[t].rules.kind = "discount" THEN sub
              ELSE [sub EXCEPT ![u] = NewUnits(t)]
    /\ discount' = IF task[t].rules.kind = "discount" /\ task[t].had # c
                   THEN [discount EXCEPT ![u] = c] ELSE discount
    /\ mixed' = IF /\ task[t].rules.kind # "discount"
                   /\ \E o \in Tasks \ {t} : InFlight(o) /\ task[o].user = u
                THEN mixed \cup {u} ELSE mixed
    /\ task' = [task EXCEPT ![t] = Idle]
    /\ Release(t)
    /\ UNCHANGED <<promo, panel, peak, reused, kinds, excess, count>>

\* The code was deleted meanwhile: the foreign key refuses the row.
CodeIsGone(t) ==
    /\ task[t].pc = "commit"
    /\ promo[task[t].code].state = "gone"
    /\ Abandon(t)
    /\ UNCHANGED <<promo, acts, rewards, peak, reused, kinds, mixed, count>>

\* The panel or the database fails, or the process dies, at any await.
Fail(t) ==
    /\ Busy(t)
    /\ faults < MaxFaults
    /\ faults' = faults + 1
    /\ Abandon(t)
    /\ UNCHANGED <<promo, acts, rewards, peak, reused, kinds, mixed, requests, edits>>

-----------------------------------------------------------------------------
Admin(c) ==
    \/ \E r \in Offers :
          \/ CreatePromocode(c, r)
          \/ \E isOpen \in BOOLEAN : UpdatePromocode(c, r, isOpen)
    \/ DeletePromocode(c)

Advance(t) ==
    \/ Validate(t) \/ ReadSubscription(t)
    \/ ApplyRewardRemote(t) \/ PanelRefuses(t)
    \/ LockPromocode(t) \/ CheckActivation(t)
    \/ CommitActivation(t) \/ CodeIsGone(t)

Next ==
    \/ \E c \in Codes : Admin(c)
    \/ \E u \in Users : SpendDiscount(u)
    \/ \E t \in Tasks, c \in Codes, u \in Users : LookUp(t, c, u)
    \/ \E t \in Tasks : Advance(t) \/ Fail(t)

Spec == Init /\ [][Next]_vars

\* The event loop resumes every request, and PostgreSQL serves the waiters of
\* a row lock in turn.
FairSpec == Spec /\ \A t \in Tasks : SF_vars(Advance(t))

-----------------------------------------------------------------------------
(* Properties *)

\* A code is never activated more often than its highest limit allowed,
\* whatever requests and edits overlap: the count is taken again under the row
\* lock (dao/promocode.py 237-254).
LimitHolds ==
    \A c \in Codes : peak[c] # NoLimit => Len(acts[c]) <= peak[c]

\* A user activates a code that was never reusable once at most, though two
\* of the user's requests may both have been validated (dao/promocode.py
\* 256-267; the database has no constraint for it since migration 0036).
OncePerUser == \A c \in Codes \ reused : IsInjective(acts[c])

\* Both: overlapping requests, edited codes and failures leave a code within the
\* terms it has been offered on.
WithinTerms == LimitHolds /\ OncePerUser

\* Only the request that holds a code's lock adds to its activations while it
\* is held, as long as the code has not been open to all without limit.
AddsUnderLock ==
    [][\A c \in Codes :
          /\ Len(acts'[c]) > Len(acts[c])
          /\ peak[c] # NoLimit \/ c \notin reused
          => lock[c] # NoTask /\ task[lock[c]].pc = "commit"]_vars

\* With no request in progress for a user, the panel and the database agree on
\* what the user has, unless a request failed after it had rewarded the user on
\* the panel, or two of the user's requests overlapped (activate.py 70-88).
PanelAgrees ==
    \A u \in Users \ (excess \cup mixed) :
        (\A t \in Tasks : Busy(t) => task[t].user # u) => panel[u] = sub[u]

\* The rows of a user's activations of codes of a kind.
Activations(u, kind) ==
    UNION {{c} \X {i \in 1..Len(acts[c]) : acts[c][i] = u} :
              c \in {d \in Codes : promo[d].rules.kind = kind}}

\* The extensions recorded for a user are all in the subscription row: none
\* lost, none given without its activation, overlapping requests aside
\* (activate.py 74-88, 149-268). A plan restarts the count, an edited code may
\* have given something else, and a deleted one takes its rows along; the sum is
\* stated for the other users.
ExtensionsAddUp ==
    edits = 0 =>
        \A u \in Subscribed \ mixed :
            Activations(u, "plan") = {} => sub[u] = 1 + Cardinality(Activations(u, "extend"))

\* Promocodes implements PromocodeLedger.
Ledger == INSTANCE PromocodeLedger WITH
    withdrawn <- {c \in Codes : promo[c].state = "gone"},
    limit <- peak, reusable <- reused, redeemed <- acts, have <- sub

\* A request looks up, checks and rewards in eight steps between which others
\* run; as far as the database goes it is one step that consumes the code and
\* gives the reward, or none (activate.py 61-88). What a user has there
\* changes in no other way.
RedeemedAtOnce == Ledger!LedgerSpec

\* Every request ends, and with it any row lock it waited for or held.
RequestsEnd == \A t \in Tasks : Busy(t) ~> ~Busy(t)
=============================================================================
