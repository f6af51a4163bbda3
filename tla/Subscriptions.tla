---------------------------- MODULE Subscriptions ----------------------------
(***************************************************************************)
(* One user's subscription, kept twice: as rows of the bot's database, one *)
(* of them current, and as the user of the VPN panel. Operations of the    *)
(* bot call the panel and then commit; the panel reports every change of   *)
(* its user, whoever made it, with a webhook that carries the user as it   *)
(* was then, and the bot applies it to the current row.                    *)
(*                                                                         *)
(* The data of a subscription is its end (a number of periods) and one     *)
(* limit, which stands for traffic, devices, squads and tag: all of them   *)
(* are edited, sent and synchronized in the same way.                      *)
(***************************************************************************)
EXTENDS Integers, Sequences

CONSTANTS
    Operators,   \* tasks that carry out operations of the bot
    Webhook,     \* the task that handles the panel's webhooks
    MaxOps,      \* bound: operations
    MaxEvents,   \* bound: changes made on the panel itself, failing commits,
                 \* failing webhook handlers and webhooks that overtake others
    MaxTime      \* bound: periods that pass

ASSUME SubscriptionsAssumption ==
    /\ Webhook \notin Operators
    /\ MaxOps \in Nat /\ MaxEvents \in Nat /\ MaxTime \in Nat

VARIABLES
    rows,      \* the user's subscriptions, in the order they were inserted
    current,   \* users.current_subscription_id, 0: none
    trial_available,
    panel,     \* the user on the panel
    created,   \* panel users created so far: the last id given out
    hooks,     \* webhooks not handled yet, oldest first
    task,      \* what every task is doing
    locks,     \* the operations whose transactions have updated their row
    now,       \* periods that have passed
    overruled, \* history: an administrator has disabled a user who had left
    blurred,   \* history: the kinds of overlap and failure that have happened
    ops, events   \* counters of the bounded events

bot   == <<rows, current, trial_available>>
world == <<panel, created, hooks>>
past  == <<overruled, blurred>>
count == <<ops, events>>
vars  == <<bot, world, task, locks, now, past, count>>

Tasks  == Operators \cup {Webhook}
Status == {"ACTIVE", "DISABLED", "EXPIRED"}

\* What the panel knows; its id is 0 when there is no such user.
PanelRecords == [id : Nat, status : Status, until : Nat, limit : {0, 1}]
RowRecords   == [id : Nat, status : Status \cup {"DELETED"}, until : Nat,
                 limit : {0, 1}, trial : BOOLEAN, left : BOOLEAN]

NoUser == [id |-> 0, status |-> "DISABLED", until |-> 0, limit |-> 0]
NoRow  == [id |-> 0, status |-> "DISABLED", until |-> 0, limit |-> 0,
           trial |-> FALSE, left |-> FALSE]

\* The row of a panel user that was created or imported.
NewRow(snap, trial) ==
    [id |-> snap.id, status |-> snap.status, until |-> snap.until,
     limit |-> snap.limit, trial |-> trial, left |-> FALSE]

Edit       == {"extend", "limit"}
Operations == Edit \cup {"toggle", "delete", "renew", "set", "trial", "leave",
                         "join", "pull", "push"}
Hooks      == [kind : {"imported", "modified", "status", "deleted"},
               user : PanelRecords]

\* A task holds the row it read (its number and its value), the value it wants
\* the row to have, and the panel user it was answered or told.
TaskRecords ==
    [pc : {"idle", "update", "panel", "commit", "sync", "apply", "remove"},
     op : Operations \cup {"hook"}, row : Nat, base : RowRecords,
     dto : RowRecords, snap : PanelRecords]

Idle == [pc |-> "idle", op |-> "hook", row |-> 0, base |-> NoRow, dto |-> NoRow,
         snap |-> NoUser]

TypeOK ==
    /\ rows \in Seq(RowRecords)
    /\ current \in 0..Len(rows)
    /\ trial_available \in BOOLEAN
    /\ panel \in PanelRecords /\ created \in Nat
    /\ hooks \in Seq(Hooks)
    /\ task \in [Tasks -> TaskRecords]
    /\ \A t \in Tasks : task[t].row \in 0..Len(rows)
    /\ locks \subseteq Operators
    /\ now \in Nat
    /\ overruled \in BOOLEAN
    /\ blurred \subseteq {"vanished", "behind", "stale", "swapped", "late", "shared",
                          "orphan", "lost"}
    /\ ops \in Nat /\ events \in Nat

\* A newcomer, or a user whose trial or plan has just been set on both sides.
Init ==
    /\ \/ /\ rows = <<>> /\ current = 0 /\ trial_available = TRUE
          /\ panel = NoUser
       \/ /\ panel = [id |-> 1, status |-> "ACTIVE", until |-> 1, limit |-> 0]
          /\ \E trial \in BOOLEAN : rows = <<NewRow(panel, trial)>>
          /\ current = 1 /\ trial_available = FALSE
    /\ created = panel.id /\ hooks = <<>>
    /\ task = [t \in Tasks |-> Idle]
    /\ locks = {} /\ now = 0
    /\ overruled = FALSE /\ blurred = {}
    /\ ops = 0 /\ events = 0

Event == events < MaxEvents /\ events' = events + 1
Blur(reason, if) == blurred' = IF if THEN blurred \cup {reason} ELSE blurred

At(t, pc)  == task[t].pc = pc
Go(t, pc)  == task' = [task EXCEPT ![t].pc = pc]
Finish(t)  == task' = [task EXCEPT ![t] = Idle]

\* Another transaction has updated row i and not ended.
Locked(t, i) == \E o \in locks \ {t} : task[o].row = i

CurrentRow == IF current = 0 THEN NoRow ELSE rows[current]

\* SubscriptionDto.current_status; the panel shows a user of the past likewise.
Shown(s) == IF s.until <= now THEN "EXPIRED" ELSE s.status

-----------------------------------------------------------------------------
(* The panel. It reports every change. *)

PanelBecomes(user, kind) ==
    /\ panel' = user
    /\ hooks' = Append(hooks, [kind |-> kind,
                               user |-> IF kind = "deleted" THEN panel ELSE user])

\* A new user is ACTIVE, and there is one user of a name. The bot ignores the
\* CREATED webhook unless the user is tagged as imported.
PanelCreates(id, until, limit, imported) ==
    LET user == [id |-> id, status |-> "ACTIVE", until |-> until, limit |-> limit]
    IN  /\ panel.id = 0
        /\ IF imported THEN PanelBecomes(user, "imported")
           ELSE panel' = user /\ UNCHANGED hooks

\* An update sends every field of the row; the panel refuses an end in the past.
PanelUpdates(id, s) ==
    /\ panel.id = id /\ id # 0
    /\ s.until > now
    /\ PanelBecomes([id |-> id, until |-> s.until, limit |-> s.limit,
                     status |-> IF s.status = "DISABLED" THEN "DISABLED" ELSE "ACTIVE"],
                    "modified")

PanelSwitches(id, status) ==
    /\ panel.id = id /\ id # 0
    /\ PanelBecomes([panel EXCEPT !.status = status], "status")

PanelDeletes == panel.id # 0 /\ PanelBecomes(NoUser, "deleted")

Working  == {t \in Operators : task[t].pc # "idle"}
Vanishes == panel.id # 0 /\ panel'.id = 0

\* Whoever works on the panel itself changes, deletes or imports its user.
EditPanel ==
    /\ Event
    /\ \/ /\ PanelSwitches(panel.id, "DISABLED")
          /\ overruled' = (overruled \/ CurrentRow.left)
          /\ UNCHANGED created
       \/ /\ PanelUpdates(panel.id, [panel EXCEPT !.until = now + 1, !.limit = 1 - @,
                                                  !.status = "ACTIVE"])
          /\ UNCHANGED <<created, overruled>>
       \/ PanelDeletes /\ UNCHANGED <<created, overruled>>
       \/ /\ PanelCreates(created + 1, now + 1, 1, TRUE)
          /\ created' = created + 1
          /\ UNCHANGED overruled
    /\ Blur("vanished", Vanishes /\ Working # {})
    /\ UNCHANGED <<bot, task, locks, now, ops>>

PanelExpires ==
    /\ panel.id # 0 /\ panel.status = "ACTIVE" /\ panel.until <= now
    /\ PanelBecomes([panel EXCEPT !.status = "EXPIRED"], "status")
    /\ UNCHANGED <<bot, created, task, locks, now, past, count>>

Tick ==
    /\ now < MaxTime
    /\ now' = now + 1
    /\ UNCHANGED <<bot, world, task, locks, past, count>>

-----------------------------------------------------------------------------
(* Operations: read the current row, call the panel, commit *)

\* When an operation goes past its first checks.
Applies(op) ==
    LET r == CurrentRow
    IN  \/ op \in {"set", "pull", "push"}
        \/ op = "trial" /\ trial_available
        \/ op \in {"toggle", "delete", "limit"} /\ current # 0
        \/ op = "extend" /\ current # 0 /\ r.until + 1 > now
        \/ op = "renew"  /\ current # 0 /\ ~r.trial
        \/ op = "leave"  /\ current # 0 /\ r.trial /\ Shown(r) = "ACTIVE"
        \/ op = "join"   /\ current # 0 /\ r.trial /\ r.left
                         /\ r.status = "DISABLED" /\ r.until > now

\* The row an operation wants.
Intended(op, r) ==
    CASE op = "extend" -> [r EXCEPT !.until = @ + 1]
      [] op = "limit"  -> [r EXCEPT !.limit = 1 - @]
      [] op = "renew"  -> [r EXCEPT !.until = IF @ > now THEN @ + 1 ELSE now + 1,
                                    !.limit = 0]
      [] op = "toggle" -> [r EXCEPT !.status = IF @ = "ACTIVE" THEN "DISABLED" ELSE "ACTIVE"]
      [] op = "leave"  -> [r EXCEPT !.status = "DISABLED", !.left = TRUE]
      [] op = "join"   -> [r EXCEPT !.status = "ACTIVE", !.left = FALSE]
      [] op = "delete" -> [r EXCEPT !.status = "DELETED"]
      [] OTHER         -> r

StartOperation(t, op) ==
    /\ At(t, "idle") /\ Applies(op)
    /\ ops < MaxOps
    /\ ops' = ops + 1
    /\ task' = [task EXCEPT ![t] =
                  [pc |-> IF op \in Edit THEN "update" ELSE "panel", op |-> op,
                   row |-> current, base |-> CurrentRow,
                   dto |-> Intended(op, CurrentRow), snap |-> NoUser]]
    /\ UNCHANGED <<bot, world, locks, now, past, events>>

\* The commands that edit a row update it before they call the panel, and so
\* hold its lock while they do.
UpdateRow(t) ==
    /\ At(t, "update")
    /\ ~Locked(t, task[t].row)
    /\ locks' = locks \cup {t}
    /\ Go(t, "panel")
    /\ UNCHANGED <<bot, world, now, past, count>>

\* The task goes on. It knows the panel user as its call left it.
Answered(t, pc) == task' = [task EXCEPT ![t].pc = pc, ![t].snap = panel']

EditsOnPanel(t) ==
    /\ task[t].op \in Edit \cup {"renew"}
    /\ PanelUpdates(task[t].base.id, task[t].dto)
    /\ Answered(t, "commit")
    /\ UNCHANGED <<created, overruled>>

SwitchesOnPanel(t) ==
    /\ task[t].op \in {"toggle", "leave", "join"}
    /\ PanelSwitches(task[t].base.id, task[t].dto.status)
    /\ overruled' = (task[t].op = "toggle" /\ task[t].dto.status = "DISABLED"
                       /\ task[t].base.left)
    /\ Answered(t, "commit")
    /\ UNCHANGED created

\* A user the panel does not know counts as deleted.
DeletesOnPanel(t) ==
    /\ task[t].op = "delete"
    /\ IF panel.id = task[t].base.id THEN PanelDeletes ELSE UNCHANGED <<panel, hooks>>
    /\ Answered(t, "commit")
    /\ UNCHANGED <<created, overruled>>

\* A plan is set on the panel user of the current row, else, like a trial, on a
\* new one.
SetsOnPanel(t) ==
    /\ \/ /\ task[t].op = "set" /\ task[t].row # 0
          /\ PanelUpdates(task[t].base.id,
                          [NoUser EXCEPT !.until = now + 1, !.status = "ACTIVE"])
          /\ UNCHANGED created
       \/ /\ task[t].op = "trial" \/ (task[t].op = "set" /\ task[t].row = 0)
          /\ PanelCreates(created + 1, now + 1, 0, FALSE)
          /\ created' = created + 1
    /\ Answered(t, "commit")
    /\ UNCHANGED overruled

\* SyncSubscriptionFromRemnawave looks at the panel user of the current row, or
\* at one with the user's Telegram id.
Pulls(t) ==
    /\ task[t].op = "pull"
    /\ LET found == panel.id # 0 /\ (task[t].row = 0 \/ panel.id = task[t].base.id)
       IN  IF found
           THEN task' = [task EXCEPT ![t].pc = "sync", ![t].snap = panel]
           ELSE IF task[t].row = 0 THEN Finish(t)
           ELSE task' = [task EXCEPT ![t].pc = "commit", ![t].dto.status = "DELETED",
                                     ![t].snap = panel]
    /\ UNCHANGED <<world, overruled>>

\* SyncSubscriptionFromRemnashop writes the row to the panel, creates its user
\* again, or deletes the user of someone who has no subscription.
Pushes(t) ==
    /\ task[t].op = "push"
    /\ \/ /\ task[t].row = 0
          /\ IF panel.id # 0 THEN PanelDeletes ELSE UNCHANGED <<panel, hooks>>
          /\ Finish(t)
       \/ /\ task[t].row # 0 /\ panel.id = task[t].base.id
          /\ PanelUpdates(task[t].base.id, task[t].base)
          /\ Finish(t)
       \/ /\ task[t].row # 0 /\ panel.id # task[t].base.id
          /\ task[t].base.until > now
          /\ \E imported \in BOOLEAN :
                PanelCreates(task[t].base.id, task[t].base.until, task[t].base.limit, imported)
          /\ Answered(t, "sync")
    /\ UNCHANGED <<created, overruled>>

CallPanel(t) ==
    /\ At(t, "panel")
    /\ \/ EditsOnPanel(t) \/ SwitchesOnPanel(t) \/ DeletesOnPanel(t)
       \/ SetsOnPanel(t) \/ Pulls(t) \/ Pushes(t)
    /\ Blur("vanished", Vanishes /\ Working # {t})
    /\ UNCHANGED <<bot, locks, now, count>>

\* The panel does not know the user, has one of that name, refuses the end, or
\* is not reached: the error ends the operation and rolls its update back.
PanelRefuses(t) ==
    /\ At(t, "panel")
    /\ locks' = locks \ {t}
    /\ Finish(t)
    /\ UNCHANGED <<bot, world, now, past, count>>

\* An UPDATE writes the fields that differ from what was read, and no other.
Written(t) ==
    [f \in DOMAIN NoRow |-> IF task[t].dto[f] # task[t].base[f]
                            THEN task[t].dto[f] ELSE rows[task[t].row][f]]

UpdatesRow(t) == rows' = [rows EXCEPT ![task[t].row] = Written(t)]

\* A new row becomes the current one.
Inserts(row, before) ==
    /\ rows' = Append(before, row)
    /\ current' = Len(before) + 1

RetiresRow_Kept(t) == rows                  \* mutant: the old row stays as it was

\* The row a plan was set over is marked DELETED.
RetiresRow(t) ==
    IF task[t].row = 0 THEN rows ELSE [rows EXCEPT ![task[t].row].status = "DELETED"]

CommitsUpdate(t) ==
    /\ task[t].op \in Edit \cup {"renew", "toggle", "leave", "join"}
    /\ UpdatesRow(t)
    /\ UNCHANGED <<current, trial_available>>

\* DeleteSubscription, and a pull that has not found the panel user.
CommitsDeletion(t) ==
    /\ task[t].op \in {"delete", "pull"}
    /\ UpdatesRow(t)
    /\ current' = 0
    /\ UNCHANGED trial_available

CommitsPlan(t) ==
    /\ task[t].op = "set"
    /\ Inserts(NewRow(task[t].snap, FALSE), RetiresRow(t))
    /\ trial_available' = FALSE

CommitsTrial_StillAvailable(t) ==           \* mutant: the trial stays available
    /\ task[t].op = "trial"
    /\ Inserts(NewRow(task[t].snap, TRUE), rows)
    /\ UNCHANGED trial_available

CommitsTrial(t) ==
    /\ task[t].op = "trial"
    /\ Inserts(NewRow(task[t].snap, TRUE), rows)
    /\ trial_available' = FALSE

\* The row an operation takes for the current one when it commits.
Expected(t) == IF task[t].op = "trial" THEN 0 ELSE task[t].row

\* What has moved under a commit: the pointer to the current row, or the panel
\* user that the row is about.
Moved(t, expected) ==
    (IF current # expected THEN {"stale"} ELSE {})
      \cup (IF current = task[t].row /\ CurrentRow.id # task[t].base.id
            THEN {"swapped"} ELSE {})

CommitOperation(t) ==
    /\ At(t, "commit")
    /\ task[t].op # "trial" => ~Locked(t, task[t].row)
    /\ locks' = locks \ {t}
    /\ CommitsUpdate(t) \/ CommitsDeletion(t) \/ CommitsPlan(t) \/ CommitsTrial(t)
    /\ blurred' = blurred \cup Moved(t, Expected(t))
                          \cup (IF panel # task[t].snap THEN {"behind"} ELSE {})
    /\ Finish(t)
    /\ UNCHANGED <<world, now, overruled, count>>

\* The panel has done its part, and the database has not. Nothing reports a
\* user that was created.
CommitFails(t) ==
    /\ At(t, "commit")
    /\ Event
    /\ locks' = locks \ {t}
    /\ Blur("orphan", task[t].op = "trial" \/ (task[t].op = "set" /\ task[t].row = 0))
    /\ Finish(t)
    /\ UNCHANGED <<bot, world, now, overruled, ops>>

-----------------------------------------------------------------------------
(* Webhooks: RemnaWebhookService.handle_user_event *)

\* The panel user is that of the current row.
IsCurrent(user) == current # 0 /\ rows[current].id = user.id

\* Webhooks may overtake one another.
HandleHook(i) ==
    LET hook == hooks[i]
        pc   == CASE hook.kind \in {"imported", "modified"} -> "sync"
                  [] hook.kind = "status"  -> IF IsCurrent(hook.user) THEN "sync" ELSE "idle"
                  [] hook.kind = "deleted" -> IF IsCurrent(hook.user) THEN "remove" ELSE "idle"
    IN  /\ At(Webhook, "idle")
        /\ hooks' = SubSeq(hooks, 1, i - 1) \o SubSeq(hooks, i + 1, Len(hooks))
        /\ task' = [task EXCEPT ![Webhook] =
                      IF pc = "idle" THEN Idle ELSE [Idle EXCEPT !.pc = pc, !.snap = hook.user]]
        /\ IF i = 1 THEN UNCHANGED events ELSE Event
        /\ Blur("late", i > 1)
        /\ UNCHANGED <<bot, panel, created, locks, now, overruled, ops>>

SyncRead_KeepsEnd(t) ==                     \* mutant: the end is not copied
    LET snap == task[t].snap IN
    /\ At(t, "sync")
    /\ task' = [task EXCEPT ![t].pc = "apply", ![t].row = current, ![t].base = CurrentRow,
                            ![t].dto = [CurrentRow EXCEPT !.id = snap.id,
                                          !.status = snap.status, !.limit = snap.limit]]
    /\ UNCHANGED <<bot, world, locks, now, past, count>>

\* SyncRemnaUser: apply_sync copies the panel user over the row that is current.
SyncRead(t) ==
    LET snap == task[t].snap IN
    /\ At(t, "sync")
    /\ task' = [task EXCEPT ![t].pc = "apply", ![t].row = current, ![t].base = CurrentRow,
                            ![t].dto = [CurrentRow EXCEPT !.id = snap.id,
                                          !.status = snap.status, !.until = snap.until,
                                          !.limit = snap.limit]]
    /\ UNCHANGED <<bot, world, locks, now, past, count>>

\* Without a current row the subscription is imported.
SyncApply(t) ==
    /\ At(t, "apply")
    /\ IF task[t].row = 0
       THEN /\ Inserts(NewRow([task[t].snap EXCEPT !.status = Shown(task[t].snap)], FALSE), rows)
            /\ UNCHANGED trial_available
       ELSE /\ task[t].dto # task[t].base => ~Locked(t, task[t].row)
            /\ UpdatesRow(t)
            /\ UNCHANGED <<current, trial_available>>
    /\ blurred' = blurred \cup Moved(t, task[t].row)
                          \cup (IF t \in Operators /\ panel # task[t].snap
                                THEN {"behind"} ELSE {})
                          \cup (IF panel.id \notin {0, task[t].snap.id} THEN {"late"} ELSE {})
    /\ Finish(t)
    /\ UNCHANGED <<world, locks, now, overruled, count>>

\* A deleted panel user: some row with its id is marked, not always the current
\* one, which is unlinked if it has that id.
ProcessDelete ==
    LET id    == task[Webhook].snap.id
        known == {i \in 1..Len(rows) : rows[i].id = id}
    IN  /\ At(Webhook, "remove")
        /\ IF known = {} THEN UNCHANGED <<rows, current, blurred>>
           ELSE \E i \in known :
                  /\ ~Locked(Webhook, i)
                  /\ rows' = [rows EXCEPT ![i].status = "DELETED"]
                  /\ current' = IF IsCurrent(task[Webhook].snap) THEN 0 ELSE current
                  /\ blurred' = blurred \cup (IF i # current THEN {"shared"} ELSE {})
                                        \cup (IF panel.id = id THEN {"late"} ELSE {})
        /\ Finish(Webhook)
        /\ UNCHANGED <<trial_available, world, locks, now, overruled, count>>

\* A handler that fails answers 503; the panel repeats the webhook or does not.
HookFails ==
    /\ \E pc \in {"sync", "apply", "remove"} : At(Webhook, pc)
    /\ Event
    /\ Blur("lost", TRUE)
    /\ Finish(Webhook)
    /\ UNCHANGED <<bot, world, locks, now, overruled, ops>>

-----------------------------------------------------------------------------
Next ==
    \/ \E t \in Operators :
          \/ \E op \in Operations : StartOperation(t, op)
          \/ UpdateRow(t) \/ CallPanel(t) \/ PanelRefuses(t)
          \/ CommitOperation(t) \/ CommitFails(t)
    \/ \E t \in Tasks : SyncRead(t) \/ SyncApply(t)
    \/ \E i \in 1..Len(hooks) : HandleHook(i)
    \/ ProcessDelete \/ HookFails
    \/ EditPanel \/ PanelExpires \/ Tick

Spec == Init /\ [][Next]_vars

-----------------------------------------------------------------------------
(* Properties *)

\* Every webhook has been handled and no operation is in progress.
AtRest == hooks = <<>> /\ \A t \in Tasks : At(t, "idle")

\* What MatchSubscription compares.
Agree ==
    IF current = 0 THEN panel.id = 0
    ELSE /\ panel.id = rows[current].id
         /\ Shown(panel) = Shown(rows[current])
         /\ panel.until = rows[current].until /\ panel.limit = rows[current].limit

\* At rest the current row and the panel user are the same, also when commits
\* have failed after the panel had been changed: the panel's own webhooks bring
\* the change to the row. Set aside are commits over a panel user or a pointer that
\* has moved since the task's call or read, or over a row that has got another
\* panel user, webhooks that were overtaken or lost, and a creation whose commit
\* failed, which no webhook reports.
AgreeAtRest ==
    AtRest => \/ Agree
              \/ blurred \cap {"behind", "stale", "swapped", "late", "orphan", "lost"} # {}

\* The current subscription, and no other, is not DELETED: nothing else may count
\* as the user's after any sequence of plans, deletions, imports and failures.
\* Set aside are commits over a pointer that moved, and a deletion on the panel
\* of a user several rows refer to, which marks any of them.
OnlyCurrentIsLive ==
    \A i \in 1..Len(rows) :
        (rows[i].status # "DELETED" <=> i = current) \/ blurred \cap {"stale", "shared"} # {}

\* The trial is given once, unless a panel user was deleted while an operation
\* worked: two requests may both be admitted, and the panel, which has one user of
\* a name, refuses the second.
TrialOnce ==
    \A i, j \in 1..Len(rows) :
        rows[i].trial /\ rows[j].trial => i = j \/ "vanished" \in blurred

\* A return to the channel enables only what leaving it has disabled: "Only
\* restore what we disabled" (management.py 471).
RestoresOnlyOwn ==
    [][\A t \in Operators :
          At(t, "panel") /\ task[t].op = "join" /\ panel' # panel /\ panel.status = "DISABLED"
            => ~overruled]_vars
=============================================================================
