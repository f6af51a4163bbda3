------------------------------- MODULE Access -------------------------------
(***************************************************************************)
(* Who may use the bot: the settings row and its copy in Redis, the        *)
(* operations that change the access settings, the access check every      *)
(* update passes, and the list of users who wait for payments to be        *)
(* allowed again. All of them are tasks of one process that interleave at  *)
(* every await.                                                            *)
(***************************************************************************)
EXTENDS Integers

CONSTANTS
    Users, Admins,   \* whose updates are checked; who changes settings
    Kind,            \* [Users -> {"new", "user", "blocked", "privileged"}]
    Modes,           \* access modes administrators choose from
    NoTask, NoValue,
    MaxEvents        \* bound: operations on the settings, Redis and database
                     \* errors, process deaths

ASSUME AccessAssumption ==
    /\ Kind \in [Users -> {"new", "user", "blocked", "privileged"}]
    /\ Modes \subseteq {"PUBLIC", "INVITED", "RESTRICTED"} /\ "PUBLIC" \in Modes
    /\ MaxEvents \in Nat
    /\ NoTask \notin Admins
    /\ Users \cap Admins = {}

VARIABLES
    db,        \* the committed settings row
    lock,      \* the administrator whose transaction has updated the row
    cache,     \* its copy in Redis
    waitlist,  \* the Redis set of users waiting for payments
    task,      \* what every user's and administrator's task is doing
    committed, \* history: every value the row has had
    overlap,   \* history: a read overlapped a commit, or an invalidation failed
    owed,      \* history: told to wait and not sent the message since
    late,      \* history: put or found on the list while it was being emptied
    ops, faults   \* counters of the bounded events

history == <<committed, overlap, owed, late>>
count   == <<ops, faults>>
vars    == <<db, lock, cache, waitlist, task, history, count>>

Tasks    == Users \cup Admins
Fields   == {"mode", "registration_allowed", "payments_allowed"}
Settings == [mode : Modes, registration_allowed : BOOLEAN, payments_allowed : BOOLEAN]
Events   == {"payment", "other"}

\* An operation sets a field; a toggle does not say to what.
Operations == {[field |-> "mode", mode |-> m] : m \in Modes}
                \cup [field : Fields \ {"mode"}, mode : {"PUBLIC"}]

Default == [mode |-> "PUBLIC", registration_allowed |-> TRUE, payments_allowed |-> TRUE]
Idle    == [pc |-> "idle", event |-> "other", op |-> [field |-> "mode", mode |-> "PUBLIC"],
            dto |-> Default, dirty |-> FALSE, members |-> {}]

TaskRecords ==
    [pc : {"idle", "get", "select", "fill", "loaded", "exists", "add",
           "invalidate", "commit", "members", "notify", "clear"},
     event : Events, op : Operations, dto : Settings, dirty : BOOLEAN,
     members : SUBSET Users]

TypeOK ==
    /\ db \in Settings
    /\ lock \in Admins \cup {NoTask}
    /\ cache \in Settings \cup {NoValue}
    /\ waitlist \subseteq Users
    /\ task \in [Tasks -> TaskRecords]
    /\ committed \subseteq Settings
    /\ overlap \in BOOLEAN
    /\ owed \subseteq Users /\ late \subseteq Users
    /\ ops \in Nat /\ faults \in Nat

Init ==
    /\ db = Default
    /\ lock = NoTask
    /\ cache = NoValue
    /\ waitlist = {}
    /\ task = [t \in Tasks |-> Idle]
    /\ committed = {Default} /\ overlap = FALSE /\ owed = {} /\ late = {}
    /\ ops = 0 /\ faults = 0

Fault == ops + faults < MaxEvents /\ faults' = faults + 1

At(t, pc)  == task[t].pc = pc
Go(t, pc)  == task' = [task EXCEPT ![t].pc = pc]
Finish(t)  == task' = [task EXCEPT ![t] = Idle]

-----------------------------------------------------------------------------
(* Reading the settings: the copy if there is one, else the row *)

ReadCache(t) ==
    /\ At(t, "get")
    /\ \/ /\ cache # NoValue
          /\ task' = [task EXCEPT ![t].pc = "loaded", ![t].dto = cache]
          /\ UNCHANGED faults
       \/ cache = NoValue /\ Go(t, "select") /\ UNCHANGED faults
       \/ Fault /\ Go(t, "select")
    /\ UNCHANGED <<db, lock, cache, waitlist, history, ops>>

SelectSettings(t) ==
    /\ At(t, "select")
    /\ task' = [task EXCEPT ![t].pc = "fill", ![t].dto = db]
    /\ UNCHANGED <<db, lock, cache, waitlist, history, count>>

\* The copy has been deleted for a change that is not committed yet.
Uncommitted == \E a \in Admins : At(a, "commit") /\ task[a].dirty

FillCache(t) ==
    /\ At(t, "fill")
    /\ \/ cache' = task[t].dto /\ UNCHANGED faults
       \/ Fault /\ UNCHANGED cache
    /\ overlap' = (overlap \/ Uncommitted)
    /\ Go(t, "loaded")
    /\ UNCHANGED <<db, lock, waitlist, committed, owed, late, ops>>

ExpireCache ==
    /\ cache # NoValue
    /\ cache' = NoValue
    /\ UNCHANGED <<db, lock, waitlist, task, history, count>>

-----------------------------------------------------------------------------
(* Changing them: ChangeAccessMode, ToggleRegistration, TogglePayments *)

StartOperation(a) ==
    /\ At(a, "idle")
    /\ ops + faults < MaxEvents
    /\ ops' = ops + 1
    /\ \E op \in Operations : task' = [task EXCEPT ![a].pc = "get", ![a].op = op]
    /\ UNCHANGED <<db, lock, cache, waitlist, history, faults>>

\* The value an operation gives its field, from the settings it has read.
NewValue(op, dto) == IF op.field = "mode" THEN op.mode ELSE ~dto[op.field]

\* Without a change nothing is written; else the UPDATE waits for the row.
UpdateSettings(a) ==
    LET op    == task[a].op
        v     == NewValue(op, task[a].dto)
        dirty == v # task[a].dto[op.field]
    IN  /\ At(a, "loaded")
        /\ dirty => lock = NoTask
        /\ lock' = IF dirty THEN a ELSE lock
        /\ task' = [task EXCEPT ![a].pc = "invalidate", ![a].dto[op.field] = v,
                                ![a].dirty = dirty]
        /\ UNCHANGED <<db, cache, waitlist, history, count>>

InvalidateCache_Skipped(a) ==               \* mutant: the copy is left
    /\ At(a, "invalidate")
    /\ Go(a, "commit")
    /\ UNCHANGED <<db, lock, cache, waitlist, history, count>>

\* The copy is deleted before the commit. A Redis error is only logged.
InvalidateCache(a) ==
    /\ At(a, "invalidate")
    /\ \/ cache' = NoValue /\ UNCHANGED <<overlap, faults>>
       \/ Fault /\ overlap' = TRUE /\ UNCHANGED cache
    /\ Go(a, "commit")
    /\ UNCHANGED <<db, lock, waitlist, committed, owed, late, ops>>

Written_Whole(a) ==                         \* mutant: every field is written back
    IF task[a].dirty THEN task[a].dto ELSE db

\* The row after the update: the one field is merged into it.
Written(a) ==
    IF task[a].dirty
    THEN [db EXCEPT ![task[a].op.field] = task[a].dto[task[a].op.field]]
    ELSE db

Restores(a) == task[a].op.field = "payments_allowed" /\ task[a].dto.payments_allowed

Unlocked(a) == IF lock = a THEN NoTask ELSE lock

\* TogglePayments goes on if it has allowed payments; the others are done.
CommitSettings(a) ==
    /\ At(a, "commit")
    /\ db' = Written(a)
    /\ lock' = Unlocked(a)
    /\ committed' = committed \cup {Written(a)}
    /\ overlap' = (overlap \/ (task[a].dirty /\ \E t \in Tasks : At(t, "fill")))
    /\ IF Restores(a) THEN Go(a, "members") ELSE Finish(a)
    /\ UNCHANGED <<cache, waitlist, owed, late, count>>

\* An error before or at the commit rolls the transaction back.
OperationFails(a) ==
    /\ \E pc \in {"select", "loaded", "commit"} : At(a, pc)
    /\ Fault
    /\ lock' = Unlocked(a)
    /\ Finish(a)
    /\ UNCHANGED <<db, cache, waitlist, history, ops>>

GetMembers(a) ==
    /\ At(a, "members")
    /\ IF waitlist = {} THEN Finish(a)
       ELSE task' = [task EXCEPT ![a].pc = "notify", ![a].members = waitlist]
    /\ UNCHANGED <<db, lock, cache, waitlist, history, count>>

NotifyRestored_Swallowed(a) ==              \* mutant: an error does not stop the task
    /\ At(a, "notify")
    /\ \/ owed' = owed \ task[a].members /\ UNCHANGED faults
       \/ Fault /\ UNCHANGED owed
    /\ Go(a, "clear")
    /\ UNCHANGED <<db, lock, cache, waitlist, committed, overlap, late, ops>>

NotifyRestored_Never(a) ==                  \* mutant: the task is never queued
    /\ At(a, "notify")
    /\ Go(a, "clear")
    /\ UNCHANGED <<db, lock, cache, waitlist, history, count>>

\* The notification task is queued for the members that were read.
NotifyRestored(a) ==
    /\ At(a, "notify")
    /\ owed' = owed \ task[a].members
    /\ Go(a, "clear")
    /\ UNCHANGED <<db, lock, cache, waitlist, committed, overlap, late, count>>

ClearWaitlist(a) ==
    /\ At(a, "clear")
    /\ waitlist' = {}
    /\ Finish(a)
    /\ UNCHANGED <<db, lock, cache, history, count>>

\* A Redis error in one of the three ends the operation there.
WaitlistFails(a) ==
    /\ \E pc \in {"members", "notify", "clear"} : At(a, pc)
    /\ Fault
    /\ Finish(a)
    /\ UNCHANGED <<db, lock, cache, waitlist, history, ops>>

-----------------------------------------------------------------------------
(* Checking an update *)

StartCheck(u) ==
    /\ At(u, "idle")
    /\ \E e \in Events : task' = [task EXCEPT ![u].pc = "get", ![u].event = e]
    /\ UNCHANGED <<db, lock, cache, waitlist, history, count>>

\* Who is told to wait: not the blocked and the privileged, not under RESTRICTED,
\* and a user who is not registered yet is only refused.
ToldToWait(kind, event, s) ==
    /\ kind = "user"
    /\ s.mode # "RESTRICTED"
    /\ event = "payment" /\ ~s.payments_allowed

\* Every other check ends here, whether the update is then handled or not.
CheckAccess(u) ==
    /\ At(u, "loaded")
    /\ IF ToldToWait(Kind[u], task[u].event, task[u].dto)
       THEN Go(u, "exists")
       ELSE Finish(u)
    /\ UNCHANGED <<db, lock, cache, waitlist, history, count>>

\* The list is being emptied: its members have been read.
Emptying == \E a \in Admins : At(a, "notify") \/ At(a, "clear")

\* The user has been told to wait, and is on the list.
Waits(u) ==
    /\ owed' = owed \cup {u}
    /\ late' = IF Emptying THEN late \cup {u} ELSE late
    /\ UNCHANGED <<committed, overlap>>

FindOnWaitlist(u) ==
    /\ At(u, "exists")
    /\ \/ u \in waitlist /\ Waits(u) /\ Finish(u)
       \/ u \notin waitlist /\ Go(u, "add") /\ UNCHANGED history
    /\ UNCHANGED <<db, lock, cache, waitlist, count>>

AddToWaitlist(u) ==
    /\ At(u, "add")
    /\ waitlist' = waitlist \cup {u}
    /\ Waits(u)
    /\ Finish(u)
    /\ UNCHANGED <<db, lock, cache, count>>

\* An error ends the check; the update is not handled.
CheckFails(u) ==
    /\ \E pc \in {"select", "exists", "add"} : At(u, pc)
    /\ Fault
    /\ Finish(u)
    /\ UNCHANGED <<db, lock, cache, waitlist, history, ops>>

\* The process dies: open transactions are rolled back.
ProcessDies ==
    /\ Fault
    /\ lock' = NoTask
    /\ task' = [t \in Tasks |-> Idle]
    /\ UNCHANGED <<db, cache, waitlist, history, ops>>

-----------------------------------------------------------------------------
ReadSettings(t) == ReadCache(t) \/ SelectSettings(t) \/ FillCache(t)

OperationStep(a) ==
    \/ ReadSettings(a)
    \/ UpdateSettings(a) \/ InvalidateCache(a) \/ CommitSettings(a)
    \/ GetMembers(a) \/ NotifyRestored(a) \/ ClearWaitlist(a)

CheckStep(u) ==
    ReadSettings(u) \/ CheckAccess(u) \/ FindOnWaitlist(u) \/ AddToWaitlist(u)

Next ==
    \/ \E a \in Admins :
          StartOperation(a) \/ OperationStep(a) \/ OperationFails(a) \/ WaitlistFails(a)
    \/ \E u \in Users : StartCheck(u) \/ CheckStep(u) \/ CheckFails(u)
    \/ ExpireCache
    \/ ProcessDies

Spec == Init /\ [][Next]_vars

\* The event loop resumes every task that has been started.
FairSpec == Spec /\ \A a \in Admins : WF_vars(OperationStep(a))

-----------------------------------------------------------------------------
(* Properties *)

\* What is cached has been committed at some time, never "an uncommitted
\* phantom" (SettingsDaoImpl.get), also when an operation is rolled back.
CacheWasCommitted == cache \in committed \cup {NoValue}

\* The copy is older than the row only after a commit that overlapped a read,
\* or whose invalidation failed: every other change is seen by the next check.
StaleOnlyByOverlap == cache \in {NoValue, db} \/ overlap

\* A commit changes the field its operation is about and no other, whatever
\* other administrators have committed since its settings were read.
OwnFieldOnly ==
    [][\A a \in Admins : At(a, "commit") /\ task[a] # task'[a] =>
          \A f \in Fields \ {task[a].op.field} : db'[f] = db[f]]_vars

\* A user who was told to wait and has not been sent the message is still on
\* the list, through failures of every step and deaths of the process, unless
\* the user came while the list was being emptied.
WaitersKept == owed \ late \subseteq waitlist

\* When payments are allowed again, everyone who waits is sent the message,
\* except the users who come while the list is being emptied, as long as no
\* step fails.
RestoredAreTold ==
    \A a \in Admins, u \in Users :
        At(a, "members") /\ u \in owed ~> u \notin owed \/ u \in late \/ faults > 0

\* Nobody who waits is dropped from the list without a message: "clear the
\* waitlist ONLY after notifications are successfully dispatched ... (no silent
\* drop)" (access.py 60-63). Who is added after the members are read is dropped.
NobodyDropped == owed \subseteq waitlist
=============================================================================
