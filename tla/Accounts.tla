------------------------------ MODULE Accounts ------------------------------
(***************************************************************************)
(* Roles and blocking: how user rows come to be, who owns the bot, who may *)
(* change the role of whom, and the blacklist. Every request loads its     *)
(* actor first, decides on rows it reads, and writes them later; requests  *)
(* of several users interleave at every await, in transactions that read   *)
(* what is committed.                                                      *)
(***************************************************************************)
EXTENDS Integers

CONSTANTS
    Users,       \* Telegram accounts, registered or not
    Nobody, System,
    Tasks,       \* requests handled at once
    MaxEvents    \* bound: operations of administrators, syncs and restarts

ASSUME AccountsAssumption ==
    /\ Users # {} /\ Nobody \notin Users /\ System \notin Users /\ Nobody # System
    /\ MaxEvents \in Nat

VARIABLES
    row,        \* the user rows
    owner_id,   \* BOT_OWNER_ID of the configuration
    blacklist,  \* the ids of the settings, for users who are not registered
    task,       \* what every request is doing
    wanted,     \* history: whom an operation blocked, and none unblocked since
    missed,     \* history: whom the blacklist has missed: an operation overlapped
                \* another or a registration, or a row was made without reading it
    events

history == <<wanted, missed>>
vars    == <<row, owner_id, blacklist, task, history, events>>

NOBODY == 0                                 \* not registered
USER == 1  PREVIEW == 2  ADMIN == 3  DEV == 4  OWNER == 5  SYSTEM == 6

Rows   == [role : NOBODY .. OWNER, is_blocked : BOOLEAN]
Absent == [role |-> NOBODY, is_blocked |-> FALSE]

TaskRecords ==
    [pc : {"idle", "load", "settings", "insert", "owners", "promote", "handler",
           "set_role", "revoke_role", "toggle", "block", "list"},
     actor : Users \cup {Nobody, System}, role : NOBODY .. SYSTEM,   \* as loaded
     target : Users \cup {Nobody}, seen : Rows, new_role : NOBODY .. OWNER,
     web : BOOLEAN,                         \* from the web cabinet
     read : SUBSET Users]                   \* a list of users, as read

Idle == [pc |-> "idle", actor |-> Nobody, role |-> NOBODY, target |-> Nobody,
         seen |-> Absent, new_role |-> NOBODY, web |-> FALSE, read |-> {}]

TypeOK ==
    /\ row \in [Users -> Rows]
    /\ owner_id \in Users
    /\ blacklist \subseteq Users
    /\ task \in [Tasks -> TaskRecords]
    /\ wanted \subseteq Users /\ missed \subseteq Users
    /\ events \in Nat

Init ==
    /\ row = [u \in Users |-> Absent]
    /\ owner_id \in Users
    /\ blacklist = {}
    /\ task = [t \in Tasks |-> Idle]
    /\ wanted = {} /\ missed = {}
    /\ events = 0

Event == events < MaxEvents /\ events' = events + 1

Registered(u) == row[u].role # NOBODY
Owners        == {u \in Users : row[u].role = OWNER}
At(t, pc)     == task[t].pc = pc
Finish(t)     == task' = [task EXCEPT ![t] = Idle]

-----------------------------------------------------------------------------
(* Every update of a user: GetOrCreateUser *)

\* A message or a button, of somebody who is not blocked at this moment.
CheckAccess(t, u) ==
    /\ At(t, "idle")
    /\ ~row[u].is_blocked
    /\ task' = [task EXCEPT ![t] = [Idle EXCEPT !.pc = "load", !.actor = u]]
    /\ UNCHANGED <<row, owner_id, blacklist, history, events>>

LoadUser_Kept(t) ==                         \* mutant: the owner is set only when created
    LET u == task[t].actor IN
    /\ At(t, "load")
    /\ task' = [task EXCEPT ![t].pc = IF Registered(u) THEN "handler" ELSE "settings",
                            ![t].role = row[u].role]
    /\ UNCHANGED <<row, owner_id, blacklist, history, events>>

Loaded(u, otherwise) == IF u = owner_id /\ row[u].role # OWNER THEN "owners" ELSE otherwise

LoadUser(t) ==
    LET u == task[t].actor IN
    /\ At(t, "load")
    /\ task' = [task EXCEPT ![t].pc = IF Registered(u) THEN Loaded(u, "handler") ELSE "settings",
                            ![t].role = row[u].role]
    /\ UNCHANGED <<row, owner_id, blacklist, history, events>>

\* The bot itself is blocked or unblocked in a chat: access is not checked, a
\* row is not created, and nothing is asked for, so that no role is loaded.
ChatMemberUpdate(t, u) ==
    /\ At(t, "idle") /\ Registered(u)
    /\ Loaded(u, "idle") = "owners"
    /\ task' = [task EXCEPT ![t] = [Idle EXCEPT !.pc = "owners", !.actor = u]]
    /\ UNCHANGED <<row, owner_id, blacklist, history, events>>

\* Telegram signs somebody in at the web cabinet: RegisterWebUser.
WebLogin(t, u) ==
    /\ At(t, "idle") /\ ~Registered(u)
    /\ task' = [task EXCEPT ![t] = [Idle EXCEPT !.pc = "settings", !.actor = u, !.web = TRUE]]
    /\ UNCHANGED <<row, owner_id, blacklist, history, events>>

\* A new user: the blacklist is read before the row is inserted.
ReadBlacklist(t) ==
    /\ At(t, "settings")
    /\ task' = [task EXCEPT ![t].pc = "insert", ![t].read = blacklist]
    /\ UNCHANGED <<row, owner_id, blacklist, history, events>>

\* A request that blocks u has found that u is not registered.
BlockingUnknown(u) ==
    \E t \in Tasks :
        task[t].pc \in {"block", "list"} /\ task[t].target = u /\ task[t].seen = Absent

Demoted_Kept(owners) == row                 \* mutant: the old owner stays one
Demoted(owners) == [u \in Users |-> IF u \in owners THEN [row[u] EXCEPT !.role = DEV] ELSE row[u]]

InsertUser_Unlisted(t) ==                   \* mutant: the blacklist is not applied
    LET u == task[t].actor IN
    /\ At(t, "insert")
    /\ IF Registered(u)
       THEN Finish(t) /\ UNCHANGED <<row, missed>>
       ELSE /\ row' = [row EXCEPT ![u] = [role |-> USER, is_blocked |-> FALSE]]
            /\ missed' = IF BlockingUnknown(u) THEN missed \cup {u} ELSE missed
            /\ task' = [task EXCEPT ![t].pc = "handler", ![t].role = USER, ![t].read = {}]
    /\ UNCHANGED <<owner_id, blacklist, wanted, events>>

\* The row is unique, so that of two first requests one fails. In the bot the
\* owner takes the role from whoever has it, in the same transaction; in the
\* web cabinet, where nothing else is asked for, everybody starts as a user.
InsertUser(t) ==
    LET u    == task[t].actor
        role == IF u = owner_id /\ ~task[t].web THEN OWNER ELSE USER
    IN  /\ At(t, "insert")
        /\ IF Registered(u)
           THEN Finish(t) /\ UNCHANGED <<row, missed>>
           ELSE /\ row' = [(IF role = OWNER THEN Demoted(Owners) ELSE row) EXCEPT ![u] =
                              [role |-> role, is_blocked |-> u \in task[t].read]]
                /\ missed' = IF BlockingUnknown(u) THEN missed \cup {u} ELSE missed
                /\ IF task[t].web THEN Finish(t)
                   ELSE task' = [task EXCEPT ![t].pc = "handler", ![t].role = role, ![t].read = {}]
        /\ UNCHANGED <<owner_id, blacklist, wanted, events>>

\* The owner by configuration has another role: _transfer_owner_role.
ReadOwners(t) ==
    /\ At(t, "owners")
    /\ task' = [task EXCEPT ![t].pc = "promote", ![t].read = Owners]
    /\ UNCHANGED <<row, owner_id, blacklist, history, events>>

TransferOwnerRole(t) ==
    LET u == task[t].actor IN
    /\ At(t, "promote")
    /\ row' = [Demoted(task[t].read) EXCEPT ![u].role = OWNER]
    /\ task' = [task EXCEPT ![t].pc = "handler", ![t].read = {},
                            ![t].role = IF @ = NOBODY THEN NOBODY ELSE OWNER]
    /\ UNCHANGED <<owner_id, blacklist, history, events>>

-----------------------------------------------------------------------------
(* Two more ways in, neither of which reads the blacklist *)

\* A row nobody had: of two transactions that write an id, one fails.
NewRow(u, blocked) ==
    /\ row' = [row EXCEPT ![u] = [role |-> USER, is_blocked |-> blocked]]
    /\ wanted' = IF blocked THEN wanted \cup {u} ELSE wanted
    /\ missed' = IF BlockingUnknown(u) \/ (u \in wanted /\ ~blocked)
                 THEN missed \cup {u} ELSE missed

\* A user of the panel whom the bot does not know is imported, in one
\* transaction: by a synchronisation of all users or by a webhook.
SyncRemnaUser(u) ==
    /\ ~Registered(u)
    /\ Event
    /\ NewRow(u, FALSE)
    /\ UNCHANGED <<owner_id, blacklist, task>>

\* Somebody registered by e-mail, who may be blocked by now, proves to own the
\* account u, and the row gets the id. If u has a row when it is looked for or
\* by the time of the update, which is of a unique column, nothing is written.
\* A role the row was given before might as well be given after.
LinkTelegram(u) ==
    /\ ~Registered(u)
    /\ Event
    /\ \E blocked \in BOOLEAN : NewRow(u, blocked)
    /\ UNCHANGED <<owner_id, blacklist, task>>

-----------------------------------------------------------------------------
(* Operations of the actor, with the role the actor was loaded with *)

\* Any other update, or an operation that is refused.
HandleOther(t) ==
    /\ At(t, "handler")
    /\ Finish(t)
    /\ UNCHANGED <<row, owner_id, blacklist, history, events>>

May(permission, role) ==
    CASE permission = "USER_EDITOR" -> role \in {ADMIN, DEV, OWNER, SYSTEM}
      [] OTHER                      -> role \in {DEV, OWNER, SYSTEM}

Reads(t, v, pc) ==
    task' = [task EXCEPT ![t].pc = pc, ![t].target = v, ![t].seen = row[v]]

ReadForRole(t) ==
    /\ At(t, "handler") /\ May("ASSIGN_ROLE", task[t].role)
    /\ Event
    /\ \E v \in Users \ {task[t].actor}, role \in USER .. OWNER :
          /\ Registered(v) /\ row[v].role # OWNER
          /\ task[t].role > role /\ task[t].role > row[v].role
          /\ task' = [task EXCEPT ![t].pc = "set_role", ![t].target = v,
                                  ![t].seen = row[v], ![t].new_role = role]
    /\ UNCHANGED <<row, owner_id, blacklist, history>>

\* A role equal to the one that was read is not written.
SetUserRole(t) ==
    LET r == task[t] IN
    /\ At(t, "set_role")
    /\ row' = IF r.new_role # r.seen.role
              THEN [row EXCEPT ![r.target].role = r.new_role] ELSE row
    /\ Finish(t)
    /\ UNCHANGED <<owner_id, blacklist, history, events>>

ReadForRevoke(t) ==
    /\ At(t, "handler") /\ May("REVOKE_ROLE", task[t].role)
    /\ Event
    /\ \E v \in Users \ {task[t].actor} :
          /\ Registered(v) /\ task[t].role > row[v].role /\ row[v].role # OWNER
          /\ Reads(t, v, "revoke_role")
    /\ UNCHANGED <<row, owner_id, blacklist, history>>

RevokeRole(t) ==
    LET r == task[t] IN
    /\ At(t, "revoke_role")
    /\ row' = IF r.seen.role # USER THEN [row EXCEPT ![r.target].role = USER] ELSE row
    /\ Finish(t)
    /\ UNCHANGED <<owner_id, blacklist, history, events>>

ReadForToggle(t) ==
    /\ At(t, "handler") /\ May("USER_EDITOR", task[t].role)
    /\ Event
    /\ \E v \in Users :
          Registered(v) /\ task[t].role > row[v].role /\ Reads(t, v, "toggle")
    /\ UNCHANGED <<row, owner_id, blacklist, history>>

\* The database flips the column, whatever the request has read.
ToggleUserBlockedStatus(t) ==
    LET v == task[t].target IN
    /\ At(t, "toggle")
    /\ row' = [row EXCEPT ![v].is_blocked = ~@]
    /\ wanted' = IF row[v].is_blocked THEN wanted \ {v} ELSE wanted \cup {v}
    /\ Finish(t)
    /\ UNCHANGED <<owner_id, blacklist, missed, events>>

UnblockAllUsers(t) ==
    /\ At(t, "handler") /\ May("UNBLOCK_ALL", task[t].role)
    /\ Event
    /\ row' = [u \in Users |-> [row[u] EXCEPT !.is_blocked = FALSE]]
    /\ wanted' = {u \in wanted : ~Registered(u)}
    /\ Finish(t)
    /\ UNCHANGED <<owner_id, blacklist, missed>>

\* A registration that has read the list keeps what it has read.
ClearBlockedIds(t) ==
    /\ At(t, "handler") /\ May("BLACKLIST", task[t].role)
    /\ Event
    /\ blacklist' = {}
    /\ wanted' = {u \in wanted : Registered(u)}
    /\ Finish(t)
    /\ UNCHANGED <<row, owner_id, missed>>

-----------------------------------------------------------------------------
(* BlockUsersByIds, and the sync of the blacklist's sources as the system *)

\* Users at or above the actor's role are skipped.
ReadForBlock(t) ==
    /\ \/ At(t, "handler") /\ May("BLACKLIST", task[t].role)
       \/ At(t, "idle")
    /\ Event
    /\ \E v \in Users :
          LET role  == IF At(t, "idle") THEN SYSTEM ELSE task[t].role
              actor == IF At(t, "idle") THEN System ELSE task[t].actor
          IN  /\ role > row[v].role
              /\ task' = [task EXCEPT ![t] =
                     [Idle EXCEPT !.pc = "block", !.actor = actor, !.role = role,
                                  !.target = v, !.seen = row[v]]]
    /\ UNCHANGED <<row, owner_id, blacklist, history>>

\* Who is registered is blocked; for the others the settings are read.
BlockRegistered(t) ==
    LET v == task[t].target IN
    /\ At(t, "block")
    /\ IF task[t].seen = Absent
       THEN /\ task' = [task EXCEPT ![t].pc = "list", ![t].read = blacklist]
            /\ UNCHANGED <<row, wanted>>
       ELSE /\ row' = IF task[t].seen.is_blocked THEN row
                      ELSE [row EXCEPT ![v].is_blocked = TRUE]
            /\ wanted' = IF row'[v].is_blocked THEN wanted \cup {v} ELSE wanted
            /\ Finish(t)
    /\ UNCHANGED <<owner_id, blacklist, missed, events>>

\* The whole list is written, as it was read and with the new id. It is missed
\* by a registration that has read the list, or is over; and ids that others
\* added since are gone.
AddToBlacklist(t) ==
    LET v       == task[t].target
        written == IF v \in task[t].read THEN blacklist ELSE task[t].read \cup {v}
    IN  /\ At(t, "list")
        /\ blacklist' = written
        /\ wanted' = wanted \cup {v}
        /\ missed' = missed \cup (blacklist \ written)
                        \cup {u \in written : \E s \in Tasks : At(s, "insert") /\ task[s].actor = u}
                        \cup {u \in {v} : u \notin written}
        /\ Finish(t)
        /\ UNCHANGED <<row, owner_id, events>>

-----------------------------------------------------------------------------
\* The bot is restarted, perhaps with another BOT_OWNER_ID; requests are lost.
Restart ==
    /\ Event
    /\ owner_id' \in Users
    /\ task' = [t \in Tasks |-> Idle]
    /\ UNCHANGED <<row, blacklist, history>>

Load(t) ==
    \/ \E u \in Users : CheckAccess(t, u) \/ ChatMemberUpdate(t, u) \/ WebLogin(t, u)
    \/ LoadUser(t) \/ ReadBlacklist(t) \/ InsertUser(t) \/ ReadOwners(t) \/ TransferOwnerRole(t)

Operate(t) ==
    \/ HandleOther(t)
    \/ ReadForRole(t) \/ SetUserRole(t) \/ ReadForRevoke(t) \/ RevokeRole(t)
    \/ ReadForToggle(t) \/ ToggleUserBlockedStatus(t)
    \/ UnblockAllUsers(t) \/ ClearBlockedIds(t)
    \/ ReadForBlock(t) \/ BlockRegistered(t) \/ AddToBlacklist(t)

Next ==
    \/ Restart
    \/ \E t \in Tasks : Load(t) \/ Operate(t)
    \/ \E u \in Users : SyncRemnaUser(u) \/ LinkTelegram(u)

Spec == Init /\ [][Next]_vars

\* Requests that have been started go on, and the owner uses the bot again and
\* again.
Step(t) ==
    \/ LoadUser(t) \/ ReadBlacklist(t) \/ InsertUser(t) \/ ReadOwners(t) \/ TransferOwnerRole(t)
    \/ HandleOther(t) \/ SetUserRole(t) \/ RevokeRole(t) \/ ToggleUserBlockedStatus(t)
    \/ BlockRegistered(t) \/ AddToBlacklist(t)

FairSpec ==
    /\ Spec
    /\ \A t \in Tasks : WF_vars(Step(t))
    /\ \A t \in Tasks, u \in Users : SF_vars(u = owner_id /\ CheckAccess(t, u))

-----------------------------------------------------------------------------
(* Properties *)

\* Nobody shares the role of the owner, however updates of an old and a new
\* owner, registrations and changes of roles overlap (registration.py 92-106,
\* roles.py 114-147).
SingleOwner == \A u, v \in Users : row[u].role = OWNER /\ row[v].role = OWNER => u = v

\* Who was blocked by an id or in the editor, and was not unblocked since, is:
\* a user by the row, and who has yet to register by the list. The exceptions
\* are in missed: ids whose operation overlapped a registration, or another
\* operation that then wrote back the list it had read; and ids on the list
\* whose row the panel's import or the linking of an e-mail account made
\* (synchronization.py 52-66, telegram.py 169-187), which do not read it.
BlockedStay ==
    \A u \in wanted \ missed :
        IF Registered(u) THEN row[u].is_blocked ELSE u \in blacklist

\* Whatever administrators do to the owner's row, the user named in the
\* configuration gets the role of the owner back, and keeps it; unless the user
\* is blocked and so never comes as far as registration.py 58-65.
OwnerIsBack ==
    \A u \in Users : <>[](u = owner_id => row[u].role = OWNER \/ row[u].is_blocked)

\* "Read and mutate within one transaction (like RevokeRole) to close the
\* TOCTOU window between the role check and the update" (roles.py 112-113): the
\* role that is replaced is the one that was checked.
CheckedIsReplaced ==
    [][\A t \in Tasks : At(t, "set_role") /\ task'[t] = Idle /\ row' # row =>
          row[task[t].target].role = task[t].seen.role]_vars
=============================================================================
