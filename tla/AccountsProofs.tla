--------------------------- MODULE AccountsProofs ---------------------------
(***************************************************************************)
(* Proofs about Accounts, for any users, requests and bounds.              *)
(*                                                                         *)
(* The role of the owner is only ever given to the user of the             *)
(* configuration, and whoever has it is among those a transfer has read,   *)
(* or is that user. A blocked user who is registered has a blocked row;    *)
(* one who is not is on the list, and on the list a registration has read, *)
(* or is noted as missed.                                                  *)
(***************************************************************************)
EXTENDS Accounts, TLAPS

\* What a request relies on between its steps.
Relies(t) ==
    LET r == task[t] IN
    /\ r.pc \in {"load", "settings", "insert", "owners", "promote"} => r.actor \in Users
    /\ r.pc \in {"owners", "promote"} => r.actor = owner_id /\ Registered(r.actor)
    /\ r.pc = "promote" => \A u \in Users :
          /\ row[u].role = OWNER => u \in r.read \/ u = owner_id
          /\ u \in r.read => Registered(u)
    /\ r.pc = "handler"  => r.role <= OWNER
    /\ r.pc = "set_role" => r.new_role \in USER .. DEV
    /\ r.pc \in {"set_role", "revoke_role", "toggle"} => r.target \in Users /\ Registered(r.target)
    /\ r.pc \in {"block", "list"} => r.target \in Users
    /\ r.pc = "block" /\ r.seen # Absent => Registered(r.target)
    /\ r.pc = "list" => r.seen = Absent
    /\ r.pc \in {"block", "list"} /\ r.seen = Absent =>
          ~Registered(r.target) \/ r.target \in missed
    /\ r.pc = "insert" /\ ~Registered(r.actor) /\ r.actor \in wanted \ missed =>
          r.actor \in r.read

RowsAreAbsent == \A u \in Users : ~Registered(u) => row[u] = Absent

IInv ==
    /\ TypeOK /\ RowsAreAbsent /\ SingleOwner /\ BlockedStay
    /\ \A t \in Tasks : Relies(t)

-----------------------------------------------------------------------------
(* Types *)

LEMMA RoleRanges ==
    /\ NOBODY .. OWNER = {0, 1, 2, 3, 4, 5} /\ NOBODY .. SYSTEM = {0, 1, 2, 3, 4, 5, 6}
    /\ NOBODY = 0 /\ USER = 1 /\ PREVIEW = 2 /\ ADMIN = 3 /\ DEV = 4 /\ OWNER = 5 /\ SYSTEM = 6
    BY DEF NOBODY, USER, PREVIEW, ADMIN, DEV, OWNER, SYSTEM

LEMMA Constants == Absent \in Rows /\ Idle \in TaskRecords
    BY RoleRanges DEF Absent, Rows, Idle, TaskRecords

\* A step of a request writes the record of that request.
LEMMA OneTask ==
    ASSUME task \in [Tasks -> TaskRecords], NEW t \in Tasks, NEW r \in TaskRecords,
           task' = [task EXCEPT ![t] = r]
    PROVE  /\ task' \in [Tasks -> TaskRecords] /\ task'[t] = r
           /\ \A s \in Tasks \ {t} : task'[s] = task[s]
    OBVIOUS

LEMMA FinishEffect ==
    ASSUME IInv, NEW t \in Tasks, Finish(t)
    PROVE  /\ task' \in [Tasks -> TaskRecords] /\ task'[t] = Idle
           /\ \A s \in Tasks \ {t} : task'[s] = task[s]
    BY OneTask, Constants DEF IInv, TypeOK, Finish

LEMMA IdleRelies ==
    ASSUME NEW t \in Tasks, task'[t] = Idle
    PROVE  Relies(t)'
    BY DEF Relies, Idle

-----------------------------------------------------------------------------
(* What the others rely on, and steps that only read *)

\* The other requests keep what they rely on when nobody is unregistered, the
\* role of the owner is given only to the user of the configuration, no missed
\* operation is forgotten, who registers while a request is blocking the id is
\* noted, and so is who is listed while registering.
Considerate(others) ==
    /\ owner_id' = owner_id
    /\ \A u \in Users :
          /\ Registered(u) => Registered(u)'
          /\ row'[u].role = OWNER => row[u].role = OWNER \/ u = owner_id
          /\ ~Registered(u) /\ Registered(u)' /\ BlockingUnknown(u) => u \in missed'
          /\ \A s \in others :
                At(s, "insert") /\ task[s].actor = u /\ ~Registered(u)' /\ u \in wanted' \ missed'
                  => u \in wanted \ missed
    /\ missed \subseteq missed'

LEMMA OthersRely ==
    ASSUME IInv, NEW others \in SUBSET Tasks, \A s \in others : task'[s] = task[s],
           Considerate(others)
    PROVE  \A s \in others : Relies(s)'
<1> SUFFICES ASSUME NEW s \in others PROVE Relies(s)'
    OBVIOUS
<1> DEFINE r == task[s]
<1>0. task'[s] = task[s] /\ r \in TaskRecords
    BY DEF IInv, TypeOK
<1>1. Relies(s)
    BY DEF IInv
<1>2. /\ r.pc \in {"load", "settings", "insert", "owners", "promote"} => r.actor \in Users
      /\ r.pc \in {"owners", "promote"} => r.actor = owner_id' /\ Registered(r.actor)'
      /\ r.pc = "handler"  => r.role <= OWNER
      /\ r.pc = "set_role" => r.new_role \in USER .. DEV
      /\ r.pc \in {"set_role", "revoke_role", "toggle"} => r.target \in Users /\ Registered(r.target)'
      /\ r.pc \in {"block", "list"} => r.target \in Users
      /\ r.pc = "block" /\ r.seen # Absent => Registered(r.target)'
      /\ r.pc = "list" => r.seen = Absent
    BY <1>1 DEF Relies, Considerate
<1>3. ASSUME r.pc = "promote", NEW u \in Users
      PROVE  /\ row'[u].role = OWNER => u \in r.read \/ u = owner_id'
             /\ u \in r.read => Registered(u)'
    BY <1>1, <1>3 DEF Relies, Considerate
<1>4. ASSUME r.pc \in {"block", "list"}, r.seen = Absent
      PROVE  ~Registered(r.target)' \/ r.target \in missed'
  <2>1. r.target \in Users /\ (~Registered(r.target) \/ r.target \in missed)
    BY <1>1, <1>4 DEF Relies
  <2>2. BlockingUnknown(r.target)
    BY <1>4 DEF BlockingUnknown
  <2> QED
    BY <2>1, <2>2 DEF Considerate
<1>5. ASSUME r.pc = "insert", ~Registered(r.actor)', r.actor \in wanted' \ missed'
      PROVE  r.actor \in r.read
    BY <1>1, <1>2, <1>5 DEF Relies, Considerate, At
<1> QED
    BY <1>0, <1>2, <1>3, <1>4, <1>5 DEF Relies, Registered

LEMMA StepKeeps ==
    ASSUME IInv, NEW t \in Tasks, \A s \in Tasks \ {t} : task'[s] = task[s],
           Considerate(Tasks \ {t}), TypeOK', RowsAreAbsent', SingleOwner', BlockedStay', Relies(t)'
    PROVE  IInv'
    BY OthersRely DEF IInv

\* A step that only reads, or only finishes a request.
LEMMA ReadKeeps ==
    ASSUME IInv, NEW t \in Tasks, \A s \in Tasks \ {t} : task'[s] = task[s],
           UNCHANGED <<row, owner_id, blacklist, history>>, TypeOK', Relies(t)'
    PROVE  IInv'
<1>1. Considerate(Tasks \ {t})
    BY DEF Considerate, Registered, history
<1>2. RowsAreAbsent' /\ SingleOwner' /\ BlockedStay'
    BY DEF IInv, RowsAreAbsent, SingleOwner, BlockedStay, Registered, history
<1> QED
    BY <1>1, <1>2, StepKeeps

\* It is enough to look at what is written.
LEMMA TypeFrom ==
    ASSUME IInv, task' \in [Tasks -> TaskRecords], row' \in [Users -> Rows],
           owner_id' = owner_id, blacklist' \subseteq Users,
           wanted' \subseteq Users, missed' \subseteq Users,
           events' = events \/ Event
    PROVE  TypeOK'
    BY DEF IInv, TypeOK, Event

LEMMA FinishOnly ==
    ASSUME IInv, NEW t \in Tasks, Finish(t), UNCHANGED <<row, owner_id, blacklist, history>>,
           events' = events \/ Event
    PROVE  IInv'
<1>1. TypeOK'
    BY FinishEffect, TypeFrom DEF IInv, TypeOK, history
<1> QED
    BY <1>1, FinishEffect, IdleRelies, ReadKeeps

\* A step that only reads, and goes on with the record r.
LEMMA ReadOnly ==
    ASSUME IInv, NEW t \in Tasks, NEW r \in TaskRecords, task' = [task EXCEPT ![t] = r],
           UNCHANGED <<row, owner_id, blacklist, history>>, events' = events \/ Event,
           Relies(t)'
    PROVE  IInv'
<1>1. /\ task' \in [Tasks -> TaskRecords] /\ task'[t] = r
      /\ \A s \in Tasks \ {t} : task'[s] = task[s]
    BY OneTask DEF IInv, TypeOK
<1>2. TypeOK'
    BY <1>1, TypeFrom DEF IInv, TypeOK, history
<1> QED
    BY <1>1, <1>2, ReadKeeps

-----------------------------------------------------------------------------
(* Loading the actor *)

LEMMA CheckAccessKeeps ==
    ASSUME IInv, NEW t \in Tasks, NEW u \in Users, CheckAccess(t, u)
    PROVE  IInv'
<1> DEFINE r == [Idle EXCEPT !.pc = "load", !.actor = u]
<1>1. r \in TaskRecords
    BY Constants DEF TaskRecords, Idle
<1>2. task' = [task EXCEPT ![t] = r] /\ task'[t] = r
    BY OneTask, <1>1 DEF CheckAccess, IInv, TypeOK
<1>3. r.pc = "load" /\ r.actor = u
    BY DEF Idle
<1>4. Relies(t)'
    BY <1>2, <1>3 DEF Relies
<1> QED
    BY <1>1, <1>2, <1>4, ReadOnly DEF CheckAccess

LEMMA LoadUserKeeps ==
    ASSUME IInv, NEW t \in Tasks, LoadUser(t)
    PROVE  IInv'
<1> DEFINE u == task[t].actor
<1>1. task[t] \in TaskRecords /\ u \in Users /\ row[u] \in Rows /\ task[t].pc = "load"
    BY DEF IInv, TypeOK, Relies, LoadUser, At
<1>2. PICK p \in {"owners", "handler", "settings"} :
         /\ p = IF Registered(u) THEN Loaded(u, "handler") ELSE "settings"
         /\ p = "owners" => Registered(u) /\ u = owner_id
    BY DEF Loaded
<1>3. PICK l \in NOBODY .. OWNER : l = row[u].role
    BY <1>1 DEF Rows
<1> DEFINE r == [task[t] EXCEPT !.pc = p, !.role = l]
<1>4. r \in TaskRecords
    BY <1>1, RoleRanges DEF TaskRecords
<1>5. task' = [task EXCEPT ![t] = r] /\ row' = row /\ owner_id' = owner_id
    BY <1>2, <1>3 DEF LoadUser, IInv, TypeOK
<1>6. task'[t] = r /\ r.pc = p /\ r.actor = u /\ r.role = l
    BY <1>1, <1>4, <1>5, OneTask DEF IInv, TypeOK, TaskRecords
<1> HIDE DEF r
<1>7. Relies(t)'
    BY <1>1, <1>2, <1>3, <1>5, <1>6, RoleRanges DEF Relies, Registered
<1> QED
    BY <1>4, <1>5, <1>7, ReadOnly DEF LoadUser

LEMMA ChatMemberKeeps ==
    ASSUME IInv, NEW t \in Tasks, NEW u \in Users, ChatMemberUpdate(t, u)
    PROVE  IInv'
<1> DEFINE r == [Idle EXCEPT !.pc = "owners", !.actor = u]
<1>1. r \in TaskRecords
    BY Constants DEF TaskRecords, Idle
<1>2. task' = [task EXCEPT ![t] = r] /\ task'[t] = r
    BY OneTask, <1>1 DEF ChatMemberUpdate, IInv, TypeOK
<1>3. u = owner_id /\ Registered(u) /\ row' = row /\ owner_id' = owner_id
    BY DEF ChatMemberUpdate, Loaded
<1>4. r.pc = "owners" /\ r.actor = u
    BY DEF Idle
<1>5. Relies(t)'
    BY <1>2, <1>3, <1>4 DEF Relies, Registered
<1> QED
    BY <1>1, <1>2, <1>5, ReadOnly DEF ChatMemberUpdate

LEMMA WebLoginKeeps ==
    ASSUME IInv, NEW t \in Tasks, NEW u \in Users, WebLogin(t, u)
    PROVE  IInv'
<1> DEFINE r == [Idle EXCEPT !.pc = "settings", !.actor = u, !.web = TRUE]
<1>1. r \in TaskRecords
    BY Constants DEF TaskRecords, Idle
<1>2. task' = [task EXCEPT ![t] = r] /\ task'[t] = r
    BY OneTask, <1>1 DEF WebLogin, IInv, TypeOK
<1>3. r.pc = "settings" /\ r.actor = u
    BY DEF Idle
<1>4. Relies(t)'
    BY <1>2, <1>3 DEF Relies
<1> QED
    BY <1>1, <1>2, <1>4, ReadOnly DEF WebLogin

\* Who is not registered and blocked, and not missed, is on the list that is read.
LEMMA ReadBlacklistKeeps ==
    ASSUME IInv, NEW t \in Tasks, ReadBlacklist(t)
    PROVE  IInv'
<1> DEFINE r == [task[t] EXCEPT !.pc = "insert", !.read = blacklist]
<1>1. task[t] \in TaskRecords /\ task[t].actor \in Users /\ blacklist \subseteq Users
    BY DEF IInv, TypeOK, Relies, ReadBlacklist, At
<1>2. r \in TaskRecords
    BY <1>1 DEF TaskRecords
<1>3. task' = [task EXCEPT ![t] = r] /\ UNCHANGED <<row, owner_id, history>>
    BY DEF ReadBlacklist, IInv, TypeOK
<1>4. task'[t] = r /\ r.pc = "insert" /\ r.actor = task[t].actor /\ r.read = blacklist
    BY <1>1, <1>2, <1>3, OneTask DEF IInv, TypeOK, TaskRecords
<1>5. task[t].actor \in wanted \ missed /\ ~Registered(task[t].actor) => task[t].actor \in blacklist
    BY <1>1 DEF IInv, BlockedStay
<1>6. Relies(t)'
    BY <1>1, <1>3, <1>4, <1>5 DEF Relies, Registered, history
<1> QED
    BY <1>2, <1>3, <1>6, ReadOnly DEF ReadBlacklist

LEMMA ReadOwnersKeeps ==
    ASSUME IInv, NEW t \in Tasks, ReadOwners(t)
    PROVE  IInv'
<1> DEFINE r == [task[t] EXCEPT !.pc = "promote", !.read = Owners]
<1>1. /\ task[t] \in TaskRecords /\ task[t].actor \in Users /\ Owners \in SUBSET Users
      /\ task[t].actor = owner_id /\ Registered(task[t].actor)
    BY DEF IInv, TypeOK, Relies, ReadOwners, At, Owners
<1>2. r \in TaskRecords
    BY <1>1 DEF TaskRecords
<1>3. task' = [task EXCEPT ![t] = r] /\ UNCHANGED <<row, owner_id, history>>
    BY DEF ReadOwners, IInv, TypeOK
<1>4. task'[t] = r /\ r.pc = "promote" /\ r.actor = task[t].actor /\ r.read = Owners
    BY <1>1, <1>2, <1>3, OneTask DEF IInv, TypeOK, TaskRecords
<1> HIDE DEF r
<1>5. \A u \in Users : /\ row'[u].role = OWNER => u \in task'[t].read
                       /\ u \in task'[t].read => Registered(u)'
    BY <1>3, <1>4, RoleRanges DEF Registered, Owners
<1>6. Relies(t)'
    BY <1>1, <1>3, <1>4, <1>5 DEF Relies, Registered
<1> QED
    BY <1>2, <1>3, <1>6, ReadOnly DEF ReadOwners

-----------------------------------------------------------------------------
(* Operations that only read *)

LEMMA ReadForRoleKeeps ==
    ASSUME IInv, NEW t \in Tasks, ReadForRole(t)
    PROVE  IInv'
<1>1. task[t] \in TaskRecords /\ task[t].pc = "handler" /\ task[t].role <= OWNER
      /\ task[t].role \in NOBODY .. SYSTEM
    BY DEF IInv, TypeOK, Relies, ReadForRole, At, TaskRecords
<1>2. PICK v \in Users \ {task[t].actor}, role \in USER .. OWNER :
         /\ Registered(v) /\ task[t].role > role
         /\ task' = [task EXCEPT ![t].pc = "set_role", ![t].target = v,
                                 ![t].seen = row[v], ![t].new_role = role]
    BY DEF ReadForRole
<1> DEFINE r == [task[t] EXCEPT !.pc = "set_role", !.target = v, !.seen = row[v], !.new_role = role]
<1>3. role \in USER .. DEV /\ role \in NOBODY .. OWNER
    BY <1>1, <1>2, RoleRanges
<1>4. row[v] \in Rows
    BY DEF IInv, TypeOK
<1>5. r \in TaskRecords
    BY <1>1, <1>3, <1>4 DEF TaskRecords
<1>8. task' = [task EXCEPT ![t] = r]
    BY <1>2 DEF IInv, TypeOK
<1>6. task'[t] = r /\ r.pc = "set_role" /\ r.target = v /\ r.new_role = role
    BY <1>1, <1>8, <1>5, OneTask DEF IInv, TypeOK, TaskRecords
<1> HIDE DEF r
<1>7. Relies(t)'
    BY <1>2, <1>3, <1>6 DEF Relies, Registered, ReadForRole
<1> QED
    BY <1>5, <1>7, <1>8, ReadOnly DEF ReadForRole

LEMMA ReadsKeeps ==
    ASSUME IInv, NEW t \in Tasks, NEW v \in Users, Registered(v),
           NEW pc \in {"revoke_role", "toggle"}, Reads(t, v, pc),
           UNCHANGED <<row, owner_id, blacklist, history>>, events' = events \/ Event
    PROVE  IInv'
<1> DEFINE r == [task[t] EXCEPT !.pc = pc, !.target = v, !.seen = row[v]]
<1>1. task[t] \in TaskRecords /\ row[v] \in Rows
    BY DEF IInv, TypeOK
<1>2. r \in TaskRecords
    BY <1>1 DEF TaskRecords
<1>3. task' = [task EXCEPT ![t] = r]
    BY DEF Reads, IInv, TypeOK
<1>4. task'[t] = r /\ r.pc = pc /\ r.target = v
    BY <1>1, <1>2, <1>3, OneTask DEF IInv, TypeOK, TaskRecords
<1> HIDE DEF r
<1>5. Relies(t)'
    BY <1>4 DEF Relies, Registered
<1> QED
    BY <1>2, <1>3, <1>5, ReadOnly

LEMMA ReadForBlockKeeps ==
    ASSUME IInv, NEW t \in Tasks, ReadForBlock(t)
    PROVE  IInv'
<1>1. task[t] \in TaskRecords /\ task[t].actor \in Users \cup {Nobody, System}
      /\ task[t].role \in NOBODY .. SYSTEM
    BY DEF IInv, TypeOK, TaskRecords
<1>2. PICK v \in Users, a \in Users \cup {Nobody, System}, l \in NOBODY .. SYSTEM :
         task' = [task EXCEPT ![t] = [Idle EXCEPT !.pc = "block", !.actor = a, !.role = l,
                                                  !.target = v, !.seen = row[v]]]
    BY <1>1, RoleRanges DEF ReadForBlock
<1> DEFINE r == [Idle EXCEPT !.pc = "block", !.actor = a, !.role = l, !.target = v, !.seen = row[v]]
<1>3. row[v] \in Rows /\ (~Registered(v) <=> row[v] = Absent)
    BY RoleRanges DEF IInv, TypeOK, RowsAreAbsent, Registered, Absent
<1>4. r \in TaskRecords
    BY <1>3, Constants DEF TaskRecords, Idle
<1>5. r.pc = "block" /\ r.target = v /\ r.seen = row[v]
    BY DEF Idle
<1>6. task'[t] = r
    BY <1>2, <1>4, OneTask DEF IInv, TypeOK
<1> HIDE DEF r
<1>7. Relies(t)'
    BY <1>3, <1>5, <1>6 DEF Relies, Registered, ReadForBlock
<1>8. task' = [task EXCEPT ![t] = r]
    BY <1>2 DEF r
<1> QED
    BY <1>4, <1>7, <1>8, ReadOnly DEF ReadForBlock

-----------------------------------------------------------------------------
(* Operations that write a row and finish *)

LEMMA Stays ==
    ASSUME IInv
    PROVE  \A u \in wanted \ missed :
              /\ u \in Users
              /\ row[u].role # NOBODY => row[u].is_blocked = TRUE
              /\ row[u].role = NOBODY => u \in blacklist
<1> SUFFICES ASSUME NEW u \in wanted \ missed
             PROVE  /\ u \in Users
                    /\ row[u].role # NOBODY => row[u].is_blocked = TRUE
                    /\ row[u].role = NOBODY => u \in blacklist
    OBVIOUS
<1>1. u \in Users
    BY DEF IInv, TypeOK
<1>2. row[u].is_blocked \in BOOLEAN
    BY <1>1 DEF IInv, TypeOK, Rows
<1>3. IF row[u].role # NOBODY THEN row[u].is_blocked ELSE u \in blacklist
    BY DEF IInv, BlockedStay, Registered
<1> QED
    BY <1>1, <1>2, <1>3

LEMMA StayBlocked ==
    ASSUME \A u \in wanted' \ missed' :
              /\ row'[u].role # NOBODY => row'[u].is_blocked = TRUE
              /\ row'[u].role = NOBODY => u \in blacklist'
    PROVE  BlockedStay'
<1> SUFFICES ASSUME NEW u \in wanted' \ missed'
             PROVE  IF row'[u].role # NOBODY THEN row'[u].is_blocked ELSE u \in blacklist'
    BY DEF BlockedStay, Registered
<1>1. CASE row'[u].role # NOBODY
    BY <1>1
<1>2. CASE row'[u].role = NOBODY
    BY <1>2
<1> QED
    BY <1>1, <1>2

LEMMA WriteKeeps ==
    ASSUME IInv, NEW t \in Tasks, Finish(t), owner_id' = owner_id, blacklist' \subseteq Users,
           row' \in [Users -> Rows],
           \A u \in Users : /\ row[u].role = NOBODY => row'[u] = row[u]
                            /\ row[u].role # NOBODY => row'[u].role # NOBODY
                            /\ row'[u].role = OWNER => row[u].role = OWNER,
           missed' = missed, wanted' \subseteq Users,
           \A u \in Users : u \in wanted' /\ row[u].role = NOBODY => u \in wanted,
           BlockedStay', events' = events \/ Event
    PROVE  IInv'
<1>1. TypeOK'
    BY FinishEffect, TypeFrom DEF IInv, TypeOK
<1>2. RowsAreAbsent' /\ SingleOwner'
    BY DEF IInv, RowsAreAbsent, SingleOwner, Registered
<1>3. Considerate(Tasks \ {t})
    BY DEF Considerate, Registered
<1> QED
    BY <1>1, <1>2, <1>3, FinishEffect, IdleRelies, StepKeeps

\* A change of the role of somebody registered, to another than the owner's.
LEMMA RoleKeeps ==
    ASSUME IInv, NEW t \in Tasks, Finish(t), UNCHANGED <<owner_id, blacklist, history, events>>,
           NEW v \in Users, Registered(v), NEW l \in USER .. DEV,
           row' = row \/ row' = [row EXCEPT ![v].role = l]
    PROVE  IInv'
<1>1. row' \in [Users -> Rows]
    BY RoleRanges DEF IInv, TypeOK, Rows
<1>2. \A u \in Users : /\ u # v => row'[u] = row[u]
                       /\ row'[u].is_blocked = row[u].is_blocked
    BY DEF IInv, TypeOK, Rows
<1>0. /\ owner_id' = owner_id /\ missed' = missed /\ wanted' = wanted
      /\ blacklist' = blacklist /\ events' = events
    BY DEF history
<1>3. row' = row \/ row'[v].role = l
    BY DEF IInv, TypeOK, Rows
<1>4. \A u \in Users : /\ row[u].role = NOBODY => row'[u] = row[u]
                       /\ row[u].role # NOBODY => row'[u].role # NOBODY
                       /\ row'[u].role = OWNER => row[u].role = OWNER
    BY <1>2, <1>3, RoleRanges DEF Registered
<1>5. BlockedStay'
  <2> SUFFICES ASSUME NEW u \in wanted' \ missed'
               PROVE  /\ row'[u].role # NOBODY => row'[u].is_blocked = TRUE
                      /\ row'[u].role = NOBODY => u \in blacklist'
    BY StayBlocked
  <2>1. u \in wanted \ missed /\ u \in Users
    BY <1>0, Stays
  <2>2. /\ row[u].role # NOBODY => row[u].is_blocked = TRUE
        /\ row[u].role = NOBODY => u \in blacklist
    BY <2>1, Stays
  <2> QED
    BY <1>0, <1>2, <1>4, <2>1, <2>2
<1>6. blacklist' \subseteq Users /\ wanted' \subseteq Users
    BY <1>0 DEF IInv, TypeOK
<1> QED
    BY <1>0, <1>1, <1>4, <1>5, <1>6, WriteKeeps

LEMMA SetUserRoleKeeps ==
    ASSUME IInv, NEW t \in Tasks, SetUserRole(t)
    PROVE  IInv'
<1>1. task[t].target \in Users /\ Registered(task[t].target) /\ task[t].new_role \in USER .. DEV
    BY DEF IInv, Relies, SetUserRole, At
<1> QED
    BY <1>1, RoleKeeps DEF SetUserRole

LEMMA RevokeRoleKeeps ==
    ASSUME IInv, NEW t \in Tasks, RevokeRole(t)
    PROVE  IInv'
<1>1. task[t].target \in Users /\ Registered(task[t].target) /\ USER \in USER .. DEV
    BY RoleRanges DEF IInv, Relies, RevokeRole, At
<1> QED
    BY <1>1, RoleKeeps DEF RevokeRole

LEMMA ToggleKeeps ==
    ASSUME IInv, NEW t \in Tasks, ToggleUserBlockedStatus(t)
    PROVE  IInv'
<1> DEFINE v == task[t].target
<1>1. v \in Users /\ row[v].role # NOBODY /\ row[v].is_blocked \in BOOLEAN
    BY DEF IInv, TypeOK, Rows, Relies, Registered, ToggleUserBlockedStatus, At
<1>2. row' = [row EXCEPT ![v].is_blocked = ~row[v].is_blocked]
    BY DEF ToggleUserBlockedStatus
<1>3. row' \in [Users -> Rows] /\ row'[v].is_blocked = ~row[v].is_blocked
    BY <1>1, <1>2 DEF IInv, TypeOK, Rows
<1>4. \A u \in Users : (u # v => row'[u] = row[u]) /\ row'[u].role = row[u].role
    BY <1>1, <1>2 DEF IInv, TypeOK, Rows
<1>5. /\ row[v].is_blocked => wanted' = wanted \ {v}
      /\ ~row[v].is_blocked => wanted' = wanted \cup {v}
    BY DEF ToggleUserBlockedStatus
<1>6. /\ owner_id' = owner_id /\ missed' = missed /\ blacklist' = blacklist
      /\ events' = events /\ Finish(t)
    BY DEF ToggleUserBlockedStatus
<1>7. wanted' \subseteq Users /\ blacklist' \subseteq Users
    BY <1>1, <1>5, <1>6 DEF IInv, TypeOK
<1>8. BlockedStay'
  <2> SUFFICES ASSUME NEW u \in wanted' \ missed'
               PROVE  /\ row'[u].role # NOBODY => row'[u].is_blocked = TRUE
                      /\ row'[u].role = NOBODY => u \in blacklist'
    BY StayBlocked
  <2>1. CASE u = v
    BY <1>1, <1>3, <1>4, <1>5, <2>1
  <2>2. CASE u # v
    <3>1. u \in wanted \ missed /\ u \in Users
      BY <1>5, <1>6, <1>7, <2>2
    <3> QED
      BY <1>4, <1>6, <2>2, <3>1, Stays
  <2> QED
    BY <2>1, <2>2
<1>9. \A u \in Users : u \in wanted' /\ row[u].role = NOBODY => u \in wanted
    BY <1>1, <1>5
<1>10. \A u \in Users : /\ row[u].role = NOBODY => row'[u] = row[u]
                        /\ row[u].role # NOBODY => row'[u].role # NOBODY
                        /\ row'[u].role = OWNER => row[u].role = OWNER
    BY <1>1, <1>4
<1> QED
    BY <1>3, <1>6, <1>7, <1>8, <1>9, <1>10, WriteKeeps

LEMMA UnblockAllKeeps ==
    ASSUME IInv, NEW t \in Tasks, UnblockAllUsers(t)
    PROVE  IInv'
<1>1. /\ row' = [u \in Users |-> [row[u] EXCEPT !.is_blocked = FALSE]]
      /\ wanted' = {u \in wanted : row[u].role = NOBODY}
      /\ owner_id' = owner_id /\ missed' = missed /\ blacklist' = blacklist
      /\ Event /\ Finish(t)
    BY DEF UnblockAllUsers, Registered
<1>2. row' \in [Users -> Rows] /\ \A u \in Users : row'[u].role = row[u].role
    BY <1>1 DEF IInv, TypeOK, Rows
<1>3. ASSUME NEW u \in Users, row[u].role = NOBODY
      PROVE  row'[u] = row[u]
  <2>1. row[u] = Absent
    BY <1>3 DEF IInv, RowsAreAbsent, Registered
  <2>2. row'[u] = [Absent EXCEPT !.is_blocked = FALSE]
    BY <1>1, <2>1
  <2> QED
    BY <2>1, <2>2 DEF Absent
<1>4. wanted' \subseteq Users /\ wanted' \subseteq wanted /\ blacklist' \subseteq Users
    BY <1>1 DEF IInv, TypeOK
<1>5. BlockedStay'
    BY <1>1, <1>2, <1>4, Stays, StayBlocked
<1> QED
    BY <1>1, <1>2, <1>3, <1>4, <1>5, WriteKeeps

\* The list is emptied, and nobody is then held to be on it.
LEMMA ClearKeeps ==
    ASSUME IInv, NEW t \in Tasks, ClearBlockedIds(t)
    PROVE  IInv'
<1>1. /\ row' = row /\ blacklist' = {} /\ wanted' = {u \in wanted : row[u].role # NOBODY}
      /\ owner_id' = owner_id /\ missed' = missed /\ Event /\ Finish(t)
    BY DEF ClearBlockedIds, Registered
<1>2. row' \in [Users -> Rows] /\ wanted' \subseteq Users /\ wanted' \subseteq wanted
    BY <1>1 DEF IInv, TypeOK
<1>3. BlockedStay'
    BY <1>1, <1>2, Stays, StayBlocked
<1> QED
    BY <1>1, <1>2, <1>3, WriteKeeps

-----------------------------------------------------------------------------
(* Blocking by ids *)

LEMMA BlockRegisteredKeeps ==
    ASSUME IInv, NEW t \in Tasks, BlockRegistered(t)
    PROVE  IInv'
<1> DEFINE v == task[t].target
<1>1. /\ task[t] \in TaskRecords /\ v \in Users /\ row[v] \in Rows /\ task[t].pc = "block"
      /\ blacklist \subseteq Users /\ wanted \subseteq Users
    BY DEF IInv, TypeOK, Relies, BlockRegistered, At
<1>2. /\ owner_id' = owner_id /\ blacklist' = blacklist /\ missed' = missed /\ events' = events
    BY DEF BlockRegistered
<1>3. CASE task[t].seen = Absent
  <2> DEFINE r == [task[t] EXCEPT !.pc = "list", !.read = blacklist]
  <2>1. r \in TaskRecords
    BY <1>1 DEF TaskRecords
  <2>2. task' = [task EXCEPT ![t] = r] /\ UNCHANGED <<row, owner_id, blacklist, history>>
    BY <1>3 DEF BlockRegistered, IInv, TypeOK, history
  <2>3. task'[t] = r /\ r.pc = "list" /\ r.target = v /\ r.seen = Absent
    BY <1>1, <1>3, <2>1, <2>2, OneTask DEF IInv, TypeOK, TaskRecords
  <2>4. ~Registered(v) \/ v \in missed
    BY <1>1, <1>3 DEF IInv, Relies
  <2> HIDE DEF r
  <2>5. Relies(t)'
    BY <1>1, <1>2, <2>2, <2>3, <2>4 DEF Relies, Registered
  <2> QED
    BY <1>2, <2>1, <2>2, <2>5, ReadOnly
<1>4. CASE task[t].seen # Absent
  <2>1. row[v].role # NOBODY
    BY <1>1, <1>4 DEF IInv, Relies, Registered
  <2>2. /\ row' = row \/ row' = [row EXCEPT ![v].is_blocked = TRUE]
        /\ wanted' = wanted \/ (wanted' = wanted \cup {v} /\ row'[v].is_blocked)
        /\ Finish(t)
    BY <1>4 DEF BlockRegistered
  <2>3. row' \in [Users -> Rows]
    <3>1. row \in [Users -> Rows] /\ [row[v] EXCEPT !.is_blocked = TRUE] \in Rows
      BY <1>1 DEF IInv, TypeOK, Rows
    <3> QED
      BY <1>1, <2>2, <3>1
  <2>4. \A u \in Users : /\ u # v => row'[u] = row[u]
                         /\ row'[u].role = row[u].role
                         /\ row[u].is_blocked = TRUE => row'[u].is_blocked = TRUE
    <3>1. CASE row' = row
      BY <3>1
    <3>2. CASE row' = [row EXCEPT ![v].is_blocked = TRUE]
      <4>1. /\ \A u \in Users : u # v => row'[u] = row[u]
            /\ row'[v] = [row[v] EXCEPT !.is_blocked = TRUE]
        BY <1>1, <3>2 DEF IInv, TypeOK
      <4> QED
        BY <1>1, <4>1 DEF Rows
    <3> QED
      BY <2>2, <3>1, <3>2
  <2>5. row'[v].is_blocked \in BOOLEAN
    BY <1>1, <2>3 DEF Rows
  <2>6. BlockedStay'
    <3> SUFFICES ASSUME NEW u \in wanted' \ missed'
                 PROVE  /\ row'[u].role # NOBODY => row'[u].is_blocked = TRUE
                        /\ row'[u].role = NOBODY => u \in blacklist'
      BY StayBlocked
    <3>1. CASE u \in wanted
      <4>1. u \in wanted \ missed
        BY <1>2, <3>1
      <4> QED
        BY <1>2, <2>4, <4>1, Stays
    <3>2. CASE u \notin wanted
      <4>1. u = v /\ row'[v].is_blocked
        BY <2>2, <3>2
      <4> QED
        BY <1>1, <2>1, <2>4, <2>5, <4>1
    <3> QED
      BY <3>1, <3>2
  <2>7. wanted' \subseteq Users /\ blacklist' \subseteq Users
    BY <1>1, <1>2, <2>2
  <2>8. \A u \in Users : u \in wanted' /\ row[u].role = NOBODY => u \in wanted
    BY <2>1, <2>2
  <2>9. \A u \in Users : /\ row[u].role = NOBODY => row'[u] = row[u]
                         /\ row[u].role # NOBODY => row'[u].role # NOBODY
                         /\ row'[u].role = OWNER => row[u].role = OWNER
    BY <2>1, <2>4
  <2> QED
    BY <1>2, <2>2, <2>3, <2>6, <2>7, <2>8, <2>9, WriteKeeps
<1> QED
  BY <1>3, <1>4

\* The id is on the list that is written, or noted as missed; an id that the
\* list loses, and one whose registration has read the list, are noted too.
LEMMA AddToBlacklistKeeps ==
    ASSUME IInv, NEW t \in Tasks, AddToBlacklist(t)
    PROVE  IInv'
<1> DEFINE v == task[t].target
           written == IF v \in task[t].read THEN blacklist ELSE task[t].read \cup {v}
<1>1. /\ v \in Users /\ task[t].read \subseteq Users /\ task[t].seen = Absent
      /\ row[v].role = NOBODY \/ v \in missed
    BY DEF IInv, TypeOK, TaskRecords, Relies, Registered, AddToBlacklist, At
<1>2. /\ blacklist \subseteq Users /\ wanted \subseteq Users /\ missed \subseteq Users
      /\ written \subseteq Users
    BY <1>1 DEF IInv, TypeOK
<1> DEFINE Inserting(u) == \E s \in Tasks : At(s, "insert") /\ task[s].actor = u
<1>3. /\ blacklist' = written /\ wanted' = wanted \cup {v}
      /\ missed' = missed \cup (blacklist \ written) \cup {u \in written : Inserting(u)}
                       \cup {u \in {v} : u \notin written}
      /\ row' = row /\ owner_id' = owner_id /\ events' = events /\ Finish(t)
    BY DEF AddToBlacklist
<1> HIDE DEF written, Inserting
<1>4. /\ \A u \in missed : u \in missed'
      /\ \A u \in blacklist : u \in written \/ u \in missed'
      /\ \A u \in written : Inserting(u) => u \in missed'
      /\ v \in written \/ v \in missed'
      /\ missed' \subseteq Users /\ wanted' \subseteq Users /\ blacklist' \subseteq Users
    BY <1>1, <1>2, <1>3
<1>5. BlockedStay'
  <2> SUFFICES ASSUME NEW u \in wanted' \ missed'
               PROVE  /\ row'[u].role # NOBODY => row'[u].is_blocked = TRUE
                      /\ row'[u].role = NOBODY => u \in blacklist'
    BY StayBlocked
  <2>1. CASE u = v
    BY <1>1, <1>3, <1>4, <2>1
  <2>2. CASE u # v
    <3>1. u \in wanted \ missed
      BY <1>3, <1>4, <2>2
    <3> QED
      BY <1>3, <1>4, <3>1, Stays
  <2> QED
    BY <2>1, <2>2
<1>6. Considerate(Tasks \ {t})
  <2>1. ASSUME NEW u \in Users, NEW s \in Tasks \ {t}, At(s, "insert"), task[s].actor = u,
               u \in wanted' \ missed'
        PROVE  u \in wanted \ missed
    <3>1. Inserting(u)
      BY <2>1 DEF Inserting
    <3>2. u # v
      BY <1>4, <2>1, <3>1
    <3> QED
      BY <1>3, <1>4, <2>1, <3>2
  <2>2. missed \subseteq missed' /\ row' = row /\ owner_id' = owner_id
    BY <1>3, <1>4
  <2> QED
    BY <2>1, <2>2 DEF Considerate, Registered
<1>7. TypeOK'
    BY <1>3, <1>4, FinishEffect, TypeFrom DEF IInv, TypeOK
<1>8. RowsAreAbsent' /\ SingleOwner'
    BY <1>3 DEF IInv, RowsAreAbsent, SingleOwner, Registered
<1> QED
    BY <1>3, <1>5, <1>6, <1>7, <1>8, FinishEffect, IdleRelies, StepKeeps

-----------------------------------------------------------------------------
(* A row is inserted, and the role of the owner is transferred *)

LEMMA DemotedRows ==
    ASSUME IInv, NEW S \in SUBSET Users
    PROVE  /\ Demoted(S) \in [Users -> Rows]
           /\ \A u \in Users : /\ Demoted(S)[u].is_blocked = row[u].is_blocked
                               /\ u \notin S => Demoted(S)[u] = row[u]
                               /\ u \in S => Demoted(S)[u].role = DEV
<1>1. \A u \in Users : row[u] \in Rows /\ Demoted(S)[u] = IF u \in S THEN [row[u] EXCEPT !.role = DEV] ELSE row[u]
    BY DEF IInv, TypeOK, Demoted
<1>2. Demoted(S) = [u \in Users |-> IF u \in S THEN [row[u] EXCEPT !.role = DEV] ELSE row[u]]
    BY DEF Demoted
<1>3. \A u \in Users : [row[u] EXCEPT !.role = DEV] \in Rows
  <2>1. ASSUME NEW r \in Rows PROVE [r EXCEPT !.role = DEV] \in Rows
    BY RoleRanges DEF Rows
  <2> QED
    BY <1>1, <2>1
<1>4. \A u \in Users : Demoted(S)[u].is_blocked = row[u].is_blocked
                       /\ (u \in S => Demoted(S)[u].role = DEV)
    BY <1>1 DEF Rows
<1> QED
    BY <1>1, <1>2, <1>3, <1>4

LEMMA TransferKeeps ==
    ASSUME IInv, NEW t \in Tasks, TransferOwnerRole(t)
    PROVE  IInv'
<1> DEFINE w == task[t].actor
           S == task[t].read
<1>1. /\ task[t] \in TaskRecords /\ w \in Users /\ S \in SUBSET Users /\ w = owner_id
      /\ row[w].role # NOBODY
      /\ \A u \in Users : row[u].role = OWNER => u \in S \/ u = owner_id
      /\ \A u \in Users : u \in S => row[u].role # NOBODY
    BY DEF IInv, TypeOK, TaskRecords, Relies, Registered, TransferOwnerRole, At
<1>2. /\ row' = [Demoted(S) EXCEPT ![w].role = OWNER] /\ owner_id' = owner_id
      /\ blacklist' = blacklist /\ wanted' = wanted /\ missed' = missed /\ events' = events
    BY DEF TransferOwnerRole, history
<1> HIDE DEF S
<1>3. row' \in [Users -> Rows] /\ row'[w].role = OWNER
    BY <1>1, <1>2, DemotedRows, RoleRanges DEF Rows
<1>4. \A u \in Users : /\ u # w => row'[u] = Demoted(S)[u]
                       /\ row'[u].is_blocked = row[u].is_blocked
    BY <1>1, <1>2, DemotedRows DEF Rows
<1>5. \A u \in Users : /\ row'[u].role = OWNER => u = w
                       /\ row[u].role = NOBODY => row'[u] = row[u]
                       /\ row[u].role # NOBODY => row'[u].role # NOBODY
  <2> SUFFICES ASSUME NEW u \in Users, u # w
               PROVE  /\ row'[u].role # OWNER
                      /\ row[u].role = NOBODY => row'[u] = row[u]
                      /\ row[u].role # NOBODY => row'[u].role # NOBODY
    BY <1>1, <1>3, RoleRanges
  <2>1. CASE u \in S
    BY <1>1, <1>4, <2>1, DemotedRows, RoleRanges
  <2>2. CASE u \notin S
    BY <1>1, <1>4, <2>2, DemotedRows
  <2> QED
    BY <2>1, <2>2
<1> DEFINE l == IF task[t].role = NOBODY THEN NOBODY ELSE OWNER
           r == [task[t] EXCEPT !.pc = "handler", !.read = {}, !.role = l]
<1>6. l \in NOBODY .. OWNER
    BY RoleRanges
<1>7. task' = [task EXCEPT ![t] = r]
    BY DEF TransferOwnerRole, IInv, TypeOK
<1> HIDE DEF l
<1>8. r \in TaskRecords /\ r.pc = "handler" /\ r.role = l
    BY <1>1, <1>6, RoleRanges DEF TaskRecords
<1>9. /\ task' \in [Tasks -> TaskRecords] /\ task'[t] = r
      /\ \A s \in Tasks \ {t} : task'[s] = task[s]
    BY <1>7, <1>8, OneTask DEF IInv, TypeOK
<1> HIDE DEF r
<1>10. Relies(t)'
    BY <1>6, <1>8, <1>9, RoleRanges DEF Relies
<1>11. TypeOK'
    BY <1>2, <1>3, <1>9, TypeFrom DEF IInv, TypeOK
<1>12. RowsAreAbsent' /\ SingleOwner'
    BY <1>5 DEF IInv, RowsAreAbsent, SingleOwner, Registered
<1>13. BlockedStay'
  <2> SUFFICES ASSUME NEW u \in wanted' \ missed'
               PROVE  /\ row'[u].role # NOBODY => row'[u].is_blocked = TRUE
                      /\ row'[u].role = NOBODY => u \in blacklist'
    BY StayBlocked
  <2>1. u \in wanted \ missed /\ u \in Users
    BY <1>2, Stays
  <2> QED
    BY <1>2, <1>4, <1>5, <2>1, Stays
<1>14. Considerate(Tasks \ {t})
    BY <1>1, <1>2, <1>5 DEF Considerate, Registered
<1> QED
    BY <1>9, <1>10, <1>11, <1>12, <1>13, <1>14, StepKeeps

\* The row of a new user. In the bot everybody else loses the role of the owner
\* when the user of the configuration gets it.
LEMMA InsertUserKeeps ==
    ASSUME IInv, NEW t \in Tasks, InsertUser(t)
    PROVE  IInv'
<1> DEFINE w == task[t].actor
           given == IF w = owner_id /\ ~task[t].web THEN OWNER ELSE USER
           blocked == w \in task[t].read
<1>1. /\ task[t] \in TaskRecords /\ w \in Users /\ task[t].pc = "insert"
      /\ row[w].role = NOBODY /\ w \in wanted \ missed => blocked = TRUE
    BY DEF IInv, TypeOK, Relies, Registered, InsertUser, At
<1>2. /\ owner_id' = owner_id /\ blacklist' = blacklist /\ wanted' = wanted /\ events' = events
    BY DEF InsertUser
<1>3. CASE row[w].role # NOBODY
  <2>1. Finish(t) /\ row' = row /\ missed' = missed
    BY <1>3 DEF InsertUser, Registered
  <2> QED
    BY <1>2, <2>1, FinishOnly DEF history
<1>4. CASE row[w].role = NOBODY
  <2>1. /\ row' = [(IF given = OWNER THEN Demoted(Owners) ELSE row) EXCEPT ![w] =
                       [role |-> given, is_blocked |-> blocked]]
        /\ missed' = IF BlockingUnknown(w) THEN missed \cup {w} ELSE missed
        /\ \/ Finish(t)
           \/ task' = [task EXCEPT ![t] = [task[t] EXCEPT !.pc = "handler", !.role = given, !.read = {}]]
    BY <1>4 DEF InsertUser, Registered, IInv, TypeOK
  <2>2. given \in {OWNER, USER} /\ (given = OWNER => w = owner_id) /\ blocked \in BOOLEAN
    BY RoleRanges
  <2> HIDE DEF given, blocked
  <2>3. PICK base \in [Users -> Rows] :
           /\ row' = [base EXCEPT ![w] = [role |-> given, is_blocked |-> blocked]]
           /\ \A u \in Users : /\ base[u].is_blocked = row[u].is_blocked
                               /\ row[u].role # OWNER => base[u] = row[u]
                               /\ row[u].role = OWNER => base[u].role \in {OWNER, DEV}
                               /\ given = OWNER => base[u].role # OWNER
    <3>1. CASE given = OWNER
      <4>1. Owners \in SUBSET Users /\ \A u \in Users : u \in Owners <=> row[u].role = OWNER
        BY DEF Owners
      <4>2. \A u \in Users : /\ Demoted(Owners)[u].is_blocked = row[u].is_blocked
                             /\ row[u].role # OWNER => Demoted(Owners)[u] = row[u]
                             /\ row[u].role = OWNER => Demoted(Owners)[u].role = DEV
        BY <4>1, DemotedRows
      <4>3. ASSUME NEW u \in Users PROVE Demoted(Owners)[u].role # OWNER
        <5>1. CASE row[u].role = OWNER
          <6>1. DEV # OWNER
            BY RoleRanges
          <6> QED
            BY <4>2, <5>1, <6>1
        <5>2. CASE row[u].role # OWNER
          BY <4>2, <5>2
        <5> QED
          BY <5>1, <5>2
      <4>4. Demoted(Owners) \in [Users -> Rows]
        BY <4>1, DemotedRows
      <4> QED
        BY <2>1, <3>1, <4>2, <4>3, <4>4
    <3>2. CASE given # OWNER
      <4>1. row \in [Users -> Rows]
        BY DEF IInv, TypeOK
      <4> QED
        BY <2>1, <3>2, <4>1
    <3> QED
      BY <3>1, <3>2
  <2>4. [role |-> given, is_blocked |-> blocked] \in Rows
    BY <2>2, RoleRanges DEF Rows
  <2>5. /\ row' \in [Users -> Rows]
        /\ row'[w] = [role |-> given, is_blocked |-> blocked]
        /\ \A u \in Users \ {w} : row'[u] = base[u]
    BY <1>1, <2>3, <2>4
  <2>6. row'[w].role = given /\ row'[w].is_blocked = blocked
    BY <2>5
  <2>7. \A u \in Users \ {w} : /\ row'[u].is_blocked = row[u].is_blocked
                               /\ row[u].role = NOBODY => row'[u] = row[u]
                               /\ row[u].role # NOBODY => row'[u].role # NOBODY
                               /\ row'[u].role = OWNER => row[u].role = OWNER /\ given # OWNER
    BY <2>3, <2>5, RoleRanges
  <2>8. row'[w].role # NOBODY
    BY <2>2, <2>6, RoleRanges
  <2>9. missed \subseteq missed' /\ missed' \subseteq Users
        /\ (BlockingUnknown(w) => w \in missed')
    BY <1>1, <2>1 DEF IInv, TypeOK
  <2>10. /\ task' \in [Tasks -> TaskRecords] /\ \A s \in Tasks \ {t} : task'[s] = task[s]
         /\ Relies(t)'
    <3>1. CASE Finish(t)
      BY <3>1, FinishEffect, IdleRelies
    <3>2. CASE task' = [task EXCEPT ![t] = [task[t] EXCEPT !.pc = "handler", !.role = given, !.read = {}]]
      <4> DEFINE r == [task[t] EXCEPT !.pc = "handler", !.role = given, !.read = {}]
      <4>1. r \in TaskRecords /\ r.pc = "handler" /\ r.role = given
        BY <1>1, <2>2, RoleRanges DEF TaskRecords
      <4>2. /\ task' \in [Tasks -> TaskRecords] /\ task'[t] = r
            /\ \A s \in Tasks \ {t} : task'[s] = task[s]
        BY <3>2, <4>1, OneTask DEF IInv, TypeOK
      <4> HIDE DEF r
      <4>3. Relies(t)'
        BY <2>2, <4>1, <4>2, RoleRanges DEF Relies
      <4> QED
        BY <4>2, <4>3
    <3> QED
      BY <2>1, <3>1, <3>2
  <2>11. TypeOK'
    BY <1>2, <2>5, <2>9, <2>10, TypeFrom DEF IInv, TypeOK
  <2>12. RowsAreAbsent'
    <3>1. \A u \in Users : row[u].role = NOBODY => row[u] = Absent
      BY DEF IInv, RowsAreAbsent, Registered
    <3> QED
      BY <2>7, <2>8, <3>1 DEF RowsAreAbsent, Registered
  <2>13. SingleOwner'
    <3>1. \A u, v \in Users : row[u].role = OWNER /\ row[v].role = OWNER => u = v
      BY DEF IInv, SingleOwner
    <3>2. \A u, v \in Users : row'[u].role = OWNER /\ row'[v].role = OWNER => u = v
      <4>1. CASE given = OWNER
        BY <2>7, <4>1
      <4>2. CASE given # OWNER
        BY <2>6, <2>7, <3>1, <4>2
      <4> QED
        BY <4>1, <4>2
    <3> QED
      BY <3>2 DEF SingleOwner
  <2>14. BlockedStay'
    <3> SUFFICES ASSUME NEW u \in wanted' \ missed'
                 PROVE  /\ row'[u].role # NOBODY => row'[u].is_blocked = TRUE
                        /\ row'[u].role = NOBODY => u \in blacklist'
      BY StayBlocked
    <3>1. u \in wanted \ missed /\ u \in Users
      BY <1>2, <2>9, Stays
    <3>2. CASE u = w
      BY <1>1, <1>4, <2>6, <2>8, <3>1, <3>2
    <3>3. CASE u # w
      BY <1>2, <2>7, <3>1, <3>3, Stays
    <3> QED
      BY <3>2, <3>3
  <2>15. Considerate(Tasks \ {t})
    <3>1. \A u \in Users : /\ row[u].role # NOBODY => row'[u].role # NOBODY
                           /\ row'[u].role = OWNER => row[u].role = OWNER \/ u = owner_id
                           /\ row[u].role = NOBODY /\ row'[u].role # NOBODY => u = w
      BY <1>4, <2>2, <2>6, <2>7, <2>8
    <3> QED
      BY <1>2, <2>9, <3>1 DEF Considerate, Registered
  <2> QED
    BY <2>10, <2>11, <2>12, <2>13, <2>14, <2>15, StepKeeps
<1> QED
  BY <1>3, <1>4

\* A row that is made without reading the list: who should be on it is noted.
LEMMA NewRowKeeps ==
    ASSUME IInv, NEW w \in Users, ~Registered(w), NEW blocked \in BOOLEAN, NewRow(w, blocked),
           Event, UNCHANGED <<owner_id, blacklist, task>>
    PROVE  IInv'
<1>1. /\ row' = [row EXCEPT ![w] = [role |-> USER, is_blocked |-> blocked]]
      /\ wanted' = IF blocked THEN wanted \cup {w} ELSE wanted
      /\ missed' = IF BlockingUnknown(w) \/ (w \in wanted /\ ~blocked)
                   THEN missed \cup {w} ELSE missed
      /\ owner_id' = owner_id /\ blacklist' = blacklist /\ task' = task
    BY DEF NewRow
<1>2. [role |-> USER, is_blocked |-> blocked] \in Rows
    BY RoleRanges DEF Rows
<1>3. /\ row' \in [Users -> Rows] /\ row'[w].role = USER /\ row'[w].is_blocked = blocked
      /\ \A u \in Users \ {w} : row'[u] = row[u]
    BY <1>1, <1>2 DEF IInv, TypeOK
<1>4. /\ row[w].role = NOBODY /\ row'[w].role # NOBODY /\ row'[w].role # OWNER
      /\ missed \subseteq missed' /\ missed' \subseteq Users /\ wanted' \subseteq Users
      /\ BlockingUnknown(w) => w \in missed'
      /\ wanted' \subseteq wanted \cup {w}
      /\ w \in wanted' \ missed' => blocked
    BY <1>1, <1>3, RoleRanges DEF IInv, TypeOK, Registered
<1>5. TypeOK'
    BY <1>1, <1>3, <1>4, TypeFrom DEF IInv, TypeOK
<1>6. RowsAreAbsent' /\ SingleOwner'
    BY <1>3, <1>4 DEF IInv, RowsAreAbsent, SingleOwner, Registered
<1>7. BlockedStay'
  <2> SUFFICES ASSUME NEW u \in wanted' \ missed'
               PROVE  /\ row'[u].role # NOBODY => row'[u].is_blocked = TRUE
                      /\ row'[u].role = NOBODY => u \in blacklist'
    BY StayBlocked
  <2>1. CASE u = w
    BY <1>3, <1>4, <2>1
  <2>2. CASE u # w
    <3>1. u \in wanted \ missed
      BY <1>4, <2>2
    <3> QED
      BY <1>1, <1>3, <2>2, <3>1, Stays
  <2> QED
    BY <2>1, <2>2
<1>8. Considerate(Tasks)
  <2>1. \A u \in Users : /\ row[u].role # NOBODY => row'[u].role # NOBODY
                         /\ row'[u].role = OWNER => row[u].role = OWNER
                         /\ row[u].role = NOBODY /\ row'[u].role # NOBODY => u = w
                         /\ row'[u].role = NOBODY => u # w
    BY <1>3, <1>4
  <2> QED
    BY <1>1, <1>4, <2>1 DEF Considerate, Registered
<1>9. \A t \in Tasks : Relies(t)'
    BY <1>1, <1>8, OthersRely
<1> QED
    BY <1>5, <1>6, <1>7, <1>9 DEF IInv

-----------------------------------------------------------------------------
(* The invariant *)

LEMMA RestartKeeps ==
    ASSUME IInv, Restart
    PROVE  IInv'
<1>1. /\ row' = row /\ blacklist' = blacklist /\ wanted' = wanted /\ missed' = missed
      /\ owner_id' \in Users /\ task' = [t \in Tasks |-> Idle] /\ Event
    BY DEF Restart, history
<1>2. task' \in [Tasks -> TaskRecords] /\ \A t \in Tasks : task'[t] = Idle
    BY <1>1, Constants
<1>3. TypeOK'
    BY <1>1, <1>2 DEF IInv, TypeOK, Event
<1>4. RowsAreAbsent' /\ SingleOwner'
    BY <1>1 DEF IInv, RowsAreAbsent, SingleOwner, Registered
<1>5. BlockedStay'
    BY <1>1, Stays, StayBlocked
<1> QED
    BY <1>2, <1>3, <1>4, <1>5, IdleRelies DEF IInv

LEMMA Initially == Init => IInv
<1> SUFFICES ASSUME Init PROVE IInv
    OBVIOUS
<1>1. /\ row = [u \in Users |-> Absent] /\ owner_id \in Users /\ blacklist = {}
      /\ task = [t \in Tasks |-> Idle] /\ wanted = {} /\ missed = {} /\ events = 0
    BY DEF Init
<1>2. TypeOK
    BY <1>1, Constants DEF TypeOK
<1>3. RowsAreAbsent /\ SingleOwner /\ BlockedStay
    BY <1>1, RoleRanges DEF RowsAreAbsent, SingleOwner, BlockedStay, Absent
<1>4. \A t \in Tasks : Relies(t)
    BY <1>1 DEF Relies, Idle
<1> QED
    BY <1>2, <1>3, <1>4 DEF IInv

LEMMA Kept == IInv /\ [Next]_vars => IInv'
<1> SUFFICES ASSUME IInv, [Next]_vars PROVE IInv'
    OBVIOUS
<1>1. CASE UNCHANGED vars
  <2>1. /\ row' = row /\ owner_id' = owner_id /\ blacklist' = blacklist /\ task' = task
        /\ wanted' = wanted /\ missed' = missed /\ events' = events
    BY <1>1 DEF vars, history
  <2> QED
    BY <2>1 DEF IInv, TypeOK, RowsAreAbsent, SingleOwner, BlockedStay, Relies, Registered
<1>2. CASE Restart
    BY <1>2, RestartKeeps
<1>3. ASSUME NEW t \in Tasks, Load(t) PROVE IInv'
    BY <1>3, CheckAccessKeeps, ChatMemberKeeps, WebLoginKeeps, LoadUserKeeps, ReadBlacklistKeeps,
       InsertUserKeeps, ReadOwnersKeeps, TransferKeeps DEF Load
<1>4. ASSUME NEW t \in Tasks, Operate(t) PROVE IInv'
  <2>1. CASE HandleOther(t)
      BY <2>1, FinishOnly DEF HandleOther
  <2>2. CASE ReadForRevoke(t)
      BY <2>2, ReadsKeeps DEF ReadForRevoke
  <2>3. CASE ReadForToggle(t)
      BY <2>3, ReadsKeeps DEF ReadForToggle
  <2> QED
      BY <1>4, <2>1, <2>2, <2>3, ReadForRoleKeeps, SetUserRoleKeeps, RevokeRoleKeeps, ToggleKeeps,
         UnblockAllKeeps, ClearKeeps, ReadForBlockKeeps, BlockRegisteredKeeps, AddToBlacklistKeeps
         DEF Operate
<1>5. ASSUME NEW u \in Users, SyncRemnaUser(u) \/ LinkTelegram(u) PROVE IInv'
    BY <1>5, NewRowKeeps DEF SyncRemnaUser, LinkTelegram
<1> QED
    BY <1>1, <1>2, <1>3, <1>4, <1>5 DEF Next

\* Every reachable state satisfies the inductive invariant.
THEOREM Invariance == Spec => []IInv
    BY Initially, Kept, PTL DEF Spec

-----------------------------------------------------------------------------
(* What is shown of roles and blocking *)

\* The variables keep their types: what requests read of each other's rows is
\* always a row, and a role is always one of the code's roles.
THEOREM TypeCorrect == Spec => []TypeOK
<1>1. IInv => TypeOK
    BY DEF IInv
<1> QED
    BY <1>1, Invariance, PTL

\* At no time do two users have the role of the owner (registration.py 92-106,
\* roles.py 114-147).
THEOREM SingleOwnerHolds == Spec => []SingleOwner
<1>1. IInv => SingleOwner
    BY DEF IInv
<1> QED
    BY <1>1, Invariance, PTL

\* Who was blocked, by an id or in the editor, stays blocked until unblocked,
\* also if the user registers only later (registration.py 66-88, blacklist.py);
\* except whom overlapping operations have missed, and ids on the list whose
\* row an import or a link has made, which do not read it.
THEOREM BlockedStayHolds == Spec => []BlockedStay
<1>1. IInv => BlockedStay
    BY DEF IInv
<1> QED
    BY <1>1, Invariance, PTL
=============================================================================
