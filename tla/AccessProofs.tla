---------------------------- MODULE AccessProofs ----------------------------
(***************************************************************************)
(* Proofs about Access, for any users, administrators and bounds.          *)
(*                                                                         *)
(* Two arguments. About the copy of the settings: as long as nothing has   *)
(* overlapped, every copy, stored or about to be, is the row, and there is *)
(* no copy while a written row waits for its commit. About the waiting     *)
(* list: once an administrator has read its members, whoever is owed a     *)
(* message is among them or came late, and once the message is queued      *)
(* nobody but the late is owed one, so that the list can be deleted.       *)
(***************************************************************************)
EXTENDS Access, TLAPS

\* Everything a task could store or write goes back to a committed row.
Sources ==
    /\ db \in committed
    /\ \A t \in Tasks : At(t, "fill") => task[t].dto \in committed

\* A task that has written the row holds it until its transaction ends.
LockHeld ==
    \A a \in Admins :
        (At(a, "invalidate") \/ At(a, "commit")) /\ task[a].dirty <=> lock = a

\* Nothing has overlapped: the copies are the row.
Coherent ==
    ~overlap =>
        /\ cache \in {NoValue, db}
        /\ \A t \in Tasks : At(t, "fill") => task[t].dto = db
        /\ Uncommitted => cache = NoValue

\* Administrators emptying the list have read everyone who is owed a message.
Collected ==
    \A a \in Admins :
        /\ At(a, "notify") => owed \ late \subseteq task[a].members
        /\ At(a, "clear")  => owed \subseteq late

\* Users check, administrators operate.
Roles ==
    /\ \A u \in Users : task[u].pc \in {"idle", "get", "select", "fill", "loaded", "exists", "add"}
    /\ \A a \in Admins : task[a].pc \notin {"exists", "add"}

IInv ==
    /\ TypeOK /\ Roles /\ Sources /\ CacheWasCommitted
    /\ LockHeld /\ Coherent /\ Collected /\ WaitersKept

-----------------------------------------------------------------------------
(* Lemmas about the operators *)

\* A new value has the type of its field.
LEMMA ChangeType ==
    ASSUME NEW op \in Operations, NEW dto \in Settings
    PROVE  [dto EXCEPT ![op.field] = NewValue(op, dto)] \in Settings
<1>1. CASE op.field = "mode"
    BY <1>1, AccessAssumption DEF Operations, Settings, NewValue, Fields
<1>2. CASE op.field = "registration_allowed"
    BY <1>2 DEF Settings, NewValue
<1>3. CASE op.field = "payments_allowed"
    BY <1>3 DEF Settings, NewValue
<1> QED
    BY <1>1, <1>2, <1>3 DEF Operations, Fields

\* Merging one field of valid settings into the row gives a valid row that
\* agrees with the old one on every other field.
LEMMA MergeField ==
    ASSUME NEW row \in Settings, NEW dto \in Settings, NEW f \in Fields
    PROVE  /\ [row EXCEPT ![f] = dto[f]] \in Settings
           /\ \A g \in Fields \ {f} : [row EXCEPT ![f] = dto[f]][g] = row[g]
<1>1. CASE f = "mode"
    BY <1>1 DEF Settings, Fields
<1>2. CASE f = "registration_allowed"
    BY <1>2 DEF Settings, Fields
<1>3. CASE f = "payments_allowed"
    BY <1>3 DEF Settings, Fields
<1> QED
    BY <1>1, <1>2, <1>3 DEF Fields

LEMMA FieldOf == \A op \in Operations : op.field \in Fields
    BY DEF Operations, Fields

LEMMA WrittenType ==
    ASSUME TypeOK, NEW a \in Admins
    PROVE  /\ Written(a) \in Settings
           /\ \A g \in Fields \ {task[a].op.field} : Written(a)[g] = db[g]
<1>1. task[a] \in TaskRecords
    BY DEF TypeOK, Tasks
<1>2. task[a].op \in Operations /\ task[a].dto \in Settings
    BY <1>1 DEF TaskRecords
<1>3. task[a].op.field \in Fields /\ db \in Settings
    BY <1>2, FieldOf DEF TypeOK
<1> QED
    BY <1>2, <1>3, MergeField DEF Written

LEMMA IdleType == Idle \in TaskRecords /\ Default \in Settings
    BY AccessAssumption DEF Idle, TaskRecords, Default, Settings, Operations, Events, Fields

\* A task that ends, or goes to a label, is a task.
LEMMA TaskStep ==
    ASSUME TypeOK, NEW t \in Tasks
    PROVE  /\ Finish(t) => task' \in [Tasks -> TaskRecords]
           /\ \A pc \in {"select", "loaded", "exists", "add", "commit", "members",
                         "notify", "clear"} :
                 Go(t, pc) => task' \in [Tasks -> TaskRecords]
           /\ \A r \in TaskRecords :
                 task' = [task EXCEPT ![t] = r] => task' \in [Tasks -> TaskRecords]
<1>1. task \in [Tasks -> TaskRecords] /\ task[t] \in TaskRecords
    BY DEF TypeOK
<1>2. \A pc \in {"select", "loaded", "exists", "add", "commit", "members", "notify", "clear"} :
         [task[t] EXCEPT !.pc = pc] \in TaskRecords
    BY <1>1 DEF TaskRecords
<1> QED
    BY <1>1, <1>2, IdleType DEF Finish, Go

\* What the update of the settings makes of its task.
LEMMA UpdateTask ==
    ASSUME TypeOK, NEW a \in Admins, UpdateSettings(a)
    PROVE  \E r \in TaskRecords : /\ task' = [task EXCEPT ![a] = r]
                                  /\ r.pc = "invalidate"
                                  /\ r.dirty => lock = NoTask /\ lock' = a
                                  /\ ~r.dirty => lock' = lock
<1> DEFINE op == task[a].op
           v  == NewValue(op, task[a].dto)
           r  == [task[a] EXCEPT !.pc = "invalidate", !.dto = [@ EXCEPT ![op.field] = v],
                                 !.dirty = (v # task[a].dto[op.field])]
<1>1. task[a] \in TaskRecords /\ a \in Tasks
    BY DEF TypeOK, Tasks
<1>2. op \in Operations /\ task[a].dto \in Settings
    BY <1>1 DEF TaskRecords
<1>3. [task[a].dto EXCEPT ![op.field] = v] \in Settings
    BY <1>2, ChangeType
<1>4. r \in TaskRecords /\ r.pc = "invalidate" /\ r.dirty = (v # task[a].dto[op.field])
    BY <1>1, <1>3 DEF TaskRecords
<1>5. task' = [task EXCEPT ![a] = r]
    BY <1>1 DEF UpdateSettings, TypeOK
<1>6. /\ r.dirty => lock = NoTask /\ lock' = a
      /\ ~r.dirty => lock' = lock
    BY <1>4 DEF UpdateSettings
<1> HIDE DEF r
<1> QED
    BY <1>4, <1>5, <1>6

-----------------------------------------------------------------------------
(* The type invariant *)

LEMMA InitHolds == Init => IInv
<1> SUFFICES ASSUME Init PROVE IInv
    OBVIOUS
<1>1. \A t \in Tasks : task[t] = Idle /\ task[t].pc = "idle"
    BY DEF Init, Idle
<1>2. TypeOK
    BY IdleType DEF Init, TypeOK
<1>3. \A a \in Admins : lock # a
    BY AccessAssumption DEF Init
<1> QED
    BY <1>1, <1>2, <1>3
    DEF Init, IInv, Roles, Sources, CacheWasCommitted, LockHeld, Coherent, Collected,
        WaitersKept, At, Tasks, Uncommitted

LEMMA TypeStep == TypeOK /\ [Next]_vars => TypeOK'
<1> SUFFICES ASSUME TypeOK, [Next]_vars PROVE TypeOK'
    OBVIOUS
<1> USE AccessAssumption DEF history, count
<1>1. ASSUME NEW t \in Tasks, ReadSettings(t) PROVE TypeOK'
  <2>1. task[t] \in TaskRecords
    BY DEF TypeOK
  <2>2. \A s \in Settings : [task[t] EXCEPT !.pc = "loaded", !.dto = s] \in TaskRecords
    BY <2>1 DEF TaskRecords
  <2>3. \A s \in Settings : [task[t] EXCEPT !.pc = "fill", !.dto = s] \in TaskRecords
    BY <2>1 DEF TaskRecords
  <2>4. CASE ReadCache(t)
    <3>1. task' \in [Tasks -> TaskRecords]
      <4>1. CASE cache # NoValue /\ task' = [task EXCEPT ![t].pc = "loaded", ![t].dto = cache]
        <5>1. cache \in Settings
          BY <4>1 DEF TypeOK
        <5>2. task' = [task EXCEPT ![t] = [task[t] EXCEPT !.pc = "loaded", !.dto = cache]]
          BY <4>1
        <5> QED
          BY <2>2, <5>1, <5>2, TaskStep
      <4>2. CASE Go(t, "select")
        BY <4>2, TaskStep
      <4> QED
        BY <2>4, <4>1, <4>2 DEF ReadCache
    <3> QED
      BY <2>4, <3>1 DEF ReadCache, TypeOK, Fault
  <2>5. CASE SelectSettings(t)
    <3>1. task' = [task EXCEPT ![t] = [task[t] EXCEPT !.pc = "fill", !.dto = db]]
      BY <2>5 DEF SelectSettings
    <3>2. task' \in [Tasks -> TaskRecords]
      BY <2>3, <3>1, TaskStep DEF TypeOK
    <3> QED
      BY <2>5, <3>2 DEF SelectSettings, TypeOK
  <2>6. CASE FillCache(t)
    <3>1. task' \in [Tasks -> TaskRecords]
      BY <2>6, TaskStep DEF FillCache
    <3>2. task[t].dto \in Settings
      BY <2>1 DEF TaskRecords
    <3> QED
      BY <2>6, <3>1, <3>2 DEF FillCache, TypeOK, Fault, Uncommitted
  <2> QED
    BY <1>1, <2>4, <2>5, <2>6 DEF ReadSettings
<1>2. ASSUME NEW a \in Admins,
             \/ StartOperation(a) \/ OperationStep(a)
             \/ OperationFails(a) \/ WaitlistFails(a)
      PROVE  TypeOK'
  <2> a \in Tasks
    BY DEF Tasks
  <2>1. CASE StartOperation(a)
    <3>1. PICK op \in Operations : task' = [task EXCEPT ![a].pc = "get", ![a].op = op]
      BY <2>1 DEF StartOperation
    <3>2. [task[a] EXCEPT !.pc = "get", !.op = op] \in TaskRecords
      BY DEF TypeOK, TaskRecords
    <3>3. task' = [task EXCEPT ![a] = [task[a] EXCEPT !.pc = "get", !.op = op]]
      BY <3>1
    <3>4. task' \in [Tasks -> TaskRecords]
      BY <3>2, <3>3, TaskStep
    <3> QED
      BY <2>1, <3>4 DEF StartOperation, TypeOK
  <2>2. CASE ReadSettings(a)
    BY <2>2, <1>1
  <2>3. CASE UpdateSettings(a)
    <3>1. task' \in [Tasks -> TaskRecords]
      BY <2>3, UpdateTask, TaskStep
    <3>2. lock' \in {a, lock}
      BY <2>3 DEF UpdateSettings
    <3> QED
      BY <2>3, <3>1, <3>2 DEF UpdateSettings, TypeOK
  <2>4. CASE InvalidateCache(a)
    <3>1. task' \in [Tasks -> TaskRecords]
      BY <2>4, TaskStep DEF InvalidateCache
    <3>2. cache' \in Settings \cup {NoValue}
      BY <2>4 DEF InvalidateCache, TypeOK
    <3>3. overlap' \in BOOLEAN
      BY <2>4 DEF InvalidateCache, TypeOK
    <3>4. faults' \in Nat
      BY <2>4 DEF InvalidateCache, Fault, TypeOK
    <3> QED
      BY <2>4, <3>1, <3>2, <3>3, <3>4 DEF InvalidateCache, TypeOK
  <2>5. CASE CommitSettings(a)
    <3>1. task' \in [Tasks -> TaskRecords]
      BY <2>5, TaskStep DEF CommitSettings
    <3> QED
      BY <2>5, <3>1, WrittenType DEF CommitSettings, TypeOK, Unlocked
  <2>6. CASE GetMembers(a)
    <3>1. [task[a] EXCEPT !.pc = "notify", !.members = waitlist] \in TaskRecords
      BY DEF TypeOK, TaskRecords
    <3>2. task' \in [Tasks -> TaskRecords]
      <4>1. CASE Finish(a)
        BY <4>1, TaskStep
      <4>2. CASE task' = [task EXCEPT ![a].pc = "notify", ![a].members = waitlist]
        <5>1. task' = [task EXCEPT ![a] = [task[a] EXCEPT !.pc = "notify", !.members = waitlist]]
          BY <4>2
        <5> QED
          BY <3>1, <5>1, TaskStep
      <4> QED
        BY <2>6, <4>1, <4>2 DEF GetMembers
    <3> QED
      BY <2>6, <3>2 DEF GetMembers, TypeOK
  <2>7. CASE NotifyRestored(a) \/ ClearWaitlist(a)
    <3>1. task' \in [Tasks -> TaskRecords]
      BY <2>7, TaskStep DEF NotifyRestored, ClearWaitlist
    <3> QED
      BY <2>7, <3>1 DEF NotifyRestored, ClearWaitlist, TypeOK
  <2>8. CASE OperationFails(a) \/ WaitlistFails(a)
    <3>1. task' \in [Tasks -> TaskRecords]
      BY <2>8, TaskStep DEF OperationFails, WaitlistFails
    <3> QED
      BY <2>8, <3>1 DEF OperationFails, WaitlistFails, TypeOK, Unlocked, Fault
  <2> QED
    BY <1>2, <2>1, <2>2, <2>3, <2>4, <2>5, <2>6, <2>7, <2>8 DEF OperationStep
<1>3. ASSUME NEW u \in Users, StartCheck(u) \/ CheckStep(u) \/ CheckFails(u)
      PROVE  TypeOK'
  <2> u \in Tasks
    BY DEF Tasks
  <2>1. CASE StartCheck(u)
    <3>1. PICK e \in Events : task' = [task EXCEPT ![u].pc = "get", ![u].event = e]
      BY <2>1 DEF StartCheck
    <3>2. [task[u] EXCEPT !.pc = "get", !.event = e] \in TaskRecords
      BY DEF TypeOK, TaskRecords
    <3>3. task' = [task EXCEPT ![u] = [task[u] EXCEPT !.pc = "get", !.event = e]]
      BY <3>1
    <3>4. task' \in [Tasks -> TaskRecords]
      BY <3>2, <3>3, TaskStep
    <3> QED
      BY <2>1, <3>4 DEF StartCheck, TypeOK
  <2>2. CASE ReadSettings(u)
    BY <2>2, <1>1
  <2>3. CASE CheckAccess(u) \/ CheckFails(u)
    <3>1. task' \in [Tasks -> TaskRecords]
      BY <2>3, TaskStep DEF CheckAccess, CheckFails
    <3> QED
      BY <2>3, <3>1 DEF CheckAccess, CheckFails, TypeOK, Fault
  <2>4. CASE FindOnWaitlist(u) \/ AddToWaitlist(u)
    <3>1. task' \in [Tasks -> TaskRecords]
      BY <2>4, TaskStep DEF FindOnWaitlist, AddToWaitlist
    <3> QED
      BY <2>4, <3>1 DEF FindOnWaitlist, AddToWaitlist, Waits, TypeOK
  <2> QED
    BY <1>3, <2>1, <2>2, <2>3, <2>4 DEF CheckStep
<1>4. CASE ExpireCache
    BY <1>4 DEF ExpireCache, TypeOK
<1>5. CASE ProcessDies
    BY <1>5, IdleType DEF ProcessDies, TypeOK, Fault
<1>6. CASE UNCHANGED vars
    BY <1>6 DEF vars, TypeOK
<1> QED
    BY <1>1, <1>2, <1>3, <1>4, <1>5, <1>6 DEF Next

-----------------------------------------------------------------------------
(* What a step makes of its task *)

Becomes(t, pc) ==
    /\ \A x \in Tasks \ {t} : task'[x] = task[x]
    /\ task'[t].pc = pc

Unchanged == UNCHANGED <<db, lock, cache, waitlist, history>>

Keeps(t) ==
    /\ task'[t].dto = task[t].dto /\ task'[t].dirty = task[t].dirty
    /\ task'[t].members = task[t].members

LEMMA GoEffect ==
    ASSUME TypeOK, NEW t \in Tasks, NEW pc, Go(t, pc)
    PROVE  Becomes(t, pc) /\ Keeps(t)
<1>1. task \in [Tasks -> TaskRecords] /\ task[t] \in TaskRecords
    BY DEF TypeOK
<1> QED
    BY <1>1 DEF Go, Becomes, Keeps, TaskRecords

LEMMA FinishEffect ==
    ASSUME TypeOK, NEW t \in Tasks, Finish(t)
    PROVE  Becomes(t, "idle")
<1>1. Idle.pc = "idle"
    BY DEF Idle
<1> QED
    BY <1>1 DEF Finish, Becomes, TypeOK

\* Reading the settings, as seen by the invariant.
LEMMA ReadEffect ==
    ASSUME TypeOK, NEW t \in Tasks
    PROVE  /\ ReadCache(t) => /\ At(t, "get") /\ Unchanged
                              /\ \E pc \in {"loaded", "select"} : Becomes(t, pc)
           /\ SelectSettings(t) => /\ At(t, "select") /\ Unchanged
                                   /\ Becomes(t, "fill") /\ task'[t].dto = db
           /\ FillCache(t) => At(t, "fill") /\ Becomes(t, "loaded")
<1>1. task[t] \in TaskRecords /\ task \in [Tasks -> TaskRecords]
    BY DEF TypeOK
<1>2. ASSUME ReadCache(t)
      PROVE  At(t, "get") /\ Unchanged /\ \E pc \in {"loaded", "select"} : Becomes(t, pc)
  <2>1. Unchanged /\ At(t, "get")
    BY <1>2 DEF ReadCache, Unchanged, history
  <2>2. CASE Go(t, "select")
    BY <2>1, <2>2, GoEffect
  <2>3. CASE task' = [task EXCEPT ![t].pc = "loaded", ![t].dto = cache]
    <3>1. Becomes(t, "loaded")
      BY <1>1, <2>3 DEF Becomes, TaskRecords
    <3> QED
      BY <2>1, <3>1
  <2> QED
    BY <1>2, <2>2, <2>3 DEF ReadCache
<1>3. SelectSettings(t) => /\ At(t, "select") /\ Unchanged
                           /\ Becomes(t, "fill") /\ task'[t].dto = db
    BY <1>1 DEF SelectSettings, Becomes, TaskRecords, Unchanged, history
<1>4. FillCache(t) => At(t, "fill") /\ Becomes(t, "loaded")
    BY GoEffect DEF FillCache
<1> QED
    BY <1>2, <1>3, <1>4

\* The operations of an administrator.
LEMMA OperationEffect ==
    ASSUME TypeOK, NEW a \in Admins
    PROVE  /\ StartOperation(a) => At(a, "idle") /\ Unchanged /\ Becomes(a, "get")
           /\ UpdateSettings(a) =>
                 /\ At(a, "loaded") /\ Becomes(a, "invalidate")
                 /\ UNCHANGED <<db, cache, waitlist, history>>
                 /\ task'[a].dirty => lock = NoTask /\ lock' = a
                 /\ ~task'[a].dirty => lock' = lock
           /\ InvalidateCache(a) =>
                 /\ At(a, "invalidate") /\ Becomes(a, "commit") /\ Keeps(a)
                 /\ UNCHANGED <<db, lock, waitlist, committed, owed, late>>
                 /\ ~overlap' => ~overlap /\ cache' = NoValue
                 /\ cache' \in {cache, NoValue}
           /\ CommitSettings(a) => /\ At(a, "commit")
                                   /\ \E pc \in {"members", "idle"} : Becomes(a, pc)
           /\ OperationFails(a) => /\ Becomes(a, "idle")
                                   /\ \E pc \in {"select", "loaded", "commit"} : At(a, pc)
           /\ GetMembers(a) =>
                 /\ At(a, "members") /\ Unchanged
                 /\ \/ Becomes(a, "idle")
                    \/ Becomes(a, "notify") /\ task'[a].members = waitlist
           /\ NotifyRestored(a) => At(a, "notify") /\ Becomes(a, "clear") /\ Keeps(a)
           /\ ClearWaitlist(a) => At(a, "clear") /\ Becomes(a, "idle")
           /\ WaitlistFails(a) => /\ Becomes(a, "idle")
                                  /\ \E pc \in {"members", "notify", "clear"} : At(a, pc)
<1> a \in Tasks
    BY DEF Tasks
<1>1. task[a] \in TaskRecords /\ task \in [Tasks -> TaskRecords]
    BY DEF TypeOK
<1>2. StartOperation(a) => At(a, "idle") /\ Unchanged /\ Becomes(a, "get")
    BY <1>1 DEF StartOperation, Becomes, TaskRecords, Unchanged, history
<1>3. ASSUME UpdateSettings(a)
      PROVE  /\ At(a, "loaded") /\ Becomes(a, "invalidate")
             /\ UNCHANGED <<db, cache, waitlist, history>>
             /\ task'[a].dirty => lock = NoTask /\ lock' = a
             /\ ~task'[a].dirty => lock' = lock
  <2>1. PICK r \in TaskRecords : /\ task' = [task EXCEPT ![a] = r]
                                 /\ r.pc = "invalidate"
                                 /\ r.dirty => lock = NoTask /\ lock' = a
                                 /\ ~r.dirty => lock' = lock
    BY <1>3, UpdateTask
  <2>2. task'[a] = r
    BY <1>1, <2>1
  <2>3. At(a, "loaded") /\ UNCHANGED <<db, cache, waitlist, history>>
    BY <1>3 DEF UpdateSettings, history
  <2> QED
    BY <1>1, <2>1, <2>2, <2>3 DEF Becomes
<1>4. ASSUME InvalidateCache(a)
      PROVE  /\ At(a, "invalidate") /\ Becomes(a, "commit") /\ Keeps(a)
             /\ UNCHANGED <<db, lock, waitlist, committed, owed, late>>
             /\ ~overlap' => ~overlap /\ cache' = NoValue
             /\ cache' \in {cache, NoValue}
  <2>1. At(a, "invalidate") /\ Becomes(a, "commit") /\ Keeps(a)
    BY <1>4, GoEffect DEF InvalidateCache
  <2>2. UNCHANGED <<db, lock, waitlist, committed, owed, late>>
    BY <1>4 DEF InvalidateCache
  <2>3. ~overlap' => ~overlap /\ cache' = NoValue
    BY <1>4 DEF InvalidateCache
  <2>4. cache' \in {cache, NoValue}
    BY <1>4 DEF InvalidateCache
  <2> QED
    BY <2>1, <2>2, <2>3, <2>4
<1>5. CommitSettings(a) => At(a, "commit") /\ \E pc \in {"members", "idle"} : Becomes(a, pc)
    BY GoEffect, FinishEffect DEF CommitSettings
<1>6. /\ OperationFails(a) => /\ Becomes(a, "idle")
                              /\ \E pc \in {"select", "loaded", "commit"} : At(a, pc)
      /\ WaitlistFails(a) => /\ Becomes(a, "idle")
                             /\ \E pc \in {"members", "notify", "clear"} : At(a, pc)
    BY FinishEffect DEF OperationFails, WaitlistFails
<1>7. ASSUME GetMembers(a)
      PROVE  /\ At(a, "members") /\ Unchanged
             /\ \/ Becomes(a, "idle")
                \/ Becomes(a, "notify") /\ task'[a].members = waitlist
  <2>1. CASE Finish(a)
    BY <1>7, <2>1, FinishEffect DEF GetMembers, Unchanged, history
  <2>2. CASE task' = [task EXCEPT ![a].pc = "notify", ![a].members = waitlist]
    BY <1>1, <1>7, <2>2 DEF GetMembers, Becomes, TaskRecords, Unchanged, history
  <2> QED
    BY <1>7, <2>1, <2>2 DEF GetMembers
<1>8. /\ NotifyRestored(a) => At(a, "notify") /\ Becomes(a, "clear") /\ Keeps(a)
      /\ ClearWaitlist(a) => At(a, "clear") /\ Becomes(a, "idle")
    BY GoEffect, FinishEffect DEF NotifyRestored, ClearWaitlist
<1> QED
    BY <1>2, <1>3, <1>4, <1>5, <1>6, <1>7, <1>8

\* The check of an update.
LEMMA CheckEffect ==
    ASSUME TypeOK, NEW u \in Users
    PROVE  /\ StartCheck(u) => At(u, "idle") /\ Unchanged /\ Becomes(u, "get")
           /\ CheckAccess(u) => \E pc \in {"idle", "exists"} : Becomes(u, pc)
           /\ FindOnWaitlist(u) =>
                 /\ u \in waitlist => Becomes(u, "idle") /\ Waits(u)
                 /\ u \notin waitlist => Becomes(u, "add") /\ UNCHANGED history
           /\ AddToWaitlist(u) =>
                 /\ Becomes(u, "idle") /\ Waits(u)
                 /\ waitlist' = waitlist \cup {u}
                 /\ UNCHANGED <<db, lock, cache, committed, overlap>>
           /\ CheckFails(u) => Becomes(u, "idle")
<1> u \in Tasks
    BY DEF Tasks
<1>1. task[u] \in TaskRecords /\ task \in [Tasks -> TaskRecords]
    BY DEF TypeOK
<1>2. StartCheck(u) => At(u, "idle") /\ Unchanged /\ Becomes(u, "get")
    BY <1>1 DEF StartCheck, Becomes, TaskRecords, Unchanged, history
<1>3. CheckAccess(u) => \E pc \in {"idle", "exists"} : Becomes(u, pc)
    BY GoEffect, FinishEffect DEF CheckAccess
<1>4. FindOnWaitlist(u) =>
         /\ u \in waitlist => Becomes(u, "idle") /\ Waits(u)
         /\ u \notin waitlist => Becomes(u, "add") /\ UNCHANGED history
    BY GoEffect, FinishEffect DEF FindOnWaitlist
<1>5. AddToWaitlist(u) =>
         /\ Becomes(u, "idle") /\ Waits(u)
         /\ waitlist' = waitlist \cup {u}
         /\ UNCHANGED <<db, lock, cache, committed, overlap>>
    BY FinishEffect DEF AddToWaitlist, Waits
<1>6. CheckFails(u) => Becomes(u, "idle")
    BY FinishEffect DEF CheckFails
<1> QED
    BY <1>2, <1>3, <1>4, <1>5, <1>6

LEMMA DeathEffect ==
    ASSUME ProcessDies
    PROVE  /\ \A t \in Tasks : task'[t].pc = "idle"
           /\ lock' = NoTask
<1>1. \A t \in Tasks : task'[t] = Idle
    BY DEF ProcessDies
<1> QED
    BY <1>1 DEF ProcessDies, Idle

-----------------------------------------------------------------------------
(* The inductive invariant, part by part *)

\* Who does what is settled by the labels.
LEMMA RolesStep == IInv /\ TypeOK' /\ [Next]_vars => Roles'
<1> SUFFICES ASSUME IInv, TypeOK', [Next]_vars PROVE Roles'
    OBVIOUS
<1> USE AccessAssumption DEF At, Tasks, Becomes, Keeps, Unchanged, history, IInv, Roles
<1>1. ASSUME NEW t \in Tasks, ReadCache(t) PROVE Roles'
    BY <1>1, ReadEffect
<1>2. ASSUME NEW t \in Tasks, SelectSettings(t) PROVE Roles'
    BY <1>2, ReadEffect
<1>3. ASSUME NEW t \in Tasks, FillCache(t) PROVE Roles'
    BY <1>3, ReadEffect
<1>4. ASSUME NEW a \in Admins, StartOperation(a) PROVE Roles'
    BY <1>4, OperationEffect
<1>5. ASSUME NEW a \in Admins, UpdateSettings(a) PROVE Roles'
    BY <1>5, OperationEffect
<1>6. ASSUME NEW a \in Admins, InvalidateCache(a) PROVE Roles'
    BY <1>6, OperationEffect
<1>7. ASSUME NEW a \in Admins, CommitSettings(a) PROVE Roles'
    BY <1>7, OperationEffect
<1>8. ASSUME NEW a \in Admins, OperationFails(a) PROVE Roles'
    BY <1>8, OperationEffect
<1>9. ASSUME NEW a \in Admins, GetMembers(a) PROVE Roles'
    BY <1>9, OperationEffect
<1>10. ASSUME NEW a \in Admins, NotifyRestored(a) PROVE Roles'
    BY <1>10, OperationEffect
<1>11. ASSUME NEW a \in Admins, ClearWaitlist(a) PROVE Roles'
    BY <1>11, OperationEffect
<1>12. ASSUME NEW a \in Admins, WaitlistFails(a) PROVE Roles'
    BY <1>12, OperationEffect
<1>13. ASSUME NEW u \in Users, StartCheck(u) PROVE Roles'
    BY <1>13, CheckEffect
<1>14. ASSUME NEW u \in Users, CheckAccess(u) PROVE Roles'
    BY <1>14, CheckEffect
<1>15. ASSUME NEW u \in Users, FindOnWaitlist(u) PROVE Roles'
    BY <1>15, CheckEffect
<1>16. ASSUME NEW u \in Users, AddToWaitlist(u) PROVE Roles'
    BY <1>16, CheckEffect
<1>17. ASSUME NEW u \in Users, CheckFails(u) PROVE Roles'
    BY <1>17, CheckEffect
<1>18. CASE ExpireCache
    BY <1>18 DEF ExpireCache
<1>19. CASE ProcessDies
    BY <1>19, DeathEffect DEF ProcessDies
<1>20. CASE UNCHANGED vars
    BY <1>20 DEF vars
<1> QED
    BY <1>1, <1>2, <1>3, <1>4, <1>5, <1>6, <1>7, <1>8, <1>9, <1>10,
       <1>11, <1>12, <1>13, <1>14, <1>15, <1>16, <1>17, <1>18, <1>19, <1>20
    DEF Next, OperationStep, CheckStep, ReadSettings

\* What is read was committed.
LEMMA SourcesStep == IInv /\ TypeOK' /\ [Next]_vars => Sources'
<1> SUFFICES ASSUME IInv, TypeOK', [Next]_vars PROVE Sources'
    OBVIOUS
<1> USE AccessAssumption DEF At, Tasks, Becomes, Keeps, Unchanged, history, IInv, Sources, CacheWasCommitted
<1>1. ASSUME NEW t \in Tasks, ReadCache(t) PROVE Sources'
    BY <1>1, ReadEffect
<1>2. ASSUME NEW t \in Tasks, SelectSettings(t) PROVE Sources'
    BY <1>2, ReadEffect
<1>3. ASSUME NEW t \in Tasks, FillCache(t) PROVE Sources'
    BY <1>3, ReadEffect DEF FillCache
<1>4. ASSUME NEW a \in Admins, StartOperation(a) PROVE Sources'
    BY <1>4, OperationEffect
<1>5. ASSUME NEW a \in Admins, UpdateSettings(a) PROVE Sources'
    BY <1>5, OperationEffect
<1>6. ASSUME NEW a \in Admins, InvalidateCache(a) PROVE Sources'
    BY <1>6, OperationEffect
<1>7. ASSUME NEW a \in Admins, CommitSettings(a) PROVE Sources'
    BY <1>7, OperationEffect DEF CommitSettings
<1>8. ASSUME NEW a \in Admins, OperationFails(a) PROVE Sources'
    BY <1>8, OperationEffect DEF OperationFails
<1>9. ASSUME NEW a \in Admins, GetMembers(a) PROVE Sources'
    BY <1>9, OperationEffect
<1>10. ASSUME NEW a \in Admins, NotifyRestored(a) PROVE Sources'
    BY <1>10, OperationEffect DEF NotifyRestored
<1>11. ASSUME NEW a \in Admins, ClearWaitlist(a) PROVE Sources'
    BY <1>11, OperationEffect DEF ClearWaitlist
<1>12. ASSUME NEW a \in Admins, WaitlistFails(a) PROVE Sources'
    BY <1>12, OperationEffect DEF WaitlistFails
<1>13. ASSUME NEW u \in Users, StartCheck(u) PROVE Sources'
    BY <1>13, CheckEffect
<1>14. ASSUME NEW u \in Users, CheckAccess(u) PROVE Sources'
    BY <1>14, CheckEffect DEF CheckAccess
<1>15. ASSUME NEW u \in Users, FindOnWaitlist(u) PROVE Sources'
    BY <1>15, CheckEffect DEF FindOnWaitlist, Waits
<1>16. ASSUME NEW u \in Users, AddToWaitlist(u) PROVE Sources'
    BY <1>16, CheckEffect
<1>17. ASSUME NEW u \in Users, CheckFails(u) PROVE Sources'
    BY <1>17, CheckEffect DEF CheckFails
<1>18. CASE ExpireCache
    BY <1>18 DEF ExpireCache
<1>19. CASE ProcessDies
    BY <1>19, DeathEffect DEF ProcessDies
<1>20. CASE UNCHANGED vars
    BY <1>20 DEF vars
<1> QED
    BY <1>1, <1>2, <1>3, <1>4, <1>5, <1>6, <1>7, <1>8, <1>9, <1>10,
       <1>11, <1>12, <1>13, <1>14, <1>15, <1>16, <1>17, <1>18, <1>19, <1>20
    DEF Next, OperationStep, CheckStep, ReadSettings

\* What is stored was committed.
LEMMA CacheStep == IInv /\ TypeOK' /\ [Next]_vars => CacheWasCommitted'
<1> SUFFICES ASSUME IInv, TypeOK', [Next]_vars PROVE CacheWasCommitted'
    OBVIOUS
<1> USE AccessAssumption DEF At, Tasks, Becomes, Keeps, Unchanged, history, IInv, Sources, CacheWasCommitted
<1>1. ASSUME NEW t \in Tasks, ReadCache(t) PROVE CacheWasCommitted'
    BY <1>1, ReadEffect
<1>2. ASSUME NEW t \in Tasks, SelectSettings(t) PROVE CacheWasCommitted'
    BY <1>2, ReadEffect
<1>3. ASSUME NEW t \in Tasks, FillCache(t) PROVE CacheWasCommitted'
    BY <1>3, ReadEffect DEF FillCache
<1>4. ASSUME NEW a \in Admins, StartOperation(a) PROVE CacheWasCommitted'
    BY <1>4, OperationEffect
<1>5. ASSUME NEW a \in Admins, UpdateSettings(a) PROVE CacheWasCommitted'
    BY <1>5, OperationEffect
<1>6. ASSUME NEW a \in Admins, InvalidateCache(a) PROVE CacheWasCommitted'
    BY <1>6, OperationEffect
<1>7. ASSUME NEW a \in Admins, CommitSettings(a) PROVE CacheWasCommitted'
    BY <1>7, OperationEffect DEF CommitSettings
<1>8. ASSUME NEW a \in Admins, OperationFails(a) PROVE CacheWasCommitted'
    BY <1>8, OperationEffect DEF OperationFails
<1>9. ASSUME NEW a \in Admins, GetMembers(a) PROVE CacheWasCommitted'
    BY <1>9, OperationEffect
<1>10. ASSUME NEW a \in Admins, NotifyRestored(a) PROVE CacheWasCommitted'
    BY <1>10, OperationEffect DEF NotifyRestored
<1>11. ASSUME NEW a \in Admins, ClearWaitlist(a) PROVE CacheWasCommitted'
    BY <1>11, OperationEffect DEF ClearWaitlist
<1>12. ASSUME NEW a \in Admins, WaitlistFails(a) PROVE CacheWasCommitted'
    BY <1>12, OperationEffect DEF WaitlistFails
<1>13. ASSUME NEW u \in Users, StartCheck(u) PROVE CacheWasCommitted'
    BY <1>13, CheckEffect
<1>14. ASSUME NEW u \in Users, CheckAccess(u) PROVE CacheWasCommitted'
    BY <1>14, CheckEffect DEF CheckAccess
<1>15. ASSUME NEW u \in Users, FindOnWaitlist(u) PROVE CacheWasCommitted'
    BY <1>15, CheckEffect DEF FindOnWaitlist, Waits
<1>16. ASSUME NEW u \in Users, AddToWaitlist(u) PROVE CacheWasCommitted'
    BY <1>16, CheckEffect
<1>17. ASSUME NEW u \in Users, CheckFails(u) PROVE CacheWasCommitted'
    BY <1>17, CheckEffect DEF CheckFails
<1>18. CASE ExpireCache
    BY <1>18 DEF ExpireCache
<1>19. CASE ProcessDies
    BY <1>19, DeathEffect DEF ProcessDies
<1>20. CASE UNCHANGED vars
    BY <1>20 DEF vars
<1> QED
    BY <1>1, <1>2, <1>3, <1>4, <1>5, <1>6, <1>7, <1>8, <1>9, <1>10,
       <1>11, <1>12, <1>13, <1>14, <1>15, <1>16, <1>17, <1>18, <1>19, <1>20
    DEF Next, OperationStep, CheckStep, ReadSettings

\* The row is held from the update to the end of the transaction.
LEMMA LockStep == IInv /\ TypeOK' /\ [Next]_vars => LockHeld'
<1> SUFFICES ASSUME IInv, TypeOK', [Next]_vars PROVE LockHeld'
    OBVIOUS
<1> USE AccessAssumption DEF At, Tasks, Becomes, Keeps, Unchanged, history, IInv, LockHeld, Roles, Unlocked, TypeOK
<1>1. ASSUME NEW t \in Tasks, ReadCache(t) PROVE LockHeld'
    BY <1>1, ReadEffect
<1>2. ASSUME NEW t \in Tasks, SelectSettings(t) PROVE LockHeld'
    BY <1>2, ReadEffect
<1>3. ASSUME NEW t \in Tasks, FillCache(t) PROVE LockHeld'
    BY <1>3, ReadEffect DEF FillCache
<1>4. ASSUME NEW a \in Admins, StartOperation(a) PROVE LockHeld'
    BY <1>4, OperationEffect
<1>5. ASSUME NEW a \in Admins, UpdateSettings(a) PROVE LockHeld'
    BY <1>5, OperationEffect
<1>6. ASSUME NEW a \in Admins, InvalidateCache(a) PROVE LockHeld'
    BY <1>6, OperationEffect
<1>7. ASSUME NEW a \in Admins, CommitSettings(a) PROVE LockHeld'
    BY <1>7, OperationEffect DEF CommitSettings
<1>8. ASSUME NEW a \in Admins, OperationFails(a) PROVE LockHeld'
    BY <1>8, OperationEffect DEF OperationFails
<1>9. ASSUME NEW a \in Admins, GetMembers(a) PROVE LockHeld'
    BY <1>9, OperationEffect
<1>10. ASSUME NEW a \in Admins, NotifyRestored(a) PROVE LockHeld'
    BY <1>10, OperationEffect DEF NotifyRestored
<1>11. ASSUME NEW a \in Admins, ClearWaitlist(a) PROVE LockHeld'
    BY <1>11, OperationEffect DEF ClearWaitlist
<1>12. ASSUME NEW a \in Admins, WaitlistFails(a) PROVE LockHeld'
    BY <1>12, OperationEffect DEF WaitlistFails
<1>13. ASSUME NEW u \in Users, StartCheck(u) PROVE LockHeld'
    BY <1>13, CheckEffect
<1>14. ASSUME NEW u \in Users, CheckAccess(u) PROVE LockHeld'
    BY <1>14, CheckEffect DEF CheckAccess
<1>15. ASSUME NEW u \in Users, FindOnWaitlist(u) PROVE LockHeld'
    BY <1>15, CheckEffect DEF FindOnWaitlist, Waits
<1>16. ASSUME NEW u \in Users, AddToWaitlist(u) PROVE LockHeld'
    BY <1>16, CheckEffect
<1>17. ASSUME NEW u \in Users, CheckFails(u) PROVE LockHeld'
    BY <1>17, CheckEffect DEF CheckFails
<1>18. CASE ExpireCache
    BY <1>18 DEF ExpireCache
<1>19. CASE ProcessDies
    BY <1>19, DeathEffect DEF ProcessDies
<1>20. CASE UNCHANGED vars
    BY <1>20 DEF vars
<1> QED
    BY <1>1, <1>2, <1>3, <1>4, <1>5, <1>6, <1>7, <1>8, <1>9, <1>10,
       <1>11, <1>12, <1>13, <1>14, <1>15, <1>16, <1>17, <1>18, <1>19, <1>20
    DEF Next, OperationStep, CheckStep, ReadSettings

\* Without an overlap every copy is the row.
LEMMA CoherentStep == IInv /\ TypeOK' /\ [Next]_vars => Coherent'
<1> SUFFICES ASSUME IInv, TypeOK', [Next]_vars PROVE Coherent'
    OBVIOUS
<1> USE AccessAssumption DEF At, Tasks, Becomes, Keeps, Unchanged, history, IInv, LockHeld, Coherent, Uncommitted, Roles, TypeOK
<1>1. ASSUME NEW t \in Tasks, ReadCache(t) PROVE Coherent'
    BY <1>1, ReadEffect
<1>2. ASSUME NEW t \in Tasks, SelectSettings(t) PROVE Coherent'
    BY <1>2, ReadEffect
<1>3. ASSUME NEW t \in Tasks, FillCache(t) PROVE Coherent'
  <2>1. SUFFICES ASSUME ~overlap'
                 PROVE  /\ cache' \in {NoValue, db'}
                        /\ \A x \in Tasks : At(x, "fill")' => task'[x].dto = db'
                        /\ Uncommitted' => cache' = NoValue
    OBVIOUS
  <2>2. /\ At(t, "fill") /\ Becomes(t, "loaded")
        /\ db' = db /\ cache' \in {cache, task[t].dto}
    BY <1>3, ReadEffect DEF FillCache
  <2>3. ~overlap /\ ~Uncommitted
    BY <1>3, <2>1 DEF FillCache
  <2>4. ~Uncommitted'
    BY <2>2, <2>3
  <2> QED
    BY <2>2, <2>3, <2>4
<1>4. ASSUME NEW a \in Admins, StartOperation(a) PROVE Coherent'
    BY <1>4, OperationEffect
<1>5. ASSUME NEW a \in Admins, UpdateSettings(a) PROVE Coherent'
    BY <1>5, OperationEffect
<1>6. ASSUME NEW a \in Admins, InvalidateCache(a) PROVE Coherent'
    BY <1>6, OperationEffect
<1>7. ASSUME NEW a \in Admins, CommitSettings(a) PROVE Coherent'
  <2>1. SUFFICES ASSUME ~overlap'
                 PROVE  /\ cache' \in {NoValue, db'}
                        /\ \A x \in Tasks : At(x, "fill")' => task'[x].dto = db'
                        /\ Uncommitted' => cache' = NoValue
    OBVIOUS
  <2>2. /\ At(a, "commit") /\ cache' = cache /\ db' = Written(a)
        /\ \E pc \in {"members", "idle"} : Becomes(a, pc)
    BY <1>7, OperationEffect DEF CommitSettings
  <2>3. ~overlap /\ ~(task[a].dirty /\ \E x \in Tasks : At(x, "fill"))
    BY <1>7, <2>1 DEF CommitSettings
  <2>4. CASE task[a].dirty
    <3>1. cache = NoValue /\ \A x \in Tasks : ~At(x, "fill")
      BY <2>2, <2>3, <2>4
    <3> QED
      BY <2>2, <3>1
  <2>5. CASE ~task[a].dirty
    <3>1. db' = db
      BY <2>2, <2>5 DEF Written
    <3>2. Uncommitted' => Uncommitted
      BY <2>2
    <3> QED
      BY <2>2, <2>3, <3>1, <3>2
  <2> QED
    BY <2>4, <2>5
<1>8. ASSUME NEW a \in Admins, OperationFails(a) PROVE Coherent'
    BY <1>8, OperationEffect DEF OperationFails
<1>9. ASSUME NEW a \in Admins, GetMembers(a) PROVE Coherent'
    BY <1>9, OperationEffect
<1>10. ASSUME NEW a \in Admins, NotifyRestored(a) PROVE Coherent'
    BY <1>10, OperationEffect DEF NotifyRestored
<1>11. ASSUME NEW a \in Admins, ClearWaitlist(a) PROVE Coherent'
    BY <1>11, OperationEffect DEF ClearWaitlist
<1>12. ASSUME NEW a \in Admins, WaitlistFails(a) PROVE Coherent'
    BY <1>12, OperationEffect DEF WaitlistFails
<1>13. ASSUME NEW u \in Users, StartCheck(u) PROVE Coherent'
    BY <1>13, CheckEffect
<1>14. ASSUME NEW u \in Users, CheckAccess(u) PROVE Coherent'
    BY <1>14, CheckEffect DEF CheckAccess
<1>15. ASSUME NEW u \in Users, FindOnWaitlist(u) PROVE Coherent'
    BY <1>15, CheckEffect DEF FindOnWaitlist, Waits
<1>16. ASSUME NEW u \in Users, AddToWaitlist(u) PROVE Coherent'
    BY <1>16, CheckEffect
<1>17. ASSUME NEW u \in Users, CheckFails(u) PROVE Coherent'
    BY <1>17, CheckEffect DEF CheckFails
<1>18. CASE ExpireCache
    BY <1>18 DEF ExpireCache
<1>19. CASE ProcessDies
    BY <1>19, DeathEffect DEF ProcessDies
<1>20. CASE UNCHANGED vars
    BY <1>20 DEF vars
<1> QED
    BY <1>1, <1>2, <1>3, <1>4, <1>5, <1>6, <1>7, <1>8, <1>9, <1>10,
       <1>11, <1>12, <1>13, <1>14, <1>15, <1>16, <1>17, <1>18, <1>19, <1>20
    DEF Next, OperationStep, CheckStep, ReadSettings

\* The list is emptied of those who have been sent the message.
LEMMA CollectedStep == IInv /\ TypeOK' /\ [Next]_vars => Collected'
<1> SUFFICES ASSUME IInv, TypeOK', [Next]_vars PROVE Collected'
    OBVIOUS
<1> USE AccessAssumption DEF At, Tasks, Becomes, Keeps, Unchanged, history, IInv, Collected, Roles, WaitersKept, Waits, Emptying
<1>1. ASSUME NEW t \in Tasks, ReadCache(t) PROVE Collected'
    BY <1>1, ReadEffect
<1>2. ASSUME NEW t \in Tasks, SelectSettings(t) PROVE Collected'
    BY <1>2, ReadEffect
<1>3. ASSUME NEW t \in Tasks, FillCache(t) PROVE Collected'
    BY <1>3, ReadEffect DEF FillCache
<1>4. ASSUME NEW a \in Admins, StartOperation(a) PROVE Collected'
    BY <1>4, OperationEffect
<1>5. ASSUME NEW a \in Admins, UpdateSettings(a) PROVE Collected'
    BY <1>5, OperationEffect
<1>6. ASSUME NEW a \in Admins, InvalidateCache(a) PROVE Collected'
    BY <1>6, OperationEffect
<1>7. ASSUME NEW a \in Admins, CommitSettings(a) PROVE Collected'
    BY <1>7, OperationEffect DEF CommitSettings
<1>8. ASSUME NEW a \in Admins, OperationFails(a) PROVE Collected'
    BY <1>8, OperationEffect DEF OperationFails
<1>9. ASSUME NEW a \in Admins, GetMembers(a) PROVE Collected'
    BY <1>9, OperationEffect
<1>10. ASSUME NEW a \in Admins, NotifyRestored(a) PROVE Collected'
    BY <1>10, OperationEffect DEF NotifyRestored
<1>11. ASSUME NEW a \in Admins, ClearWaitlist(a) PROVE Collected'
    BY <1>11, OperationEffect DEF ClearWaitlist
<1>12. ASSUME NEW a \in Admins, WaitlistFails(a) PROVE Collected'
    BY <1>12, OperationEffect DEF WaitlistFails
<1>13. ASSUME NEW u \in Users, StartCheck(u) PROVE Collected'
    BY <1>13, CheckEffect
<1>14. ASSUME NEW u \in Users, CheckAccess(u) PROVE Collected'
    BY <1>14, CheckEffect DEF CheckAccess
<1>15. ASSUME NEW u \in Users, FindOnWaitlist(u) PROVE Collected'
    BY <1>15, CheckEffect DEF FindOnWaitlist, Waits
<1>16. ASSUME NEW u \in Users, AddToWaitlist(u) PROVE Collected'
    BY <1>16, CheckEffect
<1>17. ASSUME NEW u \in Users, CheckFails(u) PROVE Collected'
    BY <1>17, CheckEffect DEF CheckFails
<1>18. CASE ExpireCache
    BY <1>18 DEF ExpireCache
<1>19. CASE ProcessDies
    BY <1>19, DeathEffect DEF ProcessDies
<1>20. CASE UNCHANGED vars
    BY <1>20 DEF vars
<1> QED
    BY <1>1, <1>2, <1>3, <1>4, <1>5, <1>6, <1>7, <1>8, <1>9, <1>10,
       <1>11, <1>12, <1>13, <1>14, <1>15, <1>16, <1>17, <1>18, <1>19, <1>20
    DEF Next, OperationStep, CheckStep, ReadSettings

\* Who is owed a message is on the list.
LEMMA WaitersStep == IInv /\ TypeOK' /\ [Next]_vars => WaitersKept'
<1> SUFFICES ASSUME IInv, TypeOK', [Next]_vars PROVE WaitersKept'
    OBVIOUS
<1> USE AccessAssumption DEF At, Tasks, Becomes, Keeps, Unchanged, history, IInv, Collected, Roles, WaitersKept, Waits, Emptying
<1>1. ASSUME NEW t \in Tasks, ReadCache(t) PROVE WaitersKept'
    BY <1>1, ReadEffect
<1>2. ASSUME NEW t \in Tasks, SelectSettings(t) PROVE WaitersKept'
    BY <1>2, ReadEffect
<1>3. ASSUME NEW t \in Tasks, FillCache(t) PROVE WaitersKept'
    BY <1>3, ReadEffect DEF FillCache
<1>4. ASSUME NEW a \in Admins, StartOperation(a) PROVE WaitersKept'
    BY <1>4, OperationEffect
<1>5. ASSUME NEW a \in Admins, UpdateSettings(a) PROVE WaitersKept'
    BY <1>5, OperationEffect
<1>6. ASSUME NEW a \in Admins, InvalidateCache(a) PROVE WaitersKept'
    BY <1>6, OperationEffect
<1>7. ASSUME NEW a \in Admins, CommitSettings(a) PROVE WaitersKept'
    BY <1>7, OperationEffect DEF CommitSettings
<1>8. ASSUME NEW a \in Admins, OperationFails(a) PROVE WaitersKept'
    BY <1>8, OperationEffect DEF OperationFails
<1>9. ASSUME NEW a \in Admins, GetMembers(a) PROVE WaitersKept'
    BY <1>9, OperationEffect
<1>10. ASSUME NEW a \in Admins, NotifyRestored(a) PROVE WaitersKept'
    BY <1>10, OperationEffect DEF NotifyRestored
<1>11. ASSUME NEW a \in Admins, ClearWaitlist(a) PROVE WaitersKept'
    BY <1>11, OperationEffect DEF ClearWaitlist
<1>12. ASSUME NEW a \in Admins, WaitlistFails(a) PROVE WaitersKept'
    BY <1>12, OperationEffect DEF WaitlistFails
<1>13. ASSUME NEW u \in Users, StartCheck(u) PROVE WaitersKept'
    BY <1>13, CheckEffect
<1>14. ASSUME NEW u \in Users, CheckAccess(u) PROVE WaitersKept'
    BY <1>14, CheckEffect DEF CheckAccess
<1>15. ASSUME NEW u \in Users, FindOnWaitlist(u) PROVE WaitersKept'
    BY <1>15, CheckEffect DEF FindOnWaitlist, Waits
<1>16. ASSUME NEW u \in Users, AddToWaitlist(u) PROVE WaitersKept'
    BY <1>16, CheckEffect
<1>17. ASSUME NEW u \in Users, CheckFails(u) PROVE WaitersKept'
    BY <1>17, CheckEffect DEF CheckFails
<1>18. CASE ExpireCache
    BY <1>18 DEF ExpireCache
<1>19. CASE ProcessDies
    BY <1>19, DeathEffect DEF ProcessDies
<1>20. CASE UNCHANGED vars
    BY <1>20 DEF vars
<1> QED
    BY <1>1, <1>2, <1>3, <1>4, <1>5, <1>6, <1>7, <1>8, <1>9, <1>10,
       <1>11, <1>12, <1>13, <1>14, <1>15, <1>16, <1>17, <1>18, <1>19, <1>20
    DEF Next, OperationStep, CheckStep, ReadSettings

LEMMA Inductive == IInv /\ [Next]_vars => IInv'
<1> SUFFICES ASSUME IInv, [Next]_vars PROVE IInv'
    OBVIOUS
<1>1. TypeOK'
    BY TypeStep DEF IInv
<1> QED
    BY <1>1, RolesStep, SourcesStep, CacheStep, LockStep, CoherentStep, CollectedStep,
       WaitersStep DEF IInv

\* Every reachable state satisfies the inductive invariant.
THEOREM Invariance == Spec => []IInv
    BY InitHolds, Inductive, PTL DEF Spec

-----------------------------------------------------------------------------
(* The properties *)

\* The variables keep their types.
THEOREM TypeCorrect == Spec => []TypeOK
<1>1. IInv => TypeOK
    BY DEF IInv
<1> QED
    BY <1>1, Invariance, PTL

\* What is cached was committed, whatever is rolled back or lost.
THEOREM CacheWasCommittedHolds == Spec => []CacheWasCommitted
<1>1. IInv => CacheWasCommitted
    BY DEF IInv
<1> QED
    BY <1>1, Invariance, PTL

\* Only an overlapping read, or a failed invalidation, leaves a stale copy.
THEOREM StaleOnlyByOverlapHolds == Spec => []StaleOnlyByOverlap
<1>1. IInv => StaleOnlyByOverlap
  <2> SUFFICES ASSUME IInv PROVE StaleOnlyByOverlap
      OBVIOUS
  <2>1. ~overlap => cache \in {NoValue, db}
      BY DEF IInv, Coherent
  <2> QED
      BY <2>1 DEF StaleOnlyByOverlap
<1> QED
    BY <1>1, Invariance, PTL

\* Nobody is dropped from the waiting list without a message, but those who
\* came while it was being emptied.
THEOREM WaitersKeptHolds == Spec => []WaitersKept
<1>1. IInv => WaitersKept
    BY DEF IInv
<1> QED
    BY <1>1, Invariance, PTL

\* A commit changes no field but its own: the row is only written by a commit,
\* and by the administrator whose task then moves on.
THEOREM OwnFieldOnlyHolds == Spec => OwnFieldOnly
<1> DEFINE Own == \A a \in Admins : At(a, "commit") /\ task[a] # task'[a] =>
                     \A f \in Fields \ {task[a].op.field} : db'[f] = db[f]
<1>1. ASSUME IInv, [Next]_vars PROVE Own
  <2> SUFFICES ASSUME NEW a \in Admins, At(a, "commit"), task[a] # task'[a],
                      NEW f \in Fields \ {task[a].op.field}
               PROVE  db'[f] = db[f]
      OBVIOUS
  <2> TypeOK
      BY <1>1 DEF IInv
  <2>1. ASSUME NEW b \in Admins, CommitSettings(b) PROVE db'[f] = db[f]
    <3>1. b = a
      <4>1. a \in Tasks
        BY DEF Tasks
      <4>2. \A x \in Tasks \ {b} : task'[x] = task[x]
        BY <2>1, OperationEffect DEF Becomes
      <4> QED
        BY <4>1, <4>2
    <3> QED
      BY <2>1, <3>1, WrittenType DEF CommitSettings
  <2>2. ASSUME ~(\E b \in Admins : CommitSettings(b)) PROVE db' = db
    <3>1. ASSUME NEW t \in Tasks, ReadSettings(t) PROVE db' = db
      BY <3>1 DEF ReadSettings, ReadCache, SelectSettings, FillCache
    <3>2. ASSUME NEW b \in Admins,
                 \/ StartOperation(b) \/ OperationStep(b)
                 \/ OperationFails(b) \/ WaitlistFails(b)
          PROVE  db' = db
      <4> b \in Tasks
        BY DEF Tasks
      <4>1. CASE StartOperation(b) \/ OperationFails(b) \/ WaitlistFails(b)
        BY <4>1 DEF StartOperation, OperationFails, WaitlistFails
      <4>2. CASE UpdateSettings(b)
        BY <4>2 DEF UpdateSettings
      <4>3. CASE InvalidateCache(b) \/ GetMembers(b) \/ NotifyRestored(b) \/ ClearWaitlist(b)
        BY <4>3 DEF InvalidateCache, GetMembers, NotifyRestored, ClearWaitlist
      <4> QED
        BY <2>2, <3>1, <3>2, <4>1, <4>2, <4>3 DEF OperationStep
    <3>3. ASSUME NEW u \in Users, StartCheck(u) \/ CheckStep(u) \/ CheckFails(u)
          PROVE  db' = db
      <4> u \in Tasks
        BY DEF Tasks
      <4> QED
        BY <3>1, <3>3
        DEF StartCheck, CheckStep, CheckFails, CheckAccess, FindOnWaitlist, AddToWaitlist
    <3> QED
      BY <1>1, <3>2, <3>3 DEF Next, ExpireCache, ProcessDies, vars
  <2> QED
    BY <2>1, <2>2
<1>2. IInv /\ [Next]_vars => [Own]_vars
    BY <1>1
<1> QED
    BY <1>2, Invariance, PTL DEF OwnFieldOnly, Spec

=============================================================================
