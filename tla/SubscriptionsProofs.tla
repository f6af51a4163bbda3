------------------------ MODULE SubscriptionsProofs ------------------------
(***************************************************************************)
(* Proofs about Subscriptions, for any operators and bounds.               *)
(*                                                                         *)
(* The inductive invariant says what a task in progress may write: the     *)
(* status of the row it read, a status that is not DELETED, or, if it      *)
(* deletes, DELETED; and that the row it read was not DELETED then. With   *)
(* the current row still the one it read, a commit then keeps that row     *)
(* live, or unlinks it, or replaces it.                                    *)
(*                                                                         *)
(* A second one, News, follows every change of the panel user on its way   *)
(* to the row, for the agreement of the two at rest.                       *)
(***************************************************************************)
EXTENDS Subscriptions, SequenceTheorems, TLAPS

Writers == Edit \cup {"renew", "toggle", "leave", "join"}

\* What a task wants to write, by itself.
Aim(r) ==
    /\ r.dto.trial = r.base.trial
    /\ r.pc = "update" => r.op \in Edit
    /\ r.pc = "apply" => r.dto.status # "DELETED"
    /\ /\ r.op \in Writers /\ r.pc \in {"update", "panel", "commit"}
       /\ r.dto.status # r.base.status
       => r.dto.status # "DELETED"
    /\ r.op \in {"toggle", "leave", "join"} /\ r.pc \in {"panel", "commit"} =>
          r.dto.status \in {"ACTIVE", "DISABLED"}
    /\ r.op = "delete" /\ r.pc \in {"panel", "commit"} => r.dto.status = "DELETED"
    /\ r.op = "pull" /\ r.pc = "commit" => r.dto.status = "DELETED"

Aims == \A t \in Tasks : Aim(task[t])

Clean == blurred \cap {"stale", "shared"} = {}

ReadLive ==
    Clean => \A t \in Tasks : task[t].row # 0 => task[t].base.status # "DELETED"

NoTrial == \A i \in 1..Len(rows) : ~rows[i].trial

TrialRows == trial_available => NoTrial

Grants(t) == task[t].pc = "commit" /\ task[t].op = "trial"

\* Who waits to create the panel user of a trial finds one there, if a trial has
\* been given; who has created it is alone, and no trial has been given.
TrialGuarded ==
    "vanished" \notin blurred =>
        \A t \in Operators :
            /\ task[t].pc = "panel" /\ task[t].op = "trial" => panel.id # 0 \/ NoTrial
            /\ Grants(t) => /\ panel.id # 0 /\ NoTrial
                            /\ \A u \in Operators : Grants(u) => u = t

IInv ==
    /\ TypeOK /\ Aims /\ ReadLive /\ OnlyCurrentIsLive
    /\ TrialRows /\ TrialGuarded /\ TrialOnce

-----------------------------------------------------------------------------
(* Types *)

LEMMA Constant ==
    /\ Idle \in TaskRecords /\ Aim(Idle)
    /\ NoRow \in RowRecords /\ NoUser \in PanelRecords
BY DEF Idle, TaskRecords, Aim, NoRow, NoUser, RowRecords, PanelRecords, Operations,
       Edit, Status, Writers

LEMMA NewRowType ==
    ASSUME NEW snap \in PanelRecords, NEW trial \in BOOLEAN
    PROVE  /\ NewRow(snap, trial) \in RowRecords
           /\ NewRow(snap, trial).status # "DELETED"
           /\ NewRow(snap, trial).trial = trial
BY DEF NewRow, PanelRecords, RowRecords, Status

LEMMA TypeInit == Init => TypeOK
<1> SUFFICES ASSUME Init PROVE TypeOK
    OBVIOUS
<1> USE SubscriptionsAssumption, Constant
<1>1. task \in [Tasks -> TaskRecords] /\ \A t \in Tasks : task[t] = Idle /\ task[t].row = 0
    BY DEF Init, Idle
<1>2. /\ rows \in Seq(RowRecords) /\ current \in 0..Len(rows)
      /\ trial_available \in BOOLEAN /\ panel \in PanelRecords
  <2>1. CASE rows = <<>> /\ current = 0 /\ trial_available = TRUE /\ panel = NoUser
    BY <2>1
  <2>2. CASE /\ panel = [id |-> 1, status |-> "ACTIVE", until |-> 1, limit |-> 0]
             /\ \E trial \in BOOLEAN : rows = <<NewRow(panel, trial)>>
             /\ current = 1 /\ trial_available = FALSE
    <3>1. panel \in PanelRecords
      BY <2>2 DEF PanelRecords, Status
    <3>2. \A trial \in BOOLEAN : NewRow(panel, trial) \in RowRecords
      BY <3>1, NewRowType
    <3>3. PICK trial \in BOOLEAN : rows = <<NewRow(panel, trial)>>
      BY <2>2
    <3>4. rows \in Seq(RowRecords) /\ Len(rows) = 1
      BY <3>2, <3>3
    <3>5. current = 1 /\ trial_available = FALSE
      BY <2>2
    <3>6. current \in 0..Len(rows)
      BY <3>4, <3>5
    <3> QED
      BY <3>1, <3>4, <3>5, <3>6
  <2> QED
    BY <2>1, <2>2 DEF Init
<1>3. created \in Nat
    BY <1>2 DEF Init, PanelRecords
<1>4. hooks \in Seq(Hooks)
    BY DEF Init
<1>5. \A t \in Tasks : task[t].row \in 0..Len(rows)
    BY <1>1, <1>2
<1>6. /\ locks \subseteq Operators /\ now \in Nat /\ overruled \in BOOLEAN
      /\ blurred = {} /\ ops \in Nat /\ events \in Nat
    BY DEF Init
<1> QED
    BY <1>1, <1>2, <1>3, <1>4, <1>5, <1>6 DEF TypeOK

LEMMA CurrentRowType == TypeOK => CurrentRow \in RowRecords
BY Constant DEF TypeOK, CurrentRow

LEMMA IntendedType ==
    ASSUME NEW op \in Operations, NEW r \in RowRecords, now \in Nat
    PROVE  /\ Intended(op, r) \in RowRecords
           /\ Intended(op, r).trial = r.trial
           /\ op = "delete" => Intended(op, r).status = "DELETED"
           /\ op \in {"toggle", "leave", "join"} =>
                 Intended(op, r).status \in {"ACTIVE", "DISABLED"}
           /\ op # "delete" /\ Intended(op, r).status # r.status
                => Intended(op, r).status # "DELETED"
<1>1. CASE op = "extend"
    BY <1>1 DEF Intended, RowRecords
<1>2. CASE op = "limit"
    BY <1>2 DEF Intended, RowRecords
<1>3. CASE op = "renew"
  <2> DEFINE end == IF r.until > now THEN r.until + 1 ELSE now + 1
  <2>1. end \in Nat
    BY DEF RowRecords
  <2> HIDE DEF end
  <2>2. Intended(op, r) = [r EXCEPT !.until = end, !.limit = 0]
    BY <1>3 DEF Intended, end
  <2> QED
    BY <1>3, <2>1, <2>2 DEF RowRecords
<1>4. CASE op = "toggle"
    BY <1>4 DEF Intended, RowRecords, Status
<1>5. CASE op = "leave"
    BY <1>5 DEF Intended, RowRecords, Status
<1>6. CASE op = "join"
    BY <1>6 DEF Intended, RowRecords, Status
<1>7. CASE op = "delete"
    BY <1>7 DEF Intended, RowRecords, Status
<1>8. CASE op \in {"set", "trial", "pull", "push"}
    BY <1>8 DEF Intended
<1> QED
    BY <1>1, <1>2, <1>3, <1>4, <1>5, <1>6, <1>7, <1>8 DEF Operations, Edit

\* What an UPDATE leaves in the row.
LEMMA WrittenType ==
    ASSUME TypeOK, NEW t \in Tasks, task[t].row # 0
    PROVE  /\ Written(t) \in RowRecords
           /\ Written(t).status = IF task[t].dto.status # task[t].base.status
                                  THEN task[t].dto.status ELSE rows[task[t].row].status
           /\ task[t].dto.trial = task[t].base.trial
                => Written(t).trial = rows[task[t].row].trial
<1> DEFINE i == task[t].row
           d == task[t].dto
           b == task[t].base
<1>1. i \in 1..Len(rows) /\ rows[i] \in RowRecords /\ d \in RowRecords /\ b \in RowRecords
    BY DEF TypeOK, TaskRecords
<1>2. Written(t) = [f \in {"id", "status", "until", "limit", "trial", "left"} |->
                      IF d[f] # b[f] THEN d[f] ELSE rows[i][f]]
    BY DEF Written, NoRow
<1>3. /\ Written(t).id \in Nat /\ Written(t).status \in Status \cup {"DELETED"}
      /\ Written(t).until \in Nat /\ Written(t).limit \in {0, 1}
      /\ Written(t).trial \in BOOLEAN /\ Written(t).left \in BOOLEAN
    BY <1>1, <1>2 DEF RowRecords
<1>4. Written(t) \in RowRecords
    BY <1>2, <1>3 DEF RowRecords
<1> QED
    BY <1>1, <1>2, <1>4

\* One task takes a step: what it wants stays within Aim, and what it has read,
\* if anything, is what it had read before or the current row.
Moves(t) ==
    \E r \in TaskRecords :
        /\ task' = [task EXCEPT ![t] = r]
        /\ Aim(r)
        /\ \/ r.row = 0
           \/ r.row = task[t].row /\ r.base = task[t].base
           \/ r.row = current /\ r.base = CurrentRow

LEMMA FinishMoves ==
    ASSUME TypeOK, NEW t \in Tasks, Finish(t)
    PROVE  Moves(t)
<1>1. Idle \in TaskRecords /\ Aim(Idle) /\ Idle.row = 0
    BY Constant DEF Idle
<1> QED
    BY <1>1 DEF Finish, Moves

LEMMA GoMoves ==
    ASSUME TypeOK, Aims, NEW t \in Tasks, At(t, "update"), Go(t, "panel")
    PROVE  Moves(t)
<1> DEFINE r == [task[t] EXCEPT !.pc = "panel"]
<1>1. task[t] \in TaskRecords /\ Aim(task[t])
    BY DEF TypeOK, Aims
<1>2. r \in TaskRecords
    BY <1>1 DEF TaskRecords
<1>3. Aim(r)
    BY <1>1 DEF Aim, At, TaskRecords, Edit
<1>4. r.row = task[t].row /\ r.base = task[t].base
    BY <1>1 DEF TaskRecords
<1>5. task' = [task EXCEPT ![t] = r]
    BY DEF Go
<1> QED
    BY <1>2, <1>3, <1>4, <1>5 DEF Moves

\* The answer of the panel is kept, and the task goes on to commit or to copy it.
LEMMA AnswerMoves ==
    ASSUME TypeOK, Aims, NEW t \in Tasks, NEW pc \in {"commit", "sync"},
           NEW snap \in PanelRecords,
           At(t, "panel"), task[t].op = "pull" => pc = "sync",
           task' = [task EXCEPT ![t].pc = pc, ![t].snap = snap]
    PROVE  Moves(t)
<1> DEFINE r == [task[t] EXCEPT !.pc = pc, !.snap = snap]
<1>1. task[t] \in TaskRecords /\ Aim(task[t])
    BY DEF TypeOK, Aims
<1>2. r \in TaskRecords
    BY <1>1 DEF TaskRecords
<1>3. Aim(r)
    BY <1>1 DEF Aim, At, TaskRecords
<1>4. r.row = task[t].row /\ r.base = task[t].base
    BY <1>1 DEF TaskRecords
<1>5. task' = [task EXCEPT ![t] = r]
    BY <1>1
<1> QED
    BY <1>2, <1>3, <1>4, <1>5 DEF Moves

LEMMA StartMoves ==
    ASSUME TypeOK, NEW t \in Operators, NEW op \in Operations, StartOperation(t, op)
    PROVE  Moves(t)
<1> DEFINE d == Intended(op, CurrentRow)
           first == IF op \in Edit THEN "update" ELSE "panel"
           r == [pc |-> first, op |-> op, row |-> current, base |-> CurrentRow,
                 dto |-> d, snap |-> NoUser]
<1>1. CurrentRow \in RowRecords
    BY CurrentRowType
<1>2. /\ d \in RowRecords /\ d.trial = CurrentRow.trial
      /\ op = "delete" => d.status = "DELETED"
      /\ op \in {"toggle", "leave", "join"} => d.status \in {"ACTIVE", "DISABLED"}
      /\ op # "delete" /\ d.status # CurrentRow.status => d.status # "DELETED"
    BY <1>1, IntendedType DEF TypeOK
<1>3. current \in Nat /\ first \in {"update", "panel"}
    BY DEF TypeOK
<1>4. first = "update" => op \in Edit
    OBVIOUS
<1>5. task' = [task EXCEPT ![t] = r]
    BY DEF StartOperation
<1> HIDE DEF d, first
<1>6. r \in TaskRecords
    BY <1>1, <1>2, <1>3, Constant DEF TaskRecords
<1>7. Aim(r)
    BY <1>2, <1>3, <1>4 DEF Aim, Writers, Edit
<1> QED
    BY <1>5, <1>6, <1>7 DEF Moves

LEMMA SyncReadMoves ==
    ASSUME TypeOK, Aims, NEW t \in Tasks, SyncRead(t)
    PROVE  Moves(t)
<1> DEFINE s == task[t].snap
           d == [CurrentRow EXCEPT !.id = s.id, !.status = s.status, !.until = s.until,
                                   !.limit = s.limit]
           r == [task[t] EXCEPT !.pc = "apply", !.row = current, !.base = CurrentRow,
                                !.dto = d]
<1>1. task[t] \in TaskRecords /\ Aim(task[t]) /\ s \in PanelRecords
    BY DEF TypeOK, Aims, TaskRecords
<1>2. CurrentRow \in RowRecords
    BY CurrentRowType
<1>3. d \in RowRecords /\ d.status # "DELETED" /\ d.trial = CurrentRow.trial
    BY <1>1, <1>2 DEF PanelRecords, RowRecords, Status
<1>4. task' = [task EXCEPT ![t] = r]
    BY DEF SyncRead
<1> HIDE DEF d
<1>5. current \in Nat
    BY DEF TypeOK
<1>6. r \in TaskRecords
    BY <1>1, <1>2, <1>3, <1>5 DEF TaskRecords
<1>7. Aim(r)
    BY <1>1, <1>3 DEF Aim, TaskRecords
<1>8. r.row = current /\ r.base = CurrentRow
    BY <1>1 DEF TaskRecords
<1> QED
    BY <1>4, <1>6, <1>7, <1>8 DEF Moves

-----------------------------------------------------------------------------
(* The panel *)

LEMMA PanelBecomesType ==
    ASSUME TypeOK, NEW user \in PanelRecords,
           NEW kind \in {"imported", "modified", "status", "deleted"},
           PanelBecomes(user, kind)
    PROVE  panel' \in PanelRecords /\ hooks' \in Seq(Hooks)
<1> DEFINE told == IF kind = "deleted" THEN panel ELSE user
           hook == [kind |-> kind, user |-> told]
<1>1. told \in PanelRecords
    BY DEF TypeOK
<1> HIDE DEF told
<1>2. hook \in Hooks
    BY <1>1 DEF Hooks
<1>3. hooks' = Append(hooks, hook) /\ panel' = user
    BY DEF PanelBecomes, told
<1> HIDE DEF hook
<1> QED
    BY <1>2, <1>3 DEF TypeOK

LEMMA PanelUpdatesType ==
    ASSUME TypeOK, NEW id \in Nat, NEW s, s.until \in Nat, s.limit \in {0, 1},
           PanelUpdates(id, s)
    PROVE  panel' \in PanelRecords /\ hooks' \in Seq(Hooks)
<1> DEFINE status == IF s.status = "DISABLED" THEN "DISABLED" ELSE "ACTIVE"
<1>1. status \in Status
    BY DEF Status
<1> HIDE DEF status
<1>2. [id |-> id, until |-> s.until, limit |-> s.limit, status |-> status] \in PanelRecords
    BY <1>1 DEF PanelRecords
<1> QED
    BY <1>2, PanelBecomesType DEF PanelUpdates, status

LEMMA PanelSwitchesType ==
    ASSUME TypeOK, NEW id \in Nat, NEW status \in Status, PanelSwitches(id, status)
    PROVE  panel' \in PanelRecords /\ hooks' \in Seq(Hooks)
<1>1. [panel EXCEPT !.status = status] \in PanelRecords
    BY DEF TypeOK, PanelRecords
<1> QED
    BY <1>1, PanelBecomesType DEF PanelSwitches

LEMMA PanelDeletesType ==
    ASSUME TypeOK, PanelDeletes
    PROVE  panel' \in PanelRecords /\ hooks' \in Seq(Hooks)
BY Constant, PanelBecomesType DEF PanelDeletes

LEMMA PanelCreatesType ==
    ASSUME TypeOK, NEW id \in Nat, NEW until \in Nat, NEW limit \in {0, 1},
           NEW imported \in BOOLEAN, PanelCreates(id, until, limit, imported)
    PROVE  panel' \in PanelRecords /\ hooks' \in Seq(Hooks)
<1> DEFINE user == [id |-> id, status |-> "ACTIVE", until |-> until, limit |-> limit]
<1>1. user \in PanelRecords
    BY DEF PanelRecords, Status
<1>2. CASE imported
    BY <1>1, <1>2, PanelBecomesType DEF PanelCreates
<1>3. CASE ~imported
    BY <1>1, <1>3 DEF PanelCreates, TypeOK
<1> QED
    BY <1>2, <1>3

\* What a call of the panel may change.
Called(t) ==
    /\ Moves(t)
    /\ panel' \in PanelRecords /\ hooks' \in Seq(Hooks)
    /\ created' \in Nat /\ overruled' \in BOOLEAN

LEMMA CallPanelStep ==
    ASSUME TypeOK, Aims, NEW t \in Operators, CallPanel(t)
    PROVE  Called(t)
<1> USE DEF Called
<1>0. /\ t \in Tasks /\ At(t, "panel")
      /\ task[t].base \in RowRecords /\ task[t].dto \in RowRecords
    BY DEF CallPanel, Tasks, TypeOK, TaskRecords
<1>1. CASE EditsOnPanel(t)
  <2>2. panel' \in PanelRecords /\ hooks' \in Seq(Hooks)
    BY <1>0, <1>1, PanelUpdatesType DEF EditsOnPanel, RowRecords
  <2>3. Moves(t)
    BY <1>0, <1>1, <2>2, AnswerMoves DEF EditsOnPanel, Answered, Edit
  <2> QED
    BY <1>1, <2>2, <2>3 DEF EditsOnPanel, TypeOK
<1>2. CASE SwitchesOnPanel(t)
  <2>2. task[t].dto.status \in Status
    BY <1>0, <1>2 DEF SwitchesOnPanel, At, Aims, Aim, Status
  <2>3. panel' \in PanelRecords /\ hooks' \in Seq(Hooks)
    BY <1>0, <1>2, <2>2, PanelSwitchesType DEF SwitchesOnPanel, RowRecords
  <2>4. overruled' \in BOOLEAN
    BY <1>2 DEF SwitchesOnPanel
  <2>5. Moves(t)
    BY <1>0, <1>2, <2>3, AnswerMoves DEF SwitchesOnPanel, Answered
  <2> QED
    BY <1>2, <2>3, <2>4, <2>5 DEF SwitchesOnPanel, TypeOK
<1>3. CASE DeletesOnPanel(t)
  <2>2. panel' \in PanelRecords /\ hooks' \in Seq(Hooks)
    BY <1>3, PanelDeletesType DEF DeletesOnPanel, TypeOK
  <2>3. Moves(t)
    BY <1>0, <1>3, <2>2, AnswerMoves DEF DeletesOnPanel, Answered
  <2> QED
    BY <1>3, <2>2, <2>3 DEF DeletesOnPanel, TypeOK
<1>4. CASE SetsOnPanel(t)
  <2>1. panel' \in PanelRecords /\ hooks' \in Seq(Hooks) /\ created' \in Nat
    <3>1. CASE /\ PanelUpdates(task[t].base.id,
                               [NoUser EXCEPT !.until = now + 1, !.status = "ACTIVE"])
               /\ UNCHANGED created
      <4> DEFINE s == [NoUser EXCEPT !.until = now + 1, !.status = "ACTIVE"]
      <4>1. s.until \in Nat /\ s.limit \in {0, 1}
        BY DEF NoUser, TypeOK
      <4>2. task[t].base.id \in Nat
        BY <1>0 DEF RowRecords
      <4> HIDE DEF s
      <4> QED
        BY <3>1, <4>1, <4>2, PanelUpdatesType DEF s, TypeOK
    <3>2. CASE PanelCreates(created + 1, now + 1, 0, FALSE) /\ created' = created + 1
      <4>1. created + 1 \in Nat /\ now + 1 \in Nat /\ 0 \in {0, 1} /\ FALSE \in BOOLEAN
        BY DEF TypeOK
      <4> QED
        BY <3>2, <4>1, PanelCreatesType
    <3> QED
      BY <1>4, <3>1, <3>2 DEF SetsOnPanel
  <2>2. Moves(t)
    BY <1>0, <1>4, <2>1, AnswerMoves DEF SetsOnPanel, Answered
  <2> QED
    BY <1>4, <2>1, <2>2 DEF SetsOnPanel, TypeOK
<1>5. CASE Pulls(t)
  <2>1. Moves(t)
    <3>1. CASE task' = [task EXCEPT ![t].pc = "sync", ![t].snap = panel]
      BY <1>0, <3>1, AnswerMoves DEF TypeOK
    <3>2. CASE Finish(t)
      BY <1>0, <3>2, FinishMoves
    <3>3. CASE task' = [task EXCEPT ![t].pc = "commit", ![t].dto.status = "DELETED",
                                    ![t].snap = panel]
      <4> DEFINE d == [task[t].dto EXCEPT !.status = "DELETED"]
                 r == [task[t] EXCEPT !.pc = "commit", !.dto = d, !.snap = panel]
      <4>1. task[t] \in TaskRecords /\ Aim(task[t])
        BY <1>0 DEF TypeOK, Aims
      <4>2. d \in RowRecords /\ d.status = "DELETED" /\ d.trial = task[t].dto.trial
        BY <1>0 DEF RowRecords
      <4>3. task' = [task EXCEPT ![t] = r]
        BY <3>3
      <4> HIDE DEF d
      <4>4. r \in TaskRecords /\ r.row = task[t].row /\ r.base = task[t].base
        BY <4>1, <4>2 DEF TypeOK, TaskRecords
      <4>5. Aim(r)
        BY <1>5, <4>1, <4>2 DEF Aim, TaskRecords, Pulls, Writers, Edit
      <4> QED
        BY <4>3, <4>4, <4>5 DEF Moves
    <3> QED
      BY <1>5, <3>1, <3>2, <3>3 DEF Pulls
  <2> QED
    BY <1>5, <2>1 DEF Pulls, world, TypeOK
<1>6. CASE Pushes(t)
  <2> SUFFICES /\ Moves(t) /\ panel' \in PanelRecords /\ hooks' \in Seq(Hooks)
    BY <1>6 DEF Pushes, TypeOK
  <2>1. CASE /\ IF panel.id # 0 THEN PanelDeletes ELSE UNCHANGED <<panel, hooks>>
             /\ Finish(t)
    BY <1>0, <2>1, FinishMoves, PanelDeletesType DEF TypeOK
  <2>2. CASE PanelUpdates(task[t].base.id, task[t].base) /\ Finish(t)
    BY <1>0, <2>2, FinishMoves, PanelUpdatesType DEF RowRecords
  <2>3. CASE /\ \E imported \in BOOLEAN :
                   PanelCreates(task[t].base.id, task[t].base.until, task[t].base.limit,
                                imported)
             /\ Answered(t, "sync")
    <3>1. panel' \in PanelRecords /\ hooks' \in Seq(Hooks)
      BY <1>0, <2>3, PanelCreatesType DEF RowRecords
    <3> QED
      BY <1>0, <1>6, <2>3, <3>1, AnswerMoves DEF Answered, Pushes
  <2> QED
    BY <1>6, <2>1, <2>2, <2>3 DEF Pushes
<1> QED
    BY <1>1, <1>2, <1>3, <1>4, <1>5, <1>6 DEF CallPanel

LEMMA HandleHookStep ==
    ASSUME TypeOK, NEW i \in 1..Len(hooks), HandleHook(i)
    PROVE  Moves(Webhook) /\ hooks' \in Seq(Hooks) /\ events' \in Nat
<1>1. hooks[i] \in Hooks
    BY ElementOfSeq DEF TypeOK
<1>0. hooks[i].user \in PanelRecords
    BY <1>1 DEF Hooks
<1>2. /\ SubSeq(hooks, 1, i - 1) \in Seq(Hooks)
      /\ SubSeq(hooks, i + 1, Len(hooks)) \in Seq(Hooks)
    BY SubSeqProperties DEF TypeOK
<1>3. hooks' \in Seq(Hooks)
    BY <1>2, ConcatProperties DEF HandleHook
<1>4. Webhook \in Tasks
    BY DEF Tasks
<1>5. Moves(Webhook)
  <2>1. CASE task' = [task EXCEPT ![Webhook] = Idle]
    BY <1>4, <2>1, FinishMoves DEF Finish
  <2>2. ASSUME NEW pc \in {"sync", "remove"},
               task' = [task EXCEPT ![Webhook] =
                          [Idle EXCEPT !.pc = pc, !.snap = hooks[i].user]]
        PROVE  Moves(Webhook)
    <3> DEFINE r == [Idle EXCEPT !.pc = pc, !.snap = hooks[i].user]
    <3>1. r \in TaskRecords /\ r.row = 0
      BY <1>0, Constant DEF Idle, TaskRecords
    <3>2. Aim(r)
      BY Constant DEF Aim, Idle, Writers, Edit
    <3> QED
      BY <2>2, <3>1, <3>2 DEF Moves
  <2>3. hooks[i].kind \in {"imported", "modified", "status", "deleted"}
    BY <1>1 DEF Hooks
  <2>4. CASE hooks[i].kind \in {"imported", "modified"}
    BY <2>2, <2>4 DEF HandleHook
  <2>5. CASE hooks[i].kind = "status"
    BY <2>1, <2>2, <2>5 DEF HandleHook
  <2>6. CASE hooks[i].kind = "deleted"
    BY <2>1, <2>2, <2>6 DEF HandleHook
  <2> QED
    BY <2>3, <2>4, <2>5, <2>6
<1>6. events' \in Nat
  <2>1. UNCHANGED events \/ Event
    BY Zenon DEF HandleHook
  <2> QED
    BY <2>1 DEF Event, TypeOK
<1> QED
    BY <1>3, <1>5, <1>6

-----------------------------------------------------------------------------
(* Rows *)

\* An UPDATE changes no flag of a trial, and the status of its own row only.
LEMMA UpdateEffect ==
    ASSUME TypeOK, Aims, NEW t \in Tasks, UpdatesRow(t)
    PROVE  /\ rows' \in Seq(RowRecords) /\ Len(rows') = Len(rows)
           /\ \A i \in 1..Len(rows) :
                 /\ rows'[i].trial = rows[i].trial
                 /\ rows'[i].status =
                       IF i = task[t].row /\ task[t].dto.status # task[t].base.status
                       THEN task[t].dto.status ELSE rows[i].status
<1>0. rows \in Seq(RowRecords) /\ task[t].row \in 0..Len(rows) /\ Aim(task[t])
    BY DEF TypeOK, Aims
<1>1. CASE task[t].row = 0
  <2>1. rows' = rows
    BY <1>0, <1>1 DEF UpdatesRow
  <2> QED
    BY <1>0, <1>1, <2>1
<1>2. CASE task[t].row # 0
  <2> DEFINE w == Written(t)
  <2>1. /\ w \in RowRecords /\ w.trial = rows[task[t].row].trial
        /\ w.status = IF task[t].dto.status # task[t].base.status
                      THEN task[t].dto.status ELSE rows[task[t].row].status
    BY <1>0, <1>2, WrittenType DEF Aim
  <2>2. rows' = [rows EXCEPT ![task[t].row] = w]
    BY DEF UpdatesRow
  <2> HIDE DEF w
  <2> QED
    BY <1>0, <1>2, <2>1, <2>2
<1> QED
    BY <1>1, <1>2

LEMMA InsertEffect ==
    ASSUME NEW before \in Seq(RowRecords), NEW row \in RowRecords, Inserts(row, before)
    PROVE  /\ rows' \in Seq(RowRecords) /\ Len(rows') = Len(before) + 1
           /\ current' = Len(before) + 1
           /\ rows'[Len(before) + 1] = row
           /\ \A i \in 1..Len(before) : rows'[i] = before[i]
BY DEF Inserts

LEMMA RetireEffect ==
    ASSUME TypeOK, NEW i \in 1..Len(rows)
    PROVE  LET after == [rows EXCEPT ![i].status = "DELETED"]
           IN  /\ after \in Seq(RowRecords) /\ Len(after) = Len(rows)
               /\ \A j \in 1..Len(rows) :
                     /\ after[j].trial = rows[j].trial
                     /\ after[j].status = IF j = i THEN "DELETED" ELSE rows[j].status
<1> DEFINE row == [rows[i] EXCEPT !.status = "DELETED"]
<1>1. rows \in Seq(RowRecords) /\ rows[i] \in RowRecords
    BY DEF TypeOK
<1>2. row \in RowRecords /\ row.trial = rows[i].trial /\ row.status = "DELETED"
    BY <1>1 DEF RowRecords
<1>3. [rows EXCEPT ![i].status = "DELETED"] = [rows EXCEPT ![i] = row]
    BY <1>1
<1> HIDE DEF row
<1> QED
    BY <1>1, <1>2, <1>3

\* The tasks stay typed when one of them moves and no row is taken away.
LEMMA MovesType ==
    ASSUME TypeOK, NEW t \in Tasks, Moves(t),
           Len(rows') \in Nat, Len(rows') >= Len(rows)
    PROVE  /\ task' \in [Tasks -> TaskRecords]
           /\ \A u \in Tasks : task'[u].row \in 0..Len(rows')
<1>1. PICK r \in TaskRecords :
         /\ task' = [task EXCEPT ![t] = r]
         /\ r.row = 0 \/ r.row = task[t].row \/ r.row = current
    BY DEF Moves
<1>2. r.row \in 0..Len(rows)
    BY <1>1 DEF TypeOK
<1>3. Len(rows) \in Nat
    BY DEF TypeOK
<1>4. ASSUME NEW u \in Tasks PROVE task'[u].row \in 0..Len(rows')
  <2>1. task'[u].row \in 0..Len(rows)
    BY <1>1, <1>2 DEF TypeOK
  <2> QED
    BY <1>3, <2>1
<1> QED
    BY <1>1, <1>4 DEF TypeOK

\* What a commit does to the rows.
RowsTyped ==
    /\ rows' \in Seq(RowRecords) /\ Len(rows') \in Nat /\ Len(rows') >= Len(rows)
    /\ current' \in 0..Len(rows') /\ trial_available' \in BOOLEAN

LEMMA CommitTypes ==
    ASSUME TypeOK, Aims, NEW t \in Operators, CommitOperation(t)
    PROVE  RowsTyped
<1> USE DEF RowsTyped
<1>0. /\ t \in Tasks /\ task[t].snap \in PanelRecords /\ task[t].row \in 0..Len(rows)
      /\ rows \in Seq(RowRecords) /\ Len(rows) \in Nat /\ current \in 0..Len(rows)
      /\ trial_available \in BOOLEAN
    BY DEF Tasks, TypeOK, TaskRecords
<1>1. CASE CommitsUpdate(t)
    BY <1>0, <1>1, UpdateEffect DEF CommitsUpdate
<1>2. CASE CommitsDeletion(t)
    BY <1>0, <1>2, UpdateEffect DEF CommitsDeletion
<1>3. CASE CommitsPlan(t)
  <2>1. RetiresRow(t) \in Seq(RowRecords) /\ Len(RetiresRow(t)) = Len(rows)
    BY <1>0, RetireEffect DEF RetiresRow
  <2>2. NewRow(task[t].snap, FALSE) \in RowRecords
    BY <1>0, NewRowType
  <2>3. trial_available' \in BOOLEAN
    BY <1>3 DEF CommitsPlan
  <2>4. /\ rows' \in Seq(RowRecords) /\ Len(rows') = Len(rows) + 1
        /\ current' = Len(rows) + 1
    BY <1>3, <2>1, <2>2, InsertEffect DEF CommitsPlan
  <2> QED
    BY <1>0, <2>3, <2>4
<1>4. CASE CommitsTrial(t)
  <2>1. NewRow(task[t].snap, TRUE) \in RowRecords
    BY <1>0, NewRowType
  <2>2. trial_available' \in BOOLEAN
    BY <1>4 DEF CommitsTrial
  <2>3. /\ rows' \in Seq(RowRecords) /\ Len(rows') = Len(rows) + 1
        /\ current' = Len(rows) + 1
    BY <1>0, <1>4, <2>1, InsertEffect DEF CommitsTrial
  <2> QED
    BY <1>0, <2>2, <2>3
<1> QED
    BY <1>1, <1>2, <1>3, <1>4 DEF CommitOperation

\* The row a copy of the panel user is imported as.
Imported(t) == NewRow([task[t].snap EXCEPT !.status = Shown(task[t].snap)], FALSE)

LEMMA ImportedType ==
    ASSUME TypeOK, NEW t \in Tasks
    PROVE  /\ Imported(t) \in RowRecords
           /\ Imported(t).status # "DELETED" /\ Imported(t).trial = FALSE
<1> DEFINE s == task[t].snap
           shown == Shown(s)
<1>1. s \in PanelRecords
    BY DEF TypeOK, TaskRecords
<1>2. shown \in Status
    BY <1>1 DEF Shown, PanelRecords, Status
<1> HIDE DEF shown
<1>3. [s EXCEPT !.status = shown] \in PanelRecords
    BY <1>1, <1>2 DEF PanelRecords
<1> QED
    BY <1>3, NewRowType DEF Imported, shown

LEMMA SyncApplyTypes ==
    ASSUME TypeOK, Aims, NEW t \in Tasks, SyncApply(t)
    PROVE  RowsTyped
<1> USE DEF RowsTyped
<1>0. /\ rows \in Seq(RowRecords) /\ Len(rows) \in Nat /\ current \in 0..Len(rows)
      /\ trial_available \in BOOLEAN
    BY DEF TypeOK
<1>3. trial_available' = trial_available
    BY DEF SyncApply
<1>1. CASE task[t].row = 0
  <2>1. Inserts(Imported(t), rows)
    BY <1>1 DEF SyncApply, Imported
  <2>2. /\ rows' \in Seq(RowRecords) /\ Len(rows') = Len(rows) + 1
        /\ current' = Len(rows) + 1
    BY <1>0, <2>1, ImportedType, InsertEffect
  <2> QED
    BY <1>0, <1>3, <2>2
<1>2. CASE task[t].row # 0
  <2>1. UpdatesRow(t) /\ current' = current
    BY <1>2 DEF SyncApply
  <2>2. rows' \in Seq(RowRecords) /\ Len(rows') = Len(rows)
    BY <2>1, UpdateEffect
  <2> QED
    BY <1>0, <1>3, <2>1, <2>2
<1> QED
    BY <1>1, <1>2

LEMMA ProcessDeleteTypes ==
    ASSUME TypeOK, ProcessDelete
    PROVE  RowsTyped
<1> USE DEF RowsTyped
<1>0. /\ rows \in Seq(RowRecords) /\ Len(rows) \in Nat /\ current \in 0..Len(rows)
      /\ trial_available' \in BOOLEAN
    BY DEF TypeOK, ProcessDelete
<1>1. CASE UNCHANGED <<rows, current>>
    BY <1>0, <1>1
<1>2. CASE \E i \in 1..Len(rows) : /\ rows' = [rows EXCEPT ![i].status = "DELETED"]
                                   /\ current' \in {0, current}
    BY <1>0, <1>2, RetireEffect
<1> QED
    BY <1>1, <1>2 DEF ProcessDelete

-----------------------------------------------------------------------------
(* Every step keeps the types. *)

\* What a step that writes no row leaves.
LEMMA QuietTypes ==
    ASSUME TypeOK, UNCHANGED bot, Len(rows) \in Nat
    PROVE  RowsTyped
BY DEF TypeOK, bot, RowsTyped

Reasons == {"vanished", "behind", "stale", "swapped", "late", "shared", "orphan",
            "lost"}
Blurs   == blurred' \subseteq Reasons

LEMMA BlurType ==
    ASSUME TypeOK, NEW reason \in Reasons, NEW if \in BOOLEAN, Blur(reason, if)
    PROVE  Blurs
BY DEF TypeOK, Blur, Blurs, Reasons

LEMMA AllTypes ==
    ASSUME TypeOK, NEW t \in Tasks, Moves(t), RowsTyped, Blurs,
           panel' \in PanelRecords, hooks' \in Seq(Hooks), created' \in Nat,
           locks' \subseteq Operators, now' \in Nat, overruled' \in BOOLEAN,
           ops' \in Nat, events' \in Nat
    PROVE  TypeOK'
BY MovesType DEF TypeOK, RowsTyped, Blurs, Reasons

\* A step that moves no task.
LEMMA StillTypes ==
    ASSUME TypeOK, UNCHANGED <<rows, current, trial_available, task>>, Blurs,
           panel' \in PanelRecords, hooks' \in Seq(Hooks), created' \in Nat,
           locks' \subseteq Operators, now' \in Nat, overruled' \in BOOLEAN,
           ops' \in Nat, events' \in Nat
    PROVE  TypeOK'
BY DEF TypeOK, Blurs, Reasons

LEMMA TypeStep == TypeOK /\ Aims /\ [Next]_vars => TypeOK'
<1> SUFFICES ASSUME TypeOK, Aims, [Next]_vars PROVE TypeOK'
    OBVIOUS
<1>0. /\ panel \in PanelRecords /\ hooks \in Seq(Hooks) /\ created \in Nat
      /\ locks \subseteq Operators /\ now \in Nat /\ ops \in Nat /\ events \in Nat
      /\ Len(rows) \in Nat /\ Operators \subseteq Tasks /\ Webhook \in Tasks
    BY DEF TypeOK, Tasks
<1>00. overruled \in BOOLEAN
    BY DEF TypeOK
<1>01. blurred' = blurred => Blurs
    BY DEF TypeOK, Blurs, Reasons
<1>02. Event => events' \in Nat
    BY <1>0 DEF Event
<1>1. ASSUME NEW t \in Operators, NEW op \in Operations, StartOperation(t, op)
      PROVE  TypeOK'
  <2>1. Moves(t)
    BY <1>1, StartMoves
  <2>2. ops' \in Nat /\ UNCHANGED <<bot, world, locks, now, past, events>>
    BY <1>0, <1>1 DEF StartOperation
  <2> QED
    BY <1>0, <1>00, <1>01, <2>1, <2>2, QuietTypes, AllTypes DEF world, past
<1>2. ASSUME NEW t \in Operators, UpdateRow(t) PROVE TypeOK'
  <2>1. Moves(t)
    BY <1>0, <1>2, GoMoves DEF UpdateRow
  <2>2. locks' \subseteq Operators
    BY <1>0, <1>2 DEF UpdateRow
  <2> QED
    BY <1>0, <1>00, <1>01, <1>2, <2>1, <2>2, QuietTypes, AllTypes
    DEF UpdateRow, world, past, count
<1>3. ASSUME NEW t \in Operators, CallPanel(t) PROVE TypeOK'
  <2>1. Called(t)
    BY <1>3, CallPanelStep
  <2>2. Blurs
    BY <1>3, BlurType DEF CallPanel, Reasons
  <2> QED
    BY <1>0, <1>3, <2>1, <2>2, QuietTypes, AllTypes DEF CallPanel, Called, count
<1>4. ASSUME NEW t \in Operators, PanelRefuses(t) PROVE TypeOK'
  <2>1. Moves(t)
    BY <1>0, <1>4, FinishMoves DEF PanelRefuses
  <2>2. locks' \subseteq Operators
    BY <1>0, <1>4 DEF PanelRefuses
  <2> QED
    BY <1>0, <1>00, <1>01, <1>4, <2>1, <2>2, QuietTypes, AllTypes
    DEF PanelRefuses, world, past, count
<1>5. ASSUME NEW t \in Operators, CommitOperation(t) PROVE TypeOK'
  <2>1. Moves(t)
    BY <1>0, <1>5, FinishMoves DEF CommitOperation
  <2>2. locks' \subseteq Operators
    BY <1>0, <1>5 DEF CommitOperation
  <2>3. Blurs
    BY <1>5 DEF CommitOperation, Moved, Blurs, Reasons, TypeOK
  <2> QED
    BY <1>0, <1>00, <1>5, <2>1, <2>2, <2>3, CommitTypes, AllTypes
    DEF CommitOperation, world, count
<1>6. ASSUME NEW t \in Operators, CommitFails(t) PROVE TypeOK'
  <2>1. Moves(t)
    BY <1>0, <1>6, FinishMoves DEF CommitFails
  <2>2. locks' \subseteq Operators
    BY <1>0, <1>6 DEF CommitFails
  <2>3. Blurs
    BY <1>6, BlurType DEF CommitFails, Reasons
  <2> QED
    BY <1>0, <1>00, <1>02, <1>6, <2>1, <2>2, <2>3, QuietTypes, AllTypes
    DEF CommitFails, world
<1>7. ASSUME NEW t \in Tasks, SyncRead(t) PROVE TypeOK'
  <2>1. Moves(t)
    BY <1>7, SyncReadMoves
  <2> QED
    BY <1>0, <1>00, <1>01, <1>7, <2>1, QuietTypes, AllTypes DEF SyncRead, world, past, count
<1>8. ASSUME NEW t \in Tasks, SyncApply(t) PROVE TypeOK'
  <2>1. Moves(t)
    BY <1>8, FinishMoves DEF SyncApply
  <2>2. Blurs
    BY <1>8 DEF SyncApply, Moved, Blurs, Reasons, TypeOK
  <2> QED
    BY <1>0, <1>00, <1>8, <2>1, <2>2, SyncApplyTypes, AllTypes DEF SyncApply, world, count
<1>9. ASSUME NEW i \in 1..Len(hooks), HandleHook(i) PROVE TypeOK'
  <2>1. Moves(Webhook) /\ hooks' \in Seq(Hooks) /\ events' \in Nat
    BY <1>9, HandleHookStep
  <2>2. Blurs
    BY <1>9 DEF HandleHook, Blur, Blurs, Reasons, TypeOK
  <2> QED
    BY <1>0, <1>00, <1>9, <2>1, <2>2, QuietTypes, AllTypes DEF HandleHook
<1>10. ASSUME ProcessDelete PROVE TypeOK'
  <2>1. Moves(Webhook)
    BY <1>0, <1>10, FinishMoves DEF ProcessDelete
  <2>2. Blurs
    BY <1>10 DEF ProcessDelete, Blurs, Reasons, TypeOK
  <2> QED
    BY <1>0, <1>00, <1>10, <2>1, <2>2, ProcessDeleteTypes, AllTypes
    DEF ProcessDelete, world, count
<1>11. ASSUME HookFails PROVE TypeOK'
  <2>1. Moves(Webhook)
    BY <1>0, <1>11, FinishMoves DEF HookFails
  <2>2. Blurs
    BY <1>11, BlurType DEF HookFails, Reasons
  <2> QED
    BY <1>0, <1>00, <1>02, <1>11, <2>1, <2>2, QuietTypes, AllTypes DEF HookFails, world
<1>12. ASSUME EditPanel PROVE TypeOK'
  <2>1. Blurs
    BY <1>12, BlurType DEF EditPanel, Reasons
  <2>2. /\ panel' \in PanelRecords /\ hooks' \in Seq(Hooks) /\ created' \in Nat
        /\ overruled' \in BOOLEAN
    <3>1. CASE /\ PanelSwitches(panel.id, "DISABLED") /\ UNCHANGED created
               /\ overruled' = (overruled \/ CurrentRow.left)
      <4>1. "DISABLED" \in Status /\ panel.id \in Nat
        BY <1>0 DEF Status, PanelRecords
      <4>2. CurrentRow.left \in BOOLEAN
        BY CurrentRowType DEF RowRecords
      <4>3. overruled' \in BOOLEAN
        BY <3>1
      <4> QED
        BY <1>0, <3>1, <4>1, <4>3, PanelSwitchesType
    <3>2. CASE /\ PanelUpdates(panel.id, [panel EXCEPT !.until = now + 1, !.limit = 1 - @,
                                                      !.status = "ACTIVE"])
               /\ UNCHANGED <<created, overruled>>
      <4> DEFINE s == [panel EXCEPT !.until = now + 1, !.limit = 1 - @, !.status = "ACTIVE"]
      <4>1. s.until \in Nat /\ s.limit \in {0, 1} /\ panel.id \in Nat
        BY <1>0 DEF PanelRecords
      <4> HIDE DEF s
      <4> QED
        BY <1>0, <1>00, <3>2, <4>1, PanelUpdatesType DEF s
    <3>3. CASE PanelDeletes /\ UNCHANGED <<created, overruled>>
      BY <1>0, <1>00, <3>3, PanelDeletesType
    <3>4. CASE /\ PanelCreates(created + 1, now + 1, 1, TRUE)
               /\ created' = created + 1 /\ UNCHANGED overruled
      <4>1. created + 1 \in Nat /\ now + 1 \in Nat /\ 1 \in {0, 1} /\ TRUE \in BOOLEAN
        BY <1>0
      <4> QED
        BY <1>00, <3>4, <4>1, PanelCreatesType
    <3> QED
      BY <1>12, <3>1, <3>2, <3>3, <3>4 DEF EditPanel
  <2> QED
    BY <1>0, <1>02, <1>12, <2>1, <2>2, StillTypes DEF EditPanel, bot
<1>13. ASSUME PanelExpires PROVE TypeOK'
  <2>1. [panel EXCEPT !.status = "EXPIRED"] \in PanelRecords
    BY <1>0 DEF PanelRecords, Status
  <2>2. panel' \in PanelRecords /\ hooks' \in Seq(Hooks)
    BY <1>13, <2>1, PanelBecomesType DEF PanelExpires
  <2> QED
    BY <1>0, <1>00, <1>01, <1>13, <2>2, StillTypes DEF PanelExpires, bot, past, count
<1>14. ASSUME Tick PROVE TypeOK'
    BY <1>0, <1>00, <1>01, <1>14, StillTypes DEF Tick, bot, world, past, count
<1>15. CASE UNCHANGED vars
    BY <1>0, <1>00, <1>01, <1>15, StillTypes DEF vars, bot, world, past, count
<1> QED
    BY <1>1, <1>2, <1>3, <1>4, <1>5, <1>6, <1>7, <1>8, <1>9, <1>10, <1>11, <1>12,
       <1>13, <1>14, <1>15 DEF Next

-----------------------------------------------------------------------------
(* The shape of a step *)

Begins(t) == \E op \in Operations : StartOperation(t, op)

Writes ==
    \/ \E t \in Operators : CommitOperation(t)
    \/ \E t \in Tasks : SyncApply(t)
    \/ ProcessDelete

\* Reasons are only added, one task moves at most, and rows are written by
\* commits, copies and deletions.
LEMMA Shape ==
    ASSUME TypeOK, Aims, [Next]_vars
    PROVE  /\ blurred \subseteq blurred'
           /\ (\E t \in Tasks : Moves(t)) \/ UNCHANGED task
           /\ UNCHANGED bot \/ Writes
<1>0. Operators \subseteq Tasks /\ Webhook \in Tasks
    BY DEF Tasks
<1>1. ASSUME NEW t \in Operators, NEW op \in Operations, StartOperation(t, op)
      PROVE  Moves(t) /\ UNCHANGED bot /\ blurred \subseteq blurred'
    BY <1>1, StartMoves DEF StartOperation, past
<1>2. ASSUME NEW t \in Operators, UpdateRow(t)
      PROVE  Moves(t) /\ UNCHANGED bot /\ blurred \subseteq blurred'
    BY <1>0, <1>2, GoMoves DEF UpdateRow, past
<1>3. ASSUME NEW t \in Operators, CallPanel(t)
      PROVE  Moves(t) /\ UNCHANGED bot /\ blurred \subseteq blurred'
    BY <1>3, CallPanelStep DEF CallPanel, Called, Blur
<1>4. ASSUME NEW t \in Operators, PanelRefuses(t)
      PROVE  Moves(t) /\ UNCHANGED bot /\ blurred \subseteq blurred'
    BY <1>0, <1>4, FinishMoves DEF PanelRefuses, past
<1>5. ASSUME NEW t \in Operators, CommitOperation(t)
      PROVE  Moves(t) /\ Writes /\ blurred \subseteq blurred'
    BY <1>0, <1>5, FinishMoves DEF CommitOperation, Writes
<1>6. ASSUME NEW t \in Operators, CommitFails(t)
      PROVE  Moves(t) /\ UNCHANGED bot /\ blurred \subseteq blurred'
    BY <1>0, <1>6, FinishMoves DEF CommitFails, Blur
<1>7. ASSUME NEW t \in Tasks, SyncRead(t)
      PROVE  Moves(t) /\ UNCHANGED bot /\ blurred \subseteq blurred'
    BY <1>7, SyncReadMoves DEF SyncRead, past
<1>8. ASSUME NEW t \in Tasks, SyncApply(t)
      PROVE  Moves(t) /\ Writes /\ blurred \subseteq blurred'
    BY <1>8, FinishMoves DEF SyncApply, Writes
<1>9. ASSUME NEW i \in 1..Len(hooks), HandleHook(i)
      PROVE  Moves(Webhook) /\ UNCHANGED bot /\ blurred \subseteq blurred'
    BY <1>9, HandleHookStep DEF HandleHook, Blur
<1>10. ASSUME ProcessDelete
       PROVE  Moves(Webhook) /\ Writes /\ blurred \subseteq blurred'
    BY <1>0, <1>10, FinishMoves DEF ProcessDelete, Writes
<1>11. ASSUME HookFails
       PROVE  Moves(Webhook) /\ UNCHANGED bot /\ blurred \subseteq blurred'
    BY <1>0, <1>11, FinishMoves DEF HookFails, Blur
<1>12. EditPanel \/ PanelExpires \/ Tick \/ UNCHANGED vars
         => UNCHANGED task /\ UNCHANGED bot /\ blurred \subseteq blurred'
    BY DEF EditPanel, PanelExpires, Tick, vars, past, Blur
<1> QED
    BY <1>0, <1>1, <1>2, <1>3, <1>4, <1>5, <1>6, <1>7, <1>8, <1>9, <1>10, <1>11, <1>12
    DEF Next

\* How a request for a trial goes on: it stays as it is, or has just been
\* admitted, or has just created the panel user.
Goes(t) ==
    /\ task'[t].op = "trial" =>
          \/ task'[t] = task[t]
          \/ /\ task'[t].pc = "panel" /\ trial_available /\ UNCHANGED rows
          \/ /\ task'[t].pc = "commit" /\ task[t].pc = "panel" /\ task[t].op = "trial"
             /\ panel.id = 0 /\ panel'.id # 0 /\ UNCHANGED rows
          \/ task'[t].pc \notin {"panel", "commit"}
    \* Its panel user is not deleted unseen.
    /\ task'[t] = task[t] /\ task[t].pc # "idle" /\ "vanished" \notin blurred' =>
          (panel.id # 0 => panel'.id # 0)

LEMMA CallGoes ==
    ASSUME TypeOK, Aims, NEW u \in Operators, CallPanel(u), NEW t \in Operators
    PROVE  Goes(t)
<1> USE DEF Goes
<1>0. /\ t \in Tasks /\ u \in Tasks /\ task \in [Tasks -> TaskRecords]
      /\ task[u].pc = "panel" /\ created \in Nat /\ UNCHANGED rows
      /\ Blur("vanished", Vanishes /\ Working # {u})
    BY DEF Tasks, TypeOK, CallPanel, At, bot
<1>1. CASE t # u
  <2>1. task'[t] = task[t]
    <3>1. PICK r \in TaskRecords : task' = [task EXCEPT ![u] = r]
      BY CallPanelStep DEF Called, Moves
    <3> QED
      BY <1>0, <1>1, <3>1
  <2>2. ASSUME task[t].pc # "idle", "vanished" \notin blurred', panel.id # 0
        PROVE  panel'.id # 0
    <3>1. t \in Working
      BY <2>2 DEF Working
    <3>2. Working # {u}
      BY <1>1, <3>1
    <3> QED
      BY <1>0, <2>2, <3>2 DEF Blur, Vanishes
  <2> QED
    BY <2>1, <2>2
<1>2. CASE t = u
  <2>01. Finish(u) => task'[t].op # "trial" /\ task'[t].pc = "idle"
    BY <1>0, <1>2 DEF Finish, Idle
  <2>02. ASSUME NEW pc, Answered(u, pc) PROVE task'[t].pc = pc /\ task'[t].op = task[t].op
    BY <1>0, <1>2, <2>02 DEF Answered, TaskRecords
  <2>1. CASE EditsOnPanel(u) \/ SwitchesOnPanel(u) \/ DeletesOnPanel(u)
    BY <1>0, <1>2, <2>02, <2>1 DEF EditsOnPanel, SwitchesOnPanel, DeletesOnPanel, Edit
  <2>2. CASE SetsOnPanel(u)
    <3>1. task'[t].pc = "commit" /\ task'[t].op = task[t].op
      BY <2>02, <2>2 DEF SetsOnPanel
    <3>2. CASE task[t].op = "trial"
      <4>1. PanelCreates(created + 1, now + 1, 0, FALSE)
        BY <1>2, <2>2, <3>2 DEF SetsOnPanel
      <4>2. panel.id = 0 /\ panel'.id = created + 1
        BY <4>1 DEF PanelCreates
      <4> QED
        BY <1>0, <1>2, <3>1, <3>2, <4>2
    <3> QED
      BY <1>0, <1>2, <3>1, <3>2
  <2>3. CASE Pulls(u)
    <3>1. task[t].op = "pull"
      BY <1>2, <2>3 DEF Pulls
    <3>2. CASE task' = [task EXCEPT ![u].pc = "sync", ![u].snap = panel]
      BY <1>0, <1>2, <3>1, <3>2 DEF TaskRecords
    <3>3. CASE task' = [task EXCEPT ![u].pc = "commit", ![u].dto.status = "DELETED",
                                    ![u].snap = panel]
      BY <1>0, <1>2, <3>1, <3>3 DEF TaskRecords
    <3> QED
      BY <1>0, <1>2, <2>01, <2>3, <3>2, <3>3 DEF Pulls
  <2>4. CASE Pushes(u)
    BY <1>0, <1>2, <2>01, <2>02, <2>4 DEF Pushes
  <2> QED
    BY <2>1, <2>2, <2>3, <2>4 DEF CallPanel
<1> QED
    BY <1>1, <1>2

LEMMA Going ==
    ASSUME TypeOK, Aims, [Next]_vars, NEW t \in Operators
    PROVE  Goes(t)
<1> USE DEF Goes
<1>0. /\ Operators \subseteq Tasks /\ Webhook \notin Operators /\ t \in Tasks
      /\ task \in [Tasks -> TaskRecords]
    BY SubscriptionsAssumption DEF Tasks, TypeOK
<1>02. ASSUME NEW u \in Tasks, Finish(u), UNCHANGED panel PROVE Goes(t)
    BY <1>0, <1>02 DEF Finish, Idle
<1>1. ASSUME NEW u \in Operators, NEW op \in Operations, StartOperation(u, op)
      PROVE  Goes(t)
  <2>1. UNCHANGED panel /\ UNCHANGED rows
    BY <1>1 DEF StartOperation, world, bot
  <2>2. op = "trial" => trial_available
    BY <1>1 DEF StartOperation, Applies
  <2>3. t # u => task'[t] = task[t]
    BY <1>0, <1>1 DEF StartOperation
  <2>4. t = u => task'[t].op = op /\ (op = "trial" => task'[t].pc = "panel")
                 /\ task[t].pc = "idle"
    BY <1>0, <1>1 DEF StartOperation, At, Edit
  <2> QED
    BY <2>1, <2>2, <2>3, <2>4
<1>2. ASSUME NEW u \in Operators, UpdateRow(u) PROVE Goes(t)
  <2>1. task[u].op # "trial" /\ UNCHANGED panel
    BY <1>0, <1>2 DEF UpdateRow, At, Aims, Aim, Edit, world
  <2>2. t = u => task'[t].op # "trial"
    BY <1>0, <1>2, <2>1 DEF UpdateRow, Go, TaskRecords
  <2>3. t # u => task'[t] = task[t]
    BY <1>0, <1>2 DEF UpdateRow, Go
  <2> QED
    BY <2>1, <2>2, <2>3
<1>3. ASSUME NEW u \in Operators, CallPanel(u) PROVE Goes(t)
    BY <1>3, CallGoes
<1>4. ASSUME NEW u \in Operators,
             PanelRefuses(u) \/ CommitOperation(u) \/ CommitFails(u) PROVE Goes(t)
    BY <1>0, <1>02, <1>4 DEF PanelRefuses, CommitOperation, CommitFails, world
<1>5. ASSUME NEW u \in Tasks, SyncRead(u) PROVE Goes(t)
    BY <1>0, <1>5 DEF SyncRead, At, TaskRecords, world
<1>6. ASSUME NEW u \in Tasks, SyncApply(u) PROVE Goes(t)
    BY <1>02, <1>6 DEF SyncApply, world
<1>7. ASSUME NEW i \in 1..Len(hooks), HandleHook(i) PROVE Goes(t)
    BY <1>0, <1>7 DEF HandleHook
<1>8. ASSUME ProcessDelete \/ HookFails PROVE Goes(t)
    BY <1>0, <1>02, <1>8 DEF ProcessDelete, HookFails, Tasks, world
<1>9. ASSUME EditPanel PROVE Goes(t)
    BY <1>9 DEF EditPanel, Blur, Vanishes, Working
<1>10. ASSUME PanelExpires PROVE Goes(t)
    BY <1>10 DEF PanelExpires, PanelBecomes, TypeOK, PanelRecords
<1>11. ASSUME Tick \/ UNCHANGED vars PROVE Goes(t)
    BY <1>11 DEF Tick, vars, world
<1> QED
    BY <1>1, <1>2, <1>3, <1>4, <1>5, <1>6, <1>7, <1>8, <1>9, <1>10, <1>11 DEF Next

-----------------------------------------------------------------------------
(* The parts of the invariant *)

LEMMA InitIInv == Init => IInv
<1> SUFFICES ASSUME Init PROVE IInv
    OBVIOUS
<1>1. TypeOK
    BY TypeInit
<1>2. \A t \in Tasks : task[t] = Idle
    BY DEF Init
<1>3. Aims
    BY <1>2, Constant DEF Aims
<1>4. ReadLive /\ TrialGuarded
    BY <1>2 DEF ReadLive, TrialGuarded, Grants, Tasks, Idle
<1>5. OnlyCurrentIsLive /\ TrialRows /\ TrialOnce
  <2>1. CASE rows = <<>> /\ current = 0
    BY <2>1 DEF OnlyCurrentIsLive, TrialRows, NoTrial, TrialOnce
  <2>2. ASSUME NEW trial \in BOOLEAN, rows = <<NewRow(panel, trial)>>,
               panel.status = "ACTIVE", current = 1, trial_available = FALSE
        PROVE  OnlyCurrentIsLive /\ TrialRows /\ TrialOnce
    <3>1. NewRow(panel, trial).status = "ACTIVE"
      BY <2>2 DEF NewRow
    <3>2. \A k \in 1..Len(rows) : k = 1 /\ rows[k].status # "DELETED"
      BY <2>2, <3>1
    <3>3. OnlyCurrentIsLive /\ TrialOnce
      BY <2>2, <3>2 DEF OnlyCurrentIsLive, TrialOnce
    <3>4. TrialRows
      BY <2>2 DEF TrialRows
    <3> QED
      BY <3>3, <3>4
  <2>3. panel = [id |-> 1, status |-> "ACTIVE", until |-> 1, limit |-> 0]
          => panel.status = "ACTIVE"
    OBVIOUS
  <2> QED
    BY <2>1, <2>2, <2>3 DEF Init
<1> QED
    BY <1>1, <1>3, <1>4, <1>5 DEF IInv

LEMMA AimsStep == TypeOK /\ Aims /\ [Next]_vars => Aims'
<1> SUFFICES ASSUME TypeOK, Aims, [Next]_vars PROVE Aims'
    OBVIOUS
<1>1. CASE UNCHANGED task
    BY <1>1 DEF Aims, Aim
<1>2. ASSUME NEW t \in Tasks, Moves(t) PROVE Aims'
  <2>1. PICK r \in TaskRecords : task' = [task EXCEPT ![t] = r] /\ Aim(r)
    BY <1>2 DEF Moves
  <2>2. \A u \in Tasks : task'[u] = r \/ task'[u] = task[u]
    BY <2>1 DEF TypeOK
  <2>3. \A u \in Tasks : Aim(task'[u])
    BY <2>1, <2>2 DEF Aims
  <2> QED
    BY <2>3 DEF Aims, Aim
<1> QED
    BY <1>1, <1>2, Shape

LEMMA ReadStep ==
    TypeOK /\ Aims /\ ReadLive /\ OnlyCurrentIsLive /\ [Next]_vars => ReadLive'
<1> SUFFICES ASSUME TypeOK, Aims, ReadLive, OnlyCurrentIsLive, [Next]_vars, Clean',
                    NEW u \in Tasks, task'[u].row # 0
             PROVE  task'[u].base.status # "DELETED"
    BY DEF ReadLive
<1>1. Clean
    BY Shape DEF Clean
<1>2. task[u].row # 0 => task[u].base.status # "DELETED"
    BY <1>1 DEF ReadLive
<1>3. current # 0 => CurrentRow.status # "DELETED"
    BY <1>1 DEF OnlyCurrentIsLive, Clean, CurrentRow, TypeOK
<1>4. CASE UNCHANGED task
    BY <1>2, <1>4
<1>5. ASSUME NEW t \in Tasks, Moves(t) PROVE task'[u].base.status # "DELETED"
    BY <1>2, <1>3, <1>5 DEF Moves, TypeOK
<1> QED
    BY <1>4, <1>5, Shape

Live == \A i \in 1..Len(rows) : rows[i].status # "DELETED" <=> i = current

\* Old rows keep their flags, and a new one is no trial.
OldTrials ==
    \A i \in 1..Len(rows') : rows'[i].trial => i \in 1..Len(rows) /\ rows[i].trial

LEMMA NoNewTrial ==
    ASSUME TypeOK, TrialRows, TrialOnce, blurred \subseteq blurred',
           Len(rows') \in Nat,
           trial_available' => trial_available,
           OldTrials
    PROVE  OldTrials /\ TrialRows' /\ TrialOnce'
BY DEF OldTrials, TrialRows, NoTrial, TrialOnce

LEMMA CommitStep ==
    ASSUME IInv, NEW t \in Operators, CommitOperation(t), blurred \subseteq blurred'
    PROVE  (Clean' => Live') /\ TrialRows' /\ TrialOnce' /\ (OldTrials \/ Grants(t))
<1>0. /\ t \in Tasks /\ task[t].snap \in PanelRecords /\ task[t].row \in 0..Len(rows)
      /\ rows \in Seq(RowRecords) /\ Len(rows) \in Nat /\ current \in 0..Len(rows)
      /\ TypeOK /\ Aims /\ Aim(task[t]) /\ At(t, "commit")
    BY DEF IInv, Tasks, TypeOK, TaskRecords, Aims, CommitOperation
<1>1. ASSUME Clean' PROVE Live /\ current = Expected(t)
  <2>1. Clean
    BY <1>1 DEF Clean
  <2>2. Live
    BY <2>1 DEF IInv, OnlyCurrentIsLive, Clean, Live
  <2>3. current = Expected(t)
    BY <1>1 DEF CommitOperation, Moved, Clean
  <2> QED
    BY <2>2, <2>3
<1>2. CASE CommitsUpdate(t)
  <2>1. /\ Len(rows') = Len(rows) /\ current' = current
        /\ trial_available' = trial_available
        /\ \A i \in 1..Len(rows) :
              /\ rows'[i].trial = rows[i].trial
              /\ rows'[i].status # rows[i].status => rows'[i].status # "DELETED"
              /\ i # task[t].row => rows'[i].status = rows[i].status
    <3>1. task[t].dto.status # task[t].base.status => task[t].dto.status # "DELETED"
      BY <1>0, <1>2 DEF Aim, At, CommitsUpdate, Writers
    <3> QED
      BY <1>0, <1>2, <3>1, UpdateEffect DEF CommitsUpdate
  <2>2. OldTrials /\ TrialRows' /\ TrialOnce'
    BY <1>0, <2>1, NoNewTrial DEF IInv, OldTrials
  <2>3. ASSUME Clean' PROVE Live'
    <3>1. current = task[t].row
      BY <1>1, <1>2, <2>3 DEF Expected, CommitsUpdate, Edit
    <3> QED
      BY <1>1, <2>1, <2>3, <3>1 DEF Live
  <2> QED
    BY <2>2, <2>3
<1>3. CASE CommitsDeletion(t)
  <2>1. task[t].dto.status = "DELETED" /\ task[t].op \in {"delete", "pull"}
    BY <1>0, <1>3 DEF Aim, At, CommitsDeletion
  <2>2. /\ Len(rows') = Len(rows) /\ current' = 0
        /\ trial_available' = trial_available
        /\ \A i \in 1..Len(rows) :
              /\ rows'[i].trial = rows[i].trial
              /\ i = task[t].row /\ task[t].base.status # "DELETED"
                   => rows'[i].status = "DELETED"
              /\ i # task[t].row => rows'[i].status = rows[i].status
    BY <1>0, <1>3, <2>1, UpdateEffect DEF CommitsDeletion
  <2>3. OldTrials /\ TrialRows' /\ TrialOnce'
    BY <1>0, <2>2, NoNewTrial DEF IInv, OldTrials
  <2>4. ASSUME Clean' PROVE Live'
    <3>1. current = task[t].row /\ Live
      BY <1>1, <2>1, <2>4 DEF Expected
    <3>2. task[t].row # 0 => task[t].base.status # "DELETED"
      BY <1>0, <2>4 DEF IInv, ReadLive, Clean
    <3> QED
      BY <1>0, <2>2, <3>1, <3>2 DEF Live
  <2> QED
    BY <2>3, <2>4
<1>4. CASE CommitsPlan(t)
  <2> DEFINE before == RetiresRow(t)
             row == NewRow(task[t].snap, FALSE)
  <2>1. /\ before \in Seq(RowRecords) /\ Len(before) = Len(rows)
        /\ \A i \in 1..Len(rows) :
              /\ before[i].trial = rows[i].trial
              /\ before[i].status = IF i = task[t].row THEN "DELETED" ELSE rows[i].status
    BY <1>0, RetireEffect DEF RetiresRow
  <2>2. row \in RowRecords /\ row.status # "DELETED" /\ row.trial = FALSE
    BY <1>0, NewRowType
  <2>3. Inserts(row, before) /\ trial_available' = FALSE /\ task[t].op = "set"
    BY <1>4 DEF CommitsPlan
  <2> HIDE DEF before, row
  <2>4. /\ Len(rows') = Len(rows) + 1 /\ current' = Len(rows) + 1
        /\ rows'[Len(rows) + 1] = row
        /\ \A i \in 1..Len(rows) : rows'[i] = before[i]
    BY <2>1, <2>2, <2>3, InsertEffect
  <2>5. OldTrials
    BY <1>0, <2>1, <2>2, <2>4 DEF OldTrials
  <2>6. OldTrials /\ TrialRows' /\ TrialOnce'
    BY <1>0, <2>3, <2>4, <2>5, NoNewTrial DEF IInv, OldTrials
  <2>7. ASSUME Clean' PROVE Live'
    <3>1. current = task[t].row /\ Live
      BY <1>1, <2>3, <2>7 DEF Expected
    <3> QED
      BY <1>0, <2>1, <2>2, <2>4, <3>1 DEF Live
  <2> QED
    BY <2>6, <2>7
<1>5. CASE CommitsTrial(t)
  <2> DEFINE row == NewRow(task[t].snap, TRUE)
  <2>1. row \in RowRecords /\ row.status # "DELETED"
    BY <1>0, NewRowType
  <2>2. Inserts(row, rows) /\ trial_available' = FALSE /\ task[t].op = "trial"
    BY <1>5 DEF CommitsTrial
  <2> HIDE DEF row
  <2>3. /\ Len(rows') = Len(rows) + 1 /\ current' = Len(rows) + 1
        /\ rows'[Len(rows) + 1] = row
        /\ \A i \in 1..Len(rows) : rows'[i] = rows[i]
    BY <1>0, <2>1, <2>2, InsertEffect
  <2>4. TrialRows' /\ Grants(t)
    BY <1>0, <2>2 DEF TrialRows, Grants, At
  <2>5. TrialOnce'
    <3>1. CASE "vanished" \in blurred'
      BY <3>1 DEF TrialOnce
    <3>2. CASE "vanished" \notin blurred'
      <4>1. NoTrial
        BY <2>4, <3>2 DEF IInv, TrialGuarded
      <4>2. \A i \in 1..Len(rows') : rows'[i].trial => i = Len(rows) + 1
        BY <1>0, <2>3, <4>1 DEF NoTrial
      <4> QED
        BY <4>2 DEF TrialOnce
    <3> QED
      BY <3>1, <3>2
  <2>6. ASSUME Clean' PROVE Live'
    <3>1. current = 0 /\ Live
      BY <1>1, <2>2, <2>6 DEF Expected
    <3> QED
      BY <1>0, <2>1, <2>3, <3>1 DEF Live
  <2> QED
    BY <2>4, <2>5, <2>6
<1> QED
    BY <1>2, <1>3, <1>4, <1>5 DEF CommitOperation

LEMMA SyncApplyStep ==
    ASSUME IInv, NEW t \in Tasks, SyncApply(t), blurred \subseteq blurred'
    PROVE  (Clean' => Live') /\ TrialRows' /\ TrialOnce' /\ OldTrials
<1>0. /\ task[t].row \in 0..Len(rows) /\ rows \in Seq(RowRecords)
      /\ Len(rows) \in Nat /\ current \in 0..Len(rows)
      /\ TypeOK /\ Aims
    BY DEF IInv, TypeOK
<1>4. task[t].dto.status # "DELETED"
    BY <1>0 DEF Aims, Aim, SyncApply, At
<1>5. trial_available' = trial_available
    BY DEF SyncApply
<1>1. ASSUME Clean' PROVE Live /\ current = task[t].row
  <2>1. Clean
    BY <1>1 DEF Clean
  <2>2. current = task[t].row
    BY <1>1 DEF SyncApply, Moved, Clean
  <2> QED
    BY <2>1, <2>2 DEF IInv, OnlyCurrentIsLive, Clean, Live
<1>2. CASE task[t].row = 0
  <2>1. /\ Len(rows') = Len(rows) + 1 /\ current' = Len(rows) + 1
        /\ rows'[Len(rows) + 1] = Imported(t)
        /\ \A i \in 1..Len(rows) : rows'[i] = rows[i]
    BY <1>0, <1>2, ImportedType, InsertEffect DEF SyncApply, Imported
  <2>2. Imported(t).status # "DELETED" /\ Imported(t).trial = FALSE
    BY <1>0, ImportedType
  <2>3. OldTrials
    BY <1>0, <2>1, <2>2 DEF OldTrials
  <2>4. OldTrials /\ TrialRows' /\ TrialOnce'
    BY <1>0, <1>5, <2>1, <2>3, NoNewTrial DEF IInv, OldTrials
  <2>5. ASSUME Clean' PROVE Live'
    BY <1>0, <1>1, <1>2, <2>1, <2>2, <2>5 DEF Live
  <2> QED
    BY <2>4, <2>5
<1>3. CASE task[t].row # 0
  <2>1. /\ Len(rows') = Len(rows) /\ current' = current
        /\ \A i \in 1..Len(rows) :
              /\ rows'[i].trial = rows[i].trial
              /\ rows'[i].status # rows[i].status => rows'[i].status # "DELETED"
              /\ i # task[t].row => rows'[i].status = rows[i].status
    BY <1>0, <1>3, <1>4, UpdateEffect DEF SyncApply
  <2>2. OldTrials /\ TrialRows' /\ TrialOnce'
    BY <1>0, <1>5, <2>1, NoNewTrial DEF IInv, OldTrials
  <2>3. ASSUME Clean' PROVE Live'
    BY <1>0, <1>1, <2>1, <2>3 DEF Live
  <2> QED
    BY <2>2, <2>3
<1> QED
    BY <1>2, <1>3

LEMMA ProcessDeleteStep ==
    ASSUME IInv, ProcessDelete, blurred \subseteq blurred'
    PROVE  (Clean' => Live') /\ TrialRows' /\ TrialOnce' /\ OldTrials
<1>0. /\ rows \in Seq(RowRecords) /\ Len(rows) \in Nat /\ current \in 0..Len(rows)
      /\ TypeOK /\ trial_available' = trial_available
    BY DEF IInv, TypeOK, ProcessDelete
<1>1. ASSUME Clean' PROVE Live
    BY <1>1 DEF IInv, OnlyCurrentIsLive, Clean, Live
<1>2. CASE UNCHANGED <<rows, current>>
  <2>1. OldTrials /\ TrialRows' /\ TrialOnce'
    BY <1>0, <1>2, NoNewTrial DEF IInv, OldTrials
  <2>2. Clean' => Live'
    BY <1>1, <1>2 DEF Live
  <2> QED
    BY <2>1, <2>2
<1>3. ASSUME NEW i \in 1..Len(rows), rows[i].id = task[Webhook].snap.id,
             rows' = [rows EXCEPT ![i].status = "DELETED"],
             current' = IF IsCurrent(task[Webhook].snap) THEN 0 ELSE current,
             i # current => "shared" \in blurred'
      PROVE  (Clean' => Live') /\ TrialRows' /\ TrialOnce' /\ OldTrials
  <2>1. /\ Len(rows') = Len(rows)
        /\ \A j \in 1..Len(rows) :
              /\ rows'[j].trial = rows[j].trial
              /\ rows'[j].status = IF j = i THEN "DELETED" ELSE rows[j].status
    BY <1>0, <1>3, RetireEffect
  <2>2. OldTrials /\ TrialRows' /\ TrialOnce'
    BY <1>0, <2>1, NoNewTrial DEF IInv, OldTrials
  <2>3. ASSUME Clean' PROVE Live'
    <3>1. i = current
      BY <1>3, <2>3 DEF Clean
    <3>2. current' = 0
      BY <1>0, <1>3, <3>1 DEF IsCurrent
    <3> QED
      BY <1>0, <1>1, <2>1, <2>3, <3>1, <3>2 DEF Live
  <2> QED
    BY <2>2, <2>3
<1> QED
    BY <1>2, <1>3 DEF ProcessDelete

\* A commit that grants a trial apart, a step adds none.
AddsTrials == \E t \in Operators : CommitOperation(t) /\ Grants(t)

LEMMA RowsStep ==
    IInv /\ [Next]_vars =>
        OnlyCurrentIsLive' /\ TrialRows' /\ TrialOnce' /\ (OldTrials \/ AddsTrials)
<1> SUFFICES ASSUME IInv, [Next]_vars
             PROVE  OnlyCurrentIsLive' /\ TrialRows' /\ TrialOnce' /\ (OldTrials \/ AddsTrials)
    OBVIOUS
<1>1. blurred \subseteq blurred' /\ (UNCHANGED bot \/ Writes)
    BY Shape DEF IInv
<1>2. CASE UNCHANGED bot
    BY <1>1, <1>2 DEF IInv, bot, OnlyCurrentIsLive, TrialRows, NoTrial, TrialOnce, OldTrials
<1>3. CASE Writes
  <2>1. /\ (Clean' => Live') /\ TrialRows' /\ TrialOnce'
        /\ OldTrials \/ AddsTrials
    BY <1>1, <1>3, CommitStep, SyncApplyStep, ProcessDeleteStep DEF Writes, AddsTrials
  <2> QED
    BY <2>1 DEF Clean, Live, OnlyCurrentIsLive
<1> QED
    BY <1>1, <1>2, <1>3

LEMMA GuardedStep == IInv /\ [Next]_vars => TrialGuarded'
<1> SUFFICES ASSUME IInv, [Next]_vars, "vanished" \notin blurred', NEW t \in Operators
             PROVE  /\ task'[t].pc = "panel" /\ task'[t].op = "trial"
                          => panel'.id # 0 \/ NoTrial'
                    /\ Grants(t)' => /\ panel'.id # 0 /\ NoTrial'
                                     /\ \A u \in Operators : Grants(u)' => u = t
    BY DEF TrialGuarded
<1>0. TypeOK /\ Aims /\ TrialRows /\ TrialGuarded /\ Len(rows) \in Nat
    BY DEF IInv, TypeOK
<1>1. "vanished" \notin blurred
    BY <1>0, Shape
<1>2. OldTrials \/ AddsTrials
    BY RowsStep
<1>3. \A u \in Operators : Goes(u)
    BY <1>0, Going
\* Who grants a trial is alone with it, and is done.
<1>4. ASSUME NEW u \in Operators, CommitOperation(u), Grants(u)
      PROVE  panel'.id # 0 /\ task'[u].op # "trial" /\ \A v \in Operators : Grants(v) => v = u
  <2>1. panel.id # 0 /\ \A v \in Operators : Grants(v) => v = u
    BY <1>0, <1>1, <1>4 DEF TrialGuarded
  <2>2. panel' = panel /\ Finish(u) /\ u \in Tasks
    BY <1>4 DEF CommitOperation, world, Tasks
  <2>3. task'[u].op # "trial"
    BY <1>0, <2>2 DEF Finish, Idle, TypeOK
  <2> QED
    BY <2>1, <2>2, <2>3
<1>5. OldTrials /\ NoTrial => NoTrial'
    BY DEF OldTrials, NoTrial
<1>6. ASSUME task'[t].pc = "panel", task'[t].op = "trial"
      PROVE  panel'.id # 0 \/ NoTrial'
  <2>1. CASE task'[t] = task[t]
    BY <1>0, <1>1, <1>2, <1>3, <1>4, <1>5, <1>6, <2>1 DEF Goes, TrialGuarded, AddsTrials
  <2>2. CASE trial_available /\ UNCHANGED rows
    BY <1>0, <2>2 DEF TrialRows, NoTrial
  <2> QED
    BY <1>3, <1>6, <2>1, <2>2 DEF Goes
<1>7. ASSUME Grants(t)'
      PROVE  /\ panel'.id # 0 /\ NoTrial'
             /\ \A u \in Operators : Grants(u)' => u = t
  <2>0. \A u \in Operators : Grants(u)' =>
           \/ task'[u] = task[u] /\ Grants(u)
           \/ /\ task[u].pc = "panel" /\ task[u].op = "trial"
              /\ panel.id = 0 /\ panel'.id # 0 /\ UNCHANGED rows
    BY <1>3 DEF Goes, Grants
  <2>1. CASE task'[t] = task[t] /\ Grants(t)
    <3>1. panel.id # 0 /\ NoTrial /\ \A u \in Operators : Grants(u) => u = t
      BY <1>0, <1>1, <2>1 DEF TrialGuarded
    <3>2. panel'.id # 0
      BY <1>3, <2>1, <3>1 DEF Goes, Grants
    <3>3. ~AddsTrials
      BY <1>4, <1>7, <3>1 DEF AddsTrials, Grants
    <3> QED
      BY <1>2, <1>5, <2>0, <3>1, <3>2, <3>3
  <2>2. CASE /\ task[t].pc = "panel" /\ task[t].op = "trial"
             /\ panel.id = 0 /\ panel'.id # 0 /\ UNCHANGED rows
    <3>1. NoTrial /\ \A u \in Operators : ~Grants(u)
      BY <1>0, <1>1, <2>2 DEF TrialGuarded
    <3>2. NoTrial'
      BY <2>2, <3>1 DEF NoTrial
    <3>3. ASSUME NEW u \in Operators, Grants(u)' PROVE u = t
      <4>1. task[u].pc = "panel" /\ task[u].op = "trial" /\ task'[u] # task[u]
        BY <2>0, <3>1, <3>3 DEF Grants
      <4>2. task'[t] # task[t]
        BY <1>7, <2>2 DEF Grants
      <4> QED
        BY <1>0, <4>1, <4>2, Shape DEF Moves, TypeOK, Tasks
    <3> QED
      BY <2>2, <3>2, <3>3
  <2> QED
    BY <1>7, <2>0, <2>1, <2>2
<1> QED
    BY <1>6, <1>7

-----------------------------------------------------------------------------
(* Theorems *)

\* The invariant holds in every state, whatever crosses, fails or is overtaken.
THEOREM Invariance == Spec => []IInv
<1>1. IInv /\ [Next]_vars => IInv'
    BY TypeStep, AimsStep, ReadStep, RowsStep, GuardedStep DEF IInv
<1> QED
    BY <1>1, InitIInv, PTL DEF Spec

\* The types of the rows, the panel user, the webhooks and the tasks.
THEOREM TypeCorrect == Spec => []TypeOK
<1>1. IInv => TypeOK
    BY DEF IInv
<1> QED
    BY <1>1, Invariance, PTL

\* The current subscription, and no other, counts as the user's, unless a commit
\* met a pointer that had moved or a deletion a user of several rows.
THEOREM OnlyCurrentIsLiveHolds == Spec => []OnlyCurrentIsLive
<1>1. IInv => OnlyCurrentIsLive
    BY DEF IInv
<1> QED
    BY <1>1, Invariance, PTL

\* The trial is given once, unless a panel user was deleted while an operation worked.
THEOREM TrialOnceHolds == Spec => []TrialOnce
<1>1. IInv => TrialOnce
    BY DEF IInv
<1> QED
    BY <1>1, Invariance, PTL
-----------------------------------------------------------------------------
(* The row and the panel user agree at rest: a second invariant. It follows a   *)
(* change of the panel user on its way to the row, and tells which task, with   *)
(* what it has read and been answered, or which webhook has it.                 *)

\* Nothing has happened of what AgreeAtRest sets aside.
Clear == blurred \cap {"behind", "stale", "swapped", "late", "orphan", "lost"} = {}

Switches == {"toggle", "leave", "join"}

\* What a task is going to write, next to what it has read and been answered.
Plan(r) ==
    /\ r.row # 0 => r.base.id # 0
    /\ r.pc \in {"update", "panel", "commit"} =>
          /\ r.dto.id = r.base.id
          /\ r.op \in Writers \cup {"delete"} => r.row # 0
          /\ r.op \in Edit \cup {"renew"} => r.dto.status = r.base.status
          /\ r.op \in Switches => r.dto.until = r.base.until /\ r.dto.limit = r.base.limit
    /\ r.pc = "commit" =>
          /\ r.op \in Edit \cup {"renew"} =>
                /\ r.snap.id = r.base.id
                /\ r.snap.until = r.dto.until /\ r.snap.limit = r.dto.limit
          /\ r.op \in Switches => r.snap.id = r.base.id /\ r.snap.status = r.dto.status
          /\ r.op \in {"delete", "pull"} => r.row # 0 /\ r.snap.id # r.base.id
          /\ r.op \in {"set", "trial"} => r.snap.id # 0
    /\ r.pc \in {"sync", "apply"} => r.snap.id # 0
    /\ r.pc = "apply" =>
          /\ r.dto.id = r.snap.id /\ r.dto.until = r.snap.until
          /\ r.dto.limit = r.snap.limit /\ r.dto.status = r.snap.status

RowIds  == \A i \in 1..Len(rows) : rows[i].id # 0
HookIds == \A i \in 1..Len(hooks) : hooks[i].user.id # 0

Plans == (\A t \in Tasks : Plan(task[t])) /\ RowIds /\ HookIds

\* The newest webhook tells of a user that is there. The users that webhooks say
\* are deleted, and those the handler will copy to whatever row is current.
Newest(q) == q # <<>> /\ q[Len(q)].kind # "deleted"
Ended(q)  == {q[i].user.id : i \in {j \in 1..Len(q) : q[j].kind = "deleted"}}
Copied(q) == {q[i].user.id : i \in {j \in 1..Len(q) : q[j].kind \in {"imported", "modified"}}}

Told == Newest(hooks) => hooks[Len(hooks)].user = panel

\* A user that a webhook tells of is there, and the newest webhook tells of it
\* too, or a later one of its deletion.
Follow(q, id) ==
    \A i \in 1..Len(q) : q[i].kind # "deleted" =>
        \/ \E j \in (i + 1)..Len(q) : q[j].kind = "deleted" /\ q[j].user.id = q[i].user.id
        \/ Newest(q) /\ q[i].user.id = id

Follows == Follow(hooks, panel.id)

Syncs(t)   == task[t].pc \in {"sync", "apply"}
Removes(t, id) == task[t].pc = "remove" /\ task[t].snap.id = id

\* So is the one the handler is copying.
Heard ==
    Syncs(Webhook) =>
        LET snap == task[Webhook].snap IN
        \/ snap.id \in Ended(hooks)
        \/ hooks = <<>> /\ snap = panel
        \/ Newest(hooks) /\ panel.id = snap.id

\* So is the one the current row is about, or the row will be about another.
Linked ==
    current # 0 =>
        LET id == rows[current].id IN
        \/ panel.id = id \/ id \in Ended(hooks) \/ Removes(Webhook, id)
        \/ Syncs(Webhook) \/ Copied(hooks) # {}

\* The operation has created the panel user, and no webhook told of it.
Creator(t) ==
    /\ task[t].snap.id = panel.id
    /\ \/ task[t].pc = "commit" /\ task[t].op = "trial"
       \/ task[t].pc = "commit" /\ task[t].op = "set" /\ task[t].row = 0
       \/ Syncs(t) /\ task[t].op = "push"

\* The row a task is to write is no longer current, or there is none.
Off(t) == task[t].row = 0 \/ task[t].row # current

Unread(t) == task[t].pc = "apply" => Off(t) \/ rows[task[t].row] = task[t].base

\* The panel user is known: to the row, or to who is going to write the row.
Known ==
    panel.id # 0 =>
        \/ current # 0 /\ rows[current].id = panel.id
        \/ Syncs(Webhook) /\ task[Webhook].snap.id = panel.id
        \/ panel.id \in Copied(hooks)
        \/ \E t \in Operators : Creator(t) /\ Unread(t)

\* The copy makes the current row what the task was told.
Whole(t) ==
    task[t].pc = "apply" =>
        \/ Off(t)
        \/ LET r == rows[task[t].row]  d == task[t].dto  b == task[t].base IN
           /\ d.until # b.until \/ r.until = d.until
           /\ d.limit # b.limit \/ r.limit = d.limit
           /\ d.status # b.status \/ r.status = d.status

Fits(r) ==
    /\ r.id = panel.id /\ r.until = panel.until /\ r.limit = panel.limit
    /\ r.status = panel.status \/ panel.until <= now

\* The panel user as it is is in the row, or on its way there, or the deletion of
\* one of its id is.
Carried ==
    panel.id # 0 =>
        \/ current # 0 /\ Fits(rows[current])
        \/ Newest(hooks)
        \/ Syncs(Webhook) /\ task[Webhook].snap = panel /\ Whole(Webhook)
        \/ \E t \in Operators : Creator(t) /\ (task[t].snap = panel => Whole(t))
        \/ panel.id \in Ended(hooks) \/ Removes(Webhook, panel.id)

Pieces == Told /\ Follows /\ Heard /\ Linked /\ Known /\ Carried

News == Plans /\ (Clear => Pieces)

-----------------------------------------------------------------------------
(* What the panel reports *)

\* A webhook is sent: of a deletion, of a change, or of a user that was imported.
Reports(h) ==
    /\ hooks' = Append(hooks, h)
    /\ \/ h.kind = "deleted" /\ panel.id # 0 /\ h.user = panel /\ panel'.id = 0
       \/ /\ h.kind # "deleted" /\ h.user = panel' /\ panel'.id # 0
          /\ panel.id = panel'.id \/ (panel.id = 0 /\ h.kind = "imported")

Reported == \E h \in Hooks : Reports(h)

LEMMA BecomesReports ==
    ASSUME TypeOK, NEW user \in PanelRecords,
           NEW kind \in {"imported", "modified", "status", "deleted"},
           PanelBecomes(user, kind),
           kind = "deleted" => panel.id # 0 /\ user.id = 0,
           kind # "deleted" =>
              user.id # 0 /\ (panel.id = user.id \/ (panel.id = 0 /\ kind = "imported"))
    PROVE  Reported /\ panel' = user
<1> DEFINE told == IF kind = "deleted" THEN panel ELSE user
           hook == [kind |-> kind, user |-> told]
<1>1. told \in PanelRecords
    BY DEF TypeOK
<1>2. hooks' = Append(hooks, hook) /\ panel' = user
    BY DEF PanelBecomes
<1>3. /\ kind = "deleted" => told = panel
      /\ kind # "deleted" => told = panel'
    BY <1>2
<1> HIDE DEF told
<1>4. hook \in Hooks /\ hook.kind = kind /\ hook.user = told
    BY <1>1 DEF Hooks
<1> HIDE DEF hook
<1>5. Reports(hook)
    BY <1>2, <1>3, <1>4 DEF Reports
<1> QED
    BY <1>2, <1>4, <1>5 DEF Reported

LEMMA UpdatesReport ==
    ASSUME TypeOK, NEW id \in Nat, NEW s, s.until \in Nat, s.limit \in {0, 1},
           PanelUpdates(id, s)
    PROVE  /\ Reported /\ panel' \in PanelRecords
           /\ panel.id = id /\ panel'.id = id /\ id # 0
           /\ panel'.until = s.until /\ panel'.limit = s.limit
<1> DEFINE status == IF s.status = "DISABLED" THEN "DISABLED" ELSE "ACTIVE"
           user == [id |-> id, until |-> s.until, limit |-> s.limit, status |-> status]
<1>1. status \in Status
    BY DEF Status
<1>2. panel.id = id /\ id # 0 /\ PanelBecomes(user, "modified")
    BY DEF PanelUpdates
<1> HIDE DEF status
<1>3. /\ user \in PanelRecords /\ user.id = id
      /\ user.until = s.until /\ user.limit = s.limit
    BY <1>1 DEF PanelRecords
<1> HIDE DEF user
<1> QED
    BY <1>2, <1>3, BecomesReports

LEMMA SwitchesReport ==
    ASSUME TypeOK, NEW id \in Nat, NEW status \in Status, PanelSwitches(id, status)
    PROVE  /\ Reported /\ panel' \in PanelRecords
           /\ panel.id = id /\ panel'.id = id /\ panel'.status = status
<1> DEFINE user == [panel EXCEPT !.status = status]
<1>1. user \in PanelRecords /\ user.id = panel.id /\ user.status = status
    BY DEF TypeOK, PanelRecords
<1>2. panel.id = id /\ id # 0 /\ PanelBecomes(user, "status")
    BY DEF PanelSwitches
<1> HIDE DEF user
<1> QED
    BY <1>1, <1>2, BecomesReports

LEMMA DeletesReport ==
    ASSUME TypeOK, PanelDeletes
    PROVE  Reported /\ panel' = NoUser /\ panel' \in PanelRecords
<1>1. NoUser \in PanelRecords /\ NoUser.id = 0
    BY Constant DEF NoUser
<1> QED
    BY <1>1, BecomesReports DEF PanelDeletes

LEMMA CreatesReport ==
    ASSUME TypeOK, NEW id \in Nat, id # 0, NEW until \in Nat, NEW limit \in {0, 1},
           NEW imported \in BOOLEAN, PanelCreates(id, until, limit, imported)
    PROVE  /\ panel.id = 0 /\ panel'.id = id /\ panel' \in PanelRecords
           /\ imported => Reported
           /\ ~imported => UNCHANGED hooks
<1> DEFINE user == [id |-> id, status |-> "ACTIVE", until |-> until, limit |-> limit]
<1>1. user \in PanelRecords /\ user.id = id
    BY DEF PanelRecords, Status
<1>2. /\ panel.id = 0
      /\ imported => PanelBecomes(user, "imported")
      /\ ~imported => panel' = user /\ UNCHANGED hooks
    BY DEF PanelCreates
<1> HIDE DEF user
<1> QED
    BY <1>1, <1>2, BecomesReports

\* One task moves, to what the step says.
Others(t) == \A u \in Tasks \ {t} : task'[u] = task[u]

LEMMA MovesOthers ==
    ASSUME TypeOK, NEW t \in Tasks, Moves(t)
    PROVE  Others(t)
BY DEF Moves, TypeOK, Others

LEMMA FinishIdle ==
    ASSUME TypeOK, NEW t \in Tasks, Finish(t)
    PROVE  task'[t] = Idle /\ Others(t) /\ Plan(task'[t])
BY DEF TypeOK, Finish, Others, Idle, Plan

LEMMA IntendedFields ==
    ASSUME NEW op \in Operations, NEW r \in RowRecords
    PROVE  /\ Intended(op, r).id = r.id
           /\ op \in Edit \cup {"renew"} => Intended(op, r).status = r.status
           /\ op \in Switches =>
                 Intended(op, r).until = r.until /\ Intended(op, r).limit = r.limit
BY DEF Intended, RowRecords, Edit, Operations, Switches

LEMMA CurrentId ==
    ASSUME TypeOK, RowIds
    PROVE  /\ current # 0 => CurrentRow.id # 0 /\ CurrentRow = rows[current]
           /\ current = 0 \/ current \in 1..Len(rows)
BY DEF TypeOK, RowIds, CurrentRow

LEMMA AnsweredFields ==
    ASSUME TypeOK, NEW t \in Tasks, NEW pc, Answered(t, pc)
    PROVE  /\ task'[t].pc = pc /\ task'[t].snap = panel'
           /\ task'[t].op = task[t].op /\ task'[t].row = task[t].row
           /\ task'[t].base = task[t].base /\ task'[t].dto = task[t].dto
           /\ Others(t)
BY DEF Answered, TypeOK, TaskRecords, Others

\* What a call does to the panel user, and what the task knows then.
Calls(t) ==
    /\ Others(t) /\ Plan(task'[t])
    /\ \/ UNCHANGED <<panel, hooks>>
       \/ Reported
       \/ /\ UNCHANGED hooks /\ panel.id = 0 /\ panel'.id # 0
          /\ Creator(t)' /\ task'[t].pc # "apply"

LEMMA CallPlans ==
    ASSUME TypeOK, Aims, Plans, NEW t \in Operators, CallPanel(t)
    PROVE  Calls(t)
<1> DEFINE r == task[t]
<1>0. /\ t \in Tasks /\ r.pc = "panel" /\ r.base \in RowRecords /\ r.dto \in RowRecords
      /\ r.base.id \in Nat /\ r.dto.until \in Nat /\ r.dto.limit \in {0, 1}
      /\ r.base.until \in Nat /\ r.base.limit \in {0, 1}
      /\ panel \in PanelRecords /\ panel.id \in Nat
    BY DEF CallPanel, At, Tasks, TypeOK, TaskRecords, RowRecords, PanelRecords
<1>01. /\ r.row # 0 => r.base.id # 0
       /\ r.dto.id = r.base.id
       /\ r.op \in Writers \cup {"delete"} => r.row # 0
       /\ r.op \in Edit \cup {"renew"} => r.dto.status = r.base.status
       /\ r.op \in Switches => r.dto.until = r.base.until /\ r.dto.limit = r.base.limit
    BY <1>0 DEF Plans, Plan
<1>02. ASSUME NEW pc, Answered(t, pc)
       PROVE  /\ task'[t].pc = pc /\ task'[t].snap = panel'
              /\ task'[t].op = r.op /\ task'[t].row = r.row
              /\ task'[t].base = r.base /\ task'[t].dto = r.dto
              /\ Others(t)
    BY <1>0, <1>02, AnsweredFields
<1>03. Finish(t) => Others(t) /\ Plan(task'[t])
    BY <1>0, FinishIdle
<1>1. CASE EditsOnPanel(t)
  <2>1. /\ Reported /\ panel.id = r.base.id /\ panel'.id = r.base.id
        /\ panel'.until = r.dto.until /\ panel'.limit = r.dto.limit
    BY <1>0, <1>1, UpdatesReport DEF EditsOnPanel
  <2>2. Answered(t, "commit") /\ r.op \in Edit \cup {"renew"}
    BY <1>1 DEF EditsOnPanel
  <2>3. Plan(task'[t]) /\ Others(t)
    BY <1>01, <1>02, <2>1, <2>2 DEF Plan, Edit, Switches
  <2> QED
    BY <2>1, <2>3 DEF Calls
<1>2. CASE SwitchesOnPanel(t)
  <2>1. r.dto.status \in Status
    BY <1>0, <1>2 DEF SwitchesOnPanel, Aims, Aim, Status
  <2>2. /\ Reported /\ panel.id = r.base.id /\ panel'.id = r.base.id
        /\ panel'.status = r.dto.status
    BY <1>0, <1>2, <2>1, SwitchesReport DEF SwitchesOnPanel
  <2>3. Answered(t, "commit") /\ r.op \in Switches
    BY <1>2 DEF SwitchesOnPanel, Switches
  <2>4. Plan(task'[t]) /\ Others(t)
    BY <1>01, <1>02, <2>2, <2>3 DEF Plan, Edit, Switches
  <2> QED
    BY <2>2, <2>4 DEF Calls
<1>3. CASE DeletesOnPanel(t)
  <2>1. Answered(t, "commit") /\ r.op = "delete" /\ r.row # 0 /\ r.base.id # 0
    BY <1>01, <1>3 DEF DeletesOnPanel
  <2>2. (Reported \/ UNCHANGED <<panel, hooks>>) /\ panel'.id # r.base.id
    <3>1. CASE panel.id = r.base.id
      BY <1>3, <2>1, <3>1, DeletesReport DEF DeletesOnPanel, NoUser
    <3>2. CASE panel.id # r.base.id
      BY <1>3, <3>2 DEF DeletesOnPanel
    <3> QED
      BY <3>1, <3>2
  <2>3. Plan(task'[t]) /\ Others(t)
    BY <1>01, <1>02, <2>1, <2>2 DEF Plan, Edit, Switches
  <2> QED
    BY <2>2, <2>3 DEF Calls
<1>4. CASE SetsOnPanel(t)
  <2>1. Answered(t, "commit") /\ r.op \in {"set", "trial"}
    BY <1>4 DEF SetsOnPanel
  <2>2. /\ panel'.id # 0
        /\ \/ Reported
           \/ /\ UNCHANGED hooks /\ panel.id = 0
              /\ r.op = "trial" \/ (r.op = "set" /\ r.row = 0)
    <3>1. CASE r.op = "set" /\ PanelUpdates(r.base.id,
                                 [NoUser EXCEPT !.until = now + 1, !.status = "ACTIVE"])
      <4> DEFINE s == [NoUser EXCEPT !.until = now + 1, !.status = "ACTIVE"]
      <4>1. s.until \in Nat /\ s.limit \in {0, 1}
        BY DEF NoUser, TypeOK
      <4>2. PanelUpdates(r.base.id, s)
        BY <3>1
      <4> HIDE DEF s
      <4> QED
        BY <1>0, <4>1, <4>2, UpdatesReport
    <3>2. CASE /\ r.op = "trial" \/ (r.op = "set" /\ r.row = 0)
               /\ PanelCreates(created + 1, now + 1, 0, FALSE)
      <4>1. /\ created + 1 \in Nat /\ created + 1 # 0 /\ now + 1 \in Nat
            /\ 0 \in {0, 1} /\ FALSE \in BOOLEAN
        BY DEF TypeOK
      <4> QED
        BY <3>2, <4>1, CreatesReport
    <3> QED
      BY <1>4, <3>1, <3>2 DEF SetsOnPanel
  <2>3. Plan(task'[t]) /\ Others(t)
    BY <1>01, <1>02, <2>1, <2>2 DEF Plan, Edit, Switches
  <2>4. task'[t].pc # "apply" /\ (r.op = "trial" \/ (r.op = "set" /\ r.row = 0) => Creator(t)')
    BY <1>02, <2>1 DEF Creator
  <2> QED
    BY <2>2, <2>3, <2>4 DEF Calls
<1>5. CASE Pulls(t)
  <2>0. r.op = "pull" /\ UNCHANGED <<panel, hooks>>
    BY <1>5 DEF Pulls, world
  <2>1. Plan(task'[t]) /\ Others(t)
    <3> DEFINE found == panel.id # 0 /\ (r.row = 0 \/ panel.id = r.base.id)
    <3>1. CASE found
      <4>1. task' = [task EXCEPT ![t].pc = "sync", ![t].snap = panel]
        BY <1>5, <3>1 DEF Pulls
      <4>2. /\ task'[t].pc = "sync" /\ task'[t].snap = panel /\ Others(t)
            /\ task'[t].row = r.row /\ task'[t].base = r.base
        BY <1>0, <4>1 DEF TypeOK, TaskRecords, Others
      <4> QED
        BY <1>01, <3>1, <4>2 DEF Plan
    <3>2. CASE ~found /\ r.row = 0
      BY <1>03, <1>5, <3>2 DEF Pulls
    <3>3. CASE ~found /\ r.row # 0
      <4>1. task' = [task EXCEPT ![t].pc = "commit", ![t].dto.status = "DELETED",
                                 ![t].snap = panel]
        BY <1>5, <3>3 DEF Pulls
      <4>2. /\ task'[t].pc = "commit" /\ task'[t].snap = panel /\ Others(t)
            /\ task'[t].row = r.row /\ task'[t].base = r.base /\ task'[t].op = r.op
            /\ task'[t].dto = [r.dto EXCEPT !.status = "DELETED"]
        BY <1>0, <4>1 DEF TypeOK, TaskRecords, Others
      <4>3. task'[t].dto.id = r.base.id
        BY <1>0, <1>01, <4>2 DEF RowRecords
      <4> QED
        BY <1>01, <2>0, <3>3, <4>2, <4>3 DEF Plan, Edit, Switches, Writers
    <3> QED
      BY <3>1, <3>2, <3>3
  <2> QED
    BY <2>0, <2>1 DEF Calls
<1>6. CASE Pushes(t)
  <2>1. CASE /\ IF panel.id # 0 THEN PanelDeletes ELSE UNCHANGED <<panel, hooks>>
             /\ Finish(t)
    BY <1>03, <2>1, DeletesReport DEF Calls
  <2>2. CASE PanelUpdates(r.base.id, r.base) /\ Finish(t)
    BY <1>0, <1>03, <2>2, UpdatesReport DEF Calls
  <2>3. ASSUME r.row # 0, NEW imported \in BOOLEAN,
               PanelCreates(r.base.id, r.base.until, r.base.limit, imported),
               Answered(t, "sync")
        PROVE  Calls(t)
    <3>1. /\ panel.id = 0 /\ panel'.id = r.base.id /\ r.base.id # 0
          /\ Reported \/ UNCHANGED hooks
      BY <1>0, <1>01, <2>3, CreatesReport
    <3>2. Plan(task'[t]) /\ Others(t)
      BY <1>01, <1>02, <2>3, <3>1 DEF Plan
    <3>3. Creator(t)' /\ task'[t].pc # "apply"
      BY <1>02, <1>6, <2>3 DEF Creator, Syncs, Pushes
    <3> QED
      BY <3>1, <3>2, <3>3 DEF Calls
  <2> QED
    BY <1>6, <2>1, <2>2, <2>3 DEF Pushes
<1> QED
    BY <1>1, <1>2, <1>3, <1>4, <1>5, <1>6 DEF CallPanel

-----------------------------------------------------------------------------
(* The plans, in every step *)

LEMMA ReportedIds ==
    ASSUME TypeOK, HookIds, Reported
    PROVE  HookIds'
<1>1. PICK h \in Hooks : Reports(h)
    BY DEF Reported
<1>2. hooks \in Seq(Hooks) /\ hooks' = Append(hooks, h) /\ h.user.id # 0
    BY <1>1 DEF Reports, TypeOK
<1> QED
    BY <1>2 DEF HookIds

LEMMA StartPlans ==
    ASSUME TypeOK, RowIds, NEW t \in Operators, NEW op \in Operations, StartOperation(t, op)
    PROVE  Others(t) /\ Plan(task'[t]) /\ task[t].pc = "idle"
<1> DEFINE d == Intended(op, CurrentRow)
<1>1. /\ d.id = CurrentRow.id
      /\ op \in Edit \cup {"renew"} => d.status = CurrentRow.status
      /\ op \in Switches => d.until = CurrentRow.until /\ d.limit = CurrentRow.limit
    BY CurrentRowType, IntendedFields
<1>2. /\ current # 0 => CurrentRow.id # 0
      /\ op \in Writers \cup {"delete"} => current # 0
    BY CurrentId DEF StartOperation, Applies, Writers, Edit
<1>3. /\ task[t].pc = "idle" /\ Others(t)
      /\ task'[t] = [pc |-> IF op \in Edit THEN "update" ELSE "panel", op |-> op,
                     row |-> current, base |-> CurrentRow, dto |-> d, snap |-> NoUser]
    BY DEF StartOperation, At, Others, TypeOK, Tasks
<1> HIDE DEF d
<1> QED
    BY <1>1, <1>2, <1>3 DEF Plan

LEMMA SyncReadPlans ==
    ASSUME TypeOK, Plans, NEW t \in Tasks, SyncRead(t)
    PROVE  /\ Others(t) /\ Plan(task'[t]) /\ task[t].pc = "sync" /\ task'[t].pc = "apply"
           /\ task'[t].op = task[t].op /\ task'[t].snap = task[t].snap
           /\ task'[t].row = current /\ task'[t].base = CurrentRow
<1> DEFINE s == task[t].snap
           d == [CurrentRow EXCEPT !.id = s.id, !.status = s.status, !.until = s.until,
                                   !.limit = s.limit]
<1>1. /\ task[t].pc = "sync" /\ Others(t)
      /\ task'[t] = [task[t] EXCEPT !.pc = "apply", !.row = current, !.base = CurrentRow,
                                    !.dto = d]
    BY DEF SyncRead, At, Others, TypeOK
<1>2. d.id = s.id /\ d.status = s.status /\ d.until = s.until /\ d.limit = s.limit
    BY CurrentRowType DEF RowRecords
<1> HIDE DEF d
<1>3. /\ task'[t].pc = "apply" /\ task'[t].op = task[t].op /\ task'[t].snap = s
      /\ task'[t].row = current /\ task'[t].base = CurrentRow /\ task'[t].dto = d
    BY <1>1 DEF TypeOK, TaskRecords
<1>4. s.id # 0
    BY <1>1 DEF Plans, Plan
<1> QED
    BY <1>1, <1>2, <1>3, <1>4, CurrentId DEF Plan, Plans

-----------------------------------------------------------------------------
(* The pieces, when no row is written *)

\* The operators that created the panel user, and the webhook handler, stay.
Stay ==
    /\ task'[Webhook] = task[Webhook]
    /\ \A u \in Operators : Creator(u) => task'[u] = task[u]

LEMMA QuietPieces ==
    ASSUME TypeOK, Pieces, UNCHANGED <<rows, current, panel, hooks>>, Stay,
           now' \in Nat, now <= now'
    PROVE  Pieces'
<1>1. now \in Nat /\ panel.until \in Nat
    BY DEF TypeOK, PanelRecords
<1>2. Told' /\ Follows' /\ Heard' /\ Linked'
    BY DEF Pieces, Stay, Told, Follows, Heard, Linked, Syncs, Removes
<1>3. \A u \in Operators : Creator(u) => Creator(u)' /\ task'[u] = task[u]
    BY DEF Stay, Creator, Syncs
<1>4. Known'
    BY <1>3 DEF Pieces, Stay, Known, Syncs, Unread, Off
<1>5. Carried'
  <2>1. current # 0 /\ Fits(rows[current]) => Fits(rows[current])'
    BY <1>1 DEF Fits
  <2>2. \A u \in Tasks : task'[u] = task[u] /\ Whole(u) => Whole(u)'
    BY DEF Whole, Off
  <2>3. Webhook \in Tasks /\ Operators \subseteq Tasks
    BY DEF Tasks
  <2> QED
    BY <1>3, <2>1, <2>2, <2>3 DEF Pieces, Stay, Carried, Syncs, Removes
<1> QED
    BY <1>2, <1>4, <1>5 DEF Pieces

\* A webhook more.
LEMMA AppendNews ==
    ASSUME NEW q \in Seq(Hooks), NEW h \in Hooks
    PROVE  LET r == Append(q, h)
           IN  /\ Newest(r) <=> h.kind # "deleted"
               /\ Len(r) = Len(q) + 1 /\ r[Len(r)] = h
               /\ \A i \in 1..Len(q) : r[i] = q[i]
               /\ Ended(q) \subseteq Ended(r) /\ Copied(q) \subseteq Copied(r)
               /\ h.kind = "deleted" => h.user.id \in Ended(r)
               /\ h.kind = "imported" => h.user.id \in Copied(r)
<1>1. /\ Len(Append(q, h)) = Len(q) + 1 /\ Append(q, h)[Len(q) + 1] = h
      /\ \A i \in 1..Len(q) : Append(q, h)[i] = q[i]
      /\ Len(q) \in Nat /\ Append(q, h) # <<>>
    OBVIOUS
<1> QED
    BY <1>1 DEF Newest, Ended, Copied

LEMMA ReportPieces ==
    ASSUME TypeOK, Plans, Pieces, UNCHANGED <<rows, current, now>>, Stay, Reported
    PROVE  Pieces'
<1>1. PICK h \in Hooks : Reports(h)
    BY DEF Reported
<1>0. /\ hooks \in Seq(Hooks) /\ Len(hooks) \in Nat /\ Webhook \in Tasks
      /\ \A i \in 1..Len(hooks) : hooks[i].user.id # 0
      /\ current # 0 => rows[current].id # 0
    BY CurrentId DEF TypeOK, Plans, HookIds, Tasks
<1>2. /\ hooks' = Append(hooks, h)
      /\ Newest(hooks') <=> h.kind # "deleted"
      /\ Len(hooks') = Len(hooks) + 1 /\ hooks'[Len(hooks')] = h
      /\ \A i \in 1..Len(hooks) : hooks'[i] = hooks[i]
      /\ Ended(hooks) \subseteq Ended(hooks') /\ Copied(hooks) \subseteq Copied(hooks')
      /\ h.kind = "deleted" => h.user.id \in Ended(hooks')
      /\ h.kind = "imported" => h.user.id \in Copied(hooks')
    BY <1>0, <1>1, AppendNews DEF Reports
\* Three things may have happened.
<1>3. \/ /\ h.kind = "deleted" /\ panel.id # 0 /\ h.user = panel /\ panel'.id = 0
         /\ panel.id \in Ended(hooks')
      \/ /\ Newest(hooks') /\ h.user = panel' /\ panel'.id # 0 /\ panel.id = panel'.id
      \/ /\ Newest(hooks') /\ h.user = panel' /\ panel'.id # 0 /\ panel.id = 0
         /\ panel'.id \in Copied(hooks')
    BY <1>1, <1>2 DEF Reports
<1> HIDE DEF Newest, Ended, Copied
<1>4. Told'
    BY <1>2, <1>3 DEF Told
<1>5. Follows'
  <2> SUFFICES ASSUME NEW i \in 1..Len(hooks'), hooks'[i].kind # "deleted"
               PROVE  \/ \E j \in (i + 1)..Len(hooks') :
                            hooks'[j].kind = "deleted" /\ hooks'[j].user.id = hooks'[i].user.id
                      \/ Newest(hooks') /\ hooks'[i].user.id = panel'.id
    BY DEF Follows, Follow
  <2>1. CASE i = Len(hooks')
    BY <1>2, <1>3, <2>1
  <2>2. CASE i # Len(hooks')
    <3>1. i \in 1..Len(hooks) /\ hooks'[i] = hooks[i] /\ hooks[i].user.id # 0
      BY <1>0, <1>2, <2>2
    <3>2. CASE \E j \in (i + 1)..Len(hooks) :
                  hooks[j].kind = "deleted" /\ hooks[j].user.id = hooks[i].user.id
      <4>1. PICK j \in (i + 1)..Len(hooks) :
                  hooks[j].kind = "deleted" /\ hooks[j].user.id = hooks[i].user.id
        BY <3>2
      <4>2. j \in (i + 1)..Len(hooks') /\ hooks'[j] = hooks[j]
        BY <1>0, <1>2, <3>1
      <4> QED
        BY <3>1, <4>1, <4>2
    <3>3. CASE hooks[i].user.id = panel.id
      <4>1. CASE h.kind = "deleted" /\ h.user = panel
        <5>1. Len(hooks') \in (i + 1)..Len(hooks')
          BY <1>0, <1>2, <3>1
        <5> QED
          BY <1>2, <3>1, <3>3, <4>1, <5>1
      <4>2. CASE Newest(hooks') /\ panel.id = panel'.id
        BY <3>1, <3>3, <4>2
      <4> QED
        BY <1>3, <3>1, <3>3, <4>1, <4>2
    <3> QED
      BY <3>1, <3>2, <3>3 DEF Pieces, Follows, Follow
  <2> QED
    BY <2>1, <2>2
<1>6. Heard'
  <2>1. Syncs(Webhook) => task[Webhook].snap.id # 0
    BY <1>0 DEF Plans, Plan, Syncs
  <2> QED
    BY <1>2, <1>3, <2>1 DEF Pieces, Heard, Stay, Syncs
<1>7. Linked'
    BY <1>0, <1>2, <1>3 DEF Pieces, Linked, Stay, Syncs, Removes
<1>8. Known'
  <2>1. CASE panel'.id = panel.id
    <3>1. \A u \in Operators : Creator(u) /\ Unread(u) => Creator(u)' /\ Unread(u)'
      BY <2>1 DEF Stay, Creator, Unread, Syncs, Off
    <3> QED
      BY <1>2, <2>1, <3>1 DEF Pieces, Known, Stay, Syncs
  <2> QED
    BY <1>3, <2>1 DEF Known
<1>9. Carried'
    BY <1>3 DEF Carried
<1> QED
    BY <1>4, <1>5, <1>6, <1>7, <1>8, <1>9 DEF Pieces

\* An operation creates the panel user.
LEMMA SilentPieces ==
    ASSUME TypeOK, Plans, Pieces, UNCHANGED <<rows, current, now, hooks>>, Stay,
           panel.id = 0, panel'.id # 0,
           NEW t \in Operators, Creator(t)', task'[t].pc # "apply"
    PROVE  Pieces'
<1>0. /\ hooks \in Seq(Hooks) /\ Webhook \in Tasks
      /\ \A i \in 1..Len(hooks) : hooks[i].user.id # 0
      /\ current # 0 => rows[current].id # 0
    BY CurrentId DEF TypeOK, Plans, HookIds, Tasks
<1>1. ~Newest(hooks)
  <2>1. hooks # <<>> => Len(hooks) \in 1..Len(hooks)
    BY <1>0
  <2> QED
    BY <1>0, <2>1 DEF Pieces, Told, Newest
<1>2. Syncs(Webhook) => task[Webhook].snap.id # 0
    BY <1>0 DEF Plans, Plan, Syncs
<1>3. Told' /\ Follows' /\ Heard'
    BY <1>1, <1>2 DEF Pieces, Told, Follows, Follow, Heard, Stay, Syncs
<1>4. Linked'
    BY <1>0 DEF Pieces, Linked, Stay, Syncs, Removes
<1>5. Known' /\ Carried'
    BY DEF Known, Carried, Unread, Whole
<1> QED
    BY <1>3, <1>4, <1>5 DEF Pieces

LEMMA SyncReadPieces ==
    ASSUME TypeOK, Plans, Pieces, NEW t \in Tasks, SyncRead(t)
    PROVE  Pieces'
<1>0. /\ UNCHANGED <<rows, current, panel, hooks, now>>
      /\ Webhook \in Tasks /\ Operators \subseteq Tasks /\ Webhook \notin Operators
    BY SubscriptionsAssumption DEF SyncRead, bot, world, Tasks
<1>1. /\ Others(t) /\ task[t].pc = "sync" /\ task'[t].pc = "apply"
      /\ task'[t].op = task[t].op /\ task'[t].snap = task[t].snap
      /\ task'[t].row = current /\ task'[t].base = CurrentRow
    BY SyncReadPlans
<1>2. \A u \in Tasks : /\ Syncs(u) <=> Syncs(u)'
                       /\ task'[u].snap = task[u].snap
                       /\ task'[u].pc = "remove" <=> task[u].pc = "remove"
    BY <1>1 DEF Others, Syncs
<1>3. Told' /\ Follows' /\ Heard' /\ Linked'
    BY <1>0, <1>2 DEF Pieces, Told, Follows, Heard, Linked, Removes
<1>4. \A u \in Tasks : Creator(u) => Creator(u)'
    BY <1>0, <1>1 DEF Others, Creator, Syncs
<1>5. \A u \in Tasks : Unread(u) => Unread(u)'
    BY <1>0, <1>1 DEF Others, Unread, Off, CurrentRow
<1>6. \A u \in Tasks : Whole(u) => Whole(u)'
    BY <1>0, <1>1 DEF Others, Whole, Off, CurrentRow
<1>7. Known'
    BY <1>0, <1>2, <1>4, <1>5 DEF Pieces, Known
<1>8. Carried'
    BY <1>0, <1>2, <1>4, <1>6 DEF Pieces, Carried, Fits, Removes
<1> QED
    BY <1>3, <1>7, <1>8 DEF Pieces

-----------------------------------------------------------------------------
(* A webhook is handled *)

Without(q, i) == SubSeq(q, 1, i - 1) \o SubSeq(q, i + 1, Len(q))

LEMMA WithoutElements ==
    ASSUME NEW q \in Seq(Hooks), NEW i \in 1..Len(q)
    PROVE  /\ Without(q, i) \in Seq(Hooks) /\ Len(Without(q, i)) = Len(q) - 1
           /\ \A j \in 1..(Len(q) - 1) :
                 Without(q, i)[j] = IF j < i THEN q[j] ELSE q[j + 1]
<1> DEFINE a == SubSeq(q, 1, i - 1)
           b == SubSeq(q, i + 1, Len(q))
<1>0. Len(q) \in Nat /\ i \in Nat /\ 1 <= i /\ i <= Len(q)
    OBVIOUS
<1>1. /\ a \in Seq(Hooks) /\ Len(a) = i - 1
      /\ \A j \in 1..(i - 1) : a[j] = q[j]
    BY <1>0, SubSeqProperties
<1>2. /\ b \in Seq(Hooks) /\ Len(b) = Len(q) - i
      /\ \A j \in 1..(Len(q) - i) : b[j] = q[i + j]
    BY <1>0, SubSeqProperties
<1> HIDE DEF a, b
<1>3. /\ a \o b \in Seq(Hooks) /\ Len(a \o b) = Len(q) - 1
      /\ \A j \in 1..(Len(q) - 1) : (a \o b)[j] = IF j <= Len(a) THEN a[j] ELSE b[j - Len(a)]
    BY <1>0, <1>1, <1>2, ConcatProperties
<1>4. ASSUME NEW j \in 1..(Len(q) - 1)
      PROVE  (a \o b)[j] = IF j < i THEN q[j] ELSE q[j + 1]
  <2>1. CASE j < i
    BY <1>0, <1>1, <1>3, <2>1
  <2>2. CASE ~(j < i)
    <3>1. j - (i - 1) \in 1..(Len(q) - i) /\ i + (j - (i - 1)) = j + 1
      BY <1>0, <2>2
    <3>2. (a \o b)[j] = b[j - (i - 1)]
      BY <1>0, <1>1, <1>3, <2>2
    <3> QED
      BY <1>2, <2>2, <3>1, <3>2
  <2> QED
    BY <2>1, <2>2
<1> QED
    BY <1>3, <1>4 DEF Without, a, b

\* The oldest webhook is gone.
LEMMA RestNews ==
    ASSUME NEW q \in Seq(Hooks), q # <<>>
    PROVE  LET r == Without(q, 1)
           IN  /\ Newest(q) /\ r # <<>> => Newest(r)
               /\ Newest(r) => Newest(q)
               /\ r # <<>> => r[Len(r)] = q[Len(q)]
               /\ r = <<>> => Len(q) = 1
               /\ \A id \in Ended(q) :
                     id \in Ended(r) \/ (q[1].kind = "deleted" /\ q[1].user.id = id)
               /\ \A id \in Copied(q) :
                     \/ id \in Copied(r)
                     \/ q[1].kind \in {"imported", "modified"} /\ q[1].user.id = id
<1> DEFINE r == Without(q, 1)
<1>1. /\ Len(q) \in Nat /\ 1 \in 1..Len(q)
    OBVIOUS
<1>2. /\ r \in Seq(Hooks) /\ Len(r) = Len(q) - 1
      /\ \A j \in 1..(Len(q) - 1) : r[j] = q[j + 1]
    BY <1>1, WithoutElements
<1> HIDE DEF r
<1>3. r # <<>> => r[Len(r)] = q[Len(q)]
    BY <1>1, <1>2
<1>4. r = <<>> => Len(q) = 1
    BY <1>1, <1>2
<1>5. ASSUME NEW k \in 1..Len(q), k # 1 PROVE k - 1 \in 1..Len(r) /\ r[k - 1] = q[k]
    BY <1>1, <1>2, <1>5
<1>6. ASSUME NEW id \in Ended(q)
      PROVE  id \in Ended(r) \/ (q[1].kind = "deleted" /\ q[1].user.id = id)
  <2>1. PICK k \in 1..Len(q) : q[k].kind = "deleted" /\ q[k].user.id = id
    BY <1>6 DEF Ended
  <2>2. k # 1 => id \in Ended(r)
    BY <1>5, <2>1 DEF Ended
  <2> QED
    BY <2>1, <2>2
<1>7. ASSUME NEW id \in Copied(q)
      PROVE  \/ id \in Copied(r)
             \/ q[1].kind \in {"imported", "modified"} /\ q[1].user.id = id
  <2>1. PICK k \in 1..Len(q) : q[k].kind \in {"imported", "modified"} /\ q[k].user.id = id
    BY <1>7 DEF Copied
  <2>2. k # 1 => id \in Copied(r)
    BY <1>5, <2>1 DEF Copied
  <2> QED
    BY <2>1, <2>2
<1> QED
    BY <1>3, <1>4, <1>6, <1>7 DEF r, Newest

LEMMA CopiedFollows ==
    ASSUME NEW q \in Seq(Hooks), NEW p, Follow(q, p), NEW id \in Copied(q)
    PROVE  id \in Ended(q) \/ Newest(q)
<1>1. PICK k \in 1..Len(q) : q[k].kind \in {"imported", "modified"} /\ q[k].user.id = id
    BY DEF Copied
<1>2. ASSUME NEW j \in (k + 1)..Len(q), q[j].kind = "deleted", q[j].user.id = id
      PROVE  id \in Ended(q)
    BY <1>2 DEF Ended
<1> QED
    BY <1>1, <1>2 DEF Follow

LEMMA HandlePlans ==
    ASSUME TypeOK, Plans, NEW i \in 1..Len(hooks), HandleHook(i)
    PROVE  /\ Others(Webhook) /\ Plan(task'[Webhook]) /\ HookIds'
           /\ hooks' = Without(hooks, i) /\ task[Webhook].pc = "idle"
           /\ LET h == hooks[i]  r == task'[Webhook]
              IN  \/ /\ r.pc = "sync" /\ r.snap = h.user /\ h.kind # "deleted"
                     /\ h.kind = "status" => IsCurrent(h.user)
                  \/ r.pc = "remove" /\ r.snap = h.user /\ h.kind = "deleted" /\ IsCurrent(h.user)
                  \/ r.pc = "idle" /\ h.kind \in {"status", "deleted"} /\ ~IsCurrent(h.user)
<1> DEFINE h == hooks[i]
<1>00. hooks \in Seq(Hooks) /\ h.user.id # 0 /\ Webhook \in Tasks
    BY DEF TypeOK, Plans, HookIds, Tasks
<1>01. h \in Hooks
    BY <1>00, ElementOfSeq
<1>0. /\ hooks \in Seq(Hooks) /\ h.user.id # 0 /\ Webhook \in Tasks
      /\ h.kind \in {"imported", "modified", "status", "deleted"}
    BY <1>00, <1>01 DEF Hooks
<1>1. hooks' = Without(hooks, i) /\ task[Webhook].pc = "idle"
    BY DEF HandleHook, Without, At
<1>2. HookIds'
  <2>1. /\ Len(Without(hooks, i)) = Len(hooks) - 1
        /\ \A j \in 1..(Len(hooks) - 1) :
              Without(hooks, i)[j] = IF j < i THEN hooks[j] ELSE hooks[j + 1]
    BY <1>0, WithoutElements
  <2>2. Len(hooks) \in Nat
    BY <1>0
  <2> QED
    BY <1>1, <2>1, <2>2 DEF Plans, HookIds
<1>3. ASSUME task' = [task EXCEPT ![Webhook] = Idle]
      PROVE  Others(Webhook) /\ Plan(task'[Webhook]) /\ task'[Webhook].pc = "idle"
  <2>1. Finish(Webhook)
    BY <1>3 DEF Finish
  <2> QED
    BY <1>0, <2>1, FinishIdle DEF Idle
<1>4. ASSUME NEW pc \in {"sync", "remove"},
             task' = [task EXCEPT ![Webhook] = [Idle EXCEPT !.pc = pc, !.snap = h.user]]
      PROVE  /\ Others(Webhook) /\ Plan(task'[Webhook])
             /\ task'[Webhook].pc = pc /\ task'[Webhook].snap = h.user
    BY <1>0, <1>4 DEF Others, TypeOK, Idle, Plan
<1>5. CASE h.kind \in {"imported", "modified"}
    BY <1>1, <1>2, <1>4, <1>5 DEF HandleHook
<1>6. CASE h.kind = "status"
    BY <1>1, <1>2, <1>3, <1>4, <1>6 DEF HandleHook
<1>7. CASE h.kind = "deleted"
    BY <1>1, <1>2, <1>3, <1>4, <1>7 DEF HandleHook
<1> QED
    BY <1>0, <1>5, <1>6, <1>7

LEMMA HandlePieces ==
    ASSUME TypeOK, Plans, Pieces, NEW i \in 1..Len(hooks), HandleHook(i), Clear'
    PROVE  Pieces'
<1>1. i = 1 /\ hooks \in Seq(Hooks) /\ hooks # <<>> /\ Len(hooks) \in Nat
  <2>1. hooks \in Seq(Hooks)
    BY DEF TypeOK
  <2>2. ~(i > 1)
    BY DEF HandleHook, Blur, Clear
  <2> QED
    BY <2>1, <2>2
<1> DEFINE h == hooks[1]
           r == task'[Webhook]
<1>2. /\ Others(Webhook) /\ hooks' = Without(hooks, 1) /\ task[Webhook].pc = "idle"
      /\ \/ /\ r.pc = "sync" /\ r.snap = h.user /\ h.kind # "deleted"
            /\ h.kind = "status" => IsCurrent(h.user)
         \/ r.pc = "remove" /\ r.snap = h.user /\ h.kind = "deleted" /\ IsCurrent(h.user)
         \/ r.pc = "idle" /\ h.kind \in {"status", "deleted"} /\ ~IsCurrent(h.user)
    BY <1>1, HandlePlans
<1>3. /\ Newest(hooks) /\ hooks' # <<>> => Newest(hooks')
      /\ Newest(hooks') => Newest(hooks) /\ hooks' # <<>>
      /\ hooks' # <<>> => hooks'[Len(hooks')] = hooks[Len(hooks)]
      /\ hooks' = <<>> => Len(hooks) = 1
      /\ \A id \in Ended(hooks) :
            id \in Ended(hooks') \/ (h.kind = "deleted" /\ h.user.id = id)
      /\ \A id \in Copied(hooks) :
            \/ id \in Copied(hooks')
            \/ h.kind \in {"imported", "modified"} /\ h.user.id = id
    BY <1>1, <1>2, RestNews DEF Newest
<1>4. /\ UNCHANGED <<rows, current, panel, now>>
      /\ Webhook \in Tasks /\ Operators \subseteq Tasks /\ Webhook \notin Operators
      /\ \A u \in Operators : task'[u] = task[u]
    BY <1>2, SubscriptionsAssumption DEF HandleHook, bot, Tasks, Others
<1>5. /\ Len(hooks') = Len(hooks) - 1 /\ hooks' \in Seq(Hooks)
      /\ \A j \in 1..(Len(hooks) - 1) : hooks'[j] = hooks[j + 1]
  <2>1. 1 \in 1..Len(hooks)
    BY <1>1
  <2>2. /\ Len(Without(hooks, 1)) = Len(hooks) - 1 /\ Without(hooks, 1) \in Seq(Hooks)
        /\ \A j \in 1..(Len(hooks) - 1) :
              Without(hooks, 1)[j] = IF j < 1 THEN hooks[j] ELSE hooks[j + 1]
    BY <1>1, <2>1, WithoutElements
  <2> QED
    BY <1>2, <2>2
<1>6. \A u \in Operators : /\ Creator(u) => Creator(u)'
                           /\ Unread(u) => Unread(u)' /\ Whole(u)'
                           /\ Whole(u) => Whole(u)'
    BY <1>4 DEF Creator, Syncs, Unread, Whole, Off
<1>7. Told'
    BY <1>3, <1>4 DEF Pieces, Told
<1>8. Follows'
  <2> SUFFICES ASSUME NEW j \in 1..Len(hooks'), hooks'[j].kind # "deleted"
               PROVE  \/ \E k \in (j + 1)..Len(hooks') :
                            hooks'[k].kind = "deleted" /\ hooks'[k].user.id = hooks'[j].user.id
                      \/ Newest(hooks') /\ hooks'[j].user.id = panel'.id
    BY DEF Follows, Follow
  <2>1. j + 1 \in 1..Len(hooks) /\ hooks'[j] = hooks[j + 1] /\ hooks' # <<>>
    BY <1>1, <1>5
  <2>2. CASE \E k \in (j + 1 + 1)..Len(hooks) :
                hooks[k].kind = "deleted" /\ hooks[k].user.id = hooks[j + 1].user.id
    <3>1. PICK k \in (j + 1 + 1)..Len(hooks) :
                hooks[k].kind = "deleted" /\ hooks[k].user.id = hooks[j + 1].user.id
      BY <2>2
    <3>2. k - 1 \in (j + 1)..Len(hooks') /\ hooks'[k - 1] = hooks[k]
      BY <1>1, <1>5, <2>1
    <3> QED
      BY <2>1, <3>1, <3>2
  <2>3. CASE Newest(hooks) /\ hooks[j + 1].user.id = panel.id
    BY <1>3, <1>4, <2>1, <2>3
  <2> QED
    BY <2>1, <2>2, <2>3 DEF Pieces, Follows, Follow
<1>9. h.kind # "deleted" =>
         h.user.id \in Ended(hooks') \/ (Newest(hooks) /\ h.user.id = panel.id)
  <2> SUFFICES ASSUME h.kind # "deleted", ~(Newest(hooks) /\ h.user.id = panel.id)
               PROVE  h.user.id \in Ended(hooks')
    OBVIOUS
  <2>1. PICK k \in 2..Len(hooks) : hooks[k].kind = "deleted" /\ hooks[k].user.id = h.user.id
    BY <1>1 DEF Pieces, Follows, Follow
  <2>2. k - 1 \in 1..Len(hooks') /\ hooks'[k - 1] = hooks[k]
    BY <1>1, <1>5
  <2> QED
    BY <2>1, <2>2 DEF Ended
<1>10. panel.id \in Copied(hooks') => panel.id \in Ended(hooks') \/ Newest(hooks')
  <2>1. Follow(hooks', panel.id)
    BY <1>4, <1>8 DEF Follows
  <2> QED
    BY <1>5, <2>1, CopiedFollows
<1> HIDE DEF Newest, Ended, Copied
<1>11. Heard'
  <2>1. hooks' = <<>> /\ Newest(hooks) => h.user = panel
    BY <1>3 DEF Pieces, Told
  <2> QED
    BY <1>2, <1>3, <1>4, <1>9, <2>1 DEF Heard, Syncs
<1>12. Linked'
    BY <1>2, <1>3, <1>4 DEF Pieces, Linked, Syncs, Removes, IsCurrent
<1>13. Known'
    BY <1>2, <1>3, <1>4, <1>6 DEF Pieces, Known, Syncs
<1>14. Carried'
  <2> SUFFICES ASSUME panel.id # 0 PROVE Carried'
    BY <1>4 DEF Carried
  \* Who else knows the panel user brings it, when the webhook is dropped.
  <2>1. ASSUME ~(current # 0 /\ rows[current].id = panel.id),
               h.kind \in {"imported", "modified"} => h.user.id # panel.id
        PROVE  Carried'
    <3>1. panel.id \in Copied(hooks') \/ \E u \in Operators : Creator(u) /\ Unread(u)
      BY <1>2, <1>3, <2>1 DEF Pieces, Known, Syncs
    <3> QED
      BY <1>4, <1>6, <1>10, <3>1 DEF Carried
  <2>2. CASE current # 0 /\ Fits(rows[current])
    BY <1>4, <2>2 DEF Carried, Fits
  <2>3. CASE Newest(hooks)
    <3>1. CASE hooks' # <<>>
      BY <1>3, <2>3, <3>1 DEF Carried
    <3>2. CASE hooks' = <<>>
      <4>1. h.user = panel /\ h.kind # "deleted"
        BY <1>3, <2>3, <3>2 DEF Pieces, Told, Newest
      <4>2. CASE r.pc = "sync"
        BY <1>2, <1>4, <4>1, <4>2 DEF Carried, Syncs, Whole
      <4>3. CASE r.pc = "idle"
        BY <1>2, <2>1, <4>1, <4>3 DEF IsCurrent
      <4> QED
        BY <1>2, <4>1, <4>2, <4>3
    <3> QED
      BY <3>1, <3>2
  <2>4. CASE \E u \in Operators : Creator(u) /\ (task[u].snap = panel => Whole(u))
    BY <1>4, <1>6, <2>4 DEF Carried
  <2>5. CASE panel.id \in Ended(hooks)
    <3>1. CASE panel.id \in Ended(hooks')
      BY <1>4, <3>1 DEF Carried
    <3>2. CASE h.kind = "deleted" /\ h.user.id = panel.id
      <4>1. CASE r.pc = "remove"
        BY <1>2, <1>4, <3>2, <4>1 DEF Carried, Removes
      <4>2. CASE r.pc = "idle"
        BY <1>2, <2>1, <3>2, <4>2 DEF IsCurrent
      <4> QED
        BY <1>2, <3>2, <4>1, <4>2
    <3> QED
      BY <1>3, <2>5, <3>1, <3>2
  <2> QED
    BY <1>2, <2>2, <2>3, <2>4, <2>5 DEF Pieces, Carried, Syncs, Removes
<1> QED
    BY <1>7, <1>8, <1>11, <1>12, <1>13, <1>14 DEF Pieces

-----------------------------------------------------------------------------
(* A row is written *)

\* What an UPDATE leaves, field by field.
LEMMA UpdateFields ==
    ASSUME TypeOK, NEW t \in Tasks, task[t].row # 0, UpdatesRow(t)
    PROVE  LET i == task[t].row  d == task[t].dto  b == task[t].base
           IN  /\ i \in 1..Len(rows) /\ Len(rows') = Len(rows)
               /\ \A j \in 1..Len(rows) : j # i => rows'[j] = rows[j]
               /\ rows'[i].id = IF d.id # b.id THEN d.id ELSE rows[i].id
               /\ rows'[i].status = IF d.status # b.status THEN d.status ELSE rows[i].status
               /\ rows'[i].until = IF d.until # b.until THEN d.until ELSE rows[i].until
               /\ rows'[i].limit = IF d.limit # b.limit THEN d.limit ELSE rows[i].limit
<1> DEFINE i == task[t].row
           d == task[t].dto
           b == task[t].base
           w == Written(t)
<1>1. i \in 1..Len(rows) /\ rows \in Seq(RowRecords)
    BY DEF TypeOK
<1>2. w = [f \in {"id", "status", "until", "limit", "trial", "left"} |->
                IF d[f] # b[f] THEN d[f] ELSE rows[i][f]]
    BY DEF Written, NoRow
<1>3. /\ w.id = IF d.id # b.id THEN d.id ELSE rows[i].id
      /\ w.status = IF d.status # b.status THEN d.status ELSE rows[i].status
      /\ w.until = IF d.until # b.until THEN d.until ELSE rows[i].until
      /\ w.limit = IF d.limit # b.limit THEN d.limit ELSE rows[i].limit
    BY <1>2
<1>4. rows' = [rows EXCEPT ![i] = w]
    BY DEF UpdatesRow
<1> HIDE DEF w
<1> QED
    BY <1>1, <1>3, <1>4

\* The current row gets nearer to the panel user: its fields are those of the
\* panel user, or stay as they are.
Nears ==
    /\ current # 0 /\ UNCHANGED <<panel, hooks, now, current>>
    /\ Len(rows') = Len(rows)
    /\ \A i \in 1..Len(rows) : i # current => rows'[i] = rows[i]
    /\ rows'[current].id = panel.id
    /\ rows'[current].until \in {panel.until, rows[current].until}
    /\ rows'[current].limit \in {panel.limit, rows[current].limit}
    /\ rows'[current].status \in {panel.status, rows[current].status}

LEMMA NearsCarried ==
    ASSUME TypeOK, Plans, Carried, Nears, NEW t \in Tasks, Others(t),
           task[t].pc # "remove",
           (Creator(t) \/ t = Webhook) /\ task[t].snap = panel /\ Whole(t)
              => Fits(rows[current])',
           Creator(t) => task[t].snap = panel
    PROVE  Carried'
<1> SUFFICES ASSUME panel.id # 0 PROVE Carried'
    BY DEF Carried, Nears
<1>0. /\ Webhook \in Tasks /\ Operators \subseteq Tasks
      /\ UNCHANGED <<panel, hooks, now, current>> /\ current # 0
    BY DEF Tasks, Nears
<1>1. Fits(rows[current]) => Fits(rows[current])'
    BY DEF Nears, Fits
<1>2. ASSUME NEW u \in Tasks, u # t, task[u].snap = panel, Whole(u)
      PROVE  Whole(u)'
  <2>1. task'[u] = task[u] /\ task[u].row \in 0..Len(rows)
    BY <1>2 DEF Others, TypeOK
  <2>2. CASE task[u].pc = "apply" /\ ~Off(u)
    <3>1. /\ task[u].row = current /\ task[u].dto.until = panel.until
          /\ task[u].dto.limit = panel.limit /\ task[u].dto.status = panel.status
      BY <1>2, <2>2 DEF Plans, Plan, Off
    <3> QED
      BY <1>2, <2>1, <2>2, <3>1 DEF Nears, Whole
  <2>3. CASE ~(task[u].pc = "apply" /\ ~Off(u))
    BY <1>0, <2>1, <2>3 DEF Whole, Off
  <2> QED
    BY <2>2, <2>3
<1>3. \A u \in Tasks : u # t /\ Creator(u) => Creator(u)'
    BY <1>0 DEF Others, Creator, Syncs
<1>4. CASE Syncs(Webhook) /\ task[Webhook].snap = panel /\ Whole(Webhook)
  <2>1. CASE Webhook = t
    BY <1>0, <1>4, <2>1 DEF Carried
  <2>2. CASE Webhook # t
    BY <1>0, <1>2, <1>4, <2>2 DEF Carried, Others, Syncs
  <2> QED
    BY <2>1, <2>2
<1>5. ASSUME NEW u \in Operators, Creator(u), task[u].snap = panel => Whole(u)
      PROVE  Carried'
  <2>1. CASE u = t
    BY <1>0, <1>5, <2>1 DEF Carried
  <2>2. CASE u # t
    <3>1. task'[u] = task[u] /\ Creator(u)'
      BY <1>0, <1>3, <1>5, <2>2 DEF Others
    <3>2. task[u].snap = panel => Whole(u)'
      BY <1>0, <1>2, <1>5, <2>2
    <3> QED
      BY <1>0, <1>5, <3>1, <3>2 DEF Carried
  <2> QED
    BY <2>1, <2>2
<1>6. CASE Removes(Webhook, panel.id)
  <2>1. task'[Webhook] = task[Webhook]
    BY <1>0, <1>6 DEF Removes, Others
  <2> QED
    BY <1>0, <1>6, <2>1 DEF Carried, Removes
<1>7. CASE Newest(hooks) \/ panel.id \in Ended(hooks)
    BY <1>0, <1>7 DEF Carried
<1>8. CASE Fits(rows[current])
    BY <1>0, <1>1, <1>8 DEF Carried
<1> QED
    BY <1>4, <1>5, <1>6, <1>7, <1>8 DEF Carried

\* The handler's own copy is told of the panel user, and other tasks stay.
LEMMA HeardStays ==
    ASSUME Heard, UNCHANGED <<panel, hooks>>,
           task'[Webhook] = task[Webhook] \/ task'[Webhook] = Idle
    PROVE  Heard'
BY DEF Heard, Syncs, Idle

LEMMA ImportedFields ==
    ASSUME TypeOK, NEW t \in Tasks, SyncApply(t)
    PROVE  LET r == Imported(t)  s == task[t].snap
           IN  /\ r.id = s.id /\ r.until = s.until /\ r.limit = s.limit
               /\ r.status = s.status \/ s.until <= now
               /\ task[t].row = 0 =>
                     /\ current' = Len(rows) + 1 /\ current' # 0
                     /\ rows'[current'] = r /\ Len(rows') = Len(rows) + 1
                     /\ \A i \in 1..Len(rows) : rows'[i] = rows[i]
<1> DEFINE s == task[t].snap
           shown == Shown(s)
<1>1. s \in PanelRecords
    BY DEF TypeOK, TaskRecords
<1>2. shown = s.status \/ s.until <= now
    BY DEF Shown
<1> HIDE DEF shown
<1>3. /\ Imported(t).id = s.id /\ Imported(t).until = s.until
      /\ Imported(t).limit = s.limit /\ Imported(t).status = shown
    BY <1>1 DEF Imported, NewRow, PanelRecords, shown
<1>4. ASSUME task[t].row = 0
      PROVE  /\ current' = Len(rows) + 1 /\ current' # 0
             /\ rows'[current'] = Imported(t) /\ Len(rows') = Len(rows) + 1
             /\ \A i \in 1..Len(rows) : rows'[i] = rows[i]
  <2>1. Inserts(Imported(t), rows)
    BY <1>4 DEF SyncApply, Imported
  <2>2. rows \in Seq(RowRecords) /\ Imported(t) \in RowRecords
    BY ImportedType DEF TypeOK
  <2>3. Len(rows) \in Nat
    BY <2>2
  <2> QED
    BY <2>1, <2>2, <2>3, InsertEffect
<1> QED
    BY <1>2, <1>3, <1>4

LEMMA ApplyPieces ==
    ASSUME TypeOK, Plans, Pieces, NEW t \in Tasks, SyncApply(t), Clear'
    PROVE  Pieces'
<1> DEFINE s == task[t].snap
           d == task[t].dto
<1>0. /\ UNCHANGED <<panel, hooks, now>> /\ task[t].pc = "apply"
      /\ Webhook \in Tasks /\ Webhook \notin Operators /\ Tasks = Operators \cup {Webhook}
      /\ Len(rows) \in Nat /\ s \in PanelRecords
      /\ task'[t] = Idle /\ Others(t)
    BY SubscriptionsAssumption, FinishIdle DEF SyncApply, world, At, Tasks, TypeOK, TaskRecords
<1>1. /\ current = task[t].row
      /\ current # 0 => rows[current].id = task[t].base.id
      /\ t \in Operators => panel = s
      /\ panel.id \in {0, s.id}
    BY DEF SyncApply, Moved, CurrentRow, Clear
<1>2. /\ s.id # 0 /\ d.id = s.id /\ d.until = s.until /\ d.limit = s.limit
      /\ d.status = s.status
    BY <1>0 DEF Plans, Plan
<1>3. current' # 0 /\ rows'[current'].id = s.id
  <2>1. CASE task[t].row = 0
    <3>1. Imported(t).id = s.id
      BY ImportedFields
    <3>2. current' # 0 /\ rows'[current'] = Imported(t)
      BY <2>1, ImportedFields
    <3> QED
      BY <3>1, <3>2
  <2>2. CASE task[t].row # 0
    BY <1>1, <1>2, <2>2, UpdateFields DEF SyncApply
  <2> QED
    BY <2>1, <2>2
<1>4. Told' /\ Follows' /\ Heard'
    BY <1>0, HeardStays DEF Pieces, Told, Follows, Others
<1>5. t = Webhook =>
         \/ s.id \in Ended(hooks)
         \/ hooks = <<>> /\ s = panel
         \/ Newest(hooks) /\ panel.id = s.id
    BY <1>0 DEF Pieces, Heard, Syncs
<1>6. Linked'
    BY <1>0, <1>1, <1>3, <1>5 DEF Linked
<1>7. Known'
    BY <1>0, <1>1, <1>3 DEF Known
<1>8. Carried'
  <2>1. CASE s # panel
    BY <1>0, <1>1, <1>5, <2>1 DEF Carried
  <2>2. CASE s = panel /\ task[t].row = 0
    <3>1. Fits(rows[current])'
      BY <1>0, <2>2, ImportedFields DEF Fits
    <3> QED
      BY <1>3, <3>1 DEF Carried
  <2>3. CASE s = panel /\ task[t].row # 0
    <3>0. /\ UpdatesRow(t) /\ current' = current
          /\ current \in 1..Len(rows) /\ rows'[current].id = s.id
      BY <1>1, <1>3, <2>3 DEF SyncApply, TypeOK
    <3>1. Nears
      BY <1>0, <1>1, <1>2, <2>3, <3>0, UpdateFields DEF Nears
    <3>2. ASSUME Whole(t) PROVE Fits(rows[current])'
      BY <1>0, <1>1, <1>2, <2>3, <3>0, <3>2, UpdateFields DEF Whole, Off, Fits
    <3> QED
      BY <1>0, <2>3, <3>1, <3>2, NearsCarried DEF Pieces
  <2> QED
    BY <2>1, <2>2, <2>3
<1> QED
    BY <1>4, <1>6, <1>7, <1>8 DEF Pieces

LEMMA DeletePieces ==
    ASSUME TypeOK, Plans, Pieces, ProcessDelete, Clear'
    PROVE  Pieces'
<1> DEFINE id == task[Webhook].snap.id
<1>0. /\ UNCHANGED <<panel, hooks, now>> /\ task[Webhook].pc = "remove"
      /\ Webhook \in Tasks /\ Webhook \notin Operators /\ Operators \subseteq Tasks
      /\ task'[Webhook] = Idle /\ Others(Webhook)
      /\ \A u \in Operators : task'[u] = task[u]
      /\ current = 0 \/ current \in 1..Len(rows)
      /\ hooks \in Seq(Hooks)
    BY SubscriptionsAssumption, FinishIdle DEF ProcessDelete, world, At, Tasks, TypeOK, Others
<1>1. Told' /\ Follows' /\ Heard'
    BY <1>0, HeardStays DEF Pieces, Told, Follows
<1>2. \A u \in Operators : Creator(u) => Creator(u)'
    BY <1>0 DEF Creator, Syncs
<1>3. CASE (\A i \in 1..Len(rows) : rows[i].id # id) /\ UNCHANGED <<rows, current>>
  <2>1. Linked'
    BY <1>0, <1>3 DEF Pieces, Linked, Syncs, Removes
  <2>2. \A u \in Operators : Unread(u) => Unread(u)' /\ Whole(u)'
    BY <1>0, <1>3 DEF Unread, Whole, Off
  <2>3. Known'
    BY <1>0, <1>2, <1>3, <2>2 DEF Pieces, Known, Syncs
  <2>4. \A u \in Operators : Whole(u) => Whole(u)'
    BY <1>0, <1>3 DEF Whole, Off
  <2>5. CASE panel.id = id /\ panel.id # 0
    <3>1. panel.id \in Copied(hooks) \/ \E u \in Operators : Creator(u) /\ Unread(u)
      BY <1>0, <1>3, <2>5 DEF Pieces, Known, Syncs
    <3>2. panel.id \in Copied(hooks) => panel.id \in Ended(hooks) \/ Newest(hooks)
      BY <1>0, CopiedFollows DEF Pieces, Follows
    <3>3. ASSUME panel.id \in Ended(hooks) \/ Newest(hooks) PROVE Carried'
      BY <1>0, <3>3 DEF Carried
    <3>4. ASSUME \E u \in Operators : Creator(u) /\ Unread(u) PROVE Carried'
      BY <1>0, <1>2, <2>2, <3>4 DEF Carried
    <3> QED
      BY <1>1, <2>1, <2>3, <3>1, <3>2, <3>3, <3>4 DEF Pieces
  <2>6. CASE ~(panel.id = id /\ panel.id # 0)
    <3>1. Carried'
      BY <1>0, <1>2, <1>3, <2>4, <2>6 DEF Pieces, Carried, Syncs, Removes, Fits
    <3> QED
      BY <1>1, <2>1, <2>3, <3>1 DEF Pieces
  <2> QED
    BY <2>5, <2>6
<1>4. ASSUME NEW i \in 1..Len(rows), rows[i].id = id,
             rows' = [rows EXCEPT ![i].status = "DELETED"],
             current' = IF IsCurrent(task[Webhook].snap) THEN 0 ELSE current,
             panel.id # id
      PROVE  Pieces'
  <2>1. /\ \A j \in 1..Len(rows) : j # i => rows'[j] = rows[j]
        /\ rows'[i].id = id /\ Len(rows') = Len(rows)
    BY <1>4 DEF TypeOK, RowRecords
  <2>2. /\ current' = 0 \/ current' = current
        /\ current # 0 /\ rows[current].id = id <=> current # 0 /\ current' = 0
    BY <1>4 DEF IsCurrent
  <2>3. \A j \in 1..Len(rows) : rows'[j].id = rows[j].id
    BY <1>4, <2>1
  <2>4. Linked'
    BY <1>0, <2>2, <2>3 DEF Pieces, Linked, Syncs, Removes
  <2>5. ASSUME NEW u \in Operators
        PROVE  (Unread(u) => Unread(u)') /\ (Whole(u) => Whole(u)')
    <3>1. task'[u] = task[u] /\ (Off(u) => Off(u)')
      BY <1>0, <2>2 DEF Off
    <3>2. CASE ~Off(u)'
      <4>1. task[u].row = current /\ current # 0 /\ current' = current
        BY <2>2, <3>1, <3>2 DEF Off
      <4>2. current # i
        BY <1>4, <2>2, <4>1
      <4>3. rows'[task[u].row] = rows[task[u].row]
        BY <1>0, <2>1, <4>1, <4>2
      <4> QED
        BY <3>1, <4>1, <4>3 DEF Unread, Whole
    <3>3. CASE Off(u)'
      BY <3>3 DEF Unread, Whole
    <3> QED
      BY <3>2, <3>3
  <2>6. Known'
    BY <1>0, <1>2, <1>4, <2>2, <2>3, <2>5 DEF Pieces, Known, Syncs
  <2>7. current # 0 /\ Fits(rows[current]) => current' # 0 /\ Fits(rows[current])'
    <3>1. current # 0 /\ rows[current].id # id => current # i /\ current' = current
      BY <1>4, <2>2
    <3> QED
      BY <1>0, <1>4, <2>1, <3>1 DEF Fits
  <2>8. Carried'
    BY <1>0, <1>2, <1>4, <2>5, <2>7 DEF Pieces, Carried, Syncs, Removes
  <2> QED
    BY <1>1, <2>4, <2>6, <2>8 DEF Pieces
<1>5. CASE (\A i \in 1..Len(rows) : rows[i].id # id)
    BY <1>3, <1>5 DEF ProcessDelete
<1>6. CASE ~(\A i \in 1..Len(rows) : rows[i].id # id)
  <2>1. PICK i \in 1..Len(rows) :
          /\ rows[i].id = id
          /\ rows' = [rows EXCEPT ![i].status = "DELETED"]
          /\ current' = IF IsCurrent(task[Webhook].snap) THEN 0 ELSE current
          /\ panel.id = id => "late" \in blurred'
    BY <1>6 DEF ProcessDelete
  <2> QED
    BY <1>4, <2>1 DEF Clear
<1> QED
    BY <1>5, <1>6

LEMMA CommitPieces ==
    ASSUME TypeOK, Plans, Pieces, NEW t \in Operators, CommitOperation(t), Clear'
    PROVE  Pieces'
<1> DEFINE r == task[t]
           s == task[t].snap
<1>0. /\ UNCHANGED <<panel, hooks, now>> /\ r.pc = "commit" /\ t \in Tasks
      /\ Webhook \in Tasks /\ Webhook # t /\ Operators \subseteq Tasks
      /\ task'[t] = Idle /\ Others(t) /\ task'[Webhook] = task[Webhook]
      /\ current = 0 \/ current \in 1..Len(rows)
      /\ rows \in Seq(RowRecords) /\ Len(rows) \in Nat /\ s \in PanelRecords
    BY SubscriptionsAssumption, FinishIdle
    DEF CommitOperation, world, At, Tasks, TypeOK, TaskRecords, Others
<1>1. /\ panel = s /\ current = Expected(t)
      /\ current = r.row /\ current # 0 => rows[current].id = r.base.id
    BY DEF CommitOperation, Moved, CurrentRow, Clear
<1>2. Plan(r)
    BY <1>0 DEF Plans
<1>3. Told' /\ Follows' /\ Heard'
    BY <1>0, HeardStays DEF Pieces, Told, Follows
<1>4. CASE CommitsUpdate(t)
  <2>1. /\ r.op \in Writers /\ r.row # 0 /\ current = r.row /\ current' = current
        /\ UpdatesRow(t) /\ s.id = r.base.id /\ r.dto.id = r.base.id
        /\ ~Creator(t)
    BY <1>0, <1>1, <1>2, <1>4
    DEF CommitsUpdate, Expected, Plan, Writers, Edit, Switches, Creator, Syncs
  <2>2. /\ Len(rows') = Len(rows)
        /\ \A j \in 1..Len(rows) : j # current => rows'[j] = rows[j]
        /\ rows'[current].id = panel.id
        /\ rows'[current].status =
              IF r.dto.status # r.base.status THEN r.dto.status ELSE rows[current].status
        /\ rows'[current].until =
              IF r.dto.until # r.base.until THEN r.dto.until ELSE rows[current].until
        /\ rows'[current].limit =
              IF r.dto.limit # r.base.limit THEN r.dto.limit ELSE rows[current].limit
    BY <1>0, <1>1, <2>1, UpdateFields
  <2>3. /\ r.dto.status # r.base.status => r.dto.status = panel.status
        /\ r.dto.until # r.base.until => r.dto.until = panel.until
        /\ r.dto.limit # r.base.limit => r.dto.limit = panel.limit
    <3>1. CASE r.op \in Edit \cup {"renew"}
      BY <1>0, <1>1, <1>2, <3>1 DEF Plan
    <3>2. CASE r.op \in Switches
      BY <1>0, <1>1, <1>2, <3>2 DEF Plan
    <3> QED
      BY <2>1, <3>1, <3>2 DEF Writers, Switches
  <2>4. Nears
    BY <1>0, <2>1, <2>2, <2>3 DEF Nears
  <2>5. Carried'
    BY <1>0, <2>1, <2>4, NearsCarried DEF Pieces
  <2>6. Linked' /\ Known'
    BY <1>0, <2>1, <2>2 DEF Linked, Known
  <2> QED
    BY <1>3, <2>5, <2>6 DEF Pieces
<1>5. CASE CommitsDeletion(t)
  <2>1. /\ current' = 0 /\ current = r.row /\ current # 0 /\ rows[current].id # panel.id
        /\ ~Creator(t)
    BY <1>0, <1>1, <1>2, <1>5 DEF CommitsDeletion, Expected, Plan, Creator, Syncs
  <2>2. Linked'
    BY <2>1 DEF Linked
  <2>3. \A u \in Operators : Creator(u) => Creator(u)' /\ Unread(u)' /\ Whole(u)'
    BY <1>0, <2>1 DEF Creator, Syncs, Unread, Whole, Off, Others
  <2>4. Whole(Webhook)'
    BY <2>1 DEF Whole, Off
  <2>5. Known'
    BY <1>0, <2>1, <2>3 DEF Pieces, Known, Syncs
  <2>6. Carried'
    BY <1>0, <2>1, <2>3, <2>4 DEF Pieces, Carried, Syncs, Removes, Fits
  <2> QED
    BY <1>3, <2>2, <2>5, <2>6 DEF Pieces
<1>6. ASSUME NEW trial \in BOOLEAN, NEW before \in Seq(RowRecords), Len(before) = Len(rows),
             Inserts(NewRow(s, trial), before)
      PROVE  Pieces'
  <2>1. NewRow(s, trial) \in RowRecords
    BY <1>0, NewRowType
  <2>2. current' # 0 /\ rows'[current'] = NewRow(s, trial)
    BY <1>0, <1>6, <2>1, InsertEffect
  <2>3. Fits(rows[current])'
    BY <1>0, <1>1, <2>2 DEF Fits, NewRow
  <2>4. Linked' /\ Known' /\ Carried'
    BY <2>2, <2>3 DEF Linked, Known, Carried, Fits
  <2> QED
    BY <1>3, <2>4 DEF Pieces
<1>7. CASE CommitsPlan(t)
  <2>1. RetiresRow(t) \in Seq(RowRecords) /\ Len(RetiresRow(t)) = Len(rows)
    BY <1>0, RetireEffect DEF RetiresRow, TypeOK
  <2> QED
    BY <1>6, <1>7, <2>1 DEF CommitsPlan
<1>8. CASE CommitsTrial(t)
    BY <1>0, <1>6, <1>8 DEF CommitsTrial
<1> QED
    BY <1>4, <1>5, <1>7, <1>8 DEF CommitOperation

\* No row is about nobody.
LEMMA RowIdsStep ==
    ASSUME TypeOK, Plans,
           \/ \E t \in Operators : CommitOperation(t)
           \/ \E t \in Tasks : SyncApply(t)
           \/ ProcessDelete
    PROVE  RowIds'
<1>0. rows \in Seq(RowRecords) /\ Len(rows) \in Nat /\ RowIds /\ Operators \subseteq Tasks
    BY DEF TypeOK, Plans, Tasks
<1>1. ASSUME NEW t \in Tasks, UpdatesRow(t),
             task[t].dto.id # task[t].base.id => task[t].dto.id # 0
      PROVE  RowIds'
  <2>1. CASE task[t].row = 0
    <3>1. rows' = rows
      BY <1>0, <1>1, <2>1 DEF UpdatesRow
    <3> QED
      BY <1>0, <3>1 DEF RowIds
  <2>2. CASE task[t].row # 0
    BY <1>0, <1>1, <2>2, UpdateFields DEF RowIds
  <2> QED
    BY <2>1, <2>2
<1>2. ASSUME NEW row \in RowRecords, row.id # 0, NEW before \in Seq(RowRecords),
             \A i \in 1..Len(before) : before[i].id # 0,
             Inserts(row, before)
      PROVE  RowIds'
  <2>1. /\ Len(rows') = Len(before) + 1 /\ rows'[Len(before) + 1] = row
        /\ \A i \in 1..Len(before) : rows'[i] = before[i]
        /\ Len(before) \in Nat
    BY <1>2, InsertEffect
  <2> QED
    BY <1>2, <2>1 DEF RowIds
<1>3. ASSUME NEW i \in 1..Len(rows)
      PROVE  LET after == [rows EXCEPT ![i].status = "DELETED"]
             IN  Len(after) = Len(rows) /\ \A j \in 1..Len(after) : after[j].id # 0
    BY <1>0, <1>3 DEF RowIds, RowRecords
<1>4. ASSUME NEW t \in Operators, CommitOperation(t) PROVE RowIds'
  <2>0. /\ t \in Tasks /\ task[t].dto.id = task[t].base.id /\ task[t].snap \in PanelRecords
        /\ task[t].op \in {"set", "trial"} => task[t].snap.id # 0
        /\ task[t].row \in 0..Len(rows)
    BY <1>0, <1>4 DEF CommitOperation, At, Plans, Plan, TypeOK, TaskRecords
  <2>1. CASE CommitsUpdate(t) \/ CommitsDeletion(t)
    BY <1>1, <2>0, <2>1 DEF CommitsUpdate, CommitsDeletion
  <2>2. CASE CommitsPlan(t)
    <3>1. RetiresRow(t) \in Seq(RowRecords) /\ \A i \in 1..Len(RetiresRow(t)) : RetiresRow(t)[i].id # 0
      BY <1>0, <1>3, <2>0, RetireEffect DEF RetiresRow, RowIds
    <3>2. NewRow(task[t].snap, FALSE) \in RowRecords /\ NewRow(task[t].snap, FALSE).id # 0
      BY <2>0, <2>2, NewRowType DEF NewRow, CommitsPlan
    <3> QED
      BY <1>2, <2>2, <3>1, <3>2 DEF CommitsPlan
  <2>3. CASE CommitsTrial(t)
    <3>1. NewRow(task[t].snap, TRUE) \in RowRecords /\ NewRow(task[t].snap, TRUE).id # 0
      BY <2>0, <2>3, NewRowType DEF NewRow, CommitsTrial
    <3> QED
      BY <1>0, <1>2, <2>3, <3>1 DEF CommitsTrial, RowIds
  <2> QED
    BY <1>4, <2>1, <2>2, <2>3 DEF CommitOperation
<1>5. ASSUME NEW t \in Tasks, SyncApply(t) PROVE RowIds'
  <2>1. task[t].snap.id # 0 /\ task[t].dto.id = task[t].snap.id
    BY <1>5 DEF SyncApply, At, Plans, Plan
  <2>2. CASE task[t].row = 0
    <3>1. Inserts(Imported(t), rows) /\ Imported(t) \in RowRecords
      BY <1>5, <2>2, ImportedType DEF SyncApply, Imported
    <3>2. Imported(t).id # 0
      BY <1>5, <2>1, ImportedFields
    <3> QED
      BY <1>0, <1>2, <3>1, <3>2 DEF RowIds
  <2>3. CASE task[t].row # 0
    BY <1>1, <1>5, <2>1, <2>3 DEF SyncApply
  <2> QED
    BY <2>2, <2>3
<1>6. ASSUME ProcessDelete PROVE RowIds'
  <2>1. CASE UNCHANGED rows
    BY <1>0, <2>1 DEF RowIds
  <2>2. ASSUME NEW i \in 1..Len(rows), rows' = [rows EXCEPT ![i].status = "DELETED"]
        PROVE  RowIds'
    BY <1>3, <2>2 DEF RowIds
  <2> QED
    BY <1>6, <2>1, <2>2 DEF ProcessDelete
<1> QED
    BY <1>4, <1>5, <1>6

\* One step: the plans go on, and so do the pieces, if nothing is set aside.
NewsNext == Plans' /\ (Clear' => Pieces')

LEMMA ClearStays ==
    ASSUME blurred \subseteq blurred', Clear'
    PROVE  Clear
BY DEF Clear

\* A step that moves one task and keeps the rows and the webhooks.
LEMMA QuietNews ==
    ASSUME TypeOK, News, NEW t \in Tasks, Others(t), Plan(task'[t]), blurred \subseteq blurred',
           UNCHANGED <<rows, current, panel, hooks>>, now' \in Nat, now <= now',
           Clear' => task'[Webhook] = task[Webhook] /\ (t \in Operators => ~Creator(t))
    PROVE  NewsNext
<1>1. Plans'
    BY DEF News, Plans, Others, RowIds, HookIds
<1>2. ASSUME Clear' PROVE Pieces'
  <2>1. Clear /\ Pieces
    BY <1>2, ClearStays DEF News
  <2>2. Stay
    BY <1>2 DEF Stay, Others, Tasks
  <2> QED
    BY <2>1, <2>2, QuietPieces
<1> QED
    BY <1>1, <1>2 DEF NewsNext

LEMMA NewsStep == IInv /\ News /\ [Next]_vars => News'
<1> SUFFICES ASSUME IInv, News, [Next]_vars PROVE NewsNext
    BY DEF News, NewsNext
<1>0. /\ TypeOK /\ Aims /\ Plans /\ blurred \subseteq blurred' /\ now \in Nat
      /\ (Clear' => Clear /\ Pieces)
      /\ Operators \subseteq Tasks /\ Webhook \in Tasks /\ Webhook \notin Operators
  <2>1. TypeOK /\ Aims /\ Plans /\ now \in Nat
    BY DEF IInv, News, TypeOK
  <2>2. blurred \subseteq blurred'
    BY <2>1, Shape
  <2> QED
    BY <2>1, <2>2, ClearStays, SubscriptionsAssumption DEF News, Tasks
<1>01. ASSUME NEW t \in Operators, Others(t) PROVE task'[Webhook] = task[Webhook]
    BY <1>0, <1>01 DEF Others
<1>1. ASSUME NEW t \in Operators, NEW op \in Operations, StartOperation(t, op) PROVE NewsNext
  <2>1. Others(t) /\ Plan(task'[t]) /\ task[t].pc = "idle"
    BY <1>0, <1>1, StartPlans DEF Plans
  <2>2. UNCHANGED <<rows, current, panel, hooks, now>>
    BY <1>1 DEF StartOperation, bot, world
  <2> QED
    BY <1>0, <1>01, <2>1, <2>2, QuietNews DEF Creator, Syncs
<1>2. ASSUME NEW t \in Operators, UpdateRow(t) PROVE NewsNext
  <2>1. /\ Others(t) /\ task[t].pc = "update"
        /\ task'[t] = [task[t] EXCEPT !.pc = "panel"]
    BY <1>0, <1>2 DEF UpdateRow, At, Go, TypeOK, Others
  <2>2. Plan(task[t]) /\ task[t] \in TaskRecords
    BY <1>0 DEF Plans, TypeOK
  <2>3. Plan(task'[t])
    BY <2>1, <2>2 DEF Plan, TaskRecords
  <2>4. UNCHANGED <<rows, current, panel, hooks, now>>
    BY <1>2 DEF UpdateRow, bot, world
  <2> QED
    BY <1>0, <1>01, <2>1, <2>3, <2>4, QuietNews DEF Creator, Syncs
<1>3. ASSUME NEW t \in Operators, CallPanel(t) PROVE NewsNext
  <2>1. Calls(t)
    BY <1>0, <1>3, CallPlans
  <2>2. UNCHANGED <<rows, current, now>> /\ task[t].pc = "panel" /\ ~Creator(t)
    BY <1>3 DEF CallPanel, bot, At, Creator, Syncs
  <2>3. Stay
    BY <1>0, <1>01, <2>1, <2>2 DEF Calls, Stay, Others
  <2>4. Plans'
    <3>1. HookIds'
      BY <1>0, <2>1, ReportedIds DEF Calls, Plans, HookIds
    <3> QED
      BY <1>0, <2>1, <2>2, <3>1 DEF Calls, Plans, Others, RowIds
  <2>5. ASSUME Clear' PROVE Pieces'
    <3>1. CASE UNCHANGED <<panel, hooks>>
      BY <1>0, <2>2, <2>3, <2>5, <3>1, QuietPieces
    <3>2. CASE Reported
      BY <1>0, <2>2, <2>3, <2>5, <3>2, ReportPieces
    <3>3. CASE /\ UNCHANGED hooks /\ panel.id = 0 /\ panel'.id # 0
               /\ Creator(t)' /\ task'[t].pc # "apply"
      BY <1>0, <2>2, <2>3, <2>5, <3>3, SilentPieces
    <3> QED
      BY <2>1, <3>1, <3>2, <3>3 DEF Calls
  <2> QED
    BY <2>4, <2>5 DEF NewsNext
<1>4. ASSUME NEW t \in Operators, PanelRefuses(t) PROVE NewsNext
  <2>1. Others(t) /\ Plan(task'[t]) /\ task[t].pc = "panel"
    BY <1>0, <1>4, FinishIdle DEF PanelRefuses, At
  <2>2. UNCHANGED <<rows, current, panel, hooks, now>>
    BY <1>4 DEF PanelRefuses, bot, world
  <2> QED
    BY <1>0, <1>01, <2>1, <2>2, QuietNews DEF Creator, Syncs
<1>5. ASSUME NEW t \in Operators, CommitOperation(t) PROVE NewsNext
  <2>1. Others(t) /\ Plan(task'[t]) /\ UNCHANGED hooks
    BY <1>0, <1>5, FinishIdle DEF CommitOperation, world
  <2>2. Plans'
    BY <1>0, <1>5, <2>1, RowIdsStep DEF Plans, Others, HookIds
  <2> QED
    BY <1>0, <1>5, <2>2, CommitPieces DEF NewsNext
<1>6. ASSUME NEW t \in Operators, CommitFails(t) PROVE NewsNext
  <2>1. Others(t) /\ Plan(task'[t]) /\ task[t].pc = "commit"
    BY <1>0, <1>6, FinishIdle DEF CommitFails, At
  <2>2. UNCHANGED <<rows, current, panel, hooks, now>>
    BY <1>6 DEF CommitFails, bot, world
  <2>3. Clear' => ~Creator(t)
    BY <1>6, <2>1 DEF CommitFails, Blur, Clear, Creator, Syncs
  <2> QED
    BY <1>0, <1>01, <2>1, <2>2, <2>3, QuietNews
<1>7. ASSUME NEW t \in Tasks, SyncRead(t) PROVE NewsNext
  <2>1. Others(t) /\ Plan(task'[t]) /\ UNCHANGED <<rows, hooks>>
    BY <1>0, <1>7, SyncReadPlans DEF SyncRead, bot, world
  <2>2. Plans'
    BY <1>0, <2>1 DEF Plans, Others, RowIds, HookIds
  <2> QED
    BY <1>0, <1>7, <2>2, SyncReadPieces DEF NewsNext
<1>8. ASSUME NEW t \in Tasks, SyncApply(t) PROVE NewsNext
  <2>1. Others(t) /\ Plan(task'[t]) /\ UNCHANGED hooks
    BY <1>0, <1>8, FinishIdle DEF SyncApply, world
  <2>2. Plans'
    BY <1>0, <1>8, <2>1, RowIdsStep DEF Plans, Others, HookIds
  <2> QED
    BY <1>0, <1>8, <2>2, ApplyPieces DEF NewsNext
<1>9. ASSUME NEW i \in 1..Len(hooks), HandleHook(i) PROVE NewsNext
  <2>1. Others(Webhook) /\ Plan(task'[Webhook]) /\ HookIds' /\ UNCHANGED rows
    BY <1>0, <1>9, HandlePlans DEF HandleHook, bot
  <2>2. Plans'
    BY <1>0, <2>1 DEF Plans, Others, RowIds
  <2> QED
    BY <1>0, <1>9, <2>2, HandlePieces DEF NewsNext
<1>10. ASSUME ProcessDelete PROVE NewsNext
  <2>1. Others(Webhook) /\ Plan(task'[Webhook]) /\ UNCHANGED hooks
    BY <1>0, <1>10, FinishIdle DEF ProcessDelete, world
  <2>2. Plans'
    BY <1>0, <1>10, <2>1, RowIdsStep DEF Plans, Others, HookIds
  <2> QED
    BY <1>0, <1>10, <2>2, DeletePieces DEF NewsNext
<1>11. ASSUME HookFails PROVE NewsNext
  <2>1. Others(Webhook) /\ Plan(task'[Webhook])
    BY <1>0, <1>11, FinishIdle DEF HookFails
  <2>2. UNCHANGED <<rows, current, panel, hooks, now>> /\ ~Clear'
    BY <1>11 DEF HookFails, bot, world, Blur, Clear
  <2> QED
    BY <1>0, <2>1, <2>2, QuietNews
<1>12. ASSUME UNCHANGED <<rows, current, task>>,
              \/ Reported /\ UNCHANGED now
              \/ UNCHANGED <<panel, hooks>> /\ now' \in Nat /\ now <= now'
       PROVE  NewsNext
  <2>1. Stay
    BY <1>12 DEF Stay
  <2>2. Plans'
    <3>1. HookIds'
      BY <1>0, <1>12, ReportedIds DEF Plans, HookIds
    <3> QED
      BY <1>0, <1>12, <3>1 DEF Plans, RowIds
  <2>3. Clear' => Pieces'
    BY <1>0, <1>12, <2>1, QuietPieces, ReportPieces
  <2> QED
    BY <2>2, <2>3 DEF NewsNext
<1>13. ASSUME EditPanel PROVE NewsNext
  <2>0. panel \in PanelRecords /\ panel.id \in Nat /\ created \in Nat
    BY <1>0 DEF TypeOK, PanelRecords
  <2>1. Reported
    <3>1. CASE PanelSwitches(panel.id, "DISABLED")
      BY <1>0, <2>0, <3>1, SwitchesReport DEF Status
    <3>2. CASE PanelUpdates(panel.id, [panel EXCEPT !.until = now + 1, !.limit = 1 - @,
                                                   !.status = "ACTIVE"])
      <4> DEFINE s == [panel EXCEPT !.until = now + 1, !.limit = 1 - @, !.status = "ACTIVE"]
      <4>1. s.until \in Nat /\ s.limit \in {0, 1}
        BY <1>0, <2>0 DEF PanelRecords
      <4> HIDE DEF s
      <4> QED
        BY <1>0, <2>0, <3>2, <4>1, UpdatesReport DEF s
    <3>3. CASE PanelDeletes
      BY <1>0, <3>3, DeletesReport
    <3>4. CASE PanelCreates(created + 1, now + 1, 1, TRUE)
      <4>1. /\ created + 1 \in Nat /\ created + 1 # 0 /\ now + 1 \in Nat
            /\ 1 \in {0, 1} /\ TRUE \in BOOLEAN
        BY <1>0, <2>0
      <4> QED
        BY <1>0, <3>4, <4>1, CreatesReport
    <3> QED
      BY <1>13, <3>1, <3>2, <3>3, <3>4 DEF EditPanel
  <2> QED
    BY <1>12, <1>13, <2>1 DEF EditPanel, bot
<1>14. ASSUME PanelExpires PROVE NewsNext
  <2> DEFINE user == [panel EXCEPT !.status = "EXPIRED"]
  <2>1. user \in PanelRecords /\ user.id = panel.id /\ panel.id # 0
    BY <1>0, <1>14 DEF TypeOK, PanelRecords, Status, PanelExpires
  <2>2. PanelBecomes(user, "status")
    BY <1>14 DEF PanelExpires
  <2> HIDE DEF user
  <2>3. Reported
    BY <1>0, <2>1, <2>2, BecomesReports
  <2> QED
    BY <1>12, <1>14, <2>3 DEF PanelExpires, bot
<1>15. ASSUME Tick PROVE NewsNext
    BY <1>0, <1>12, <1>15 DEF Tick, bot, world
<1>16. CASE UNCHANGED vars
    BY <1>0, <1>12, <1>16 DEF vars, bot, world
<1> QED
    BY <1>1, <1>2, <1>3, <1>4, <1>5, <1>6, <1>7, <1>8, <1>9, <1>10, <1>11, <1>13,
       <1>14, <1>15, <1>16 DEF Next

LEMMA NewsInit == Init => News
<1> SUFFICES ASSUME Init PROVE News
    OBVIOUS
<1>1. /\ hooks = <<>> /\ \A t \in Tasks : task[t] = Idle
      /\ Webhook \in Tasks /\ Operators \subseteq Tasks
    BY DEF Init, Tasks
<1>2. /\ Told /\ Follows /\ Heard
      /\ \A t \in Tasks : Plan(task[t])
      /\ HookIds
    BY <1>1 DEF Told, Newest, Follows, Follow, Heard, Syncs, Idle, Plan, HookIds
<1>3. RowIds /\ Linked /\ Known /\ Carried
  <2>1. CASE rows = <<>> /\ current = 0 /\ panel = NoUser
    BY <2>1 DEF RowIds, Linked, Known, Carried, NoUser
  <2>2. ASSUME NEW trial \in BOOLEAN, rows = <<NewRow(panel, trial)>>, current = 1,
               panel = [id |-> 1, status |-> "ACTIVE", until |-> 1, limit |-> 0]
        PROVE  RowIds /\ Linked /\ Known /\ Carried
    <3>1. /\ Len(rows) = 1 /\ rows[1].id = panel.id /\ rows[1].status = panel.status
          /\ rows[1].until = panel.until /\ rows[1].limit = panel.limit /\ panel.id = 1
      BY <2>2 DEF NewRow
    <3> QED
      BY <2>2, <3>1 DEF RowIds, Linked, Known, Carried, Fits
  <2> QED
    BY <2>1, <2>2 DEF Init
<1> QED
    BY <1>2, <1>3 DEF News, Plans, Pieces

\* At rest nothing is on its way any more.
LEMMA NewsAgree == TypeOK /\ News => AgreeAtRest
<1> SUFFICES ASSUME TypeOK, News, AtRest, Clear PROVE Agree
    BY DEF AgreeAtRest, Clear
<1>0. /\ hooks = <<>> /\ \A t \in Tasks : task[t].pc = "idle"
      /\ Webhook \in Tasks /\ Operators \subseteq Tasks
      /\ current = 0 \/ (current \in 1..Len(rows) /\ rows[current].id # 0)
    BY DEF AtRest, At, Tasks, News, Plans, RowIds, TypeOK
<1>1. ~Newest(hooks) /\ Ended(hooks) = {} /\ Copied(hooks) = {}
    BY <1>0 DEF Newest, Ended, Copied
<1>2. /\ \A t \in Tasks : ~Syncs(t)
      /\ \A t \in Operators : ~Creator(t)
      /\ \A id : ~Removes(Webhook, id)
    BY <1>0 DEF Syncs, Creator, Removes
<1>3. CASE panel.id = 0
    BY <1>0, <1>1, <1>2, <1>3 DEF News, Pieces, Linked, Agree
<1>4. CASE panel.id # 0
  <2>1. current # 0 /\ Fits(rows[current])
    BY <1>0, <1>1, <1>2, <1>4 DEF News, Pieces, Carried
  <2> QED
    BY <2>1 DEF Agree, Fits, Shown
<1> QED
    BY <1>3, <1>4

\* Every change of the panel user, whoever made it, is in the row or on its way
\* there: in a webhook, with the handler, or with the operation that created it.
THEOREM NewsInvariance == Spec => [](IInv /\ News)
<1>1. IInv /\ News /\ [Next]_vars => News'
    BY NewsStep
<1> QED
    BY <1>1, NewsInit, Invariance, PTL DEF Spec

\* At rest the current row and the panel user are the same, whatever failed or
\* crossed, but for the kinds of overlap that AgreeAtRest sets aside.
THEOREM AgreeAtRestHolds == Spec => []AgreeAtRest
<1>1. IInv /\ News => AgreeAtRest
    BY NewsAgree DEF IInv
<1> QED
    BY <1>1, NewsInvariance, PTL
=============================================================================
