-------------------------- MODULE BroadcastProofs --------------------------
(***************************************************************************)
(* Proofs about Broadcast, for any recipients, batch size and bounds.      *)
(*                                                                         *)
(* The argument follows a recipient through the sending: untouched, in the *)
(* batch in flight, settled, and never back. What is settled may be copied *)
(* by a deletion and written back later, so the copies a deletion holds    *)
(* satisfy the same facts as the rows.                                     *)
(***************************************************************************)
EXTENDS Broadcast, FiniteSetTheorems, TLAPS

Untouched(u) == send.pc \in {"none", "queued"} \/ u \in send.left \/ Awaits(u)
InFlight(u)  == send.pc = "sending" /\ u \in send.batch

\* No message has been sent to who is still to be sent one.
SentOnce ==
    /\ OneMessageEach
    /\ \A u \in Recipients : Untouched(u) => received[u] = 0
    /\ send.pc \in {"none", "queued"} => send.left = {}
    /\ send.pc = "sending" => send.left \cap send.batch = {}

Holds(d, u) == u \in del[d].left \/ (del[d].pc = "deleting" /\ u \in del[d].batch)

\* Who is still to be sent a message, or is in the batch, has a PENDING row;
\* before the rows are there no deletion has one.
RowsPending ==
    /\ send.pc \in {"none", "queued"} => \A d \in Deleters, u \in Recipients : ~Holds(d, u)
    /\ send.pc \in {"none", "queued"} => \A u \in Recipients : row[u] = "absent"
    /\ ~DeletionAsked =>
          \A u \in Recipients : u \in send.left \/ InFlight(u) => row[u] = "PENDING"

\* A message that did not arrive, unless a fault hid its arrival.
NotThere(u) == received[u] = 0 \/ u \in unsure

\* What a row, or a deletion's copy of it, may say of a recipient.
Known(u, r) ==
    /\ r \in {"SENT", "FAILED", "DELETED"} => ~Untouched(u) /\ ~InFlight(u)
    /\ r = "SENT"    => received[u] # 0
    /\ r = "FAILED"  => NotThere(u)
    /\ r = "DELETED" => u \in removed

RowsKnown == \A u \in Recipients : Known(u, row[u])
CopiesKnown ==
    \A d \in Deleters, u \in Recipients : Holds(d, u) =>
        /\ Known(u, del[d].snap[u])
        /\ del[d].snap[u] # "absent"
        /\ del[d].snap[u] = "PENDING" => u \in blurred

\* A message without a result in the rows has not arrived, is in flight, or
\* its result is one the rows are known to have missed.
Missing ==
    /\ \A u \in Recipients :
          row[u] \in {"absent", "PENDING"} => NotThere(u) \/ InFlight(u) \/ u \in blurred
    /\ \A u \in Recipients : InFlight(u) /\ send.result[u] = "FAILED" => NotThere(u)

\* A result of the batch that says SENT is true.
Answered ==
    \A u \in Recipients : InFlight(u) /\ send.result[u] = "SENT" => received[u] # 0

\* Until a deletion is asked for, a cancel request is still to be read.
CancelKept ==
    /\ status = "none" <=> send.pc = "none"
    /\ send.pc = "none" => ~canceled /\ cancel = "idle" /\ ~DeletionAsked
    /\ canceled /\ ~DeletionAsked /\ send.pc \in {"queued", "check", "sending"}
          => status = "CANCELED"

IInv ==
    /\ TypeOK /\ SentOnce /\ RowsPending /\ StatsMatchRows
    /\ RowsKnown /\ CopiesKnown /\ Missing /\ Answered /\ CancelKept

-----------------------------------------------------------------------------
(* What a step makes of the tasks *)

LEMMA Counted ==
    ASSUME NEW S \in SUBSET Recipients
    PROVE  IsFiniteSet(S) /\ Cardinality(S) \in Nat
    BY BroadcastAssumption, FS_Subset, FS_CardinalityType

\* Two disjoint sets of recipients are counted one after the other.
LEMMA CountedTogether ==
    ASSUME NEW S \in SUBSET Recipients, NEW T \in SUBSET Recipients, S \cap T = {}
    PROVE  Cardinality(S \cup T) = Cardinality(S) + Cardinality(T)
<1>1. /\ IsFiniteSet(S) /\ IsFiniteSet(T)
      /\ Cardinality(S) \in Nat /\ Cardinality(T) \in Nat
    BY Counted
<1>2. Cardinality(S \cap T) = 0
    BY FS_EmptySet
<1>3. Cardinality(S \cup T) = Cardinality(S) + Cardinality(T) - Cardinality(S \cap T)
    BY <1>1, FS_Union
<1> QED
    BY <1>1, <1>2, <1>3

SameSend == /\ send'.left = send.left /\ send'.batch = send.batch
            /\ send'.result = send.result

LEMMA SendEffect ==
    ASSUME TypeOK
    PROVE  /\ StartBroadcast => send'.pc = "queued" /\ SameSend
           /\ NextBatch =>
                 /\ send.pc = "check"
                 /\ \/ send'.pc = "finish" /\ SameSend
                    \/ /\ send'.pc = "sending" /\ status # "CANCELED"
                       /\ send'.batch \in SUBSET send.left
                       /\ send'.left = send.left \ send'.batch
                       /\ send'.result = [u \in Recipients |-> "none"]
           /\ UpdateStatuses => send.pc = "sending" /\ send'.pc = "check" /\ SameSend
           /\ FinishBroadcast => send.pc = "finish" /\ send'.pc = "ended" /\ SameSend
           /\ SendingFails => send'.pc \in {"stranded", "finish"} /\ SameSend
           /\ WorkerDies => send'.pc = "stranded" /\ SameSend
<1> USE DEF SameSend, TypeOK, SendRecords
<1>1. StartBroadcast => send'.pc = "queued" /\ SameSend
    BY DEF StartBroadcast
<1>2. ASSUME NextBatch
      PROVE  /\ send.pc = "check"
             /\ \/ send'.pc = "finish" /\ SameSend
                \/ /\ send'.pc = "sending" /\ status # "CANCELED"
                   /\ send'.batch \in SUBSET send.left
                   /\ send'.left = send.left \ send'.batch
                   /\ send'.result = [u \in Recipients |-> "none"]
  <2>1. send.pc = "check"
    BY <1>2 DEF NextBatch
  <2>2. CASE \E v \in Over : send' = [send EXCEPT !.pc = "finish", !.verdict = v]
    BY <2>1, <2>2
  <2>3. CASE \E b \in Chunks(send.left) :
                /\ status # "CANCELED"
                /\ send' = [send EXCEPT !.pc = "sending", !.batch = b, !.left = @ \ b,
                                        !.result = [u \in Recipients |-> "none"]]
    <3>1. PICK b \in Chunks(send.left) :
             send' = [send EXCEPT !.pc = "sending", !.batch = b, !.left = @ \ b,
                                  !.result = [u \in Recipients |-> "none"]]
      BY <2>3
    <3>2. b \in SUBSET send.left
      BY DEF Chunks
    <3> QED
      BY <2>1, <2>3, <3>1, <3>2
  <2> QED
    BY <1>2, <2>2, <2>3 DEF NextBatch, Over
<1>3. UpdateStatuses => send.pc = "sending" /\ send'.pc = "check" /\ SameSend
    BY DEF UpdateStatuses, BatchDone
<1>4. FinishBroadcast => send.pc = "finish" /\ send'.pc = "ended" /\ SameSend
    BY DEF FinishBroadcast
<1>5. SendingFails => send'.pc \in {"stranded", "finish"} /\ SameSend
    BY DEF SendingFails
<1>6. WorkerDies => send'.pc = "stranded" /\ SameSend
    BY DEF WorkerDies
<1> QED
    BY <1>1, <1>2, <1>3, <1>4, <1>5, <1>6

\* The audience becomes what is left to be sent.
LEMMA AudienceEffect ==
    ASSUME TypeOK, NEW a \in SUBSET Recipients, InitializeMessages(a)
    PROVE  /\ send.pc = "queued"
           /\ send'.batch = send.batch /\ send'.result = send.result
           /\ \/ send'.pc = "finish" /\ send'.left = send.left /\ UNCHANGED <<row, stats>>
              \/ /\ send'.pc = "check" /\ send'.left = a
                 /\ row' = [u \in Recipients |-> IF u \in a THEN "PENDING" ELSE row[u]]
                 /\ stats'.success = stats.success /\ stats'.failed = stats.failed
    BY DEF InitializeMessages, TypeOK, SendRecords

\* One message: it is not sent before, and it is not awaited afterwards.
LEMMA OneEffect ==
    ASSUME TypeOK, NEW u \in Recipients, SendOne(u) \/ SendLost(u)
    PROVE  /\ Awaits(u)
           /\ send'.pc = "sending" /\ send'.left = send.left /\ send'.batch = send.batch
           /\ \E r \in {"SENT", "FAILED"} :
                 /\ send'.result = [send.result EXCEPT ![u] = r]
                 /\ \/ SendOne(u) /\ unsure' = unsure
                       /\ received' = [received EXCEPT ![u] = IF r = "SENT" THEN @ + 1 ELSE @]
                    \/ SendLost(u) /\ r = "FAILED" /\ unsure' = unsure \cup {u}
                       /\ received' = [received EXCEPT ![u] = @ + 1]
<1>1. Awaits(u) /\ send.pc = "sending"
    BY DEF SendOne, SendLost, Awaits
<1>2. CASE SendOne(u)
    BY <1>1, <1>2 DEF SendOne, TypeOK, SendRecords, history
<1>3. CASE SendLost(u)
    BY <1>1, <1>3 DEF SendLost, TypeOK, SendRecords
<1> QED
    BY <1>2, <1>3

\* What a step of a deletion makes of its task; the other deletions stay.
OthersStay(d) == \A o \in Deleters \ {d} : del'[o] = del[o]

LEMMA DeletionEffect ==
    ASSUME TypeOK, NEW d \in Deleters
    PROVE  /\ DeleteBroadcast(d) =>
                 /\ OthersStay(d) /\ del'[d].pc = "queued" /\ del'[d].snap = row
                 /\ del'[d].left = {u \in Recipients : row[u] # "absent"}
           /\ NextDeletion(d) =>
                 /\ OthersStay(d) /\ del[d].pc = "queued" /\ del'[d].snap = del[d].snap
                 /\ \/ del'[d].pc = "finish" /\ del'[d].left = del[d].left
                    \/ /\ del'[d].pc = "deleting" /\ del'[d].left \subseteq del[d].left
                       /\ del'[d].batch \subseteq del[d].left
           /\ RecordDeletions(d) => /\ OthersStay(d) /\ del'[d].pc = "queued"
                                    /\ del'[d].left = del[d].left /\ del'[d].snap = del[d].snap
           /\ FinishDeletion(d) \/ DeletionFails(d) =>
                 /\ OthersStay(d) /\ del'[d].pc = "ended"
                 /\ del'[d].left = del[d].left /\ del'[d].snap = del[d].snap
           /\ \A u \in Recipients : DeleteOne(d, u) =>
                 /\ OthersStay(d) /\ del'[d].pc = "deleting"
                 /\ del'[d].left = del[d].left /\ del'[d].batch = del[d].batch
                 /\ del'[d].snap = [del[d].snap EXCEPT ![u] = "DELETED"]
<1> USE DEF OthersStay
<1>1. del \in [Deleters -> DelRecords] /\ del[d] \in DelRecords
    BY DEF TypeOK
<1>2. DeleteBroadcast(d) =>
         /\ OthersStay(d) /\ del'[d].pc = "queued" /\ del'[d].snap = row
         /\ del'[d].left = {u \in Recipients : row[u] # "absent"}
    BY <1>1 DEF DeleteBroadcast
<1>3. ASSUME NextDeletion(d)
      PROVE  /\ OthersStay(d) /\ del[d].pc = "queued" /\ del'[d].snap = del[d].snap
             /\ \/ del'[d].pc = "finish" /\ del'[d].left = del[d].left
                \/ /\ del'[d].pc = "deleting" /\ del'[d].left \subseteq del[d].left
                   /\ del'[d].batch \subseteq del[d].left
  <2>1. CASE del' = [del EXCEPT ![d].pc = "finish"]
    BY <1>1, <1>3, <2>1 DEF NextDeletion, DelRecords
  <2>2. ASSUME NEW b \in Chunks(del[d].left),
               del' = [del EXCEPT ![d].pc = "deleting", ![d].batch = b, ![d].left = @ \ b]
        PROVE  /\ OthersStay(d) /\ del'[d].pc = "deleting" /\ del'[d].snap = del[d].snap
               /\ del'[d].left \subseteq del[d].left /\ del'[d].batch \subseteq del[d].left
    <3>1. b \subseteq del[d].left
      BY DEF Chunks
    <3> QED
      BY <1>1, <2>2, <3>1 DEF DelRecords
  <2> QED
    BY <1>3, <2>1, <2>2 DEF NextDeletion
<1>4. RecordDeletions(d) => /\ OthersStay(d) /\ del'[d].pc = "queued"
                            /\ del'[d].left = del[d].left /\ del'[d].snap = del[d].snap
    BY <1>1 DEF RecordDeletions, DelRecords
<1>5. FinishDeletion(d) \/ DeletionFails(d) =>
         /\ OthersStay(d) /\ del'[d].pc = "ended"
         /\ del'[d].left = del[d].left /\ del'[d].snap = del[d].snap
    BY <1>1 DEF FinishDeletion, DeletionFails, DelRecords
<1>6. ASSUME NEW u \in Recipients, DeleteOne(d, u)
      PROVE  /\ OthersStay(d) /\ del'[d].pc = "deleting"
             /\ del'[d].left = del[d].left /\ del'[d].batch = del[d].batch
             /\ del'[d].snap = [del[d].snap EXCEPT ![u] = "DELETED"]
    BY <1>1, <1>6 DEF DeleteOne, DelRecords
<1> QED
    BY <1>2, <1>3, <1>4, <1>5, <1>6

\* A death ends the deletions that have been asked for.
LEMMA DeathEffect ==
    ASSUME TypeOK, WorkerDies, NEW d \in Deleters
    PROVE  /\ del'[d].left = del[d].left /\ del'[d].snap = del[d].snap
           /\ del'[d].pc = IF del[d].pc = "none" THEN "none" ELSE "ended"
<1>1. del[d] \in DelRecords
    BY DEF TypeOK
<1>2. del'[d] = IF del[d].pc = "none" THEN del[d] ELSE [del[d] EXCEPT !.pc = "ended"]
    BY DEF WorkerDies
<1> QED
    BY <1>1, <1>2 DEF DelRecords

-----------------------------------------------------------------------------
(* The type invariant *)

LEMMA TypeStep == TypeOK /\ [Next]_vars => TypeOK'
<1> SUFFICES ASSUME TypeOK, [Next]_vars PROVE TypeOK'
    OBVIOUS
<1> USE DEF history, count, chats
<1>1. CASE StartBroadcast
    BY <1>1 DEF StartBroadcast, TypeOK, SendRecords
<1>2. ASSUME NEW a \in SUBSET Recipients, InitializeMessages(a) PROVE TypeOK'
  <2>1. Cardinality(a) \in Nat
    BY Counted
  <2>2. send' \in SendRecords
    BY <1>2 DEF InitializeMessages, TypeOK, SendRecords, Over
  <2>3. row' \in [Recipients -> RowStates]
    BY <1>2 DEF InitializeMessages, TypeOK, RowStates
  <2>4. stats' \in [total : Nat, success : Nat, failed : Nat]
    BY <1>2, <2>1 DEF InitializeMessages, TypeOK
  <2> QED
    BY <1>2, <2>2, <2>3, <2>4 DEF InitializeMessages, TypeOK
<1>3. CASE NextBatch
  <2>1. \A b \in Chunks(send.left) : b \in SUBSET Recipients
    BY DEF Chunks, TypeOK, SendRecords
  <2>2. send' \in SendRecords
    <3>1. CASE \E v \in Over : send' = [send EXCEPT !.pc = "finish", !.verdict = v]
      BY <3>1 DEF TypeOK, SendRecords
    <3>2. ASSUME NEW b \in Chunks(send.left),
                 send' = [send EXCEPT !.pc = "sending", !.batch = b, !.left = @ \ b,
                                      !.result = [u \in Recipients |-> "none"]]
          PROVE  send' \in SendRecords
      BY <2>1, <3>2 DEF TypeOK, SendRecords
    <3> QED
      BY <1>3, <3>1, <3>2 DEF NextBatch, Over
  <2> QED
    BY <1>3, <2>2 DEF NextBatch, TypeOK
<1>4. ASSUME NEW u \in Recipients, SendOne(u) PROVE TypeOK'
  <2>1. send' \in SendRecords
    BY <1>4 DEF SendOne, TypeOK, SendRecords
  <2>2. received' \in [Recipients -> Nat]
    BY <1>4 DEF SendOne, TypeOK
  <2> QED
    BY <1>4, <2>1, <2>2 DEF SendOne, TypeOK
<1>5. ASSUME NEW u \in Recipients, SendLost(u) PROVE TypeOK'
  <2>1. send' \in SendRecords
    BY <1>5 DEF SendLost, TypeOK, SendRecords
  <2>2. received' \in [Recipients -> Nat]
    BY <1>5 DEF SendLost, TypeOK
  <2> QED
    BY <1>5, <2>1, <2>2 DEF SendLost, TypeOK, Fault
<1>6. CASE UpdateStatuses
  <2>1. send' \in SendRecords
    BY <1>6 DEF UpdateStatuses, TypeOK, SendRecords
  <2>2. \A u \in send.batch : send.result[u] \in RowStates
    <3>1. send.batch \subseteq Recipients
          /\ send.result \in [Recipients -> {"none", "SENT", "FAILED"}]
      BY DEF TypeOK, SendRecords
    <3> QED
      BY <1>6, <3>1 DEF UpdateStatuses, BatchDone, RowStates
  <2>3. row' \in [Recipients -> RowStates]
    BY <1>6, <2>2 DEF UpdateStatuses, TypeOK
  <2>4. Cardinality(Sent("SENT")) \in Nat /\ Cardinality(Sent("FAILED")) \in Nat
    <3>1. Sent("SENT") \in SUBSET Recipients /\ Sent("FAILED") \in SUBSET Recipients
      BY DEF Sent, TypeOK, SendRecords
    <3> QED
      BY <3>1, Counted
  <2>5. stats' \in [total : Nat, success : Nat, failed : Nat]
    <3>1. stats' = [stats EXCEPT !.success = @ + Cardinality(Sent("SENT")),
                                 !.failed  = @ + Cardinality(Sent("FAILED"))]
      BY <1>6 DEF UpdateStatuses
    <3>2. stats \in [total : Nat, success : Nat, failed : Nat]
      BY DEF TypeOK
    <3>3. /\ stats.success + Cardinality(Sent("SENT")) \in Nat
          /\ stats.failed + Cardinality(Sent("FAILED")) \in Nat
      BY <2>4, <3>2
    <3> QED
      BY <3>1, <3>2, <3>3
  <2> QED
    BY <1>6, <2>1, <2>3, <2>5 DEF UpdateStatuses, TypeOK
<1>7. CASE FinishBroadcast
  <2>1. send' \in SendRecords /\ status' \in Over
    BY <1>7 DEF FinishBroadcast, TypeOK, SendRecords
  <2> QED
    BY <1>7, <2>1 DEF FinishBroadcast, TypeOK
<1>8. CASE SendingFails \/ WorkerDies
  <2>1. Unrecorded \subseteq Recipients
    BY DEF Unrecorded, Sent, TypeOK, SendRecords
  <2>2. send' \in SendRecords
    BY <1>8 DEF SendingFails, WorkerDies, TypeOK, SendRecords, Over
  <2>3. del' \in [Deleters -> DelRecords]
    <3>1. \A d \in Deleters : [del[d] EXCEPT !.pc = "ended"] \in DelRecords
      BY DEF TypeOK, DelRecords
    <3> QED
      BY <1>8, <3>1 DEF SendingFails, WorkerDies, TypeOK
  <2> QED
    BY <1>8, <2>1, <2>2, <2>3 DEF SendingFails, WorkerDies, TypeOK, Fault
<1>9. CASE ReadForCancel \/ CancelBroadcast
  <2>1. canceled' \in BOOLEAN
    BY <1>9 DEF ReadForCancel, CancelBroadcast, TypeOK
  <2>2. status' \in {"none", "PROCESSING", "DELETED"} \cup Over /\ cancel' \in {"idle", "write"}
    BY <1>9 DEF ReadForCancel, CancelBroadcast, TypeOK, Over
  <2>3. cancels' \in Nat
    BY <1>9 DEF ReadForCancel, CancelBroadcast, TypeOK
  <2> QED
    BY <1>9, <2>1, <2>2, <2>3 DEF ReadForCancel, CancelBroadcast, TypeOK
<1>10. ASSUME NEW d \in Deleters, DeleteBroadcast(d) \/ Deleting(d) \/ DeletionFails(d)
       PROVE  TypeOK'
  <2> del[d] \in DelRecords
    BY DEF TypeOK
  <2>1. CASE DeleteBroadcast(d)
    <3>1. [pc |-> "queued", batch |-> {}, snap |-> row,
           left |-> {u \in Recipients : row[u] # "absent"}] \in DelRecords
      BY DEF DelRecords, TypeOK
    <3> QED
      BY <2>1, <3>1 DEF DeleteBroadcast, TypeOK
  <2>2. CASE NextDeletion(d)
    <3>1. \A b \in Chunks(del[d].left) :
             [del[d] EXCEPT !.pc = "deleting", !.batch = b, !.left = @ \ b] \in DelRecords
      BY DEF Chunks, DelRecords
    <3>2. [del[d] EXCEPT !.pc = "finish"] \in DelRecords
      BY DEF DelRecords
    <3>3. del' \in [Deleters -> DelRecords]
      <4>1. CASE del' = [del EXCEPT ![d].pc = "finish"]
        BY <3>2, <4>1 DEF TypeOK
      <4>2. ASSUME NEW b \in Chunks(del[d].left),
                   del' = [del EXCEPT ![d].pc = "deleting", ![d].batch = b, ![d].left = @ \ b]
            PROVE  del' \in [Deleters -> DelRecords]
        BY <3>1, <4>2 DEF TypeOK
      <4> QED
        BY <2>2, <4>1, <4>2 DEF NextDeletion
    <3> QED
      BY <2>2, <3>3 DEF NextDeletion, TypeOK
  <2>3. ASSUME NEW u \in Recipients, DeleteOne(d, u) PROVE TypeOK'
    <3>1. [del[d] EXCEPT !.snap = [@ EXCEPT ![u] = "DELETED"]] \in DelRecords
      BY DEF DelRecords, RowStates
    <3>2. del' \in [Deleters -> DelRecords]
      BY <2>3, <3>1 DEF DeleteOne, TypeOK
    <3> QED
      BY <2>3, <3>2 DEF DeleteOne, TypeOK
  <2>4. CASE RecordDeletions(d)
    <3>1. [del[d] EXCEPT !.pc = "queued"] \in DelRecords
      BY DEF DelRecords
    <3>2. row' \in [Recipients -> RowStates]
      BY <2>4 DEF RecordDeletions, TypeOK, DelRecords
    <3> QED
      BY <2>4, <3>1, <3>2 DEF RecordDeletions, TypeOK
  <2>5. CASE FinishDeletion(d) \/ DeletionFails(d)
    <3>1. [del[d] EXCEPT !.pc = "ended"] \in DelRecords
      BY DEF DelRecords
    <3> QED
      BY <2>5, <3>1 DEF FinishDeletion, DeletionFails, TypeOK, Fault
  <2> QED
    BY <1>10, <2>1, <2>2, <2>3, <2>4, <2>5 DEF Deleting
<1>11. CASE UNCHANGED vars
    BY <1>11 DEF vars, TypeOK
<1> QED
    BY <1>1, <1>2, <1>3, <1>4, <1>5, <1>6, <1>7, <1>8, <1>9, <1>10, <1>11
    DEF Next, Sending

-----------------------------------------------------------------------------
(* Which way things go *)

\* The steps that are not the sending task's.
Elsewhere ==
    \/ ReadForCancel \/ CancelBroadcast
    \/ \E d \in Deleters :
          \/ DeleteBroadcast(d) \/ DeletionFails(d)
          \/ NextDeletion(d) \/ RecordDeletions(d) \/ FinishDeletion(d)
          \/ \E u \in Recipients : DeleteOne(d, u)
    \/ UNCHANGED vars

LEMMA ElsewhereEffect == Elsewhere => UNCHANGED <<send, received, stats, unsure>>
    BY DEF Elsewhere, ReadForCancel, CancelBroadcast, DeleteBroadcast, DeletionFails,
           NextDeletion, RecordDeletions, FinishDeletion, DeleteOne, vars, chats, history, count

LEMMA Steps ==
    ASSUME [Next]_vars
    PROVE  \/ StartBroadcast \/ NextBatch \/ UpdateStatuses \/ FinishBroadcast
           \/ \E a \in SUBSET Recipients : InitializeMessages(a)
           \/ \E u \in Recipients : SendOne(u) \/ SendLost(u)
           \/ SendingFails \/ WorkerDies \/ Elsewhere
    BY DEF Next, Sending, Deleting, Elsewhere

\* A recipient goes from untouched to the batch and from there to the rest.
LEMMA Onward ==
    ASSUME TypeOK, [Next]_vars, status = "none" <=> send.pc = "none", NEW u \in Recipients
    PROVE  /\ Untouched(u)' => Untouched(u)
           /\ InFlight(u)' => Untouched(u) \/ InFlight(u)
<1> USE DEF Untouched, InFlight, Awaits, SameSend
<1>1. CASE StartBroadcast
    BY <1>1, SendEffect DEF StartBroadcast
<1>2. ASSUME NEW a \in SUBSET Recipients, InitializeMessages(a)
      PROVE  (Untouched(u)' => Untouched(u)) /\ (InFlight(u)' => Untouched(u) \/ InFlight(u))
    BY <1>2, AudienceEffect
<1>3. CASE NextBatch
    BY <1>3, SendEffect DEF TypeOK, SendRecords
<1>4. ASSUME NEW o \in Recipients, SendOne(o) \/ SendLost(o)
      PROVE  (Untouched(u)' => Untouched(u)) /\ (InFlight(u)' => Untouched(u) \/ InFlight(u))
  <2>1. PICK r \in {"SENT", "FAILED"} : send'.result = [send.result EXCEPT ![o] = r]
    BY <1>4, OneEffect
  <2>2. /\ send.pc = "sending" /\ send'.pc = "sending"
        /\ send'.left = send.left /\ send'.batch = send.batch
    BY <1>4, OneEffect
  <2>3. send'.result[u] = "none" => send.result[u] = "none"
    BY <2>1 DEF TypeOK, SendRecords
  <2> QED
    BY <2>2, <2>3
<1>5. CASE UpdateStatuses \/ FinishBroadcast
    BY <1>5, SendEffect
<1>6. CASE SendingFails \/ WorkerDies
    BY <1>6, SendEffect
<1>7. CASE Elsewhere
    BY <1>7, ElsewhereEffect
<1> QED
    BY <1>1, <1>2, <1>3, <1>4, <1>5, <1>6, <1>7, Steps

\* Nothing is forgotten, and only an awaited message arrives.
LEMMA Remembered ==
    ASSUME TypeOK, [Next]_vars
    PROVE  /\ unsure \subseteq unsure' /\ blurred \subseteq blurred' /\ removed \subseteq removed'
           /\ \A u \in Recipients : ~Awaits(u) => received'[u] = received[u]
<1> USE DEF history, count, chats
<1>1. CASE StartBroadcast \/ NextBatch \/ UpdateStatuses \/ FinishBroadcast
    BY <1>1 DEF StartBroadcast, NextBatch, UpdateStatuses, FinishBroadcast
<1>2. ASSUME NEW a \in SUBSET Recipients, InitializeMessages(a)
      PROVE  UNCHANGED <<unsure, blurred, removed, received>>
    BY <1>2 DEF InitializeMessages
<1>3. ASSUME NEW o \in Recipients, SendOne(o) \/ SendLost(o)
      PROVE  /\ unsure \subseteq unsure' /\ UNCHANGED <<blurred, removed>>
             /\ \A u \in Recipients : ~Awaits(u) => received'[u] = received[u]
  <2>1. unsure \subseteq unsure' /\ UNCHANGED <<blurred, removed>>
    BY <1>3 DEF SendOne, SendLost
  <2>2. Awaits(o) /\ \A u \in Recipients \ {o} : received'[u] = received[u]
    BY <1>3 DEF SendOne, SendLost, TypeOK
  <2> QED
    BY <2>1, <2>2
<1>4. CASE SendingFails \/ WorkerDies
    BY <1>4 DEF SendingFails, WorkerDies
<1>5. CASE Elsewhere
  <2>1. UNCHANGED <<received, unsure>>
    BY <1>5, ElsewhereEffect
  <2>2. blurred \subseteq blurred'
    BY <1>5 DEF Elsewhere, ReadForCancel, CancelBroadcast, DeleteBroadcast, DeletionFails,
                NextDeletion, RecordDeletions, FinishDeletion, DeleteOne, vars
  <2>3. removed \subseteq removed'
    BY <1>5 DEF Elsewhere, ReadForCancel, CancelBroadcast, DeleteBroadcast, DeletionFails,
                NextDeletion, RecordDeletions, FinishDeletion, DeleteOne, vars
  <2> QED
    BY <2>1, <2>2, <2>3
<1> QED
    BY <1>1, <1>2, <1>3, <1>4, <1>5, Steps

\* A deletion that has been asked for stays asked for.
LEMMA Asked ==
    ASSUME TypeOK, [Next]_vars, DeletionAsked
    PROVE  DeletionAsked'
<1> PICK x \in Deleters : del[x].pc # "none"
    BY DEF DeletionAsked
<1>1. ASSUME NEW d \in Deleters,
             \/ DeleteBroadcast(d) \/ DeletionFails(d)
             \/ NextDeletion(d) \/ RecordDeletions(d) \/ FinishDeletion(d)
             \/ \E u \in Recipients : DeleteOne(d, u)
      PROVE  del'[x].pc # "none"
  <2>1. OthersStay(d) /\ del'[d].pc # "none"
    BY <1>1, DeletionEffect
  <2> QED
    BY <2>1 DEF OthersStay
<1>2. CASE WorkerDies
    BY <1>2, DeathEffect DEF DeletionAsked
<1>3. CASE UNCHANGED del
    BY <1>3 DEF DeletionAsked
<1>4. \/ UNCHANGED del \/ WorkerDies
      \/ \E d \in Deleters :
            \/ DeleteBroadcast(d) \/ DeletionFails(d)
            \/ NextDeletion(d) \/ RecordDeletions(d) \/ FinishDeletion(d)
            \/ \E u \in Recipients : DeleteOne(d, u)
    BY Steps DEF StartBroadcast, NextBatch, UpdateStatuses, FinishBroadcast, InitializeMessages,
                 SendOne, SendLost, SendingFails, Elsewhere, ReadForCancel, CancelBroadcast, vars
<1> QED
    BY <1>1, <1>2, <1>3, <1>4 DEF DeletionAsked

\* What a row or a copy says of a recipient stays right.
LEMMA KnownStays ==
    ASSUME IInv, [Next]_vars, NEW u \in Recipients, NEW r, Known(u, r)
    PROVE  Known(u, r)'
<1>1. /\ Untouched(u)' => Untouched(u)
      /\ InFlight(u)' => Untouched(u) \/ InFlight(u)
    BY Onward DEF IInv, CancelKept
<1>2. /\ unsure \subseteq unsure' /\ removed \subseteq removed'
      /\ ~Untouched(u) => received'[u] = received[u]
    BY Remembered DEF IInv, Untouched
<1> QED
    BY <1>1, <1>2 DEF Known, NotThere

\* Where a deletion has what it holds from.
LEMMA Copied ==
    ASSUME TypeOK, [Next]_vars, NEW d \in Deleters, NEW u \in Recipients, Holds(d, u)'
    PROVE  \/ Holds(d, u) /\ del'[d].snap[u] = del[d].snap[u]
           \/ DeleteBroadcast(d) /\ row[u] # "absent" /\ del'[d].snap[u] = row[u]
           \/ DeleteOne(d, u) /\ Holds(d, u) /\ del'[d].snap[u] = "DELETED"
<1> USE DEF Holds
<1>1. CASE UNCHANGED del
    BY <1>1
<1>2. CASE WorkerDies
    BY <1>2, DeathEffect
<1>3. ASSUME NEW o \in Deleters \ {d}, OthersStay(o)
      PROVE  Holds(d, u) /\ del'[d].snap[u] = del[d].snap[u]
    BY <1>3 DEF OthersStay
<1>4. CASE DeleteBroadcast(d)
    BY <1>4, DeletionEffect
<1>5. CASE NextDeletion(d)
    BY <1>5, DeletionEffect
<1>6. CASE RecordDeletions(d) \/ FinishDeletion(d) \/ DeletionFails(d)
    BY <1>6, DeletionEffect
<1>7. ASSUME NEW o \in Recipients, DeleteOne(d, o)
      PROVE  /\ Holds(d, u)
             /\ IF o = u THEN del'[d].snap[u] = "DELETED"
                ELSE del'[d].snap[u] = del[d].snap[u]
  <2>1. del[d] \in DelRecords /\ del[d].pc = "deleting"
    BY <1>7 DEF TypeOK, DeleteOne
  <2>2. /\ del'[d].pc = "deleting"
        /\ del'[d].left = del[d].left /\ del'[d].batch = del[d].batch
        /\ del'[d].snap = [del[d].snap EXCEPT ![o] = "DELETED"]
    BY <1>7, DeletionEffect
  <2>3. del[d].snap \in [Recipients -> RowStates]
    BY <2>1 DEF DelRecords
  <2> QED
    BY <2>1, <2>2, <2>3
<1>8. \/ UNCHANGED del \/ WorkerDies
      \/ \E o \in Deleters :
            \/ DeleteBroadcast(o) \/ DeletionFails(o)
            \/ NextDeletion(o) \/ RecordDeletions(o) \/ FinishDeletion(o)
            \/ \E x \in Recipients : DeleteOne(o, x)
    BY Steps DEF StartBroadcast, NextBatch, UpdateStatuses, FinishBroadcast, InitializeMessages,
                 SendOne, SendLost, SendingFails, Elsewhere, ReadForCancel, CancelBroadcast, vars
<1>9. ASSUME NEW o \in Deleters,
             \/ DeleteBroadcast(o) \/ DeletionFails(o)
             \/ NextDeletion(o) \/ RecordDeletions(o) \/ FinishDeletion(o)
             \/ \E x \in Recipients : DeleteOne(o, x)
      PROVE  OthersStay(o)
    BY <1>9, DeletionEffect
<1> QED
  <2>1. CASE \E o \in Deleters \ {d} : OthersStay(o)
    BY <1>3, <2>1
  <2>2. CASE ~\E o \in Deleters \ {d} : OthersStay(o)
    <3>1. \/ UNCHANGED del \/ WorkerDies
          \/ DeleteBroadcast(d) \/ DeletionFails(d)
          \/ NextDeletion(d) \/ RecordDeletions(d) \/ FinishDeletion(d)
          \/ \E x \in Recipients : DeleteOne(d, x)
      BY <1>8, <1>9, <2>2
    <3> QED
      BY <1>1, <1>2, <1>4, <1>5, <1>6, <1>7, <3>1
  <2> QED
    BY <2>1, <2>2

-----------------------------------------------------------------------------
(* The inductive invariant, part by part *)

LEMMA InitHolds == Init => IInv
<1> SUFFICES ASSUME Init PROVE IInv
    OBVIOUS
<1>1. TypeOK
    BY BroadcastAssumption
    DEF Init, TypeOK, SendRecords, DelRecords, RowStates, Over
<1>2. SentOnce /\ RowsPending
    BY DEF Init, SentOnce, OneMessageEach, RowsPending, InFlight, Holds
<1>3. StatsMatchRows
  <2>1. {u \in Recipients : row[u] = "SENT"} = {} /\ {u \in Recipients : row[u] = "FAILED"} = {}
    BY DEF Init
  <2> QED
    BY <2>1, FS_EmptySet DEF Init, StatsMatchRows
<1>4. RowsKnown
    BY DEF Init, RowsKnown, Known
<1>5. CopiesKnown
    BY DEF Init, CopiesKnown, Holds
<1>6. Missing
    BY DEF Init, Missing, NotThere, InFlight
<1>7. CancelKept
    BY DEF Init, CancelKept, DeletionAsked
<1>8. Answered
    BY DEF Init, Answered, InFlight
<1> QED
    BY <1>1, <1>2, <1>3, <1>4, <1>5, <1>6, <1>7, <1>8 DEF IInv

\* Nobody is sent a second message.
LEMMA OnceStep == IInv /\ TypeOK' /\ [Next]_vars => SentOnce'
<1> SUFFICES ASSUME IInv, TypeOK', [Next]_vars PROVE SentOnce'
    OBVIOUS
<1> TypeOK /\ SentOnce
    BY DEF IInv
<1>1. \A u \in Recipients : Untouched(u)' => received'[u] = 0
  <2> SUFFICES ASSUME NEW u \in Recipients, Untouched(u)' PROVE received'[u] = 0
    OBVIOUS
  <2>1. Untouched(u) /\ received[u] = 0
    BY Onward DEF IInv, CancelKept, SentOnce
  <2>2. CASE ~Awaits(u)
    BY <2>1, <2>2, Remembered
  <2>3. CASE Awaits(u)
    <3>1. send.pc = "sending" /\ u \in send.batch /\ u \notin send.left
      BY <2>3 DEF Awaits, SentOnce
    <3>2. CASE \E o \in Recipients : SendOne(o) \/ SendLost(o)
      <4>1. PICK o \in Recipients : SendOne(o) \/ SendLost(o)
        BY <3>2
      <4>2. PICK r \in {"SENT", "FAILED"} : send'.result = [send.result EXCEPT ![o] = r]
        BY <4>1, OneEffect
      <4>3. send'.pc = "sending" /\ send'.left = send.left
        BY <4>1, OneEffect
      <4>4. u # o
        BY <3>1, <4>2, <4>3 DEF Untouched, Awaits, TypeOK, SendRecords
      <4> QED
        BY <2>1, <4>1, <4>4 DEF SendOne, SendLost, TypeOK
    <3>3. CASE ~\E o \in Recipients : SendOne(o) \/ SendLost(o)
      <4>1. CASE Elsewhere
        BY <2>1, <4>1, ElsewhereEffect
      <4>2. CASE ~Elsewhere
        BY <2>1, <3>3, <4>2, Steps
        DEF StartBroadcast, NextBatch, UpdateStatuses, FinishBroadcast, InitializeMessages,
            SendingFails, WorkerDies, chats
      <4> QED
        BY <4>1, <4>2
    <3> QED
      BY <3>2, <3>3
  <2> QED
    BY <2>2, <2>3
<1>2. OneMessageEach'
  <2> SUFFICES ASSUME NEW u \in Recipients PROVE received'[u] <= 1
    BY DEF OneMessageEach
  <2>1. received[u] <= 1 /\ received[u] \in Nat
    BY DEF SentOnce, OneMessageEach, TypeOK
  <2>2. CASE ~Awaits(u)
    BY <2>1, <2>2, Remembered
  <2>3. CASE Awaits(u)
    <3>1. received[u] = 0
      BY <2>3 DEF SentOnce, Untouched
    <3>2. ASSUME NEW o \in Recipients, SendOne(o) \/ SendLost(o)
          PROVE  received'[u] <= 1
      BY <3>1, <3>2 DEF SendOne, SendLost, TypeOK
    <3>3. CASE Elsewhere
      BY <3>1, <3>3, ElsewhereEffect
    <3>4. CASE ~Elsewhere /\ ~\E o \in Recipients : SendOne(o) \/ SendLost(o)
      <4>1. received' = received
        BY <3>4, Steps
        DEF StartBroadcast, NextBatch, UpdateStatuses, FinishBroadcast, InitializeMessages,
            SendingFails, WorkerDies, chats
      <4> QED
        BY <3>1, <4>1
    <3> QED
      BY <3>2, <3>3, <3>4
  <2> QED
    BY <2>2, <2>3
<1>3. /\ (send.pc \in {"none", "queued"} => send.left = {})'
      /\ (send.pc = "sending" => send.left \cap send.batch = {})'
  <2> USE DEF SentOnce, SameSend
  <2>1. CASE StartBroadcast
    BY <2>1, SendEffect DEF StartBroadcast, IInv, CancelKept
  <2>2. ASSUME NEW a \in SUBSET Recipients, InitializeMessages(a)
        PROVE  send'.pc \in {"finish", "check"}
    BY <2>2, AudienceEffect
  <2>3. CASE NextBatch
    BY <2>3, SendEffect
  <2>4. ASSUME NEW o \in Recipients, SendOne(o) \/ SendLost(o)
        PROVE  send'.pc = "sending" /\ send.pc = "sending"
               /\ send'.left = send.left /\ send'.batch = send.batch
    BY <2>4, OneEffect DEF Awaits
  <2>5. CASE UpdateStatuses \/ FinishBroadcast \/ SendingFails \/ WorkerDies
    BY <2>5, SendEffect
  <2>6. CASE Elsewhere
    BY <2>6, ElsewhereEffect
  <2> QED
    BY <2>1, <2>2, <2>3, <2>4, <2>5, <2>6, Steps
<1> QED
    BY <1>1, <1>2, <1>3 DEF SentOnce

\* Before the sending has its audience no deletion holds anything.
LEMMA UnheldStep ==
    ASSUME IInv, [Next]_vars, (send.pc \in {"none", "queued"})',
           NEW d \in Deleters, NEW u \in Recipients
    PROVE  ~Holds(d, u)'
<1>1. Untouched(u)
    BY Onward DEF Untouched, IInv, CancelKept
<1>2. send.pc \in {"none", "queued"}
  <2> USE DEF IInv
  <2>1. CASE NextBatch \/ UpdateStatuses \/ FinishBroadcast \/ SendingFails \/ WorkerDies
    BY <2>1, SendEffect
  <2>2. ASSUME NEW o \in Recipients, SendOne(o) \/ SendLost(o) PROVE FALSE
    BY <2>2, OneEffect
  <2>3. ASSUME NEW a \in SUBSET Recipients, InitializeMessages(a) PROVE FALSE
    BY <2>3, AudienceEffect
  <2>4. CASE StartBroadcast
    BY <2>4 DEF StartBroadcast, CancelKept
  <2>5. CASE Elsewhere
    BY <2>5, ElsewhereEffect
  <2> QED
    BY <2>1, <2>2, <2>3, <2>4, <2>5, Steps
<1>3. row[u] = "absent" /\ ~Holds(d, u)
    BY <1>2 DEF IInv, RowsPending
<1> QED
    BY <1>3, Copied DEF IInv

\* The rows of whom the sending has not reached, or has in flight.
LEMMA PendingStep == IInv /\ TypeOK' /\ [Next]_vars => RowsPending'
<1> SUFFICES ASSUME IInv, TypeOK', [Next]_vars
             PROVE  /\ (send.pc \in {"none", "queued"} =>
                          \A u \in Recipients : row[u] = "absent")'
                    /\ (~DeletionAsked => \A u \in Recipients :
                          u \in send.left \/ InFlight(u) => row[u] = "PENDING")'
    BY UnheldStep DEF RowsPending
<1> TypeOK /\ RowsPending /\ SentOnce
    BY DEF IInv
<1> USE DEF RowsPending, InFlight, SameSend
<1> DEFINE Goal == /\ (send.pc \in {"none", "queued"} =>
                          \A u \in Recipients : row[u] = "absent")'
                   /\ (~DeletionAsked => \A u \in Recipients :
                          u \in send.left \/ InFlight(u) => row[u] = "PENDING")'
<1>1. CASE StartBroadcast
  <2>1. send.pc = "none" /\ send.left = {} /\ row' = row
    BY <1>1 DEF StartBroadcast, IInv, CancelKept, SentOnce
  <2> QED
    BY <1>1, <2>1, SendEffect
<1>2. ASSUME NEW a \in SUBSET Recipients, InitializeMessages(a) PROVE Goal
  <2>1. send.pc = "queued" /\ send.left = {}
    BY <1>2, AudienceEffect DEF SentOnce
  <2> QED
    BY <1>2, <2>1, AudienceEffect
<1>3. CASE NextBatch
  <2>1. UNCHANGED <<row, del>>
    BY <1>3 DEF NextBatch
  <2> QED
    BY <1>3, <2>1, SendEffect DEF DeletionAsked
<1>4. ASSUME NEW o \in Recipients, SendOne(o) \/ SendLost(o) PROVE Goal
  <2>1. UNCHANGED <<row, del>>
    BY <1>4 DEF SendOne, SendLost
  <2>2. /\ send.pc = "sending" /\ send'.pc = "sending"
        /\ send'.left = send.left /\ send'.batch = send.batch
    BY <1>4, OneEffect DEF Awaits
  <2> QED
    BY <2>1, <2>2 DEF DeletionAsked
<1>5. CASE UpdateStatuses
  <2>1. send.pc = "sending" /\ send'.pc = "check" /\ SameSend
    BY <1>5, SendEffect
  <2>2. send.left \subseteq Recipients
    BY DEF TypeOK, SendRecords
  <2>3. del' = del /\ \A u \in send.left : row'[u] = row[u]
    BY <1>5, <2>1, <2>2 DEF UpdateStatuses, SentOnce, TypeOK
  <2> QED
    BY <2>1, <2>2, <2>3 DEF DeletionAsked
<1>6. CASE FinishBroadcast \/ SendingFails \/ WorkerDies
  <2>1. row' = row /\ SameSend /\ send'.pc \in {"ended", "stranded", "finish"}
    BY <1>6, SendEffect DEF FinishBroadcast, SendingFails, WorkerDies
  <2>2. DeletionAsked => DeletionAsked'
    BY Asked
  <2> QED
    BY <2>1, <2>2
<1>7. CASE Elsewhere
  <2>1. send' = send
    BY <1>7, ElsewhereEffect
  <2>2. CASE UNCHANGED row
    BY <2>1, <2>2, Asked
  <2>3. ASSUME NEW d \in Deleters, RecordDeletions(d) PROVE Goal
    <3>1. del[d].pc = "deleting"
      BY <2>3 DEF RecordDeletions
    <3>2. DeletionAsked'
      BY <3>1, Asked DEF DeletionAsked
    <3>3. send.pc \in {"none", "queued"} => \A u \in Recipients : row'[u] = row[u]
      BY <2>3, <3>1 DEF RecordDeletions, Holds
    <3> QED
      BY <2>1, <3>2, <3>3
  <2> QED
    BY <1>7, <2>2, <2>3
    DEF Elsewhere, ReadForCancel, CancelBroadcast, DeleteBroadcast, DeletionFails,
        NextDeletion, FinishDeletion, DeleteOne, vars
<1> QED
    BY <1>1, <1>2, <1>3, <1>4, <1>5, <1>6, <1>7, Steps

\* The counters follow the rows.
LEMMA StatsStep == IInv /\ TypeOK' /\ [Next]_vars => StatsMatchRows'
<1> SUFFICES ASSUME IInv, TypeOK', [Next]_vars, ~DeletionAsked'
             PROVE  /\ stats'.success = Cardinality({u \in Recipients : row'[u] = "SENT"})
                    /\ stats'.failed = Cardinality({u \in Recipients : row'[u] = "FAILED"})
    BY DEF StatsMatchRows
<1> DEFINE In(r)    == {u \in Recipients : row[u] = r}
           InNew(r) == {u \in Recipients : row'[u] = r}
<1> TypeOK /\ ~DeletionAsked
    BY Asked DEF IInv
<1>1. stats.success = Cardinality(In("SENT")) /\ stats.failed = Cardinality(In("FAILED"))
    BY DEF IInv, StatsMatchRows
<1>2. CASE UNCHANGED <<row, stats>>
    BY <1>1, <1>2
<1>3. ASSUME NEW a \in SUBSET Recipients, InitializeMessages(a)
      PROVE  /\ stats'.success = Cardinality(InNew("SENT"))
             /\ stats'.failed = Cardinality(InNew("FAILED"))
  <2>1. \A u \in Recipients : row[u] = "absent"
    BY <1>3, AudienceEffect DEF IInv, RowsPending
  <2>2. CASE UNCHANGED <<row, stats>>
    BY <1>1, <2>2
  <2>3. CASE /\ row' = [u \in Recipients |-> IF u \in a THEN "PENDING" ELSE row[u]]
             /\ stats'.success = stats.success /\ stats'.failed = stats.failed
    <3>1. InNew("SENT") = In("SENT") /\ InNew("FAILED") = In("FAILED")
      BY <2>1, <2>3
    <3> QED
      BY <1>1, <2>3, <3>1
  <2> QED
    BY <1>3, <2>2, <2>3, AudienceEffect
<1>4. CASE UpdateStatuses
  <2>1. send.pc = "sending" /\ send.batch \subseteq Recipients
    BY <1>4, SendEffect DEF TypeOK, SendRecords
  <2>2. \A u \in send.batch : row[u] = "PENDING"
    BY <2>1 DEF IInv, RowsPending, InFlight
  <2>3. row' = [u \in Recipients |-> IF u \in send.batch THEN send.result[u] ELSE row[u]]
    BY <1>4 DEF UpdateStatuses
  <2>4. ASSUME NEW r \in {"SENT", "FAILED"}
        PROVE  Cardinality(InNew(r)) = Cardinality(In(r)) + Cardinality(Sent(r))
    <3>1. Sent(r) = {u \in send.batch : send.result[u] = r}
      BY DEF Sent
    <3>2. InNew(r) = In(r) \cup Sent(r) /\ In(r) \cap Sent(r) = {}
      BY <2>1, <2>2, <2>3, <3>1
    <3>3. In(r) \in SUBSET Recipients /\ Sent(r) \in SUBSET Recipients
      BY <2>1, <3>1
    <3> QED
      BY <3>2, <3>3, CountedTogether
  <2>5. stats' = [stats EXCEPT !.success = @ + Cardinality(Sent("SENT")),
                               !.failed  = @ + Cardinality(Sent("FAILED"))]
    BY <1>4 DEF UpdateStatuses
  <2>6. /\ stats'.success = stats.success + Cardinality(Sent("SENT"))
        /\ stats'.failed = stats.failed + Cardinality(Sent("FAILED"))
    BY <2>5 DEF TypeOK
  <2> QED
    BY <1>1, <2>4, <2>6
<1>5. ASSUME NEW d \in Deleters, RecordDeletions(d) PROVE FALSE
    BY <1>5, DeletionEffect DEF DeletionAsked
<1>6. CASE Elsewhere
    BY <1>2, <1>5, <1>6
    DEF Elsewhere, ReadForCancel, CancelBroadcast, DeleteBroadcast, DeletionFails,
        NextDeletion, FinishDeletion, DeleteOne, vars
<1>7. CASE \/ StartBroadcast \/ NextBatch \/ FinishBroadcast \/ SendingFails \/ WorkerDies
           \/ \E u \in Recipients : SendOne(u) \/ SendLost(u)
    BY <1>2, <1>7 DEF StartBroadcast, NextBatch, FinishBroadcast, SendingFails, WorkerDies,
                      SendOne, SendLost
<1> QED
    BY <1>3, <1>4, <1>6, <1>7, Steps

\* What the rows say is right.
LEMMA RowsStep == IInv /\ TypeOK' /\ [Next]_vars => RowsKnown'
<1> SUFFICES ASSUME IInv, TypeOK', [Next]_vars, NEW u \in Recipients
             PROVE  Known(u, row[u])'
    BY DEF RowsKnown
<1> TypeOK /\ Known(u, row[u])
    BY DEF IInv, RowsKnown
<1>1. CASE row'[u] = row[u]
  <2>1. Known(u, row[u])'
    BY KnownStays, <1>1 DEF Known
  <2> QED
    BY <2>1
<1>2. ASSUME NEW a \in SUBSET Recipients, InitializeMessages(a), row'[u] # row[u]
      PROVE  Known(u, row[u])'
  <2>1. row'[u] = "PENDING"
    BY <1>2, AudienceEffect
  <2> QED
    BY <2>1 DEF Known
<1>3. CASE UpdateStatuses /\ row'[u] # row[u]
  <2>1. send.pc = "sending" /\ send'.pc = "check" /\ SameSend
    BY <1>3, SendEffect
  <2>2. u \in send.batch /\ row'[u] = send.result[u]
    BY <1>3 DEF UpdateStatuses
  <2>3. send.result[u] \in {"SENT", "FAILED"}
    BY <1>3, <2>2 DEF UpdateStatuses, BatchDone, TypeOK, SendRecords
  <2>4. ~Untouched(u)' /\ ~InFlight(u)'
    BY <2>1, <2>2 DEF Untouched, InFlight, Awaits, SameSend, IInv, SentOnce
  <2>5. send.result[u] = "FAILED" => NotThere(u)
    BY <2>1, <2>2 DEF IInv, Missing, InFlight
  <2>6. UNCHANGED <<received, unsure>>
    BY <1>3 DEF UpdateStatuses, chats, history
  <2>7. send.result[u] = "SENT" => received[u] # 0
    BY <2>1, <2>2 DEF IInv, Answered, InFlight
  <2> QED
    BY <2>2, <2>3, <2>4, <2>5, <2>6, <2>7 DEF Known, NotThere
<1>4. ASSUME NEW d \in Deleters, RecordDeletions(d), row'[u] # row[u]
      PROVE  Known(u, row[u])'
  <2>1. row'[u] = del[d].snap[u] /\ Holds(d, u)
    BY <1>4 DEF RecordDeletions, Holds
  <2>2. Known(u, del[d].snap[u])
    BY <2>1 DEF IInv, CopiesKnown
  <2>3. del'[d].snap[u] = del[d].snap[u]
    BY <1>4, DeletionEffect
  <2>4. \A r : r = del[d].snap[u] => Known(u, r)'
    BY <2>2, KnownStays
  <2> QED
    BY <2>1, <2>4 DEF Known
<1>5. \/ row' = row
      \/ UpdateStatuses
      \/ \E a \in SUBSET Recipients : InitializeMessages(a)
      \/ \E d \in Deleters : RecordDeletions(d)
    BY Steps DEF StartBroadcast, NextBatch, FinishBroadcast, SendOne, SendLost, SendingFails,
                 WorkerDies, Elsewhere, ReadForCancel, CancelBroadcast, DeleteBroadcast,
                 DeletionFails, NextDeletion, FinishDeletion, DeleteOne, vars
<1> QED
    BY <1>1, <1>2, <1>3, <1>4, <1>5

\* What the deletions have copied is right.
LEMMA CopiesStep == IInv /\ TypeOK' /\ [Next]_vars => CopiesKnown'
<1> SUFFICES ASSUME IInv, TypeOK', [Next]_vars,
                    NEW d \in Deleters, NEW u \in Recipients, Holds(d, u)'
             PROVE  /\ Known(u, del[d].snap[u])'
                    /\ del'[d].snap[u] # "absent"
                    /\ del'[d].snap[u] = "PENDING" => u \in blurred'
    BY DEF CopiesKnown
<1> TypeOK
    BY DEF IInv
<1>1. CASE Holds(d, u) /\ del'[d].snap[u] = del[d].snap[u]
  <2>1. /\ Known(u, del[d].snap[u]) /\ del[d].snap[u] # "absent"
        /\ del[d].snap[u] = "PENDING" => u \in blurred
    BY <1>1 DEF IInv, CopiesKnown
  <2>2. \A r : r = del[d].snap[u] => Known(u, r)'
    BY <2>1, KnownStays
  <2> QED
    BY <1>1, <2>1, <2>2, Remembered DEF Known
<1>2. CASE DeleteBroadcast(d) /\ row[u] # "absent" /\ del'[d].snap[u] = row[u]
  <2>1. Known(u, row[u])
    BY DEF IInv, RowsKnown
  <2>2. \A r : r = row[u] => Known(u, r)'
    BY <2>1, KnownStays
  <2>3. row[u] = "PENDING" => u \in blurred'
    BY <1>2 DEF DeleteBroadcast
  <2> QED
    BY <1>2, <2>2, <2>3 DEF Known
<1>3. CASE DeleteOne(d, u) /\ Holds(d, u) /\ del'[d].snap[u] = "DELETED"
  <2>1. Known(u, "SENT") /\ u \in removed'
    BY <1>3 DEF IInv, CopiesKnown, DeleteOne
  <2>2. Known(u, "SENT")'
    BY <2>1, KnownStays
  <2> QED
    BY <1>3, <2>1, <2>2 DEF Known
<1> QED
    BY <1>1, <1>2, <1>3, Copied

\* What the rows do not say.
LEMMA MissingStep == IInv /\ TypeOK' /\ [Next]_vars => Missing'
<1> SUFFICES ASSUME IInv, TypeOK', [Next]_vars, NEW u \in Recipients
             PROVE  /\ row'[u] \in {"absent", "PENDING"} =>
                          NotThere(u)' \/ InFlight(u)' \/ u \in blurred'
                    /\ InFlight(u)' /\ send'.result[u] = "FAILED" => NotThere(u)'
    BY DEF Missing
<1> TypeOK
    BY DEF IInv
<1>0. Awaits(u) => received[u] = 0
    BY DEF IInv, SentOnce, Untouched
<1>1. NotThere(u) /\ ~(SendOne(u) \/ SendLost(u)) => NotThere(u)'
  <2>1. CASE ~\E o \in Recipients : SendOne(o) \/ SendLost(o)
    <3>1. CASE Elsewhere
      BY <3>1, ElsewhereEffect DEF NotThere
    <3>2. CASE ~Elsewhere
      <4>1. received' = received /\ unsure \subseteq unsure'
        BY <2>1, <3>2, Steps
        DEF StartBroadcast, NextBatch, UpdateStatuses, FinishBroadcast, InitializeMessages,
            SendingFails, WorkerDies, chats, history
      <4> QED
        BY <4>1 DEF NotThere
    <3> QED
      BY <3>1, <3>2
  <2>2. ASSUME NEW o \in Recipients \ {u}, SendOne(o) \/ SendLost(o), NotThere(u)
        PROVE  NotThere(u)'
    <3>1. received'[u] = received[u] /\ unsure \subseteq unsure'
      BY <2>2 DEF SendOne, SendLost, TypeOK, history
    <3> QED
      BY <2>2, <3>1 DEF NotThere
  <2> QED
    BY <2>1, <2>2
<1>2. InFlight(u)' /\ send'.result[u] = "FAILED" => NotThere(u)'
  <2> SUFFICES ASSUME InFlight(u)', send'.result[u] = "FAILED" PROVE NotThere(u)'
    OBVIOUS
  <2> USE DEF InFlight, SameSend
  <2>1. ASSUME NEW o \in Recipients, SendOne(o) \/ SendLost(o) PROVE NotThere(u)'
    <3>1. PICK r \in {"SENT", "FAILED"} :
             /\ send'.result = [send.result EXCEPT ![o] = r]
             /\ \/ SendOne(o) /\ unsure' = unsure
                   /\ received' = [received EXCEPT ![o] = IF r = "SENT" THEN @ + 1 ELSE @]
                \/ SendLost(o) /\ r = "FAILED" /\ unsure' = unsure \cup {o}
                   /\ received' = [received EXCEPT ![o] = @ + 1]
      BY <2>1, OneEffect
    <3>2. send.pc = "sending" /\ send'.batch = send.batch /\ Awaits(o)
      BY <2>1, OneEffect DEF Awaits
    <3>3. CASE o = u
      BY <1>0, <3>1, <3>2, <3>3 DEF NotThere, TypeOK, SendRecords
    <3>4. CASE o # u
      <4>1. send.result[u] = "FAILED" /\ InFlight(u)
        BY <3>1, <3>2, <3>4 DEF TypeOK, SendRecords
      <4>2. NotThere(u)
        BY <4>1 DEF IInv, Missing
      <4>3. received'[u] = received[u] /\ unsure \subseteq unsure'
        BY <3>1, <3>4 DEF TypeOK
      <4> QED
        BY <4>2, <4>3 DEF NotThere
    <3> QED
      BY <3>3, <3>4
  <2>2. CASE NextBatch
    BY <2>2, SendEffect
  <2>3. CASE Elsewhere
    <3>1. send' = send /\ received' = received /\ unsure' = unsure
      BY <2>3, ElsewhereEffect
    <3> QED
      BY <3>1 DEF IInv, Missing, NotThere
  <2>4. CASE StartBroadcast \/ UpdateStatuses \/ FinishBroadcast \/ SendingFails \/ WorkerDies
    BY <2>4, SendEffect
  <2>5. ASSUME NEW a \in SUBSET Recipients, InitializeMessages(a) PROVE FALSE
    BY <2>5, AudienceEffect
  <2> QED
    BY <2>1, <2>2, <2>3, <2>4, <2>5, Steps
<1>3. row'[u] \in {"absent", "PENDING"} => NotThere(u)' \/ InFlight(u)' \/ u \in blurred'
  <2> SUFFICES ASSUME row'[u] \in {"absent", "PENDING"}, u \notin blurred'
               PROVE  NotThere(u)' \/ InFlight(u)'
    OBVIOUS
  <2>0. u \notin blurred
    BY Remembered
  <2>1. CASE SendOne(u) \/ SendLost(u)
    BY <2>1, OneEffect DEF InFlight, Awaits
  <2>2. CASE NotThere(u) /\ ~(SendOne(u) \/ SendLost(u))
    BY <1>1, <2>2
  <2>3. CASE ~NotThere(u) /\ row[u] \notin {"absent", "PENDING"}
    <3>1. ASSUME NEW a \in SUBSET Recipients, InitializeMessages(a) PROVE FALSE
      <4>1. row[u] = "absent"
        BY <3>1, AudienceEffect DEF IInv, RowsPending
      <4> QED
        BY <2>3, <4>1
    <3>2. CASE UpdateStatuses
      BY <2>3, <3>2 DEF UpdateStatuses, BatchDone, TypeOK, SendRecords
    <3>3. ASSUME NEW d \in Deleters, RecordDeletions(d) PROVE FALSE
      <4>1. row'[u] = del[d].snap[u] /\ Holds(d, u)
        BY <2>3, <3>3 DEF RecordDeletions, Holds
      <4> QED
        BY <2>0, <4>1 DEF IInv, CopiesKnown
    <3>4. CASE row' = row
      BY <2>3, <3>4
    <3> QED
      BY <3>1, <3>2, <3>3, <3>4, Steps
      DEF StartBroadcast, NextBatch, FinishBroadcast, SendOne, SendLost, SendingFails,
          WorkerDies, Elsewhere, ReadForCancel, CancelBroadcast, DeleteBroadcast,
          DeletionFails, NextDeletion, FinishDeletion, DeleteOne, vars
  <2>4. CASE ~NotThere(u) /\ row[u] \in {"absent", "PENDING"}
    <3>1. InFlight(u) /\ send.result[u] = "SENT"
      <4>1. InFlight(u)
        BY <2>0, <2>4 DEF IInv, Missing
      <4>2. send.result[u] \in {"none", "SENT", "FAILED"}
        BY DEF TypeOK, SendRecords
      <4>3. send.result[u] # "none"
        BY <1>0, <2>4, <4>1 DEF Awaits, InFlight, NotThere
      <4>4. send.result[u] # "FAILED"
        BY <2>4, <4>1 DEF IInv, Missing
      <4> QED
        BY <4>1, <4>2, <4>3, <4>4
    <3>2. CASE UpdateStatuses
      BY <3>1, <3>2 DEF UpdateStatuses, InFlight
    <3>3. CASE SendingFails \/ WorkerDies
      <4>1. u \in Unrecorded
        BY <3>1 DEF Unrecorded, Sent, InFlight
      <4>2. unsure' = unsure \cup Unrecorded
        BY <3>3 DEF SendingFails, WorkerDies
      <4> QED
        BY <4>1, <4>2 DEF NotThere
    <3>4. CASE Elsewhere
      BY <3>1, <3>4, ElsewhereEffect DEF InFlight
    <3>5. ASSUME NEW o \in Recipients, SendOne(o) \/ SendLost(o) PROVE InFlight(u)'
      BY <3>1, <3>5, OneEffect DEF InFlight
    <3>6. CASE StartBroadcast
      BY <3>1, <3>6 DEF StartBroadcast, InFlight, IInv, CancelKept
    <3>7. CASE NextBatch \/ FinishBroadcast
      BY <3>1, <3>7, SendEffect DEF InFlight
    <3>8. ASSUME NEW a \in SUBSET Recipients, InitializeMessages(a) PROVE FALSE
      BY <3>1, <3>8, AudienceEffect DEF InFlight
    <3> QED
      BY <3>2, <3>3, <3>4, <3>5, <3>6, <3>7, <3>8, Steps
  <2> QED
    BY <2>1, <2>2, <2>3, <2>4
<1> QED
    BY <1>2, <1>3

\* What the answers say has happened.
LEMMA AnswerStep == IInv /\ TypeOK' /\ [Next]_vars => Answered'
<1> SUFFICES ASSUME IInv, TypeOK', [Next]_vars, NEW u \in Recipients,
                    InFlight(u)', send'.result[u] = "SENT"
             PROVE  received'[u] # 0
    BY DEF Answered
<1> TypeOK
    BY DEF IInv
<1> USE DEF InFlight, SameSend
<1>1. ASSUME NEW o \in Recipients, SendOne(o) \/ SendLost(o) PROVE received'[u] # 0
  <2>1. PICK r \in {"SENT", "FAILED"} :
           /\ send'.result = [send.result EXCEPT ![o] = r]
           /\ \/ SendOne(o) /\ unsure' = unsure
                 /\ received' = [received EXCEPT ![o] = IF r = "SENT" THEN @ + 1 ELSE @]
              \/ SendLost(o) /\ r = "FAILED" /\ unsure' = unsure \cup {o}
                 /\ received' = [received EXCEPT ![o] = @ + 1]
    BY <1>1, OneEffect
  <2>2. send.pc = "sending" /\ send'.batch = send.batch
    BY <1>1, OneEffect DEF Awaits
  <2>3. CASE o = u
    BY <2>1, <2>3 DEF TypeOK, SendRecords
  <2>4. CASE o # u
    <3>1. send.result[u] = "SENT" /\ received'[u] = received[u]
      BY <2>1, <2>4 DEF TypeOK, SendRecords
    <3> QED
      BY <2>2, <3>1 DEF IInv, Answered
  <2> QED
    BY <2>3, <2>4
<1>2. CASE NextBatch
    BY <1>2, SendEffect
<1>3. CASE Elsewhere
    BY <1>3, ElsewhereEffect DEF IInv, Answered
<1>4. CASE StartBroadcast \/ UpdateStatuses \/ FinishBroadcast \/ SendingFails \/ WorkerDies
    BY <1>4, SendEffect
<1>5. ASSUME NEW a \in SUBSET Recipients, InitializeMessages(a) PROVE FALSE
    BY <1>5, AudienceEffect
<1> QED
    BY <1>1, <1>2, <1>3, <1>4, <1>5, Steps

\* The status a cancel request has written stays for the sending task to read.
LEMMA CancelStep == IInv /\ TypeOK' /\ [Next]_vars => CancelKept'
<1> SUFFICES ASSUME IInv, TypeOK', [Next]_vars PROVE CancelKept'
    OBVIOUS
<1> TypeOK /\ CancelKept /\ (DeletionAsked => DeletionAsked')
    BY Asked DEF IInv
<1> USE DEF CancelKept
<1>1. CASE StartBroadcast
    BY <1>1, SendEffect DEF StartBroadcast, history
<1>2. ASSUME NEW a \in SUBSET Recipients, InitializeMessages(a) PROVE CancelKept'
    BY <1>2, AudienceEffect DEF InitializeMessages, history
<1>3. CASE NextBatch \/ UpdateStatuses
  <2>1. UNCHANGED <<status, canceled, cancel>>
    BY <1>3 DEF NextBatch, UpdateStatuses, history
  <2>2. send.pc \in {"check", "sending"} /\ send'.pc # "none" /\ send'.pc # "queued"
    BY <1>3, SendEffect
  <2> QED
    BY <2>1, <2>2
<1>4. ASSUME NEW o \in Recipients, SendOne(o) \/ SendLost(o) PROVE CancelKept'
  <2>1. UNCHANGED <<status, canceled, cancel>>
    BY <1>4 DEF SendOne, SendLost, history
  <2>2. send.pc = "sending" /\ send'.pc = "sending"
    BY <1>4, OneEffect DEF Awaits
  <2> QED
    BY <2>1, <2>2
<1>5. CASE FinishBroadcast
  <2>1. send'.pc = "ended" /\ status' # "none"
    BY <1>5, SendEffect DEF FinishBroadcast, TypeOK, SendRecords, Over
  <2> QED
    BY <2>1
<1>6. CASE SendingFails \/ WorkerDies
  <2>1. status' = status /\ send.pc # "none" /\ send'.pc \in {"stranded", "finish"}
    BY <1>6, SendEffect DEF SendingFails, WorkerDies, BatchDone
  <2> QED
    BY <2>1
<1>7. CASE Elsewhere
  <2>1. send' = send
    BY <1>7, ElsewhereEffect
  <2>6. send.pc = "none" => ~DeletionAsked'
    <3> SUFFICES ASSUME send.pc = "none" PROVE ~DeletionAsked'
      OBVIOUS
    <3>1. status = "none" /\ \A d \in Deleters : del[d].pc = "none"
      BY DEF DeletionAsked
    <3>2. del' = del
      BY <1>7, <3>1
      DEF Elsewhere, ReadForCancel, CancelBroadcast, DeleteBroadcast, DeletionFails,
          NextDeletion, RecordDeletions, FinishDeletion, DeleteOne, Over, vars
    <3> QED
      BY <3>1, <3>2 DEF DeletionAsked
  <2>2. CASE UNCHANGED <<status, canceled, cancel>>
    BY <2>1, <2>2, <2>6
  <2>3. CASE ReadForCancel
    BY <2>1, <2>3, <2>6 DEF ReadForCancel, history
  <2>4. CASE CancelBroadcast
    BY <2>1, <2>4, <2>6 DEF CancelBroadcast
  <2>5. ASSUME NEW d \in Deleters, FinishDeletion(d) PROVE CancelKept'
    <3>1. DeletionAsked'
      BY <2>5, DeletionEffect DEF DeletionAsked
    <3>2. send.pc # "none"
      <4>1. del[d].pc = "finish"
        BY <2>5 DEF FinishDeletion
      <4> QED
        BY <4>1 DEF DeletionAsked
    <3> QED
      BY <2>1, <2>5, <3>1, <3>2 DEF FinishDeletion, history
  <2> QED
    BY <1>7, <2>2, <2>3, <2>4, <2>5
    DEF Elsewhere, DeleteBroadcast, DeletionFails, NextDeletion, RecordDeletions, DeleteOne,
        vars, history
<1> QED
    BY <1>1, <1>2, <1>3, <1>4, <1>5, <1>6, <1>7, Steps

LEMMA Inductive == IInv /\ [Next]_vars => IInv'
<1> SUFFICES ASSUME IInv, [Next]_vars PROVE IInv'
    OBVIOUS
<1>1. TypeOK'
    BY TypeStep DEF IInv
<1> QED
    BY <1>1, OnceStep, PendingStep, StatsStep, RowsStep, CopiesStep, MissingStep, AnswerStep, CancelStep
    DEF IInv

\* Every reachable state satisfies the inductive invariant.
THEOREM Invariance == Spec => []IInv
    BY InitHolds, Inductive, PTL DEF Spec

-----------------------------------------------------------------------------
(* The properties *)

\* The variables keep their types.
THEOREM TypeCorrect == Spec => []TypeOK
<1>1. IInv => TypeOK
    BY DEF IInv
<1> QED
    BY <1>1, Invariance, PTL

\* Nobody gets the broadcast twice, whatever fails.
THEOREM OneMessageEachHolds == Spec => []OneMessageEach
<1>1. IInv => OneMessageEach
    BY DEF IInv, SentOnce
<1> QED
    BY <1>1, Invariance, PTL

\* The counters are the rows' until a deletion is asked for.
THEOREM StatsMatchRowsHolds == Spec => []StatsMatchRows
<1>1. IInv => StatsMatchRows
    BY DEF IInv
<1> QED
    BY <1>1, Invariance, PTL

\* A message that sits in a chat has a SENT row, by which it can be deleted.
THEOREM StillDeletableHolds == Spec => []StillDeletable
<1>1. IInv => StillDeletable
  <2> SUFFICES ASSUME IInv, NEW u \in Recipients \ (unsure \cup blurred),
                      InChat(u), ~(send.pc = "sending" /\ u \in send.batch)
               PROVE  row[u] = "SENT"
      BY DEF StillDeletable
  <2>1. received[u] # 0 /\ u \notin removed
      BY DEF InChat
  <2>2. ~NotThere(u) /\ ~InFlight(u)
      BY <2>1 DEF NotThere, InFlight
  <2>3. row[u] \in RowStates
      BY DEF IInv, TypeOK
  <2>4. row[u] \notin {"absent", "PENDING"}
      BY <2>2 DEF IInv, Missing
  <2>5. row[u] \notin {"FAILED", "DELETED"}
      BY <2>1, <2>2 DEF IInv, RowsKnown, Known
  <2> QED
      BY <2>3, <2>4, <2>5 DEF RowStates
<1> QED
    BY <1>1, Invariance, PTL

\* No batch is started after a cancel request, unless a deletion is asked for.
THEOREM CancelHoldsHolds == Spec => CancelHolds
<1> DEFINE Holding == send.pc = "check" /\ send'.pc = "sending" => ~canceled \/ DeletionAsked
<1>1. ASSUME IInv, [Next]_vars PROVE Holding
  <2> SUFFICES ASSUME send.pc = "check", send'.pc = "sending", canceled, ~DeletionAsked
               PROVE  FALSE
      OBVIOUS
  <2> TypeOK
      BY <1>1 DEF IInv
  <2>1. status = "CANCELED"
      BY <1>1 DEF IInv, CancelKept
  <2>2. CASE \/ StartBroadcast \/ NextBatch \/ UpdateStatuses \/ FinishBroadcast
             \/ SendingFails \/ WorkerDies
      BY <2>1, <2>2, SendEffect DEF SameSend
  <2>3. ASSUME NEW a \in SUBSET Recipients, InitializeMessages(a) PROVE FALSE
      BY <2>3, AudienceEffect
  <2>4. ASSUME NEW o \in Recipients, SendOne(o) \/ SendLost(o) PROVE FALSE
      BY <2>4, OneEffect DEF Awaits
  <2>5. CASE Elsewhere
      BY <2>5, ElsewhereEffect
  <2> QED
      BY <1>1, <2>2, <2>3, <2>4, <2>5, Steps
<1>2. IInv /\ [Next]_vars => [Holding]_vars
    BY <1>1
<1> QED
    BY <1>2, Invariance, PTL DEF CancelHolds, Spec

-----------------------------------------------------------------------------
(* Broadcast implements BroadcastPromise *)

LEMMA InitPromise == Init => Promise!PromiseInit
    BY DEF Init, Promise!PromiseInit, DeletionAsked, Awaits, ToCome

\* The promise's steps, in terms of the broadcast's state.
Awaiting == {u \in Recipients : Awaits(u)}
SameMessages == UNCHANGED <<received, removed>>
SameRequests == UNCHANGED <<canceled, DeletionAsked>>

LEMMA PromiseDefs ==
    /\ \A b \in SUBSET ToCome :
          /\ b \subseteq Recipients /\ Cardinality(b) <= BatchSize
          /\ Awaiting = {} /\ (canceled => DeletionAsked)
          /\ Awaiting' = b /\ ToCome' = ToCome \ b
          /\ SameMessages /\ SameRequests
          => Promise!PromiseNext
    /\ \A u \in Awaiting :
          /\ received[u] = 0 /\ received' = [received EXCEPT ![u] = 1] /\ removed' = removed
          /\ Awaiting' = Awaiting \ {u} /\ ToCome' = ToCome
          /\ SameRequests
          => Promise!PromiseNext
    /\ \A u \in Recipients :
          /\ DeletionAsked /\ received[u] = 1 /\ u \notin removed
          /\ removed' = removed \cup {u} /\ received' = received
          /\ Awaiting' = Awaiting /\ ToCome' = ToCome
          /\ SameRequests
          => Promise!PromiseNext
    /\ /\ Awaiting' \subseteq Awaiting /\ ToCome' \subseteq ToCome
       /\ SameMessages /\ SameRequests
       => Promise!PromiseNext
    /\ /\ Awaiting' = Awaiting /\ ToCome' = ToCome
       /\ SameMessages
       /\ \/ canceled' = TRUE /\ DeletionAsked' = DeletionAsked
          \/ DeletionAsked' = TRUE /\ canceled' = canceled
       => Promise!PromiseNext
<1> USE DEF SameMessages, SameRequests, Awaiting
<1>1. ASSUME NEW b \in SUBSET ToCome,
             b \subseteq Recipients, Cardinality(b) <= BatchSize,
             Awaiting = {}, canceled => DeletionAsked,
             Awaiting' = b, ToCome' = ToCome \ b, SameMessages, SameRequests
      PROVE  Promise!PromiseNext
  <2>1. b \in {c \in SUBSET Recipients : Cardinality(c) <= BatchSize}
    BY <1>1
  <2>2. Promise!TakeUp(b)
    BY <1>1, <2>1 DEF Promise!TakeUp, Promise!messages, Promise!requests
  <2> QED
    BY <2>1, <2>2 DEF Promise!PromiseNext
<1>2. ASSUME NEW u \in Awaiting,
             received[u] = 0, received' = [received EXCEPT ![u] = 1], removed' = removed,
             Awaiting' = Awaiting \ {u}, ToCome' = ToCome, SameRequests
      PROVE  Promise!PromiseNext
  <2>1. Promise!Deliver(u)
    BY <1>2 DEF Promise!Deliver, Promise!requests
  <2> QED
    BY <2>1 DEF Promise!PromiseNext
<1>3. ASSUME NEW u \in Recipients,
             DeletionAsked, received[u] = 1, u \notin removed,
             removed' = removed \cup {u}, received' = received,
             Awaiting' = Awaiting, ToCome' = ToCome, SameRequests
      PROVE  Promise!PromiseNext
  <2>1. Promise!Withdraw(u)
    BY <1>3 DEF Promise!Withdraw, Promise!reach, Promise!requests
  <2> QED
    BY <2>1 DEF Promise!PromiseNext
<1>4. ASSUME Awaiting' \subseteq Awaiting, ToCome' \subseteq ToCome, SameMessages, SameRequests
      PROVE  Promise!PromiseNext
    BY <1>4 DEF Promise!PromiseNext, Promise!PassOver, Promise!messages, Promise!requests
<1>5. ASSUME Awaiting' = Awaiting, ToCome' = ToCome, SameMessages,
             \/ canceled' = TRUE /\ DeletionAsked' = DeletionAsked
             \/ DeletionAsked' = TRUE /\ canceled' = canceled
      PROVE  Promise!PromiseNext
    BY <1>5 DEF Promise!PromiseNext, Promise!Request, Promise!reach, Promise!messages
<1> QED
    BY <1>1, <1>2, <1>3, <1>4, <1>5

LEMMA AskedSame == UNCHANGED del => DeletionAsked' = DeletionAsked
    BY DEF DeletionAsked

\* A step of the sending task other than a batch or an answer passes recipients
\* over, or is none of the promise's business.
LEMMA SendingPromise ==
    ASSUME IInv, [Next]_vars,
           \/ StartBroadcast \/ UpdateStatuses \/ FinishBroadcast \/ SendingFails \/ WorkerDies
           \/ \E a \in SUBSET Recipients : InitializeMessages(a)
    PROVE  Promise!PromiseNext
<1> TypeOK
    BY DEF IInv
<1> USE DEF SameSend, ToCome
<1>1. Awaiting' = {}
  <2>1. send'.pc # "sending"
    BY SendEffect, AudienceEffect
  <2> QED
    BY <2>1 DEF Awaiting, Awaits
<1>2. ToCome' \subseteq ToCome
  <2>1. CASE StartBroadcast
    BY <2>1, SendEffect DEF StartBroadcast, IInv, CancelKept
  <2>2. ASSUME NEW a \in SUBSET Recipients, InitializeMessages(a) PROVE ToCome' \subseteq ToCome
    BY <2>2, AudienceEffect
  <2>3. CASE UpdateStatuses \/ FinishBroadcast \/ SendingFails \/ WorkerDies
    BY <2>3, SendEffect
  <2> QED
    BY <2>1, <2>2, <2>3
<1>3. SameMessages /\ UNCHANGED canceled
    BY DEF StartBroadcast, InitializeMessages, UpdateStatuses, FinishBroadcast, SendingFails,
           WorkerDies, chats, history, SameMessages
<1>4. DeletionAsked' = DeletionAsked
  <2>1. CASE WorkerDies
    BY <2>1, DeathEffect DEF DeletionAsked
  <2>2. CASE ~WorkerDies
    BY <2>2, AskedSame
    DEF StartBroadcast, InitializeMessages, UpdateStatuses, FinishBroadcast, SendingFails
  <2> QED
    BY <2>1, <2>2
<1> QED
    BY <1>1, <1>2, <1>3, <1>4, PromiseDefs DEF SameRequests

\* The next batch is taken up, or the sending ends.
LEMMA BatchPromise ==
    ASSUME IInv, NextBatch
    PROVE  Promise!PromiseNext
<1> TypeOK
    BY DEF IInv
<1> USE DEF SameSend, ToCome
<1>1. SameMessages /\ SameRequests
    BY AskedSame DEF NextBatch, chats, history, SameMessages, SameRequests
<1>2. send.pc = "check" /\ Awaiting = {}
    BY SendEffect DEF Awaiting, Awaits
<1>3. CASE send'.pc = "finish"
  <2>1. Awaiting' = {} /\ ToCome' = {}
    BY <1>3 DEF Awaiting, Awaits
  <2> QED
    BY <1>1, <2>1, PromiseDefs
<1>4. CASE send'.pc = "sending"
  <2>1. /\ status # "CANCELED" /\ send'.batch \in SUBSET send.left
        /\ send'.left = send.left \ send'.batch
        /\ send'.result = [u \in Recipients |-> "none"]
    BY <1>4, SendEffect
  <2>2. send'.batch \subseteq Recipients
    BY <2>1 DEF TypeOK, SendRecords
  <2>3. Cardinality(send'.batch) <= BatchSize
    <3>1. PICK b \in Chunks(send.left) :
             send' = [send EXCEPT !.pc = "sending", !.batch = b, !.left = @ \ b,
                                  !.result = [u \in Recipients |-> "none"]]
      BY <1>4 DEF NextBatch, TypeOK, SendRecords
    <3>2. send'.batch = b
      BY <3>1 DEF TypeOK, SendRecords
    <3>3. Cardinality(send.left) \in Nat
      BY Counted DEF TypeOK, SendRecords
    <3> QED
      BY <3>2, <3>3, BroadcastAssumption DEF Chunks
  <2>4. canceled => DeletionAsked
    BY <1>2, <2>1 DEF IInv, CancelKept
  <2>5. Awaiting' = send'.batch
    BY <1>4, <2>1, <2>2 DEF Awaiting, Awaits
  <2>6. ToCome = send.left /\ ToCome' = send'.left
    BY <1>2, <1>4
  <2> QED
    BY <1>1, <1>2, <2>1, <2>2, <2>3, <2>4, <2>5, <2>6, PromiseDefs
<1> QED
    BY <1>3, <1>4, SendEffect

\* An answer: the message is delivered, or the recipient is passed over.
LEMMA AnswerPromise ==
    ASSUME IInv, NEW u \in Recipients, SendOne(u) \/ SendLost(u)
    PROVE  Promise!PromiseNext
<1> TypeOK
    BY DEF IInv
<1>1. removed' = removed /\ SameRequests
    BY AskedSame DEF SendOne, SendLost, history, SameRequests
<1>2. PICK r \in {"SENT", "FAILED"} :
         /\ send'.result = [send.result EXCEPT ![u] = r]
         /\ \/ SendOne(u) /\ unsure' = unsure
               /\ received' = [received EXCEPT ![u] = IF r = "SENT" THEN @ + 1 ELSE @]
            \/ SendLost(u) /\ r = "FAILED" /\ unsure' = unsure \cup {u}
               /\ received' = [received EXCEPT ![u] = @ + 1]
    BY OneEffect
<1>3. /\ Awaits(u) /\ send.pc = "sending" /\ send'.pc = "sending"
      /\ send'.left = send.left /\ send'.batch = send.batch
    BY OneEffect DEF Awaits
<1>4. Awaiting' = Awaiting \ {u} /\ u \in Awaiting
    BY <1>2, <1>3 DEF Awaiting, Awaits, TypeOK, SendRecords
<1>5. ToCome' = ToCome
    BY <1>3 DEF ToCome
<1>6. received[u] = 0
    BY <1>3 DEF IInv, SentOnce, Untouched
<1>7. \/ received' = [received EXCEPT ![u] = 1]
      \/ received' = received
    BY <1>2, <1>6 DEF TypeOK
<1> QED
    BY <1>1, <1>4, <1>5, <1>6, <1>7, PromiseDefs DEF SameMessages

\* A deletion is asked for once and for all, and takes back what arrived.
LEMMA DeletionPromise ==
    ASSUME IInv, [Next]_vars, NEW d \in Deleters,
           \/ DeleteBroadcast(d) \/ DeletionFails(d)
           \/ NextDeletion(d) \/ RecordDeletions(d) \/ FinishDeletion(d)
           \/ \E u \in Recipients : DeleteOne(d, u)
    PROVE  Promise!PromiseNext
<1> TypeOK
    BY DEF IInv
<1>1. UNCHANGED <<send, received, canceled>>
    BY DEF DeleteBroadcast, DeletionFails, NextDeletion, RecordDeletions, FinishDeletion,
           DeleteOne, chats, history
<1>2. Awaiting' = Awaiting /\ ToCome' = ToCome
    BY <1>1 DEF Awaiting, Awaits, ToCome
<1>3. DeletionAsked'
    BY DeletionEffect DEF DeletionAsked
<1>4. CASE DeleteBroadcast(d)
  <2>1. SameMessages
    BY <1>4 DEF DeleteBroadcast, chats, SameMessages
  <2> QED
    BY <1>1, <1>2, <1>3, <2>1, PromiseDefs
<1>5. CASE DeletionFails(d) \/ NextDeletion(d) \/ RecordDeletions(d) \/ FinishDeletion(d)
  <2>1. SameMessages
    BY <1>5 DEF DeletionFails, NextDeletion, RecordDeletions, FinishDeletion, chats, SameMessages
  <2> QED
    BY <1>1, <1>2, <1>3, <2>1, PromiseDefs
<1>6. ASSUME NEW u \in Recipients, DeleteOne(d, u) PROVE Promise!PromiseNext
  <2>1. /\ u \in del[d].batch /\ del[d].snap[u] = "SENT" /\ del[d].pc = "deleting"
        /\ u \notin removed /\ removed' = removed \cup {u}
    BY <1>6 DEF DeleteOne
  <2>2. Known(u, "SENT")
    BY <2>1 DEF IInv, CopiesKnown, Holds
  <2>3. received[u] = 1
    BY <2>2 DEF Known, IInv, SentOnce, OneMessageEach, TypeOK
  <2>4. DeletionAsked /\ SameRequests
    BY <1>1, <1>3, <2>1 DEF DeletionAsked, SameRequests
  <2> QED
    BY <1>1, <1>2, <2>1, <2>3, <2>4, PromiseDefs
<1> QED
    BY <1>4, <1>5, <1>6

LEMMA PromiseStep ==
    ASSUME IInv, [Next]_vars
    PROVE  \/ Promise!PromiseNext
           \/ UNCHANGED <<ToCome, Awaiting, received, removed, canceled, DeletionAsked>>
<1>1. CASE Elsewhere
  <2>1. CASE ReadForCancel \/ CancelBroadcast \/ UNCHANGED vars
    <3>1. Awaiting' = Awaiting /\ ToCome' = ToCome /\ SameMessages
          /\ DeletionAsked' = DeletionAsked
      BY <2>1, AskedSame
      DEF ReadForCancel, CancelBroadcast, vars, chats, Awaiting, Awaits, ToCome, SameMessages
    <3>2. canceled' = TRUE \/ canceled' = canceled
      BY <2>1 DEF ReadForCancel, CancelBroadcast, vars, history
    <3>3. CASE canceled' = TRUE
      BY <3>1, <3>3, PromiseDefs
    <3>4. CASE canceled' = canceled
      BY <3>1, <3>4 DEF SameMessages
    <3> QED
      BY <3>2, <3>3, <3>4
  <2>2. CASE ~(ReadForCancel \/ CancelBroadcast \/ UNCHANGED vars)
    BY <1>1, <2>2, DeletionPromise DEF Elsewhere
  <2> QED
    BY <2>1, <2>2
<1>2. CASE ~Elsewhere
    BY <1>2, Steps, SendingPromise, BatchPromise, AnswerPromise
<1> QED
    BY <1>1, <1>2

\* The broadcast keeps its promise: whatever interleaves, a recipient is taken up
\* once and gets one message or none, a cancel request stops the batches, and
\* only delivered messages are taken back.
THEOREM Implements == Spec => PromiseKept
<1>1. IInv /\ [Next]_vars =>
        [Promise!PromiseNext]_<<Promise!reach, Promise!messages, Promise!requests>>
  <2>1. UNCHANGED <<ToCome, Awaiting, received, removed, canceled, DeletionAsked>>
        => UNCHANGED <<Promise!reach, Promise!messages, Promise!requests>>
    BY DEF Awaiting, Promise!reach, Promise!messages, Promise!requests
  <2> QED
    BY <2>1, PromiseStep
<1> QED
    BY <1>1, InitPromise, Invariance, PTL DEF Spec, PromiseKept, Promise!PromiseSpec
=============================================================================
