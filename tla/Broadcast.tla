------------------------------ MODULE Broadcast ------------------------------
(***************************************************************************)
(* One broadcast: the worker task that sends it batch by batch, its        *)
(* cancellation, and the tasks that delete its messages from the chats.    *)
(* The tasks share one event loop, so they interleave at every await; they *)
(* meet in the broadcast's status and in the rows of its messages.         *)
(***************************************************************************)
EXTENDS Integers, FiniteSets

CONSTANTS
    Recipients,   \* users with a Telegram account
    BatchSize,    \* messages sent, or deleted, at a time
    Deleters,     \* deletion tasks administrators may start
    MaxCancels,   \* bound: cancel requests
    MaxFaults     \* bound: lost answers, database errors, worker deaths

ASSUME BroadcastAssumption ==
    /\ IsFiniteSet(Recipients)
    /\ BatchSize \in Nat \ {0}
    /\ MaxCancels \in Nat /\ MaxFaults \in Nat

VARIABLES
    status,     \* broadcasts.status
    row,        \* broadcast_messages.status; the message id is known if SENT
    stats,      \* total, success and failed count
    received,   \* messages Telegram has delivered to a recipient
    removed,    \* recipients whose message Telegram has deleted
    send,       \* the sending task
    del,        \* the deletion tasks
    cancel,     \* an administrator's cancel request
    canceled,   \* history: a cancel request has succeeded
    blurred,    \* history: recipients PENDING in the rows a deletion took along
    unsure,     \* history: recipients whose result a fault kept from the rows
    cancels, faults   \* counters of the bounded events

history == <<canceled, blurred, unsure>>
count   == <<cancels, faults>>
chats   == <<received, removed>>
vars    == <<status, row, stats, chats, send, del, cancel, history, count>>

RowStates == {"absent", "PENDING", "SENT", "FAILED", "DELETED"}
Over      == {"COMPLETED", "CANCELED", "ERROR"}

SendRecords ==
    [pc : {"none", "queued", "check", "sending", "finish", "ended", "stranded"},
     left : SUBSET Recipients, batch : SUBSET Recipients,
     result : [Recipients -> {"none", "SENT", "FAILED"}],
     verdict : Over]
DelRecords ==
    [pc : {"none", "queued", "deleting", "finish", "ended"},
     left : SUBSET Recipients, batch : SUBSET Recipients,
     snap : [Recipients -> RowStates]]

TypeOK ==
    /\ status \in {"none", "PROCESSING", "DELETED"} \cup Over
    /\ row \in [Recipients -> RowStates]
    /\ stats \in [total : Nat, success : Nat, failed : Nat]
    /\ received \in [Recipients -> Nat]
    /\ removed \subseteq Recipients
    /\ send \in SendRecords
    /\ del \in [Deleters -> DelRecords]
    /\ cancel \in {"idle", "write"}
    /\ canceled \in BOOLEAN
    /\ blurred \subseteq Recipients /\ unsure \subseteq Recipients
    /\ cancels \in Nat /\ faults \in Nat

Init ==
    /\ status = "none"
    /\ row = [u \in Recipients |-> "absent"]
    /\ stats = [total |-> 0, success |-> 0, failed |-> 0]
    /\ received = [u \in Recipients |-> 0]
    /\ removed = {}
    /\ send = [pc |-> "none", left |-> {}, batch |-> {},
               result |-> [u \in Recipients |-> "none"], verdict |-> "COMPLETED"]
    /\ del = [d \in Deleters |->
                [pc |-> "none", left |-> {}, batch |-> {}, snap |-> row]]
    /\ cancel = "idle"
    /\ canceled = FALSE /\ blurred = {} /\ unsure = {}
    /\ cancels = 0 /\ faults = 0

\* The next chunk of a list of recipients.
Chunks(left) ==
    {b \in SUBSET left :
        Cardinality(b) = IF Cardinality(left) < BatchSize
                         THEN Cardinality(left) ELSE BatchSize}

Fault == faults < MaxFaults /\ faults' = faults + 1

-----------------------------------------------------------------------------
(* The sending task *)

\* The broadcast is committed, then the task is queued.
StartBroadcast ==
    /\ status = "none"
    /\ status' = "PROCESSING"
    /\ send' = [send EXCEPT !.pc = "queued"]
    /\ UNCHANGED <<row, stats, chats, del, cancel, history, count>>

\* The audience is read and gets its rows; an empty one completes at once.
InitializeMessages(audience) ==
    /\ send.pc = "queued"
    /\ IF audience = {}
       THEN /\ send' = [send EXCEPT !.pc = "finish", !.verdict = "COMPLETED"]
            /\ UNCHANGED <<row, stats>>
       ELSE /\ send' = [send EXCEPT !.pc = "check", !.left = audience]
            /\ row' = [u \in Recipients |-> IF u \in audience THEN "PENDING" ELSE row[u]]
            /\ stats' = [stats EXCEPT !.total = Cardinality(audience)]
    /\ UNCHANGED <<status, chats, del, cancel, history, count>>

NextBatch_Unchecked ==                      \* mutant: the status is not read again
    /\ send.pc = "check"
    /\ \/ /\ send.left = {}
          /\ send' = [send EXCEPT !.pc = "finish", !.verdict = "COMPLETED"]
       \/ /\ send.left # {}
          /\ \E b \in Chunks(send.left) :
                send' = [send EXCEPT !.pc = "sending", !.batch = b, !.left = @ \ b,
                                     !.result = [u \in Recipients |-> "none"]]
    /\ UNCHANGED <<status, row, stats, chats, del, cancel, history, count>>

\* Before every batch the status is read: CANCELED ends the sending.
NextBatch ==
    /\ send.pc = "check"
    /\ \/ /\ send.left = {}
          /\ send' = [send EXCEPT !.pc = "finish", !.verdict = "COMPLETED"]
       \/ /\ send.left # {} /\ status = "CANCELED"
          /\ send' = [send EXCEPT !.pc = "finish", !.verdict = "CANCELED"]
       \/ /\ send.left # {} /\ status # "CANCELED"
          /\ \E b \in Chunks(send.left) :
                send' = [send EXCEPT !.pc = "sending", !.batch = b, !.left = @ \ b,
                                     !.result = [u \in Recipients |-> "none"]]
    /\ UNCHANGED <<status, row, stats, chats, del, cancel, history, count>>

Awaits(u) == send.pc = "sending" /\ u \in send.batch /\ send.result[u] = "none"

\* Telegram delivers the message or refuses it. After a flood wait the send is
\* simply repeated.
SendOne(u) ==
    /\ Awaits(u)
    /\ \E r \in {"SENT", "FAILED"} :
          /\ send' = [send EXCEPT !.result[u] = r]
          /\ received' = [received EXCEPT ![u] = IF r = "SENT" THEN @ + 1 ELSE @]
    /\ UNCHANGED <<status, row, stats, removed, del, cancel, history, count>>

SendLost_Retried(u) ==                      \* mutant: any error is tried again
    /\ Awaits(u)
    /\ Fault
    /\ received' = [received EXCEPT ![u] = @ + 1]
    /\ unsure' = unsure \cup {u}
    /\ UNCHANGED <<status, row, stats, removed, send, del, cancel, canceled, blurred, cancels>>

\* The message is delivered but the answer is lost: it counts as failed.
SendLost(u) ==
    /\ Awaits(u)
    /\ Fault
    /\ send' = [send EXCEPT !.result[u] = "FAILED"]
    /\ received' = [received EXCEPT ![u] = @ + 1]
    /\ unsure' = unsure \cup {u}
    /\ UNCHANGED <<status, row, stats, removed, del, cancel, canceled, blurred, cancels>>

BatchDone == send.pc = "sending" /\ \A u \in send.batch : send.result[u] # "none"
Sent(r)   == {u \in send.batch : send.result[u] = r}

UpdateStatuses_Miscounted ==                \* mutant: failures count as sent
    /\ BatchDone
    /\ row' = [u \in Recipients |->
                 IF u \in send.batch THEN send.result[u] ELSE row[u]]
    /\ stats' = [stats EXCEPT !.success = @ + Cardinality(send.batch)]
    /\ send' = [send EXCEPT !.pc = "check"]
    /\ UNCHANGED <<status, chats, del, cancel, history, count>>

\* The results of a batch and the counters, in one transaction.
UpdateStatuses ==
    /\ BatchDone
    /\ row' = [u \in Recipients |->
                 IF u \in send.batch THEN send.result[u] ELSE row[u]]
    /\ stats' = [stats EXCEPT !.success = @ + Cardinality(Sent("SENT")),
                              !.failed  = @ + Cardinality(Sent("FAILED"))]
    /\ send' = [send EXCEPT !.pc = "check"]
    /\ UNCHANGED <<status, chats, del, cancel, history, count>>

\* The verdict is written whatever the status has become.
FinishBroadcast ==
    /\ send.pc = "finish"
    /\ status' = send.verdict
    /\ send' = [send EXCEPT !.pc = "ended"]
    /\ UNCHANGED <<row, stats, chats, del, cancel, history, count>>

\* Delivered results that a fault keeps from the rows.
Unrecorded == IF send.pc = "sending" THEN Sent("SENT") ELSE {}

SendingFails_Uncaught ==                    \* mutant: nobody writes ERROR
    /\ send.pc \in {"queued", "check", "finish"} \/ BatchDone
    /\ Fault
    /\ unsure' = unsure \cup Unrecorded
    /\ send' = [send EXCEPT !.pc = "ended"]
    /\ UNCHANGED <<status, row, stats, chats, del, cancel, canceled, blurred, cancels>>

\* A database error: the broadcast finishes with ERROR, and if that fails too
\* it stays as it is.
SendingFails ==
    /\ send.pc \in {"queued", "check", "finish"} \/ BatchDone
    /\ Fault
    /\ unsure' = unsure \cup Unrecorded
    /\ send' = IF send.pc = "finish" /\ send.verdict = "ERROR"
               THEN [send EXCEPT !.pc = "stranded"]
               ELSE [send EXCEPT !.pc = "finish", !.verdict = "ERROR"]
    /\ UNCHANGED <<status, row, stats, chats, del, cancel, canceled, blurred, cancels>>

\* The worker dies, or the task was never queued: a task is acknowledged when
\* it is received, so it is not run again.
WorkerDies ==
    /\ send.pc \in {"queued", "check", "sending", "finish"}
    /\ Fault
    /\ unsure' = unsure \cup Unrecorded
    /\ send' = [send EXCEPT !.pc = "stranded"]
    /\ del' = [d \in Deleters |->
                 IF del[d].pc = "none" THEN del[d] ELSE [del[d] EXCEPT !.pc = "ended"]]
    /\ UNCHANGED <<status, row, stats, chats, cancel, canceled, blurred, cancels>>

-----------------------------------------------------------------------------
(* Cancellation *)

\* The status is checked ...
ReadForCancel ==
    /\ cancel = "idle"
    /\ cancels < MaxCancels
    /\ status = "PROCESSING"
    /\ cancel' = "write"
    /\ cancels' = cancels + 1
    /\ UNCHANGED <<status, row, stats, chats, send, del, history, faults>>

\* ... and written: an UPDATE without a condition on it.
CancelBroadcast ==
    /\ cancel = "write"
    /\ status' = "CANCELED"
    /\ cancel' = "idle"
    /\ canceled' = TRUE
    /\ UNCHANGED <<row, stats, chats, send, del, blurred, unsure, count>>

-----------------------------------------------------------------------------
(* Deletion *)

\* The dialog offers it once the broadcast is over. The rows of that moment go
\* with the task.
DeleteBroadcast(d) ==
    /\ del[d].pc = "none"
    /\ status \in Over
    /\ del' = [del EXCEPT ![d] = [pc |-> "queued", batch |-> {}, snap |-> row,
                                  left |-> {u \in Recipients : row[u] # "absent"}]]
    /\ blurred' = blurred \cup {u \in Recipients : row[u] = "PENDING"}
    /\ UNCHANGED <<status, row, stats, chats, send, cancel, canceled, unsure, count>>

NextDeletion(d) ==
    /\ del[d].pc = "queued"
    /\ IF del[d].left = {}
       THEN del' = [del EXCEPT ![d].pc = "finish"]
       ELSE \E b \in Chunks(del[d].left) :
               del' = [del EXCEPT ![d].pc = "deleting", ![d].batch = b, ![d].left = @ \ b]
    /\ UNCHANGED <<status, row, stats, chats, send, cancel, history, count>>

\* Telegram deletes a message that is there, or refuses.
DeleteOne(d, u) ==
    /\ del[d].pc = "deleting"
    /\ u \in del[d].batch
    /\ del[d].snap[u] = "SENT"
    /\ u \notin removed
    /\ removed' = removed \cup {u}
    /\ del' = [del EXCEPT ![d].snap[u] = "DELETED"]
    /\ UNCHANGED <<status, row, stats, received, send, cancel, history, count>>

RecordDeletions_All(d) ==                   \* mutant: every message is marked DELETED
    /\ del[d].pc = "deleting"
    /\ row' = [u \in Recipients |-> IF u \in del[d].batch THEN "DELETED" ELSE row[u]]
    /\ del' = [del EXCEPT ![d].pc = "queued"]
    /\ UNCHANGED <<status, stats, chats, send, cancel, history, count>>

\* The batch is written back: what the task took along, with what it deleted.
RecordDeletions(d) ==
    /\ del[d].pc = "deleting"
    /\ row' = [u \in Recipients |->
                 IF u \in del[d].batch THEN del[d].snap[u] ELSE row[u]]
    /\ del' = [del EXCEPT ![d].pc = "queued"]
    /\ UNCHANGED <<status, stats, chats, send, cancel, history, count>>

FinishDeletion(d) ==
    /\ del[d].pc = "finish"
    /\ status' = "DELETED"
    /\ del' = [del EXCEPT ![d].pc = "ended"]
    /\ UNCHANGED <<row, stats, chats, send, cancel, history, count>>

\* An error ends the task; the status is left and deletion can be asked again.
DeletionFails(d) ==
    /\ del[d].pc \in {"queued", "deleting", "finish"}
    /\ Fault
    /\ del' = [del EXCEPT ![d].pc = "ended"]
    /\ UNCHANGED <<status, row, stats, chats, send, cancel, history, cancels>>

-----------------------------------------------------------------------------
Sending ==
    \/ \E a \in SUBSET Recipients : InitializeMessages(a)
    \/ NextBatch
    \/ \E u \in Recipients : SendOne(u)
    \/ UpdateStatuses
    \/ FinishBroadcast

Deleting(d) ==
    \/ NextDeletion(d)
    \/ \E u \in Recipients : DeleteOne(d, u)
    \/ RecordDeletions(d)
    \/ FinishDeletion(d)

Next ==
    \/ StartBroadcast
    \/ Sending
    \/ \E u \in Recipients : SendLost(u)
    \/ SendingFails
    \/ WorkerDies
    \/ ReadForCancel \/ CancelBroadcast
    \/ \E d \in Deleters : DeleteBroadcast(d) \/ Deleting(d) \/ DeletionFails(d)

Spec == Init /\ [][Next]_vars

\* The event loop runs a task that has been received to its end.
FairSpec == Spec /\ WF_vars(Sending) /\ \A d \in Deleters : WF_vars(Deleting(d))

-----------------------------------------------------------------------------
(* Properties *)

DeletionAsked == \E d \in Deleters : del[d].pc # "none"
InChat(u)     == received[u] # 0 /\ u \notin removed

\* Nobody gets a broadcast twice, whatever answers are lost and however often a
\* send is repeated after a flood wait (send_one).
OneMessageEach == \A u \in Recipients : received[u] <= 1

\* Until a deletion is asked for, the counters the administrator is shown are
\* the rows', also when batches fail or the sending dies.
StatsMatchRows ==
    ~DeletionAsked =>
        /\ stats.success = Cardinality({u \in Recipients : row[u] = "SENT"})
        /\ stats.failed = Cardinality({u \in Recipients : row[u] = "FAILED"})

\* Between batches, a message that sits in a chat has a SENT row, so that it
\* can still be deleted, unless a fault kept its result from the database or a
\* deletion took the row along while it was PENDING.
StillDeletable ==
    \A u \in Recipients \ (unsure \cup blurred) :
        InChat(u) /\ ~(send.pc = "sending" /\ u \in send.batch) => row[u] = "SENT"

\* After a cancel request no further batch is started, as long as nobody asks
\* for the deletion of the canceled broadcast.
CancelHolds ==
    [][send.pc = "check" /\ send'.pc = "sending" => ~canceled \/ DeletionAsked]_vars

\* Broadcast implements BroadcastPromise. Until the audience is read anybody may
\* be of it; a sending that has ended reaches nobody.
ToCome ==
    IF send.pc \in {"none", "queued"} THEN Recipients
    ELSE IF send.pc \in {"check", "sending"} THEN send.left ELSE {}
Promise == INSTANCE BroadcastPromise WITH
    Batches <- {b \in SUBSET Recipients : Cardinality(b) <= BatchSize},
    later <- ToCome, now <- {u \in Recipients : Awaits(u)},
    withdrawn <- removed, asked <- DeletionAsked

\* However the sending, a cancel request, deletions, lost answers and deaths of
\* the worker interleave (send_broadcast_task, delete_broadcast_task): a
\* recipient is taken up once and gets one message or none; no batch is started
\* after a cancel request unless a deletion is asked for; and a deletion takes
\* back only what was delivered.
PromiseKept == Promise!PromiseSpec

\* A broadcast is over at some time, unless its task was lost to a fault.
BroadcastEnds ==
    status = "PROCESSING" ~> status # "PROCESSING" \/ send.pc = "stranded"

\* A cancel request stops the sending after the batch in flight: "so a cancel
\* request stops sending promptly" (broadcast.py 113-114). The deletion of the
\* canceled broadcast overwrites the status the sending task looks for.
CancelStopsSending ==
    [][send.pc = "check" /\ send'.pc = "sending" => ~canceled]_vars

\* A broadcast marked DELETED has left the chats: a deletion that fails "must
\* not falsely claim the Telegram messages were removed" (lifecycle.py 86-88).
DeletedMeansRemoved ==
    status = "DELETED" => \A u \in Recipients : row[u] = "SENT" => u \in removed
=============================================================================
