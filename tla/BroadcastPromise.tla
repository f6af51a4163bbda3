--------------------------- MODULE BroadcastPromise ---------------------------
(***************************************************************************)
(* What a broadcast promises its recipients and the administrator, without *)
(* rows, counters, statuses or tasks: a recipient is taken up in a batch   *)
(* once and gets the message once or not at all; after a cancel request    *)
(* only the batch in hand goes on, until a deletion is asked for; and only *)
(* a message that was delivered is taken back, once, and on request.       *)
(* Broadcast implements it.                                                *)
(***************************************************************************)
EXTENDS Integers

CONSTANTS Recipients,
          Batches     \* sets of recipients that fit into one batch

VARIABLES later,      \* who may be taken up in a batch still to come
          now,        \* who of the batch in hand is still to be answered
          received,   \* the messages a recipient has got
          withdrawn,  \* whose message has been taken back
          canceled,   \* a cancel request has succeeded
          asked       \* a deletion has been asked for

reach    == <<later, now>>
messages == <<received, withdrawn>>
requests == <<canceled, asked>>

PromiseInit ==
    /\ later = Recipients /\ now = {}
    /\ received = [u \in Recipients |-> 0] /\ withdrawn = {}
    /\ canceled = FALSE /\ asked = FALSE

\* The next batch, when the last one is done and no cancel request holds it up.
TakeUp(b) ==
    /\ now = {} /\ b \subseteq later /\ b \in Batches
    /\ canceled => asked
    /\ now' = b /\ later' = later \ b
    /\ UNCHANGED <<messages, requests>>

Deliver(u) ==
    /\ u \in now /\ received[u] = 0
    /\ received' = [received EXCEPT ![u] = 1]
    /\ now' = now \ {u}
    /\ UNCHANGED <<later, withdrawn, requests>>

\* Who is not of the audience, who refuses, and those an end of the sending
\* leaves out are passed over for good.
PassOver ==
    /\ now' \subseteq now /\ later' \subseteq later
    /\ UNCHANGED <<messages, requests>>

Request ==
    /\ \/ canceled' = TRUE /\ asked' = asked
       \/ asked' = TRUE /\ canceled' = canceled
    /\ UNCHANGED <<reach, messages>>

Withdraw(u) ==
    /\ asked /\ received[u] = 1 /\ u \notin withdrawn
    /\ withdrawn' = withdrawn \cup {u}
    /\ UNCHANGED <<reach, received, requests>>

PromiseNext ==
    \/ \E b \in Batches : TakeUp(b)
    \/ \E u \in Recipients : Deliver(u) \/ Withdraw(u)
    \/ PassOver \/ Request

PromiseSpec == PromiseInit /\ [][PromiseNext]_<<reach, messages, requests>>
=============================================================================
