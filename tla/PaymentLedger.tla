---------------------------- MODULE PaymentLedger ----------------------------
(***************************************************************************)
(* What the payment machinery promises, whatever happens at the gateway,   *)
(* on the stream and in the workers: the statuses a payment may go         *)
(* through, and that it is fulfilled at most once and only after it was    *)
(* confirmed. Payments implements it.                                      *)
(***************************************************************************)
CONSTANT Payments

VARIABLES status,      \* the status a payment is recorded with
          fulfilled,   \* the payments whose purchase has been committed
          tests        \* the payments that buy nothing

LedgerInit ==
    /\ status = [p \in Payments |-> "NONE"]
    /\ fulfilled = {} /\ tests = {}

\* A payment moves to a status from one of those given.
Move(p, from, to) ==
    /\ status[p] \in from
    /\ status' = [status EXCEPT ![p] = to]
    /\ UNCHANGED fulfilled

\* Whether a payment buys something is settled when it is opened.
Open(p)    == Move(p, {"NONE"}, "PENDING") /\ tests' \in {tests, tests \cup {p}}
Confirm(p) == /\ p \notin fulfilled
              /\ Move(p, {"PENDING", "FAILED"}, "COMPLETED")
              /\ UNCHANGED tests
Refund(p)  == Move(p, {"COMPLETED"}, "REFUNDED") /\ UNCHANGED tests

\* Several pending payments may be cancelled at once, never any other.
Cancel(S) ==
    /\ S # {}
    /\ \A p \in S : status[p] = "PENDING"
    /\ status' = [p \in Payments |-> IF p \in S THEN "CANCELED" ELSE status[p]]
    /\ UNCHANGED <<fulfilled, tests>>

\* A confirmed payment ends in a purchase or in FAILED. A refund that arrives
\* in between stops neither.
Deliverable(p) ==
    p \notin fulfilled \cup tests /\ status[p] \in {"COMPLETED", "REFUNDED"}

Fulfil(p) ==
    /\ Deliverable(p)
    /\ fulfilled' = fulfilled \cup {p}
    /\ UNCHANGED <<status, tests>>

Fail(p) == /\ Deliverable(p)
           /\ Move(p, {"COMPLETED", "REFUNDED"}, "FAILED")
           /\ UNCHANGED tests

LedgerNext ==
    \/ \E p \in Payments : Open(p) \/ Confirm(p) \/ Refund(p) \/ Fulfil(p) \/ Fail(p)
    \/ \E S \in SUBSET Payments : Cancel(S)

LedgerSpec == LedgerInit /\ [][LedgerNext]_<<status, fulfilled, tests>>
=============================================================================
