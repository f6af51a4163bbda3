------------------------------ MODULE Payments ------------------------------
(***************************************************************************)
(* The life of a payment: the order a buyer opens, the invoice at the      *)
(* payment gateway, the webhook and the task stream that carry the         *)
(* gateway's verdict, the runs of ProcessPayment that apply it, the        *)
(* purchase (panel call, then database commit) a confirmed payment leads   *)
(* to, and the half-hourly cancellation of old orders.                     *)
(*                                                                         *)
(* Database transactions are READ COMMITTED and a run keeps what it read   *)
(* in memory, so every await between two of them is a step of its own.     *)
(* Stream messages are acknowledged on receipt: a worker that dies takes   *)
(* its task with it.                                                       *)
(***************************************************************************)
EXTENDS Integers, FiniteSets

CONSTANTS
    Payments,   \* the payments that can ever be opened
    Users,      \* the buyers
    Owner,      \* the buyer of each payment
    Free,       \* payments priced at zero: no gateway, confirmed by the buyer
    TrialUsers, \* buyers who start with a trial subscription
    Runs,       \* slots for concurrent runs of ProcessPayment
    NoRow,      \* "no subscription row"
    MaxFaults,  \* bound: webhooks swallowed plus runs killed
    MaxResends, \* bound: notifications a gateway repeats after a 200
    MaxGrants   \* bound: one-time discounts an administrator grants

ASSUME PaymentsAssumption ==
    /\ Owner \in [Payments -> Users]
    /\ Free \subseteq Payments
    /\ TrialUsers \subseteq Users
    /\ Payments \cap Users = {}
    /\ NoRow \notin Payments \cup Users
    /\ MaxFaults \in Nat /\ MaxResends \in Nat /\ MaxGrants \in Nat

TransactionStatus == {"PENDING", "COMPLETED", "CANCELED", "REFUNDED", "FAILED"}
Verdicts          == {"COMPLETED", "CANCELED", "REFUNDED"}
PurchaseType      == {"NEW", "RENEW", "CHANGE"}

\* A subscription row is named after what created it: the payment whose
\* purchase inserted it, or the buyer whose trial it was from the start.
Rows == Payments \cup Users

VARIABLES
    status,   \* transactions.status, "NONE" before the row exists
    kind,     \* the purchase type the buyer picked, kept in the dialog, or
              \* "TEST" (transactions.is_test)
    grantOf,  \* the one-time discount the price was computed with, 0: none
    invoice,  \* the gateway's own view of the payment
    hooks,    \* notifications the gateway still has to get a 200 for
    queue,    \* messages of the task stream not yet received
    run,      \* the ProcessPayment runs in progress
    rows,     \* the subscriptions table
    current,  \* users.current_subscription_id
    panel,    \* paid periods of the buyer's panel user, 0: no such user
    discount, \* users.purchase_discount: number of the grant, 0: none
    credit,   \* history: the row a payment's purchase was committed to
    stale,    \* history: buyers for whom a purchase committed a stale read
    lost,     \* history: payments hit by a fault
    faults, resends, grants   \* counters of the bounded events

order == <<status, kind, grantOf>>
world == <<invoice, hooks, queue>>
subs  == <<rows, current, panel, discount>>
past  == <<credit, stale, lost>>
count == <<faults, resends, grants>>
vars  == <<order, world, run, subs, past, count>>

Idle == [pc |-> "idle"]
\* What a run holds in memory: the payment, the verdict it applies, and what
\* it read: the current row with its periods and trial mark, the discount.
BusyRuns ==
    [pc : {"transition", "read", "panel", "commit", "fail", "reward"},
     p : Payments, verdict : Verdicts,
     row : Rows \cup {NoRow}, periods : Nat, trial : BOOLEAN, disc : BOOLEAN]
RunStates == {Idle} \cup BusyRuns

\* The payments of the "test this gateway" button.
Test == {p \in Payments : kind[p] = "TEST"}

Busy(w)       == run[w].pc # "idle"
\* Runs that were allowed to deliver payment p and have not finished with it.
Purchasing(w) == run[w].pc \in {"read", "panel", "commit", "fail"}
Delivering(p) == {w \in Runs : Purchasing(w) /\ run[w].p = p}

TypeOK ==
    /\ status   \in [Payments -> TransactionStatus \cup {"NONE"}]
    /\ kind     \in [Payments -> PurchaseType \cup {"NONE", "TEST"}]
    /\ grantOf  \in [Payments -> Nat]
    /\ invoice  \in [Payments -> {"none", "open", "paid", "void", "refunded"}]
    /\ hooks    \subseteq Payments \X Verdicts
    /\ queue    \subseteq Payments \X Verdicts
    /\ run      \in [Runs -> RunStates]
    /\ rows     \in [Rows -> [state : {"absent", "live", "deleted"},
                              trial : BOOLEAN, periods : Nat]]
    /\ current  \in [Users -> Rows \cup {NoRow}]
    /\ panel    \in [Users -> Nat]
    /\ discount \in [Users -> Nat]
    /\ credit   \in [Payments -> Rows \cup {NoRow}]
    /\ stale    \subseteq Users
    /\ lost     \subseteq Payments
    /\ faults \in Nat /\ resends \in Nat /\ grants \in Nat

Init ==
    /\ status  = [p \in Payments |-> "NONE"]
    /\ kind    = [p \in Payments |-> "NONE"]
    /\ grantOf = [p \in Payments |-> 0]
    /\ invoice = [p \in Payments |-> "none"]
    /\ hooks   = {} /\ queue = {}
    /\ run     = [w \in Runs |-> Idle]
    /\ rows    = [r \in Rows |->
                    IF r \in TrialUsers
                    THEN [state |-> "live", trial |-> TRUE, periods |-> 1]
                    ELSE [state |-> "absent", trial |-> FALSE, periods |-> 0]]
    /\ current = [u \in Users |-> IF u \in TrialUsers THEN u ELSE NoRow]
    /\ panel   = [u \in Users |-> IF u \in TrialUsers THEN 1 ELSE 0]
    /\ discount = [u \in Users |-> 0]
    /\ credit  = [p \in Payments |-> NoRow]
    /\ stale = {} /\ lost = {}
    /\ faults = 0 /\ resends = 0 /\ grants = 0

-----------------------------------------------------------------------------
(* Orders *)

\* The purchase types the menus offer, given the buyer's current row: a buyer
\* on a trial sees NEW in the bot, CHANGE and RENEW on the web.
Offered(u) ==
    IF current[u] = NoRow THEN {"NEW"}
    ELSE IF rows[current[u]].trial THEN PurchaseType
    ELSE {"RENEW", "CHANGE"}

\* The type is picked from a menu and kept while the buyer chooses a plan, so
\* it may no longer fit the current row when the payment is created.
ChoosePurchaseType(p, k) ==
    /\ kind[p] = "NONE"
    /\ k \in Offered(Owner[p])
    /\ kind' = [kind EXCEPT ![p] = k]
    /\ UNCHANGED <<status, grantOf, world, run, subs, past, count>>

\* The transaction row, priced with the discount the buyer has right now.
OpenTransaction(p) ==
    /\ status[p] = "NONE"
    /\ status' = [status EXCEPT ![p] = "PENDING"]
    /\ grantOf' = [grantOf EXCEPT ![p] = discount[Owner[p]]]

\* A payment that costs something: the gateway opens an invoice, then the row
\* is inserted; the buyer sees the payment link only after both.
CreatePayment(p) ==
    /\ p \notin Free
    /\ kind[p] # "NONE"
    /\ OpenTransaction(p)
    /\ invoice' = [invoice EXCEPT ![p] = "open"]
    /\ UNCHANGED <<kind, hooks, queue, run, subs, past, count>>

\* A free order. (When the buyer has a pending one of the last 15 minutes for
\* the same offer the request returns that one and changes nothing. Two
\* requests may both find none, and an older order is never reused, so a
\* pending order never rules out a second.)
CreateFreePayment(p) ==
    /\ p \in Free
    /\ kind[p] # "NONE"
    /\ OpenTransaction(p)
    /\ UNCHANGED <<kind, world, run, subs, past, count>>

\* An administrator's trial of a gateway: fixed price, no discount.
CreateTestPayment(p) ==
    /\ p \notin Free
    /\ kind[p] = "NONE" /\ status[p] = "NONE"
    /\ status'  = [status EXCEPT ![p] = "PENDING"]
    /\ kind'    = [kind EXCEPT ![p] = "TEST"]
    /\ invoice' = [invoice EXCEPT ![p] = "open"]
    /\ UNCHANGED <<grantOf, hooks, queue, run, subs, past, count>>

\* The maintenance task: one UPDATE over every order still pending after 30
\* minutes. Clocks are left out: any set of pending orders may be the old ones.
CancelOldTransactions_AnyStatus ==          \* mutant: the WHERE on status is lost
    \E old \in SUBSET {p \in Payments : status[p] # "NONE"} :
        /\ old # {}
        /\ status' = [p \in Payments |->
                        IF p \in old THEN "CANCELED" ELSE status[p]]
        /\ UNCHANGED <<kind, grantOf, world, run, subs, past, count>>

CancelOldTransactions ==
    \E old \in SUBSET {p \in Payments : status[p] = "PENDING"} :
        /\ old # {}
        /\ status' = [p \in Payments |->
                        IF p \in old THEN "CANCELED" ELSE status[p]]
        /\ UNCHANGED <<kind, grantOf, world, run, subs, past, count>>

\* An administrator sets the buyer's discount on the next purchase.
SetUserPurchaseDiscount(u) ==
    /\ grants < MaxGrants
    /\ grants' = grants + 1
    /\ discount' = [discount EXCEPT ![u] = grants + 1]
    /\ UNCHANGED <<order, world, run, rows, current, panel, past, faults, resends>>

-----------------------------------------------------------------------------
(* The gateway, the webhook endpoint and the task stream *)

\* The gateway knows nothing of the 30 minutes: an invoice stays payable.
GatewayDecides(p, from, to, verdict) ==
    /\ invoice[p] = from
    /\ invoice' = [invoice EXCEPT ![p] = to]
    /\ hooks' = hooks \cup {<<p, verdict>>}
    /\ UNCHANGED <<order, queue, run, subs, past, count>>

BuyerPays(p)      == GatewayDecides(p, "open", "paid", "COMPLETED")
InvoiceExpires(p) == GatewayDecides(p, "open", "void", "CANCELED")
GatewayRefunds(p) == GatewayDecides(p, "paid", "refunded", "REFUNDED")

\* A gateway that missed our 200 sends a notification again, however late.
GatewayResends(p, verdict) ==
    /\ resends < MaxResends
    /\ \/ verdict = "COMPLETED" /\ invoice[p] \in {"paid", "refunded"}
       \/ verdict = "CANCELED"  /\ invoice[p] = "void"
       \/ verdict = "REFUNDED"  /\ invoice[p] = "refunded"
    /\ resends' = resends + 1
    /\ hooks' = hooks \cup {<<p, verdict>>}
    /\ UNCHANGED <<order, invoice, queue, run, subs, past, faults, grants>>

\* The endpoint queues the task and answers 200. (When queueing fails it
\* answers 503 and nothing changes: the gateway will call again.)
AcceptWebhook(p, verdict) ==
    /\ <<p, verdict>> \in hooks
    /\ hooks' = hooks \ {<<p, verdict>>}
    /\ queue' = queue \cup {<<p, verdict>>}
    /\ UNCHANGED <<order, invoice, run, subs, past, count>>

\* Any other exception while the notification is handled is also answered
\* with 200, and then the gateway never repeats it.
SwallowWebhook(p, verdict) ==
    /\ faults < MaxFaults
    /\ <<p, verdict>> \in hooks
    /\ faults' = faults + 1
    /\ hooks' = hooks \ {<<p, verdict>>}
    /\ lost' = lost \cup {p}
    /\ UNCHANGED <<order, invoice, queue, run, subs, credit, stale,
                   resends, grants>>

-----------------------------------------------------------------------------
(* ProcessPayment *)

NewRun(p, verdict) ==
    [pc |-> "transition", p |-> p, verdict |-> verdict, row |-> NoRow,
     periods |-> 0, trial |-> FALSE, disc |-> FALSE]

\* A task worker takes a message off the stream (acknowledged on receipt).
ReceiveTask(w, p, verdict) ==
    /\ ~Busy(w)
    /\ <<p, verdict>> \in queue
    /\ queue' = queue \ {<<p, verdict>>}
    /\ run' = [run EXCEPT ![w] = NewRun(p, verdict)]
    /\ UNCHANGED <<order, invoice, hooks, subs, past, count>>

\* The buyer confirms a free order: the run is inside the request, unqueued.
ConfirmFreePayment(w, p) ==
    /\ ~Busy(w)
    /\ p \in Free
    /\ status[p] \in {"PENDING", "FAILED"}
    /\ run' = [run EXCEPT ![w] = NewRun(p, "COMPLETED")]
    /\ UNCHANGED <<order, world, subs, past, count>>

\* The statuses a verdict may be applied to, as pairs <<from, to>>.
Transitions_Retry ==                        \* mutant: COMPLETED may be repeated
    {<<"PENDING", "CANCELED">>, <<"PENDING", "COMPLETED">>, <<"FAILED", "COMPLETED">>,
     <<"COMPLETED", "COMPLETED">>, <<"COMPLETED", "REFUNDED">>}
Transitions_Reopen ==                       \* mutant: a refund may be undone
    {<<"PENDING", "CANCELED">>, <<"PENDING", "COMPLETED">>, <<"FAILED", "COMPLETED">>,
     <<"REFUNDED", "COMPLETED">>, <<"COMPLETED", "REFUNDED">>}

Transitions == {<<"PENDING", "CANCELED">>, <<"PENDING", "COMPLETED">>,
                <<"FAILED", "COMPLETED">>, <<"COMPLETED", "REFUNDED">>}

\* The first transaction of the run: one conditional UPDATE, committed. Only
\* a confirmed payment that is not a test goes on to the purchase.
TransitionStatus(w) ==
    LET p == run[w].p  v == run[w].verdict IN
    /\ run[w].pc = "transition"
    /\ IF <<status[p], v>> \in Transitions
       THEN /\ status' = [status EXCEPT ![p] = v]
            /\ run' = [run EXCEPT ![w] =
                         IF v = "COMPLETED" /\ p \notin Test
                         THEN [@ EXCEPT !.pc = "read",
                                        !.disc = discount[Owner[p]] # 0]
                         ELSE Idle]
       ELSE /\ run' = [run EXCEPT ![w] = Idle]
            /\ UNCHANGED status
    /\ UNCHANGED <<kind, grantOf, world, subs, past, count>>

\* The current subscription is read on its own, before the purchase opens
\* its transaction.
ReadCurrentSubscription(w) ==
    LET r == current[Owner[run[w].p]] IN
    /\ run[w].pc = "read"
    /\ run' = [run EXCEPT ![w] =
                 [@ EXCEPT !.pc = "panel", !.row = r,
                           !.periods = IF r = NoRow THEN 0 ELSE rows[r].periods,
                           !.trial = r # NoRow /\ rows[r].trial]]
    /\ UNCHANGED <<order, world, subs, past, count>>

\* The branch of PurchaseSubscription: a trial is always converted.
Branch(w) == IF run[w].trial THEN "CHANGE" ELSE kind[run[w].p]

\* The periods the purchase leaves the subscription with: a renewal adds one
\* to the expiry it READ, the other branches start from today.
NewPeriods_Stacked(w) ==                    \* mutant: a change keeps the rest
    IF Branch(w) = "NEW" THEN 1 ELSE run[w].periods + 1
NewPeriods(w) == IF Branch(w) = "RENEW" THEN run[w].periods + 1 ELSE 1

\* The panel refuses a second user of the same name and cannot update one it
\* does not have; without a row there is nothing to renew or to change.
PanelAccepts_Upsert(w) ==                   \* mutant: an existing user is reused
    Branch(w) # "NEW" => run[w].row # NoRow /\ panel[Owner[run[w].p]] # 0

PanelAccepts(w) ==
    IF Branch(w) = "NEW"
    THEN panel[Owner[run[w].p]] = 0
    ELSE run[w].row # NoRow /\ panel[Owner[run[w].p]] # 0

CallPanel(w) ==
    /\ run[w].pc = "panel"
    /\ PanelAccepts(w)
    /\ panel' = [panel EXCEPT ![Owner[run[w].p]] = NewPeriods(w)]
    /\ run' = [run EXCEPT ![w].pc = "commit"]
    /\ UNCHANGED <<order, world, rows, current, discount, past, count>>

\* Refused, or unreachable, or the traffic reset after the update fails: in
\* the last case the panel has already been changed.
PanelFails_Ignored(w) ==                    \* mutant: the error is only logged
    /\ run[w].pc = "panel"
    /\ Branch(w) = "NEW" \/ run[w].row # NoRow
    /\ run' = [run EXCEPT ![w].pc = "commit"]
    /\ UNCHANGED <<order, world, subs, past, count>>

PanelFails(w) ==
    /\ run[w].pc = "panel"
    /\ run' = [run EXCEPT ![w].pc = "fail"]
    /\ \/ UNCHANGED panel
       \/ /\ PanelAccepts(w) /\ Branch(w) # "NEW"
          /\ panel' = [panel EXCEPT ![Owner[run[w].p]] = NewPeriods(w)]
    /\ UNCHANGED <<order, world, rows, current, discount, past, count>>

\* The purchase's database transaction. NEW and CHANGE insert a row and point
\* the buyer at it; RENEW writes the row it read, whatever became of it.
CommitPurchase(w) ==
    LET p == run[w].p  u == Owner[p]  r == run[w].row
        bought == [state |-> "live", trial |-> FALSE, periods |-> NewPeriods(w)]
    IN
    /\ run[w].pc = "commit"
    /\ \/ /\ Branch(w) = "NEW"
          /\ rows' = [rows EXCEPT ![p] = bought]
          /\ current' = [current EXCEPT ![u] = p]
          /\ credit' = [credit EXCEPT ![p] = p]
       \/ /\ Branch(w) = "CHANGE"
          /\ rows' = [rows EXCEPT ![r].state = "deleted", ![p] = bought]
          /\ current' = [current EXCEPT ![u] = p]
          /\ credit' = [credit EXCEPT ![p] = p]
       \/ /\ Branch(w) = "RENEW"
          /\ rows' = [rows EXCEPT ![r].periods = NewPeriods(w)]
          /\ credit' = [credit EXCEPT ![p] = r]
          /\ UNCHANGED current
    /\ discount' = IF run[w].disc THEN [discount EXCEPT ![u] = 0] ELSE discount
    /\ stale' = IF \/ current[u] # r
                   \/ r # NoRow /\ rows[r].periods # run[w].periods
                THEN stale \cup {u} ELSE stale
    /\ run' = [run EXCEPT ![w].pc = "reward"]
    /\ UNCHANGED <<order, world, panel, lost, count>>

\* The database refuses: everything since the panel call is rolled back.
CommitFails(w) ==
    /\ run[w].pc = "commit"
    /\ run' = [run EXCEPT ![w].pc = "fail"]
    /\ UNCHANGED <<order, world, subs, past, count>>

\* The exception handler: FAILED, whatever the status has become meanwhile.
MarkFailed_Forgotten(w) ==                  \* mutant: the handler only reports
    /\ run[w].pc = "fail"
    /\ run' = [run EXCEPT ![w] = Idle]
    /\ UNCHANGED <<order, world, subs, past, count>>

MarkFailed(w) ==
    /\ run[w].pc = "fail"
    /\ status' = [status EXCEPT ![run[w].p] = "FAILED"]
    /\ run' = [run EXCEPT ![w] = Idle]
    /\ UNCHANGED <<kind, grantOf, world, subs, past, count>>

\* What follows the purchase (referral rewards of a paid order, the redirect)
\* is attempted once; its errors are reported and change nothing here.
FinishRun(w) ==
    /\ run[w].pc = "reward"
    /\ run' = [run EXCEPT ![w] = Idle]
    /\ UNCHANGED <<order, world, subs, past, count>>

\* The process dies, or the write of FAILED itself raises: the run is gone
\* and, the message being acknowledged, nobody repeats it.
Crash(w) ==
    /\ Busy(w)
    /\ faults < MaxFaults
    /\ faults' = faults + 1
    /\ lost' = lost \cup {run[w].p}
    /\ run' = [run EXCEPT ![w] = Idle]
    /\ UNCHANGED <<order, world, subs, credit, stale, resends, grants>>

-----------------------------------------------------------------------------
Order(p) ==
    \/ \E k \in PurchaseType : ChoosePurchaseType(p, k)
    \/ CreatePayment(p) \/ CreateFreePayment(p) \/ CreateTestPayment(p)

Gateway(p) ==
    \/ BuyerPays(p) \/ InvoiceExpires(p) \/ GatewayRefunds(p)
    \/ \E v \in Verdicts : GatewayResends(p, v)

Webhook(p, v) == AcceptWebhook(p, v) \/ SwallowWebhook(p, v)

\* The steps of a run that its own event loop takes sooner or later.
Advance(w) ==
    \/ TransitionStatus(w) \/ ReadCurrentSubscription(w)
    \/ CallPanel(w) \/ PanelFails(w)
    \/ CommitPurchase(w) \/ CommitFails(w)
    \/ MarkFailed(w) \/ FinishRun(w)

Next ==
    \/ \E p \in Payments : Order(p) \/ Gateway(p)
    \/ CancelOldTransactions
    \/ \E u \in Users : SetUserPurchaseDiscount(u)
    \/ \E p \in Payments, v \in Verdicts : Webhook(p, v)
    \/ \E w \in Runs, p \in Payments, v \in Verdicts : ReceiveTask(w, p, v)
    \/ \E w \in Runs, p \in Payments : ConfirmFreePayment(w, p)
    \/ \E w \in Runs : Advance(w) \/ Crash(w)

Spec == Init /\ [][Next]_vars

\* The gateway calls until it gets its 200; the stream is read in order, so
\* no message is passed over for ever; the event loop resumes every run.
Fairness ==
    /\ \A p \in Payments, v \in Verdicts : WF_vars(Webhook(p, v))
    /\ \A p \in Payments, v \in Verdicts :
          SF_vars(\E w \in Runs : ReceiveTask(w, p, v))
    /\ \A w \in Runs : WF_vars(Advance(w))

FairSpec == Spec /\ Fairness

-----------------------------------------------------------------------------
(* Properties *)

\* At any moment at most one run is between confirming a payment and finishing
\* its purchase: the conditional UPDATE elects it among duplicated webhooks,
\* repeated confirmations and retries (payment.py 367-376).
OneDelivery == \A p \in Payments : Cardinality(Delivering(p)) <= 1

\* A payment whose purchase was committed is COMPLETED or REFUNDED: no expiry,
\* late cancellation or failure handler ever disowns a delivered payment.
DeliveredIsConfirmed ==
    \A p \in Payments : credit[p] # NoRow => status[p] \in {"COMPLETED", "REFUNDED"}

\* A payment buys once: a purchase is only ever committed for a payment that
\* has none, however often it is notified, confirmed or retried (payment.py
\* 367-376, 466-480).
BuysOnce ==
    [][\A w \in Runs : CommitPurchase(w) => credit[run[w].p] = NoRow]_vars

\* A confirmed payment nobody is working on has been delivered, unless a
\* process died on it: errors of the panel or the database never leave it
\* COMPLETED and undelivered (payment.py 466-501).
NoSilentLoss ==
    \A p \in Payments \ Test :
        status[p] = "COMPLETED" /\ Delivering(p) = {} /\ credit[p] = NoRow
        => p \in lost

\* The rows of a buyer, and the periods that were paid into one of them.
RowsOf(u)   == {u} \cup {p \in Payments : Owner[p] = u}
PaidInto(r) == Cardinality({p \in Payments : credit[p] = r})
               + (IF r \in TrialUsers THEN 1 ELSE 0)

\* Every period paid for is in the expiry of the row it was credited to, and
\* none is counted twice, as long as no purchase committed on what another
\* had changed since it read (purchase.py 160-187).
PeriodsAddUp ==
    \A u \in Users \ stale : \A r \in RowsOf(u) : rows[r].periods = PaidInto(r)

\* The buyer's only live row is the current one, whatever mix of purchases,
\* failures and crashes led here (purchase.py 194-222), stale commits aside.
CurrentIsOnlyLive ==
    \A u \in Users \ stale :
        {r \in RowsOf(u) : rows[r].state = "live"} =
            (IF current[u] = NoRow THEN {} ELSE {current[u]})

\* Once every purchase of a buyer has run to its end and none is FAILED or was
\* killed, the panel gives exactly the periods the database records: failures
\* between the two writes are healed by the retry, never doubled
\* (the panel is called before the commit, purchase.py 141-152, 180-191).
PanelAgrees ==
    \A u \in Users \ stale :
        (\A p \in Payments : Owner[p] = u =>
            p \notin lost /\ status[p] # "FAILED" /\ Delivering(p) = {})
        => panel[u] = IF current[u] = NoRow THEN 0 ELSE rows[current[u]].periods

\* The status a payment is recorded with and the set of payments that bought
\* something move only as PaymentLedger allows.
Ledger == INSTANCE PaymentLedger
            WITH fulfilled <- {p \in Payments : credit[p] # NoRow},
                 tests     <- Test

LedgerSpec == Ledger!LedgerSpec

\* A payment the buyer made is settled: the webhook is accepted, its task
\* received and run to the end, so that it has bought something, or is marked
\* FAILED, or had been cancelled, or met a fault.
PaidIsSettled ==
    \A p \in Payments :
        invoice[p] = "paid" ~>
            \/ credit[p] # NoRow
            \/ status[p] \in {"FAILED", "CANCELED"}
            \/ p \in lost
            \/ p \in Test /\ status[p] = "COMPLETED"

\* The administrator's screen says of the discount on the next purchase that
\* it is applied once (assets/translations/ru/messages.ftl 626).
DiscountUsedOnce ==
    \A p, q \in Payments :
        credit[p] # NoRow /\ credit[q] # NoRow /\ grantOf[p] = grantOf[q] /\ grantOf[p] # 0
        => p = q
=============================================================================
