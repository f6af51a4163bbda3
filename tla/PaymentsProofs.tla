--------------------------- MODULE PaymentsProofs ---------------------------
(***************************************************************************)
(* Proofs about Payments, for any number of payments, buyers and runs.     *)
(* What concerns statuses and deliveries follows from one inductive        *)
(* invariant, IInv, and so does the refinement of PaymentLedger. What      *)
(* concerns subscription rows and the panel follows from a second one,     *)
(* Books, that is inductive given IInv.                                    *)
(***************************************************************************)
EXTENDS Payments, FiniteSetTheorems, TLAPS

\* An order has its purchase type before it has a row.
Typed == \A p \in Payments : status[p] # "NONE" => kind[p] # "NONE"

\* What a run in the middle of a purchase may rely on: its payment is
\* confirmed (perhaps refunded since), has bought nothing and is no test.
InFlight ==
    \A w \in Runs : Purchasing(w) =>
        /\ status[run[w].p] \in {"COMPLETED", "REFUNDED"}
        /\ credit[run[w].p] = NoRow
        /\ run[w].p \notin Test

\* And it is alone with its payment.
Exclusive ==
    \A v, w \in Runs :
        Purchasing(v) /\ Purchasing(w) /\ run[v].p = run[w].p => v = w

\* The panel accepted a renewal or a change only for a row that was read.
CommitHasRow ==
    \A w \in Runs :
        run[w].pc = "commit" => run[w].row # NoRow \/ Branch(w) = "NEW"

IInv ==
    /\ TypeOK
    /\ Typed
    /\ InFlight
    /\ Exclusive
    /\ CommitHasRow
    /\ DeliveredIsConfirmed
    /\ NoSilentLoss

USE PaymentsAssumption

-----------------------------------------------------------------------------
LEMMA BusyRun ==
    ASSUME TypeOK, NEW w \in Runs, run[w].pc # "idle"
    PROVE  run[w] \in BusyRuns
BY DEF TypeOK, RunStates, Idle

\* Moving a run to its next step, with or without new values in its memory.
LEMMA MovedRun ==
    ASSUME TypeOK, NEW w \in Runs, run[w].pc # "idle",
           NEW x \in {"read", "panel", "commit", "fail", "reward"}
    PROVE  /\ [run[w] EXCEPT !.pc = x] \in BusyRuns
           /\ \A d \in BOOLEAN : [run[w] EXCEPT !.pc = x, !.disc = d] \in BusyRuns
           /\ \A r \in Rows \cup {NoRow}, n \in Nat, t \in BOOLEAN :
                [run[w] EXCEPT !.pc = x, !.row = r, !.periods = n, !.trial = t]
                    \in BusyRuns
BY BusyRun DEF BusyRuns

LEMMA InitIInv == Init => IInv
<1> SUFFICES ASSUME Init PROVE IInv
  OBVIOUS
<1>1. \A w \in Runs : run[w] = Idle /\ run[w].pc = "idle"
  BY DEF Init, Idle
<1>2. TypeOK
  BY DEF Init, TypeOK, Rows, RunStates
<1>3. Typed /\ DeliveredIsConfirmed /\ NoSilentLoss
  BY DEF Init, Typed, DeliveredIsConfirmed, NoSilentLoss
<1>4. InFlight /\ Exclusive /\ CommitHasRow
  BY <1>1 DEF InFlight, Exclusive, CommitHasRow, Purchasing
<1> QED
  BY <1>2, <1>3, <1>4 DEF IInv

-----------------------------------------------------------------------------
(* Type correctness of a step *)

LEMMA StepTypeOK == IInv /\ [Next]_vars => TypeOK'
<1> SUFFICES ASSUME IInv, [Next]_vars PROVE TypeOK'
  OBVIOUS
<1> USE DEF IInv, TypeOK, order, world, subs, past, count
<1>1. ASSUME NEW p \in Payments, NEW k \in PurchaseType, ChoosePurchaseType(p, k)
      PROVE  TypeOK'
  BY <1>1 DEF ChoosePurchaseType
<1>2. ASSUME NEW p \in Payments,
             CreatePayment(p) \/ CreateFreePayment(p) \/ CreateTestPayment(p)
      PROVE  TypeOK'
  BY <1>2 DEF CreatePayment, CreateFreePayment, CreateTestPayment,
              OpenTransaction, TransactionStatus, PurchaseType
<1>3. ASSUME CancelOldTransactions PROVE TypeOK'
  BY <1>3 DEF CancelOldTransactions, TransactionStatus
<1>4. ASSUME NEW u \in Users, SetUserPurchaseDiscount(u) PROVE TypeOK'
  BY <1>4 DEF SetUserPurchaseDiscount
<1>5. ASSUME NEW p \in Payments, Gateway(p) PROVE TypeOK'
  BY <1>5 DEF Gateway, BuyerPays, InvoiceExpires, GatewayRefunds,
              GatewayDecides, GatewayResends, Verdicts
<1>6. ASSUME NEW p \in Payments, NEW v \in Verdicts, Webhook(p, v) PROVE TypeOK'
  BY <1>6 DEF Webhook, AcceptWebhook, SwallowWebhook
<1>7. ASSUME NEW w \in Runs, NEW p \in Payments,
             (\E v \in Verdicts : ReceiveTask(w, p, v)) \/ ConfirmFreePayment(w, p)
      PROVE  TypeOK'
  <2>1. \A v \in Verdicts : NewRun(p, v) \in RunStates
    BY DEF NewRun, RunStates, BusyRuns
  <2> QED
    BY <1>7, <2>1 DEF ReceiveTask, ConfirmFreePayment, Verdicts
<1>8. ASSUME NEW w \in Runs, TransitionStatus(w) PROVE TypeOK'
  <2>1. run[w] \in BusyRuns /\ run[w].verdict \in TransactionStatus
    BY <1>8, BusyRun DEF TransitionStatus, BusyRuns, Verdicts, TransactionStatus
  <2>2. [run[w] EXCEPT !.pc = "read", !.disc = discount[Owner[run[w].p]] # 0]
            \in BusyRuns
    BY <1>8, MovedRun DEF TransitionStatus
  <2> QED
    BY <1>8, <2>1, <2>2 DEF TransitionStatus, RunStates
<1>9. ASSUME NEW w \in Runs, ReadCurrentSubscription(w) PROVE TypeOK'
  <2> DEFINE r == current[Owner[run[w].p]]
             n == IF r = NoRow THEN 0 ELSE rows[r].periods
             t == r # NoRow /\ rows[r].trial
  <2>1. run[w].p \in Payments /\ r \in Rows \cup {NoRow}
    BY <1>9, BusyRun DEF ReadCurrentSubscription, BusyRuns
  <2>2. n \in Nat /\ t \in BOOLEAN
    BY <2>1
  <2>3. run' = [run EXCEPT ![w] = [@ EXCEPT !.pc = "panel", !.row = r,
                                            !.periods = n, !.trial = t]]
    BY <1>9 DEF ReadCurrentSubscription
  <2>4. run[w].pc # "idle"
    BY <1>9 DEF ReadCurrentSubscription
  <2> HIDE DEF r, n, t
  <2>5. [run[w] EXCEPT !.pc = "panel", !.row = r, !.periods = n, !.trial = t]
            \in BusyRuns
    BY <2>1, <2>2, <2>4, MovedRun
  <2> QED
    BY <1>9, <2>3, <2>5 DEF ReadCurrentSubscription, RunStates
<1>10. ASSUME NEW w \in Runs, CallPanel(w) \/ PanelFails(w) PROVE TypeOK'
  <2>1. run[w] \in BusyRuns /\ NewPeriods(w) \in Nat
    BY <1>10, BusyRun DEF CallPanel, PanelFails, NewPeriods, BusyRuns
  <2>2. \A x \in {"commit", "fail"} : [run[w] EXCEPT !.pc = x] \in BusyRuns
    BY <1>10, MovedRun DEF CallPanel, PanelFails
  <2>3. run' \in [Runs -> RunStates]
    BY <1>10, <2>2 DEF CallPanel, PanelFails, RunStates
  <2>4. panel' \in [Users -> Nat]
    BY <1>10, <2>1 DEF CallPanel, PanelFails
  <2> QED
    BY <1>10, <2>3, <2>4 DEF CallPanel, PanelFails
<1>11. ASSUME NEW w \in Runs, CommitPurchase(w) PROVE TypeOK'
  <2> DEFINE p == run[w].p
             r == run[w].row
             row == [state |-> "live", trial |-> FALSE, periods |-> NewPeriods(w)]
             RowRecords == [state : {"absent", "live", "deleted"},
                            trial : BOOLEAN, periods : Nat]
  <2>1. run[w] \in BusyRuns /\ NewPeriods(w) \in Nat
    BY <1>11, BusyRun DEF CommitPurchase, NewPeriods, BusyRuns
  <2>2. p \in Payments /\ p \in Rows /\ Owner[p] \in Users
    BY <2>1 DEF BusyRuns, Rows
  <2>3. Branch(w) # "NEW" => r \in Rows
    BY <1>11, <2>1 DEF CommitPurchase, CommitHasRow, BusyRuns
  <2>4. row \in RowRecords
    BY <2>1
  <2>5. rows' \in [Rows -> RowRecords]
    <3>1. \A x \in Rows : /\ [rows[x] EXCEPT !.state = "deleted"] \in RowRecords
                          /\ [rows[x] EXCEPT !.periods = NewPeriods(w)] \in RowRecords
      BY <2>1
    <3>2. rows \in [Rows -> RowRecords]
      OBVIOUS
    <3>3. CASE Branch(w) = "NEW"
      <4>1. rows' = [rows EXCEPT ![p] = row]
        BY <1>11, <3>3 DEF CommitPurchase
      <4> QED
        BY <2>4, <3>2, <4>1
    <3>4. CASE Branch(w) = "CHANGE"
      <4>1. rows' = [[rows EXCEPT ![r] = [rows[r] EXCEPT !.state = "deleted"]]
                        EXCEPT ![p] = row]
        BY <1>11, <3>4 DEF CommitPurchase
      <4> HIDE DEF RowRecords
      <4> QED
        BY <2>3, <2>4, <3>1, <3>2, <3>4, <4>1
    <3>5. CASE Branch(w) = "RENEW"
      <4>1. rows' = [rows EXCEPT ![r] = [rows[r] EXCEPT !.periods = NewPeriods(w)]]
        BY <1>11, <3>5 DEF CommitPurchase
      <4> HIDE DEF RowRecords
      <4> QED
        BY <2>3, <3>1, <3>2, <3>5, <4>1
    <3> QED
      BY <1>11, <3>3, <3>4, <3>5 DEF CommitPurchase
  <2>6. [run[w] EXCEPT !.pc = "reward"] \in BusyRuns
    BY <1>11, MovedRun DEF CommitPurchase
  <2>7. current' \in [Users -> Rows \cup {NoRow}]
    BY <1>11, <2>2 DEF CommitPurchase
  <2>8. credit' \in [Payments -> Rows \cup {NoRow}]
    BY <1>11, <2>2, <2>3 DEF CommitPurchase
  <2> QED
    BY <1>11, <2>2, <2>5, <2>6, <2>7, <2>8 DEF CommitPurchase, RunStates
<1>12. ASSUME NEW w \in Runs, CommitFails(w) PROVE TypeOK'
  <2>1. [run[w] EXCEPT !.pc = "fail"] \in BusyRuns
    BY <1>12, MovedRun DEF CommitFails
  <2> QED
    BY <1>12, <2>1 DEF CommitFails, RunStates
<1>13. ASSUME NEW w \in Runs, MarkFailed(w) PROVE TypeOK'
  BY <1>13 DEF MarkFailed, RunStates, TransactionStatus
<1>14. ASSUME NEW w \in Runs, FinishRun(w) PROVE TypeOK'
  BY <1>14 DEF FinishRun, RunStates
<1>15. ASSUME NEW w \in Runs, Crash(w) PROVE TypeOK'
  <2>1. run[w].p \in Payments
    BY <1>15, BusyRun DEF Crash, Busy, BusyRuns
  <2> QED
    BY <1>15, <2>1 DEF Crash, RunStates
<1>16. ASSUME UNCHANGED vars PROVE TypeOK'
  BY <1>16 DEF vars
<1> QED
  BY <1>1, <1>2, <1>3, <1>4, <1>5, <1>6, <1>7, <1>8, <1>9, <1>10, <1>11,
     <1>12, <1>13, <1>14, <1>15, <1>16
  DEF Next, Order, Advance

-----------------------------------------------------------------------------
(* The rest of the inductive invariant under a step *)

Rest == /\ Typed /\ InFlight /\ Exclusive /\ CommitHasRow
        /\ DeliveredIsConfirmed /\ NoSilentLoss

\* A run that is purchasing has a payment, and it is one with a purchase type.
LEMMA PurchasingRun ==
    ASSUME IInv, NEW w \in Runs, Purchasing(w)
    PROVE  /\ run[w].p \in Payments \ Test
           /\ kind[run[w].p] \in PurchaseType
           /\ status[run[w].p] \in {"COMPLETED", "REFUNDED"}
           /\ credit[run[w].p] = NoRow
<1>1. run[w] \in BusyRuns /\ run[w].p \in Payments
  BY BusyRun DEF IInv, Purchasing, BusyRuns
<1> QED
  BY <1>1 DEF IInv, TypeOK, Typed, InFlight, Test

\* Steps that leave the runs alone and give a status only to payments no run
\* is purchasing for.
LEMMA OutsideStep ==
    ASSUME IInv, TypeOK', UNCHANGED <<run, credit>>, lost \subseteq lost',
           \A p \in Payments : status[p] # "NONE" => kind'[p] = kind[p],
           \A p \in Payments : status[p] \in {"COMPLETED", "REFUNDED"}
                               => status'[p] = status[p],
           \A p \in Payments : status'[p] = "COMPLETED" => status[p] = "COMPLETED",
           Typed'
    PROVE  Rest'
<1>1. \A w \in Runs : Purchasing(w)' <=> Purchasing(w)
  BY DEF Purchasing
<1>2. \A p \in Payments : Delivering(p)' = Delivering(p)
  BY <1>1 DEF Delivering
<1>3. InFlight'
  BY <1>1, PurchasingRun DEF IInv, InFlight, Test
<1>4. Exclusive'
  BY <1>1 DEF IInv, Exclusive
<1>5. CommitHasRow'
  <2> SUFFICES ASSUME NEW w \in Runs, run[w].pc = "commit"
               PROVE  run[w].row # NoRow \/ Branch(w)' = "NEW"
    BY DEF CommitHasRow
  <2>1. status[run[w].p] # "NONE" /\ run[w].p \in Payments
    BY PurchasingRun DEF Purchasing
  <2> QED
    BY <2>1 DEF IInv, CommitHasRow, Branch
<1>6. DeliveredIsConfirmed'
  BY DEF IInv, DeliveredIsConfirmed
<1>7. NoSilentLoss'
  BY <1>2 DEF IInv, NoSilentLoss, Test
<1> QED
  BY <1>3, <1>4, <1>5, <1>6, <1>7 DEF Rest

\* Steps of one run that neither start nor end its purchase.
LEMMA InsideStep ==
    ASSUME IInv, TypeOK', NEW w \in Runs, UNCHANGED <<status, kind, credit, lost>>,
           \A v \in Runs \ {w} : run'[v] = run[v],
           Purchasing(w)' <=> Purchasing(w),
           Purchasing(w) => run'[w].p = run[w].p,
           run'[w].pc = "commit" => run'[w].row # NoRow \/ Branch(w)' = "NEW"
    PROVE  Rest'
<1>1. \A v \in Runs : Purchasing(v)' <=> Purchasing(v)
  BY DEF Purchasing
<1>2. \A v \in Runs : Purchasing(v) => run'[v].p = run[v].p
  OBVIOUS
<1>3. \A p \in Payments : Delivering(p)' = Delivering(p)
  BY <1>1, <1>2 DEF Delivering
<1>4. InFlight' /\ Exclusive'
  BY <1>1, <1>2 DEF IInv, InFlight, Exclusive, Test
<1>5. CommitHasRow'
  BY DEF IInv, CommitHasRow, Branch
<1>6. Typed' /\ DeliveredIsConfirmed' /\ NoSilentLoss'
  BY <1>3 DEF IInv, Typed, DeliveredIsConfirmed, NoSilentLoss, Test
<1> QED
  BY <1>4, <1>5, <1>6 DEF Rest

\* The conditional UPDATE: a confirmation finds nobody purchasing, because the
\* status it needs is one no purchase in progress leaves the payment in.
LEMMA TransitionStep ==
    ASSUME IInv, TypeOK', NEW w \in Runs, TransitionStatus(w)
    PROVE  Rest'
<1> DEFINE p == run[w].p
<1>1. /\ run[w] \in BusyRuns /\ p \in Payments /\ run[w].pc = "transition"
      /\ UNCHANGED <<kind, credit, lost>> /\ Test' = Test
      /\ \A v \in Runs \ {w} : run'[v] = run[v]
  BY BusyRun DEF TransitionStatus, BusyRuns, IInv, TypeOK, past, subs, Test
<1>2. CASE <<status[p], run[w].verdict>> \notin Transitions
  <2>1. UNCHANGED status /\ run'[w] = Idle
    BY <1>2 DEF TransitionStatus, IInv, TypeOK
  <2> QED
    BY <1>1, <2>1, InsideStep DEF Purchasing, Idle
<1>3. CASE /\ <<status[p], run[w].verdict>> \in Transitions
           /\ run[w].verdict = "COMPLETED"
  <2>1. /\ status[p] \in {"PENDING", "FAILED"}
        /\ status' = [status EXCEPT ![p] = "COMPLETED"]
    BY <1>3 DEF TransitionStatus, Transitions
  <2>2. credit[p] = NoRow /\ kind[p] # "NONE"
    BY <1>1, <2>1 DEF IInv, DeliveredIsConfirmed, Typed
  <2>3. \A v \in Runs : Purchasing(v) => run[v].p # p
    BY <2>1 DEF IInv, InFlight
  <2>4. \/ p \in Test /\ run'[w] = Idle
        \/ /\ p \notin Test
           /\ run'[w] = [run[w] EXCEPT !.pc = "read",
                                       !.disc = discount[Owner[p]] # 0]
    BY <1>3 DEF TransitionStatus, IInv, TypeOK
  <2>5. p \notin Test => run'[w].pc = "read" /\ run'[w].p = p
    BY <1>1, <2>4 DEF BusyRuns
  <2>6. p \in Test => run'[w].pc = "idle"
    BY <2>4 DEF Idle
  <2>7. \A v \in Runs \ {w} : Purchasing(v)' <=> Purchasing(v)
    BY <1>1 DEF Purchasing
  <2>8. Purchasing(w)' => p \notin Test /\ run'[w].p = p
    BY <2>5, <2>6 DEF Purchasing
  <2>9. \A q \in Payments : status'[q] = IF q = p THEN "COMPLETED" ELSE status[q]
    BY <1>1, <2>1 DEF IInv, TypeOK
  <2>10. InFlight'
    BY <1>1, <2>2, <2>3, <2>7, <2>8, <2>9, PurchasingRun DEF IInv, InFlight
  <2>11. Exclusive'
    BY <1>1, <2>3, <2>7, <2>8 DEF IInv, Exclusive
  <2>12. CommitHasRow'
    BY <1>1, <2>5, <2>6 DEF IInv, CommitHasRow, Branch
  <2>13. Typed' /\ DeliveredIsConfirmed'
    BY <1>1, <2>2, <2>9 DEF IInv, Typed, DeliveredIsConfirmed
  <2>14. NoSilentLoss'
    <3> SUFFICES ASSUME NEW q \in Payments \ Test, status'[q] = "COMPLETED",
                        Delivering(q)' = {}, credit[q] = NoRow
                 PROVE  q \in lost
      BY <1>1 DEF NoSilentLoss
    <3>1. q # p
      <4> SUFFICES ASSUME q = p PROVE FALSE
        OBVIOUS
      <4>1. run'[w].pc = "read" /\ run'[w].p = q
        BY <2>5
      <4>2. w \in Delivering(q)'
        BY <4>1 DEF Delivering, Purchasing
      <4> QED
        BY <4>2
    <3>2. Delivering(q) = {}
      <4> SUFFICES ASSUME NEW v \in Delivering(q) PROVE FALSE
        OBVIOUS
      <4>1. v \in Runs \ {w} /\ Purchasing(v) /\ run[v].p = q
        BY <1>1 DEF Delivering, Purchasing
      <4>2. v \in Delivering(q)'
        BY <1>1, <2>7, <4>1 DEF Delivering
      <4> QED
        BY <4>2
    <3> QED
      BY <2>9, <3>1, <3>2 DEF IInv, NoSilentLoss
  <2> QED
    BY <2>10, <2>11, <2>12, <2>13, <2>14 DEF Rest
<1>4. CASE /\ <<status[p], run[w].verdict>> \in Transitions
           /\ run[w].verdict # "COMPLETED"
  <2>1. /\ \/ status[p] = "PENDING" /\ run[w].verdict = "CANCELED"
           \/ status[p] = "COMPLETED" /\ run[w].verdict = "REFUNDED"
        /\ status' = [status EXCEPT ![p] = run[w].verdict]
        /\ run'[w] = Idle
    BY <1>4 DEF TransitionStatus, Transitions, IInv, TypeOK
  <2>2. \A q \in Payments : status'[q] = IF q = p THEN run[w].verdict ELSE status[q]
    BY <1>1, <2>1 DEF IInv, TypeOK
  <2>3. \A v \in Runs : /\ Purchasing(v)' <=> Purchasing(v)
                        /\ Purchasing(v) => run'[v] = run[v]
    BY <1>1, <2>1 DEF Purchasing, Idle
  <2>4. \A q \in Payments : Delivering(q)' = Delivering(q)
    BY <2>3 DEF Delivering
  <2>5. InFlight'
    BY <1>1, <2>1, <2>2, <2>3, PurchasingRun DEF IInv, InFlight
  <2>6. Exclusive'
    BY <2>3 DEF IInv, Exclusive
  <2>7. CommitHasRow'
    BY <1>1, <2>1 DEF IInv, CommitHasRow, Branch, Idle
  <2>8. Typed' /\ DeliveredIsConfirmed' /\ NoSilentLoss'
    BY <1>1, <2>1, <2>2, <2>4 DEF IInv, Typed, DeliveredIsConfirmed, NoSilentLoss
  <2> QED
    BY <2>5, <2>6, <2>7, <2>8 DEF Rest
<1> QED
  BY <1>2, <1>3, <1>4

\* A purchase that commits leaves its payment delivered; one that fails or is
\* killed leaves it FAILED or lost. Nobody else was on that payment.
LEMMA EndingStep ==
    ASSUME IInv, TypeOK', NEW w \in Runs,
           CommitPurchase(w) \/ MarkFailed(w) \/ Crash(w)
    PROVE  Rest'
<1> DEFINE p == run[w].p
<1>1. /\ run[w] \in BusyRuns /\ p \in Payments /\ UNCHANGED kind /\ Test' = Test
      /\ \A v \in Runs \ {w} : run'[v] = run[v]
      /\ run'[w].pc \in {"idle", "reward"}
  BY BusyRun DEF CommitPurchase, MarkFailed, Crash, Busy, BusyRuns, Idle,
                 IInv, TypeOK, order, Test
<1>2. \A v \in Runs : Purchasing(v)' => v # w /\ Purchasing(v) /\ run'[v] = run[v]
  BY <1>1 DEF Purchasing
<1>3. Exclusive' /\ CommitHasRow'
  BY <1>1, <1>2 DEF IInv, Exclusive, CommitHasRow, Branch
<1>4. \A q \in Payments : q # p \/ ~Purchasing(w) => Delivering(q)' = Delivering(q)
  <2> SUFFICES ASSUME NEW q \in Payments, q # p \/ ~Purchasing(w), NEW v \in Runs
               PROVE  v \in Delivering(q)' <=> v \in Delivering(q)
    BY DEF Delivering
  <2>1. CASE v = w
    BY <1>2, <2>1 DEF Delivering
  <2>2. CASE v # w
    BY <1>1, <2>2 DEF Delivering, Purchasing
  <2> QED
    BY <2>1, <2>2
<1>5. CASE CommitPurchase(w)
  <2>1. Purchasing(w) /\ UNCHANGED <<status, lost>>
    BY <1>5 DEF CommitPurchase, Purchasing, order
  <2>2. /\ credit'[p] # NoRow
        /\ \A q \in Payments : q # p => credit'[q] = credit[q]
    BY <1>1, <1>5 DEF CommitPurchase, IInv, TypeOK, CommitHasRow, Rows
  <2>3. InFlight'
    BY <1>1, <1>2, <2>1, <2>2, PurchasingRun DEF IInv, InFlight, Exclusive
  <2>4. Typed' /\ DeliveredIsConfirmed'
    BY <1>1, <2>1, <2>2, PurchasingRun DEF IInv, Typed, DeliveredIsConfirmed
  <2>5. NoSilentLoss'
    BY <1>1, <1>4, <2>1, <2>2 DEF IInv, NoSilentLoss
  <2> QED
    BY <1>3, <2>3, <2>4, <2>5 DEF Rest
<1>6. CASE MarkFailed(w)
  <2>1. Purchasing(w) /\ UNCHANGED <<credit, lost>>
    BY <1>6 DEF MarkFailed, Purchasing, past
  <2>2. \A q \in Payments : status'[q] = IF q = p THEN "FAILED" ELSE status[q]
    BY <1>1, <1>6 DEF MarkFailed, IInv, TypeOK
  <2>3. InFlight'
    BY <1>1, <1>2, <2>1, <2>2, PurchasingRun DEF IInv, InFlight, Exclusive
  <2>4. Typed' /\ DeliveredIsConfirmed'
    BY <1>1, <2>1, <2>2, PurchasingRun DEF IInv, Typed, DeliveredIsConfirmed,
                                           PurchaseType
  <2>5. NoSilentLoss'
    BY <1>1, <1>4, <2>1, <2>2 DEF IInv, NoSilentLoss
  <2> QED
    BY <1>3, <2>3, <2>4, <2>5 DEF Rest
<1>7. CASE Crash(w)
  <2>1. UNCHANGED <<status, credit>> /\ lost' = lost \cup {p}
    BY <1>7 DEF Crash, order
  <2>2. InFlight'
    BY <1>1, <1>2, <2>1 DEF IInv, InFlight
  <2>3. Typed' /\ DeliveredIsConfirmed'
    BY <1>1, <2>1 DEF IInv, Typed, DeliveredIsConfirmed
  <2>4. NoSilentLoss'
    BY <1>1, <1>4, <2>1 DEF IInv, NoSilentLoss
  <2> QED
    BY <1>3, <2>2, <2>3, <2>4 DEF Rest
<1> QED
  BY <1>5, <1>6, <1>7

LEMMA StepRest == IInv /\ [Next]_vars => Rest'
<1> SUFFICES ASSUME IInv, [Next]_vars PROVE Rest'
  OBVIOUS
<1>0. TypeOK' /\ TypeOK /\ Typed
  BY StepTypeOK DEF IInv
<1> USE DEF order, world, subs, past, count
<1>1. ASSUME NEW p \in Payments, NEW k \in PurchaseType, ChoosePurchaseType(p, k)
      PROVE  Rest'
  BY <1>0, <1>1, OutsideStep DEF ChoosePurchaseType, Typed, TypeOK, PurchaseType
<1>2. ASSUME NEW p \in Payments,
             CreatePayment(p) \/ CreateFreePayment(p) \/ CreateTestPayment(p)
      PROVE  Rest'
  <2>1. status[p] = "NONE" /\ status' = [status EXCEPT ![p] = "PENDING"]
    BY <1>2 DEF CreatePayment, CreateFreePayment, CreateTestPayment, OpenTransaction
  <2>2. Typed'
    BY <1>0, <1>2, <2>1 DEF CreatePayment, CreateFreePayment, CreateTestPayment,
                            Typed, TypeOK
  <2>3. \A q \in Payments : status[q] # "NONE" => kind'[q] = kind[q]
    BY <1>0, <1>2, <2>1 DEF CreatePayment, CreateFreePayment, CreateTestPayment,
                            Typed, TypeOK
  <2> QED
    BY <1>0, <1>2, <2>1, <2>2, <2>3, OutsideStep
    DEF CreatePayment, CreateFreePayment, CreateTestPayment, OpenTransaction, TypeOK
<1>3. ASSUME CancelOldTransactions PROVE Rest'
  BY <1>0, <1>3, OutsideStep DEF CancelOldTransactions, Typed, TypeOK
<1>4. ASSUME NEW u \in Users, SetUserPurchaseDiscount(u) PROVE Rest'
  BY <1>0, <1>4, OutsideStep DEF SetUserPurchaseDiscount, Typed
<1>5. ASSUME NEW p \in Payments, Gateway(p) PROVE Rest'
  BY <1>0, <1>5, OutsideStep
  DEF Gateway, BuyerPays, InvoiceExpires, GatewayRefunds, GatewayDecides,
      GatewayResends, Typed
<1>6. ASSUME NEW p \in Payments, NEW v \in Verdicts, Webhook(p, v) PROVE Rest'
  BY <1>0, <1>6, OutsideStep DEF Webhook, AcceptWebhook, SwallowWebhook, Typed
<1>7. ASSUME NEW w \in Runs, NEW p \in Payments,
             (\E v \in Verdicts : ReceiveTask(w, p, v)) \/ ConfirmFreePayment(w, p)
      PROVE  Rest'
  <2>1. PICK v \in Verdicts : run' = [run EXCEPT ![w] = NewRun(p, v)]
    BY <1>7 DEF ReceiveTask, ConfirmFreePayment, Verdicts
  <2>2. run'[w].pc = "transition" /\ run[w].pc = "idle"
    BY <1>0, <1>7, <2>1 DEF NewRun, TypeOK, ReceiveTask, ConfirmFreePayment, Busy
  <2>3. ~Purchasing(w) /\ ~Purchasing(w)'
    BY <2>2 DEF Purchasing
  <2>4. /\ UNCHANGED <<status, kind, credit, lost>>
        /\ \A v0 \in Runs \ {w} : run'[v0] = run[v0]
    BY <1>0, <1>7, <2>1 DEF ReceiveTask, ConfirmFreePayment, TypeOK
  <2> QED
    BY <1>0, <2>2, <2>3, <2>4, InsideStep
<1>8. ASSUME NEW w \in Runs, TransitionStatus(w) PROVE Rest'
  BY <1>0, <1>8, TransitionStep
<1>9. ASSUME NEW w \in Runs,
             ReadCurrentSubscription(w) \/ PanelFails(w) \/ CommitFails(w)
      PROVE  Rest'
  <2>1. /\ run[w] \in BusyRuns /\ Purchasing(w)
        /\ UNCHANGED <<status, kind, credit, lost>>
        /\ \A v \in Runs \ {w} : run'[v] = run[v]
    BY <1>0, <1>9, BusyRun
    DEF ReadCurrentSubscription, PanelFails, CommitFails, Purchasing, TypeOK
  <2>2. CASE ReadCurrentSubscription(w)
    <3>1. PICK r, n, t :
            run' = [run EXCEPT ![w] = [@ EXCEPT !.pc = "panel", !.row = r,
                                                !.periods = n, !.trial = t]]
      BY <2>2 DEF ReadCurrentSubscription
    <3>2. run'[w].p = run[w].p /\ run'[w].pc = "panel"
      BY <1>0, <2>1, <3>1 DEF TypeOK, BusyRuns
    <3> QED
      BY <1>0, <2>1, <3>2, InsideStep DEF Purchasing
  <2>3. CASE PanelFails(w) \/ CommitFails(w)
    <3>1. run' = [run EXCEPT ![w] = [@ EXCEPT !.pc = "fail"]]
      BY <2>3 DEF PanelFails, CommitFails
    <3>2. run'[w].p = run[w].p /\ run'[w].pc = "fail"
      BY <1>0, <2>1, <3>1 DEF TypeOK, BusyRuns
    <3> QED
      BY <1>0, <2>1, <3>2, InsideStep DEF Purchasing
  <2> QED
    BY <1>9, <2>2, <2>3
<1>10. ASSUME NEW w \in Runs, CallPanel(w) PROVE Rest'
  <2>1. /\ run[w] \in BusyRuns /\ Purchasing(w) /\ run[w].p \in Payments
        /\ UNCHANGED <<status, kind, credit, lost>>
        /\ \A v \in Runs \ {w} : run'[v] = run[v]
    BY <1>0, <1>10, BusyRun DEF CallPanel, Purchasing, TypeOK, BusyRuns
  <2>2. run'[w] = [run[w] EXCEPT !.pc = "commit"]
    BY <1>0, <1>10 DEF CallPanel, TypeOK
  <2>3. /\ run'[w].p = run[w].p /\ run'[w].pc = "commit"
        /\ run'[w].row = run[w].row /\ run'[w].trial = run[w].trial
    BY <2>1, <2>2 DEF BusyRuns
  <2>4. run'[w].row # NoRow \/ Branch(w)' = "NEW"
    BY <1>10, <2>1, <2>3 DEF CallPanel, PanelAccepts, Branch
  <2> QED
    BY <1>0, <2>1, <2>3, <2>4, InsideStep DEF Purchasing
<1>11. ASSUME NEW w \in Runs, CommitPurchase(w) \/ MarkFailed(w) \/ Crash(w)
       PROVE  Rest'
  BY <1>0, <1>11, EndingStep
<1>12. ASSUME NEW w \in Runs, FinishRun(w) PROVE Rest'
  <2>1. ~Purchasing(w) /\ ~Purchasing(w)' /\ run'[w].pc = "idle"
    BY <1>0, <1>12 DEF FinishRun, Purchasing, TypeOK, Idle
  <2> QED
    BY <1>0, <1>12, <2>1, InsideStep DEF FinishRun, TypeOK
<1>13. ASSUME UNCHANGED vars PROVE Rest'
  BY <1>0, <1>13, OutsideStep DEF vars, Typed
<1> QED
  BY <1>1, <1>2, <1>3, <1>4, <1>5, <1>6, <1>7, <1>8, <1>9, <1>10, <1>11,
     <1>12, <1>13
  DEF Next, Order, Advance

-----------------------------------------------------------------------------
(* The theorems *)

\* Every reachable state satisfies the inductive invariant.
THEOREM Invariance == Spec => []IInv
<1>1. IInv /\ [Next]_vars => IInv'
  BY StepTypeOK, StepRest DEF IInv, Rest
<1> QED
  BY <1>1, InitIInv, PTL DEF Spec

\* Type correctness.
THEOREM TypeCorrect == Spec => []TypeOK
<1>1. IInv => TypeOK
  BY DEF IInv
<1> QED
  BY <1>1, Invariance, PTL

\* However many duplicates, retries and runs there are, one run at a time
\* purchases for a payment.
THEOREM OneDeliveryHolds == Spec => []OneDelivery
<1>1. IInv => OneDelivery
  <2> SUFFICES ASSUME IInv, NEW p \in Payments PROVE Cardinality(Delivering(p)) <= 1
    BY DEF OneDelivery
  <2>1. CASE Delivering(p) = {}
    BY <2>1, FS_EmptySet
  <2>2. CASE Delivering(p) # {}
    <3>1. PICK w : w \in Delivering(p)
      BY <2>2
    <3>2. Delivering(p) = {w}
      BY <3>1 DEF Delivering, IInv, Exclusive
    <3> QED
      BY <3>2, FS_Singleton
  <2> QED
    BY <2>1, <2>2
<1> QED
  BY <1>1, Invariance, PTL

\* A payment whose purchase was committed stays COMPLETED or REFUNDED.
THEOREM DeliveredIsConfirmedHolds == Spec => []DeliveredIsConfirmed
<1>1. IInv => DeliveredIsConfirmed
  BY DEF IInv
<1> QED
  BY <1>1, Invariance, PTL

\* Only a fault leaves a payment COMPLETED, undelivered and unattended.
THEOREM NoSilentLossHolds == Spec => []NoSilentLoss
<1>1. IInv => NoSilentLoss
  BY DEF IInv
<1> QED
  BY <1>1, Invariance, PTL

\* A commit finds a confirmed payment without credit and gives it one.
LEMMA CommitCredits ==
    ASSUME IInv, NEW w \in Runs, CommitPurchase(w)
    PROVE  /\ run[w].p \in Payments \ Test /\ credit[run[w].p] = NoRow
           /\ status[run[w].p] \in {"COMPLETED", "REFUNDED"}
           /\ credit'[run[w].p] # NoRow
           /\ \A q \in Payments : q # run[w].p => credit'[q] = credit[q]
           /\ UNCHANGED status /\ Test' = Test
<1>1. Purchasing(w)
  BY DEF CommitPurchase, Purchasing
<1>2. run[w].p \in Payments \ Test
  BY <1>1, PurchasingRun DEF IInv, InFlight
<1> QED
  BY <1>1, <1>2, PurchasingRun, BusyRun
  DEF CommitPurchase, IInv, TypeOK, CommitHasRow, Rows, order, BusyRuns, Test

\* A payment buys once, whatever is delivered twice.
THEOREM BuysOnceHolds == Spec => BuysOnce
<1>1. IInv /\ [Next]_vars =>
        [\A w \in Runs : CommitPurchase(w) => credit[run[w].p] = NoRow]_vars
  BY CommitCredits
<1> QED
  BY <1>1, Invariance, PTL DEF Spec, BuysOnce

-----------------------------------------------------------------------------
(* Payments implements PaymentLedger *)

bought == {p \in Payments : credit[p] # NoRow}

LEMMA LedgerInitStep == Init => Ledger!LedgerInit
BY DEF Init, Ledger!LedgerInit, Test

\* Steps that only move one payment's status.
LEMMA MoveStep ==
    ASSUME NEW p \in Payments, UNCHANGED credit
    PROVE  /\ /\ status[p] = "NONE" /\ status' = [status EXCEPT ![p] = "PENDING"]
              /\ Test' = Test \/ Test' = Test \cup {p}
              => Ledger!Open(p)
           /\ /\ status[p] \in {"PENDING", "FAILED"} /\ credit[p] = NoRow
              /\ status' = [status EXCEPT ![p] = "COMPLETED"] /\ Test' = Test
              => Ledger!Confirm(p)
           /\ /\ status[p] = "COMPLETED" /\ status' = [status EXCEPT ![p] = "REFUNDED"]
              /\ Test' = Test
              => Ledger!Refund(p)
           /\ /\ status[p] \in {"COMPLETED", "REFUNDED"} /\ credit[p] = NoRow
              /\ p \notin Test /\ status' = [status EXCEPT ![p] = "FAILED"] /\ Test' = Test
              => Ledger!Fail(p)
BY DEF Ledger!Move, Ledger!Open, Ledger!Confirm, Ledger!Refund, Ledger!Fail,
       Ledger!Deliverable

\* Every step is one of the ledger's or invisible to it.
LEMMA LedgerStep ==
    IInv /\ [Next]_vars => [Ledger!LedgerNext]_<<status, bought, Test>>
<1> SUFFICES ASSUME IInv, [Next]_vars
             PROVE  Ledger!LedgerNext \/ UNCHANGED <<status, credit, Test>>
  BY DEF bought, Ledger!LedgerNext
<1>0. TypeOK /\ InFlight /\ DeliveredIsConfirmed
  BY DEF IInv
<1> USE DEF order, world, subs, past, count
<1>1. ASSUME NEW p \in Payments, Order(p) PROVE Ledger!LedgerNext \/ UNCHANGED <<status, credit, Test>>
  <2>1. CASE \E k \in PurchaseType : ChoosePurchaseType(p, k)
    BY <1>0, <2>1 DEF ChoosePurchaseType, TypeOK, Test, PurchaseType
  <2>2. CASE CreatePayment(p) \/ CreateFreePayment(p) \/ CreateTestPayment(p)
    <3>1. /\ status[p] = "NONE" /\ status' = [status EXCEPT ![p] = "PENDING"]
          /\ UNCHANGED credit
      BY <2>2 DEF CreatePayment, CreateFreePayment, CreateTestPayment, OpenTransaction
    <3>2. Test' = Test \/ Test' = Test \cup {p}
      BY <1>0, <2>2 DEF CreatePayment, CreateFreePayment, CreateTestPayment,
                        Test, TypeOK
    <3>3. Ledger!Open(p)
      BY <3>1, <3>2, MoveStep
    <3> QED
      BY <3>3 DEF Ledger!LedgerNext
  <2> QED
    BY <1>1, <2>1, <2>2 DEF Order
<1>2. CASE CancelOldTransactions
  <2>1. PICK S \in SUBSET {p \in Payments : status[p] = "PENDING"} :
          /\ S # {} /\ UNCHANGED credit /\ Test' = Test
          /\ status' = [p \in Payments |-> IF p \in S THEN "CANCELED" ELSE status[p]]
    BY <1>2 DEF CancelOldTransactions, Test
  <2>2. Ledger!Cancel(S) /\ S \in SUBSET Payments
    BY <2>1 DEF Ledger!Cancel
  <2> QED
    BY <2>2 DEF Ledger!LedgerNext
<1>3. ASSUME NEW w \in Runs, TransitionStatus(w)
      PROVE  Ledger!LedgerNext \/ UNCHANGED <<status, credit, Test>>
  <2> DEFINE p == run[w].p
             v == run[w].verdict
  <2>1. p \in Payments /\ UNCHANGED credit /\ Test' = Test
    BY <1>0, <1>3, BusyRun DEF TransitionStatus, BusyRuns, Test
  <2>2. \/ UNCHANGED status
        \/ <<status[p], v>> \in Transitions /\ status' = [status EXCEPT ![p] = v]
    BY <1>3 DEF TransitionStatus
  <2>3. CASE status[p] = "PENDING" /\ status' = [status EXCEPT ![p] = "CANCELED"]
    <3>1. Ledger!Cancel({p})
      BY <1>0, <2>1, <2>3 DEF Ledger!Cancel, TypeOK
    <3> QED
      BY <2>1, <3>1 DEF Ledger!LedgerNext
  <2>4. CASE /\ status[p] \in {"PENDING", "FAILED"}
             /\ status' = [status EXCEPT ![p] = "COMPLETED"]
    <3>1. credit[p] = NoRow
      BY <1>0, <2>1, <2>4 DEF DeliveredIsConfirmed
    <3>2. Ledger!Confirm(p)
      BY <2>1, <2>4, <3>1, MoveStep
    <3> QED
      BY <2>1, <3>2 DEF Ledger!LedgerNext
  <2>5. CASE status[p] = "COMPLETED" /\ status' = [status EXCEPT ![p] = "REFUNDED"]
    <3>1. Ledger!Refund(p)
      BY <2>1, <2>5, MoveStep
    <3> QED
      BY <2>1, <3>1 DEF Ledger!LedgerNext
  <2> QED
    BY <2>1, <2>2, <2>3, <2>4, <2>5 DEF Transitions
<1>4. ASSUME NEW w \in Runs, CommitPurchase(w) PROVE Ledger!LedgerNext
  <2> DEFINE p == run[w].p
  <2>1. bought' = bought \cup {p}
    BY <1>4, CommitCredits DEF bought
  <2>2. \E q \in Payments : Ledger!Fulfil(q)
    BY <1>4, <2>1, CommitCredits DEF Ledger!Fulfil, Ledger!Deliverable, bought
  <2> QED
    BY <2>2 DEF Ledger!LedgerNext
<1>5. ASSUME NEW w \in Runs, MarkFailed(w) PROVE Ledger!LedgerNext
  <2> DEFINE p == run[w].p
  <2>1. /\ p \in Payments \ Test /\ credit[p] = NoRow
        /\ status[p] \in {"COMPLETED", "REFUNDED"}
    BY <1>0, <1>5, PurchasingRun DEF MarkFailed, Purchasing, InFlight
  <2>2. /\ status' = [status EXCEPT ![p] = "FAILED"]
        /\ UNCHANGED credit /\ Test' = Test
    BY <1>5 DEF MarkFailed, Test
  <2>3. Ledger!Fail(p)
    BY <2>1, <2>2, MoveStep
  <2> QED
    BY <2>1, <2>3 DEF Ledger!LedgerNext
<1>6. ASSUME \/ \E p \in Payments : Gateway(p)
             \/ \E u \in Users : SetUserPurchaseDiscount(u)
             \/ \E p \in Payments, v \in Verdicts : Webhook(p, v)
             \/ \E w \in Runs, p \in Payments, v \in Verdicts : ReceiveTask(w, p, v)
             \/ \E w \in Runs, p \in Payments : ConfirmFreePayment(w, p)
             \/ \E w \in Runs : Crash(w)
             \/ UNCHANGED vars
      PROVE  UNCHANGED <<status, credit, Test>>
  BY <1>6 DEF Gateway, BuyerPays, InvoiceExpires, GatewayRefunds, GatewayDecides,
     GatewayResends, SetUserPurchaseDiscount, Webhook, AcceptWebhook,
     SwallowWebhook, ReceiveTask, ConfirmFreePayment, Crash, vars, Test
<1>7. ASSUME NEW w \in Runs,
             \/ ReadCurrentSubscription(w) \/ CallPanel(w) \/ PanelFails(w)
             \/ CommitFails(w) \/ FinishRun(w)
      PROVE  UNCHANGED <<status, credit, Test>>
  BY <1>7 DEF ReadCurrentSubscription, CallPanel, PanelFails, CommitFails, FinishRun,
              Test
<1> QED
  BY <1>1, <1>2, <1>3, <1>4, <1>5, <1>6, <1>7 DEF Next, Advance

\* Whatever the gateway, the stream and the workers do, statuses and purchases
\* move only as the ledger allows.
THEOREM Implements == Spec => LedgerSpec
<1>1. [Ledger!LedgerNext]_<<status, bought, Test>> <=>
      [Ledger!LedgerNext]_<<status, {p \in Payments : credit[p] # NoRow}, Test>>
  BY DEF bought
<1> QED
  BY <1>1, LedgerInitStep, LedgerStep, Invariance, PTL
  DEF Spec, LedgerSpec, Ledger!LedgerSpec

-----------------------------------------------------------------------------
(* The subscription rows, the panel and what was paid *)

\* Rows belong to one buyer each. A payment's own row comes with its purchase,
\* and whoever has a current row has a panel user.
OwnRows ==
    /\ \A p \in Payments :
          /\ credit[p] # NoRow => credit[p] \in RowsOf(Owner[p]) /\ rows[credit[p]].state # "absent"
          /\ credit[p] # p => rows[p].state = "absent" /\ rows[p].periods = 0
    /\ \A u \in Users : current[u] # NoRow =>
          current[u] \in RowsOf(u) /\ rows[current[u]].state # "absent" /\ panel[u] > 0

\* What a run has read of them. Rows only gain periods while no commit was
\* stale; and the panel takes a NEW purchase only for a buyer without a panel
\* user, who therefore had no current row to read.
HasRead(w) ==
    LET u == Owner[run[w].p]  r == run[w].row IN
    /\ run[w].pc \in {"panel", "commit"} /\ r # NoRow =>
          /\ r \in RowsOf(u) /\ rows[r].state # "absent" /\ current[u] # NoRow
          /\ u \notin stale => run[w].periods <= rows[r].periods
    /\ run[w].pc = "commit" => panel[u] > 0 /\ (Branch(w) = "NEW" => r = NoRow)

\* Only finitely many purchases were credited to a row.
CreditedTo(r) == {p \in Payments : credit[p] = r}
CreditsFinite == \A r \in Rows : IsFiniteSet(CreditedTo(r))

FailedIsNoTest == \A p \in Payments : status[p] = "FAILED" => p \notin Test

\* The commit of run w would not be stale.
UpToDate(w) ==
    /\ current[Owner[run[w].p]] = run[w].row
    /\ run[w].row # NoRow => rows[run[w].row].periods = run[w].periods

\* A payment that may have changed the panel without a commit.
Troubled(p) == status[p] = "FAILED" \/ Delivering(p) # {} \/ p \in lost

\* The panel has what a run is about to commit, unless another purchase of the
\* buyer has been to the panel since.
PanelKnown(w) ==
    LET u == Owner[run[w].p] IN
    run[w].pc = "commit" /\ u \notin stale /\ UpToDate(w) =>
        \/ panel[u] = NewPeriods(w)
        \/ \E q \in Payments \ {run[w].p} : Owner[q] = u /\ Troubled(q)

Books ==
    /\ OwnRows /\ CreditsFinite /\ FailedIsNoTest
    /\ PeriodsAddUp /\ CurrentIsOnlyLive /\ PanelAgrees
    /\ \A w \in Runs : HasRead(w) /\ PanelKnown(w)

LEMMA InitBooks == Init => Books
<1> SUFFICES ASSUME Init PROVE Books
  OBVIOUS
<1>1. \A p \in Payments : p \notin TrialUsers /\ p # NoRow /\ credit[p] = NoRow
  BY DEF Init
<1>2. \A r \in Rows : CreditedTo(r) = {} /\ r # NoRow
  BY <1>1 DEF CreditedTo, Rows
<1>3. \A r \in Rows : IsFiniteSet(CreditedTo(r)) /\ Cardinality(CreditedTo(r)) = 0
  BY <1>2, FS_EmptySet
<1>4. \A r \in Rows : rows[r] = IF r \in TrialUsers
                                THEN [state |-> "live", trial |-> TRUE, periods |-> 1]
                                ELSE [state |-> "absent", trial |-> FALSE, periods |-> 0]
  BY DEF Init
<1>5. \A u \in Users : /\ current[u] = IF u \in TrialUsers THEN u ELSE NoRow
                       /\ panel[u] = IF u \in TrialUsers THEN 1 ELSE 0
                       /\ u # NoRow
  BY DEF Init
<1>6. \A u \in Users : RowsOf(u) \subseteq Rows /\ u \in RowsOf(u)
  BY DEF RowsOf, Rows
<1>7. OwnRows
  BY <1>1, <1>4, <1>5, <1>6 DEF OwnRows, Rows
<1>8. CreditsFinite /\ FailedIsNoTest
  BY <1>3 DEF CreditsFinite, FailedIsNoTest, Init
<1>9. PeriodsAddUp
  BY <1>3, <1>4, <1>6 DEF PeriodsAddUp, PaidInto, CreditedTo
<1>10. CurrentIsOnlyLive
  <2> SUFFICES ASSUME NEW u \in Users
               PROVE  {r \in RowsOf(u) : rows[r].state = "live"} =
                        (IF current[u] = NoRow THEN {} ELSE {current[u]})
    BY DEF CurrentIsOnlyLive
  <2>1. \A r \in RowsOf(u) : rows[r].state = "live" <=> r = u /\ u \in TrialUsers
    BY <1>1, <1>4, <1>6 DEF RowsOf
  <2> QED
    BY <1>5, <1>6, <2>1
<1>11. PanelAgrees
  BY <1>4, <1>5 DEF PanelAgrees, Rows
<1>12. \A w \in Runs : HasRead(w) /\ PanelKnown(w)
  BY DEF Init, Idle, HasRead, PanelKnown
<1> QED
  BY <1>7, <1>8, <1>9, <1>10, <1>11, <1>12 DEF Books

-----------------------------------------------------------------------------
(* The books under a step *)

LEMMA OwnRowsFacts ==
    ASSUME IInv
    PROVE  /\ \A p \in Payments : p \in Rows /\ p # NoRow /\ p \notin TrialUsers
                                  /\ Owner[p] \in Users /\ p \in RowsOf(Owner[p])
           /\ \A u \in Users : u \in Rows /\ u # NoRow /\ RowsOf(u) \subseteq Rows
           /\ \A u, v \in Users : u # v => RowsOf(u) \cap RowsOf(v) = {}
           /\ \A r \in Rows : \E u \in Users : r \in RowsOf(u)
           /\ \A r \in Rows : /\ rows[r].state \in {"absent", "live", "deleted"}
                              /\ rows[r].periods \in Nat
BY DEF RowsOf, Rows, IInv, TypeOK

\* Steps that touch neither a row nor the panel nor a credit: a purchase in
\* its middle keeps what it read, or reads it now, and a payment in trouble
\* stays in trouble.
Keeps(w) == run'[w].pc \in {"panel", "commit"} =>
                \/ run'[w] = run[w] /\ kind'[run[w].p] = kind[run[w].p]
                \/ run'[w].pc = "panel" /\ HasRead(w)'

LEMMA QuietStep ==
    ASSUME IInv, Books, UNCHANGED <<rows, current, panel, credit, stale>>,
           \A p \in Payments : Troubled(p) => Troubled(p)',
           FailedIsNoTest',
           \A w \in Runs : Keeps(w)
    PROVE  Books'
<1>1. \A r : PaidInto(r)' = PaidInto(r) /\ CreditedTo(r)' = CreditedTo(r)
  BY DEF PaidInto, CreditedTo
<1>2. OwnRows' /\ CreditsFinite' /\ PeriodsAddUp' /\ CurrentIsOnlyLive'
  BY <1>1 DEF Books, OwnRows, CreditsFinite, PeriodsAddUp, CurrentIsOnlyLive
<1>3. PanelAgrees'
  BY DEF Books, PanelAgrees, Troubled
<1>4. ASSUME NEW w \in Runs PROVE HasRead(w)' /\ PanelKnown(w)'
  <2>1. CASE run'[w].pc \notin {"panel", "commit"}
    BY <2>1 DEF HasRead, PanelKnown
  <2>2. CASE run'[w] = run[w] /\ kind'[run[w].p] = kind[run[w].p]
    <3>1. HasRead(w) /\ PanelKnown(w)
      BY DEF Books
    <3> QED
      BY <2>2, <3>1 DEF HasRead, PanelKnown, UpToDate, NewPeriods, Branch
  <2>3. CASE run'[w].pc = "panel" /\ HasRead(w)'
    BY <2>3 DEF PanelKnown
  <2> QED
    BY <2>1, <2>2, <2>3 DEF Keeps
<1> QED
  BY <1>2, <1>3, <1>4 DEF Books

\* The steps before a purchase and after it, and those of the outside world.
LEMMA OutsideBooks ==
    ASSUME IInv, Books, UNCHANGED <<run, rows, current, panel, credit, stale>>,
           lost \subseteq lost', FailedIsNoTest',
           \A p \in Payments : status[p] = "FAILED" => status'[p] = "FAILED",
           \A p \in Payments : status[p] # "NONE" => kind'[p] = kind[p]
    PROVE  Books'
<1>1. \A p \in Payments : Delivering(p)' = Delivering(p)
  BY DEF Delivering, Purchasing
<1>2. \A p \in Payments : Troubled(p) => Troubled(p)'
  BY <1>1 DEF Troubled
<1>3. ASSUME NEW w \in Runs PROVE Keeps(w)
  <2> SUFFICES ASSUME run'[w].pc \in {"panel", "commit"} PROVE kind'[run[w].p] = kind[run[w].p]
    BY DEF Keeps
  <2>1. Purchasing(w)
    BY DEF Purchasing
  <2> QED
    BY <2>1, PurchasingRun
<1> QED
  BY <1>2, <1>3, QuietStep

\* A run that is about to start a purchase, or has ended one some other way
\* than by the commit: its payment stays in trouble.
LEMMA OneRunBooks ==
    ASSUME IInv, Books, NEW w \in Runs, NEW p \in Payments, run[w].p = p,
           UNCHANGED <<kind, rows, current, panel, credit, stale>>,
           \A v \in Runs \ {w} : run'[v] = run[v],
           run'[w].pc \notin {"panel", "commit"},
           lost \subseteq lost',
           \A q \in Payments \ {p} : status'[q] = status[q],
           status'[p] = "FAILED" => p \notin Test,
           Purchasing(w) \/ status[p] = "FAILED" => Troubled(p)'
    PROVE  Books'
<1>1. FailedIsNoTest'
  BY DEF Books, FailedIsNoTest, Test
<1>2. ASSUME NEW q \in Payments, Troubled(q) PROVE Troubled(q)'
  <2>1. CASE q \in lost
    BY <2>1 DEF Troubled
  <2>2. CASE status[q] = "FAILED"
    <3>1. CASE q = p
      BY <2>2, <3>1
    <3>2. CASE q # p
      BY <2>2, <3>2 DEF Troubled
    <3> QED
      BY <3>1, <3>2
  <2>3. CASE Delivering(q) # {}
    <3>1. PICK v \in Runs : Purchasing(v) /\ run[v].p = q
      BY <2>3 DEF Delivering
    <3>2. CASE v = w
      BY <3>1, <3>2
    <3>3. CASE v # w
      <4>1. v \in Delivering(q)'
        BY <3>1, <3>3 DEF Delivering, Purchasing
      <4> QED
        BY <4>1 DEF Troubled
    <3> QED
      BY <3>2, <3>3
  <2> QED
    BY <1>2, <2>1, <2>2, <2>3 DEF Troubled
<1>3. \A v \in Runs : Keeps(v)
  BY DEF Keeps
<1> QED
  BY <1>1, <1>2, <1>3, QuietStep

LEMMA TransitionBooks ==
    ASSUME IInv, Books, NEW w \in Runs, TransitionStatus(w)
    PROVE  Books'
<1>0. PICK p \in Payments : p = run[w].p
  BY BusyRun DEF TransitionStatus, BusyRuns, IInv
<1>1. /\ run[w] \in BusyRuns /\ run[w].verdict \in Verdicts
      /\ UNCHANGED <<kind, lost, rows, current, panel, credit, stale>>
      /\ \A v \in Runs \ {w} : run'[v] = run[v]
      /\ ~Purchasing(w)
  BY BusyRun DEF TransitionStatus, BusyRuns, IInv, TypeOK, past, subs, Purchasing
<1>2. \/ UNCHANGED status /\ run'[w] = Idle
      \/ /\ status' = [status EXCEPT ![p] = run[w].verdict]
         /\ run[w].verdict # "COMPLETED" /\ run'[w] = Idle /\ status[p] # "FAILED"
      \/ /\ status' = [status EXCEPT ![p] = "COMPLETED"] /\ p \in Test /\ run'[w] = Idle
      \/ /\ status' = [status EXCEPT ![p] = "COMPLETED"] /\ p \notin Test
         /\ run'[w] = [run[w] EXCEPT !.pc = "read", !.disc = discount[Owner[p]] # 0]
  BY <1>0 DEF TransitionStatus, Transitions, IInv, TypeOK
<1>3. run'[w].pc \in {"idle", "read"}
  <2>1. [run[w] EXCEPT !.pc = "read", !.disc = discount[Owner[p]] # 0].pc = "read"
    BY <1>1 DEF BusyRuns
  <2>2. Idle.pc = "idle"
    BY DEF Idle
  <2> QED
    BY <1>2, <2>1, <2>2
<1>4. status[p] = "FAILED" => p \notin Test
  BY <1>1 DEF Books, FailedIsNoTest
<1>5. status'[p] # "FAILED" \/ status' = status
  BY <1>1, <1>2 DEF IInv, TypeOK, Verdicts
<1>6. \A q \in Payments : q # p => status'[q] = status[q]
  BY <1>2 DEF IInv, TypeOK
<1>7. status[p] = "FAILED" => Troubled(p)'
  <2> SUFFICES ASSUME status[p] = "FAILED" PROVE Troubled(p)'
    OBVIOUS
  <2>1. CASE UNCHANGED status
    BY <2>1 DEF Troubled
  <2>2. CASE run'[w] = [run[w] EXCEPT !.pc = "read", !.disc = discount[Owner[p]] # 0]
    <3>1. run'[w].pc = "read" /\ run'[w].p = p
      BY <1>0, <1>1, <2>2 DEF BusyRuns
    <3>2. w \in Delivering(p)'
      BY <3>1 DEF Delivering, Purchasing
    <3> QED
      BY <3>2 DEF Troubled
  <2> QED
    BY <1>2, <1>4, <2>1, <2>2
<1> QED
  BY <1>0, <1>1, <1>3, <1>4, <1>5, <1>6, <1>7, OneRunBooks

LEMMA ReadBooks ==
    ASSUME IInv, Books, NEW w \in Runs, ReadCurrentSubscription(w)
    PROVE  Books'
<1> DEFINE u == Owner[run[w].p]
           r == current[u]
<1>1. /\ run[w] \in BusyRuns /\ run[w].p \in Payments /\ u \in Users /\ Purchasing(w)
      /\ UNCHANGED <<status, kind, lost, rows, current, panel, credit, stale>>
      /\ \A v \in Runs \ {w} : run'[v] = run[v]
  BY BusyRun DEF ReadCurrentSubscription, BusyRuns, IInv, TypeOK, past, subs, order,
                 Purchasing
<1>2. /\ run'[w].pc = "panel" /\ run'[w].p = run[w].p /\ run'[w].row = r
      /\ r # NoRow => run'[w].periods = rows[r].periods
  BY <1>1 DEF ReadCurrentSubscription, BusyRuns, IInv, TypeOK
<1>3. \A v \in Runs : Purchasing(v)' <=> Purchasing(v)
  BY <1>1, <1>2 DEF Purchasing
<1>4. \A p \in Payments : Delivering(p)' = Delivering(p)
  BY <1>1, <1>2, <1>3 DEF Delivering, Purchasing, IInv, Exclusive
<1>5. \A p \in Payments : Troubled(p)' <=> Troubled(p)
  BY <1>1, <1>4 DEF Troubled
<1>6. FailedIsNoTest'
  BY <1>1 DEF Books, FailedIsNoTest, Test
<1>7. r # NoRow => r \in RowsOf(u) /\ rows[r].state # "absent" /\ rows[r].periods \in Nat
  BY <1>1, OwnRowsFacts DEF Books, OwnRows, IInv, TypeOK
<1>8. HasRead(w)'
  <2> SUFFICES ASSUME r # NoRow
               PROVE  /\ r \in RowsOf(u) /\ rows[r].state # "absent" /\ current[u] # NoRow
                      /\ rows[r].periods <= rows[r].periods
    BY <1>1, <1>2 DEF HasRead, RowsOf
  <2> QED
    BY <1>7
<1>9. \A v \in Runs : Keeps(v)
  BY <1>1, <1>2, <1>8 DEF Keeps
<1> QED
  BY <1>1, <1>2, <1>5, <1>6, <1>9, QuietStep

\* A visit to the panel: the buyer's other purchases stop knowing what it
\* has, and this one knows it unless the visit failed.
LEMMA PanelBooks ==
    ASSUME IInv, Books, NEW w \in Runs, CallPanel(w) \/ PanelFails(w)
    PROVE  Books'
<1>0. PICK p \in Payments : p = run[w].p
  BY BusyRun DEF CallPanel, PanelFails, BusyRuns, IInv
<1> DEFINE u == Owner[p]
<1>1. /\ run[w] \in BusyRuns /\ run[w].pc = "panel" /\ Purchasing(w)
      /\ UNCHANGED <<status, kind, lost, rows, current, credit, stale>>
      /\ \A v \in Runs \ {w} : run'[v] = run[v]
  BY BusyRun DEF CallPanel, PanelFails, BusyRuns, IInv, TypeOK, past, order, Purchasing
<1>2. /\ run'[w].pc = IF CallPanel(w) THEN "commit" ELSE "fail"
      /\ run'[w].p = p /\ run'[w].row = run[w].row
      /\ run'[w].periods = run[w].periods /\ run'[w].trial = run[w].trial
  <2>1. CASE CallPanel(w)
    BY <1>0, <1>1, <2>1 DEF CallPanel, BusyRuns, IInv, TypeOK
  <2>2. CASE ~CallPanel(w)
    BY <1>0, <1>1, <2>2 DEF PanelFails, BusyRuns, IInv, TypeOK
  <2> QED
    BY <2>1, <2>2
<1>3. \A q \in Payments : Delivering(q)' = Delivering(q)
  BY <1>0, <1>1, <1>2 DEF Delivering, Purchasing
<1>4. Troubled(p)' /\ \A q \in Payments : Troubled(q)' <=> Troubled(q)
  BY <1>0, <1>1, <1>3 DEF Troubled, Delivering
<1>5. /\ u \in Users /\ NewPeriods(w) \in Nat /\ NewPeriods(w) > 0
      /\ \A x \in Users : x # u => panel'[x] = panel[x]
      /\ panel'[u] \in {panel[u], NewPeriods(w)}
      /\ CallPanel(w) => panel'[u] = NewPeriods(w)
  BY <1>0, <1>1 DEF CallPanel, PanelFails, NewPeriods, BusyRuns, IInv, TypeOK
<1>6. \A r : PaidInto(r)' = PaidInto(r) /\ CreditedTo(r)' = CreditedTo(r)
  BY <1>1 DEF PaidInto, CreditedTo
<1>7. CreditsFinite' /\ FailedIsNoTest' /\ PeriodsAddUp' /\ CurrentIsOnlyLive'
  BY <1>1, <1>6 DEF Books, CreditsFinite, FailedIsNoTest, PeriodsAddUp,
                    CurrentIsOnlyLive, Test
<1>8. OwnRows'
  BY <1>1, <1>5 DEF Books, OwnRows
<1>9. PanelAgrees'
  <2> SUFFICES ASSUME NEW x \in Users \ stale,
                      \A q \in Payments : Owner[q] = x => ~Troubled(q)'
               PROVE  panel'[x] = IF current[x] = NoRow THEN 0 ELSE rows[current[x]].periods
    BY <1>1 DEF PanelAgrees, Troubled
  <2>1. x # u
    BY <1>4
  <2> QED
    BY <1>1, <1>4, <1>5, <2>1 DEF Books, PanelAgrees, Troubled
<1>10. ASSUME NEW v \in Runs \ {w}
       PROVE  HasRead(v)' /\ PanelKnown(v)'
  <2>1. CASE run[v].pc \notin {"panel", "commit"}
    BY <1>1, <2>1 DEF HasRead, PanelKnown
  <2>2. CASE run[v].pc \in {"panel", "commit"}
    <3>1. PICK q \in Payments : q = run[v].p /\ q # p
      BY <1>0, <1>1, <2>2, PurchasingRun DEF Purchasing, IInv, Exclusive
    <3>2. HasRead(v) /\ PanelKnown(v) /\ Owner[q] \in Users
      BY DEF Books
    <3>3. HasRead(v)'
      BY <1>1, <1>5, <3>1, <3>2 DEF HasRead, Branch
    <3>4. PanelKnown(v)'
      <4>1. CASE Owner[q] = u
        BY <1>1, <1>4, <3>1, <4>1 DEF PanelKnown
      <4>2. CASE Owner[q] # u
        BY <1>1, <1>4, <1>5, <3>1, <3>2, <4>2
        DEF PanelKnown, UpToDate, NewPeriods, Branch
      <4> QED
        BY <4>1, <4>2
    <3> QED
      BY <3>3, <3>4
  <2> QED
    BY <2>1, <2>2
<1>11. HasRead(w)' /\ PanelKnown(w)'
  <2>1. CASE ~CallPanel(w)
    BY <1>2, <2>1 DEF HasRead, PanelKnown
  <2>2. CASE CallPanel(w)
    <3>1. run[w].row # NoRow => run[w].row \in RowsOf(u) /\ current[u] # NoRow
      BY <1>0, <1>1 DEF Books, HasRead
    <3>2. Branch(w) = "NEW" => run[w].row = NoRow
      <4> SUFFICES ASSUME Branch(w) = "NEW" PROVE current[u] = NoRow
        BY <3>1
      <4>1. panel[u] = 0
        BY <1>0, <2>2 DEF CallPanel, PanelAccepts
      <4> QED
        BY <1>5, <4>1 DEF Books, OwnRows
    <3>3. Branch(w)' = Branch(w) /\ NewPeriods(w)' = NewPeriods(w)
      BY <1>0, <1>1, <1>2 DEF Branch, NewPeriods
    <3>4. HasRead(w)'
      BY <1>0, <1>1, <1>2, <1>5, <2>2, <3>2, <3>3 DEF Books, HasRead, RowsOf
    <3>5. PanelKnown(w)'
      BY <1>0, <1>2, <1>5, <2>2, <3>3 DEF PanelKnown
    <3> QED
      BY <3>4, <3>5
  <2> QED
    BY <2>1, <2>2
<1> QED
  BY <1>7, <1>8, <1>9, <1>10, <1>11 DEF Books

\* What the commit of run w does to the rows of its buyer u: p is the payment,
\* r the row the run had read, which is never the row of its own payment.
CommitWrites(w, p, u, r) ==
    /\ u \in Users /\ p \in Payments /\ r \in Rows \cup {NoRow}
    /\ p \in RowsOf(u) /\ rows[p].state = "absent" /\ rows[p].periods = 0
    /\ p # NoRow /\ r # p
    /\ r # NoRow => r \in RowsOf(u) /\ rows[r].state # "absent"
    /\ \A x \in Rows \ {p, r} : rows'[x] = rows[x]
    /\ \A q \in Payments \ {p} : credit'[q] = credit[q]
    /\ \A x \in Users \ {u} : current'[x] = current[x]
    /\ credit[p] = NoRow
    /\ stale' = IF UpToDate(w) THEN stale ELSE stale \cup {u}
    /\ \/ /\ Branch(w) = "RENEW" /\ r # NoRow
          /\ NewPeriods(w) = run[w].periods + 1
          /\ rows'[p] = rows[p] /\ rows'[r].state = rows[r].state
          /\ rows'[r].periods = NewPeriods(w)
          /\ current'[u] = current[u] /\ credit'[p] = r
       \/ /\ Branch(w) # "RENEW" /\ NewPeriods(w) = 1
          /\ rows'[p].state = "live" /\ rows'[p].periods = 1
          /\ r # NoRow => rows'[r].state = "deleted" /\ rows'[r].periods = rows[r].periods
          /\ current'[u] = p /\ credit'[p] = p

LEMMA CommitFacts ==
    ASSUME IInv, Books, NEW w \in Runs, CommitPurchase(w),
           NEW p, p = run[w].p, NEW u, u = Owner[p], NEW r, r = run[w].row
    PROVE  CommitWrites(w, p, u, r)
<1>1. /\ run[w] \in BusyRuns /\ run[w].pc = "commit" /\ Purchasing(w)
      /\ p \in Payments /\ p \in Rows /\ u \in Users /\ r \in Rows \cup {NoRow}
      /\ credit[p] = NoRow /\ p # NoRow /\ kind[p] \in PurchaseType
  BY BusyRun, PurchasingRun, OwnRowsFacts
  DEF CommitPurchase, BusyRuns, IInv, TypeOK, Purchasing
<1>2. /\ p \in RowsOf(u) /\ rows[p].state = "absent" /\ rows[p].periods = 0
      /\ r # NoRow => r \in RowsOf(u) /\ rows[r].state # "absent"
  BY <1>1, OwnRowsFacts DEF Books, OwnRows, HasRead
<1>3. r # p
  BY <1>1, <1>2
<1>4. /\ Branch(w) = "NEW" => r = NoRow
      /\ Branch(w) # "NEW" => r # NoRow
  BY <1>1 DEF Books, HasRead, IInv, CommitHasRow
<1>5. stale' = IF UpToDate(w) THEN stale ELSE stale \cup {u}
  BY DEF CommitPurchase, UpToDate
<1> DEFINE row == [state |-> "live", trial |-> FALSE, periods |-> NewPeriods(w)]
<1>6. \A x \in Rows : \A n : /\ [rows[x] EXCEPT !.state = "deleted"].state = "deleted"
                             /\ [rows[x] EXCEPT !.state = "deleted"].periods = rows[x].periods
                             /\ [rows[x] EXCEPT !.periods = n].state = rows[x].state
                             /\ [rows[x] EXCEPT !.periods = n].periods = n
  BY DEF IInv, TypeOK
<1>7. row.state = "live" /\ row.periods = NewPeriods(w)
  OBVIOUS
<1>8. Branch(w) \in PurchaseType
  BY <1>1 DEF Branch, PurchaseType
<1>9. CASE Branch(w) = "RENEW"
  <2>1. /\ rows' = [rows EXCEPT ![r] = [rows[r] EXCEPT !.periods = NewPeriods(w)]]
        /\ credit' = [credit EXCEPT ![p] = r] /\ current' = current
    BY <1>9 DEF CommitPurchase
  <2>2. rows'[r] = [rows[r] EXCEPT !.periods = NewPeriods(w)]
    BY <1>1, <1>4, <1>9, <2>1 DEF IInv, TypeOK
  <2>3. /\ \A x \in Rows \ {p, r} : rows'[x] = rows[x]
        /\ rows'[p] = rows[p]
        /\ \A q \in Payments \ {p} : credit'[q] = credit[q]
        /\ credit'[p] = r
    BY <1>1, <1>3, <2>1 DEF IInv, TypeOK
  <2>4. NewPeriods(w) = run[w].periods + 1
    BY <1>9 DEF NewPeriods
  <2>5. rows'[r].state = rows[r].state /\ rows'[r].periods = NewPeriods(w)
    BY <1>1, <1>4, <1>6, <1>9, <2>2
  <2> QED
    BY <1>1, <1>2, <1>3, <1>4, <1>5, <1>9, <2>1, <2>3, <2>4, <2>5 DEF CommitWrites
<1>10. CASE Branch(w) # "RENEW"
  <2>1. /\ credit' = [credit EXCEPT ![p] = p] /\ current' = [current EXCEPT ![u] = p]
        /\ \/ Branch(w) = "NEW" /\ rows' = [rows EXCEPT ![p] = row]
           \/ /\ Branch(w) = "CHANGE"
              /\ rows' = [[rows EXCEPT ![r] = [rows[r] EXCEPT !.state = "deleted"]]
                             EXCEPT ![p] = row]
    BY <1>10 DEF CommitPurchase
  <2>2. NewPeriods(w) = 1
    BY <1>10 DEF NewPeriods
  <2> HIDE DEF row
  <2>3. /\ \A x \in Rows \ {p, r} : rows'[x] = rows[x]
        /\ rows'[p] = row
        /\ r # NoRow => rows'[r] = [rows[r] EXCEPT !.state = "deleted"]
    BY <1>1, <1>3, <1>4, <2>1 DEF IInv, TypeOK
  <2>4. /\ \A q \in Payments \ {p} : credit'[q] = credit[q]
        /\ credit'[p] = p /\ current'[u] = p
        /\ \A x \in Users \ {u} : current'[x] = current[x]
    BY <1>1, <2>1 DEF IInv, TypeOK
  <2>5. r # NoRow => rows'[r].state = "deleted" /\ rows'[r].periods = rows[r].periods
    <3> SUFFICES ASSUME r # NoRow
                 PROVE  rows'[r].state = "deleted" /\ rows'[r].periods = rows[r].periods
      OBVIOUS
    <3>1. r \in Rows /\ rows'[r] = [rows[r] EXCEPT !.state = "deleted"]
      BY <1>1, <2>3
    <3> QED
      BY <1>6, <3>1
  <2>6. rows'[p].state = "live" /\ rows'[p].periods = 1
    BY <1>7, <2>2, <2>3
  <2> QED
    BY <1>1, <1>2, <1>3, <1>4, <1>5, <1>10, <2>2, <2>3, <2>4, <2>5, <2>6 DEF CommitWrites
<1> QED
  BY <1>9, <1>10

\* The periods of the buyer's rows still add up.
LEMMA CommitAddsUp ==
    ASSUME IInv, Books, NEW w \in Runs, NEW p, NEW u, NEW r,
           p = run[w].p, r = run[w].row, u = Owner[p], CommitWrites(w, p, u, r)
    PROVE  CreditsFinite' /\ PeriodsAddUp'
<1>0. /\ p \in Payments /\ credit[p] = NoRow /\ \A x \in Rows : x # NoRow
      /\ \A q \in Payments \ {p} : credit'[q] = credit[q]
  BY DEF CommitWrites, Rows
<1>1. \A x \in Rows : CreditedTo(x)' = IF x = credit'[p] THEN CreditedTo(x) \cup {p}
                                       ELSE CreditedTo(x)
  BY <1>0 DEF CreditedTo
<1>2. \A x \in Rows : IsFiniteSet(CreditedTo(x)) /\ p \notin CreditedTo(x)
  BY <1>0 DEF Books, CreditsFinite, CreditedTo
<1>3. \A x \in Rows : /\ IsFiniteSet(CreditedTo(x) \cup {p})
                      /\ Cardinality(CreditedTo(x) \cup {p}) = Cardinality(CreditedTo(x)) + 1
                      /\ Cardinality(CreditedTo(x)) \in Nat
  BY <1>2, FS_AddElement, FS_CardinalityType
<1>4. CreditsFinite'
  BY <1>1, <1>2, <1>3 DEF CreditsFinite
<1> DEFINE trial(x) == IF x \in TrialUsers THEN 1 ELSE 0
<1>5. \A x : PaidInto(x) = Cardinality(CreditedTo(x)) + trial(x)
  BY DEF PaidInto, CreditedTo
<1>6. \A x : PaidInto(x)' = Cardinality(CreditedTo(x)') + trial(x)
  BY DEF PaidInto, CreditedTo
<1>7. \A x \in Rows : PaidInto(x)' = IF x = credit'[p] THEN PaidInto(x) + 1 ELSE PaidInto(x)
  BY <1>1, <1>3, <1>5, <1>6
<1> HIDE DEF trial
<1>8. credit'[p] \in RowsOf(u) /\ u \in Users
  BY DEF CommitWrites
<1>9. PaidInto(p) = 0
  <2>1. CreditedTo(p) = {}
    <3> SUFFICES ASSUME NEW q \in Payments, credit[q] = p PROVE FALSE
      BY DEF CreditedTo
    <3>1. rows[p].state # "absent"
      BY DEF Books, OwnRows, CommitWrites
    <3> QED
      BY <3>1 DEF CommitWrites
  <2>2. p \notin TrialUsers
    BY OwnRowsFacts DEF CommitWrites
  <2>3. Cardinality(CreditedTo(p)) = 0 /\ trial(p) = 0
    BY <2>1, <2>2, FS_EmptySet DEF trial
  <2> QED
    BY <1>5, <2>3
<1>10. PeriodsAddUp'
  <2> SUFFICES ASSUME NEW x \in Users \ stale', NEW y \in RowsOf(x)
               PROVE  rows'[y].periods = PaidInto(y)'
    BY DEF PeriodsAddUp, RowsOf
  <2>1. y \in Rows
    BY OwnRowsFacts
  <2>2. x \notin stale /\ rows[y].periods = PaidInto(y)
    BY DEF CommitWrites, Books, PeriodsAddUp
  <2>3. CASE x # u
    <3>1. y \notin RowsOf(u)
      BY <1>8, <2>3, OwnRowsFacts
    <3>2. p \in RowsOf(u) /\ (r # NoRow => r \in RowsOf(u)) /\ y # NoRow
      BY <1>0, <2>1 DEF CommitWrites
    <3>3. y \notin {p, r} /\ y # credit'[p]
      BY <1>8, <3>1, <3>2
    <3>4. rows'[y] = rows[y]
      BY <2>1, <3>3 DEF CommitWrites
    <3> QED
      BY <1>7, <2>1, <2>2, <3>3, <3>4
  <2>4. CASE x = u
    <3>1. UpToDate(w)
      BY <1>8, <2>4 DEF CommitWrites
    <3>2. CASE y \notin {p, r}
      BY <1>7, <2>1, <2>2, <3>2 DEF CommitWrites
    <3>3. CASE y = r
      <4>1. r # NoRow /\ rows[r].periods = run[w].periods /\ rows[r].periods \in Nat
        BY <1>0, <2>1, <3>1, <3>3, OwnRowsFacts DEF UpToDate
      <4>2. \/ rows'[r].periods = rows[r].periods + 1 /\ credit'[p] = r
            \/ rows'[r].periods = rows[r].periods /\ credit'[p] # r
        BY <4>1 DEF CommitWrites
      <4> QED
        BY <1>7, <2>1, <2>2, <3>3, <4>2
    <3>4. CASE y = p
      BY <1>7, <1>9, <2>1, <2>2, <3>4 DEF CommitWrites
    <3> QED
      BY <3>2, <3>3, <3>4
  <2> QED
    BY <2>3, <2>4
<1> QED
  BY <1>4, <1>10

\* The buyer's live row is still the current one, and rows and purchases in
\* progress still belong to their buyers.
LEMMA CommitKeepsRows ==
    ASSUME IInv, Books, NEW w \in Runs, NEW p, NEW u, NEW r, CommitPurchase(w),
           p = run[w].p, r = run[w].row, u = Owner[p], CommitWrites(w, p, u, r)
    PROVE  OwnRows' /\ CurrentIsOnlyLive'
<1>1. /\ p \in Payments /\ u \in Users /\ UNCHANGED panel /\ panel[u] > 0
      /\ \A x \in Rows : x # NoRow
  BY DEF CommitWrites, CommitPurchase, Books, HasRead, Rows
<1>2. \A x \in Rows : rows[x].state # "absent" => rows'[x].state # "absent"
  <2> SUFFICES ASSUME NEW x \in Rows, rows[x].state # "absent" PROVE rows'[x].state # "absent"
    OBVIOUS
  <2>1. CASE x = r
    BY <1>1, <2>1 DEF CommitWrites
  <2>2. CASE x # r
    <3>1. x # p
      BY DEF CommitWrites
    <3> QED
      BY <2>2, <3>1 DEF CommitWrites
  <2> QED
    BY <2>1, <2>2
<1>3. credit'[p] \in RowsOf(u) /\ credit'[p] \in Rows /\ rows'[credit'[p]].state # "absent"
  BY OwnRowsFacts DEF CommitWrites
<1>4. OwnRows'
  <2>1. ASSUME NEW q \in Payments
        PROVE  /\ credit'[q] # NoRow => /\ credit'[q] \in RowsOf(Owner[q])
                                        /\ rows'[credit'[q]].state # "absent"
               /\ credit'[q] # q => rows'[q].state = "absent" /\ rows'[q].periods = 0
    <3>1. CASE q = p
      BY <1>3, <3>1 DEF CommitWrites
    <3>2. CASE q # p
      <4>1. credit'[q] = credit[q] /\ q \in Rows
        BY <3>2, OwnRowsFacts DEF CommitWrites
      <4>2. credit[q] # NoRow => /\ credit[q] \in RowsOf(Owner[q]) /\ credit[q] \in Rows
                                 /\ rows[credit[q]].state # "absent"
        BY OwnRowsFacts DEF Books, OwnRows
      <4>3. credit[q] # q => q # r /\ rows[q].state = "absent" /\ rows[q].periods = 0
        BY <1>1, <4>1 DEF Books, OwnRows, CommitWrites
      <4>4. credit[q] # q => rows'[q] = rows[q]
        BY <3>2, <4>1, <4>3 DEF CommitWrites
      <4> QED
        BY <1>2, <4>1, <4>2, <4>3, <4>4
    <3> QED
      BY <3>1, <3>2
  <2>2. ASSUME NEW x \in Users, current'[x] # NoRow
        PROVE  current'[x] \in RowsOf(x) /\ rows'[current'[x]].state # "absent" /\ panel[x] > 0
    <3>1. CASE current'[x] = current[x]
      <4>1. current[x] \in RowsOf(x) /\ current[x] \in Rows
            /\ rows[current[x]].state # "absent" /\ panel[x] > 0
        BY <2>2, <3>1, OwnRowsFacts DEF Books, OwnRows
      <4> QED
        BY <1>2, <3>1, <4>1
    <3>2. CASE current'[x] # current[x]
      <4>1. x = u /\ current'[u] = p /\ rows'[p].state = "live" /\ p \in RowsOf(u)
        BY <3>2 DEF CommitWrites
      <4> QED
        BY <1>1, <4>1
    <3> QED
      BY <3>1, <3>2
  <2> QED
    BY <1>1, <2>1, <2>2 DEF OwnRows, RowsOf
<1>5. CurrentIsOnlyLive'
  <2> SUFFICES ASSUME NEW x \in Users \ stale', NEW y \in RowsOf(x)
               PROVE  rows'[y].state = "live" <=> y = current'[x] /\ current'[x] # NoRow
    <3>1. \A x \in Users \ stale' :
            {y \in RowsOf(x) : rows'[y].state = "live"} \subseteq
                (IF current'[x] = NoRow THEN {} ELSE {current'[x]})
      OBVIOUS
    <3>2. \A x \in Users : current'[x] # NoRow => current'[x] \in RowsOf(x)
      BY <1>4 DEF OwnRows, RowsOf
    <3> QED
      BY <3>1, <3>2 DEF CurrentIsOnlyLive, RowsOf
  <2>1. y \in Rows /\ y # NoRow
    BY <1>1, OwnRowsFacts
  <2>2. x \notin stale /\ (rows[y].state = "live" <=> y = current[x])
    <3>1. x \notin stale
      BY DEF CommitWrites
    <3>2. {z \in RowsOf(x) : rows[z].state = "live"} =
            (IF current[x] = NoRow THEN {} ELSE {current[x]})
      BY <3>1 DEF Books, CurrentIsOnlyLive
    <3> QED
      BY <2>1, <3>1, <3>2
  <2>3. CASE x # u
    <3>1. y \notin RowsOf(u)
      BY <1>1, <2>3, OwnRowsFacts
    <3>2. y \notin {p, r} /\ current'[x] = current[x]
      BY <2>1, <2>3, <3>1 DEF CommitWrites
    <3>3. rows'[y] = rows[y]
      BY <2>1, <3>2 DEF CommitWrites
    <3> QED
      BY <2>1, <2>2, <3>2, <3>3
  <2>4. CASE x = u
    <3>1. current[u] = r
      BY <1>1, <2>4 DEF CommitWrites, UpToDate
    <3>2. CASE y \notin {p, r}
      <4>1. rows'[y] = rows[y] /\ current'[u] \in {p, r}
        BY <2>1, <3>1, <3>2 DEF CommitWrites
      <4> QED
        BY <2>2, <2>4, <3>1, <3>2, <4>1
    <3>3. CASE y = r
      BY <2>1, <2>2, <2>4, <3>1, <3>3 DEF CommitWrites
    <3>4. CASE y = p
      BY <2>1, <2>2, <2>4, <3>1, <3>4 DEF CommitWrites
    <3> QED
      BY <3>2, <3>3, <3>4
  <2> QED
    BY <2>3, <2>4
<1> QED
  BY <1>4, <1>5

\* The commit moves the books as a whole. Every other purchase of the buyer
\* is out of date now, and the panel has what was committed unless another
\* payment is in trouble.
LEMMA CommitBooks ==
    ASSUME IInv, Books, NEW w \in Runs, CommitPurchase(w)
    PROVE  Books'
<1>0. PICK p, u, r : p = run[w].p /\ u = Owner[p] /\ r = run[w].row
  OBVIOUS
<1>1. CommitWrites(w, p, u, r)
  BY <1>0, CommitFacts
<1>2. CreditsFinite' /\ PeriodsAddUp'
  BY <1>0, <1>1, CommitAddsUp
<1>3. OwnRows' /\ CurrentIsOnlyLive'
  BY <1>0, <1>1, CommitKeepsRows
<1>4. /\ UNCHANGED <<status, kind, panel, lost>> /\ run[w].pc = "commit"
      /\ run'[w].pc = "reward" /\ \A v \in Runs \ {w} : run'[v] = run[v]
  BY BusyRun DEF CommitPurchase, order, BusyRuns, IInv, TypeOK
<1>5. FailedIsNoTest'
  BY <1>4 DEF Books, FailedIsNoTest, Test
<1>6. \A q \in Payments \ {p} : Troubled(q)' <=> Troubled(q)
  <2> SUFFICES ASSUME NEW q \in Payments \ {p} PROVE Delivering(q)' = Delivering(q)
    BY <1>4 DEF Troubled
  <2> QED
    BY <1>0, <1>4 DEF Delivering, Purchasing
<1>7. /\ p \in Payments /\ u \in Users /\ \A x \in Rows : x # NoRow
      /\ r # NoRow => r \in Rows
  BY <1>1 DEF CommitWrites, Rows
<1>8. PanelAgrees'
  <2> SUFFICES ASSUME NEW x \in Users \ stale',
                      \A q \in Payments : Owner[q] = x => ~Troubled(q)'
               PROVE  panel[x] = IF current'[x] = NoRow THEN 0 ELSE rows'[current'[x]].periods
    BY <1>4 DEF PanelAgrees, Troubled
  <2>1. x \notin stale
    BY <1>1 DEF CommitWrites
  <2>2. CASE x # u
    <3>1. current'[x] = current[x] /\ \A q \in Payments : Owner[q] = x => ~Troubled(q)
      BY <1>0, <1>1, <1>6, <2>2 DEF CommitWrites
    <3>2. panel[x] = IF current[x] = NoRow THEN 0 ELSE rows[current[x]].periods
      BY <2>1, <3>1 DEF Books, PanelAgrees, Troubled
    <3>3. current[x] # NoRow => rows'[current[x]] = rows[current[x]]
      <4> SUFFICES ASSUME current[x] # NoRow PROVE rows'[current[x]] = rows[current[x]]
        OBVIOUS
      <4>1. current[x] \in RowsOf(x) /\ current[x] \in Rows
        BY OwnRowsFacts DEF Books, OwnRows
      <4>2. current[x] \notin RowsOf(u)
        BY <1>7, <2>2, <4>1, OwnRowsFacts
      <4>3. current[x] \notin {p, r}
        BY <1>1, <4>2 DEF CommitWrites
      <4> QED
        BY <1>1, <4>1, <4>3 DEF CommitWrites
    <3> QED
      BY <3>1, <3>2, <3>3
  <2>3. CASE x = u
    <3>1. UpToDate(w)
      BY <1>1, <1>7, <2>3 DEF CommitWrites
    <3>2. \A q \in Payments \ {p} : Owner[q] = u => ~Troubled(q)
      BY <1>6, <2>3
    <3>3. panel[u] = NewPeriods(w)
      BY <1>0, <1>4, <2>1, <2>3, <3>1, <3>2 DEF Books, PanelKnown
    <3>4. current[u] = r
      BY <1>0, <3>1 DEF UpToDate
    <3>5. current'[u] # NoRow /\ rows'[current'[u]].periods = NewPeriods(w)
      BY <1>1, <3>4 DEF CommitWrites
    <3> QED
      BY <2>3, <3>3, <3>5
  <2> QED
    BY <2>2, <2>3
<1>9. ASSUME NEW v \in Runs \ {w}, run[v].pc \in {"panel", "commit"},
             NEW y \in Users, y = Owner[run[v].p], NEW s, s = run[v].row
      PROVE  /\ s # NoRow => /\ s \in RowsOf(y) /\ rows'[s].state # "absent"
                             /\ current'[y] # NoRow
                             /\ y \notin stale' => run[v].periods <= rows'[s].periods
             /\ run[v].pc = "commit" /\ y \notin stale' /\ UpToDate(v)' => y # u /\ UpToDate(v)
  <2>1. run[v] \in BusyRuns /\ run[v].periods \in Nat /\ s \in Rows \cup {NoRow}
    BY <1>9, BusyRun DEF IInv, BusyRuns
  <2>2. y \notin stale' => y \notin stale /\ (y = u => UpToDate(w))
    BY <1>1, <1>7 DEF CommitWrites
  <2>3. s # NoRow => /\ s \in RowsOf(y) /\ s \in Rows /\ rows[s].state # "absent"
                     /\ current[y] # NoRow
                     /\ y \notin stale => run[v].periods <= rows[s].periods
    BY <1>9, OwnRowsFacts DEF Books, HasRead
  <2>4. s # NoRow => s # p /\ rows'[s].state # "absent" /\ current'[y] # NoRow
    <3> SUFFICES ASSUME s # NoRow
                 PROVE  s # p /\ rows'[s].state # "absent" /\ current'[y] # NoRow
      OBVIOUS
    <3>1. s # p
      BY <1>1, <2>3 DEF CommitWrites
    <3>2. rows'[s].state # "absent"
      <4>1. CASE s = r
        BY <1>1, <2>3, <4>1 DEF CommitWrites
      <4>2. CASE s # r
        BY <1>1, <2>3, <3>1, <4>2 DEF CommitWrites
      <4> QED
        BY <4>1, <4>2
    <3>3. current'[y] # NoRow
      BY <1>1, <2>3 DEF CommitWrites
    <3> QED
      BY <3>1, <3>2, <3>3
  <2>5. s # NoRow /\ s # r => rows'[s] = rows[s]
    BY <1>1, <2>3, <2>4 DEF CommitWrites
  <2>6. CASE y # u
    <3>1. s # NoRow => s # r
      <4> SUFFICES ASSUME s # NoRow, s = r PROVE FALSE
        OBVIOUS
      <4>1. s \in RowsOf(y) /\ s \in RowsOf(u)
        BY <1>1, <2>3 DEF CommitWrites
      <4> QED
        BY <1>7, <2>6, <4>1, OwnRowsFacts
    <3>2. current'[y] = current[y]
      BY <1>1, <2>6 DEF CommitWrites
    <3>3. UpToDate(v)' => UpToDate(v)
      BY <1>4, <1>9, <2>5, <3>1, <3>2 DEF UpToDate
    <3> QED
      BY <2>2, <2>3, <2>4, <2>5, <2>6, <3>1, <3>3
  <2>7. CASE y = u
    <3> SUFFICES ASSUME y \notin stale'
                 PROVE  /\ s # NoRow => run[v].periods <= rows'[s].periods
                        /\ ~UpToDate(v)'
      BY <2>3, <2>4, <2>7
    <3>1. /\ current[u] = r /\ (r # NoRow => rows[r].periods = run[w].periods)
          /\ s # NoRow => run[v].periods <= rows[s].periods
          /\ r # NoRow => rows[r].periods \in Nat
      BY <1>0, <1>7, <2>2, <2>3, <2>7, OwnRowsFacts DEF UpToDate
    <3>2. UpToDate(v)' <=> /\ current'[u] = s
                           /\ s # NoRow => rows'[s].periods = run[v].periods
      BY <1>4, <1>9, <2>7 DEF UpToDate
    <3>3. CASE Branch(w) = "RENEW"
      <4>1. /\ r # NoRow /\ current'[u] = r
            /\ rows'[r].periods = rows[r].periods + 1
        BY <1>1, <3>1, <3>3 DEF CommitWrites
      <4> QED
        BY <2>1, <2>5, <3>1, <3>2, <4>1
    <3>4. CASE Branch(w) # "RENEW"
      <4>1. current'[u] = p /\ (r # NoRow => rows'[r].periods = rows[r].periods)
        BY <1>1, <3>4 DEF CommitWrites
      <4>2. p # NoRow
        BY <1>1 DEF CommitWrites
      <4> QED
        BY <2>4, <2>5, <3>1, <3>2, <4>1, <4>2
    <3> QED
      BY <3>3, <3>4
  <2> QED
    BY <2>6, <2>7
<1>10. ASSUME NEW v \in Runs PROVE HasRead(v)' /\ PanelKnown(v)'
  <2>1. CASE run'[v].pc \notin {"panel", "commit"}
    BY <2>1 DEF HasRead, PanelKnown
  <2>2. CASE run'[v].pc \in {"panel", "commit"}
    <3>1. v # w /\ run'[v] = run[v] /\ run[v].pc \in {"panel", "commit"}
      BY <1>4, <2>2
    <3>2. PICK q, y, s : q = run[v].p /\ y = Owner[q] /\ s = run[v].row
      OBVIOUS
    <3>3. q \in Payments /\ y \in Users
      BY <3>1, <3>2, PurchasingRun DEF Purchasing
    <3>4. HasRead(v) /\ PanelKnown(v)
      BY DEF Books
    <3>5. /\ Branch(v)' = Branch(v) /\ NewPeriods(v)' = NewPeriods(v)
      BY <1>4, <3>1 DEF Branch, NewPeriods
    <3>6. HasRead(v)'
      BY <1>4, <1>9, <3>1, <3>2, <3>3, <3>4, <3>5 DEF HasRead, RowsOf
    <3>7. PanelKnown(v)'
      <4> SUFFICES ASSUME run[v].pc = "commit", y \notin stale', UpToDate(v)'
                   PROVE  \/ panel[y] = NewPeriods(v)
                          \/ \E q2 \in Payments \ {q} : Owner[q2] = y /\ Troubled(q2)'
        BY <1>4, <3>1, <3>2, <3>5 DEF PanelKnown
      <4>1. y # u /\ UpToDate(v) /\ y \notin stale
        BY <1>1, <1>9, <3>1, <3>2, <3>3 DEF CommitWrites
      <4>2. \/ panel[y] = NewPeriods(v)
            \/ \E q2 \in Payments \ {q} : Owner[q2] = y /\ Troubled(q2)
        BY <3>2, <3>4, <4>1 DEF PanelKnown
      <4> QED
        BY <1>0, <1>6, <4>1, <4>2
    <3> QED
      BY <3>6, <3>7
  <2> QED
    BY <2>1, <2>2
<1> QED
  BY <1>2, <1>3, <1>5, <1>8, <1>10 DEF Books

LEMMA StepBooks == IInv /\ Books /\ [Next]_vars => Books'
<1> SUFFICES ASSUME IInv, Books, [Next]_vars PROVE Books'
  OBVIOUS
<1>0. TypeOK
  BY DEF IInv
<1> USE DEF order, world, subs, past, count
<1>1. ASSUME NEW p \in Payments, NEW k \in PurchaseType, ChoosePurchaseType(p, k)
      PROVE  Books'
  <2>1. FailedIsNoTest'
    BY <1>0, <1>1 DEF Books, FailedIsNoTest, ChoosePurchaseType, Test, TypeOK, PurchaseType
  <2>2. \A q \in Payments : status[q] # "NONE" => kind'[q] = kind[q]
    BY <1>0, <1>1 DEF ChoosePurchaseType, IInv, Typed, TypeOK
  <2> QED
    BY <1>1, <2>1, <2>2, OutsideBooks DEF ChoosePurchaseType
<1>2. ASSUME NEW p \in Payments,
             CreatePayment(p) \/ CreateFreePayment(p) \/ CreateTestPayment(p)
      PROVE  Books'
  <2>1. status[p] = "NONE" /\ status' = [status EXCEPT ![p] = "PENDING"]
    BY <1>2 DEF CreatePayment, CreateFreePayment, CreateTestPayment, OpenTransaction
  <2>2. \A q \in Payments \ {p} : kind'[q] = kind[q]
    BY <1>0, <1>2 DEF CreatePayment, CreateFreePayment, CreateTestPayment, TypeOK
  <2>3. FailedIsNoTest'
    BY <1>0, <2>1, <2>2 DEF Books, FailedIsNoTest, Test, TypeOK
  <2> QED
    BY <1>0, <1>2, <2>1, <2>2, <2>3, OutsideBooks
    DEF CreatePayment, CreateFreePayment, CreateTestPayment, OpenTransaction, TypeOK
<1>3. ASSUME CancelOldTransactions PROVE Books'
  <2>1. FailedIsNoTest'
    BY <1>3 DEF Books, FailedIsNoTest, CancelOldTransactions, Test
  <2> QED
    BY <1>3, <2>1, OutsideBooks DEF CancelOldTransactions
<1>4. ASSUME \/ \E u \in Users : SetUserPurchaseDiscount(u)
             \/ \E p \in Payments : Gateway(p)
             \/ \E p \in Payments, v \in Verdicts : Webhook(p, v)
             \/ UNCHANGED vars
      PROVE  Books'
  <2>1. /\ UNCHANGED <<run, status, kind, rows, current, panel, credit, stale>>
        /\ lost \subseteq lost'
    BY <1>4 DEF SetUserPurchaseDiscount, Gateway, BuyerPays, InvoiceExpires,
       GatewayRefunds, GatewayDecides, GatewayResends, Webhook, AcceptWebhook,
       SwallowWebhook, vars
  <2>2. FailedIsNoTest'
    BY <2>1 DEF Books, FailedIsNoTest, Test
  <2> QED
    BY <2>1, <2>2, OutsideBooks
<1>5. ASSUME NEW w \in Runs, NEW p \in Payments,
             (\E v \in Verdicts : ReceiveTask(w, p, v)) \/ ConfirmFreePayment(w, p)
      PROVE  Books'
  <2>1. PICK v \in Verdicts : run' = [run EXCEPT ![w] = NewRun(p, v)]
    BY <1>5 DEF ReceiveTask, ConfirmFreePayment, Verdicts
  <2>2. /\ run'[w].pc = "transition" /\ run[w].pc = "idle"
        /\ \A x \in Runs \ {w} : run'[x] = run[x]
        /\ UNCHANGED <<status, kind, rows, current, panel, credit, stale, lost>>
    BY <1>0, <1>5, <2>1 DEF NewRun, TypeOK, ReceiveTask, ConfirmFreePayment, Busy
  <2>3. \A q \in Payments : Delivering(q)' = Delivering(q)
    BY <2>2 DEF Delivering, Purchasing
  <2>4. \A q \in Payments : Troubled(q)' <=> Troubled(q)
    BY <2>2, <2>3 DEF Troubled
  <2>5. FailedIsNoTest'
    BY <2>2 DEF Books, FailedIsNoTest, Test
  <2>6. \A x \in Runs : Keeps(x)
    BY <2>2 DEF Keeps
  <2> QED
    BY <2>2, <2>4, <2>5, <2>6, QuietStep
<1>6. ASSUME NEW w \in Runs, TransitionStatus(w) PROVE Books'
  BY <1>6, TransitionBooks
<1>7. ASSUME NEW w \in Runs, ReadCurrentSubscription(w) PROVE Books'
  BY <1>7, ReadBooks
<1>8. ASSUME NEW w \in Runs, CallPanel(w) \/ PanelFails(w) PROVE Books'
  BY <1>8, PanelBooks
<1>9. ASSUME NEW w \in Runs, CommitPurchase(w) PROVE Books'
  BY <1>9, CommitBooks
<1>10. ASSUME NEW w \in Runs,
              CommitFails(w) \/ MarkFailed(w) \/ FinishRun(w) \/ Crash(w)
       PROVE  Books'
  <2>1. PICK p \in Payments : p = run[w].p /\ run[w] \in BusyRuns
    BY <1>0, <1>10, BusyRun DEF CommitFails, MarkFailed, FinishRun, Crash, Busy, BusyRuns
  <2>2. /\ UNCHANGED <<kind, rows, current, panel, credit, stale>>
        /\ lost \subseteq lost' /\ \A v \in Runs \ {w} : run'[v] = run[v]
        /\ \A q \in Payments \ {p} : status'[q] = status[q]
    BY <1>0, <1>10, <2>1 DEF CommitFails, MarkFailed, FinishRun, Crash, TypeOK
  <2>3. CASE CommitFails(w)
    <3>1. run'[w].pc = "fail" /\ run'[w].p = p /\ UNCHANGED status
      BY <1>0, <2>1, <2>3 DEF CommitFails, TypeOK, BusyRuns
    <3>2. w \in Delivering(p)'
      BY <3>1 DEF Delivering, Purchasing
    <3>3. Troubled(p)' /\ (status'[p] = "FAILED" => p \notin Test)
      BY <3>1, <3>2 DEF Troubled, Books, FailedIsNoTest
    <3> QED
      BY <2>1, <2>2, <3>1, <3>3, OneRunBooks
  <2>4. CASE MarkFailed(w)
    <3>1. run'[w].pc = "idle" /\ status'[p] = "FAILED"
      BY <1>0, <2>1, <2>4 DEF MarkFailed, TypeOK, Idle
    <3>2. Troubled(p)' /\ p \notin Test
      BY <2>1, <2>4, <3>1, PurchasingRun DEF Troubled, Purchasing, MarkFailed
    <3> QED
      BY <2>1, <2>2, <3>1, <3>2, OneRunBooks
  <2>5. CASE FinishRun(w)
    <3>1. run'[w].pc = "idle" /\ UNCHANGED status /\ ~Purchasing(w)
      BY <1>0, <2>5 DEF FinishRun, TypeOK, Idle, Purchasing
    <3>2. /\ status[p] = "FAILED" => Troubled(p)'
          /\ status'[p] = "FAILED" => p \notin Test
      BY <3>1 DEF Troubled, Books, FailedIsNoTest
    <3> QED
      BY <2>1, <2>2, <3>1, <3>2, OneRunBooks
  <2>6. CASE Crash(w)
    <3>1. run'[w].pc = "idle" /\ UNCHANGED status /\ p \in lost'
      BY <1>0, <2>1, <2>6 DEF Crash, TypeOK, Idle
    <3>2. Troubled(p)' /\ (status'[p] = "FAILED" => p \notin Test)
      BY <3>1 DEF Troubled, Books, FailedIsNoTest
    <3> QED
      BY <2>1, <2>2, <3>1, <3>2, OneRunBooks
  <2> QED
    BY <1>10, <2>3, <2>4, <2>5, <2>6
<1> QED
  BY <1>1, <1>2, <1>3, <1>4, <1>5, <1>6, <1>7, <1>8, <1>9, <1>10
  DEF Next, Order, Advance

\* Books holds in every state too.
THEOREM BooksInvariance == Spec => []Books
<1>1. IInv /\ IInv' /\ Books /\ [Next]_vars => Books'
  BY StepBooks
<1> QED
  BY <1>1, InitBooks, Invariance, PTL DEF Spec

\* Whatever is retried, refunded or repeated, a row's expiry is what was paid
\* into it, as long as no purchase of the buyer committed a stale read.
THEOREM PeriodsAddUpHolds == Spec => []PeriodsAddUp
<1>1. Books => PeriodsAddUp
  BY DEF Books
<1> QED
  BY <1>1, BooksInvariance, PTL

\* And the current row is the only live one.
THEOREM CurrentIsOnlyLiveHolds == Spec => []CurrentIsOnlyLive
<1>1. Books => CurrentIsOnlyLive
  BY DEF Books
<1> QED
  BY <1>1, BooksInvariance, PTL

\* And the panel agrees with the database once no purchase is in trouble.
THEOREM PanelAgreesHolds == Spec => []PanelAgrees
<1>1. Books => PanelAgrees
  BY DEF Books
<1> QED
  BY <1>1, BooksInvariance, PTL
=============================================================================
