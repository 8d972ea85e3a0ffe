---------------------------- MODULE FeePayments ----------------------------
(***************************************************************************)
(* The money core: the fee ledger of one tenant, the payments that settle  *)
(* it, the line items that bind the two, the per-tenant receipt counter    *)
(* and the outbox events of every payment.                                 *)
(*                                                                         *)
(* One action per database transaction.  Every operation that runs inside  *)
(* `async with conn.transaction()' is one action; create_payment_order has *)
(* no transaction, so each of its statements, which commit one by one, is  *)
(* an action of its own and anything may happen between two of them.       *)
(*                                                                         *)
(* fee_payments.amount is kept as the set of priced lines it is the sum    *)
(* of.  The three unpaid ledger statuses (pending, due, overdue), which    *)
(* every operation of this module treats alike, are one value "unpaid".    *)
(***************************************************************************)
EXTENDS Naturals, Sequences

CONSTANTS
    Rows,       \* ids of fee_ledger rows
    Payments,   \* ids of fee_payments rows
    Prices,     \* amounts a ledger row may fall due for
    None        \* SQL NULL in fee_ledger.payment_id

ASSUME NoneAssumption == None \notin Payments
ASSUME IdsAssumption == Rows \cap Payments = {}

VARIABLES
    ledger,     \* fee_ledger: status, amount_due and payment_id of each row
    pay,        \* fee_payments
    items,      \* fee_payment_items
    counter,    \* fee_receipt_counters.last_number of the tenant
    log,        \* audit_events of each payment and of each waived row
    request,    \* the create-order requests in flight: step and rows read
    captured,   \* orders whose payer has paid at the gateway
    aged        \* orders created more than GATEWAY_TIMEOUT_HOURS ago

vars == <<ledger, pay, items, counter, log, request, captured, aged>>

-----------------------------------------------------------------------------
Lines == [row : Rows, amount : Prices]
Items == [payment : Payments, row : Rows, amount : Prices]

LedgerStatuses  == {"unpaid", "paid", "waived"}
LiveStatuses    == {"pending_verification", "processing", "paid"}
DeadStatuses    == {"rejected", "failed", "refunded", "pending"}
OpenStatuses    == {"pending", "processing"}
PaymentStatuses == LiveStatuses \cup DeadStatuses
Channels        == {"gateway", "upi", "offline"}
EventTypes      == {"FEE_PAID", "FEE_WAIVED", "FEE_PAYMENT_CLAIMED",
                    "FEE_PAYMENT_REJECTED", "FEE_PAYMENT_TIMEOUT"}
RequestSteps    == {"idle", "read", "inserted", "itemised", "done", "conflict"}

LedgerRow  == [status : LedgerStatuses, amount : Prices,
               payment : Payments \cup {None}]
PaymentRow == [status : PaymentStatuses \cup {"none"},
               channel : Channels \cup {"none"}, lines : SUBSET Lines,
               order : BOOLEAN, receipt : Nat]

\* A payment id that no INSERT has used yet.
NoPayment == [status |-> "none", channel |-> "none", lines |-> {},
              order |-> FALSE, receipt |-> 0]

Idle == [step |-> "idle", lines |-> {}]

Init ==
    /\ ledger \in [Rows -> [status : {"unpaid"}, amount : Prices,
                            payment : {None}]]
    /\ pay = [p \in Payments |-> NoPayment]
    /\ items = {}
    /\ counter = 0
    /\ log = [x \in Payments \cup Rows |-> <<>>]
    /\ request = [p \in Payments |-> Idle]
    /\ captured = {}
    /\ aged = {}

-----------------------------------------------------------------------------
(* What the statements of several operations have in common.               *)

\* The rows S priced at what they are due for now.
Priced(S) == {[row |-> r, amount |-> ledger[r].amount] : r \in S}

ItemsOf(p)          == {i \in items : i.payment = p}
ItemsFor(p, lines)  == {[payment |-> p, row |-> l.row, amount |-> l.amount] :
                            l \in lines}
RowsOf(its)         == {i.row : i \in its}

Fresh(p)   == pay[p].status = "none" /\ request[p].step = "idle"
\* Mutant of Payable: a row that is not paid yet will do.
PayableUnlessPaid(S) == S # {} /\ \A r \in S : ledger[r].status # "paid"
Payable(S) == S # {} /\ \A r \in S : ledger[r].status = "unpaid"


\* Mutant of LiveHolds: a claim under verification is not live.
PaidHolds(S) == \E i \in items : i.row \in S /\ pay[i.payment].status = "paid"

\* The dup-check: a live payment already covers one of the rows.
LiveHolds(S) ==
    \E i \in items : i.row \in S /\ pay[i.payment].status \in LiveStatuses

\* DELETE of the items dead payments still hold on the rows.
WithoutDead(S) ==
    {i \in items : ~ (i.row \in S /\ pay[i.payment].status \in DeadStatuses)}

\* Mutant of Unclaimed: no unique index.
NoUniqueIndex(new, old) == TRUE

\* UNIQUE (tenant_id, ledger_id): the rows of new are in no item of old.
Unclaimed(new, old) == RowsOf(new) \cap RowsOf(old) = {}

\* Mutants of MarkRowsPaid: payment_id is not set; the status is misspelt.
MarkStatusOnly(p, its) ==
    ledger' = [r \in Rows |-> IF r \in RowsOf(its)
                             THEN [ledger[r] EXCEPT !.status = "paid"]
                             ELSE ledger[r]]
MarkRowsSettled(p, its) ==
    ledger' = [r \in Rows |->
        IF r \in RowsOf(its)
        THEN [status |-> "settled", amount |-> ledger[r].amount, payment |-> p]
        ELSE ledger[r]]

\* UPDATE fee_ledger ... FROM fee_payment_items, with no test of fl.status.
MarkRowsPaid(p, its) ==
    ledger' = [r \in Rows |->
        IF r \in RowsOf(its)
        THEN [status |-> "paid", amount |-> ledger[r].amount, payment |-> p]
        ELSE ledger[r]]

Emit(x, type) == log' = [log EXCEPT ![x] = Append(@, type)]

\* Mutant of Settle: the receipt takes the number before it is incremented.
SettleWithLastNumber(p) ==
    /\ counter' = counter + 1
    /\ pay' = [pay EXCEPT ![p].status = "paid", ![p].receipt = counter]
    /\ MarkRowsPaid(p, ItemsOf(p))
    /\ Emit(p, "FEE_PAID")

\* The common end of a webhook and of an approval: next receipt number,
\* payment paid, every row its items cover paid, FEE_PAID.
Settle(p) ==
    /\ counter' = counter + 1
    /\ pay' = [pay EXCEPT ![p].status = "paid", ![p].receipt = counter + 1]
    /\ MarkRowsPaid(p, ItemsOf(p))
    /\ Emit(p, "FEE_PAID")

-----------------------------------------------------------------------------
(* create_payment_order, one action per statement.                         *)

AtStep(p, from, to) ==
    /\ request[p].step = from
    /\ request' = [request EXCEPT ![p].step = to]

RequestEnds(p, how) ==
    request' = [request EXCEPT ![p] = [step |-> how, lines |-> {}]]

\* The rows are read without a lock.
OrderReadsLedger(p, S) ==
    /\ Fresh(p)
    /\ Payable(S)
    /\ request' = [request EXCEPT ![p] = [step |-> "read", lines |-> Priced(S)]]
    /\ UNCHANGED <<ledger, pay, items, counter, log, captured, aged>>

OrderInsertsPayment(p) ==
    /\ AtStep(p, "read", "inserted")
    /\ pay' = [pay EXCEPT ![p] = [NoPayment EXCEPT !.status  = "pending",
                                                   !.channel = "gateway",
                                                   !.lines   = request[p].lines]]
    /\ UNCHANGED <<ledger, items, counter, log, captured, aged>>

\* Mutant of OrderInsertsItems: the ledger is read again for the amounts.
OrderInsertsRepricedItems(p) ==
    LET new == ItemsFor(p, Priced({l.row : l \in request[p].lines})) IN
    /\ Unclaimed(new, items)
    /\ AtStep(p, "inserted", "itemised")
    /\ items' = items \cup new
    /\ UNCHANGED <<ledger, pay, counter, log, captured, aged>>

\* executemany is all or nothing: a row already in an item of any payment
\* raises UniqueViolationError and the payment stays, without items.
OrderInsertsItems(p) ==
    LET new == ItemsFor(p, request[p].lines) IN
    \/ /\ Unclaimed(new, items)
       /\ AtStep(p, "inserted", "itemised")
       /\ items' = items \cup new
       /\ UNCHANGED <<ledger, pay, counter, log, captured, aged>>
    \/ /\ ~ Unclaimed(new, items)
       /\ request[p].step = "inserted"
       /\ RequestEnds(p, "conflict")
       /\ UNCHANGED <<ledger, pay, items, counter, log, captured, aged>>

\* The gateway answers with its order id, which is saved and sent on.  To die
\* between the two is to die before the call: nobody else knows the link.
OrderGetsGatewayId(p) ==
    /\ request[p].step = "itemised"
    /\ RequestEnds(p, "done")
    /\ pay' = [pay EXCEPT ![p].order = TRUE]
    /\ UNCHANGED <<ledger, items, counter, log, captured, aged>>

\* A gateway error (PaymentError), a lost connection or a process restart
\* ends the request; what it has committed stays.
OrderRequestDies(p) ==
    /\ request[p].step \in {"read", "inserted", "itemised"}
    /\ RequestEnds(p, "done")
    /\ UNCHANGED <<ledger, pay, items, counter, log, captured, aged>>

OrderStep(p) ==
    \/ OrderInsertsPayment(p)
    \/ OrderInsertsItems(p)
    \/ OrderGetsGatewayId(p)
    \/ OrderRequestDies(p)

-----------------------------------------------------------------------------
(* The gateway and its webhooks.                                           *)

\* The payer has the link once the order id is saved and the response sent;
\* nothing in the code ever cancels the link.
PayerPays(p) ==
    /\ pay[p].order
    /\ p \notin captured
    /\ captured' = captured \cup {p}
    /\ UNCHANGED <<ledger, pay, items, counter, log, request, aged>>

\* Mutants of Webhook: no status guard; a late webhook revives a failed order.
WebhookUnguarded(p) ==
    /\ p \in captured
    /\ Settle(p)
    /\ UNCHANGED <<items, request, captured, aged>>
WebhookRevives(p) ==
    /\ p \in captured
    /\ pay[p].status \in OpenStatuses \cup {"failed"}
    /\ Settle(p)
    /\ UNCHANGED <<items, request, captured, aged>>

\* _mark_payment_success.  A captured payment may be notified any number of
\* times.  A webhook that finds another status, or that FOR UPDATE NOWAIT
\* turns away, changes nothing and is a stuttering step.
Webhook(p) ==
    /\ p \in captured
    /\ pay[p].status \in OpenStatuses
    /\ Settle(p)
    /\ UNCHANGED <<items, request, captured, aged>>

-----------------------------------------------------------------------------
(* The office and the parents.                                             *)

\* Mutant of TakeOver: ON CONFLICT DO NOTHING in place of the dup-check.
TakeOverWhatIsFree(p, S, its) ==
    /\ Fresh(p)
    /\ Payable(S)
    /\ items' = WithoutDead(S) \cup
                   {i \in its : i.row \notin RowsOf(WithoutDead(S))}

\* The common part of record_offline_payment and submit_claim: a new payment
\* over the rows S takes their items over from dead payments.
TakeOver(p, S, its) ==
    /\ Fresh(p)
    /\ Payable(S)
    /\ ~ LiveHolds(S)
    /\ Unclaimed(its, WithoutDead(S))
    /\ items' = WithoutDead(S) \cup its

\* record_offline_payment
Collect(p, S) ==
    LET its == ItemsFor(p, Priced(S)) IN
    /\ TakeOver(p, S, its)
    /\ counter' = counter + 1
    /\ pay' = [pay EXCEPT ![p] = [status |-> "paid", channel |-> "offline",
                                  lines |-> Priced(S), order |-> FALSE,
                                  receipt |-> counter + 1]]
    /\ MarkRowsPaid(p, its)
    /\ Emit(p, "FEE_PAID")
    /\ UNCHANGED <<request, captured, aged>>

\* submit_claim
Claim(p, S) ==
    /\ TakeOver(p, S, ItemsFor(p, Priced(S)))
    /\ pay' = [pay EXCEPT ![p] = [status |-> "pending_verification",
                                  channel |-> "upi", lines |-> Priced(S),
                                  order |-> FALSE, receipt |-> 0]]
    /\ Emit(p, "FEE_PAYMENT_CLAIMED")
    /\ UNCHANGED <<ledger, counter, request, captured, aged>>

Approve(p) ==
    /\ pay[p].status = "pending_verification"
    /\ Settle(p)
    /\ UNCHANGED <<items, request, captured, aged>>

\* Mutant of Reject: the items of the claim are not deleted.
RejectKeepingItems(p) ==
    /\ pay[p].status = "pending_verification"
    /\ pay' = [pay EXCEPT ![p].status = "rejected"]
    /\ Emit(p, "FEE_PAYMENT_REJECTED")
    /\ UNCHANGED <<ledger, items, counter, request, captured, aged>>

Reject(p) ==
    /\ pay[p].status = "pending_verification"
    /\ pay' = [pay EXCEPT ![p].status = "rejected"]
    /\ items' = items \ ItemsOf(p)
    /\ Emit(p, "FEE_PAYMENT_REJECTED")
    /\ UNCHANGED <<ledger, counter, request, captured, aged>>

\* waive_fees
Waive(S) ==
    /\ Payable(S)
    /\ ~ LiveHolds(S)
    /\ ledger' = [r \in Rows |-> IF r \in S
                                 THEN [ledger[r] EXCEPT !.status = "waived"]
                                 ELSE ledger[r]]
    /\ log' = [x \in DOMAIN log |-> IF x \in S THEN Append(log[x], "FEE_WAIVED")
                                              ELSE log[x]]
    /\ UNCHANGED <<pay, items, counter, request, captured, aged>>

\* Mutant of SetDiscounts: paid rows are priced again too.
SetAllDiscounts(price) ==
    /\ ledger' = [r \in Rows |-> [ledger[r] EXCEPT !.amount = price[r]]]
    /\ UNCHANGED <<pay, items, counter, log, request, captured, aged>>

\* set_student_discounts: every unpaid row is priced again, whatever claim or
\* order is open on it.
SetDiscounts(price) ==
    /\ ledger' = [r \in Rows |-> IF ledger[r].status = "unpaid"
                                 THEN [ledger[r] EXCEPT !.amount = price[r]]
                                 ELSE ledger[r]]
    /\ UNCHANGED <<pay, items, counter, log, request, captured, aged>>

-----------------------------------------------------------------------------
(* The hourly gateway_payment_sweep.                                       *)

\* 24 hours pass over an order; its request, which lasts seconds, is over.
OrderAges(p) ==
    /\ pay[p].status \in OpenStatuses
    /\ request[p].step \in {"done", "conflict"}
    /\ p \notin aged
    /\ aged' = aged \cup {p}
    /\ UNCHANGED <<ledger, pay, items, counter, log, request, captured>>

\* Mutant of Sweep: orders that never got a gateway id are passed over.
SweepIssuedOrders ==
    LET timedOut == {p \in aged : pay[p].status \in OpenStatuses /\ pay[p].order} IN
    /\ timedOut # {}
    /\ pay' = [p \in Payments |-> IF p \in timedOut
                                  THEN [pay[p] EXCEPT !.status = "failed"]
                                  ELSE pay[p]]
    /\ items' = {i \in items : i.payment \notin timedOut}
    /\ log' = [x \in DOMAIN log |->
                  IF x \in timedOut THEN Append(log[x], "FEE_PAYMENT_TIMEOUT")
                                    ELSE log[x]]
    /\ UNCHANGED <<ledger, counter, request, captured, aged>>

Sweep ==
    LET timedOut == {p \in aged : pay[p].status \in OpenStatuses} IN
    /\ timedOut # {}
    /\ pay' = [p \in Payments |-> IF p \in timedOut
                                  THEN [pay[p] EXCEPT !.status = "failed"]
                                  ELSE pay[p]]
    /\ items' = {i \in items : i.payment \notin timedOut}
    /\ log' = [x \in DOMAIN log |->
                  IF x \in timedOut THEN Append(log[x], "FEE_PAYMENT_TIMEOUT")
                                    ELSE log[x]]
    /\ UNCHANGED <<ledger, counter, request, captured, aged>>

-----------------------------------------------------------------------------
Next ==
    \/ \E p \in Payments :
          \/ \E S \in SUBSET Rows : \/ OrderReadsLedger(p, S)
                                    \/ Collect(p, S)
                                    \/ Claim(p, S)
          \/ OrderStep(p)
          \/ PayerPays(p)
          \/ Webhook(p)
          \/ Approve(p)
          \/ Reject(p)
          \/ OrderAges(p)
    \/ \E S \in SUBSET Rows : Waive(S)
    \/ \E price \in [Rows -> Prices] : SetDiscounts(price)
    \/ Sweep

Spec == Init /\ [][Next]_vars

\* A request ends or dies, days pass and the worker's hourly scan runs; no
\* payer, gateway or clerk is obliged to do anything.
Fairness ==
    /\ \A p \in Payments : WF_vars(OrderStep(p)) /\ WF_vars(OrderAges(p))
    /\ WF_vars(Sweep)

FairSpec == Spec /\ Fairness

-----------------------------------------------------------------------------
(* Properties.                                                             *)

TypeOK ==
    /\ ledger \in [Rows -> LedgerRow]
    /\ pay \in [Payments -> PaymentRow]
    /\ items \in SUBSET Items
    /\ counter \in Nat
    /\ log \in [Payments \cup Rows -> Seq(EventTypes)]
    /\ request \in [Payments -> [step : RequestSteps, lines : SUBSET Lines]]
    /\ captured \in SUBSET Payments
    /\ aged \in SUBSET Payments

\* The double_pay scan of money_reconciliation finds nothing: however desk,
\* parent, accountant and gateway interleave, no ledger row is ever covered
\* by two live payments.
NoDoubleLivePayment ==
    \A i, j \in items :
        /\ i.row = j.row
        /\ pay[i.payment].status \in LiveStatuses
        /\ pay[j.payment].status \in LiveStatuses
        => i = j

\* The orphan_paid scan finds nothing, and its converse: a row is paid by
\* payment p exactly when an item of the paid payment p covers it, and no
\* other paid payment does.
PaidRowHasItsPaidItem ==
    \A r \in Rows : \A p \in Payments :
        (\E i \in items : i.row = r /\ i.payment = p /\ pay[p].status = "paid")
            <=> (ledger[r].status = "paid" /\ ledger[r].payment = p)

\* While a claim waits for verification its rows stay unpaid: nobody else
\* collects or waives them, so approving it charges each of them once and
\* overwrites nothing.
ClaimedRowsStayUnpaid ==
    \A i \in items :
        pay[i.payment].status = "pending_verification"
            => ledger[i.row].status = "unpaid"

\* A claim keeps, until it is rejected, and a paid claim or desk collection
\* keeps for ever, exactly the line items its amount was summed from: the
\* amount_mismatch scan finds no such payment.
ClaimsAndCollectionsKeepTheirItems ==
    \A p \in Payments :
        /\ pay[p].channel \in {"upi", "offline"}
        /\ pay[p].status \in LiveStatuses
        => ItemsOf(p) = ItemsFor(p, pay[p].lines)

\* Whatever a paid payment still holds was part of what it charged, at the
\* price it charged: an order never settles more than its payer paid for.
NothingSettledUncharged ==
    \A p \in Payments :
        pay[p].status = "paid" => ItemsOf(p) \subseteq ItemsFor(p, pay[p].lines)

\* Receipt numbers are issued once each, only to paid payments, and without
\* a gap: the paid payments carry exactly the numbers 1 .. counter.
ReceiptsWithoutGap ==
    /\ \A p \in Payments : pay[p].status = "paid" <=> pay[p].receipt # 0
    /\ \A n \in 1 .. counter :
          \E p \in Payments : /\ pay[p].receipt = n
                              /\ \A q \in Payments \ {p} : pay[q].receipt # n
    /\ \A p \in Payments : pay[p].receipt <= counter

\* What the outbox must hold for a payment with this status.
ExpectedLog(p) ==
    CASE pay[p].status = "failed"   -> <<"FEE_PAYMENT_TIMEOUT">>
      [] pay[p].status = "rejected" -> <<"FEE_PAYMENT_CLAIMED", "FEE_PAYMENT_REJECTED">>
      [] pay[p].status = "pending_verification" -> <<"FEE_PAYMENT_CLAIMED">>
      [] pay[p].status = "paid" /\ pay[p].channel = "upi"
                                    -> <<"FEE_PAYMENT_CLAIMED", "FEE_PAID">>
      [] pay[p].status = "paid" /\ pay[p].channel # "upi" -> <<"FEE_PAID">>
      [] OTHER -> <<>>

\* The outbox tells every payment's story once: the events of a payment are
\* those of its status, none missing and none twice, also when webhooks are
\* repeated or a sweep meets an order that was just paid.
OutboxMatchesStatus == \A p \in Payments : log[p] = ExpectedLog(p)

\* A paid row stays paid by the same payment at the same amount: no late
\* webhook, waiver, discount or second collection touches it again.
PaidRowIsFinal ==
    [][\A r \in Rows : ledger[r].status = "paid" => ledger'[r] = ledger[r]]_vars

\* A paid payment keeps its receipt, amount and items; a failed or rejected
\* one never comes back to life, however late its webhook.
ClosedPaymentIsFinal ==
    [][\A p \in Payments :
          pay[p].status \in {"paid", "failed", "rejected"} =>
              /\ pay'[p] = pay[p]
              /\ ItemsOf(p)' = ItemsOf(p)]_vars

\* Only an order still open at the gateway can turn a waived row into a paid
\* one; the desk and the claim queue never charge a waived row.
WaiverYieldsOnlyToGateway ==
    [][\A r \in Rows :
          ledger[r].status = "waived" /\ ledger'[r] # ledger[r] =>
              /\ ledger'[r].status = "paid"
              /\ pay[ledger'[r].payment].channel = "gateway"
              /\ pay[ledger'[r].payment].status \in OpenStatuses]_vars

\* Every gateway order is resolved: paid by its webhook, or failed by the
\* sweep, and then its rows are released; an abandoned one does not hold them
\* for ever.
OrdersAreResolved ==
    \A p \in Payments :
        pay[p].status = "pending" ~>
            pay[p].status = "paid" \/ (pay[p].status = "failed" /\ ItemsOf(p) = {})

-----------------------------------------------------------------------------
(* What docs and comments of the repository say, and the code does not do. *)

\* worker/scheduler.py:161-162: "every paid payment's amount equals the sum of
\* its line items".
PaidAmountEqualsItems ==
    \A p \in Payments :
        pay[p].status = "paid" => ItemsOf(p) = ItemsFor(p, pay[p].lines)

\* services/fee_collection.py:161: waived rows leave the outstanding figures
\* "without ever counting as collected".
WaivedNeverCollected ==
    [][\A r \in Rows : ledger[r].status = "waived" => ledger'[r].status = "waived"]_vars

-----------------------------------------------------------------------------
(* The inductive invariant behind the safety properties above.             *)

\* UNIQUE (tenant_id, ledger_id), and an item is a line of its payment, which
\* is open, claimed or paid: failing and rejecting delete the items.
ItemsInv ==
    /\ \A i, j \in items : i.row = j.row => i = j
    /\ \A i \in items :
          /\ [row |-> i.row, amount |-> i.amount] \in pay[i.payment].lines
          /\ pay[i.payment].status \in {"pending", "pending_verification", "paid"}

\* A paid row and its paid item come together.
PaidInv ==
    /\ \A i \in items : pay[i.payment].status = "paid" =>
          ledger[i.row].status = "paid" /\ ledger[i.row].payment = i.payment
    /\ \A r \in Rows : ledger[r].status = "paid" =>
          \E i \in items : /\ i.row = r
                           /\ i.payment = ledger[r].payment
                           /\ pay[i.payment].status = "paid"

\* A payment and a request price each row once.
LinesInv ==
    \A p \in Payments :
        /\ \A l, m \in pay[p].lines : l.row = m.row => l = m
        /\ \A l, m \in request[p].lines : l.row = m.row => l = m

\* The order request and its payment row are in step: there is no payment
\* before its INSERT, and an unfinished request's payment is still pending,
\* without items before they are inserted and without a link to pay.
RequestInv ==
    \A p \in Payments :
        /\ request[p].step = "read" => pay[p].status = "none"
        /\ request[p].step \in {"inserted", "itemised"} =>
              pay[p].status = "pending"
        /\ request[p].step = "inserted" =>
              ItemsOf(p) = {} /\ request[p].lines = pay[p].lines
        /\ p \in aged => request[p].step \in {"done", "conflict"}
        /\ p \in captured => pay[p].order
        /\ pay[p].order => request[p].step = "done"

\* A payment's channel follows from how it came to its status.
ChannelInv ==
    \A p \in Payments :
        /\ pay[p].status = "none" => pay[p] = NoPayment
        /\ pay[p].status = "pending" => pay[p].channel = "gateway"
        /\ pay[p].status \in {"pending_verification", "rejected"} =>
              pay[p].channel = "upi"
        /\ pay[p].status \notin {"processing", "refunded"}

\* A claimed or collected payment holds all of its lines.
KeepInv ==
    \A p \in Payments :
        /\ pay[p].channel \in {"upi", "offline"}
        /\ pay[p].status \in {"pending_verification", "paid"}
        => ItemsFor(p, pay[p].lines) \subseteq items

IInv ==
    /\ TypeOK
    /\ ItemsInv
    /\ PaidInv
    /\ LinesInv
    /\ RequestInv
    /\ ChannelInv
    /\ KeepInv
    /\ ClaimedRowsStayUnpaid
    /\ ReceiptsWithoutGap
    /\ OutboxMatchesStatus

-----------------------------------------------------------------------------
(* The abstract ledger, and this module as an implementation of it.        *)

RowReceipt ==
    [r \in Rows |-> IF ledger[r].status = "paid"
                    THEN pay[ledger[r].payment].receipt ELSE 0]

Abstract == INSTANCE FeeLedger WITH
    state   <- [r \in Rows |-> ledger[r].status],
    receipt <- RowReceipt,
    issued  <- counter

\* Every transaction of the code is a step of the abstract ledger or changes
\* nothing a parent can see of it.
ImplementsFeeLedger == Abstract!Spec
=============================================================================
