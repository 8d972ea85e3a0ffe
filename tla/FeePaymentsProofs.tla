------------------------- MODULE FeePaymentsProofs -------------------------
(***************************************************************************)
(* The safety of the money core for every number of rows, payments and     *)
(* prices: IInv is an inductive invariant of FeePayments, and the safety   *)
(* properties its runs check follow from it.                               *)
(*                                                                         *)
(* Then the same core statement by statement: LInv is an inductive         *)
(* invariant of MoneyLocks that says what each transaction has locked and  *)
(* what it may rely on, and every COMMIT is one step of FeePayments.       *)
(***************************************************************************)
EXTENDS MoneyLocks, TLAPS

-----------------------------------------------------------------------------
(* Lemmas about the operators the transactions are built from.             *)

LEMMA PricedType ==
    ASSUME TypeOK, NEW S \in SUBSET Rows
    PROVE  Priced(S) \in SUBSET Lines
BY DEF TypeOK, Priced, Lines, LedgerRow

LEMMA ItemsForType ==
    ASSUME NEW p \in Payments, NEW lines \in SUBSET Lines
    PROVE  ItemsFor(p, lines) \in SUBSET Items
BY DEF ItemsFor, Lines, Items

LEMMA RowsOfPriced ==
    ASSUME NEW p, NEW S
    PROVE  RowsOf(ItemsFor(p, Priced(S))) = S
<1>1. ASSUME NEW r \in RowsOf(ItemsFor(p, Priced(S)))
      PROVE  r \in S
  BY <1>1 DEF RowsOf, ItemsFor, Priced
<1>2. ASSUME NEW r \in S
      PROVE  r \in RowsOf(ItemsFor(p, Priced(S)))
  <2> DEFINE l == [row |-> r, amount |-> ledger[r].amount]
             i == [payment |-> p, row |-> l.row, amount |-> l.amount]
  <2>1. l \in Priced(S)
    BY DEF Priced
  <2>2. i \in ItemsFor(p, Priced(S))
    <3> HIDE DEF l
    <3>1. QED
      BY <2>1 DEF ItemsFor
  <2>3. i.row = r
    OBVIOUS
  <2> HIDE DEF i
  <2>4. QED
    BY <2>2, <2>3 DEF RowsOf
<1>3. QED
  BY <1>1, <1>2

LEMMA WithoutDeadType ==
    ASSUME TypeOK, NEW S \in SUBSET Rows
    PROVE  WithoutDead(S) \in SUBSET Items
BY DEF TypeOK, WithoutDead

LEMMA MarkRowsPaidType ==
    ASSUME TypeOK, NEW p \in Payments, NEW its, MarkRowsPaid(p, its)
    PROVE  ledger' \in [Rows -> LedgerRow]
<1>1. ASSUME NEW r \in Rows
      PROVE  [status |-> "paid", amount |-> ledger[r].amount, payment |-> p]
                \in LedgerRow
  BY DEF TypeOK, LedgerRow, LedgerStatuses
<1>2. QED
  BY <1>1 DEF TypeOK, MarkRowsPaid

LEMMA EmitType ==
    ASSUME TypeOK, NEW x \in Payments \cup Rows, NEW type \in EventTypes,
           Emit(x, type)
    PROVE  log' \in [Payments \cup Rows -> Seq(EventTypes)]
BY DEF TypeOK, Emit

LEMMA PaymentUpdate ==
    ASSUME NEW f \in [Payments -> PaymentRow], NEW p \in Payments
    PROVE  /\ \A s \in PaymentStatuses :
                 [f EXCEPT ![p].status = s] \in [Payments -> PaymentRow]
           /\ \A n \in Nat :
                 [f EXCEPT ![p].receipt = n] \in [Payments -> PaymentRow]
           /\ [f EXCEPT ![p].order = TRUE] \in [Payments -> PaymentRow]
<1>1. \A s \in PaymentStatuses : [f[p] EXCEPT !.status = s] \in PaymentRow
  BY DEF PaymentRow
<1>2. \A n \in Nat : [f[p] EXCEPT !.receipt = n] \in PaymentRow
  BY DEF PaymentRow
<1>3. [f[p] EXCEPT !.order = TRUE] \in PaymentRow
  BY DEF PaymentRow
<1>4. QED
  BY <1>1, <1>2, <1>3

LEMMA RequestType ==
    ASSUME TypeOK, NEW p \in Payments
    PROVE  /\ \A from, to \in RequestSteps : AtStep(p, from, to) =>
                 request' \in [Payments -> [step : RequestSteps, lines : SUBSET Lines]]
           /\ \A how \in RequestSteps : RequestEnds(p, how) =>
                 request' \in [Payments -> [step : RequestSteps, lines : SUBSET Lines]]
<1>1. \A s \in RequestSteps : [request[p] EXCEPT !.step = s]
                                \in [step : RequestSteps, lines : SUBSET Lines]
  BY DEF TypeOK
<1>2. \A s \in RequestSteps : [step |-> s, lines |-> {}]
                                \in [step : RequestSteps, lines : SUBSET Lines]
  OBVIOUS
<1>3. QED
  BY <1>1, <1>2 DEF TypeOK, AtStep, RequestEnds

LEMMA SettleType ==
    ASSUME TypeOK, NEW p \in Payments, Settle(p),
           UNCHANGED <<items, request, captured, aged>>
    PROVE  TypeOK'
<1>1. ledger' \in [Rows -> LedgerRow]
  BY MarkRowsPaidType DEF Settle
<1>2. log' \in [Payments \cup Rows -> Seq(EventTypes)]
  BY EmitType DEF Settle, EventTypes
<1>3. counter' \in Nat
  BY DEF Settle, TypeOK
<1>4. pay' \in [Payments -> PaymentRow]
  <2> DEFINE paid == [pay EXCEPT ![p].status = "paid"]
  <2>1. paid \in [Payments -> PaymentRow]
    BY PaymentUpdate DEF TypeOK, PaymentStatuses, LiveStatuses
  <2>2. [paid EXCEPT ![p].receipt = counter + 1] \in [Payments -> PaymentRow]
    <3> HIDE DEF paid
    <3>1. counter + 1 \in Nat
      BY DEF TypeOK
    <3>2. QED
      BY <2>1, <3>1, PaymentUpdate
  <2>3. QED
    BY <2>2, Zenon DEF Settle
<1>5. QED
  BY <1>1, <1>2, <1>3, <1>4 DEF TypeOK

LEMMA InitType == Init => TypeOK
<1> SUFFICES ASSUME Init PROVE TypeOK
  OBVIOUS
<1>1. ledger \in [Rows -> LedgerRow]
  BY DEF Init, LedgerRow, LedgerStatuses
<1>2. pay \in [Payments -> PaymentRow]
  BY DEF Init, NoPayment, PaymentRow
<1>3. request \in [Payments -> [step : RequestSteps, lines : SUBSET Lines]]
  BY DEF Init, Idle, RequestSteps
<1>4. QED
  BY <1>1, <1>2, <1>3 DEF Init, TypeOK

LEMMA NextType == TypeOK /\ [Next]_vars => TypeOK'
<1> SUFFICES ASSUME TypeOK, [Next]_vars PROVE TypeOK'
  OBVIOUS
<1>1. ASSUME NEW p \in Payments, NEW S \in SUBSET Rows, OrderReadsLedger(p, S)
      PROVE  TypeOK'
  BY <1>1, PricedType DEF OrderReadsLedger, TypeOK, RequestSteps
<1>2. ASSUME NEW p \in Payments, NEW S \in SUBSET Rows, Collect(p, S)
      PROVE  TypeOK'
  <2> DEFINE its == ItemsFor(p, Priced(S))
  <2>1. its \in SUBSET Items /\ WithoutDead(S) \in SUBSET Items
    BY PricedType, ItemsForType, WithoutDeadType
  <2>2. ledger' \in [Rows -> LedgerRow]
    BY <1>2, MarkRowsPaidType DEF Collect
  <2>3. pay' \in [Payments -> PaymentRow]
    BY <1>2, PricedType
       DEF Collect, TypeOK, PaymentRow, PaymentStatuses, LiveStatuses, Channels
  <2>4. log' \in [Payments \cup Rows -> Seq(EventTypes)]
    BY <1>2, EmitType DEF Collect, EventTypes
  <2>5. items' \in SUBSET Items
    BY <1>2, <2>1 DEF Collect, TakeOver
  <2>6. QED
    BY <1>2, <2>2, <2>3, <2>4, <2>5 DEF Collect, TypeOK
<1>3. ASSUME NEW p \in Payments, NEW S \in SUBSET Rows, Claim(p, S)
      PROVE  TypeOK'
  <2> DEFINE its == ItemsFor(p, Priced(S))
  <2>1. its \in SUBSET Items /\ WithoutDead(S) \in SUBSET Items
    BY PricedType, ItemsForType, WithoutDeadType
  <2>3. pay' \in [Payments -> PaymentRow]
    BY <1>3, PricedType
       DEF Claim, TypeOK, PaymentRow, PaymentStatuses, LiveStatuses, Channels
  <2>4. log' \in [Payments \cup Rows -> Seq(EventTypes)]
    BY <1>3, EmitType DEF Claim, EventTypes
  <2>5. items' \in SUBSET Items
    BY <1>3, <2>1 DEF Claim, TakeOver
  <2>6. QED
    BY <1>3, <2>3, <2>4, <2>5 DEF Claim, TypeOK
<1>4. ASSUME NEW p \in Payments, OrderInsertsPayment(p)
      PROVE  TypeOK'
  BY <1>4 DEF OrderInsertsPayment, AtStep, TypeOK, PaymentRow, NoPayment,
              PaymentStatuses, DeadStatuses, Channels, RequestSteps
<1>5. ASSUME NEW p \in Payments, OrderInsertsItems(p)
      PROVE  TypeOK'
  <2>1. ItemsFor(p, request[p].lines) \in SUBSET Items
    BY ItemsForType DEF TypeOK
  <2>2. request' \in [Payments -> [step : RequestSteps, lines : SUBSET Lines]]
    BY <1>5, RequestType DEF OrderInsertsItems, RequestSteps
  <2>3. QED
    BY <1>5, <2>1, <2>2 DEF OrderInsertsItems, TypeOK
<1>6. ASSUME NEW p \in Payments, OrderGetsGatewayId(p)
      PROVE  TypeOK'
  <2>1. request' \in [Payments -> [step : RequestSteps, lines : SUBSET Lines]]
    BY <1>6, RequestType DEF OrderGetsGatewayId, RequestSteps
  <2>2. pay' \in [Payments -> PaymentRow]
    BY <1>6, PaymentUpdate DEF OrderGetsGatewayId, TypeOK
  <2>3. QED
    BY <1>6, <2>1, <2>2 DEF OrderGetsGatewayId, TypeOK
<1>7. ASSUME NEW p \in Payments, OrderRequestDies(p)
      PROVE  TypeOK'
  BY <1>7 DEF OrderRequestDies, RequestEnds, TypeOK, RequestSteps
<1>8. ASSUME NEW p \in Payments, PayerPays(p)
      PROVE  TypeOK'
  BY <1>8 DEF PayerPays, TypeOK
<1>9. ASSUME NEW p \in Payments, Webhook(p)
      PROVE  TypeOK'
  BY <1>9, SettleType DEF Webhook
<1>10. ASSUME NEW p \in Payments, Approve(p)
       PROVE  TypeOK'
  BY <1>10, SettleType DEF Approve
<1>11. ASSUME NEW p \in Payments, Reject(p)
       PROVE  TypeOK'
  <2>1. pay' \in [Payments -> PaymentRow]
    BY <1>11 DEF Reject, TypeOK, PaymentRow, PaymentStatuses, DeadStatuses
  <2>2. log' \in [Payments \cup Rows -> Seq(EventTypes)]
    BY <1>11, EmitType DEF Reject, EventTypes
  <2>3. QED
    BY <1>11, <2>1, <2>2 DEF Reject, TypeOK
<1>12. ASSUME NEW p \in Payments, OrderAges(p)
       PROVE  TypeOK'
  BY <1>12 DEF OrderAges, TypeOK
<1>13. ASSUME NEW S \in SUBSET Rows, Waive(S)
       PROVE  TypeOK'
  <2>1. ledger' \in [Rows -> LedgerRow]
    BY <1>13 DEF Waive, TypeOK, LedgerRow, LedgerStatuses
  <2>2. log' \in [Payments \cup Rows -> Seq(EventTypes)]
    BY <1>13 DEF Waive, TypeOK, EventTypes
  <2>3. QED
    BY <1>13, <2>1, <2>2 DEF Waive, TypeOK
<1>14. ASSUME NEW price \in [Rows -> Prices], SetDiscounts(price)
       PROVE  TypeOK'
  BY <1>14 DEF SetDiscounts, TypeOK, LedgerRow
<1>15. CASE Sweep
  <2>1. pay' \in [Payments -> PaymentRow]
    <3>1. \A p \in Payments : [pay[p] EXCEPT !.status = "failed"] \in PaymentRow
      BY DEF TypeOK, PaymentRow, PaymentStatuses, DeadStatuses
    <3>2. QED
      BY <1>15, <3>1 DEF Sweep, TypeOK
  <2>2. log' \in [Payments \cup Rows -> Seq(EventTypes)]
    BY <1>15 DEF Sweep, TypeOK, EventTypes
  <2>3. QED
    BY <1>15, <2>1, <2>2 DEF Sweep, TypeOK
<1>16. CASE UNCHANGED vars
  BY <1>16 DEF vars, TypeOK
<1>17. QED
  BY <1>1, <1>2, <1>3, <1>4, <1>5, <1>6, <1>7, <1>8, <1>9, <1>10, <1>11, <1>12,
     <1>13, <1>14, <1>15, <1>16 DEF Next, OrderStep

-----------------------------------------------------------------------------
(* Receipts and outbox: what issuing one receipt, or none, preserves.      *)

LEMMA ReceiptIssued ==
    ASSUME TypeOK, ReceiptsWithoutGap, NEW p \in Payments,
           pay[p].status # "paid",
           counter' = counter + 1,
           pay'[p].status = "paid", pay'[p].receipt = counter + 1,
           \A q \in Payments : q # p => pay'[q] = pay[q]
    PROVE  ReceiptsWithoutGap'
<1> counter \in Nat /\ \A q \in Payments : pay[q].receipt \in Nat
  BY DEF TypeOK, PaymentRow
<1>1. pay[p].receipt = 0
  BY DEF ReceiptsWithoutGap
<1>2. \A q \in Payments : pay'[q].status = "paid" <=> pay'[q].receipt # 0
  BY DEF ReceiptsWithoutGap
<1>3. ASSUME NEW n \in 1 .. counter'
      PROVE  \E q \in Payments : /\ pay'[q].receipt = n
                                 /\ \A s \in Payments \ {q} : pay'[s].receipt # n
  <2>1. CASE n = counter + 1
    BY <2>1 DEF ReceiptsWithoutGap
  <2>2. CASE n # counter + 1
    <3>1. n \in 1 .. counter
      BY <2>2
    <3>2. PICK q \in Payments : /\ pay[q].receipt = n
                                /\ \A s \in Payments \ {q} : pay[s].receipt # n
      BY <3>1 DEF ReceiptsWithoutGap
    <3>3. q # p
      BY <3>1, <3>2, <1>1
    <3>4. QED
      BY <2>2, <3>2, <3>3
  <2>3. QED
    BY <2>1, <2>2
<1>4. \A q \in Payments : pay'[q].receipt <= counter'
  BY DEF ReceiptsWithoutGap
<1>5. QED
  BY <1>2, <1>3, <1>4 DEF ReceiptsWithoutGap

LEMMA NoReceiptIssued ==
    ASSUME ReceiptsWithoutGap, counter' = counter,
           \A q \in Payments : /\ pay'[q].receipt = pay[q].receipt
                               /\ pay'[q].status = "paid" <=> pay[q].status = "paid"
    PROVE  ReceiptsWithoutGap'
BY DEF ReceiptsWithoutGap

LEMMA OutboxStep ==
    ASSUME TypeOK, OutboxMatchesStatus, NEW p \in Payments,
           \A q \in Payments : q # p => pay'[q] = pay[q] /\ log'[q] = log[q],
           log'[p] = ExpectedLog(p)'
    PROVE  OutboxMatchesStatus'
BY DEF OutboxMatchesStatus, ExpectedLog

\* What Settle does, field by field.
LEMMA SettleEffect ==
    ASSUME TypeOK, NEW p \in Payments, Settle(p)
    PROVE  /\ pay'[p].status = "paid"
           /\ pay'[p].receipt = counter + 1
           /\ pay'[p].channel = pay[p].channel
           /\ pay'[p].lines = pay[p].lines
           /\ pay'[p].order = pay[p].order
           /\ \A q \in Payments : q # p => pay'[q] = pay[q]
           /\ counter' = counter + 1
           /\ \A i \in items : i.payment = p =>
                 /\ ledger'[i.row].status = "paid"
                 /\ ledger'[i.row].payment = p
           /\ \A r \in Rows : (\A i \in items : i.row = r => i.payment # p) =>
                 ledger'[r] = ledger[r]
           /\ \A r \in Rows : ledger'[r] # ledger[r] =>
                 \E i \in items : i.row = r /\ i.payment = p
           /\ log'[p] = Append(log[p], "FEE_PAID")
           /\ \A q \in Payments : q # p => log'[q] = log[q]
<1>1. /\ pay'[p].status = "paid"
      /\ pay'[p].receipt = counter + 1
      /\ pay'[p].channel = pay[p].channel
      /\ pay'[p].lines = pay[p].lines
      /\ pay'[p].order = pay[p].order
      /\ \A q \in Payments : q # p => pay'[q] = pay[q]
      /\ counter' = counter + 1
  BY DEF Settle, TypeOK, PaymentRow
<1>2. /\ log'[p] = Append(log[p], "FEE_PAID")
      /\ \A q \in Payments : q # p => log'[q] = log[q]
  BY DEF Settle, Emit, TypeOK
<1>3. \A i \in items : i.row \in Rows /\ i.payment \in Payments
  BY DEF TypeOK, Items
<1>4. \A r \in Rows : IF \E i \in items : i.row = r /\ i.payment = p
                      THEN ledger'[r].status = "paid" /\ ledger'[r].payment = p
                      ELSE ledger'[r] = ledger[r]
  BY DEF Settle, MarkRowsPaid, RowsOf, ItemsOf
<1>5. QED
  BY <1>1, <1>2, <1>3, <1>4

-----------------------------------------------------------------------------
(* Every action preserves the inductive invariant.                         *)

LEMMA SettleInv ==
    ASSUME IInv, NEW p \in Payments, Settle(p),
           pay[p].status \in {"pending", "pending_verification"},
           pay[p].status = "pending" => p \in captured,
           UNCHANGED <<items, request, captured, aged>>
    PROVE  IInv'
<1> TypeOK
  BY DEF IInv
<1> \A i \in items : i.row \in Rows /\ i.payment \in Payments
  BY DEF TypeOK, Items
<1>1. TypeOK'
  BY SettleType
<1>2. ItemsInv'
  <2>1. \A q \in Payments : /\ pay'[q].lines = pay[q].lines
                             /\ pay'[q].status \in {"paid", pay[q].status}
    BY SettleEffect
  <2>2. QED
    BY <2>1 DEF IInv, ItemsInv
<1>3. PaidInv'
  <2>1. \A i \in items : i.payment # p => ledger'[i.row] = ledger[i.row]
    BY SettleEffect DEF IInv, ItemsInv
  <2>2. ASSUME NEW i \in items, pay'[i.payment].status = "paid"
        PROVE  ledger'[i.row].status = "paid" /\ ledger'[i.row].payment = i.payment
    BY <2>1, <2>2, SettleEffect DEF IInv, PaidInv
  <2>3. ASSUME NEW r \in Rows, ledger'[r].status = "paid"
        PROVE  \E i \in items : /\ i.row = r
                                /\ i.payment = ledger'[r].payment
                                /\ pay'[i.payment].status = "paid"
    <3>1. CASE \E i \in items : i.row = r /\ i.payment = p
      BY <3>1, SettleEffect
    <3>2. CASE \A i \in items : i.row = r => i.payment # p
      BY <2>3, <3>2, SettleEffect DEF IInv, PaidInv
    <3>3. QED
      BY <3>1, <3>2
  <2>4. QED
    BY <2>2, <2>3 DEF PaidInv
<1>4. LinesInv'
  BY SettleEffect DEF IInv, LinesInv
<1>5. RequestInv'
  <2>1. request[p].step \notin {"read", "inserted", "itemised"}
    BY DEF IInv, RequestInv
  <2>2. \A q \in Payments : pay'[q].order = pay[q].order
    BY SettleEffect
  <2>3. \A q \in Payments : ItemsOf(q)' = ItemsOf(q)
    BY DEF ItemsOf
  <2>4. \A q \in Payments : q # p => pay'[q] = pay[q]
    BY SettleEffect
  <2>5. QED
    BY <2>1, <2>2, <2>3, <2>4 DEF IInv, RequestInv
<1>6. ChannelInv'
  BY SettleEffect DEF IInv, ChannelInv
<1>7. KeepInv'
  BY SettleEffect DEF IInv, KeepInv, ItemsFor, ChannelInv
<1>8. ClaimedRowsStayUnpaid'
  BY SettleEffect DEF IInv, ClaimedRowsStayUnpaid, ItemsInv
<1>9. ReceiptsWithoutGap'
  BY SettleEffect, ReceiptIssued DEF IInv
<1>10. OutboxMatchesStatus'
  <2>1. log'[p] = ExpectedLog(p)'
    BY SettleEffect DEF IInv, OutboxMatchesStatus, ExpectedLog, ChannelInv
  <2>2. QED
    BY <2>1, SettleEffect, OutboxStep DEF IInv
<1>11. QED
  BY <1>1, <1>2, <1>3, <1>4, <1>5, <1>6, <1>7, <1>8, <1>9, <1>10 DEF IInv

\* The items after a claim or a desk collection: the new ones, one per row of
\* S, and those of other payments on other rows; only open orders lost any.
LEMMA TakeOverEffect ==
    ASSUME IInv, NEW p \in Payments, NEW S \in SUBSET Rows,
           TakeOver(p, S, ItemsFor(p, Priced(S)))
    PROVE  /\ pay[p] = NoPayment
           /\ request[p].step = "idle"
           /\ \A r \in S : ledger[r].status = "unpaid"
           /\ \A i \in items' : IF i.payment = p
                 THEN [row |-> i.row, amount |-> i.amount] \in Priced(S)
                 ELSE i \in items /\ i.row \notin S
           /\ ItemsFor(p, Priced(S)) \subseteq items'
           /\ \A r \in S : \E i \in items' : i.row = r /\ i.payment = p
           /\ \A i \in items : /\ i.payment # p
                               /\ pay[i.payment].status # "pending" => i \in items'
           /\ \A i, j \in items' : i.row = j.row => i = j
<1> DEFINE new == ItemsFor(p, Priced(S))
<1> TypeOK
  BY DEF IInv
<1> \A i \in items : i.row \in Rows /\ i.payment \in Payments
  BY DEF TypeOK, Items
<1>1. /\ pay[p].status = "none"
      /\ request[p].step = "idle"
      /\ \A r \in S : ledger[r].status = "unpaid"
      /\ items' = WithoutDead(S) \cup new
      /\ RowsOf(new) \cap RowsOf(WithoutDead(S)) = {}
  BY DEF TakeOver, Fresh, Payable, Unclaimed
<1>2. pay[p] = NoPayment
  BY <1>1 DEF IInv, ChannelInv
<1>3. \A i \in items : i.payment # p
  BY <1>1 DEF IInv, ItemsInv
<1>4. /\ WithoutDead(S) \subseteq items
      /\ \A i \in items : pay[i.payment].status # "pending" => i \in WithoutDead(S)
  BY DEF WithoutDead, DeadStatuses, IInv, ItemsInv
<1>5. \A i \in new : /\ i.payment = p
                     /\ i.row \in S
                     /\ i.amount = ledger[i.row].amount
                     /\ [row |-> i.row, amount |-> i.amount] \in Priced(S)
  BY DEF ItemsFor, Priced
<1>6. \A r \in S : [payment |-> p, row |-> r, amount |-> ledger[r].amount] \in new
  <2> TAKE r \in S
  <2> DEFINE l == [row |-> r, amount |-> ledger[r].amount]
  <2>1. l \in Priced(S)
    BY DEF Priced
  <2>2. [payment |-> p, row |-> l.row, amount |-> l.amount] \in new
    <3> HIDE DEF l
    <3>1. QED
      BY <2>1 DEF ItemsFor
  <2>3. l.row = r /\ l.amount = ledger[r].amount
    OBVIOUS
  <2>4. QED
    BY <2>2, <2>3
<1>7. \A i \in WithoutDead(S) : i.row \notin S
  <2> SUFFICES ASSUME NEW i \in WithoutDead(S), i.row \in S PROVE FALSE
    OBVIOUS
  <2>1. PICK j \in new : j.row = i.row
    <3>1. [payment |-> p, row |-> i.row, amount |-> ledger[i.row].amount].row = i.row
      OBVIOUS
    <3> HIDE DEF new
    <3>2. QED
      BY <1>6, <3>1
  <2>2. i.row \in RowsOf(new) /\ i.row \in RowsOf(WithoutDead(S))
    <3> HIDE DEF new
    <3>1. \A its : \A k \in its : k.row \in RowsOf(its)
      BY DEF RowsOf
    <3>2. QED
      BY <2>1, <3>1
  <2>3. QED
    BY <1>1, <2>2
<1>8. \A i, j \in new : i.row = j.row => i = j
  BY DEF ItemsFor, Priced
<1>9. \A r \in S : \E i \in new : i.row = r /\ i.payment = p
  BY <1>6
<1> HIDE DEF new
<1>10. \A i, j \in items' : i.row = j.row => i = j
  BY <1>1, <1>4, <1>5, <1>7, <1>8 DEF IInv, ItemsInv
<1>11. QED
  BY <1>1, <1>2, <1>3, <1>4, <1>5, <1>7, <1>9, <1>10 DEF new

\* What a claim and a desk collection have in common: the parts of IInv that
\* speak of items, priced lines and requests.
LEMMA TakeOverInv ==
    ASSUME IInv, NEW p \in Payments, NEW S \in SUBSET Rows,
           TakeOver(p, S, ItemsFor(p, Priced(S))),
           pay'[p].status \in {"pending_verification", "paid"},
           pay'[p].lines = Priced(S),
           pay'[p].order = FALSE,
           \A q \in Payments : q # p => pay'[q] = pay[q],
           UNCHANGED <<request, captured, aged>>
    PROVE  ItemsInv' /\ LinesInv' /\ RequestInv' /\ KeepInv'
<1> TypeOK
  BY DEF IInv
<1> \A i \in items : i.row \in Rows /\ i.payment \in Payments
  BY DEF TypeOK, Items
<1>1. \A i \in items' : IF i.payment = p
                        THEN [row |-> i.row, amount |-> i.amount] \in Priced(S)
                        ELSE i \in items /\ i.row \notin S
  BY TakeOverEffect
<1>2. ItemsInv'
  <2>1. \A i, j \in items' : i.row = j.row => i = j
    BY TakeOverEffect
  <2>2. ASSUME NEW i \in items'
        PROVE  /\ [row |-> i.row, amount |-> i.amount] \in pay'[i.payment].lines
               /\ pay'[i.payment].status
                     \in {"pending", "pending_verification", "paid"}
    <3>1. CASE i.payment = p
      BY <1>1, <3>1
    <3>2. CASE i.payment # p
      BY <1>1, <3>2 DEF IInv, ItemsInv
    <3>3. QED
      BY <3>1, <3>2
  <2>3. QED
    BY <2>1, <2>2 DEF ItemsInv
<1>3. LinesInv'
  <2>1. \A l, m \in Priced(S) : l.row = m.row => l = m
    BY DEF Priced
  <2>2. QED
    BY <2>1 DEF IInv, LinesInv
<1>4. RequestInv'
  <2>1. /\ request[p].step = "idle"
        /\ pay[p].order = FALSE
    BY TakeOverEffect DEF NoPayment
  <2>2. p \notin captured /\ p \notin aged
    BY <2>1 DEF IInv, RequestInv
  <2>3. \A q \in Payments : q # p => ItemsOf(q)' \subseteq ItemsOf(q)
    BY <1>1 DEF ItemsOf
  <2>4. QED
    BY <2>1, <2>2, <2>3 DEF IInv, RequestInv
<1>5. KeepInv'
  <2> SUFFICES ASSUME NEW q \in Payments,
                      pay'[q].channel \in {"upi", "offline"},
                      pay'[q].status \in {"pending_verification", "paid"}
               PROVE  ItemsFor(q, pay'[q].lines) \subseteq items'
    BY DEF KeepInv, ItemsFor
  <2>1. CASE q = p
    BY <2>1, TakeOverEffect
  <2>2. CASE q # p
    <3>1. ItemsFor(q, pay[q].lines) \subseteq items
      BY <2>2 DEF IInv, KeepInv
    <3>2. \A i \in ItemsFor(q, pay[q].lines) : i.payment = q
      BY DEF ItemsFor
    <3>3. \A i \in items : /\ i.payment # p
                           /\ pay[i.payment].status # "pending" => i \in items'
      BY TakeOverEffect
    <3>4. pay'[q] = pay[q] /\ pay[q].status # "pending"
      BY <2>2
    <3>5. QED
      BY <3>1, <3>2, <3>3, <3>4
  <2>3. QED
    BY <2>1, <2>2
<1>6. QED
  BY <1>2, <1>3, <1>4, <1>5

LEMMA ClaimInv ==
    ASSUME IInv, NEW p \in Payments, NEW S \in SUBSET Rows, Claim(p, S)
    PROVE  IInv'
<1> TypeOK
  BY DEF IInv
<1> \A i \in items : i.row \in Rows /\ i.payment \in Payments
  BY DEF TypeOK, Items
<1>1. TypeOK'
  BY NextType DEF Next
<1>2. /\ TakeOver(p, S, ItemsFor(p, Priced(S)))
      /\ pay'[p] = [status |-> "pending_verification", channel |-> "upi",
                    lines |-> Priced(S), order |-> FALSE, receipt |-> 0]
      /\ \A q \in Payments : q # p => pay'[q] = pay[q]
      /\ log'[p] = Append(log[p], "FEE_PAYMENT_CLAIMED")
      /\ \A q \in Payments : q # p => log'[q] = log[q]
      /\ UNCHANGED <<ledger, counter, request, captured, aged>>
  <2>1. /\ TakeOver(p, S, ItemsFor(p, Priced(S)))
        /\ log'[p] = Append(log[p], "FEE_PAYMENT_CLAIMED")
        /\ \A q \in Payments : q # p => log'[q] = log[q]
        /\ UNCHANGED <<ledger, counter, request, captured, aged>>
    BY DEF Claim, TypeOK, Emit
  <2>2. /\ pay'[p] = [status |-> "pending_verification", channel |-> "upi",
                      lines |-> Priced(S), order |-> FALSE, receipt |-> 0]
        /\ \A q \in Payments : q # p => pay'[q] = pay[q]
    BY DEF Claim, TypeOK
  <2>3. QED
    BY <2>1, <2>2
<1>3. pay[p] = NoPayment
  BY <1>2, TakeOverEffect
<1>4. \A i \in items' : i.payment = p \/ i \in items
  BY <1>2, TakeOverEffect
<1>5. ItemsInv' /\ LinesInv' /\ RequestInv' /\ KeepInv'
  <2>1. /\ pay'[p].status \in {"pending_verification", "paid"}
        /\ pay'[p].lines = Priced(S)
        /\ pay'[p].order = FALSE
    BY <1>2
  <2>2. QED
    BY <1>2, <2>1, TakeOverInv
<1>6. PaidInv'
  <2>1. ASSUME NEW i \in items', pay'[i.payment].status = "paid"
        PROVE  ledger'[i.row].status = "paid" /\ ledger'[i.row].payment = i.payment
    BY <1>2, <1>4, <2>1 DEF IInv, PaidInv
  <2>2. ASSUME NEW r \in Rows, ledger'[r].status = "paid"
        PROVE  \E i \in items' : /\ i.row = r
                                 /\ i.payment = ledger'[r].payment
                                 /\ pay'[i.payment].status = "paid"
    <3>1. PICK i \in items : /\ i.row = r
                             /\ i.payment = ledger[r].payment
                             /\ pay[i.payment].status = "paid"
      BY <1>2, <2>2 DEF IInv, PaidInv
    <3>2. i \in items'
      BY <1>2, <3>1, TakeOverEffect
    <3>3. pay'[i.payment] = pay[i.payment]
      BY <1>2, <1>3, <3>1 DEF NoPayment
    <3>4. QED
      BY <1>2, <3>1, <3>2, <3>3
  <2>3. QED
    BY <2>1, <2>2 DEF PaidInv
<1>7. ChannelInv'
  BY <1>2 DEF IInv, ChannelInv
<1>8. ClaimedRowsStayUnpaid'
  <2>1. \A i \in items' : i.payment = p => i.row \in S
    <3>1. \A i \in items' : i.payment = p =>
              [row |-> i.row, amount |-> i.amount] \in Priced(S)
      BY <1>2, TakeOverEffect
    <3>2. QED
      BY <3>1 DEF Priced
  <2>2. \A r \in S : ledger'[r].status = "unpaid"
    BY <1>2, TakeOverEffect
  <2>3. QED
    BY <1>2, <1>4, <2>1, <2>2 DEF IInv, ClaimedRowsStayUnpaid
<1>9. ReceiptsWithoutGap'
  BY <1>2, <1>3, NoReceiptIssued DEF IInv, NoPayment
<1>10. OutboxMatchesStatus'
  <2>1. log[p] = <<>>
    BY <1>3 DEF IInv, OutboxMatchesStatus, ExpectedLog, NoPayment
  <2>2. log'[p] = ExpectedLog(p)'
    BY <1>2, <2>1 DEF ExpectedLog
  <2>3. QED
    BY <1>2, <2>2, OutboxStep DEF IInv
<1>11. QED
  BY <1>1, <1>5, <1>6, <1>7, <1>8, <1>9, <1>10 DEF IInv

LEMMA CollectInv ==
    ASSUME IInv, NEW p \in Payments, NEW S \in SUBSET Rows, Collect(p, S)
    PROVE  IInv'
<1> TypeOK
  BY DEF IInv
<1> \A i \in items : i.row \in Rows /\ i.payment \in Payments
  BY DEF TypeOK, Items
<1>1. TypeOK'
  BY NextType DEF Next
<1>2. /\ TakeOver(p, S, ItemsFor(p, Priced(S)))
      /\ MarkRowsPaid(p, ItemsFor(p, Priced(S)))
      /\ log'[p] = Append(log[p], "FEE_PAID")
      /\ \A q \in Payments : q # p => log'[q] = log[q]
      /\ counter' = counter + 1
      /\ UNCHANGED <<request, captured, aged>>
  BY DEF Collect, TypeOK, Emit
<1>3. /\ pay'[p] = [status |-> "paid", channel |-> "offline", lines |-> Priced(S),
                    order |-> FALSE, receipt |-> counter + 1]
      /\ \A q \in Payments : q # p => pay'[q] = pay[q]
  BY DEF Collect, TypeOK
<1>4. /\ pay'[p].status = "paid"
      /\ pay'[p].channel = "offline"
      /\ pay'[p].lines = Priced(S)
      /\ pay'[p].order = FALSE
      /\ pay'[p].receipt = counter + 1
  BY <1>3
<1>5. pay[p] = NoPayment
  BY <1>2, TakeOverEffect
<1>6. \A i \in items' : IF i.payment = p THEN i.row \in S
                                         ELSE i \in items /\ i.row \notin S
  <2>1. \A i \in items' : IF i.payment = p
                          THEN [row |-> i.row, amount |-> i.amount] \in Priced(S)
                          ELSE i \in items /\ i.row \notin S
    BY <1>2, TakeOverEffect
  <2>2. \A i : [row |-> i.row, amount |-> i.amount] \in Priced(S) => i.row \in S
    BY DEF Priced
  <2>3. QED
    BY <2>1, <2>2
<1>7. \A r \in Rows : IF r \in S
                      THEN ledger'[r].status = "paid" /\ ledger'[r].payment = p
                      ELSE ledger'[r] = ledger[r]
  <2>1. RowsOf(ItemsFor(p, Priced(S))) = S
    BY RowsOfPriced
  <2>2. QED
    BY <1>2, <2>1 DEF MarkRowsPaid
<1>8. ItemsInv' /\ LinesInv' /\ RequestInv' /\ KeepInv'
  BY <1>2, <1>3, <1>4, TakeOverInv
<1>9. PaidInv'
  <2>1. ASSUME NEW i \in items', pay'[i.payment].status = "paid"
        PROVE  ledger'[i.row].status = "paid" /\ ledger'[i.row].payment = i.payment
    BY <1>3, <1>6, <1>7, <2>1 DEF IInv, PaidInv
  <2>2. ASSUME NEW r \in Rows, ledger'[r].status = "paid"
        PROVE  \E i \in items' : /\ i.row = r
                                 /\ i.payment = ledger'[r].payment
                                 /\ pay'[i.payment].status = "paid"
    <3>1. CASE r \in S
      BY <1>2, <1>4, <1>7, <3>1, TakeOverEffect
    <3>2. CASE r \notin S
      <4>1. PICK i \in items : /\ i.row = r
                               /\ i.payment = ledger[r].payment
                               /\ pay[i.payment].status = "paid"
        BY <1>7, <2>2, <3>2 DEF IInv, PaidInv
      <4>2. i \in items'
        BY <1>2, <4>1, TakeOverEffect
      <4>3. pay'[i.payment] = pay[i.payment]
        BY <1>3, <1>5, <4>1 DEF NoPayment
      <4>4. QED
        BY <1>7, <3>2, <4>1, <4>2, <4>3
    <3>3. QED
      BY <3>1, <3>2
  <2>3. QED
    BY <2>1, <2>2 DEF PaidInv
<1>10. ChannelInv'
  BY <1>3, <1>4 DEF IInv, ChannelInv
<1>11. ClaimedRowsStayUnpaid'
  BY <1>3, <1>4, <1>6, <1>7 DEF IInv, ClaimedRowsStayUnpaid
<1>12. ReceiptsWithoutGap'
  BY <1>2, <1>3, <1>4, <1>5, ReceiptIssued DEF IInv, NoPayment
<1>13. OutboxMatchesStatus'
  <2>1. log[p] = <<>>
    BY <1>5 DEF IInv, OutboxMatchesStatus, ExpectedLog, NoPayment
  <2>2. log'[p] = ExpectedLog(p)'
    BY <1>2, <1>4, <2>1 DEF ExpectedLog
  <2>3. QED
    BY <1>2, <1>3, <2>2, OutboxStep DEF IInv
<1>14. QED
  BY <1>1, <1>8, <1>9, <1>10, <1>11, <1>12, <1>13 DEF IInv

\* A step that touches neither money nor items nor requests.
LEMMA FrameInv ==
    ASSUME IInv, TypeOK',
           UNCHANGED <<ledger, pay, items, counter, log>>, RequestInv', LinesInv'
    PROVE  IInv'
<1>1. ItemsInv' /\ PaidInv'
  BY DEF IInv, ItemsInv, PaidInv
<1>2. ChannelInv' /\ KeepInv'
  BY DEF IInv, ChannelInv, KeepInv, ItemsFor
<1>3. ClaimedRowsStayUnpaid' /\ ReceiptsWithoutGap'
  BY DEF IInv, ClaimedRowsStayUnpaid, ReceiptsWithoutGap
<1>4. OutboxMatchesStatus'
  BY DEF IInv, OutboxMatchesStatus, ExpectedLog
<1>5. QED
  BY <1>1, <1>2, <1>3, <1>4 DEF IInv

LEMMA OrderReadsLedgerInv ==
    ASSUME IInv, NEW p \in Payments, NEW S \in SUBSET Rows, OrderReadsLedger(p, S)
    PROVE  IInv'
<1> TypeOK
  BY DEF IInv
<1>1. TypeOK'
  BY NextType DEF Next
<1>2. /\ pay[p].status = "none"
      /\ request[p].step = "idle"
      /\ request'[p].step = "read"
      /\ request'[p].lines = Priced(S)
      /\ \A q \in Payments : q # p => request'[q] = request[q]
      /\ UNCHANGED <<ledger, pay, items, counter, log, captured, aged>>
  BY DEF OrderReadsLedger, Fresh, TypeOK
<1>3. LinesInv'
  <2>1. \A l, m \in Priced(S) : l.row = m.row => l = m
    BY DEF Priced
  <2>2. QED
    BY <1>2, <2>1 DEF IInv, LinesInv
<1>4. RequestInv'
  <2>1. \A q \in Payments : ItemsOf(q)' = ItemsOf(q)
    BY <1>2 DEF ItemsOf
  <2>2. QED
    BY <1>2, <2>1 DEF IInv, RequestInv
<1>5. QED
  BY <1>1, <1>2, <1>3, <1>4, FrameInv

LEMMA OrderInsertsPaymentInv ==
    ASSUME IInv, NEW p \in Payments, OrderInsertsPayment(p)
    PROVE  IInv'
<1> TypeOK
  BY DEF IInv
<1> \A i \in items : i.row \in Rows /\ i.payment \in Payments
  BY DEF TypeOK, Items
<1>1. TypeOK'
  BY NextType DEF Next, OrderStep
<1>2. /\ request[p].step = "read"
      /\ request'[p].step = "inserted"
      /\ request'[p].lines = request[p].lines
      /\ \A q \in Payments : q # p => request'[q] = request[q]
      /\ UNCHANGED <<ledger, items, counter, log, captured, aged>>
  BY DEF OrderInsertsPayment, AtStep, TypeOK
<1>3. /\ pay'[p].status = "pending"
      /\ pay'[p].channel = "gateway"
      /\ pay'[p].lines = request[p].lines
      /\ pay'[p].order = FALSE
      /\ pay'[p].receipt = 0
      /\ \A q \in Payments : q # p => pay'[q] = pay[q]
  BY DEF OrderInsertsPayment, NoPayment, TypeOK
<1>4. pay[p] = NoPayment
  BY <1>2 DEF IInv, RequestInv, ChannelInv
<1>5. \A i \in items : i.payment # p
  <2>1. pay[p].status = "none"
    BY <1>4 DEF NoPayment
  <2>2. QED
    BY <2>1 DEF IInv, ItemsInv
<1>6. ItemsInv'
  BY <1>2, <1>3, <1>5 DEF IInv, ItemsInv
<1>7. PaidInv'
  BY <1>2, <1>3, <1>5 DEF IInv, PaidInv
<1>8. LinesInv'
  BY <1>2, <1>3 DEF IInv, LinesInv
<1>9. RequestInv'
  <2>1. \A q \in Payments : ItemsOf(q)' = ItemsOf(q)
    BY <1>2 DEF ItemsOf
  <2>2. ItemsOf(p) = {}
    BY <1>5 DEF ItemsOf
  <2>3. p \notin aged /\ p \notin captured
    BY <1>2, <1>4 DEF IInv, RequestInv, NoPayment
  <2>4. QED
    BY <1>2, <1>3, <2>1, <2>2, <2>3 DEF IInv, RequestInv
<1>10. ChannelInv'
  BY <1>3 DEF IInv, ChannelInv
<1>11. KeepInv'
  BY <1>2, <1>3 DEF IInv, KeepInv, ItemsFor
<1>12. ClaimedRowsStayUnpaid'
  BY <1>2, <1>3, <1>5 DEF IInv, ClaimedRowsStayUnpaid
<1>13. ReceiptsWithoutGap'
  BY <1>2, <1>3, <1>4, NoReceiptIssued DEF IInv, NoPayment
<1>14. OutboxMatchesStatus'
  <2>1. log[p] = <<>>
    BY <1>4 DEF IInv, OutboxMatchesStatus, ExpectedLog, NoPayment
  <2>2. log'[p] = ExpectedLog(p)'
    BY <1>2, <1>3, <2>1 DEF ExpectedLog
  <2>3. QED
    BY <1>2, <1>3, <2>2, OutboxStep DEF IInv
<1>15. QED
  BY <1>1, <1>6, <1>7, <1>8, <1>9, <1>10, <1>11, <1>12, <1>13, <1>14 DEF IInv

LEMMA OrderInsertsItemsInv ==
    ASSUME IInv, NEW p \in Payments, OrderInsertsItems(p)
    PROVE  IInv'
<1> TypeOK
  BY DEF IInv
<1> \A i \in items : i.row \in Rows /\ i.payment \in Payments
  BY DEF TypeOK, Items
<1> DEFINE new == ItemsFor(p, request[p].lines)
<1>1. TypeOK'
  BY NextType DEF Next, OrderStep
<1>2. /\ request[p].step = "inserted"
      /\ UNCHANGED <<ledger, pay, counter, log, captured, aged>>
      /\ \A q \in Payments : q # p => request'[q] = request[q]
  BY DEF OrderInsertsItems, AtStep, RequestEnds, TypeOK
<1>3. CASE ~ Unclaimed(new, items)
  <2>1. /\ items' = items
        /\ request'[p].step = "conflict"
        /\ request'[p].lines = {}
    BY <1>3 DEF OrderInsertsItems, RequestEnds, TypeOK
  <2>2. LinesInv'
    BY <1>2, <2>1 DEF IInv, LinesInv
  <2>3. RequestInv'
    <3>1. \A q \in Payments : ItemsOf(q)' = ItemsOf(q)
      BY <2>1 DEF ItemsOf
    <3>2. QED
      BY <1>2, <2>1, <3>1 DEF IInv, RequestInv
  <2>4. QED
    BY <1>1, <1>2, <2>1, <2>2, <2>3, FrameInv
<1>4. CASE Unclaimed(new, items)
  <2>1. /\ items' = items \cup new
        /\ request'[p].step = "itemised"
        /\ request'[p].lines = request[p].lines
    BY <1>4 DEF OrderInsertsItems, AtStep, TypeOK
  <2>2. /\ pay[p].status = "pending"
        /\ pay[p].lines = request[p].lines
    BY <1>2 DEF IInv, RequestInv
  <2>3. \A i \in new : /\ i.payment = p
                       /\ [row |-> i.row, amount |-> i.amount] \in request[p].lines
    BY DEF ItemsFor, TypeOK, Lines
  <2>4. \A i \in new, j \in items : i.row # j.row
    BY <1>4 DEF Unclaimed, RowsOf
  <2>5. \A i, j \in new : i.row = j.row => i = j
    BY DEF ItemsFor, IInv, LinesInv
  <2> HIDE DEF new
  <2>6. ItemsInv'
    <3>1. \A i, j \in items' : i.row = j.row => i = j
      BY <2>1, <2>4, <2>5 DEF IInv, ItemsInv
    <3>2. QED
      BY <1>2, <2>1, <2>2, <2>3, <3>1 DEF IInv, ItemsInv
  <2>7. PaidInv'
    BY <1>2, <2>1, <2>2, <2>3 DEF IInv, PaidInv
  <2>8. LinesInv'
    BY <1>2, <2>1 DEF IInv, LinesInv
  <2>9. RequestInv'
    <3>1. \A q \in Payments : q # p => ItemsOf(q)' = ItemsOf(q)
      BY <2>1, <2>3 DEF ItemsOf
    <3>2. QED
      BY <1>2, <2>1, <2>2, <3>1 DEF IInv, RequestInv
  <2>10. ChannelInv'
    BY <1>2 DEF IInv, ChannelInv
  <2>11. KeepInv'
    BY <1>2, <2>1 DEF IInv, KeepInv, ItemsFor
  <2>12. ClaimedRowsStayUnpaid'
    BY <1>2, <2>1, <2>2, <2>3 DEF IInv, ClaimedRowsStayUnpaid
  <2>13. ReceiptsWithoutGap'
    BY <1>2 DEF IInv, ReceiptsWithoutGap
  <2>14. OutboxMatchesStatus'
    BY <1>2 DEF IInv, OutboxMatchesStatus, ExpectedLog
  <2>15. QED
    BY <1>1, <2>6, <2>7, <2>8, <2>9, <2>10, <2>11, <2>12, <2>13, <2>14 DEF IInv
<1>5. QED
  BY <1>3, <1>4

LEMMA OrderGetsGatewayIdInv ==
    ASSUME IInv, NEW p \in Payments, OrderGetsGatewayId(p)
    PROVE  IInv'
<1> TypeOK
  BY DEF IInv
<1> \A i \in items : i.row \in Rows /\ i.payment \in Payments
  BY DEF TypeOK, Items
<1>1. TypeOK'
  BY NextType DEF Next, OrderStep
<1>2. /\ request[p].step = "itemised"
      /\ request'[p].step = "done"
      /\ request'[p].lines = {}
      /\ \A q \in Payments : q # p => request'[q] = request[q]
      /\ UNCHANGED <<ledger, items, counter, log, captured, aged>>
  BY DEF OrderGetsGatewayId, RequestEnds, TypeOK
<1>3. /\ \A q \in Payments : /\ pay'[q].status = pay[q].status
                             /\ pay'[q].channel = pay[q].channel
                             /\ pay'[q].lines = pay[q].lines
                             /\ pay'[q].receipt = pay[q].receipt
      /\ pay'[p].order
      /\ \A q \in Payments : q # p => pay'[q] = pay[q]
  BY DEF OrderGetsGatewayId, TypeOK, PaymentRow
<1>4. ItemsInv' /\ PaidInv'
  BY <1>2, <1>3 DEF IInv, ItemsInv, PaidInv
<1>5. LinesInv'
  BY <1>2, <1>3 DEF IInv, LinesInv
<1>6. RequestInv'
  <2>1. \A q \in Payments : ItemsOf(q)' = ItemsOf(q)
    BY <1>2 DEF ItemsOf
  <2>2. QED
    BY <1>2, <1>3, <2>1 DEF IInv, RequestInv
<1>7. ChannelInv'
  BY <1>2, <1>3 DEF IInv, ChannelInv, RequestInv
<1>8. KeepInv'
  BY <1>2, <1>3 DEF IInv, KeepInv, ItemsFor
<1>9. ClaimedRowsStayUnpaid'
  BY <1>2, <1>3 DEF IInv, ClaimedRowsStayUnpaid
<1>10. ReceiptsWithoutGap'
  BY <1>2, <1>3, NoReceiptIssued DEF IInv
<1>11. OutboxMatchesStatus'
  BY <1>2, <1>3 DEF IInv, OutboxMatchesStatus, ExpectedLog
<1>12. QED
  BY <1>1, <1>4, <1>5, <1>6, <1>7, <1>8, <1>9, <1>10, <1>11 DEF IInv

\* The steps that only end a request, capture money or let time pass.
LEMMA OutsideStepInv ==
    ASSUME IInv, NEW p \in Payments,
           OrderRequestDies(p) \/ PayerPays(p) \/ OrderAges(p)
    PROVE  IInv'
<1> TypeOK
  BY DEF IInv
<1>1. TypeOK'
  BY NextType DEF Next, OrderStep
<1>2. UNCHANGED <<ledger, pay, items, counter, log>>
  BY DEF OrderRequestDies, PayerPays, OrderAges
<1>3. \A q \in Payments : ItemsOf(q)' = ItemsOf(q)
  BY <1>2 DEF ItemsOf
<1>4. LinesInv' /\ RequestInv'
  <2>1. CASE OrderRequestDies(p)
    <3>1. /\ request[p].step \in {"read", "inserted", "itemised"}
          /\ request'[p].step = "done"
          /\ request'[p].lines = {}
          /\ \A q \in Payments : q # p => request'[q] = request[q]
          /\ UNCHANGED <<captured, aged>>
      BY <2>1 DEF OrderRequestDies, RequestEnds, TypeOK
    <3>2. QED
      BY <1>2, <1>3, <3>1 DEF IInv, LinesInv, RequestInv
  <2>2. CASE PayerPays(p) \/ OrderAges(p)
    BY <1>2, <1>3, <2>2 DEF IInv, LinesInv, RequestInv, PayerPays, OrderAges
  <2>3. QED
    BY <2>1, <2>2
<1>5. QED
  BY <1>1, <1>2, <1>4, FrameInv

\* Payments of a set D are closed without money and lose their items.
LEMMA CloseInv ==
    ASSUME IInv, NEW D \in SUBSET Payments, NEW how \in {"rejected", "failed"},
           TypeOK',
           \A p \in D : /\ pay[p].status = IF how = "rejected"
                              THEN "pending_verification" ELSE "pending"
                        /\ request[p].step \notin {"inserted", "itemised"}
                        /\ pay'[p].status = how
                        /\ pay'[p].channel = pay[p].channel
                        /\ pay'[p].lines = pay[p].lines
                        /\ pay'[p].order = pay[p].order
                        /\ pay'[p].receipt = pay[p].receipt
                        /\ log'[p] = Append(log[p], IF how = "rejected"
                              THEN "FEE_PAYMENT_REJECTED" ELSE "FEE_PAYMENT_TIMEOUT"),
           \A p \in Payments : p \notin D => pay'[p] = pay[p] /\ log'[p] = log[p],
           items' = {i \in items : i.payment \notin D},
           UNCHANGED <<ledger, counter, request, captured, aged>>
    PROVE  IInv'
<1> TypeOK
  BY DEF IInv
<1> \A i \in items : i.row \in Rows /\ i.payment \in Payments
  BY DEF TypeOK, Items
<1>1. ItemsInv'
  BY DEF IInv, ItemsInv
<1>2. PaidInv'
  <2>1. \A i \in items : pay[i.payment].status = "paid" => i \in items'
    OBVIOUS
  <2>2. \A p \in Payments : pay[p].status = "paid" <=> pay'[p].status = "paid"
    OBVIOUS
  <2>3. QED
    BY <2>1, <2>2 DEF IInv, PaidInv
<1>3. LinesInv'
  BY DEF IInv, LinesInv
<1>4. RequestInv'
  <2>1. \A p \in Payments : ItemsOf(p)' \subseteq ItemsOf(p)
    BY DEF ItemsOf
  <2>2. \A p \in D : request[p].step # "read"
    BY DEF IInv, RequestInv
  <2>3. QED
    BY <2>1, <2>2 DEF IInv, RequestInv
<1>5. ChannelInv'
  <2>1. \A p \in D : how = "rejected" => pay[p].channel = "upi"
    BY DEF IInv, ChannelInv
  <2>2. QED
    BY <2>1 DEF IInv, ChannelInv
<1>6. KeepInv'
  <2> SUFFICES ASSUME NEW p \in Payments, NEW i \in ItemsFor(p, pay'[p].lines),
                      pay'[p].channel \in {"upi", "offline"},
                      pay'[p].status \in {"pending_verification", "paid"}
               PROVE  i \in items'
    BY DEF KeepInv, ItemsFor
  <2>1. p \notin D /\ pay'[p] = pay[p]
    OBVIOUS
  <2>2. i \in items
    BY <2>1 DEF IInv, KeepInv
  <2>3. i.payment = p
    BY DEF ItemsFor
  <2>4. QED
    BY <2>1, <2>2, <2>3
<1>7. ClaimedRowsStayUnpaid'
  BY DEF IInv, ClaimedRowsStayUnpaid
<1>8. ReceiptsWithoutGap'
  <2>1. \A p \in Payments : /\ pay'[p].receipt = pay[p].receipt
                            /\ pay'[p].status = "paid" <=> pay[p].status = "paid"
    OBVIOUS
  <2>2. QED
    BY <2>1, NoReceiptIssued DEF IInv
<1>9. OutboxMatchesStatus'
  <2> SUFFICES ASSUME NEW p \in Payments PROVE log'[p] = ExpectedLog(p)'
    BY DEF OutboxMatchesStatus
  <2>1. log[p] = ExpectedLog(p)
    BY DEF IInv, OutboxMatchesStatus
  <2>2. CASE p \in D
    BY <2>1, <2>2 DEF ExpectedLog
  <2>3. CASE p \notin D
    BY <2>1, <2>3 DEF ExpectedLog
  <2>4. QED
    BY <2>2, <2>3
<1>10. QED
  BY <1>1, <1>2, <1>3, <1>4, <1>5, <1>6, <1>7, <1>8, <1>9 DEF IInv

LEMMA RejectInv ==
    ASSUME IInv, NEW p \in Payments, Reject(p)
    PROVE  IInv'
<1> TypeOK
  BY DEF IInv
<1>1. TypeOK'
  BY NextType DEF Next
<1>2. /\ pay[p].status = "pending_verification"
      /\ request[p].step \notin {"inserted", "itemised"}
  BY DEF Reject, IInv, RequestInv
<1>3. /\ pay'[p].status = "rejected"
      /\ pay'[p].channel = pay[p].channel
      /\ pay'[p].lines = pay[p].lines
      /\ pay'[p].order = pay[p].order
      /\ pay'[p].receipt = pay[p].receipt
      /\ \A q \in Payments : q # p => pay'[q] = pay[q]
  BY DEF Reject, TypeOK, PaymentRow
<1>4. /\ log'[p] = Append(log[p], "FEE_PAYMENT_REJECTED")
      /\ \A q \in Payments : q # p => log'[q] = log[q]
  BY DEF Reject, Emit, TypeOK
<1>5. items' = {i \in items : i.payment \notin {p}}
  BY DEF Reject, ItemsOf
<1>6. UNCHANGED <<ledger, counter, request, captured, aged>>
  BY DEF Reject
<1>7. QED
  <2> DEFINE D == {p}
             how == "rejected"
  <2>1. D \in SUBSET Payments /\ how \in {"rejected", "failed"}
    OBVIOUS
  <2>2. \A q \in D : /\ pay[q].status = IF how = "rejected"
                           THEN "pending_verification" ELSE "pending"
                     /\ request[q].step \notin {"inserted", "itemised"}
                     /\ pay'[q].status = how
                     /\ pay'[q].channel = pay[q].channel
                     /\ pay'[q].lines = pay[q].lines
                     /\ pay'[q].order = pay[q].order
                     /\ pay'[q].receipt = pay[q].receipt
                     /\ log'[q] = Append(log[q], IF how = "rejected"
                           THEN "FEE_PAYMENT_REJECTED" ELSE "FEE_PAYMENT_TIMEOUT")
    BY <1>2, <1>3, <1>4
  <2>3. \A q \in Payments : q \notin D => pay'[q] = pay[q] /\ log'[q] = log[q]
    BY <1>3, <1>4
  <2>4. items' = {i \in items : i.payment \notin D}
    BY <1>5
  <2> HIDE DEF D, how
  <2>5. QED
    BY <1>1, <1>6, <2>1, <2>2, <2>3, <2>4, CloseInv

LEMMA SweepInv ==
    ASSUME IInv, Sweep
    PROVE  IInv'
<1> TypeOK
  BY DEF IInv
<1> DEFINE D == {p \in aged : pay[p].status \in OpenStatuses}
           how == "failed"
<1>1. TypeOK'
  BY NextType DEF Next
<1>2. D \in SUBSET Payments /\ how \in {"rejected", "failed"}
  BY DEF TypeOK
<1>3. \A p \in D : /\ pay[p].status = "pending"
                   /\ request[p].step \notin {"inserted", "itemised"}
  BY DEF IInv, ChannelInv, RequestInv, OpenStatuses, TypeOK
<1>4. \A p \in D : /\ pay'[p].status = "failed"
                   /\ pay'[p].channel = pay[p].channel
                   /\ pay'[p].lines = pay[p].lines
                   /\ pay'[p].order = pay[p].order
                   /\ pay'[p].receipt = pay[p].receipt
  BY <1>2 DEF Sweep, TypeOK, PaymentRow
<1>5. \A p \in D : log'[p] = Append(log[p], "FEE_PAYMENT_TIMEOUT")
  BY <1>2 DEF Sweep, TypeOK
<1>6. \A p \in Payments : p \notin D => pay'[p] = pay[p] /\ log'[p] = log[p]
  BY DEF Sweep, TypeOK
<1>7. /\ items' = {i \in items : i.payment \notin D}
      /\ UNCHANGED <<ledger, counter, request, captured, aged>>
  BY DEF Sweep
<1>8. \A p \in D : /\ pay[p].status = IF how = "rejected"
                         THEN "pending_verification" ELSE "pending"
                   /\ request[p].step \notin {"inserted", "itemised"}
                   /\ pay'[p].status = how
                   /\ pay'[p].channel = pay[p].channel
                   /\ pay'[p].lines = pay[p].lines
                   /\ pay'[p].order = pay[p].order
                   /\ pay'[p].receipt = pay[p].receipt
                   /\ log'[p] = Append(log[p], IF how = "rejected"
                         THEN "FEE_PAYMENT_REJECTED" ELSE "FEE_PAYMENT_TIMEOUT")
  <2> HIDE DEF D
  <2>1. QED
    BY <1>3, <1>4, <1>5
<1> HIDE DEF D, how
<1>9. QED
  BY <1>1, <1>2, <1>6, <1>7, <1>8, CloseInv

\* A waiver or a new price changes unpaid rows only, and no claimed row
\* becomes anything but unpaid.
LEMMA UnpaidRowsInv ==
    ASSUME IInv, TypeOK',
           UNCHANGED <<pay, items, counter, request, captured, aged>>,
           \A p \in Payments : log'[p] = log[p],
           \A r \in Rows : ledger'[r] # ledger[r] =>
               ledger[r].status = "unpaid" /\ ledger'[r].status # "paid",
           \A i \in items : pay[i.payment].status = "pending_verification" =>
               ledger'[i.row].status = "unpaid"
    PROVE  IInv'
<1> TypeOK
  BY DEF IInv
<1> \A i \in items : i.row \in Rows /\ i.payment \in Payments
  BY DEF TypeOK, Items
<1>1. ItemsInv'
  BY DEF IInv, ItemsInv
<1>2. PaidInv'
  <2>1. \A r \in Rows : ledger[r].status = "paid" \/ ledger'[r].status = "paid"
                           => ledger'[r] = ledger[r]
    OBVIOUS
  <2>2. QED
    BY <2>1 DEF IInv, PaidInv
<1>3. LinesInv' /\ ChannelInv'
  BY DEF IInv, LinesInv, ChannelInv
<1>4. RequestInv'
  <2>1. \A q \in Payments : ItemsOf(q)' = ItemsOf(q)
    BY DEF ItemsOf
  <2>2. QED
    BY <2>1 DEF IInv, RequestInv
<1>5. KeepInv'
  BY DEF IInv, KeepInv, ItemsFor
<1>6. ClaimedRowsStayUnpaid'
  BY DEF ClaimedRowsStayUnpaid
<1>7. ReceiptsWithoutGap'
  BY DEF IInv, ReceiptsWithoutGap
<1>8. OutboxMatchesStatus'
  BY DEF IInv, OutboxMatchesStatus, ExpectedLog
<1>9. QED
  BY <1>1, <1>2, <1>3, <1>4, <1>5, <1>6, <1>7, <1>8 DEF IInv

LEMMA WaiveInv ==
    ASSUME IInv, NEW S \in SUBSET Rows, Waive(S)
    PROVE  IInv'
<1> TypeOK
  BY DEF IInv
<1> \A i \in items : i.row \in Rows /\ i.payment \in Payments
  BY DEF TypeOK, Items
<1>1. TypeOK'
  BY NextType DEF Next
<1>2. UNCHANGED <<pay, items, counter, request, captured, aged>>
  BY DEF Waive
<1>3. \A p \in Payments : log'[p] = log[p]
  BY IdsAssumption DEF Waive, TypeOK
<1>4. \A r \in Rows : IF r \in S
         THEN ledger[r].status = "unpaid" /\ ledger'[r].status = "waived"
         ELSE ledger'[r] = ledger[r]
  BY DEF Waive, Payable, TypeOK, LedgerRow
<1>5. \A i \in items : pay[i.payment].status = "pending_verification" =>
         i.row \notin S
  BY DEF Waive, LiveHolds, LiveStatuses
<1>6. QED
  BY <1>1, <1>2, <1>3, <1>4, <1>5, UnpaidRowsInv DEF IInv, ClaimedRowsStayUnpaid

LEMMA SetDiscountsInv ==
    ASSUME IInv, NEW price \in [Rows -> Prices], SetDiscounts(price)
    PROVE  IInv'
<1> TypeOK
  BY DEF IInv
<1> \A i \in items : i.row \in Rows /\ i.payment \in Payments
  BY DEF TypeOK, Items
<1>1. TypeOK'
  BY NextType DEF Next
<1>2. UNCHANGED <<pay, items, counter, log, request, captured, aged>>
  BY DEF SetDiscounts
<1>3. \A r \in Rows : /\ ledger'[r].status = ledger[r].status
                      /\ ledger[r].status # "unpaid" => ledger'[r] = ledger[r]
  BY DEF SetDiscounts, TypeOK, LedgerRow
<1>4. QED
  BY <1>1, <1>2, <1>3, UnpaidRowsInv DEF IInv, ClaimedRowsStayUnpaid

LEMMA InitInv == Init => IInv
<1> SUFFICES ASSUME Init PROVE IInv
  OBVIOUS
<1>1. TypeOK
  BY InitType
<1>2. \A p \in Payments : /\ pay[p].status = "none"
                          /\ pay[p].channel = "none"
                          /\ pay[p].lines = {}
                          /\ pay[p].order = FALSE
                          /\ pay[p].receipt = 0
                          /\ request[p].step = "idle"
                          /\ request[p].lines = {}
                          /\ log[p] = <<>>
  BY DEF Init, NoPayment, Idle
<1>3. items = {} /\ counter = 0 /\ captured = {} /\ aged = {}
  BY DEF Init
<1>4. \A r \in Rows : ledger[r].status = "unpaid"
  BY DEF Init
<1>5. ItemsInv /\ PaidInv /\ LinesInv /\ KeepInv /\ ClaimedRowsStayUnpaid
  BY <1>2, <1>3, <1>4 DEF ItemsInv, PaidInv, LinesInv, KeepInv, ClaimedRowsStayUnpaid
<1>6. RequestInv
  BY <1>2, <1>3 DEF RequestInv
<1>7. ChannelInv
  BY <1>2 DEF ChannelInv, Init
<1>8. ReceiptsWithoutGap
  BY <1>2, <1>3 DEF ReceiptsWithoutGap
<1>9. OutboxMatchesStatus
  BY <1>2 DEF OutboxMatchesStatus, ExpectedLog
<1>10. QED
  BY <1>1, <1>5, <1>6, <1>7, <1>8, <1>9 DEF IInv

LEMMA StutterInv == IInv /\ UNCHANGED vars => IInv'
<1> SUFFICES ASSUME IInv, UNCHANGED vars PROVE IInv'
  OBVIOUS
<1>1. TypeOK'
  BY NextType DEF IInv
<1>2. \A q \in Payments : ItemsOf(q)' = ItemsOf(q)
  BY DEF vars, ItemsOf
<1>3. LinesInv' /\ RequestInv'
  BY <1>2 DEF IInv, vars, LinesInv, RequestInv
<1>4. QED
  BY <1>1, <1>3, FrameInv DEF vars

LEMMA NextInv == IInv /\ [Next]_vars => IInv'
<1> SUFFICES ASSUME IInv, [Next]_vars PROVE IInv'
  OBVIOUS
<1>1. ASSUME NEW p \in Payments, NEW S \in SUBSET Rows, OrderReadsLedger(p, S)
      PROVE  IInv'
  BY <1>1, OrderReadsLedgerInv
<1>2. ASSUME NEW p \in Payments, NEW S \in SUBSET Rows, Collect(p, S)
      PROVE  IInv'
  BY <1>2, CollectInv
<1>3. ASSUME NEW p \in Payments, NEW S \in SUBSET Rows, Claim(p, S)
      PROVE  IInv'
  BY <1>3, ClaimInv
<1>4. ASSUME NEW p \in Payments, OrderStep(p)
      PROVE  IInv'
  BY <1>4, OrderInsertsPaymentInv, OrderInsertsItemsInv, OrderGetsGatewayIdInv,
     OutsideStepInv DEF OrderStep
<1>5. ASSUME NEW p \in Payments, PayerPays(p) \/ OrderAges(p)
      PROVE  IInv'
  BY <1>5, OutsideStepInv
<1>6. ASSUME NEW p \in Payments, Webhook(p)
      PROVE  IInv'
  BY <1>6, SettleInv DEF Webhook, OpenStatuses, IInv, ChannelInv
<1>7. ASSUME NEW p \in Payments, Approve(p)
      PROVE  IInv'
  BY <1>7, SettleInv DEF Approve
<1>8. ASSUME NEW p \in Payments, Reject(p)
      PROVE  IInv'
  BY <1>8, RejectInv
<1>9. ASSUME NEW S \in SUBSET Rows, Waive(S)
      PROVE  IInv'
  BY <1>9, WaiveInv
<1>10. ASSUME NEW price \in [Rows -> Prices], SetDiscounts(price)
       PROVE  IInv'
  BY <1>10, SetDiscountsInv
<1>11. CASE Sweep
  BY <1>11, SweepInv
<1>12. CASE UNCHANGED vars
  BY <1>12, StutterInv
<1>13. QED
  BY <1>1, <1>2, <1>3, <1>4, <1>5, <1>6, <1>7, <1>8, <1>9, <1>10, <1>11, <1>12
     DEF Next

-----------------------------------------------------------------------------
(* The theorems.                                                           *)

\* Every state the services reach is well typed.
THEOREM TypeCorrect == Spec => []TypeOK
<1>1. Init => TypeOK
  BY InitType
<1>2. TypeOK /\ [Next]_vars => TypeOK'
  BY NextType
<1>3. QED
  BY <1>1, <1>2, PTL DEF Spec

\* IInv holds in every state the services reach.
THEOREM Invariance == Spec => []IInv
<1>1. Init => IInv
  BY InitInv
<1>2. IInv /\ [Next]_vars => IInv'
  BY NextInv
<1>3. QED
  BY <1>1, <1>2, PTL DEF Spec

\* No ledger row is ever covered by two live payments (the double_pay scan).
THEOREM NoDoublePayment == Spec => []NoDoubleLivePayment
<1>1. IInv => NoDoubleLivePayment
  BY DEF IInv, ItemsInv, NoDoubleLivePayment
<1>2. QED
  BY <1>1, Invariance, PTL

\* A row is paid exactly when a paid payment covers it (the orphan_paid scan).
THEOREM NoOrphanPaid == Spec => []PaidRowHasItsPaidItem
<1>1. IInv => PaidRowHasItsPaidItem
  BY DEF IInv, PaidInv, PaidRowHasItsPaidItem
<1>2. QED
  BY <1>1, Invariance, PTL

\* The rows of a claim stay unpaid until it is verified.
THEOREM ClaimsReserveRows == Spec => []ClaimedRowsStayUnpaid
<1>1. IInv => ClaimedRowsStayUnpaid
  BY DEF IInv
<1>2. QED
  BY <1>1, Invariance, PTL

\* A live claim or desk collection holds exactly the items it charged.
THEOREM ClaimsKeepItems == Spec => []ClaimsAndCollectionsKeepTheirItems
<1>1. ASSUME IInv, NEW p \in Payments,
             pay[p].channel \in {"upi", "offline"}, pay[p].status \in LiveStatuses
      PROVE  ItemsOf(p) = ItemsFor(p, pay[p].lines)
  <2>1. pay[p].status \in {"pending_verification", "paid"}
    BY <1>1 DEF IInv, ChannelInv, LiveStatuses
  <2>2. ItemsFor(p, pay[p].lines) \subseteq ItemsOf(p)
    BY <1>1, <2>1 DEF IInv, KeepInv, ItemsOf, ItemsFor
  <2>3. ASSUME NEW i \in ItemsOf(p)
        PROVE  i \in ItemsFor(p, pay[p].lines)
    <3> DEFINE l == [row |-> i.row, amount |-> i.amount]
    <3>1. i \in Items /\ i.payment = p /\ l \in pay[p].lines
      BY <1>1, <2>3 DEF IInv, TypeOK, ItemsInv, ItemsOf
    <3>2. i = [payment |-> p, row |-> l.row, amount |-> l.amount]
      BY <3>1 DEF Items
    <3> HIDE DEF l
    <3>3. QED
      BY <3>1, <3>2 DEF ItemsFor
  <2>4. QED
    BY <2>2, <2>3
<1>2. IInv => ClaimsAndCollectionsKeepTheirItems
  BY <1>1 DEF ClaimsAndCollectionsKeepTheirItems
<1>3. QED
  BY <1>2, Invariance, PTL

\* No payment settles a row, or a price, its payer was not charged.
THEOREM NothingUncharged == Spec => []NothingSettledUncharged
<1>1. ASSUME IInv, NEW p \in Payments, NEW i \in ItemsOf(p)
      PROVE  i \in ItemsFor(p, pay[p].lines)
  <2> DEFINE l == [row |-> i.row, amount |-> i.amount]
  <2>1. i \in Items /\ i.payment = p /\ l \in pay[p].lines
    BY <1>1 DEF IInv, TypeOK, ItemsInv, ItemsOf
  <2>2. i = [payment |-> p, row |-> l.row, amount |-> l.amount]
    BY <2>1 DEF Items
  <2> HIDE DEF l
  <2>3. QED
    BY <2>1, <2>2 DEF ItemsFor
<1>2. IInv => NothingSettledUncharged
  BY <1>1 DEF NothingSettledUncharged
<1>3. QED
  BY <1>2, Invariance, PTL

\* Receipt numbers 1 .. counter are each on exactly one paid payment.
THEOREM ReceiptsAreGapless == Spec => []ReceiptsWithoutGap
<1>1. IInv => ReceiptsWithoutGap
  BY DEF IInv
<1>2. QED
  BY <1>1, Invariance, PTL

\* The outbox holds each payment's events once, in order.
THEOREM OutboxIsExact == Spec => []OutboxMatchesStatus
<1>1. IInv => OutboxMatchesStatus
  BY DEF IInv
<1>2. QED
  BY <1>1, Invariance, PTL

-----------------------------------------------------------------------------
(* What no step does to a closed payment or a paid row.                    *)

\* No step touches a closed payment or its items.
LEMMA ClosedStep ==
    ASSUME IInv, [Next]_vars, NEW q \in Payments,
           pay[q].status \in {"paid", "failed", "rejected"}
    PROVE  pay'[q] = pay[q] /\ ItemsOf(q)' = ItemsOf(q)
<1> TypeOK
  BY DEF IInv
<1>1. ASSUME NEW p \in Payments, NEW S \in SUBSET Rows,
             TakeOver(p, S, ItemsFor(p, Priced(S)))
      PROVE  p # q /\ ItemsOf(q)' = ItemsOf(q)
  <2>1. p # q
    BY <1>1 DEF TakeOver, Fresh
  <2>2. \A i \in items' : i.payment = q => i \in items
    BY <1>1, <2>1, TakeOverEffect
  <2>3. \A i \in items : i.payment = q => i \in items'
    BY <1>1, TakeOverEffect
  <2>4. QED
    BY <2>1, <2>2, <2>3 DEF ItemsOf
<1>2. ASSUME NEW p \in Payments, NEW S \in SUBSET Rows,
             Collect(p, S) \/ Claim(p, S)
      PROVE  pay'[q] = pay[q] /\ ItemsOf(q)' = ItemsOf(q)
  <2>1. TakeOver(p, S, ItemsFor(p, Priced(S)))
    BY <1>2 DEF Collect, Claim
  <2>2. p # q /\ ItemsOf(q)' = ItemsOf(q)
    BY <1>1, <2>1
  <2>3. pay'[q] = pay[q]
    BY <1>2, <2>2 DEF Collect, Claim, TypeOK
  <2>4. QED
    BY <2>2, <2>3
<1>3. ASSUME NEW p \in Payments, OrderStep(p)
      PROVE  pay'[q] = pay[q] /\ ItemsOf(q)' = ItemsOf(q)
  <2>1. CASE OrderInsertsPayment(p) \/ OrderGetsGatewayId(p)
    <3>1. p # q
      BY <2>1 DEF OrderInsertsPayment, OrderGetsGatewayId, AtStep, IInv, RequestInv
    <3>2. QED
      BY <2>1, <3>1 DEF OrderInsertsPayment, OrderGetsGatewayId, TypeOK, ItemsOf
  <2>2. CASE OrderInsertsItems(p)
    <3>1. p # q
      BY <2>2 DEF OrderInsertsItems, AtStep, IInv, RequestInv
    <3>2. \A i \in ItemsFor(p, request[p].lines) : i.payment = p
      BY DEF ItemsFor
    <3>3. QED
      BY <2>2, <3>1, <3>2 DEF OrderInsertsItems, ItemsOf
  <2>3. CASE OrderRequestDies(p)
    BY <2>3 DEF OrderRequestDies, ItemsOf
  <2>4. QED
    BY <1>3, <2>1, <2>2, <2>3 DEF OrderStep
<1>4. ASSUME NEW p \in Payments, Webhook(p) \/ Approve(p)
      PROVE  pay'[q] = pay[q] /\ ItemsOf(q)' = ItemsOf(q)
  <2>1. p # q /\ Settle(p) /\ items' = items
    BY <1>4 DEF Webhook, Approve, OpenStatuses
  <2>2. QED
    BY <2>1, SettleEffect DEF ItemsOf
<1>5. ASSUME NEW p \in Payments, Reject(p)
      PROVE  pay'[q] = pay[q] /\ ItemsOf(q)' = ItemsOf(q)
  <2>1. p # q
    BY <1>5 DEF Reject
  <2>2. QED
    BY <1>5, <2>1 DEF Reject, ItemsOf, TypeOK
<1>6. CASE Sweep
  <2>1. q \notin {p \in aged : pay[p].status \in OpenStatuses}
    BY DEF OpenStatuses
  <2>2. QED
    BY <1>6, <2>1 DEF Sweep, ItemsOf
<1>7. ASSUME NEW p \in Payments, PayerPays(p) \/ OrderAges(p)
      PROVE  pay'[q] = pay[q] /\ ItemsOf(q)' = ItemsOf(q)
  BY <1>7 DEF PayerPays, OrderAges, ItemsOf
<1>8. ASSUME NEW p \in Payments, NEW S \in SUBSET Rows, OrderReadsLedger(p, S)
      PROVE  pay'[q] = pay[q] /\ ItemsOf(q)' = ItemsOf(q)
  BY <1>8 DEF OrderReadsLedger, ItemsOf
<1>9. ASSUME NEW S \in SUBSET Rows, Waive(S)
      PROVE  pay'[q] = pay[q] /\ ItemsOf(q)' = ItemsOf(q)
  BY <1>9 DEF Waive, ItemsOf
<1>10. ASSUME NEW price \in [Rows -> Prices], SetDiscounts(price)
       PROVE  pay'[q] = pay[q] /\ ItemsOf(q)' = ItemsOf(q)
  BY <1>10 DEF SetDiscounts, ItemsOf
<1>11. CASE UNCHANGED vars
  BY <1>11 DEF vars, ItemsOf
<1>12. QED
  BY <1>2, <1>3, <1>4, <1>5, <1>6, <1>7, <1>8, <1>9, <1>10, <1>11 DEF Next

\* Settling an open payment reaches only rows that are not paid.
LEMMA SettleRows ==
    ASSUME IInv, NEW p \in Payments, Settle(p), pay[p].status # "paid"
    PROVE  /\ \A i \in items : i.payment = p => ledger[i.row].status # "paid"
           /\ \A r \in Rows : ledger[r].status = "paid" => ledger'[r] = ledger[r]
<1> TypeOK
  BY DEF IInv
<1> \A i \in items : i.row \in Rows /\ i.payment \in Payments
  BY DEF TypeOK, Items
<1>1. ASSUME NEW i \in items, i.payment = p, ledger[i.row].status = "paid"
      PROVE  FALSE
  <2>1. PICK j \in items : j.row = i.row /\ pay[j.payment].status = "paid"
    BY <1>1 DEF IInv, PaidInv
  <2>2. i = j
    BY <2>1 DEF IInv, ItemsInv
  <2>3. QED
    BY <1>1, <2>1, <2>2
<1>2. QED
  BY <1>1, SettleEffect

LEMMA PaidRowStep ==
    ASSUME IInv, [Next]_vars, NEW r \in Rows, ledger[r].status = "paid"
    PROVE  ledger'[r] = ledger[r]
<1>1. ASSUME NEW p \in Payments, Webhook(p) \/ Approve(p)
      PROVE  ledger'[r] = ledger[r]
  <2>1. Settle(p) /\ pay[p].status # "paid"
    BY <1>1 DEF Webhook, Approve, OpenStatuses
  <2>2. QED
    BY <2>1, SettleRows
<1>2. ASSUME NEW p \in Payments, NEW S \in SUBSET Rows, Collect(p, S)
      PROVE  ledger'[r] = ledger[r]
  <2>1. r \notin RowsOf(ItemsFor(p, Priced(S)))
    BY <1>2, RowsOfPriced DEF Collect, TakeOver, Payable
  <2>2. QED
    BY <1>2, <2>1 DEF Collect, MarkRowsPaid
<1>3. ASSUME NEW S \in SUBSET Rows, Waive(S)
      PROVE  ledger'[r] = ledger[r]
  BY <1>3 DEF Waive, Payable
<1>4. ASSUME NEW price \in [Rows -> Prices], SetDiscounts(price)
      PROVE  ledger'[r] = ledger[r]
  BY <1>4 DEF SetDiscounts
<1>5. ASSUME UNCHANGED ledger
      PROVE  ledger'[r] = ledger[r]
  BY <1>5
<1>6. QED
  BY <1>1, <1>2, <1>3, <1>4, <1>5
     DEF Next, OrderStep, OrderReadsLedger, OrderInsertsPayment, OrderInsertsItems,
         OrderGetsGatewayId, OrderRequestDies, PayerPays, Claim, Reject, OrderAges,
         Sweep, vars

\* A paid row is final.
THEOREM PaidRowsAreFinal == Spec => PaidRowIsFinal
<1>1. IInv /\ [Next]_vars =>
         [\A r \in Rows : ledger[r].status = "paid" => ledger'[r] = ledger[r]]_vars
  BY PaidRowStep
<1>2. QED
  BY <1>1, Invariance, PTL DEF Spec, PaidRowIsFinal

\* A closed payment is final.
THEOREM ClosedPaymentsAreFinal == Spec => ClosedPaymentIsFinal
<1>1. IInv /\ [Next]_vars =>
         [\A p \in Payments :
             pay[p].status \in {"paid", "failed", "rejected"} =>
                 /\ pay'[p] = pay[p]
                 /\ ItemsOf(p)' = ItemsOf(p)]_vars
  BY ClosedStep
<1>2. QED
  BY <1>1, Invariance, PTL DEF Spec, ClosedPaymentIsFinal

\* What r becomes is the receipt of an open gateway order.
ChargedByOrder(r) ==
    /\ ledger'[r].status = "paid"
    /\ pay[ledger'[r].payment].channel = "gateway"
    /\ pay[ledger'[r].payment].status \in OpenStatuses

LEMMA WaivedRowStep ==
    ASSUME IInv, [Next]_vars, NEW r \in Rows,
           ledger[r].status = "waived", ledger'[r] # ledger[r]
    PROVE  ChargedByOrder(r)
<1> TypeOK
  BY DEF IInv
<1>1. ASSUME NEW p \in Payments, Webhook(p) \/ Approve(p)
      PROVE  ChargedByOrder(r)
  <2>1. Settle(p)
    BY <1>1 DEF Webhook, Approve
  <2>2. PICK i \in items : i.row = r /\ i.payment = p
    BY <2>1, SettleEffect
  <2>3. ledger'[r].status = "paid" /\ ledger'[r].payment = p
    BY <2>1, <2>2, SettleEffect
  <2>4. pay[p].status # "pending_verification"
    BY <2>2 DEF IInv, ClaimedRowsStayUnpaid
  <2>5. Webhook(p)
    BY <1>1, <2>4 DEF Approve
  <2>6. pay[p].status \in OpenStatuses /\ pay[p].channel = "gateway"
    BY <2>5 DEF Webhook, IInv, ChannelInv, OpenStatuses
  <2>7. QED
    BY <2>3, <2>6 DEF ChargedByOrder
<1>2. ASSUME NEW p \in Payments, NEW S \in SUBSET Rows, Collect(p, S)
      PROVE  FALSE
  <2>1. r \notin RowsOf(ItemsFor(p, Priced(S)))
    BY <1>2, RowsOfPriced DEF Collect, TakeOver, Payable
  <2>2. QED
    BY <1>2, <2>1 DEF Collect, MarkRowsPaid
<1>3. ASSUME NEW S \in SUBSET Rows, Waive(S)
      PROVE  FALSE
  BY <1>3 DEF Waive, Payable
<1>4. ASSUME NEW price \in [Rows -> Prices], SetDiscounts(price)
      PROVE  FALSE
  BY <1>4 DEF SetDiscounts
<1>5. ledger' # ledger
  OBVIOUS
<1>6. QED
  BY <1>1, <1>2, <1>3, <1>4, <1>5
     DEF Next, OrderStep, OrderReadsLedger, OrderInsertsPayment, OrderInsertsItems,
         OrderGetsGatewayId, OrderRequestDies, PayerPays, Claim, Reject, OrderAges,
         Sweep, vars

\* Only an open gateway order charges a waived row.
THEOREM OnlyTheGatewayChargesWaivedRows == Spec => WaiverYieldsOnlyToGateway
<1>1. IInv /\ [Next]_vars =>
         [\A r \in Rows : ledger[r].status = "waived" /\ ledger'[r] # ledger[r] =>
              ChargedByOrder(r)]_vars
  BY WaivedRowStep
<1>2. QED
  BY <1>1, Invariance, PTL DEF Spec, WaiverYieldsOnlyToGateway, ChargedByOrder

-----------------------------------------------------------------------------
(* FeePayments implements FeeLedger.                                       *)

\* The receipt of a row that was paid before a step is not changed by it.
LEMMA PaidReceiptKept ==
    ASSUME IInv, [Next]_vars, NEW r \in Rows, ledger[r].status = "paid"
    PROVE  pay'[ledger[r].payment] = pay[ledger[r].payment]
<1>1. PICK i \in items : /\ i.payment = ledger[r].payment
                         /\ pay[i.payment].status = "paid"
  BY DEF IInv, PaidInv
<1>2. i.payment \in Payments
  BY DEF IInv, TypeOK, Items
<1>3. QED
  BY <1>1, <1>2, ClosedStep

\* A step that settles nothing and waives nothing is a stutter.
LEMMA AbstractStutter ==
    ASSUME IInv, [Next]_vars, counter' = counter,
           \A r \in Rows : /\ ledger'[r].status = ledger[r].status
                           /\ ledger'[r].payment = ledger[r].payment
    PROVE  UNCHANGED <<[r \in Rows |-> ledger[r].status], RowReceipt, counter>>
BY PaidReceiptKept DEF RowReceipt

\* A step that settles the rows S by p is the abstract settlement of S.
LEMMA AbstractSettle ==
    ASSUME IInv, [Next]_vars, NEW p \in Payments, NEW S \in SUBSET Rows,
           counter' = counter + 1,
           pay'[p].receipt = counter + 1,
           \A r \in S : ledger[r].status # "paid",
           \A r \in Rows : IF r \in S
              THEN ledger'[r].status = "paid" /\ ledger'[r].payment = p
              ELSE ledger'[r] = ledger[r]
    PROVE  Abstract!Settle(S)
<1>1. [r \in Rows |-> ledger[r].status]' =
         [r \in Rows |-> IF r \in S THEN "paid"
                         ELSE [q \in Rows |-> ledger[q].status][r]]
  OBVIOUS
<1>2. RowReceipt' = [r \in Rows |-> IF r \in S THEN counter + 1 ELSE RowReceipt[r]]
  <2>1. ASSUME NEW r \in Rows
        PROVE  RowReceipt'[r] = IF r \in S THEN counter + 1 ELSE RowReceipt[r]
    BY PaidReceiptKept DEF RowReceipt
  <2>2. QED
    BY <2>1 DEF RowReceipt
<1>3. QED
  BY <1>1, <1>2 DEF Abstract!Settle

LEMMA ImplementsStep ==
    ASSUME IInv, [Next]_vars
    PROVE  \/ Abstract!Next
           \/ UNCHANGED <<[r \in Rows |-> ledger[r].status], RowReceipt, counter>>
<1> TypeOK
  BY DEF IInv
<1>1. ASSUME NEW p \in Payments, Webhook(p) \/ Approve(p)
      PROVE  Abstract!Next
  <2>1. Settle(p) /\ pay[p].status # "paid"
    BY <1>1 DEF Webhook, Approve, OpenStatuses
  <2>2. PICK S \in SUBSET Rows : S = RowsOf(ItemsOf(p))
    BY DEF RowsOf, ItemsOf, TypeOK, Items
  <2>3. \A r \in Rows : r \in S <=> \E i \in items : i.row = r /\ i.payment = p
    BY <2>2 DEF RowsOf, ItemsOf
  <2>4. \A r \in S : ledger[r].status # "paid"
    BY <2>1, <2>2, <2>3, SettleRows
  <2>5. \A r \in Rows : IF r \in S
           THEN ledger'[r].status = "paid" /\ ledger'[r].payment = p
           ELSE ledger'[r] = ledger[r]
    BY <2>1, <2>3, SettleEffect
  <2>6. counter' = counter + 1 /\ pay'[p].receipt = counter + 1
    BY <2>1, SettleEffect
  <2>7. Abstract!Settle(S)
    BY <2>4, <2>5, <2>6, AbstractSettle
  <2>8. QED
    BY <2>7 DEF Abstract!Next
<1>2. ASSUME NEW p \in Payments, NEW S \in SUBSET Rows, Collect(p, S)
      PROVE  Abstract!Next
  <2>1. \A r \in S : ledger[r].status # "paid"
    BY <1>2 DEF Collect, TakeOver, Payable
  <2>2. \A r \in Rows : IF r \in S
           THEN ledger'[r].status = "paid" /\ ledger'[r].payment = p
           ELSE ledger'[r] = ledger[r]
    BY <1>2, RowsOfPriced DEF Collect, MarkRowsPaid
  <2>3. counter' = counter + 1 /\ pay'[p].receipt = counter + 1
    BY <1>2 DEF Collect, TypeOK
  <2>4. Abstract!Settle(S)
    BY <2>1, <2>2, <2>3, AbstractSettle
  <2>5. QED
    BY <2>4 DEF Abstract!Next
<1>3. ASSUME NEW S \in SUBSET Rows, Waive(S)
      PROVE  Abstract!Next
  <2>1. \A r \in Rows : IF r \in S
           THEN ledger[r].status = "unpaid" /\ ledger'[r].status = "waived"
           ELSE ledger'[r] = ledger[r]
    BY <1>3 DEF Waive, Payable, TypeOK, LedgerRow
  <2>2. counter' = counter
    BY <1>3 DEF Waive
  <2>3. [r \in Rows |-> ledger[r].status]' =
           [r \in Rows |-> IF r \in S THEN "waived"
                           ELSE [q \in Rows |-> ledger[q].status][r]]
    BY <2>1
  <2>4. RowReceipt' = RowReceipt
    BY <2>1, PaidReceiptKept DEF RowReceipt
  <2>5. Abstract!Waive(S)
    BY <2>1, <2>2, <2>3, <2>4 DEF Abstract!Waive
  <2>6. QED
    BY <2>5 DEF Abstract!Next
<1>4. ASSUME NEW price \in [Rows -> Prices], SetDiscounts(price)
      PROVE  UNCHANGED <<[r \in Rows |-> ledger[r].status], RowReceipt, counter>>
  <2>1. \A r \in Rows : /\ ledger'[r].status = ledger[r].status
                        /\ ledger'[r].payment = ledger[r].payment
    BY <1>4 DEF SetDiscounts, TypeOK, LedgerRow
  <2>2. counter' = counter
    BY <1>4 DEF SetDiscounts
  <2>3. QED
    BY <2>1, <2>2, AbstractStutter
<1>5. ASSUME UNCHANGED <<ledger, counter>>
      PROVE  UNCHANGED <<[r \in Rows |-> ledger[r].status], RowReceipt, counter>>
  BY <1>5, AbstractStutter
<1>6. QED
  BY <1>1, <1>2, <1>3, <1>4, <1>5
     DEF Next, OrderStep, OrderReadsLedger, OrderInsertsPayment, OrderInsertsItems,
         OrderGetsGatewayId, OrderRequestDies, PayerPays, Claim, Reject, OrderAges,
         Sweep, vars

\* Every transaction is one settlement or waiver of the abstract ledger, or
\* a stutter of it.
THEOREM Refinement == Spec => ImplementsFeeLedger
<1>1. Init => Abstract!Init
  BY DEF Init, Abstract!Init, RowReceipt
<1>2. IInv /\ [Next]_vars =>
         [Abstract!Next]_<<[r \in Rows |-> ledger[r].status], RowReceipt, counter>>
  BY ImplementsStep
<1>3. QED
  BY <1>1, <1>2, Invariance, PTL DEF Spec, ImplementsFeeLedger, Abstract!Spec

-----------------------------------------------------------------------------
(* Under the locks: a transaction runs in statements, and others run       *)
(* between them.  What it has locked nobody else touches, so what it has   *)
(* read of locked rows is still there when it commits.                     *)

\* The statements each kind of transaction runs.
OnPath(kind, step) ==
    /\ kind \in Kinds
    /\ step \in {"lockRows", "dup"} => kind \in {"collect", "claim", "waive"}
    /\ step = "number" => kind \in {"collect", "webhook", "approve"}
    /\ step \in {"insert", "deleteDead", "insertItems"} => kind \in {"collect", "claim"}
    /\ step = "lockPayment" => kind \in {"webhook", "approve", "reject"}
    /\ step \in {"readItems", "markRows"} => kind \in {"webhook", "approve"}
    /\ step = "price" => kind = "discount"
    /\ step = "fail" => kind = "sweep"
    /\ step = "delete" => kind \in {"reject", "sweep"}
    /\ step = "emit" => kind \notin {"collect", "claim"}

TxnRecord ==
    [kind : Kinds \cup {"none"}, step : Steps, p : Payments \cup {None},
     todo : SUBSET (Rows \cup Payments), rows : SUBSET Rows, fails : SUBSET Payments,
     lines : SUBSET Lines, gone : SUBSET Items, number : Nat,
     price : [Rows -> Prices] \cup {[r \in {} |-> 0]}]

TablesInv ==
    /\ txn \in [Txns -> TxnRecord]
    /\ held \in [Txns -> SUBSET (Lockable \X Modes)]

Has(t, o, m) == <<o, m>> \in held[t]

\* Two transactions hold compatible locks.
HeldInv ==
    \A t, u \in Txns : t # u =>
        \A l \in held[t], m \in held[u] : l[1] = m[1] => Compatible(l[2], m[2])

TakesOver(t) == Active(t) /\ txn[t].kind \in {"collect", "claim"}
Settles(t)   == Active(t) /\ txn[t].kind \in {"webhook", "approve"}

\* Two new payments have two ids.
FreshInv ==
    \A t, u \in Txns : (t # u /\ TakesOver(t) /\ TakesOver(u)) => txn[t].p # txn[u].p

-----------------------------------------------------------------------------
(* What a transaction t may rely on.                                       *)

StepOK(t) ==
    /\ Active(t) => OnPath(txn[t].kind, txn[t].step)
    /\ ~ Active(t) => held[t] = {}
    /\ txn[t].step \in {"deleteDead", "insertItems", "commit"} => Has(t, Tenant, "share")

\* A number that was taken is still the next one.
NumberOK(t) ==
    (\/ txn[t].kind = "collect" /\ txn[t].step \in {"insert", "deleteDead", "insertItems", "commit"}
     \/ txn[t].kind \in {"webhook", "approve"} /\ txn[t].step \in {"readItems", "markRows", "emit", "commit"})
        => Has(t, Counter, "write") /\ txn[t].number = counter + 1

\* Rows locked for update keep their status and price, and nobody claims them.
RowsOK(t) ==
    (Active(t) /\ txn[t].kind \in {"collect", "claim", "waive"}) =>
        /\ \A r \in txn[t].rows : Has(t, r, "update") /\ ledger[r].status = "unpaid"
        /\ txn[t].lines = Priced(txn[t].rows)
        /\ IF txn[t].step = "lockRows" THEN txn[t].todo # {} ELSE txn[t].rows # {}
        /\ txn[t].step \notin {"lockRows", "dup"} => ~ LiveHolds(txn[t].rows)

\* The items read for deletion are still all there are on the rows.
TakeOverOK(t) ==
    TakesOver(t) =>
        /\ txn[t].p \in Payments /\ Fresh(txn[t].p)
        /\ txn[t].step \in {"insertItems", "commit"} =>
              /\ \A i \in items : i.row \in txn[t].rows => i \in txn[t].gone
              /\ \A i \in txn[t].gone : i.row \in txn[t].rows

\* A settlement keeps its payment open, and everybody else from its items.
SettleOK(t) ==
    Settles(t) =>
        /\ txn[t].p \in Payments
        /\ txn[t].kind = "webhook" => txn[t].p \in captured
        /\ txn[t].step # "lockPayment" =>
              /\ Has(t, txn[t].p, "update") /\ Has(t, Tenant, "update")
              /\ IF txn[t].kind = "webhook" THEN pay[txn[t].p].status \in OpenStatuses
                 ELSE pay[txn[t].p].status = "pending_verification"
        /\ txn[t].step \in {"markRows", "emit", "commit"} =>
              /\ txn[t].rows = RowsOf(ItemsOf(txn[t].p))
              /\ \A r \in txn[t].rows :
                    Has(t, r, "write") \/ (txn[t].step = "markRows" /\ r \in txn[t].todo)

RejectOK(t) ==
    (Active(t) /\ txn[t].kind = "reject") =>
        /\ txn[t].p \in Payments
        /\ txn[t].step # "lockPayment" =>
              /\ txn[t].fails = {txn[t].p} /\ Has(t, txn[t].p, "write")
              /\ pay[txn[t].p].status = "pending_verification"

SweepOK(t) ==
    (Active(t) /\ txn[t].kind = "sweep") =>
        /\ txn[t].fails \subseteq aged
        /\ \A p \in txn[t].fails : Has(t, p, "write") /\ pay[p].status \in OpenStatuses
        /\ \A p \in aged : pay[p].status \in OpenStatuses =>
              p \in txn[t].fails \/ (txn[t].step = "fail" /\ p \in txn[t].todo)
        /\ txn[t].step = "fail" => txn[t].todo \subseteq aged
        /\ txn[t].step # "fail" => txn[t].fails # {}

\* The items read for deletion are still all there are of the payments.
CloseOK(t) ==
    (Active(t) /\ txn[t].kind \in {"reject", "sweep"} /\ txn[t].step \in {"emit", "commit"}) =>
        /\ \A i \in items : i.payment \in txn[t].fails => i \in txn[t].gone
        /\ \A i \in txn[t].gone : i.payment \in txn[t].fails

DiscountOK(t) ==
    (Active(t) /\ txn[t].kind = "discount") =>
        /\ txn[t].price \in [Rows -> Prices]
        /\ \A r \in txn[t].rows : Has(t, r, "write") /\ ledger[r].status = "unpaid"
        /\ \A r \in Rows : ledger[r].status = "unpaid" =>
              r \in txn[t].rows \/ (txn[t].step = "price" /\ r \in txn[t].todo)
        /\ txn[t].step = "price" => txn[t].todo \subseteq Rows

TxnOK(t) ==
    /\ StepOK(t)
    /\ NumberOK(t)
    /\ RowsOK(t)
    /\ TakeOverOK(t)
    /\ SettleOK(t)
    /\ RejectOK(t)
    /\ SweepOK(t)
    /\ CloseOK(t)
    /\ DiscountOK(t)

LInv ==
    /\ IInv
    /\ TablesInv
    /\ HeldInv
    /\ FreshInv
    /\ \A t \in Txns : TxnOK(t)

-----------------------------------------------------------------------------
(* What a step of somebody else leaves as u relies on it.                  *)

Holds(u, o) == Has(u, o, "update") \/ Has(u, o, "write")

LeavesLedger(u) ==
    /\ \A r \in Rows : Holds(u, r) => ledger'[r] = ledger[r]
    /\ \A r \in Rows : ledger'[r].status = "unpaid" => ledger[r].status = "unpaid"
    /\ Has(u, Counter, "write") => counter' = counter

LeavesItems(u) ==
    /\ \A i \in items' : Has(u, i.row, "update") =>
          /\ i \in items
          /\ pay'[i.payment].status \in LiveStatuses => pay[i.payment].status \in LiveStatuses
    /\ \A i \in items' : i \notin items =>
          i.payment \notin aged /\ pay[i.payment].status # "pending_verification"
    /\ Has(u, Tenant, "update") => items' = items

LeavesPayments(u) ==
    /\ \A p \in Payments : Holds(u, p) /\ pay[p].status # "none" =>
          pay'[p].status = pay[p].status
    /\ \A p \in aged : pay'[p].status \in OpenStatuses => pay[p].status \in OpenStatuses
    /\ TakesOver(u) => pay'[txn[u].p].status = "none" /\ request'[txn[u].p].step = "idle"
    /\ captured \subseteq captured'
    /\ aged' = aged

Leaves(u) == LeavesLedger(u) /\ LeavesItems(u) /\ LeavesPayments(u)

\* Then u still relies on what it relied on.
LEMMA Rely ==
    ASSUME LInv, NEW u \in Txns, txn'[u] = txn[u], held'[u] = held[u], Leaves(u)
    PROVE  TxnOK(u)'
<1> TypeOK /\ TxnOK(u) /\ txn[u] \in TxnRecord
  BY DEF LInv, IInv, TablesInv
<1> \A i \in items : i.row \in Rows /\ i.payment \in Payments
  BY DEF TypeOK, Items
<1>0. \A o, m : Has(u, o, m)' <=> Has(u, o, m)
  BY DEF Has
<1>1. Active(u)' <=> Active(u)
  BY DEF Active
<1>2. StepOK(u)'
  BY <1>0, <1>1 DEF TxnOK, StepOK
<1>3. NumberOK(u)'
  BY <1>0 DEF TxnOK, NumberOK, Leaves, LeavesLedger
<1>4. RowsOK(u)'
  <2> SUFFICES ASSUME Active(u), txn[u].kind \in {"collect", "claim", "waive"}
               PROVE  /\ \A r \in txn[u].rows : Has(u, r, "update") /\ ledger'[r].status = "unpaid"
                      /\ txn[u].lines = Priced(txn[u].rows)'
                      /\ IF txn[u].step = "lockRows" THEN txn[u].todo # {} ELSE txn[u].rows # {}
                      /\ txn[u].step \notin {"lockRows", "dup"} => ~ LiveHolds(txn[u].rows)'
    BY <1>0, <1>1 DEF RowsOK
  <2>1. \A r \in txn[u].rows : r \in Rows /\ ledger'[r] = ledger[r]
    BY DEF TxnOK, RowsOK, Leaves, LeavesLedger, Holds, TxnRecord
  <2>2. Priced(txn[u].rows)' = Priced(txn[u].rows)
    BY <2>1 DEF Priced
  <2>3. LiveHolds(txn[u].rows)' => LiveHolds(txn[u].rows)
    BY DEF LiveHolds, TxnOK, RowsOK, Leaves, LeavesItems
  <2>4. QED
    BY <2>1, <2>2, <2>3 DEF TxnOK, RowsOK
<1>5. TakeOverOK(u)'
  <2>1. ASSUME TakesOver(u), NEW i \in items', i.row \in txn[u].rows
        PROVE  i \in items
    BY <2>1 DEF TxnOK, RowsOK, TakesOver, Leaves, LeavesItems
  <2>2. TakesOver(u)' <=> TakesOver(u)
    BY <1>1 DEF TakesOver
  <2>3. TakesOver(u) => Fresh(txn[u].p)'
    BY DEF Leaves, LeavesPayments, Fresh
  <2>4. QED
    BY <2>1, <2>2, <2>3 DEF TxnOK, TakeOverOK, Fresh
<1>6. SettleOK(u)'
  <2>1. Settles(u)' <=> Settles(u)
    BY <1>1 DEF Settles
  <2>2. ASSUME Settles(u), txn[u].step # "lockPayment"
        PROVE  /\ items' = items
               /\ pay'[txn[u].p].status = pay[txn[u].p].status
    BY <2>2 DEF TxnOK, SettleOK, Leaves, LeavesItems, LeavesPayments, Holds, OpenStatuses
  <2>3. items' = items => RowsOf(ItemsOf(txn[u].p))' = RowsOf(ItemsOf(txn[u].p))
    BY DEF RowsOf, ItemsOf
  <2>4. QED
    BY <1>0, <2>1, <2>2, <2>3 DEF TxnOK, SettleOK, Leaves, LeavesPayments
<1>7. RejectOK(u)'
  BY <1>0, <1>1 DEF TxnOK, RejectOK, Leaves, LeavesPayments, Holds
<1>8. SweepOK(u)'
  BY <1>0, <1>1 DEF TxnOK, SweepOK, Leaves, LeavesPayments, Holds, OpenStatuses, TypeOK
<1>9. CloseOK(u)'
  <2> SUFFICES ASSUME Active(u), txn[u].kind \in {"reject", "sweep"},
                      txn[u].step \in {"emit", "commit"},
                      NEW i \in items', i.payment \in txn[u].fails
               PROVE  i \in txn[u].gone
    BY <1>1 DEF TxnOK, CloseOK
  <2>1. i.payment \in aged \/ pay[i.payment].status = "pending_verification"
    BY DEF TxnOK, RejectOK, SweepOK
  <2>2. QED
    BY <2>1 DEF TxnOK, CloseOK, Leaves, LeavesItems
<1>10. DiscountOK(u)'
  BY <1>0, <1>1 DEF TxnOK, DiscountOK, Leaves, LeavesLedger, Holds, TxnRecord
<1>11. QED
  BY <1>2, <1>3, <1>4, <1>5, <1>6, <1>7, <1>8, <1>9, <1>10 DEF TxnOK

LEMMA NothingLeft == \A u \in Txns : LInv /\ UNCHANGED vars => Leaves(u)
<1> SUFFICES ASSUME NEW u \in Txns, LInv, UNCHANGED vars PROVE Leaves(u)
  OBVIOUS
<1>1. LeavesLedger(u) /\ LeavesItems(u)
  BY DEF vars, LeavesLedger, LeavesItems
<1>2. LeavesPayments(u)
  BY DEF vars, LeavesPayments, LInv, TxnOK, TakeOverOK, Fresh
<1>3. QED
  BY <1>1, <1>2 DEF Leaves

LEMMA CompatibleSym == \A m, n : Compatible(m, n) <=> Compatible(n, m)
<1>1. \A m, n : {m, n} = {n, m}
  OBVIOUS
<1>2. QED
  BY <1>1, Zenon DEF Compatible

\* One step of transaction t keeps LInv when t may rely on what it says
\* afterwards, its new locks were free and it leaves the others their due.
LEMMA StepOfOne ==
    ASSUME LInv, [Next]_vars, TablesInv', NEW t \in Txns,
           \A u \in Txns \ {t} : txn'[u] = txn[u] /\ held'[u] = held[u] /\ Leaves(u),
           \A l \in held'[t] : l \in held[t] \/ Free(t, l[1], l[2]),
           TakesOver(t)' => \/ TakesOver(t) /\ txn'[t].p = txn[t].p
                            \/ \A u \in Txns : Active(u) => txn[u].p # txn'[t].p,
           TxnOK(t)'
    PROVE  LInv'
<1>1. IInv'
  BY NextInv DEF LInv
<1>2. HeldInv'
  <2> SUFFICES ASSUME NEW u \in Txns, NEW v \in Txns, u # v,
                      NEW l \in held'[u], NEW m \in held'[v], l[1] = m[1]
               PROVE  Compatible(l[2], m[2])
    BY DEF HeldInv
  <2>1. CASE u # t /\ v # t
    BY <2>1 DEF LInv, HeldInv
  <2>2. CASE u = t
    <3>1. CASE l \in held[t]
      BY <2>2, <3>1 DEF LInv, HeldInv
    <3>2. CASE Free(t, l[1], l[2])
      BY <2>2, <3>2, CompatibleSym DEF Free
    <3>3. QED
      BY <2>2, <3>1, <3>2
  <2>3. CASE v = t
    <3>1. CASE m \in held[t]
      BY <2>3, <3>1 DEF LInv, HeldInv
    <3>2. CASE Free(t, m[1], m[2])
      BY <2>3, <3>2 DEF Free
    <3>3. QED
      BY <2>3, <3>1, <3>2
  <2>4. QED
    BY <2>1, <2>2, <2>3
<1>3. FreshInv'
  <2>1. \A u \in Txns \ {t} : TakesOver(u)' <=> TakesOver(u)
    BY DEF TakesOver, Active
  <2>2. \A u \in Txns : TakesOver(u) => Active(u)
    BY DEF TakesOver
  <2>3. QED
    BY <2>1, <2>2 DEF LInv, FreshInv
<1>4. \A u \in Txns \ {t} : TxnOK(u)'
  BY Rely
<1>5. QED
  BY <1>1, <1>2, <1>3, <1>4 DEF LInv

\* A step of nobody.
LEMMA StepOfNone ==
    ASSUME LInv, [Next]_vars, UNCHANGED <<txn, held>>, \A u \in Txns : Leaves(u)
    PROVE  LInv'
<1>1. IInv'
  BY NextInv DEF LInv
<1>2. TablesInv' /\ HeldInv'
  BY DEF LInv, TablesInv, HeldInv
<1>3. FreshInv'
  BY DEF LInv, FreshInv, TakesOver, Active
<1>4. \A u \in Txns : TxnOK(u)'
  BY Rely
<1>5. QED
  BY <1>1, <1>2, <1>3, <1>4 DEF LInv

-----------------------------------------------------------------------------
(* Types of what the statements write.                                     *)

Put(t, record) == txn' = [txn EXCEPT ![t] = record]

LEMMA TablesStep ==
    ASSUME LInv, NEW t \in Txns, NEW record \in TxnRecord, Put(t, record),
           NEW locks \in SUBSET (Lockable \X Modes),
           held' = [held EXCEPT ![t] = locks]
    PROVE  /\ TablesInv'
           /\ txn'[t] = record /\ held'[t] = locks
           /\ \A u \in Txns \ {t} : txn'[u] = txn[u] /\ held'[u] = held[u]
BY DEF LInv, TablesInv, Put

\* A statement, which writes nothing that is committed yet.
LEMMA StatementStep ==
    ASSUME LInv, UNCHANGED vars, NEW t \in Txns,
           NEW record \in TxnRecord, Put(t, record),
           NEW locks \in SUBSET (Lockable \X Modes), Lock(t, locks),
           \A l \in locks : Free(t, l[1], l[2]),
           TakesOver(t)' => \/ TakesOver(t) /\ record.p = txn[t].p
                            \/ \A u \in Txns : Active(u) => txn[u].p # record.p,
           TxnOK(t)'
    PROVE  LInv'
<1> DEFINE all == held[t] \cup locks
<1>1. held \in [Txns -> SUBSET (Lockable \X Modes)]
  BY DEF LInv, TablesInv
<1>2. all \in SUBSET (Lockable \X Modes) /\ held' = [held EXCEPT ![t] = all]
  BY <1>1 DEF Lock
<1> HIDE DEF all
<1>3. /\ TablesInv'
      /\ txn'[t] = record /\ held'[t] = all
      /\ \A u \in Txns \ {t} : txn'[u] = txn[u] /\ held'[u] = held[u]
  BY <1>2, TablesStep
<1>4. \A u \in Txns : Leaves(u)
  BY NothingLeft
<1>5. \A l \in held'[t] : l \in held[t] \/ Free(t, l[1], l[2])
  BY <1>3 DEF all
<1>6. QED
  BY <1>3, <1>4, <1>5, StepOfOne

\* A transaction that ends, with or without a commit.
LEMMA EndOf ==
    ASSUME LInv, [Next]_vars, NEW t \in Txns, NEW step \in {"done", "skipped"},
           Ends(t, step), \A u \in Txns \ {t} : Leaves(u)
    PROVE  LInv'
<1> DEFINE record == [txn[t] EXCEPT !.step = step]
<1>1. txn \in [Txns -> TxnRecord] /\ held \in [Txns -> SUBSET (Lockable \X Modes)]
  BY DEF LInv, TablesInv
<1>2. record \in TxnRecord /\ record.step = step
  <2>1. txn[t] \in TxnRecord /\ step \in Steps
    BY <1>1 DEF Steps
  <2>2. QED
    BY <2>1 DEF TxnRecord
<1>3. Put(t, record)
  BY <1>1 DEF Ends, Goto, Put
<1> HIDE DEF record
<1>4. /\ TablesInv'
      /\ txn'[t] = record /\ held'[t] = {}
      /\ \A u \in Txns \ {t} : txn'[u] = txn[u] /\ held'[u] = held[u]
  BY <1>2, <1>3, TablesStep DEF Ends
<1>5. ~ Active(t)'
  BY <1>2, <1>4 DEF Active
<1>6. TxnOK(t)'
  BY <1>2, <1>4, <1>5
     DEF TxnOK, StepOK, NumberOK, RowsOK, TakeOverOK, SettleOK, RejectOK, SweepOK,
         CloseOK, DiscountOK, TakesOver, Settles
<1>7. QED
  BY <1>4, <1>5, <1>6, StepOfOne DEF TakesOver

LEMMA EndStep ==
    ASSUME LInv, UNCHANGED vars, NEW t \in Txns, NEW step \in {"done", "skipped"},
           Ends(t, step)
    PROVE  LInv'
BY NothingLeft, EndOf

LEMMA LockRowInv ==
    ASSUME LInv, NEW t \in Txns, NEW r \in Rows, LockRow(t, r)
    PROVE  LInv'
<1> DEFINE record == [txn[t] EXCEPT !.todo = @ \ {r}, !.rows = @ \cup {r},
                                    !.lines = @ \cup Priced({r}),
                                    !.step = IF txn[t].todo = {r} THEN "dup" ELSE @]
           locks == {<<r, "update">>}
<1>1. txn[t] \in TxnRecord /\ txn \in [Txns -> TxnRecord] /\ TypeOK
  BY DEF LInv, TablesInv, IInv
<1>2. CASE ledger[r].status # "unpaid"
  BY <1>2, EndStep DEF LockRow, RollsBack
<1>3. CASE ledger[r].status = "unpaid"
  <2>1. /\ record.kind = txn[t].kind /\ record.p = txn[t].p
        /\ record.todo = txn[t].todo \ {r}
        /\ record.rows = txn[t].rows \cup {r}
        /\ record.lines = txn[t].lines \cup Priced({r})
        /\ record.step = IF txn[t].todo = {r} THEN "dup" ELSE "lockRows"
    BY <1>1, <1>3 DEF TxnRecord, LockRow
  <2>2. Put(t, record)
    BY <1>1, <1>3 DEF LockRow, Put
  <2>3. record \in TxnRecord
    <3>1. Priced({r}) \in SUBSET Lines
      BY <1>1, PricedType
    <3>2. QED
      BY <1>1, <3>1 DEF TxnRecord, Steps
  <2> HIDE DEF record
  <2>4. locks \in SUBSET (Lockable \X Modes) /\ Lock(t, locks)
    BY <1>3 DEF LockRow, Lockable, Modes
  <2> HIDE DEF locks
  <2>5. txn'[t] = record /\ held'[t] = held[t] \cup locks
    BY <1>1, <2>2, <2>4 DEF Put, Lock, LInv, TablesInv
  <2>6. /\ TxnOK(t) /\ Active(t) /\ Active(t)'
        /\ record.kind \in {"collect", "claim", "waive"}
        /\ record.step \in {"lockRows", "dup"}
        /\ txn[t].step = "lockRows"
    BY <1>3, <2>1, <2>5 DEF LInv, TxnOK, StepOK, OnPath, LockRow, Active
  <2>7. /\ \A o, m : Has(t, o, m) => Has(t, o, m)'
        /\ Has(t, r, "update")'
    BY <2>5 DEF Has, locks
  <2>8. RowsOK(t)'
    <3>1. Priced(txn[t].rows)' = Priced(txn[t].rows) \cup Priced({r})
      BY <2>1, <2>5, <1>3 DEF Priced, LockRow, vars
    <3>2. record.lines = Priced(txn[t].rows)'
      BY <3>1, <2>1, <2>6 DEF TxnOK, RowsOK
    <3>3. \A q \in record.rows : Has(t, q, "update")' /\ ledger'[q].status = "unpaid"
      BY <1>3, <2>1, <2>6, <2>7 DEF TxnOK, RowsOK, LockRow, vars
    <3>4. IF record.step = "lockRows" THEN record.todo # {} ELSE record.rows # {}
      BY <2>1, <1>3 DEF LockRow
    <3>5. QED
      BY <2>5, <2>6, <3>2, <3>3, <3>4 DEF RowsOK
  <2>9. TakeOverOK(t)'
    BY <1>3, <2>1, <2>5, <2>6 DEF TxnOK, TakeOverOK, TakesOver, Fresh, LockRow, vars
  <2>10. TxnOK(t)'
    BY <2>5, <2>6, <2>8, <2>9
       DEF TxnOK, StepOK, OnPath, Kinds, NumberOK, SettleOK, Settles, RejectOK, SweepOK,
           CloseOK, DiscountOK
  <2>11. QED
    BY <1>3, <2>1, <2>2, <2>3, <2>4, <2>5, <2>6, <2>10, StatementStep
       DEF LockRow, TakesOver, locks
<1>4. QED
  BY <1>2, <1>3

\* A statement that only moves on, and what it may have locked.
LEMMA GotoEffect ==
    ASSUME LInv, NEW t \in Txns, NEW step \in Steps, Goto(t, step)
    PROVE  /\ txn'[t].kind = txn[t].kind /\ txn'[t].p = txn[t].p
           /\ txn'[t].todo = txn[t].todo /\ txn'[t].rows = txn[t].rows
           /\ txn'[t].fails = txn[t].fails /\ txn'[t].lines = txn[t].lines
           /\ txn'[t].gone = txn[t].gone /\ txn'[t].number = txn[t].number
           /\ txn'[t].price = txn[t].price
           /\ txn'[t].step = step
BY DEF LInv, TablesInv, TxnRecord, Goto

LEMMA LockEffect ==
    ASSUME LInv, NEW t \in Txns, NEW locks, Lock(t, locks)
    PROVE  /\ \A o, m : Has(t, o, m) => Has(t, o, m)'
           /\ \A l \in locks : l \in held'[t]
BY DEF LInv, TablesInv, Lock, Has

LEMMA NoLocks ==
    ASSUME LInv, NEW t \in Txns, UNCHANGED held
    PROVE  Lock(t, {})
BY DEF LInv, TablesInv, Lock

LEMMA GotoStep ==
    ASSUME LInv, UNCHANGED vars, NEW t \in Txns, Active(t),
           NEW step \in Steps, Goto(t, step),
           NEW locks \in SUBSET (Lockable \X Modes), Lock(t, locks),
           \A l \in locks : Free(t, l[1], l[2]),
           TxnOK(t)'
    PROVE  LInv'
<1> DEFINE record == [txn[t] EXCEPT !.step = step]
<1>1. txn \in [Txns -> TxnRecord]
  BY DEF LInv, TablesInv
<1>2. record \in TxnRecord /\ record.p = txn[t].p /\ record.kind = txn[t].kind
  BY <1>1 DEF TxnRecord, Steps
<1>3. Put(t, record)
  BY <1>1 DEF Goto, Put
<1>4. txn'[t] = record
  BY <1>1, <1>3 DEF Put
<1> HIDE DEF record
<1>5. TakesOver(t)' => TakesOver(t) /\ record.p = txn[t].p
  BY <1>2, <1>4 DEF TakesOver
<1>6. QED
  BY <1>2, <1>3, <1>5, StatementStep

LEMMA DupCheckInv ==
    ASSUME LInv, NEW t \in Txns, DupCheck(t)
    PROVE  LInv'
<1>1. /\ UNCHANGED vars /\ txn[t].step = "dup" /\ Active(t) /\ TxnOK(t)
      /\ txn[t].kind \in {"collect", "claim", "waive"}
  BY DEF LInv, DupCheck, TxnOK, StepOK, OnPath, Active
<1>2. CASE LiveHolds(txn[t].rows)
  BY <1>1, <1>2, EndStep DEF DupCheck, RollsBack
<1>3. CASE ~ LiveHolds(txn[t].rows)
  <2>1. PICK step \in Steps :
           /\ Goto(t, step)
           /\ txn[t].kind = "collect" => step = "number"
           /\ txn[t].kind = "claim" => step = "insert"
           /\ txn[t].kind = "waive" => step = "emit"
    BY <1>1, <1>3 DEF DupCheck, AfterDup, Steps
  <2>2. Lock(t, {})
    BY <1>3, NoLocks DEF DupCheck
  <2>3. \A o, m : Has(t, o, m) => Has(t, o, m)'
    BY <2>2, LockEffect
  <2>4. Active(t)' /\ step \in {"number", "insert", "emit"}
    BY <1>1, <2>1, GotoEffect DEF Active
  <2>5. RowsOK(t)'
    <3>1. ~ LiveHolds(txn[t].rows)'
      BY <1>1, <1>3, <2>1, GotoEffect DEF LiveHolds, vars
    <3>2. Priced(txn[t].rows)' = Priced(txn[t].rows)
      BY <1>1, <2>1, GotoEffect DEF Priced, vars
    <3>3. QED
      BY <1>1, <2>1, <2>3, <2>4, <3>1, <3>2, GotoEffect DEF TxnOK, RowsOK, vars
  <2>6. TakeOverOK(t)'
    BY <1>1, <2>1, <2>4, GotoEffect DEF TxnOK, TakeOverOK, TakesOver, Fresh, vars
  <2>7. TxnOK(t)'
    BY <1>1, <2>1, <2>4, <2>5, <2>6, GotoEffect
       DEF TxnOK, StepOK, OnPath, Kinds, NumberOK, SettleOK, Settles, RejectOK, SweepOK,
           CloseOK, DiscountOK
  <2>8. QED
    BY <1>1, <2>1, <2>2, <2>7, GotoStep
<1>4. QED
  BY <1>2, <1>3

\* What a statement of t leaves as it was when it leaves the fields alone.
LEMMA Carried ==
    ASSUME LInv, UNCHANGED vars, NEW t \in Txns, Active(t), Active(t)',
           txn'[t].kind = txn[t].kind, txn'[t].p = txn[t].p,
           \A o, m : Has(t, o, m) => Has(t, o, m)'
    PROVE  /\ (/\ txn'[t].rows = txn[t].rows /\ txn'[t].lines = txn[t].lines
               /\ txn[t].step \notin {"lockRows", "dup"}
               /\ txn'[t].step \notin {"lockRows", "dup"}) => RowsOK(t)'
           /\ TakesOver(t) => txn[t].p \in Payments /\ Fresh(txn[t].p)'
           /\ (/\ Settles(t) /\ txn[t].step # "lockPayment"
               /\ txn'[t].step \notin {"markRows", "emit", "commit"}) => SettleOK(t)'
           /\ (/\ txn'[t].rows = txn[t].rows
               /\ txn[t].step = "emit" /\ txn'[t].step = "commit") => SettleOK(t)'
           /\ (/\ txn'[t].fails = txn[t].fails
               /\ txn[t].step \notin {"lockPayment", "fail"}
               /\ txn'[t].step # "fail") => RejectOK(t)' /\ SweepOK(t)'
           /\ (/\ txn'[t].rows = txn[t].rows /\ txn'[t].price = txn[t].price
               /\ txn[t].step # "price" /\ txn'[t].step # "price") => DiscountOK(t)'
           /\ (/\ txn'[t].fails = txn[t].fails /\ txn'[t].gone = txn[t].gone
               /\ txn[t].step = "emit" /\ txn'[t].step = "commit") => CloseOK(t)'
<1> TxnOK(t)
  BY DEF LInv
<1>1. ASSUME txn'[t].rows = txn[t].rows, txn'[t].lines = txn[t].lines,
             txn[t].step \notin {"lockRows", "dup"},
             txn'[t].step \notin {"lockRows", "dup"}
      PROVE  RowsOK(t)'
  <2>1. LiveHolds(txn[t].rows)' <=> LiveHolds(txn[t].rows)
    BY <1>1 DEF LiveHolds, vars
  <2>2. Priced(txn[t].rows)' = Priced(txn[t].rows)
    BY <1>1 DEF Priced, vars
  <2>3. QED
    BY <1>1, <2>1, <2>2 DEF TxnOK, RowsOK, vars
<1>2. TakesOver(t) => txn[t].p \in Payments /\ Fresh(txn[t].p)'
  BY DEF TxnOK, TakeOverOK, Fresh, vars
<1>3. ASSUME Settles(t), txn[t].step # "lockPayment",
             txn'[t].step \notin {"markRows", "emit", "commit"}
      PROVE  SettleOK(t)'
  BY <1>3 DEF TxnOK, SettleOK, Settles, vars
<1>4. ASSUME txn'[t].rows = txn[t].rows, txn[t].step = "emit", txn'[t].step = "commit"
      PROVE  SettleOK(t)'
  <2>1. RowsOf(ItemsOf(txn[t].p))' = RowsOf(ItemsOf(txn[t].p))
    BY DEF RowsOf, ItemsOf, vars
  <2>2. QED
    BY <1>4, <2>1 DEF TxnOK, SettleOK, Settles, vars
<1>5. ASSUME txn'[t].fails = txn[t].fails, txn[t].step \notin {"lockPayment", "fail"},
             txn'[t].step # "fail"
      PROVE  RejectOK(t)' /\ SweepOK(t)'
  BY <1>5 DEF TxnOK, RejectOK, SweepOK, vars
<1>6. ASSUME txn'[t].rows = txn[t].rows, txn'[t].price = txn[t].price,
             txn[t].step # "price", txn'[t].step # "price"
      PROVE  DiscountOK(t)'
  BY <1>6 DEF TxnOK, DiscountOK, vars
<1>7. ASSUME txn'[t].fails = txn[t].fails, txn'[t].gone = txn[t].gone,
             txn[t].step = "emit", txn'[t].step = "commit"
      PROVE  CloseOK(t)'
  BY <1>7 DEF TxnOK, CloseOK, vars
<1>8. QED
  BY <1>1, <1>2, <1>3, <1>4, <1>5, <1>6, <1>7

LEMMA TakeNumberInv ==
    ASSUME LInv, NEW t \in Txns, TakeNumber(t)
    PROVE  LInv'
<1> DEFINE next == IF txn[t].kind = "collect" THEN "insert" ELSE "readItems"
           record == [txn[t] EXCEPT !.number = counter + 1, !.step = next]
           locks == {<<Counter, "write">>}
<1>1. txn[t] \in TxnRecord /\ txn \in [Txns -> TxnRecord] /\ counter + 1 \in Nat
  BY DEF LInv, TablesInv, IInv, TypeOK
<1>2. /\ UNCHANGED vars /\ TxnOK(t) /\ Active(t) /\ txn[t].step = "number"
      /\ txn[t].kind \in {"collect", "webhook", "approve"}
  BY DEF LInv, TakeNumber, TxnOK, StepOK, OnPath, Active
<1>3. /\ record.kind = txn[t].kind /\ record.p = txn[t].p
      /\ record.rows = txn[t].rows /\ record.lines = txn[t].lines
      /\ record.number = counter + 1 /\ record.step = next
  BY <1>1 DEF TxnRecord
<1>4. record \in TxnRecord
  BY <1>1 DEF TxnRecord, Steps
<1>5. Put(t, record)
  BY <1>1 DEF TakeNumber, Put
<1> HIDE DEF record
<1>6. locks \in SUBSET (Lockable \X Modes) /\ Lock(t, locks)
  BY DEF TakeNumber, Lockable, Modes
<1>7. txn'[t] = record
  BY <1>1, <1>5 DEF Put
<1>8. \A o, m : Has(t, o, m) => Has(t, o, m)'
  BY <1>6, LockEffect
<1>9. Has(t, Counter, "write")'
  BY <1>6, LockEffect DEF Has
<1>10. Active(t)'
  BY <1>3, <1>7 DEF Active
<1>11. RowsOK(t)' /\ (Settles(t) => SettleOK(t)')
  BY <1>2, <1>3, <1>7, <1>8, <1>10, Carried DEF TakesOver, Settles
<1>12. TakeOverOK(t)'
  BY <1>2, <1>3, <1>7, <1>8, <1>10, Carried DEF TakeOverOK, TakesOver
<1>13. NumberOK(t)'
  BY <1>2, <1>3, <1>7, <1>9 DEF NumberOK, vars
<1>14. TxnOK(t)'
  BY <1>2, <1>3, <1>7, <1>10, <1>11, <1>12, <1>13
     DEF TxnOK, StepOK, OnPath, Kinds, SettleOK, Settles, RejectOK, SweepOK, CloseOK,
         DiscountOK
<1>15. Free(t, Counter, "write")
  BY DEF TakeNumber
<1>16. QED
  BY <1>2, <1>3, <1>4, <1>5, <1>6, <1>7, <1>14, <1>15, StatementStep DEF TakesOver

LEMMA InsertPaymentInv ==
    ASSUME LInv, NEW t \in Txns, InsertPayment(t)
    PROVE  LInv'
<1> DEFINE locks == {<<Tenant, "share">>}
<1>1. /\ UNCHANGED vars /\ TxnOK(t) /\ Active(t) /\ txn[t].step = "insert"
      /\ txn[t].kind \in {"collect", "claim"}
  BY DEF LInv, InsertPayment, TxnOK, StepOK, OnPath, Active
<1>2. Goto(t, "deleteDead") /\ "deleteDead" \in Steps
  BY DEF InsertPayment, Steps
<1>3. locks \in SUBSET (Lockable \X Modes) /\ Lock(t, locks)
  BY DEF InsertPayment, Lockable, Modes
<1>4. \A o, m : Has(t, o, m) => Has(t, o, m)'
  BY <1>3, LockEffect
<1>5. Has(t, Tenant, "share")'
  BY <1>3, LockEffect DEF Has
<1>6. Active(t)'
  BY <1>2, GotoEffect DEF Active
<1>7. RowsOK(t)'
  BY <1>1, <1>2, <1>4, <1>6, GotoEffect, Carried
<1>8. TakeOverOK(t)'
  BY <1>1, <1>2, <1>4, <1>6, GotoEffect, Carried DEF TakeOverOK, TakesOver
<1>9. NumberOK(t)'
  BY <1>1, <1>2, <1>4, GotoEffect DEF TxnOK, NumberOK, vars
<1>10. TxnOK(t)'
  BY <1>1, <1>2, <1>5, <1>6, <1>7, <1>8, <1>9, GotoEffect
     DEF TxnOK, StepOK, OnPath, Kinds, SettleOK, Settles, RejectOK, SweepOK, CloseOK,
         DiscountOK
<1>11. Free(t, Tenant, "share")
  BY DEF InsertPayment
<1>12. QED
  BY <1>1, <1>2, <1>3, <1>10, <1>11, GotoStep

LEMMA DeleteDeadInv ==
    ASSUME LInv, NEW t \in Txns, DeleteDead(t)
    PROVE  LInv'
<1> DEFINE dead == items \ WithoutDead(txn[t].rows)
           record == [txn[t] EXCEPT !.gone = dead, !.step = "insertItems"]
<1>1. txn[t] \in TxnRecord /\ txn \in [Txns -> TxnRecord] /\ items \in SUBSET Items
  BY DEF LInv, TablesInv, IInv, TypeOK
<1>2. /\ UNCHANGED vars /\ TxnOK(t) /\ Active(t) /\ txn[t].step = "deleteDead"
      /\ txn[t].kind \in {"collect", "claim"}
  BY DEF LInv, DeleteDead, TxnOK, StepOK, OnPath, Active
<1>3. \A i \in items : i \in dead <=> i.row \in txn[t].rows
  BY <1>2 DEF TxnOK, RowsOK, WithoutDead, LiveHolds, LInv, IInv, ItemsInv,
              LiveStatuses, DeadStatuses
<1>4. dead \in SUBSET items
  OBVIOUS
<1> HIDE DEF dead
<1>5. /\ record.kind = txn[t].kind /\ record.p = txn[t].p
      /\ record.rows = txn[t].rows /\ record.lines = txn[t].lines
      /\ record.number = txn[t].number
      /\ record.gone = dead /\ record.step = "insertItems"
  BY <1>1 DEF TxnRecord
<1>6. record \in TxnRecord
  BY <1>1, <1>4 DEF TxnRecord, Steps
<1>7. Put(t, record)
  BY <1>1 DEF DeleteDead, Put, dead
<1> HIDE DEF record
<1>8. Lock(t, {})
  BY NoLocks DEF DeleteDead
<1>9. txn'[t] = record
  BY <1>1, <1>7 DEF Put
<1>10. \A o, m : Has(t, o, m) => Has(t, o, m)'
  BY <1>8, LockEffect
<1>11. Active(t)'
  BY <1>5, <1>9 DEF Active
<1>12. RowsOK(t)'
  BY <1>2, <1>5, <1>9, <1>10, <1>11, Carried
<1>13. TakeOverOK(t)'
  <2>1. Fresh(txn[t].p)' /\ txn'[t].p \in Payments
    BY <1>2, <1>5, <1>9, <1>10, <1>11, Carried DEF TakesOver
  <2>2. items' = items
    BY <1>2 DEF vars
  <2>3. QED
    BY <1>3, <1>4, <1>5, <1>9, <2>1, <2>2 DEF TakeOverOK
<1>14. NumberOK(t)'
  BY <1>2, <1>5, <1>9, <1>10 DEF TxnOK, NumberOK, vars
<1>15. TxnOK(t)'
  BY <1>2, <1>5, <1>9, <1>10, <1>11, <1>12, <1>13, <1>14
     DEF TxnOK, StepOK, OnPath, Kinds, SettleOK, Settles, RejectOK, SweepOK, CloseOK,
         DiscountOK
<1>16. QED
  BY <1>2, <1>5, <1>6, <1>7, <1>8, <1>9, <1>15, StatementStep DEF TakesOver

LEMMA InsertItemsInv ==
    ASSUME LInv, NEW t \in Txns, InsertItems(t)
    PROVE  LInv'
<1>1. /\ UNCHANGED vars /\ TxnOK(t) /\ Active(t) /\ txn[t].step = "insertItems"
      /\ txn[t].kind \in {"collect", "claim"}
  BY DEF LInv, InsertItems, TxnOK, StepOK, OnPath, Active
<1>2. CASE RollsBack(t)
  BY <1>1, <1>2, EndStep DEF RollsBack
<1>3. CASE Goto(t, "commit") /\ UNCHANGED held
  <2>1. "commit" \in Steps /\ Lock(t, {})
    BY <1>3, NoLocks DEF Steps
  <2>2. \A o, m : Has(t, o, m) => Has(t, o, m)'
    BY <2>1, LockEffect
  <2>3. Active(t)'
    BY <1>3, <2>1, GotoEffect DEF Active
  <2>4. RowsOK(t)'
    BY <1>1, <1>3, <2>1, <2>2, <2>3, GotoEffect, Carried
  <2>5. TakeOverOK(t)'
    BY <1>1, <1>3, <2>1, GotoEffect DEF TxnOK, TakeOverOK, TakesOver, Fresh, vars
  <2>6. NumberOK(t)'
    BY <1>1, <1>3, <2>1, <2>2, GotoEffect DEF TxnOK, NumberOK, vars
  <2>7. Has(t, Tenant, "share")'
    BY <1>1, <2>2 DEF TxnOK, StepOK
  <2>8. TxnOK(t)'
    BY <1>1, <1>3, <2>1, <2>3, <2>4, <2>5, <2>6, <2>7, GotoEffect
       DEF TxnOK, StepOK, OnPath, Kinds, SettleOK, Settles, RejectOK, SweepOK, CloseOK,
           DiscountOK
  <2>9. QED
    BY <1>1, <1>3, <2>1, <2>8, GotoStep
<1>4. QED
  BY <1>2, <1>3 DEF InsertItems

LEMMA SettleLocksInv ==
    ASSUME LInv, NEW t \in Txns, WebhookLocks(t) \/ ApproveLocks(t)
    PROVE  LInv'
<1> DEFINE locks == SettleLocks(txn[t].p)
<1>1. /\ UNCHANGED vars /\ TxnOK(t) /\ Active(t) /\ txn[t].step = "lockPayment"
      /\ txn[t].kind \in {"webhook", "approve"} /\ Settles(t)
  BY DEF LInv, WebhookLocks, ApproveLocks, Active, Settles
<1>2. CASE Ends(t, "done") \/ Ends(t, "skipped")
  BY <1>1, <1>2, EndStep
<1>3. CASE /\ Goto(t, "number") /\ Lock(t, locks)
           /\ \A l \in locks : Free(t, l[1], l[2])
           /\ IF txn[t].kind = "webhook" THEN pay[txn[t].p].status \in OpenStatuses
              ELSE pay[txn[t].p].status = "pending_verification"
  <2>1. "number" \in Steps /\ txn[t].p \in Payments
    BY <1>1 DEF Steps, TxnOK, SettleOK
  <2>2. locks \in SUBSET (Lockable \X Modes)
    BY <2>1 DEF SettleLocks, Lockable, Modes
  <2>3. Has(t, txn[t].p, "update")' /\ Has(t, Tenant, "update")'
    BY <1>3, <2>1, LockEffect, GotoEffect DEF Has, SettleLocks
  <2>4. Active(t)'
    BY <1>3, <2>1, GotoEffect DEF Active
  <2>5. SettleOK(t)'
    BY <1>1, <1>3, <2>1, <2>3, GotoEffect DEF TxnOK, SettleOK, vars
  <2>6. TxnOK(t)'
    BY <1>1, <1>3, <2>1, <2>4, <2>5, GotoEffect
       DEF TxnOK, StepOK, OnPath, Kinds, NumberOK, RowsOK, TakeOverOK, TakesOver,
           RejectOK, SweepOK, CloseOK, DiscountOK
  <2>7. QED
    BY <1>1, <1>3, <2>1, <2>2, <2>6, GotoStep
<1>4. QED
  BY <1>1, <1>2, <1>3 DEF WebhookLocks, ApproveLocks, RollsBack

LEMMA RejectLocksInv ==
    ASSUME LInv, NEW t \in Txns, RejectLocks(t)
    PROVE  LInv'
<1> DEFINE record == [txn[t] EXCEPT !.fails = {txn[t].p}, !.step = "delete"]
           locks == {<<txn[t].p, "write">>}
<1>1. txn[t] \in TxnRecord /\ txn \in [Txns -> TxnRecord]
  BY DEF LInv, TablesInv
<1>2. /\ UNCHANGED vars /\ TxnOK(t) /\ Active(t) /\ txn[t].step = "lockPayment"
      /\ txn[t].kind = "reject" /\ txn[t].p \in Payments
  BY DEF LInv, RejectLocks, TxnOK, RejectOK, Active
<1>3. CASE RollsBack(t)
  BY <1>2, <1>3, EndStep DEF RollsBack
<1>4. CASE ~ RollsBack(t)
  <2>1. /\ record.kind = "reject" /\ record.p = txn[t].p
        /\ record.fails = {txn[t].p} /\ record.step = "delete"
    BY <1>1, <1>2 DEF TxnRecord
  <2>2. record \in TxnRecord
    BY <1>1, <1>2 DEF TxnRecord, Steps
  <2>3. Put(t, record)
    BY <1>1, <1>4 DEF RejectLocks, Put
  <2> HIDE DEF record
  <2>4. txn'[t] = record
    BY <1>1, <2>3 DEF Put
  <2>5. locks \in SUBSET (Lockable \X Modes) /\ Lock(t, locks)
    BY <1>2, <1>4 DEF RejectLocks, Lockable, Modes
  <2>6. Has(t, txn[t].p, "write")'
    BY <2>1, <2>4, <2>5, LockEffect DEF Has
  <2>7. pay'[txn'[t].p].status = "pending_verification"
    BY <1>2, <1>4, <2>1, <2>4 DEF RejectLocks, vars
  <2>8. TxnOK(t)'
    BY <1>2, <2>1, <2>4, <2>6, <2>7
       DEF TxnOK, StepOK, OnPath, Kinds, Active, NumberOK, RowsOK, TakeOverOK, TakesOver,
           SettleOK, Settles, RejectOK, SweepOK, CloseOK, DiscountOK
  <2>9. Free(t, txn[t].p, "write")
    BY DEF RejectLocks
  <2>10. QED
    BY <1>2, <2>1, <2>2, <2>3, <2>4, <2>5, <2>8, <2>9, StatementStep DEF TakesOver
<1>5. QED
  BY <1>3, <1>4

LEMMA ReadItemsInv ==
    ASSUME LInv, NEW t \in Txns, ReadItems(t)
    PROVE  LInv'
<1> DEFINE rows == RowsOf(ItemsOf(txn[t].p))
           next == IF rows = {} THEN "emit" ELSE "markRows"
           record == [txn[t] EXCEPT !.todo = rows, !.rows = rows, !.step = next]
<1>1. txn[t] \in TxnRecord /\ txn \in [Txns -> TxnRecord] /\ rows \in SUBSET Rows
  BY DEF LInv, TablesInv, IInv, TypeOK, RowsOf, ItemsOf, Items
<1>2. /\ UNCHANGED vars /\ TxnOK(t) /\ Active(t) /\ txn[t].step = "readItems"
      /\ txn[t].kind \in {"webhook", "approve"} /\ Settles(t)
  BY DEF LInv, ReadItems, TxnOK, StepOK, OnPath, Active, Settles
<1>3. txn' = [txn EXCEPT ![t].todo = rows, ![t].rows = rows, ![t].step = next]
  BY DEF ReadItems
<1>4. RowsOf(ItemsOf(txn[t].p))' = rows
  BY <1>1, <1>2, <1>3 DEF RowsOf, ItemsOf, vars, TxnRecord
<1> HIDE DEF rows
<1>5. /\ record.kind = txn[t].kind /\ record.p = txn[t].p
      /\ record.number = txn[t].number
      /\ record.todo = rows /\ record.rows = rows /\ record.step = next
  BY <1>1 DEF TxnRecord
<1>6. record \in TxnRecord
  BY <1>1 DEF TxnRecord, Steps
<1>7. Put(t, record)
  BY <1>1, <1>3 DEF Put
<1> HIDE DEF record
<1>8. txn'[t] = record
  BY <1>1, <1>7 DEF Put
<1>9. Lock(t, {})
  BY NoLocks DEF ReadItems
<1>10. \A o, m : Has(t, o, m) => Has(t, o, m)'
  BY <1>9, LockEffect
<1>11. SettleOK(t)'
  BY <1>2, <1>4, <1>5, <1>8, <1>10 DEF TxnOK, SettleOK, Settles, vars
<1>12. NumberOK(t)'
  BY <1>2, <1>5, <1>8, <1>10 DEF TxnOK, NumberOK, vars
<1>13. TxnOK(t)'
  BY <1>2, <1>5, <1>8, <1>11, <1>12
     DEF TxnOK, StepOK, OnPath, Kinds, Active, RowsOK, TakeOverOK, TakesOver, RejectOK,
         SweepOK, CloseOK, DiscountOK
<1>14. QED
  BY <1>2, <1>5, <1>6, <1>7, <1>8, <1>9, <1>13, StatementStep DEF TakesOver

LEMMA MarkRowInv ==
    ASSUME LInv, NEW t \in Txns, NEW r \in Rows, MarkRow(t, r)
    PROVE  LInv'
<1> DEFINE left == txn[t].todo \ {r}
           next == IF txn[t].todo = {r} THEN "emit" ELSE txn[t].step
           record == [txn[t] EXCEPT !.todo = left, !.step = next]
           locks == {<<r, "write">>}
<1>1. txn[t] \in TxnRecord /\ txn \in [Txns -> TxnRecord]
  BY DEF LInv, TablesInv
<1>2. /\ UNCHANGED vars /\ TxnOK(t) /\ Active(t) /\ txn[t].step = "markRows"
      /\ txn[t].kind \in {"webhook", "approve"} /\ Settles(t) /\ r \in txn[t].todo
  BY DEF LInv, MarkRow, TxnOK, StepOK, OnPath, Active, Settles
<1>3. /\ record.kind = txn[t].kind /\ record.p = txn[t].p
      /\ record.number = txn[t].number /\ record.rows = txn[t].rows
      /\ record.todo = left /\ record.step = next
  BY <1>1 DEF TxnRecord
<1>4. record \in TxnRecord
  BY <1>1 DEF TxnRecord, Steps
<1>5. Put(t, record)
  BY <1>1 DEF MarkRow, Put
<1> HIDE DEF record
<1>6. txn'[t] = record
  BY <1>1, <1>5 DEF Put
<1>7. locks \in SUBSET (Lockable \X Modes) /\ Lock(t, locks)
  BY DEF MarkRow, Lockable, Modes
<1>8. (\A o, m : Has(t, o, m) => Has(t, o, m)') /\ Has(t, r, "write")'
  BY <1>7, LockEffect DEF Has
<1>9. SettleOK(t)'
  <2>1. RowsOf(ItemsOf(txn[t].p))' = RowsOf(ItemsOf(txn[t].p))
    BY <1>2, <1>3, <1>6 DEF RowsOf, ItemsOf, vars
  <2>2. QED
    BY <1>2, <1>3, <1>6, <1>8, <2>1 DEF TxnOK, SettleOK, Settles, vars
<1>10. NumberOK(t)'
  BY <1>2, <1>3, <1>6, <1>8 DEF TxnOK, NumberOK, vars
<1>11. TxnOK(t)'
  BY <1>2, <1>3, <1>6, <1>9, <1>10
     DEF TxnOK, StepOK, OnPath, Kinds, Active, RowsOK, TakeOverOK, TakesOver, RejectOK,
         SweepOK, CloseOK, DiscountOK
<1>12. Free(t, r, "write")
  BY DEF MarkRow
<1>13. QED
  BY <1>2, <1>3, <1>4, <1>5, <1>6, <1>7, <1>11, <1>12, StatementStep DEF TakesOver

LEMMA DeleteItemsInv ==
    ASSUME LInv, NEW t \in Txns, DeleteItems(t)
    PROVE  LInv'
<1> DEFINE gone == {i \in items : i.payment \in txn[t].fails}
           record == [txn[t] EXCEPT !.gone = gone, !.step = "emit"]
<1>1. txn[t] \in TxnRecord /\ txn \in [Txns -> TxnRecord] /\ gone \in SUBSET Items
  BY DEF LInv, TablesInv, IInv, TypeOK
<1>2. /\ UNCHANGED vars /\ TxnOK(t) /\ Active(t) /\ txn[t].step = "delete"
      /\ txn[t].kind \in {"reject", "sweep"}
  BY DEF LInv, DeleteItems, TxnOK, StepOK, OnPath, Active
<1>3. txn' = [txn EXCEPT ![t].gone = gone, ![t].step = "emit"]
  BY DEF DeleteItems
<1>4. \A i : i \in gone <=> i \in items /\ i.payment \in txn[t].fails
  OBVIOUS
<1> HIDE DEF gone
<1>5. /\ record.kind = txn[t].kind /\ record.p = txn[t].p
      /\ record.fails = txn[t].fails
      /\ record.gone = gone /\ record.step = "emit"
  BY <1>1 DEF TxnRecord
<1>6. record \in TxnRecord
  BY <1>1 DEF TxnRecord, Steps
<1>7. Put(t, record)
  BY <1>1, <1>3 DEF Put
<1> HIDE DEF record
<1>8. txn'[t] = record
  BY <1>1, <1>7 DEF Put
<1>9. Lock(t, {})
  BY NoLocks DEF DeleteItems
<1>10. \A o, m : Has(t, o, m) => Has(t, o, m)'
  BY <1>9, LockEffect
<1>11. Active(t)'
  BY <1>5, <1>8 DEF Active
<1>12. RejectOK(t)' /\ SweepOK(t)'
  BY <1>2, <1>5, <1>8, <1>10, <1>11, Carried
<1>13. CloseOK(t)'
  BY <1>2, <1>4, <1>5, <1>8 DEF CloseOK, vars
<1>14. TxnOK(t)'
  BY <1>2, <1>5, <1>8, <1>11, <1>12, <1>13
     DEF TxnOK, StepOK, OnPath, Kinds, NumberOK, RowsOK, TakeOverOK, TakesOver, SettleOK,
         Settles, DiscountOK
<1>15. QED
  BY <1>2, <1>5, <1>6, <1>7, <1>8, <1>9, <1>14, StatementStep DEF TakesOver

LEMMA WriteOutboxInv ==
    ASSUME LInv, NEW t \in Txns, WriteOutbox(t)
    PROVE  LInv'
<1> DEFINE locks == {<<Tenant, "share">>}
<1>1. /\ UNCHANGED vars /\ TxnOK(t) /\ Active(t) /\ txn[t].step = "emit"
      /\ txn[t].kind \in Kinds \ {"collect", "claim"}
  BY DEF LInv, WriteOutbox, TxnOK, StepOK, OnPath, Active
<1>2. Goto(t, "commit") /\ "commit" \in Steps
  BY DEF WriteOutbox, Steps
<1>3. locks \in SUBSET (Lockable \X Modes) /\ Lock(t, locks)
  BY DEF WriteOutbox, Lockable, Modes
<1>4. (\A o, m : Has(t, o, m) => Has(t, o, m)') /\ Has(t, Tenant, "share")'
  BY <1>3, LockEffect DEF Has
<1>5. Active(t)'
  BY <1>2, GotoEffect DEF Active
<1>6. RowsOK(t)' /\ SettleOK(t)' /\ RejectOK(t)' /\ SweepOK(t)' /\ CloseOK(t)' /\ DiscountOK(t)'
  BY <1>1, <1>2, <1>4, <1>5, GotoEffect, Carried
<1>7. NumberOK(t)'
  BY <1>1, <1>2, <1>4, GotoEffect DEF TxnOK, NumberOK, Kinds, vars
<1>8. TxnOK(t)'
  BY <1>1, <1>2, <1>4, <1>5, <1>6, <1>7, GotoEffect
     DEF TxnOK, StepOK, OnPath, Kinds, TakeOverOK, TakesOver
<1>9. Free(t, Tenant, "share")
  BY DEF WriteOutbox
<1>10. QED
  BY <1>1, <1>2, <1>3, <1>8, <1>9, GotoStep

LEMMA PriceRowInv ==
    ASSUME LInv, NEW t \in Txns, PriceRow(t)
    PROVE  LInv'
<1>1. txn[t] \in TxnRecord /\ txn \in [Txns -> TxnRecord] /\ TypeOK
  BY DEF LInv, TablesInv, IInv
<1>2. /\ UNCHANGED vars /\ TxnOK(t) /\ Active(t) /\ txn[t].step = "price"
      /\ txn[t].kind = "discount"
  BY DEF LInv, PriceRow, TxnOK, StepOK, OnPath, Active
<1>3. CASE txn[t].todo = {} /\ Goto(t, "emit") /\ UNCHANGED held
  <2>1. "emit" \in Steps /\ Lock(t, {})
    BY <1>3, NoLocks DEF Steps
  <2>2. \A o, m : Has(t, o, m) => Has(t, o, m)'
    BY <2>1, LockEffect
  <2>3. DiscountOK(t)'
    BY <1>2, <1>3, <2>1, <2>2, GotoEffect DEF TxnOK, DiscountOK, vars
  <2>4. TxnOK(t)'
    BY <1>2, <1>3, <2>1, <2>3, GotoEffect
       DEF TxnOK, StepOK, OnPath, Kinds, Active, NumberOK, RowsOK, TakeOverOK, TakesOver,
           SettleOK, Settles, RejectOK, SweepOK, CloseOK
  <2>5. QED
    BY <1>2, <1>3, <2>1, <2>4, GotoStep
<1>4. ASSUME NEW r \in txn[t].todo, Free(t, r, "write"), Lock(t, {<<r, "write">>}),
             txn' = [txn EXCEPT
                  ![t].todo = @ \ {r},
                  ![t].rows = IF ledger[r].status = "unpaid" THEN @ \cup {r} ELSE @]
      PROVE  LInv'
  <2> DEFINE left == txn[t].todo \ {r}
             rows == IF ledger[r].status = "unpaid" THEN txn[t].rows \cup {r}
                                                    ELSE txn[t].rows
             record == [txn[t] EXCEPT !.todo = left, !.rows = rows]
             locks == {<<r, "write">>}
  <2>1. r \in Rows
    BY <1>2 DEF TxnOK, DiscountOK
  <2>2. /\ record.kind = "discount" /\ record.p = txn[t].p /\ record.step = "price"
        /\ record.price = txn[t].price /\ record.todo = left /\ record.rows = rows
    BY <1>1, <1>2 DEF TxnRecord
  <2>3. record \in TxnRecord
    BY <1>1, <2>1 DEF TxnRecord
  <2>4. Put(t, record)
    BY <1>1, <1>4 DEF Put
  <2> HIDE DEF record
  <2>5. txn'[t] = record
    BY <1>1, <2>4 DEF Put
  <2>6. locks \in SUBSET (Lockable \X Modes) /\ Lock(t, locks)
    BY <1>4, <2>1 DEF Lockable, Modes
  <2>7. (\A o, m : Has(t, o, m) => Has(t, o, m)') /\ Has(t, r, "write")'
    BY <2>6, LockEffect DEF Has
  <2>8. DiscountOK(t)'
    BY <1>2, <2>1, <2>2, <2>5, <2>7 DEF TxnOK, DiscountOK, Active, vars
  <2>9. TxnOK(t)'
    BY <1>2, <2>2, <2>5, <2>8
       DEF TxnOK, StepOK, OnPath, Kinds, Active, NumberOK, RowsOK, TakeOverOK, TakesOver,
           SettleOK, Settles, RejectOK, SweepOK, CloseOK
  <2>10. ~ TakesOver(t)'
    BY <2>2, <2>5 DEF TakesOver
  <2>11. Free(t, r, "write")
    BY <1>4
  <2>12. \A l \in locks : Free(t, l[1], l[2])
    BY <2>11
  <2> HIDE DEF locks
  <2>13. QED
    BY <1>2, <2>3, <2>4, <2>6, <2>9, <2>10, <2>12, StatementStep
<1>5. QED
  BY <1>3, <1>4 DEF PriceRow

LEMMA FailOrderInv ==
    ASSUME LInv, NEW t \in Txns, FailOrder(t)
    PROVE  LInv'
<1>1. txn[t] \in TxnRecord /\ txn \in [Txns -> TxnRecord] /\ TypeOK
  BY DEF LInv, TablesInv, IInv
<1>2. /\ UNCHANGED vars /\ TxnOK(t) /\ Active(t) /\ txn[t].step = "fail"
      /\ txn[t].kind = "sweep"
  BY DEF LInv, FailOrder, TxnOK, StepOK, OnPath, Active
<1>3. CASE Ends(t, "done")
  BY <1>2, <1>3, EndStep
<1>4. CASE /\ txn[t].todo = {} /\ txn[t].fails # {}
           /\ Goto(t, "delete") /\ UNCHANGED held
  <2>1. "delete" \in Steps /\ Lock(t, {})
    BY <1>4, NoLocks DEF Steps
  <2>2. \A o, m : Has(t, o, m) => Has(t, o, m)'
    BY <2>1, LockEffect
  <2>3. SweepOK(t)'
    BY <1>2, <1>4, <2>1, <2>2, GotoEffect DEF TxnOK, SweepOK, vars
  <2>4. TxnOK(t)'
    BY <1>2, <1>4, <2>1, <2>3, GotoEffect
       DEF TxnOK, StepOK, OnPath, Kinds, Active, NumberOK, RowsOK, TakeOverOK, TakesOver,
           SettleOK, Settles, RejectOK, CloseOK, DiscountOK
  <2>5. QED
    BY <1>2, <1>4, <2>1, <2>4, GotoStep
<1>5. ASSUME NEW p \in txn[t].todo, Free(t, p, "write"), Lock(t, {<<p, "write">>}),
             txn' = [txn EXCEPT
                  ![t].todo  = @ \ {p},
                  ![t].fails = IF pay[p].status \in OpenStatuses
                               THEN @ \cup {p} ELSE @]
      PROVE  LInv'
  <2> DEFINE left == txn[t].todo \ {p}
             fails == IF pay[p].status \in OpenStatuses THEN txn[t].fails \cup {p}
                                                        ELSE txn[t].fails
             record == [txn[t] EXCEPT !.todo = left, !.fails = fails]
             locks == {<<p, "write">>}
  <2>1. p \in aged /\ p \in Payments
    BY <1>1, <1>2 DEF TxnOK, SweepOK, TypeOK
  <2>2. /\ record.kind = "sweep" /\ record.p = txn[t].p /\ record.step = "fail"
        /\ record.todo = left /\ record.fails = fails
    BY <1>1, <1>2 DEF TxnRecord
  <2>3. record \in TxnRecord
    BY <1>1, <2>1 DEF TxnRecord
  <2>4. Put(t, record)
    BY <1>1, <1>5 DEF Put
  <2> HIDE DEF record
  <2>5. txn'[t] = record
    BY <1>1, <2>4 DEF Put
  <2>6. locks \in SUBSET (Lockable \X Modes) /\ Lock(t, locks)
    BY <1>5, <2>1 DEF Lockable, Modes
  <2>7. (\A o, m : Has(t, o, m) => Has(t, o, m)') /\ Has(t, p, "write")'
    BY <2>6, LockEffect DEF Has
  <2>8. SweepOK(t)'
    BY <1>2, <2>1, <2>2, <2>5, <2>7 DEF TxnOK, SweepOK, Active, vars
  <2>9. TxnOK(t)'
    BY <1>2, <2>2, <2>5, <2>8
       DEF TxnOK, StepOK, OnPath, Kinds, Active, NumberOK, RowsOK, TakeOverOK, TakesOver,
           SettleOK, Settles, RejectOK, CloseOK, DiscountOK
  <2>10. ~ TakesOver(t)'
    BY <2>2, <2>5 DEF TakesOver
  <2>11. Free(t, p, "write")
    BY <1>5
  <2>12. \A l \in locks : Free(t, l[1], l[2])
    BY <2>11
  <2> HIDE DEF locks
  <2>13. QED
    BY <1>2, <2>3, <2>4, <2>6, <2>9, <2>10, <2>12, StatementStep
<1>6. QED
  BY <1>3, <1>4, <1>5 DEF FailOrder

LEMMA StartInv ==
    ASSUME LInv, NEW t \in Txns,
           StartOverRows(t) \/ StartOnPayment(t) \/ StartDiscount(t) \/ StartSweep(t)
    PROVE  LInv'
<1>1. /\ UNCHANGED <<vars, held>> /\ UNCHANGED vars /\ txn[t].step = "begin"
      /\ ~ Active(t) /\ TxnOK(t) /\ TypeOK
  BY DEF StartOverRows, StartOnPayment, StartDiscount, StartSweep, Starts, Active, vars,
         LInv, IInv
<1>2. Lock(t, {}) /\ \A o, m : ~ Has(t, o, m)'
  BY <1>1, NoLocks DEF TxnOK, StepOK, Has
<1>3. NoTxn \in TxnRecord
  BY DEF NoTxn, TxnRecord, Kinds, Steps
<1>4. txn \in [Txns -> TxnRecord]
  BY DEF LInv, TablesInv
<1>5. ASSUME NEW S \in (SUBSET Rows) \ {{}}, NEW kind \in {"collect", "claim"},
             NEW p \in Payments, UnusedId(p),
             Starts(t, [NoTxn EXCEPT !.kind = kind, !.step = "lockRows", !.p = p,
                                     !.todo = S])
      PROVE  LInv'
  <2> DEFINE record == [NoTxn EXCEPT !.kind = kind, !.step = "lockRows", !.p = p,
                                     !.todo = S]
  <2>1. record \in TxnRecord
    BY <1>3 DEF TxnRecord, Kinds, Steps
  <2>2. /\ record.kind = kind /\ record.step = "lockRows" /\ record.p = p
        /\ record.todo = S /\ record.rows = {} /\ record.lines = {}
    BY DEF NoTxn
  <2>3. Put(t, record)
    BY <1>5 DEF Starts, Put
  <2> HIDE DEF record
  <2>4. txn'[t] = record
    BY <1>4, <2>3 DEF Put
  <2>5. Active(t)'
    BY <2>2, <2>4 DEF Active
  <2>6. RowsOK(t)'
    BY <2>2, <2>4 DEF RowsOK, Priced
  <2>7. TakeOverOK(t)'
    BY <1>1, <1>5, <2>2, <2>4 DEF TakeOverOK, UnusedId, Fresh, vars
  <2>8. TxnOK(t)'
    BY <2>2, <2>4, <2>5, <2>6, <2>7
       DEF TxnOK, StepOK, OnPath, Kinds, NumberOK, SettleOK, Settles, RejectOK, SweepOK,
           CloseOK, DiscountOK
  <2>9. QED
    BY <1>1, <1>2, <1>5, <2>1, <2>2, <2>3, <2>8, StatementStep DEF UnusedId
<1>6. ASSUME NEW S \in (SUBSET Rows) \ {{}},
             Starts(t, [NoTxn EXCEPT !.kind = "waive", !.step = "lockRows", !.todo = S])
      PROVE  LInv'
  <2> DEFINE record == [NoTxn EXCEPT !.kind = "waive", !.step = "lockRows", !.todo = S]
  <2>1. record \in TxnRecord
    BY <1>3 DEF TxnRecord, Kinds, Steps
  <2>2. /\ record.kind = "waive" /\ record.step = "lockRows"
        /\ record.todo = S /\ record.rows = {} /\ record.lines = {}
    BY DEF NoTxn
  <2>3. Put(t, record)
    BY <1>6 DEF Starts, Put
  <2> HIDE DEF record
  <2>4. txn'[t] = record
    BY <1>4, <2>3 DEF Put
  <2>5. RowsOK(t)'
    BY <2>2, <2>4 DEF RowsOK, Priced
  <2>6. TxnOK(t)' /\ ~ TakesOver(t)'
    BY <2>2, <2>4, <2>5
       DEF TxnOK, StepOK, OnPath, Kinds, Active, NumberOK, TakeOverOK, TakesOver, SettleOK,
           Settles, RejectOK, SweepOK, CloseOK, DiscountOK
  <2>7. QED
    BY <1>1, <1>2, <2>1, <2>3, <2>6, StatementStep
<1>7. ASSUME NEW p \in Payments, NEW kind \in {"webhook", "approve", "reject"},
             kind = "webhook" => p \in captured,
             Starts(t, [NoTxn EXCEPT !.kind = kind, !.step = "lockPayment", !.p = p])
      PROVE  LInv'
  <2> DEFINE record == [NoTxn EXCEPT !.kind = kind, !.step = "lockPayment", !.p = p]
  <2>1. record \in TxnRecord
    BY <1>3 DEF TxnRecord, Kinds, Steps
  <2>2. record.kind = kind /\ record.step = "lockPayment" /\ record.p = p
    BY DEF NoTxn
  <2>3. Put(t, record)
    BY <1>7 DEF Starts, Put
  <2> HIDE DEF record
  <2>4. txn'[t] = record
    BY <1>4, <2>3 DEF Put
  <2>5. SettleOK(t)' /\ RejectOK(t)'
    BY <1>1, <1>7, <2>2, <2>4 DEF SettleOK, RejectOK, vars
  <2>6. TxnOK(t)' /\ ~ TakesOver(t)'
    BY <2>2, <2>4, <2>5
       DEF TxnOK, StepOK, OnPath, Kinds, Active, NumberOK, RowsOK, TakeOverOK, TakesOver,
           SweepOK, CloseOK, DiscountOK
  <2>7. QED
    BY <1>1, <1>2, <2>1, <2>3, <2>6, StatementStep
<1>8. ASSUME NEW price \in [Rows -> Prices],
             Starts(t, [NoTxn EXCEPT !.kind = "discount", !.step = "price",
                                !.price = price,
                                !.todo = {r \in Rows : ledger[r].status = "unpaid"}])
      PROVE  LInv'
  <2> DEFINE unpaid == {r \in Rows : ledger[r].status = "unpaid"}
             record == [NoTxn EXCEPT !.kind = "discount", !.step = "price",
                                     !.price = price, !.todo = unpaid]
  <2>1. record \in TxnRecord
    BY <1>3 DEF TxnRecord, Kinds, Steps
  <2>2. /\ record.kind = "discount" /\ record.step = "price" /\ record.price = price
        /\ record.todo = unpaid /\ record.rows = {}
    BY DEF NoTxn
  <2>3. Put(t, record)
    BY <1>8 DEF Starts, Put
  <2> HIDE DEF record
  <2>4. txn'[t] = record
    BY <1>4, <2>3 DEF Put
  <2>5. DiscountOK(t)'
    BY <1>1, <2>2, <2>4 DEF DiscountOK, vars
  <2>6. TxnOK(t)' /\ ~ TakesOver(t)'
    BY <2>2, <2>4, <2>5
       DEF TxnOK, StepOK, OnPath, Kinds, Active, NumberOK, RowsOK, TakeOverOK, TakesOver,
           SettleOK, Settles, RejectOK, SweepOK, CloseOK
  <2>7. QED
    BY <1>1, <1>2, <2>1, <2>3, <2>6, StatementStep
<1>9. CASE StartSweep(t)
  <2> DEFINE open == {p \in aged : pay[p].status \in OpenStatuses}
             record == [NoTxn EXCEPT !.kind = "sweep", !.step = "fail", !.todo = open]
  <2>1. record \in TxnRecord
    BY <1>1, <1>3 DEF TxnRecord, Kinds, Steps, TypeOK
  <2>2. /\ record.kind = "sweep" /\ record.step = "fail"
        /\ record.todo = open /\ record.fails = {}
    BY DEF NoTxn
  <2>3. Put(t, record)
    BY <1>9 DEF StartSweep, Starts, Put
  <2> HIDE DEF record
  <2>4. txn'[t] = record
    BY <1>4, <2>3 DEF Put
  <2>5. SweepOK(t)'
    BY <1>1, <2>2, <2>4 DEF SweepOK, vars
  <2>6. TxnOK(t)' /\ ~ TakesOver(t)'
    BY <2>2, <2>4, <2>5
       DEF TxnOK, StepOK, OnPath, Kinds, Active, NumberOK, RowsOK, TakeOverOK, TakesOver,
           SettleOK, Settles, RejectOK, CloseOK, DiscountOK
  <2>7. QED
    BY <1>1, <1>2, <2>1, <2>3, <2>6, StatementStep
<1>10. QED
  BY <1>5, <1>6, <1>7, <1>8, <1>9 DEF StartOverRows, StartOnPayment, StartDiscount

-----------------------------------------------------------------------------
(* What is committed is an action of FeePayments and leaves the others     *)
(* what they rely on.                                                      *)

LEMMA Exclusive ==
    ASSUME LInv, NEW t \in Txns, NEW u \in Txns, t # u, NEW o
    PROVE  /\ Holds(t, o) => ~ Holds(u, o)
           /\ Has(t, o, "share") => ~ Has(u, o, "update")
<1>1. \A m \in {"update", "write"} : \A n \in {"update", "write"} : ~ Compatible(m, n)
  BY DEF Compatible
<1>2. ~ Compatible("share", "update")
  BY DEF Compatible
<1>3. \A m, n : Has(t, o, m) /\ Has(u, o, n) => Compatible(m, n)
  BY DEF LInv, HeldInv, Has
<1>4. QED
  BY <1>1, <1>2, <1>3 DEF Holds

LEMMA PaidRow ==
    ASSUME NEW row \in LedgerRow, NEW p
    PROVE  [row EXCEPT !.status = "paid", !.payment = p] =
              [status |-> "paid", amount |-> row.amount, payment |-> p]
<1> DEFINE paid == [row EXCEPT !.status = "paid"]
<1>1. /\ paid \in [status : {"paid"}, amount : Prices, payment : Payments \cup {None}]
      /\ paid.status = "paid" /\ paid.amount = row.amount
  BY DEF LedgerRow
<1> HIDE DEF paid
<1>2. [paid EXCEPT !.payment = p] = [status |-> "paid", amount |-> row.amount, payment |-> p]
  BY <1>1
<1>3. QED
  BY <1>2 DEF paid

LEMMA CommitSettleStep ==
    ASSUME LInv, NEW t \in Txns, CommitSettle(t)
    PROVE  Next /\ Ends(t, "done") /\ \A u \in Txns \ {t} : Leaves(u)
<1> DEFINE p == txn[t].p
<1> TypeOK
  BY DEF LInv, IInv
<1>1. /\ Active(t) /\ TxnOK(t) /\ txn[t].step = "commit"
      /\ txn[t].kind \in {"webhook", "approve"} /\ Settles(t)
  BY DEF LInv, CommitSettle, Commits, Active, Settles
<1>2. /\ p \in Payments
      /\ txn[t].kind = "webhook" => p \in captured
      /\ Has(t, p, "update") /\ Has(t, Tenant, "update")
      /\ IF txn[t].kind = "webhook" THEN pay[p].status \in OpenStatuses
         ELSE pay[p].status = "pending_verification"
      /\ txn[t].rows = RowsOf(ItemsOf(p))
      /\ \A r \in txn[t].rows : Has(t, r, "write")
  BY <1>1 DEF TxnOK, SettleOK
<1>3. Has(t, Counter, "write") /\ txn[t].number = counter + 1
  BY <1>1 DEF TxnOK, NumberOK
<1>4. /\ items' = items /\ request' = request /\ captured' = captured /\ aged' = aged
      /\ pay' = [pay EXCEPT ![p].status = "paid", ![p].receipt = counter + 1]
      /\ ledger' = PaidRows(txn[t].rows, p)
      /\ Emit(p, "FEE_PAID") /\ counter' = counter + 1
      /\ Ends(t, "done")
  BY <1>3 DEF CommitSettle, Commits
<1> HIDE DEF p
<1>5. Settle(p)
  <2>1. ASSUME NEW r \in Rows
        PROVE  [ledger[r] EXCEPT !.status = "paid", !.payment = p] =
                  [status |-> "paid", amount |-> ledger[r].amount, payment |-> p]
    BY PaidRow DEF TypeOK
  <2>2. MarkRowsPaid(p, ItemsOf(p))
    BY <1>2, <1>4, <2>1 DEF MarkRowsPaid, PaidRows
  <2>3. QED
    BY <1>4, <2>2 DEF Settle
<1>6. Webhook(p) \/ Approve(p)
  BY <1>1, <1>2, <1>4, <1>5 DEF Webhook, Approve
<1>7. Next
  BY <1>2, <1>6 DEF Next
<1>8. ASSUME NEW u \in Txns \ {t}
      PROVE  Leaves(u)
  <2>1. \A o : Holds(t, o) => ~ Holds(u, o)
    BY <1>8, Exclusive
  <2>2. Holds(t, p) /\ Holds(t, Counter) /\ Holds(t, Tenant)
        /\ \A r \in txn[t].rows : Holds(t, r)
    BY <1>2, <1>3 DEF Holds
  <2>3. /\ pay'[p].status = "paid" /\ \A q \in Payments \ {p} : pay'[q] = pay[q]
        /\ \A r \in Rows : IF \E i \in items : i.row = r /\ i.payment = p
                           THEN ledger'[r].status = "paid" ELSE ledger'[r] = ledger[r]
    BY <1>2, <1>5, SettleEffect
  <2>4. \A r : r \in txn[t].rows <=> \E i \in items : i.row = r /\ i.payment = p
    BY <1>2 DEF RowsOf, ItemsOf
  <2>5. LeavesLedger(u)
    BY <2>1, <2>2, <2>3, <2>4 DEF LeavesLedger, Holds
  <2>6. LeavesItems(u)
    BY <1>4, <2>1, <2>2, <2>3, <2>4 DEF LeavesItems, Holds, TypeOK, Items
  <2>7. TakesOver(u) => txn[u].p \in Payments /\ Fresh(txn[u].p)
    BY DEF LInv, TxnOK, TakeOverOK
  <2>8. LeavesPayments(u)
    BY <1>2, <1>4, <2>1, <2>2, <2>3, <2>7
       DEF LeavesPayments, Fresh, OpenStatuses, TypeOK
  <2>9. QED
    BY <2>5, <2>6, <2>8 DEF Leaves
<1>9. QED
  BY <1>4, <1>7, <1>8

\* A commit that takes rows over: what it may rely on in the end.
LEMMA TakeOverReady ==
    ASSUME LInv, NEW t \in Txns, TakesOver(t), txn[t].step = "commit",
           items' = (items \ txn[t].gone) \cup ItemsFor(txn[t].p, txn[t].lines)
    PROVE  /\ txn[t].p \in Payments /\ Fresh(txn[t].p)
           /\ txn[t].rows \in SUBSET Rows
           /\ txn[t].lines = Priced(txn[t].rows)
           /\ \A r \in txn[t].rows : Has(t, r, "update")
           /\ Has(t, Tenant, "share")
           /\ TakeOver(txn[t].p, txn[t].rows, ItemsFor(txn[t].p, Priced(txn[t].rows)))
<1> DEFINE p == txn[t].p
           S == txn[t].rows
           its == ItemsFor(p, Priced(S))
<1>1. TxnOK(t) /\ Active(t) /\ txn[t].kind \in {"collect", "claim"} /\ txn[t] \in TxnRecord
  BY DEF LInv, TablesInv, TakesOver
<1>2. /\ p \in Payments /\ Fresh(p)
      /\ \A i \in items : i.row \in S => i \in txn[t].gone
      /\ \A i \in txn[t].gone : i.row \in S
  BY <1>1 DEF TxnOK, TakeOverOK
<1>3. /\ \A r \in S : Has(t, r, "update") /\ ledger[r].status = "unpaid"
      /\ txn[t].lines = Priced(S) /\ S # {} /\ ~ LiveHolds(S)
  BY <1>1 DEF TxnOK, RowsOK
<1>4. S \in SUBSET Rows /\ Has(t, Tenant, "share")
  BY <1>1 DEF TxnRecord, TxnOK, StepOK
<1> HIDE DEF p, S
<1>5. \A i \in items : i \in WithoutDead(S) <=> i.row \notin S
  BY <1>3 DEF WithoutDead, LiveHolds, LInv, IInv, ItemsInv, LiveStatuses, DeadStatuses
<1>6. WithoutDead(S) = items \ txn[t].gone
  BY <1>2, <1>5 DEF WithoutDead
<1>7. Unclaimed(its, WithoutDead(S))
  <2>1. RowsOf(its) = S
    BY RowsOfPriced
  <2> HIDE DEF its
  <2>2. \A i \in WithoutDead(S) : i.row \notin S
    BY <1>5 DEF WithoutDead
  <2>3. QED
    BY <2>1, <2>2 DEF Unclaimed, RowsOf
<1>8. items' = WithoutDead(S) \cup its
  BY <1>3, <1>6 DEF p
<1>9. TakeOver(p, S, its)
  BY <1>2, <1>3, <1>7, <1>8 DEF TakeOver, Payable
<1>10. QED
  BY <1>2, <1>3, <1>4, <1>9 DEF p, S

\* What a take-over leaves of the items and of payments other than its own.
LEMMA TakeOverLeaves ==
    ASSUME LInv, NEW t \in Txns, NEW u \in Txns \ {t}, TakesOver(t),
           NEW p \in Payments, NEW S \in SUBSET Rows, p = txn[t].p, S = txn[t].rows,
           TakeOver(p, S, ItemsFor(p, Priced(S))),
           \A r \in S : Has(t, r, "update"), Has(t, Tenant, "share"),
           pay'[p].status \in {"paid", "pending_verification"},
           \A q \in Payments \ {p} : pay'[q] = pay[q],
           UNCHANGED <<request, captured, aged>>
    PROVE  LeavesItems(u) /\ LeavesPayments(u)
<1>1. TypeOK /\ IInv
  BY DEF LInv, IInv
<1>2. \A r \in S : ~ Holds(u, r)
  BY Exclusive DEF Holds
<1>3. ~ Has(u, Tenant, "update")
  BY Exclusive
<1>4. /\ pay[p].status = "none" /\ p \notin aged
      /\ \A i \in items : i.payment # p /\ i.payment \in Payments
  BY <1>1 DEF TakeOver, Fresh, IInv, RequestInv, ItemsInv, TypeOK, Items
<1>5. \A i \in items' : i \in items \/ (i.payment = p /\ i.row \in S)
  <2>1. \A i \in ItemsFor(p, Priced(S)) : i.payment = p /\ i.row \in S
    BY DEF ItemsFor, Priced
  <2>2. \A i \in WithoutDead(S) : i \in items
    BY DEF WithoutDead
  <2>3. items' = WithoutDead(S) \cup ItemsFor(p, Priced(S))
    BY DEF TakeOver
  <2>4. QED
    BY <2>1, <2>2, <2>3
<1>6. LeavesItems(u)
  BY <1>2, <1>3, <1>4, <1>5 DEF LeavesItems, Holds
<1>7. TakesOver(u) => /\ txn[u].p \in Payments /\ Fresh(txn[u].p)
                      /\ txn[u].p # p
  BY DEF LInv, TxnOK, TakeOverOK, FreshInv
<1>8. LeavesPayments(u)
  BY <1>1, <1>4, <1>7 DEF LeavesPayments, Fresh, OpenStatuses, TypeOK
<1>9. QED
  BY <1>6, <1>8

LEMMA CommitCollectStep ==
    ASSUME LInv, NEW t \in Txns, CommitCollect(t)
    PROVE  Next /\ Ends(t, "done") /\ \A u \in Txns \ {t} : Leaves(u)
<1> DEFINE p == txn[t].p
           S == txn[t].rows
           its == ItemsFor(p, Priced(S))
<1> TypeOK
  BY DEF LInv, IInv
<1>1. /\ Active(t) /\ TxnOK(t) /\ txn[t].step = "commit" /\ txn[t].kind = "collect"
      /\ TakesOver(t) /\ Ends(t, "done")
  BY DEF LInv, CommitCollect, Commits, Active, TakesOver
<1>2. items' = (items \ txn[t].gone) \cup ItemsFor(txn[t].p, txn[t].lines)
  BY DEF CommitCollect
<1>3. /\ p \in Payments /\ S \in SUBSET Rows /\ txn[t].lines = Priced(S)
      /\ \A r \in S : Has(t, r, "update")
      /\ Has(t, Tenant, "share")
      /\ TakeOver(p, S, its)
  BY <1>1, <1>2, TakeOverReady
<1>4. Has(t, Counter, "write") /\ txn[t].number = counter + 1
  BY <1>1 DEF TxnOK, NumberOK
<1>5. /\ request' = request /\ captured' = captured /\ aged' = aged
      /\ pay' = [pay EXCEPT ![p] =
                  [status |-> "paid", channel |-> "offline", lines |-> Priced(S),
                   order |-> FALSE, receipt |-> counter + 1]]
      /\ ledger' = PaidRows(S, p)
      /\ Emit(p, "FEE_PAID") /\ counter' = counter + 1
  BY <1>3, <1>4 DEF CommitCollect
<1> HIDE DEF p, S
<1>6. MarkRowsPaid(p, its)
  <2>1. ASSUME NEW r \in Rows
        PROVE  [ledger[r] EXCEPT !.status = "paid", !.payment = p] =
                  [status |-> "paid", amount |-> ledger[r].amount, payment |-> p]
    BY PaidRow DEF TypeOK
  <2>2. RowsOf(its) = S
    BY RowsOfPriced
  <2> HIDE DEF its
  <2>3. QED
    BY <1>5, <2>1, <2>2 DEF MarkRowsPaid, PaidRows
<1>7. Collect(p, S)
  BY <1>3, <1>5, <1>6 DEF Collect
<1>8. Next
  BY <1>3, <1>7 DEF Next
<1>9. ASSUME NEW u \in Txns \ {t}
      PROVE  Leaves(u)
  <2>1. pay'[p].status = "paid" /\ \A q \in Payments \ {p} : pay'[q] = pay[q]
    BY <1>3, <1>5 DEF TypeOK
  <2>2. LeavesItems(u) /\ LeavesPayments(u)
    BY <1>1, <1>3, <1>5, <2>1, TakeOverLeaves DEF p, S
  <2>3. \A r \in S : ~ Holds(u, r)
    BY <1>3, Exclusive DEF Holds
  <2>4. ~ Holds(u, Counter)
    BY <1>4, Exclusive DEF Holds
  <2>5. LeavesLedger(u)
    BY <1>5, <2>3, <2>4 DEF LeavesLedger, PaidRows, Holds, TypeOK, LedgerRow
  <2>6. QED
    BY <2>2, <2>5 DEF Leaves
<1>10. QED
  BY <1>1, <1>8, <1>9

LEMMA CommitClaimStep ==
    ASSUME LInv, NEW t \in Txns, CommitClaim(t)
    PROVE  Next /\ Ends(t, "done") /\ \A u \in Txns \ {t} : Leaves(u)
<1> DEFINE p == txn[t].p
           S == txn[t].rows
           its == ItemsFor(p, Priced(S))
<1> TypeOK
  BY DEF LInv, IInv
<1>1. /\ Active(t) /\ txn[t].step = "commit" /\ TakesOver(t) /\ Ends(t, "done")
  BY DEF CommitClaim, Commits, Active, TakesOver
<1>2. items' = (items \ txn[t].gone) \cup ItemsFor(txn[t].p, txn[t].lines)
  BY DEF CommitClaim
<1>3. /\ p \in Payments /\ S \in SUBSET Rows /\ txn[t].lines = Priced(S)
      /\ \A r \in S : Has(t, r, "update")
      /\ Has(t, Tenant, "share")
      /\ TakeOver(p, S, its)
  BY <1>1, <1>2, TakeOverReady
<1>4. /\ request' = request /\ captured' = captured /\ aged' = aged
      /\ ledger' = ledger /\ counter' = counter
      /\ pay' = [pay EXCEPT ![p] =
                  [status |-> "pending_verification", channel |-> "upi",
                   lines |-> Priced(S), order |-> FALSE, receipt |-> 0]]
      /\ Emit(p, "FEE_PAYMENT_CLAIMED")
  BY <1>3 DEF CommitClaim
<1> HIDE DEF p, S
<1>5. Claim(p, S)
  BY <1>3, <1>4 DEF Claim
<1>6. Next
  BY <1>3, <1>5 DEF Next
<1>7. ASSUME NEW u \in Txns \ {t}
      PROVE  Leaves(u)
  <2>1. pay'[p].status = "pending_verification" /\ \A q \in Payments \ {p} : pay'[q] = pay[q]
    BY <1>3, <1>4 DEF TypeOK
  <2>2. LeavesItems(u) /\ LeavesPayments(u)
    BY <1>1, <1>3, <1>4, <2>1, TakeOverLeaves DEF p, S
  <2>3. LeavesLedger(u)
    BY <1>4 DEF LeavesLedger
  <2>4. QED
    BY <2>2, <2>3 DEF Leaves
<1>8. QED
  BY <1>1, <1>6, <1>7

\* Closing payments leaves the others what they rely on.
LEMMA CloseLeaves ==
    ASSUME LInv, NEW t \in Txns, NEW u \in Txns \ {t}, NEW D \in SUBSET Payments,
           \A p \in D : Holds(t, p) /\ pay[p].status # "none",
           Has(t, Tenant, "share"), items' \subseteq items,
           \A p \in D : pay'[p].status \in {"rejected", "failed"},
           \A p \in Payments \ D : pay'[p] = pay[p],
           UNCHANGED <<ledger, counter, request, captured, aged>>
    PROVE  Leaves(u)
<1>1. TypeOK /\ \A i \in items : i.payment \in Payments
  BY DEF LInv, IInv, TypeOK, Items
<1>2. ~ Has(u, Tenant, "update") /\ \A p \in D : ~ Holds(u, p)
  BY Exclusive
<1>3. LeavesLedger(u)
  BY DEF LeavesLedger
<1>4. LeavesItems(u)
  BY <1>1, <1>2 DEF LeavesItems, LiveStatuses
<1>5. TakesOver(u) => txn[u].p \in Payments /\ Fresh(txn[u].p)
  BY DEF LInv, TxnOK, TakeOverOK
<1>6. LeavesPayments(u)
  BY <1>1, <1>2, <1>5 DEF LeavesPayments, Fresh, OpenStatuses, TypeOK
<1>7. QED
  BY <1>3, <1>4, <1>6 DEF Leaves

LEMMA CommitRejectStep ==
    ASSUME LInv, NEW t \in Txns, CommitClose(t), txn[t].kind = "reject"
    PROVE  Next /\ Ends(t, "done") /\ \A u \in Txns \ {t} : Leaves(u)
<1> DEFINE p == txn[t].p
<1> TypeOK
  BY DEF LInv, IInv
<1>1. /\ Active(t) /\ TxnOK(t) /\ txn[t].step = "commit"
      /\ pay' = [pay EXCEPT ![p].status = "rejected"]
      /\ items' = items \ txn[t].gone
      /\ Emit(p, "FEE_PAYMENT_REJECTED")
      /\ UNCHANGED <<ledger, counter, request, captured, aged>>
      /\ Ends(t, "done")
  BY DEF LInv, CommitClose, Commits, Active
<1>2. /\ p \in Payments /\ Has(t, p, "write") /\ txn[t].fails = {p}
      /\ pay[p].status = "pending_verification"
  BY <1>1 DEF TxnOK, RejectOK
<1>3. \A i \in items : i \in txn[t].gone <=> i.payment = p
  BY <1>1, <1>2 DEF TxnOK, CloseOK
<1>4. Has(t, Tenant, "share")
  BY <1>1 DEF TxnOK, StepOK
<1> HIDE DEF p
<1>5. items' = items \ ItemsOf(p)
  BY <1>1, <1>3 DEF ItemsOf
<1>6. Reject(p)
  BY <1>1, <1>2, <1>5 DEF Reject
<1>7. Next
  BY <1>2, <1>6 DEF Next
<1>8. /\ pay'[p].status = "rejected" /\ \A q \in Payments \ {p} : pay'[q] = pay[q]
      /\ items' \subseteq items
  BY <1>1, <1>2 DEF TypeOK, PaymentRow
<1>9. \A u \in Txns \ {t} : Leaves(u)
  BY <1>1, <1>2, <1>4, <1>8, CloseLeaves DEF Holds
<1>10. QED
  BY <1>1, <1>7, <1>9

LEMMA CommitSweepStep ==
    ASSUME LInv, NEW t \in Txns, CommitClose(t), txn[t].kind = "sweep"
    PROVE  Next /\ Ends(t, "done") /\ \A u \in Txns \ {t} : Leaves(u)
<1> DEFINE D == txn[t].fails
<1> TypeOK
  BY DEF LInv, IInv
<1>1. /\ Active(t) /\ TxnOK(t) /\ txn[t].step = "commit"
      /\ pay' = [p \in Payments |-> IF p \in D THEN [pay[p] EXCEPT !.status = "failed"]
                                               ELSE pay[p]]
      /\ items' = items \ txn[t].gone
      /\ log' = [x \in DOMAIN log |->
                    IF x \in D THEN Append(log[x], "FEE_PAYMENT_TIMEOUT") ELSE log[x]]
      /\ UNCHANGED <<ledger, counter, request, captured, aged>>
      /\ Ends(t, "done")
  BY DEF LInv, CommitClose, Commits, Active
<1>2. /\ D \subseteq aged /\ D # {}
      /\ \A p \in D : Has(t, p, "write") /\ pay[p].status \in OpenStatuses
      /\ \A p \in aged : pay[p].status \in OpenStatuses => p \in D
  BY <1>1 DEF TxnOK, SweepOK
<1>3. \A i \in items : i \in txn[t].gone <=> i.payment \in D
  BY <1>1 DEF TxnOK, CloseOK
<1>4. Has(t, Tenant, "share")
  BY <1>1 DEF TxnOK, StepOK
<1> HIDE DEF D
<1>5. D = {p \in aged : pay[p].status \in OpenStatuses} /\ D \in SUBSET Payments
  BY <1>2 DEF TypeOK
<1>6. items' = {i \in items : i.payment \notin D}
  BY <1>1, <1>3
<1>7. Sweep
  BY <1>1, <1>2, <1>5, <1>6 DEF Sweep
<1>8. Next
  BY <1>7 DEF Next
<1>9. /\ \A p \in D : pay'[p].status = "failed"
      /\ \A p \in Payments \ D : pay'[p] = pay[p]
      /\ items' \subseteq items
  BY <1>1, <1>5 DEF TypeOK, PaymentRow
<1>10. \A p \in D : Holds(t, p) /\ pay[p].status # "none"
  BY <1>2 DEF Holds, OpenStatuses
<1>11. \A u \in Txns \ {t} : Leaves(u)
  BY <1>1, <1>4, <1>5, <1>9, <1>10, CloseLeaves
<1>12. QED
  BY <1>1, <1>8, <1>11

\* Waiving and pricing leave the others what they rely on.
LEMMA LedgerLeaves ==
    ASSUME LInv, NEW t \in Txns, NEW u \in Txns \ {t}, NEW S \in SUBSET Rows,
           \A r \in S : Holds(t, r) /\ ledger[r].status = "unpaid",
           \A r \in Rows \ S : ledger'[r] = ledger[r],
           UNCHANGED <<pay, items, counter, request, captured, aged>>
    PROVE  Leaves(u)
<1>1. \A r \in S : ~ Holds(u, r)
  BY Exclusive
<1>2. LeavesLedger(u)
  BY <1>1 DEF LeavesLedger
<1>3. LeavesItems(u)
  BY DEF LeavesItems
<1>4. LeavesPayments(u)
  BY DEF LeavesPayments, LInv, TxnOK, TakeOverOK, Fresh
<1>5. QED
  BY <1>2, <1>3, <1>4 DEF Leaves

LEMMA CommitLedgerStep ==
    ASSUME LInv, NEW t \in Txns, CommitLedger(t)
    PROVE  Next /\ Ends(t, "done") /\ \A u \in Txns \ {t} : Leaves(u)
<1> DEFINE S == txn[t].rows
<1>1. /\ Active(t) /\ TxnOK(t) /\ txn[t].step = "commit" /\ Ends(t, "done")
      /\ txn[t].kind \in {"waive", "discount"}
      /\ UNCHANGED <<pay, items, counter, request, captured, aged>>
  BY DEF LInv, CommitLedger, Commits, Active
<1>2. S \in SUBSET Rows
  BY DEF LInv, TablesInv, TxnRecord
<1>3. \A r \in S : Holds(t, r) /\ ledger[r].status = "unpaid"
  BY <1>1 DEF TxnOK, RowsOK, DiscountOK, Holds
<1>4. CASE txn[t].kind = "waive"
  <2>1. /\ ledger' = [r \in Rows |-> IF r \in S THEN [ledger[r] EXCEPT !.status = "waived"]
                                                ELSE ledger[r]]
        /\ log' = [x \in DOMAIN log |-> IF x \in S THEN Append(log[x], "FEE_WAIVED")
                                                   ELSE log[x]]
    BY <1>4 DEF CommitLedger, Commits
  <2>2. S # {} /\ ~ LiveHolds(S)
    BY <1>1, <1>4 DEF TxnOK, RowsOK
  <2> HIDE DEF S
  <2>3. Waive(S)
    BY <1>1, <1>3, <2>1, <2>2 DEF Waive, Payable
  <2>4. Next
    BY <1>2, <2>3 DEF Next
  <2>5. \A r \in Rows \ S : ledger'[r] = ledger[r]
    BY <2>1
  <2>6. QED
    BY <1>1, <1>2, <1>3, <2>4, <2>5, LedgerLeaves
<1>5. CASE txn[t].kind = "discount"
  <2> DEFINE price == txn[t].price
  <2>1. /\ ledger' = [r \in Rows |-> IF r \in S THEN [ledger[r] EXCEPT !.amount = price[r]]
                                                ELSE ledger[r]]
        /\ log' = log
    BY <1>5 DEF CommitLedger, Commits
  <2>2. /\ price \in [Rows -> Prices]
        /\ \A r \in Rows : ledger[r].status = "unpaid" => r \in S
    BY <1>1, <1>5 DEF TxnOK, DiscountOK
  <2> HIDE DEF S, price
  <2>3. ledger' = [r \in Rows |-> IF ledger[r].status = "unpaid"
                                  THEN [ledger[r] EXCEPT !.amount = price[r]]
                                  ELSE ledger[r]]
    <3>1. \A r \in Rows : r \in S <=> ledger[r].status = "unpaid"
      BY <1>3, <2>2
    <3>2. QED
      BY <2>1, <3>1
  <2>4. SetDiscounts(price)
    BY <1>1, <2>1, <2>3 DEF SetDiscounts
  <2>5. Next
    BY <2>2, <2>4 DEF Next
  <2>6. \A r \in Rows \ S : ledger'[r] = ledger[r]
    BY <2>1
  <2>7. QED
    BY <1>1, <1>2, <1>3, <2>5, <2>6, LedgerLeaves
<1>6. QED
  BY <1>1, <1>4, <1>5

LEMMA OrderStatementStep ==
    ASSUME LInv, NEW p \in Payments, OrderStatement(p)
    PROVE  Next /\ UNCHANGED <<txn, held>> /\ \A u \in Txns : Leaves(u)
<1> TypeOK /\ IInv
  BY DEF LInv, IInv
<1>1. Next /\ UNCHANGED <<txn, held>>
  BY DEF OrderStatement, Next, OrderStep
<1>2. ASSUME NEW u \in Txns
      PROVE  Leaves(u)
  <2>1. TakesOver(u) => txn[u].p \in Payments /\ Fresh(txn[u].p)
    BY DEF LInv, TxnOK, TakeOverOK
  <2>2. ASSUME NEW o, StatementFree(o, "share")
        PROVE  ~ Has(u, o, "update")
    <3>1. ~ Compatible("update", "share")
      BY DEF Compatible
    <3>2. QED
      BY <2>2, <3>1 DEF StatementFree, Has
  <2>3. CASE OrderInsertsPayment(p)
    <3>1. /\ UNCHANGED <<ledger, items, counter, captured, aged>>
          /\ request[p].step = "read"
          /\ pay'[p].status = "pending"
          /\ \A q \in Payments \ {p} : pay'[q] = pay[q] /\ request'[q] = request[q]
      BY <2>3 DEF OrderInsertsPayment, AtStep, NoPayment, TypeOK
    <3>2. pay[p].status = "none" /\ p \notin aged
      BY <3>1 DEF IInv, RequestInv
    <3>3. \A i \in items : i.payment \in Payments
      BY DEF TypeOK, Items
    <3>4. LeavesItems(u)
      BY <3>1, <3>3 DEF LeavesItems, LiveStatuses
    <3>5. LeavesLedger(u) /\ LeavesPayments(u)
      BY <2>1, <3>1, <3>2 DEF LeavesLedger, LeavesPayments, Fresh, TypeOK
    <3>6. QED
      BY <3>4, <3>5 DEF Leaves
  <2>4. CASE /\ StatementFree(Tenant, "share")
             /\ \A l \in request[p].lines : StatementFree(l.row, "share")
             /\ OrderInsertsItems(p)
    <3> DEFINE new == ItemsFor(p, request[p].lines)
    <3>1. /\ UNCHANGED <<ledger, pay, counter, captured, aged>>
          /\ request[p].step = "inserted"
          /\ items' = items \/ items' = items \cup new
          /\ \A q \in Payments \ {p} : request'[q] = request[q]
      BY <2>4 DEF OrderInsertsItems, AtStep, RequestEnds, TypeOK
    <3>2. pay[p].status = "pending" /\ p \notin aged
      BY <3>1 DEF IInv, RequestInv
    <3>3. \A i \in new : i.payment = p /\ \E l \in request[p].lines : i.row = l.row
      BY DEF ItemsFor
    <3>4. \A i \in new : ~ Has(u, i.row, "update")
      BY <2>2, <2>4, <3>3
    <3> HIDE DEF new
    <3>5. ~ Has(u, Tenant, "update")
      BY <2>2, <2>4
    <3>6. LeavesItems(u)
      BY <3>1, <3>2, <3>3, <3>4, <3>5 DEF LeavesItems
    <3>7. LeavesLedger(u) /\ LeavesPayments(u)
      BY <2>1, <3>1, <3>2 DEF LeavesLedger, LeavesPayments, Fresh
    <3>8. QED
      BY <3>6, <3>7 DEF Leaves
  <2>5. CASE OrderGetsGatewayId(p) \/ OrderRequestDies(p)
    <3>1. /\ UNCHANGED <<ledger, items, counter, captured, aged>>
          /\ request[p].step # "idle"
          /\ \A q \in Payments : pay'[q].status = pay[q].status
          /\ \A q \in Payments \ {p} : request'[q] = request[q]
      <4>1. CASE OrderGetsGatewayId(p)
        BY <4>1 DEF OrderGetsGatewayId, RequestEnds, TypeOK, PaymentRow
      <4>2. CASE OrderRequestDies(p)
        BY <4>2 DEF OrderRequestDies, RequestEnds, TypeOK
      <4>3. QED
        BY <2>5, <4>1, <4>2
    <3>2. \A i \in items : i.payment \in Payments
      BY DEF TypeOK, Items
    <3>3. LeavesItems(u)
      BY <3>1, <3>2 DEF LeavesItems
    <3>4. LeavesLedger(u) /\ LeavesPayments(u)
      BY <2>1, <3>1 DEF LeavesLedger, LeavesPayments, Fresh, TypeOK
    <3>5. QED
      BY <3>3, <3>4 DEF Leaves
  <2>6. CASE PayerPays(p)
    <3>1. UNCHANGED <<ledger, pay, items, counter, request, aged>> /\ captured \subseteq captured'
      BY <2>6 DEF PayerPays
    <3>2. QED
      BY <2>1, <3>1 DEF Leaves, LeavesLedger, LeavesItems, LeavesPayments, Fresh
  <2>7. QED
    BY <2>3, <2>4, <2>5, <2>6 DEF OrderStatement
<1>3. QED
  BY <1>1, <1>2

-----------------------------------------------------------------------------
LEMMA CommitStep ==
    ASSUME LInv, NEW t \in Txns, Commit(t)
    PROVE  LInv' /\ Next
<1>1. Next /\ Ends(t, "done") /\ \A u \in Txns \ {t} : Leaves(u)
  <2>1. CASE CommitClose(t)
    <3>1. txn[t].kind \in {"reject", "sweep"}
      BY <2>1 DEF CommitClose, Commits
    <3>2. QED
      BY <2>1, <3>1, CommitRejectStep, CommitSweepStep
  <2>2. QED
    BY <2>1, CommitSettleStep, CommitCollectStep, CommitClaimStep, CommitLedgerStep DEF Commit
<1>2. QED
  BY <1>1, EndOf

LEMMA StatementInv ==
    ASSUME LInv, NEW t \in Txns,
           \/ StartOverRows(t) \/ StartOnPayment(t) \/ StartDiscount(t) \/ StartSweep(t)
           \/ Statement(t) \/ Dies(t)
    PROVE  LInv' /\ UNCHANGED vars
<1>1. CASE Statement(t)
  <2>1. UNCHANGED vars
    BY <1>1
       DEF Statement, LockRow, MarkRow, DupCheck, TakeNumber, InsertPayment, DeleteDead,
           InsertItems, WebhookLocks, ApproveLocks, RejectLocks, ReadItems, PriceRow,
           FailOrder, DeleteItems, WriteOutbox
  <2>2. QED
    BY <1>1, <2>1, LockRowInv, MarkRowInv, DupCheckInv, TakeNumberInv, InsertPaymentInv,
       DeleteDeadInv, InsertItemsInv, SettleLocksInv, RejectLocksInv, ReadItemsInv,
       PriceRowInv, FailOrderInv, DeleteItemsInv, WriteOutboxInv DEF Statement
<1>2. CASE Dies(t)
  BY <1>2, EndStep DEF Dies, RollsBack
<1>3. CASE StartOverRows(t) \/ StartOnPayment(t) \/ StartDiscount(t) \/ StartSweep(t)
  <2>1. UNCHANGED vars
    BY <1>3 DEF StartOverRows, StartOnPayment, StartDiscount, StartSweep, Starts
  <2>2. QED
    BY <1>3, <2>1, StartInv
<1>4. QED
  BY <1>1, <1>2, <1>3

LEMMA LNextInv == LInv /\ [LNext]_lvars => LInv' /\ [Next]_vars
<1> SUFFICES ASSUME LInv, [LNext]_lvars PROVE LInv' /\ [Next]_vars
  OBVIOUS
<1>1. CASE UNCHANGED lvars
  <2>1. UNCHANGED vars /\ UNCHANGED <<txn, held>>
    BY <1>1 DEF lvars
  <2>2. QED
    BY <2>1, NothingLeft, StepOfNone
<1>2. ASSUME NEW t \in Txns, Commit(t)
      PROVE  LInv' /\ [Next]_vars
  BY <1>2, CommitStep
<1>3. ASSUME NEW t \in Txns,
             \/ StartOverRows(t) \/ StartOnPayment(t) \/ StartDiscount(t) \/ StartSweep(t)
             \/ Statement(t) \/ Dies(t)
      PROVE  LInv' /\ [Next]_vars
  BY <1>3, StatementInv
<1>4. ASSUME NEW p \in Payments, OrderStatement(p)
      PROVE  LInv' /\ [Next]_vars
  <2>1. Next /\ UNCHANGED <<txn, held>> /\ \A u \in Txns : Leaves(u)
    BY <1>4, OrderStatementStep
  <2>2. QED
    BY <2>1, StepOfNone
<1>5. QED
  BY <1>1, <1>2, <1>3, <1>4 DEF LNext

-----------------------------------------------------------------------------
(* Where the transactions start.                                           *)

LEMMA LInitInv == LInit => LInv
<1> SUFFICES ASSUME LInit PROVE LInv
  OBVIOUS
<1>1. PICK g \in Payments, q \in Payments, S \in SUBSET Rows, U \in SUBSET Rows,
           second \in {"pending", "pending_verification"} :
        /\ g # q /\ S # {} /\ U # {}
        /\ second = "pending_verification" => S \cap U = {}
        /\ ledger \in [Rows -> [status : {"unpaid"}, amount : Prices, payment : {None}]]
        /\ pay = [p \in Payments |->
                     CASE p = g -> [Opening(g, "pending", S) EXCEPT !.order = TRUE]
                       [] p = q -> Opening(q, second, U)
                       [] OTHER -> NoPayment]
        /\ items = ItemsFor(g, Priced(S)) \cup
                   (IF second = "pending" THEN {} ELSE ItemsFor(q, Priced(U)))
        /\ counter = 0
        /\ log = [x \in Payments \cup Rows |->
                     IF x = q /\ second # "pending" THEN <<"FEE_PAYMENT_CLAIMED">>
                                                    ELSE <<>>]
        /\ request = [p \in Payments |->
                         CASE p = g -> [step |-> "done", lines |-> {}]
                           [] p = q /\ second = "pending" ->
                                 [step |-> "inserted", lines |-> Priced(U)]
                           [] OTHER -> Idle]
        /\ captured = {}
        /\ aged = {g}
        /\ txn = [t \in Txns |-> NoTxn]
        /\ held = [t \in Txns |-> {}]
  BY DEF LInit
<1> DEFINE claimed == second = "pending_verification"
<1>2. claimed <=> second # "pending"
  OBVIOUS
<1>3. \A V \in SUBSET Rows : Priced(V) \in SUBSET Lines
  <2> SUFFICES ASSUME NEW V \in SUBSET Rows, NEW r \in V
               PROVE  [row |-> r, amount |-> ledger[r].amount] \in Lines
    BY DEF Priced
  <2>1. r \in Rows /\ ledger[r].amount \in Prices
    BY <1>1
  <2>2. QED
    BY <2>1 DEF Lines
<1>4. /\ pay[g].status = "pending" /\ pay[g].channel = "gateway"
      /\ pay[g].lines = Priced(S) /\ pay[g].order = TRUE /\ pay[g].receipt = 0
  BY <1>1 DEF Opening, NoPayment
<1>5. /\ pay[q].status = second /\ pay[q].channel = IF claimed THEN "upi" ELSE "gateway"
      /\ pay[q].lines = Priced(U) /\ pay[q].order = FALSE /\ pay[q].receipt = 0
  BY <1>1, <1>2 DEF Opening, NoPayment
<1>6. \A p \in Payments \ {g, q} : pay[p] = NoPayment
  BY <1>1
<1>7. /\ request[g].step = "done" /\ request[g].lines = {}
      /\ request[q].step = IF claimed THEN "idle" ELSE "inserted"
      /\ request[q].lines = IF claimed THEN {} ELSE Priced(U)
      /\ \A p \in Payments \ {g, q} : request[p] = Idle
  BY <1>1, <1>2 DEF Idle
<1>8. \A r \in Rows : ledger[r].status = "unpaid" /\ ledger[r].amount \in Prices
  BY <1>1
<1>9. \A p \in Payments, V \in SUBSET Rows : \A i \in ItemsFor(p, Priced(V)) :
         /\ i \in Items /\ i.payment = p /\ i.row \in V /\ i.amount = ledger[i.row].amount
         /\ [row |-> i.row, amount |-> i.amount] \in Priced(V)
  <2> SUFFICES ASSUME NEW p \in Payments, NEW V \in SUBSET Rows, NEW r \in V
               PROVE  [payment |-> p, row |-> r, amount |-> ledger[r].amount] \in Items
    BY DEF ItemsFor, Priced
  <2>1. QED
    BY <1>8 DEF Items
<1>10. \A i \in items :
         /\ i \in Items /\ i.amount = ledger[i.row].amount
         /\ \/ i.payment = g /\ i.row \in S /\ [row |-> i.row, amount |-> i.amount] \in Priced(S)
            \/ /\ claimed
               /\ i.payment = q /\ i.row \in U /\ [row |-> i.row, amount |-> i.amount] \in Priced(U)
  <2>1. ASSUME NEW i \in items
        PROVE  \/ i \in ItemsFor(g, Priced(S))
               \/ claimed /\ i \in ItemsFor(q, Priced(U))
    BY <1>1, <1>2
  <2>2. \A i \in ItemsFor(g, Priced(S)) :
           /\ i \in Items /\ i.payment = g /\ i.row \in S /\ i.amount = ledger[i.row].amount
           /\ [row |-> i.row, amount |-> i.amount] \in Priced(S)
    BY <1>9
  <2>3. \A i \in ItemsFor(q, Priced(U)) :
           /\ i \in Items /\ i.payment = q /\ i.row \in U /\ i.amount = ledger[i.row].amount
           /\ [row |-> i.row, amount |-> i.amount] \in Priced(U)
    BY <1>9
  <2>4. QED
    BY <2>1, <2>2, <2>3
<1>11. TypeOK
  <2>1. ledger \in [Rows -> LedgerRow]
    BY <1>1 DEF LedgerRow, LedgerStatuses
  <2>2. pay \in [Payments -> PaymentRow]
    <3>1. NoPayment \in PaymentRow
      BY DEF NoPayment, PaymentRow
    <3>2. Opening(q, second, U) \in PaymentRow /\ Opening(g, "pending", S) \in PaymentRow
      BY <1>3, <3>1
         DEF Opening, NoPayment, PaymentRow, PaymentStatuses, LiveStatuses, DeadStatuses, Channels
    <3>3. [Opening(g, "pending", S) EXCEPT !.order = TRUE] \in PaymentRow
      BY <3>2 DEF PaymentRow
    <3>4. QED
      BY <1>1, <3>1, <3>2, <3>3
  <2>3. log \in [Payments \cup Rows -> Seq(EventTypes)]
    <3>1. <<>> \in Seq(EventTypes) /\ <<"FEE_PAYMENT_CLAIMED">> \in Seq(EventTypes)
      BY DEF EventTypes
    <3>2. QED
      BY <1>1, <3>1
  <2>4. request \in [Payments -> [step : RequestSteps, lines : SUBSET Lines]]
    BY <1>1, <1>3 DEF Idle, RequestSteps
  <2>5. QED
    BY <1>1, <1>10, <2>1, <2>2, <2>3, <2>4 DEF TypeOK
<1>12. ItemsInv
  <2>1. ASSUME NEW i \in items, NEW j \in items, i.row = j.row
        PROVE  i = j
    <3>1. i.payment = j.payment /\ i.amount = j.amount
      BY <1>1, <1>10, <2>1
    <3>2. i \in Items /\ j \in Items
      BY <1>10
    <3>3. \A k \in Items : k = [payment |-> k.payment, row |-> k.row, amount |-> k.amount]
      BY DEF Items
    <3>4. QED
      BY <2>1, <3>1, <3>2, <3>3
  <2>2. QED
    BY <1>4, <1>5, <1>10, <2>1 DEF ItemsInv
<1>13. PaidInv /\ ClaimedRowsStayUnpaid
  BY <1>4, <1>5, <1>8, <1>10 DEF PaidInv, ClaimedRowsStayUnpaid, Items
<1>14. LinesInv
  BY <1>4, <1>5, <1>6, <1>7 DEF LinesInv, Priced, NoPayment, Idle
<1>15. RequestInv
  <2>1. ~ claimed => ItemsOf(q) = {}
    BY <1>1, <1>10 DEF ItemsOf
  <2>2. QED
    BY <1>1, <1>4, <1>5, <1>6, <1>7, <2>1 DEF RequestInv, NoPayment, Idle
<1>16. ChannelInv
  BY <1>4, <1>5, <1>6 DEF ChannelInv, NoPayment
<1>17. KeepInv
  BY <1>1, <1>4, <1>5, <1>6 DEF KeepInv, NoPayment
<1>18. ReceiptsWithoutGap
  <2>1. counter = 0 /\ 1 .. counter = {}
    BY <1>1
  <2>2. \A p \in Payments : pay[p].receipt = 0 /\ pay[p].status # "paid"
    BY <1>4, <1>5, <1>6 DEF NoPayment
  <2>3. QED
    BY <2>1, <2>2 DEF ReceiptsWithoutGap
<1>19. OutboxMatchesStatus
  <2>1. \A p \in Payments \ {q} : log[p] = <<>>
    BY <1>1
  <2>2. log[q] = IF claimed THEN <<"FEE_PAYMENT_CLAIMED">> ELSE <<>>
    BY <1>1, <1>2
  <2>3. QED
    BY <1>4, <1>5, <1>6, <2>1, <2>2 DEF OutboxMatchesStatus, ExpectedLog, NoPayment
<1>20. IInv
  BY <1>11, <1>12, <1>13, <1>14, <1>15, <1>16, <1>17, <1>18, <1>19 DEF IInv
<1>21. TablesInv
  <2>1. NoTxn \in TxnRecord
    BY DEF NoTxn, TxnRecord, Kinds, Steps
  <2>2. QED
    BY <1>1, <2>1 DEF TablesInv
<1>22. \A t \in Txns : txn[t].step = "begin" /\ held[t] = {}
  BY <1>1 DEF NoTxn
<1>23. HeldInv /\ FreshInv /\ \A t \in Txns : TxnOK(t)
  BY <1>22
     DEF HeldInv, FreshInv, TakesOver, Active, TxnOK, StepOK, NumberOK, RowsOK, TakeOverOK,
         SettleOK, Settles, RejectOK, SweepOK, CloseOK, DiscountOK
<1>24. QED
  BY <1>20, <1>21, <1>23 DEF LInv

-----------------------------------------------------------------------------
(* Theorems.                                                               *)

\* Whatever the statements of the money transactions interleave with, each
\* may rely on what it locked.
THEOREM LocksAreKept == LSpec => []LInv
<1>1. LInit => LInv
  BY LInitInv
<1>2. LInv /\ [LNext]_lvars => LInv'
  BY LNextInv
<1>3. QED
  BY <1>1, <1>2, PTL DEF LSpec

\* A COMMIT of a webhook, approval, rejection, desk collection, claim,
\* waiver, discount or sweep is one step of FeePayments.
THEOREM CommitsAreTransactions == LSpec => EveryCommitIsATransaction
<1>1. LInv /\ [LNext]_lvars => [Next]_vars
  BY LNextInv
<1>2. QED
  BY <1>1, LocksAreKept, PTL DEF LSpec, EveryCommitIsATransaction

\* Statement by statement, no row is covered by two live payments either.
THEOREM NoDoublePaymentUnderLocks == LSpec => []NoDoubleLivePayment
<1>1. LInv => NoDoubleLivePayment
  BY DEF LInv, IInv, ItemsInv, NoDoubleLivePayment
<1>2. QED
  BY <1>1, LocksAreKept, PTL

\* ... and paid rows and closed payments are as final, waived rows yield to
\* nobody but an open gateway order, between any two statements.
THEOREM FinalityUnderLocks ==
    LSpec => PaidRowIsFinal /\ ClosedPaymentIsFinal /\ WaiverYieldsOnlyToGateway
<1>1. LInv /\ [LNext]_lvars => IInv /\ [Next]_vars
  BY LNextInv DEF LInv
<1>2. IInv /\ [Next]_vars =>
         [\A r \in Rows : ledger[r].status = "paid" => ledger'[r] = ledger[r]]_vars
  BY PaidRowStep
<1>3. IInv /\ [Next]_vars =>
         [\A p \in Payments :
             pay[p].status \in {"paid", "failed", "rejected"} =>
                 /\ pay'[p] = pay[p]
                 /\ ItemsOf(p)' = ItemsOf(p)]_vars
  BY ClosedStep
<1>4. IInv /\ [Next]_vars =>
         [\A r \in Rows : ledger[r].status = "waived" /\ ledger'[r] # ledger[r] =>
              ChargedByOrder(r)]_vars
  BY WaivedRowStep
<1>5. QED
  BY <1>1, <1>2, <1>3, <1>4, LocksAreKept, PTL
     DEF LSpec, PaidRowIsFinal, ClosedPaymentIsFinal, WaiverYieldsOnlyToGateway, ChargedByOrder

\* Run statement by statement under the row locks, the money transactions
\* implement the abstract ledger.
THEOREM RefinementUnderLocks == LSpec => ImplementsFeeLedger
<1>1. LInit => Abstract!Init
  <2> SUFFICES ASSUME LInit PROVE Abstract!Init
    OBVIOUS
  <2>1. ledger \in [Rows -> [status : {"unpaid"}, amount : Prices, payment : {None}]] /\ counter = 0
    BY DEF LInit
  <2>2. \A r \in Rows : ledger[r].status = "unpaid"
    BY <2>1
  <2>3. QED
    BY <2>1, <2>2 DEF Abstract!Init, RowReceipt
<1>2. LInv /\ [LNext]_lvars => IInv /\ [Next]_vars
  BY LNextInv DEF LInv
<1>3. IInv /\ [Next]_vars =>
         [Abstract!Next]_<<[r \in Rows |-> ledger[r].status], RowReceipt, counter>>
  BY ImplementsStep
<1>4. QED
  BY <1>1, <1>2, <1>3, LocksAreKept, PTL DEF LSpec, ImplementsFeeLedger, Abstract!Spec

=============================================================================
