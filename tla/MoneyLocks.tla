----------------------------- MODULE MoneyLocks -----------------------------
(***************************************************************************)
(* The money transactions statement by statement, under the row locks of   *)
(* PostgreSQL at READ COMMITTED: what one transaction writes is seen when  *)
(* it commits, a statement sees what is committed when it runs, and waits  *)
(* for the rows it locks.  FeePayments takes each transaction in one step; *)
(* here that is the property EveryCommitIsATransaction.                    *)
(*                                                                         *)
(* Row locks have three of PostgreSQL's modes: "update" (SELECT ... FOR    *)
(* UPDATE), "write" (an UPDATE of no key column) and "share" (the FOR KEY  *)
(* SHARE a foreign key takes on the row an INSERT refers to).  Every       *)
(* INSERT of a payment, an item or an audit event refers to the row of the *)
(* tenant, and a webhook or an approval, which joins tenants in its SELECT *)
(* ... FOR UPDATE, locks that row "update".                                *)
(***************************************************************************)
EXTENDS FeePayments, Integers

CONSTANTS
    Txns,       \* the transactions of one behaviour
    Tenant,     \* the lockable row of tenants
    Counter     \* the lockable row of fee_receipt_counters

ASSUME LockableAssumption ==
    /\ Tenant # Counter
    /\ {Tenant, Counter} \cap (Rows \cup Payments) = {}

VARIABLES
    txn,        \* each transaction: what it does and has not committed
    held        \* the row locks each transaction holds

lvars == <<vars, txn, held>>

-----------------------------------------------------------------------------
Kinds == {"webhook", "approve", "reject", "collect", "claim", "waive",
          "discount", "sweep"}
Steps == {"begin", "lockRows", "dup", "number", "insert", "deleteDead",
          "insertItems", "lockPayment", "readItems", "markRows", "price",
          "fail", "delete", "emit", "commit", "skipped", "done"}
Modes == {"update", "write", "share"}
Lockable == Rows \cup Payments \cup {Tenant, Counter}

Compatible(m, n) == {m, n} \in {{"share"}, {"share", "write"}}

\* t need not wait for a lock of mode m on the row o.
Free(t, o, m) ==
    \A u \in Txns \ {t} : \A l \in held[u] : l[1] = o => Compatible(l[2], m)

Lock(t, locks) == held' = [held EXCEPT ![t] = @ \cup locks]

Goto(t, step) == txn' = [txn EXCEPT ![t].step = step]

Ends(t, step) ==
    /\ held' = [held EXCEPT ![t] = {}]
    /\ Goto(t, step)

\* Nothing is committed: an exception, a lost connection or the victim of a
\* deadlock.
RollsBack(t) == Ends(t, "done")

\* Free to start: step, payment, rows the statement has still to lock, rows
\* or payments it has changed, lines read, items deleted, receipt number.
NoTxn == [kind |-> "none", step |-> "begin", p |-> None, todo |-> {},
          rows |-> {}, fails |-> {}, lines |-> {}, gone |-> {}, number |-> 0,
          price |-> [r \in {} |-> 0]]

Active(t) == txn[t].step \notin {"begin", "skipped", "done"}

-----------------------------------------------------------------------------
(* Where each transaction starts.                                          *)

Starts(t, record) ==
    /\ txn[t].step = "begin"
    /\ txn' = [txn EXCEPT ![t] = record]
    /\ UNCHANGED <<vars, held>>

\* A new payment's uuid is nobody else's.
UnusedId(p) == Fresh(p) /\ \A u \in Txns : Active(u) => txn[u].p # p

StartOverRows(t) ==
    \E S \in (SUBSET Rows) \ {{}} :
        \/ \E kind \in {"collect", "claim"}, p \in Payments :
              /\ UnusedId(p)
              /\ Starts(t, [NoTxn EXCEPT !.kind = kind, !.step = "lockRows",
                                         !.p = p, !.todo = S])
        \/ Starts(t, [NoTxn EXCEPT !.kind = "waive", !.step = "lockRows",
                                   !.todo = S])

StartOnPayment(t) ==
    \E p \in Payments, kind \in {"webhook", "approve", "reject"} :
        /\ kind = "webhook" => p \in captured
        /\ kind # "webhook" => pay[p].status = "pending_verification"
        /\ Starts(t, [NoTxn EXCEPT !.kind = kind, !.step = "lockPayment", !.p = p])

StartDiscount(t) ==
    \E price \in [Rows -> Prices] :
        Starts(t, [NoTxn EXCEPT !.kind = "discount", !.step = "price",
                                !.price = price,
                                !.todo = {r \in Rows : ledger[r].status = "unpaid"}])

StartSweep(t) ==
    Starts(t, [NoTxn EXCEPT !.kind = "sweep", !.step = "fail",
                            !.todo = {p \in aged : pay[p].status \in OpenStatuses}])

-----------------------------------------------------------------------------
(* The statements.                                                         *)

\* SELECT ... FROM fee_ledger ... FOR UPDATE, one row after the other in any
\* order; a row found paid or waived once it is locked fails the count.
LockRow(t, r) ==
    /\ txn[t].step = "lockRows"
    /\ r \in txn[t].todo
    /\ Free(t, r, "update")
    /\ \/ /\ ledger[r].status = "unpaid"
          /\ Lock(t, {<<r, "update">>})
          /\ txn' = [txn EXCEPT
                ![t].todo  = @ \ {r},
                ![t].rows  = @ \cup {r},
                ![t].lines = @ \cup Priced({r}),
                ![t].step  = IF txn[t].todo = {r} THEN "dup" ELSE @]
       \/ /\ ledger[r].status # "unpaid"
          /\ RollsBack(t)
    /\ UNCHANGED vars

AfterDup == [collect |-> "number", claim |-> "insert", waive |-> "emit"]

DupCheck(t) ==
    /\ txn[t].step = "dup"
    /\ \/ LiveHolds(txn[t].rows) /\ RollsBack(t)
       \/ /\ ~ LiveHolds(txn[t].rows)
          /\ Goto(t, AfterDup[txn[t].kind])
          /\ UNCHANGED held
    /\ UNCHANGED vars

\* Mutant of TakeNumber: a number is handed out before the counter counts it.
TakeNumberBeforeFirst(t) ==
    /\ txn[t].step = "number"
    /\ Free(t, Counter, "write")
    /\ Lock(t, {<<Counter, "write">>})
    /\ txn' = [txn EXCEPT ![t].number = counter - 1,
                          ![t].step = IF txn[t].kind = "collect"
                                      THEN "insert" ELSE "readItems"]
    /\ UNCHANGED vars

\* The upsert of fee_receipt_counters.
TakeNumber(t) ==
    /\ txn[t].step = "number"
    /\ Free(t, Counter, "write")
    /\ Lock(t, {<<Counter, "write">>})
    /\ txn' = [txn EXCEPT ![t].number = counter + 1,
                          ![t].step = IF txn[t].kind = "collect"
                                      THEN "insert" ELSE "readItems"]
    /\ UNCHANGED vars

\* Mutant of InsertPayment: fee_payments.tenant_id has no foreign key.
InsertWithoutForeignKey(t) ==
    /\ txn[t].step = "insert"
    /\ Goto(t, "deleteDead")
    /\ UNCHANGED <<vars, held>>

\* INSERT INTO fee_payments.
InsertPayment(t) ==
    /\ txn[t].step = "insert"
    /\ Free(t, Tenant, "share")
    /\ Lock(t, {<<Tenant, "share">>})
    /\ Goto(t, "deleteDead")
    /\ UNCHANGED vars

\* DELETE of the dead payments' items, by the statuses committed so far.
DeleteDead(t) ==
    /\ txn[t].step = "deleteDead"
    /\ txn' = [txn EXCEPT ![t].gone = items \ WithoutDead(txn[t].rows),
                          ![t].step = "insertItems"]
    /\ UNCHANGED <<vars, held>>

InsertItems(t) ==
    LET new == ItemsFor(txn[t].p, txn[t].lines) IN
    /\ txn[t].step = "insertItems"
    /\ \/ /\ Unclaimed(new, items \ txn[t].gone)
          /\ Goto(t, "commit")
          /\ UNCHANGED held
       \/ /\ ~ Unclaimed(new, items \ txn[t].gone)
          /\ RollsBack(t)
    /\ UNCHANGED vars

\* The rows a webhook or an approval locks: FOR UPDATE over a join locks the
\* rows of both tables.
SettleLocks(p) == {<<p, "update">>, <<Tenant, "update">>}

\* Mutant of WebhookLocks: FOR UPDATE OF fp NOWAIT.
WebhookLocksPaymentOnly(t) ==
    LET p == txn[t].p IN
    /\ txn[t].kind = "webhook" /\ txn[t].step = "lockPayment"
    /\ \/ /\ Free(t, p, "update")
          /\ pay[p].status \in OpenStatuses
          /\ Lock(t, {<<p, "update">>})
          /\ Goto(t, "number")
       \/ /\ Free(t, p, "update")
          /\ pay[p].status \notin OpenStatuses
          /\ Ends(t, "done")
       \/ /\ ~ Free(t, p, "update")
          /\ Ends(t, "skipped")
    /\ UNCHANGED vars

\* NOWAIT: a webhook that would wait for either row gives up and is
\* acknowledged; so is one that finds its order closed.
WebhookLocks(t) ==
    LET free == \A l \in SettleLocks(txn[t].p) : Free(t, l[1], l[2]) IN
    /\ txn[t].kind = "webhook" /\ txn[t].step = "lockPayment"
    /\ \/ /\ free
          /\ pay[txn[t].p].status \in OpenStatuses
          /\ Lock(t, SettleLocks(txn[t].p))
          /\ Goto(t, "number")
       \/ /\ free
          /\ pay[txn[t].p].status \notin OpenStatuses
          /\ Ends(t, "done")
       \/ /\ ~ free
          /\ Ends(t, "skipped")
    /\ UNCHANGED vars

ApproveLocks(t) ==
    /\ txn[t].kind = "approve" /\ txn[t].step = "lockPayment"
    /\ \A l \in SettleLocks(txn[t].p) : Free(t, l[1], l[2])
    /\ \/ /\ pay[txn[t].p].status = "pending_verification"
          /\ Lock(t, SettleLocks(txn[t].p))
          /\ Goto(t, "number")
       \/ /\ pay[txn[t].p].status # "pending_verification"
          /\ RollsBack(t)
    /\ UNCHANGED vars

\* UPDATE fee_payments ... WHERE status = 'pending_verification'.
RejectLocks(t) ==
    /\ txn[t].kind = "reject" /\ txn[t].step = "lockPayment"
    /\ Free(t, txn[t].p, "write")
    /\ \/ /\ pay[txn[t].p].status = "pending_verification"
          /\ Lock(t, {<<txn[t].p, "write">>})
          /\ txn' = [txn EXCEPT ![t].fails = {txn[t].p}, ![t].step = "delete"]
       \/ /\ pay[txn[t].p].status # "pending_verification"
          /\ RollsBack(t)
    /\ UNCHANGED vars

\* UPDATE fee_ledger ... FROM fee_payment_items: the items are those of the
\* statement's snapshot, the rows are locked one after the other.
ReadItems(t) ==
    LET rows == RowsOf(ItemsOf(txn[t].p)) IN
    /\ txn[t].step = "readItems"
    /\ txn' = [txn EXCEPT ![t].todo = rows, ![t].rows = rows,
                          ![t].step = IF rows = {} THEN "emit" ELSE "markRows"]
    /\ UNCHANGED <<vars, held>>

MarkRow(t, r) ==
    /\ txn[t].step = "markRows"
    /\ r \in txn[t].todo
    /\ Free(t, r, "write")
    /\ Lock(t, {<<r, "write">>})
    /\ txn' = [txn EXCEPT ![t].todo = @ \ {r},
                          ![t].step = IF txn[t].todo = {r} THEN "emit" ELSE @]
    /\ UNCHANGED vars

\* The UPDATE of set_student_discounts; the status is tested again once the
\* row is locked.
PriceRow(t) ==
    /\ txn[t].step = "price"
    /\ \/ /\ txn[t].todo = {}
          /\ Goto(t, "emit")
          /\ UNCHANGED held
       \/ \E r \in txn[t].todo :
            /\ Free(t, r, "write")
            /\ Lock(t, {<<r, "write">>})
            /\ txn' = [txn EXCEPT
                  ![t].todo = @ \ {r},
                  ![t].rows = IF ledger[r].status = "unpaid" THEN @ \cup {r} ELSE @]
    /\ UNCHANGED vars

\* The UPDATE of gateway_payment_sweep, likewise.
FailOrder(t) ==
    /\ txn[t].step = "fail"
    /\ \/ /\ txn[t].todo = {}
          /\ IF txn[t].fails = {} THEN Ends(t, "done")
                                  ELSE Goto(t, "delete") /\ UNCHANGED held
       \/ \E p \in txn[t].todo :
            /\ Free(t, p, "write")
            /\ Lock(t, {<<p, "write">>})
            /\ txn' = [txn EXCEPT
                  ![t].todo  = @ \ {p},
                  ![t].fails = IF pay[p].status \in OpenStatuses
                               THEN @ \cup {p} ELSE @]
    /\ UNCHANGED vars

\* DELETE FROM fee_payment_items of the payments just closed.
DeleteItems(t) ==
    /\ txn[t].step = "delete"
    /\ txn' = [txn EXCEPT ![t].gone = {i \in items : i.payment \in txn[t].fails},
                          ![t].step = "emit"]
    /\ UNCHANGED <<vars, held>>

\* INSERT INTO audit_events.
WriteOutbox(t) ==
    /\ txn[t].step = "emit"
    /\ Free(t, Tenant, "share")
    /\ Lock(t, {<<Tenant, "share">>})
    /\ Goto(t, "commit")
    /\ UNCHANGED vars

\* A deadlock victim, a lost connection, a restart.
Dies(t) ==
    /\ Active(t)
    /\ RollsBack(t)
    /\ UNCHANGED vars

-----------------------------------------------------------------------------
(* COMMIT: everything the transaction wrote becomes visible.               *)

Commits(t, kind) ==
    /\ txn[t].kind = kind
    /\ txn[t].step = "commit"
    /\ Ends(t, "done")

PaidRows(S, p) ==
    [r \in Rows |-> IF r \in S THEN [ledger[r] EXCEPT !.status = "paid",
                                                      !.payment = p]
                               ELSE ledger[r]]

CommitSettle(t) ==
    /\ Commits(t, "webhook") \/ Commits(t, "approve")
    /\ counter' = txn[t].number
    /\ pay' = [pay EXCEPT ![txn[t].p].status = "paid",
                          ![txn[t].p].receipt = txn[t].number]
    /\ ledger' = PaidRows(txn[t].rows, txn[t].p)
    /\ Emit(txn[t].p, "FEE_PAID")
    /\ UNCHANGED <<items, request, captured, aged>>

CommitCollect(t) ==
    /\ Commits(t, "collect")
    /\ counter' = txn[t].number
    /\ pay' = [pay EXCEPT ![txn[t].p] =
                  [status |-> "paid", channel |-> "offline", lines |-> txn[t].lines,
                   order |-> FALSE, receipt |-> txn[t].number]]
    /\ items' = (items \ txn[t].gone) \cup ItemsFor(txn[t].p, txn[t].lines)
    /\ ledger' = PaidRows(txn[t].rows, txn[t].p)
    /\ Emit(txn[t].p, "FEE_PAID")
    /\ UNCHANGED <<request, captured, aged>>

CommitClaim(t) ==
    /\ Commits(t, "claim")
    /\ pay' = [pay EXCEPT ![txn[t].p] =
                  [status |-> "pending_verification", channel |-> "upi",
                   lines |-> txn[t].lines, order |-> FALSE, receipt |-> 0]]
    /\ items' = (items \ txn[t].gone) \cup ItemsFor(txn[t].p, txn[t].lines)
    /\ Emit(txn[t].p, "FEE_PAYMENT_CLAIMED")
    /\ UNCHANGED <<ledger, counter, request, captured, aged>>

\* A reject closes one claim, a sweep all the orders it found.
CommitClose(t) ==
    \/ /\ Commits(t, "reject")
       /\ pay' = [pay EXCEPT ![txn[t].p].status = "rejected"]
       /\ items' = items \ txn[t].gone
       /\ Emit(txn[t].p, "FEE_PAYMENT_REJECTED")
       /\ UNCHANGED <<ledger, counter, request, captured, aged>>
    \/ /\ Commits(t, "sweep")
       /\ pay' = [p \in Payments |-> IF p \in txn[t].fails
                                     THEN [pay[p] EXCEPT !.status = "failed"]
                                     ELSE pay[p]]
       /\ items' = items \ txn[t].gone
       /\ log' = [x \in DOMAIN log |->
                     IF x \in txn[t].fails
                     THEN Append(log[x], "FEE_PAYMENT_TIMEOUT") ELSE log[x]]
       /\ UNCHANGED <<ledger, counter, request, captured, aged>>

CommitLedger(t) ==
    \/ /\ Commits(t, "waive")
       /\ ledger' = [r \in Rows |-> IF r \in txn[t].rows
                                    THEN [ledger[r] EXCEPT !.status = "waived"]
                                    ELSE ledger[r]]
       /\ log' = [x \in DOMAIN log |-> IF x \in txn[t].rows
                                       THEN Append(log[x], "FEE_WAIVED") ELSE log[x]]
       /\ UNCHANGED <<pay, items, counter, request, captured, aged>>
    \/ /\ Commits(t, "discount")
       /\ ledger' = [r \in Rows |-> IF r \in txn[t].rows
                                    THEN [ledger[r] EXCEPT !.amount = txn[t].price[r]]
                                    ELSE ledger[r]]
       /\ UNCHANGED <<pay, items, counter, log, request, captured, aged>>

Commit(t) == \/ CommitSettle(t) \/ CommitCollect(t) \/ CommitClaim(t)
             \/ CommitClose(t)  \/ CommitLedger(t)

-----------------------------------------------------------------------------
(* The statements of create_payment_order commit one by one; each waits    *)
(* for the locks it needs.  No transaction has the id "none".              *)

StatementFree(o, m) ==
    \A u \in Txns : \A l \in held[u] : l[1] = o => Compatible(l[2], m)

OrderStatement(p) ==
    /\ \/ StatementFree(Tenant, "share") /\ OrderInsertsPayment(p)
       \/ /\ StatementFree(Tenant, "share")
          /\ \A l \in request[p].lines : StatementFree(l.row, "share")
          /\ OrderInsertsItems(p)
       \/ StatementFree(p, "write") /\ OrderGetsGatewayId(p)
       \/ OrderRequestDies(p)
       \/ PayerPays(p)
    /\ UNCHANGED <<txn, held>>

-----------------------------------------------------------------------------
Statement(t) ==
    \/ \E r \in Rows : LockRow(t, r) \/ MarkRow(t, r)
    \/ DupCheck(t)
    \/ TakeNumber(t)
    \/ InsertPayment(t)
    \/ DeleteDead(t)
    \/ InsertItems(t)
    \/ WebhookLocks(t)
    \/ ApproveLocks(t)
    \/ RejectLocks(t)
    \/ ReadItems(t)
    \/ PriceRow(t)
    \/ FailOrder(t)
    \/ DeleteItems(t)
    \/ WriteOutbox(t)

LNext ==
    \/ \E t \in Txns :
          \/ StartOverRows(t)
          \/ StartOnPayment(t)
          \/ StartDiscount(t)
          \/ StartSweep(t)
          \/ Statement(t)
          \/ Commit(t)
          \/ Dies(t)
    \/ \E p \in Payments : OrderStatement(p)

\* Transactions meet an open order a day old, which its payer may pay at any
\* moment, and a second one whose items are not inserted yet, or a claim.
Opening(p, status, S) ==
    [NoPayment EXCEPT !.status = status, !.lines = Priced(S),
                      !.channel = IF status = "pending" THEN "gateway" ELSE "upi"]

LInit ==
    \E g, q \in Payments, S, U \in SUBSET Rows, second \in {"pending", "pending_verification"} :
        /\ g # q /\ S # {} /\ U # {}
        /\ second = "pending_verification" => S \cap U = {}
        /\ ledger \in [Rows -> [status : {"unpaid"}, amount : Prices, payment : {None}]]
        /\ pay = [p \in Payments |->
                     CASE p = g -> [Opening(g, "pending", S) EXCEPT !.order = TRUE]
                       [] p = q -> Opening(q, second, U)
                       [] OTHER -> NoPayment]
        /\ items = ItemsFor(g, Priced(S)) \cup
                   (IF second = "pending" THEN {} ELSE ItemsFor(q, Priced(U)))
        /\ counter = 0
        /\ log = [x \in Payments \cup Rows |->
                     IF x = q /\ second # "pending" THEN <<"FEE_PAYMENT_CLAIMED">>
                                                    ELSE <<>>]
        /\ request = [p \in Payments |->
                         CASE p = g -> [step |-> "done", lines |-> {}]
                           [] p = q /\ second = "pending" ->
                                 [step |-> "inserted", lines |-> Priced(U)]
                           [] OTHER -> Idle]
        /\ captured = {}
        /\ aged = {g}
        /\ txn = [t \in Txns |-> NoTxn]
        /\ held = [t \in Txns |-> {}]

LSpec == LInit /\ [][LNext]_lvars

-----------------------------------------------------------------------------
(* Properties.                                                             *)

LTypeOK ==
    /\ TypeOK
    /\ \A t \in Txns : /\ txn[t].kind \in Kinds \cup {"none"}
                       /\ txn[t].step \in Steps
                       /\ txn[t].p \in Payments \cup {None}
                       /\ txn[t].lines \in SUBSET Lines
                       /\ txn[t].gone \in SUBSET Items
                       /\ txn[t].number \in Nat
    /\ held \in [Txns -> SUBSET (Lockable \X Modes)]

\* FeePayments is right to take every transaction in one step: whatever the
\* statements of webhooks, approvals, claims, collections, waivers, discounts,
\* rejections and sweeps interleave with, what a COMMIT makes visible is what
\* the transaction does when it runs alone at that moment.
EveryCommitIsATransaction == [][Next]_vars

\* services/payment.py:241: "NOWAIT rejects concurrent duplicate webhooks":
\* a webhook is only turned away while another one for its order runs.
OnlyDuplicateWebhooksSkipped ==
    [][\A t \in Txns :
          txn'[t].step = "skipped" /\ txn[t].step # "skipped" =>
              \E u \in Txns \ {t} : /\ Active(u)
                                    /\ txn[u].kind = "webhook"
                                    /\ txn[u].p = txn[t].p]_lvars
=============================================================================
