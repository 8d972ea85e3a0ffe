--------------------------- MODULE StudentLedger ---------------------------
(***************************************************************************)
(* Students and what they are billed: fee heads and schedules, ledger      *)
(* generation (by the office, by the import of a fee structure or of       *)
(* students, for a new student, at an enrolment), concessions that price   *)
(* the unpaid rows again, and the charges of the admission group.          *)
(*                                                                         *)
(* Ledger generation reads students, schedules and discounts one statement *)
(* after another and inserts what is missing; nothing is locked meanwhile. *)
(* Amounts are in paise.                                                   *)
(***************************************************************************)
EXTENDS Integers, FiniteSets, Sequences

CONSTANTS
    Students, Classes,
    Years,          \* academic_years
    NoYear, FirstYear,
    Pairs,          \* the (month, calendar year) pairs of each academic year, in order
    Monthly,        \* fee heads billed by the month
    Annual,         \* fee heads billed once a year or once
    Grouped,        \* those of the annual ones that belong to the admission group
    RidersOnly,     \* heads whose schedules are for transport students
    Seasonal,       \* heads whose schedules have a reduced month
    ReducedMonth, ReducedPercent,
    Schedules,      \* fee_schedules when the model begins
    Arrivals,       \* bound: class, year and transport of who is registered
    NewPrices,      \* bound: schedules the office may write, and their amounts
    Concessions,    \* bound: the discount sets the office gives
    ThisYear,       \* the calendar year of the enrolments
    Requests,       \* requests of the office that may be in progress together
    MaxSent,        \* bound: requests of the office
    MaxChanges      \* bound: changes made in a single statement

Heads == Monthly \cup Annual
Scopes == Classes \cup {"all"}
Offers == Heads \X Years \X Scopes
Paise == Nat

ASSUME LedgerAssumption ==
    /\ Monthly \cap Annual = {} /\ Grouped \subseteq Annual
    /\ RidersOnly \subseteq Heads /\ Seasonal \subseteq Monthly
    /\ NoYear \notin Years /\ FirstYear \in Years /\ "all" \notin Classes /\ Classes # {}
    /\ Pairs \in [Years -> Seq((1 .. 12) \X Nat)]
    /\ Schedules \in [Offers -> Paise]
    /\ Arrivals \subseteq Classes \X Years \X BOOLEAN
    /\ NewPrices \subseteq Offers \X (Paise \ {0})
    /\ Concessions \subseteq [Heads -> 0 .. 100]
    /\ ReducedMonth \in 1 .. 12 /\ ReducedPercent \in 0 .. 100
    /\ MaxSent \in Nat /\ MaxChanges \in Nat

\* fee_ledger_unique_monthly and fee_ledger_unique_annual: the academic year
\* is no part of a row's key.  Month 0 is none.
Periods == UNION {{[month |-> Pairs[y][i][1], year |-> Pairs[y][i][2]] : i \in DOMAIN Pairs[y]} : y \in Years}
Rows ==
    [student : Students, head : Monthly, period : Periods]
        \cup [student : Students, head : Annual, period : [month : {0}, year : {p.year : p \in Periods} \cup {ThisYear}]]

VARIABLES
    student,    \* students
    head,       \* fee_heads: is_active
    schedule,   \* fee_schedules: amount, 0 where there is none
    discount,   \* student_fee_discounts: percentage, 0 where there is none
    row,        \* fee_ledger
    archived,   \* academic years with status archived
    current,    \* academic years with is_current
    groupOn,    \* feature_flags.admission_fees_active
    request, sent, changes,
    drift,      \* history: rows settled before a change of what prices them
    admitted,   \* history: students enrolled while the group was on
    rolled      \* history: rollovers whose checks passed

years == <<archived, current>>
vars == <<student, head, schedule, discount, row, years, groupOn, request, sent, changes, drift, admitted, rolled>>

-----------------------------------------------------------------------------
(* Prices.                                                                 *)

\* Decimal.quantize rounds a half to the even neighbour ...
HalfEven(n) ==
    LET q == n \div 100  r == n % 100 IN IF r > 50 \/ (r = 50 /\ q % 2 = 1) THEN q + 1 ELSE q

\* ... and ROUND of the database away from zero.
HalfUp(n) == (n + 50) \div 100

Reduced(h, month) == h \in Seasonal /\ month = ReducedMonth

Discounted(amount, percent) == IF percent = 0 THEN amount ELSE HalfEven(amount * (100 - percent))

MonthlyAmount(amount, h, month, percent) ==
    Discounted(IF Reduced(h, month) THEN HalfEven(amount * ReducedPercent) ELSE amount, percent)

\* The UPDATE of set_student_discounts starts from the schedule, not from what
\* the row r has now.
RecomputedFromRow(r, amount, percent) == HalfUp(row[r].amount * (100 - percent))
Recomputed(r, amount, percent) ==
    HalfUp((IF Reduced(r.head, r.period.month) THEN HalfUp(amount * ReducedPercent) ELSE amount) * (100 - percent))

-----------------------------------------------------------------------------
NoStudent == [state |-> "none", class |-> CHOOSE c \in Classes : TRUE, year |-> NoYear, rides |-> FALSE]
NoRow == [status |-> "none", amount |-> 0, ay |-> NoYear]
NoOffers == [o \in Offers |-> 0]
NoDiscount == [h \in Heads |-> 0]

\* A request, with what it has read (who, prices, percents) and what its
\* transaction has written and not yet committed (enrols, upsert; of a
\* concession: items, deleted, rows).
Idle == [pc |-> "idle", ay |-> NoYear, annual |-> FALSE,
         who |-> [s \in {} |-> NoStudent], prices |-> NoOffers, percents |-> [s \in Students |-> NoDiscount],
         enrols |-> {}, charges |-> FALSE, upsert |-> {},
         items |-> NoDiscount, deleted |-> {}, rows |-> [r \in {} |-> 0], overtaken |-> FALSE]

Unpaid(r) == row[r].status = "unpaid"
Change == changes < MaxChanges /\ changes' = changes + 1
Sends(k) == request[k] = Idle /\ sent < MaxSent /\ sent' = sent + 1
Moves(k, r) == request' = [request EXCEPT ![k] = r]
Done(k) == Moves(k, Idle)

\* Every request in S has read what now changes; k is the one that changes it.
Overtake(rs, S) == [j \in Requests |-> IF j \in S THEN [rs[j] EXCEPT !.overtaken = TRUE] ELSE rs[j]]
ReadPrices == {j \in Requests : request[j].pc \in {"discounts", "insert", "priced"}}
ReadStudent(s) == {j \in Requests : s \in DOMAIN request[j].who}
ReadDiscount(s) == {j \in ReadStudent(s) : request[j].pc \in {"insert", "priced"}}

\* The unpaid rows of the head and academic year of schedule o.
UnpaidUnder(o) == {r \in Rows : Unpaid(r) /\ r.head = o[1] /\ row[r].ay = o[2]}

Init ==
    /\ student \in [Students -> {NoStudent, [NoStudent EXCEPT !.state = "active", !.year = FirstYear, !.rides = TRUE]}]
    /\ head = [h \in Heads |-> TRUE]
    /\ schedule = Schedules
    /\ discount = [s \in Students |-> NoDiscount]
    /\ row = [r \in Rows |-> NoRow]
    /\ archived = {} /\ current = {FirstYear}
    /\ groupOn \in BOOLEAN
    /\ request = [k \in Requests |-> Idle]
    /\ sent = 0 /\ changes = 0 /\ drift = {} /\ admitted = {} /\ rolled = {}

-----------------------------------------------------------------------------
(* Ledger generation.                                                      *)

\* The office asks for a year's rows, with or without the annual heads.
AskGenerate(k, ay, annual) ==
    /\ Sends(k)
    /\ Moves(k, [Idle EXCEPT !.pc = "students", !.ay = ay, !.annual = annual])
    /\ UNCHANGED <<student, head, schedule, discount, row, years, groupOn, changes, drift, admitted, rolled>>

\* An enrolment inserts the student in its transaction before it generates.
Enrol(k, s, c, ay) ==
    /\ Sends(k)
    /\ student[s] = NoStudent /\ \A j \in Requests : s \notin request[j].enrols
    /\ Moves(k, [Idle EXCEPT !.pc = "students", !.ay = ay, !.annual = TRUE, !.charges = groupOn,
                   !.who = [x \in {s} |-> [state |-> "active", class |-> c, year |-> ay, rides |-> FALSE]], !.enrols = {s}])
    /\ UNCHANGED <<student, head, schedule, discount, row, years, groupOn, changes, drift, admitted, rolled>>

\* The import of a fee structure writes its schedules in the transaction of
\* the generation that follows; until it commits the schedule's row is locked.
ImportStructure(k, o, price) ==
    /\ Sends(k)
    /\ \A j \in Requests : request[j].upsert = {}
    /\ Moves(k, [Idle EXCEPT !.pc = "students", !.ay = o[2], !.annual = TRUE, !.upsert = {<<o, price>>}])
    /\ UNCHANGED <<student, head, schedule, discount, row, years, groupOn, changes, drift, admitted, rolled>>

\* A student arrives, returns or moves: the row is written at once ...
Registers(k, s, c, ay, rides) ==
    /\ Sends(k)
    /\ \A j \in Requests : s \notin request[j].enrols
    /\ student' = [student EXCEPT ![s] = [state |-> "active", class |-> c, year |-> ay, rides |-> rides]]
    /\ drift' = drift \cup {r \in Rows : r.student = s /\ Unpaid(r) /\ student[s].class # c}

\* ... and the ledger generated for this student, in further statements,
CreateStudent(k, s, c, ay, rides) ==
    /\ student[s] = NoStudent
    /\ Registers(k, s, c, ay, rides)
    /\ Moves(k, [Idle EXCEPT !.pc = "schedules", !.ay = ay, !.annual = TRUE, !.who = [x \in {s} |-> student'[s]]])
    /\ UNCHANGED <<head, schedule, discount, row, years, groupOn, changes, admitted, rolled>>

\* or, after an import, for everybody of the year.
ImportStudents(k, s, c, ay, rides) ==
    /\ Registers(k, s, c, ay, rides)
    /\ request' = [Overtake(request, ReadStudent(s)) EXCEPT ![k] = [Idle EXCEPT !.pc = "students", !.ay = ay, !.annual = TRUE]]
    /\ UNCHANGED <<head, schedule, discount, row, years, groupOn, changes, admitted, rolled>>

ReadStudents(k) ==
    LET q == request[k]
        found == {s \in Students : student[s].state = "active" /\ student[s].year = q.ay}
        who == [s \in found \cup q.enrols |-> IF s \in found THEN student[s] ELSE q.who[s]]
    IN /\ q.pc = "students"
       /\ Moves(k, CASE DOMAIN who # {} -> [q EXCEPT !.pc = "schedules", !.who = who]
                     [] DOMAIN who = {} /\ q.upsert = {} -> Idle
                     [] DOMAIN who = {} /\ q.upsert # {} -> [q EXCEPT !.pc = "insert"])
       /\ UNCHANGED <<student, head, schedule, discount, row, years, groupOn, sent, changes, drift, admitted, rolled>>

\* The schedules of active heads outside every group, the own import's among them.
GeneratedWithGroups(h) == head[h]
Generated(h) == head[h] /\ h \notin Grouped
Imported(q, sch) == [o \in Offers |-> IF \E u \in q.upsert : u[1] = o THEN (CHOOSE u \in q.upsert : u[1] = o)[2] ELSE sch[o]]
ReadSchedules(k) ==
    LET q == request[k]
        seen(o) == Generated(o[1]) \/ (o[1] \notin Grouped /\ \E u \in q.upsert : u[1][1] = o[1])
    IN /\ q.pc = "schedules"
       /\ Moves(k, [q EXCEPT !.pc = "discounts",
                      !.prices = [o \in Offers |-> IF o[2] = q.ay /\ seen(o) THEN Imported(q, schedule)[o] ELSE 0]])
       /\ UNCHANGED <<student, head, schedule, discount, row, years, groupOn, sent, changes, drift, admitted, rolled>>

ReadDiscounts(k) ==
    /\ request[k].pc = "discounts"
    /\ Moves(k, [request[k] EXCEPT !.pc = "insert", !.percents = discount])
    /\ UNCHANGED <<student, head, schedule, discount, row, years, groupOn, sent, changes, drift, admitted, rolled>>

\* What the schedule of a scope makes of row r, NotBilled if it does not bill it.
NotBilled == -1
Entry(q, r, scope) ==
    LET who == q.who[r.student]
        amount == q.prices[<<r.head, q.ay, scope>>]
        percent == q.percents[r.student][r.head]
        bills == scope \in {"all", who.class} /\ amount # 0 /\ (r.head \in RidersOnly => who.rides)
    IN CASE bills /\ r.head \in Monthly /\ r.period \in {[month |-> p[1], year |-> p[2]] : p \in {Pairs[q.ay][i] : i \in DOMAIN Pairs[q.ay]}}
              -> MonthlyAmount(amount, r.head, r.period.month, percent)
         [] bills /\ r.head \in Annual /\ q.annual /\ r.period.year = Pairs[q.ay][1][2] -> Discounted(amount, percent)
         [] OTHER -> NotBilled

\* The schedules come in no particular order, and of two entries for one row
\* the first stays: the one of the class or the one of all classes.
Inserted(q, first) ==
    [r \in {x \in Rows : x.student \in DOMAIN q.who /\ row[x] = NoRow /\ \E scope \in Scopes : Entry(q, x, scope) # NotBilled} |->
        LET class == Entry(q, r, q.who[r.student].class)  all == Entry(q, r, "all")
        IN [status |-> "unpaid", ay |-> q.ay,
            amount |-> IF class = NotBilled \/ (first = "all" /\ all # NotBilled) THEN all ELSE class]]

\* levy_fee_group, at the end of an enrolment: the active heads of the group at
\* the amount of any schedule, one for all classes first, unless already charged.
Price(sch, h) ==
    {sch[o] : o \in {x \in Offers : x[1] = h /\ sch[x] > 0
                 /\ (x[3] = "all" \/ \A y \in Years : sch[<<h, y, "all">>] = 0)}}
Charged(q, rows) ==
    {r \in Rows : /\ q.charges /\ r.student \in q.enrols
                  /\ r.head \in Grouped /\ head[r.head] /\ Price(schedule, r.head) # {}
                  /\ r.period.year = ThisYear /\ row[r] = NoRow
                  /\ ~\E x \in DOMAIN rows : x.student = r.student /\ x.head = r.head /\ rows[x].ay = q.ay}

\* ON CONFLICT DO NOTHING, and with it commits what an enrolment or the import
\* of a structure has written before.
InsertRows(k, first) ==
    LET q == request[k]
        rows == Inserted(q, first)
        charged == Charged(q, rows)
        heads == {u[1][1] : u \in q.upsert}
        repriced == UNION {UnpaidUnder(u[1]) : u \in q.upsert}
    IN /\ q.pc = "insert"
       /\ \E amount \in [charged -> UNION {Price(schedule, h) : h \in Grouped}] :
            /\ \A r \in charged : amount[r] \in Price(schedule, r.head)
            /\ row' = [r \in Rows |-> IF r \in DOMAIN rows THEN rows[r]
                                      ELSE IF r \in charged THEN [status |-> "unpaid", amount |-> amount[r], ay |-> q.ay]
                                      ELSE row[r]]
       /\ student' = [s \in Students |-> IF s \in q.enrols THEN q.who[s] ELSE student[s]]
       /\ schedule' = Imported(q, schedule)
       /\ head' = [h \in Heads |-> h \in heads \/ head[h]]
       /\ request' = [Overtake(request, IF q.upsert = {} THEN {} ELSE ReadPrices) EXCEPT ![k] = Idle]
       /\ drift' = drift \cup repriced \cup (IF q.overtaken THEN DOMAIN rows ELSE {})
       /\ admitted' = IF q.charges THEN admitted \cup q.enrols ELSE admitted
       /\ UNCHANGED <<discount, years, groupOn, sent, changes, rolled>>

\* A request dies; what it had not committed is rolled back.
Fails(k) ==
    /\ request[k] # Idle
    /\ Done(k)
    /\ UNCHANGED <<student, head, schedule, discount, row, years, groupOn, sent, changes, drift, admitted, rolled>>

-----------------------------------------------------------------------------
(* Concessions: set_student_discounts, one transaction.                    *)

SetDiscounts(k, s, items) ==
    /\ Sends(k)
    /\ student[s].state = "active"
    /\ Moves(k, [Idle EXCEPT !.pc = "replace", !.who = [x \in {s} |-> student[s]], !.items = items])
    /\ UNCHANGED <<student, head, schedule, discount, row, years, groupOn, changes, drift, admitted, rolled>>

Subject(q) == CHOOSE s \in DOMAIN q.who : TRUE
Given(items) == {h \in Heads : items[h] > 0}
\* Concessions of the same student that have written and not yet committed.
Rivals(k) == {j \in Requests \ {k} : request[j].pc \in {"price", "priced"} /\ DOMAIN request[j].who = DOMAIN request[k].who}

\* The old discounts are deleted and the new ones inserted.  A rival that
\* deleted the same rows makes the DELETE wait, and what the rival then leaves
\* is not deleted; a discount the rival inserts too is a unique violation.
ReplaceDiscounts(k) ==
    LET q == request[k]
        s == Subject(q)
        old == IF q.pc = "waits" THEN {} ELSE Given(discount[s])
        taken == (Given(discount[s]) \ old) \cup UNION {Given(request[j].items) : j \in Rivals(k)}
    IN /\ q.pc \in {"replace", "waits"}
       /\ CASE Rivals(k) # {} /\ Given(discount[s]) # {} -> q.pc = "replace" /\ Moves(k, [q EXCEPT !.pc = "waits"])
            [] ~(Rivals(k) # {} /\ Given(discount[s]) # {}) /\ Given(q.items) \cap taken # {} -> Done(k)
            [] OTHER -> Moves(k, [q EXCEPT !.pc = "price", !.deleted = old])
       /\ UNCHANGED <<student, head, schedule, discount, row, years, groupOn, sent, changes, drift, admitted, rolled>>

\* The student's discounts as the transaction sees them, and as it leaves them.
Discounts(q) ==
    [h \in Heads |-> IF q.items[h] > 0 THEN q.items[h] ELSE IF h \in q.deleted THEN 0 ELSE discount[Subject(q)][h]]

\* The schedule of the class before the one of all classes.
Offer(h, ay, class) == IF schedule[<<h, ay, class>>] > 0 THEN schedule[<<h, ay, class>>] ELSE schedule[<<h, ay, "all">>]

\* The UPDATE's view: unpaid rows with a schedule in their year.
PriceRows(k) ==
    LET q == request[k]
        s == Subject(q)
        rows == {r \in Rows : r.student = s /\ Unpaid(r) /\ Offer(r.head, row[r].ay, q.who[s].class) > 0}
    IN /\ q.pc = "price"
       /\ Moves(k, [q EXCEPT !.pc = "priced",
                      !.rows = [r \in rows |-> Recomputed(r, Offer(r.head, row[r].ay, q.who[s].class), Discounts(q)[r.head])]])
       /\ UNCHANGED <<student, head, schedule, discount, row, years, groupOn, sent, changes, drift, admitted, rolled>>

\* A row paid or waived since is left alone.
CommitDiscounts(k) ==
    LET q == request[k]
        s == Subject(q)
        mine == {r \in DOMAIN q.rows : Unpaid(r)}
        missed == {r \in Rows : r.student = s /\ Unpaid(r) /\ Discounts(q)[r.head] # discount[s][r.head]} \ mine
    IN /\ q.pc = "priced"
       /\ row' = [r \in Rows |-> IF r \in mine THEN [row[r] EXCEPT !.amount = q.rows[r]] ELSE row[r]]
       /\ discount' = [discount EXCEPT ![s] = Discounts(q)]
       /\ drift' = IF q.overtaken THEN drift \cup mine \cup missed ELSE (drift \ mine) \cup missed
       /\ request' = [Overtake(request, ReadDiscount(s)) EXCEPT ![k] = Idle]
       /\ UNCHANGED <<student, head, schedule, years, groupOn, sent, changes, admitted, rolled>>

-----------------------------------------------------------------------------
(* What the office does in a single statement.                             *)

UpsertSchedule(o, price) ==
    /\ Change
    /\ \A j \in Requests : \A u \in request[j].upsert : u[1] # o
    /\ schedule' = [schedule EXCEPT ![o] = price]
    /\ drift' = drift \cup UnpaidUnder(o)
    /\ request' = Overtake(request, ReadPrices)
    /\ UNCHANGED <<student, head, discount, row, years, groupOn, sent, admitted, rolled>>

ToggleHead(h) ==
    /\ Change
    /\ head' = [head EXCEPT ![h] = ~@]
    /\ UNCHANGED <<student, schedule, discount, row, years, groupOn, request, sent, drift, admitted, rolled>>

SetGroupActive(active) ==
    /\ Change
    /\ Grouped # {} /\ groupOn' = active
    /\ UNCHANGED <<student, head, schedule, discount, row, years, request, sent, drift, admitted, rolled>>

\* An edit may move the student to another class, to or from transport, or out
\* of the school and back.  The ledger stays as it is.
UpdateStudent(s, class, rides, state) ==
    /\ Change
    /\ student[s].state # "none"
    /\ student' = [student EXCEPT ![s] = [@ EXCEPT !.class = class, !.rides = rides, !.state = state]]
    /\ drift' = drift \cup {r \in Rows : r.student = s /\ Unpaid(r) /\ student[s].class # class}
    /\ request' = Overtake(request, ReadStudent(s))
    /\ UNCHANGED <<head, schedule, discount, row, years, groupOn, sent, admitted, rolled>>

DeactivateStudent(s) ==
    /\ Change
    /\ student[s].state = "active"
    /\ student' = [student EXCEPT ![s].state = "left"]
    /\ UNCHANGED <<head, schedule, discount, row, years, groupOn, request, sent, drift, admitted, rolled>>

\* Payments and waivers.
Settle(r, to) ==
    /\ Change
    /\ Unpaid(r)
    /\ row' = [row EXCEPT ![r].status = to]
    /\ UNCHANGED <<student, head, schedule, discount, years, groupOn, request, sent, drift, admitted, rolled>>

-----------------------------------------------------------------------------
(* Academic years.                                                         *)

\* Every flag is cleared and the one of the chosen year set; an id that is not
\* found is noticed after the commit.
SetCurrentYear(ay) ==
    /\ Change
    /\ current' = {ay} \cap Years
    /\ UNCHANGED <<student, head, schedule, discount, row, archived, groupOn, request, sent, drift, admitted, rolled>>

\* The columns the carry-forward names, and those the migrations give fee_ledger.
CarriedColumns == {"tenant_id", "student_id", "fee_head_id", "fee_schedule_id", "academic_year_id",
                   "amount_due", "period_month", "period_year", "status", "due_date"}
LedgerColumns == {"id", "tenant_id", "student_id", "fee_head_id", "academic_year_id", "period_month", "period_year",
                  "amount_due", "status", "payment_id", "waiver_reason", "created_at", "due_date", "reminded_at"}

\* One transaction.  Were the columns there, a carried row would have the key
\* of the row it is copied from, and ON CONFLICT DO NOTHING would keep the old.
Rollover(from, to) ==
    /\ Change
    /\ from \notin archived /\ from \in current /\ to \notin archived
    /\ rolled' = rolled \cup {<<from, to>>}
    /\ IF CarriedColumns \subseteq LedgerColumns
         THEN archived' = archived \cup {from} /\ current' = (current \ {from}) \cup {to}
         ELSE UNCHANGED years
    /\ UNCHANGED <<student, head, schedule, discount, row, groupOn, request, sent, drift, admitted>>

-----------------------------------------------------------------------------
Asks(k) ==
    \/ \E ay \in Years, annual \in BOOLEAN : AskGenerate(k, ay, annual)
    \/ \E s \in Students, a \in Arrivals :
         Enrol(k, s, a[1], a[2]) \/ CreateStudent(k, s, a[1], a[2], a[3]) \/ ImportStudents(k, s, a[1], a[2], a[3])
    \/ \E u \in NewPrices : ImportStructure(k, u[1], u[2])
    \/ \E s \in Students, items \in Concessions : SetDiscounts(k, s, items)

Proceeds(k) ==
    \/ ReadStudents(k) \/ ReadSchedules(k) \/ ReadDiscounts(k)
    \/ \E first \in {"all", "class"} : InsertRows(k, first)
    \/ ReplaceDiscounts(k) \/ PriceRows(k) \/ CommitDiscounts(k)
    \/ Fails(k)

Office ==
    \/ \E u \in NewPrices : UpsertSchedule(u[1], u[2])
    \/ \E h \in Heads : ToggleHead(h)
    \/ \E active \in BOOLEAN : SetGroupActive(active)
    \/ \E s \in Students :
         \/ DeactivateStudent(s)
         \/ \E c \in Classes, rides \in BOOLEAN, state \in {"active", "left"} : UpdateStudent(s, c, rides, state)
    \/ \E r \in Rows, to \in {"paid", "waived"} : Settle(r, to)
    \/ \E ay \in Years \cup {NoYear} : SetCurrentYear(ay)
    \/ \E from, to \in Years : Rollover(from, to)

Next == Office \/ \E k \in Requests : Asks(k) \/ Proceeds(k)

Spec == Init /\ [][Next]_vars

-----------------------------------------------------------------------------
(* Properties.                                                             *)

TypeOK ==
    /\ \A s \in Students : student[s] \in [state : {"none", "active", "left"}, class : Classes, year : Years \cup {NoYear}, rides : BOOLEAN]
    /\ head \in [Heads -> BOOLEAN]
    /\ schedule \in [Offers -> Paise]
    /\ discount \in [Students -> [Heads -> 0 .. 100]]
    /\ row \in [Rows -> [status : {"none", "unpaid", "paid", "waived"}, amount : Paise, ay : Years \cup {NoYear}]]
    /\ archived \subseteq Years /\ current \subseteq Years
    /\ groupOn \in BOOLEAN
    /\ sent \in 0 .. MaxSent /\ changes \in 0 .. MaxChanges
    /\ drift \subseteq Rows /\ admitted \subseteq Students

\* What schedules, concession and season make of row r, by generation or by
\* the recomputation: the two round differently, so they may be a paisa apart.
PricesOf(r) ==
    LET percent == discount[r.student][r.head]
        month == r.period.month
    IN UNION {{MonthlyAmount(schedule[<<r.head, row[r].ay, scope>>], r.head, month, percent),
               Recomputed(r, schedule[<<r.head, row[r].ay, scope>>], percent)} :
                 scope \in {x \in {"all", student[r.student].class} : schedule[<<r.head, row[r].ay, x>>] > 0}}

\* An unpaid row of a generated head asks what a schedule of its year, the
\* season and the student's present concession make of it, however often and
\* in whatever order generations and concessions ran; only rows that were
\* settled on before a change of schedule or class, or by a request that a
\* concession or a schedule overtook, may differ (services/finance.py:338-498).
UnpaidRowsPriced ==
    \A r \in Rows : Unpaid(r) /\ r.head \notin Grouped /\ r \notin drift => row[r].amount \in PricesOf(r)

\* A charge of the admission group is owed by nobody but the students that were
\* enrolled while the group was on: no generation, import or concession bills
\* it to a class (services/finance.py:861-875, migrations/045).
OnlyNewcomersPayAdmission ==
    \A r \in Rows : r.head \in Grouped /\ row[r].status # "none" => r.student \in admitted

\* A rollover whose checks passed archives the old year and makes the new one
\* current (services/student.py:78-85, BUILD.md:1537).
RolloverDelivers ==
    \A p \in rolled : p[1] \in archived
=============================================================================
