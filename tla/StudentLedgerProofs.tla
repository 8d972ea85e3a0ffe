------------------------ MODULE StudentLedgerProofs ------------------------
(***************************************************************************)
(* The charges of the admission group: whatever the office generates,      *)
(* imports, reprices and moves, only an enrolment bills them.              *)
(*                                                                         *)
(* What the rows ask: nothing is locked while a request reads, so          *)
(* PricedInv says of each request what it still knows, or that it was      *)
(* overtaken.  With the types it rests on, the reports over the rows add   *)
(* up.                                                                     *)
(***************************************************************************)
EXTENDS FeeReports, TLAPS

NoGroup(prices) == \A o \in Offers : o[1] \in Grouped => prices[o] = 0

\* The year of a generation is known, and nobody's prices have a head of the
\* admission group.
RequestsInv ==
    /\ request = [k \in Requests |-> request[k]]
    /\ \A k \in Requests :
          /\ request[k].pc \in {"students", "schedules", "discounts", "insert"} => request[k].ay \in Years
          /\ NoGroup(request[k].prices)

IInv == RequestsInv /\ OnlyNewcomersPayAdmission

-----------------------------------------------------------------------------
LEMMA IdleIsInv ==
    /\ Idle.pc = "idle"
    /\ NoGroup(Idle.prices)
  BY DEF Idle, NoOffers, NoGroup

LEMMA InitIInv == Init => IInv
  BY IdleIsInv DEF Init, IInv, RequestsInv, OnlyNewcomersPayAdmission, NoRow

\* A new request begins with no prices.
LEMMA SentKeepsRequests ==
    ASSUME IInv, NEW k \in Requests, NEW q,
           request' = [request EXCEPT ![k] = q],
           q.prices = Idle.prices \/ NoGroup(q.prices),
           q.pc \in {"students", "schedules", "discounts", "insert"} => q.ay \in Years
    PROVE  RequestsInv'
  BY IdleIsInv DEF IInv, RequestsInv

LEMMA OvertakeKeepsRequests ==
    ASSUME IInv, NEW S, NEW k \in Requests, NEW q,
           request' = [Overtake(request, S) EXCEPT ![k] = q],
           q.prices = Idle.prices,
           q.pc \in {"students", "schedules", "discounts", "insert"} => q.ay \in Years
    PROVE  RequestsInv'
<1>1. request' = [j \in Requests |-> request'[j]]
  BY DEF Overtake
<1>2. ASSUME NEW j \in Requests
      PROVE  /\ request'[j].pc \in {"students", "schedules", "discounts", "insert"} => request'[j].ay \in Years
             /\ NoGroup(request'[j].prices)
  <2>1. CASE j = k
    BY <2>1, IdleIsInv DEF Overtake
  <2>2. CASE j # k /\ j \notin S
    BY <2>2 DEF Overtake, IInv, RequestsInv
  <2>3. CASE j # k /\ j \in S
    <3>1. request'[j] = [request[j] EXCEPT !.overtaken = TRUE]
      BY <2>3 DEF Overtake
    <3> DEFINE o == [request[j] EXCEPT !.overtaken = TRUE]
    <3>2. o.pc = request[j].pc /\ o.ay = request[j].ay /\ o.prices = request[j].prices
      OBVIOUS
    <3> HIDE DEF o
    <3> QED BY <3>1, <3>2 DEF o, IInv, RequestsInv
  <2> QED BY <2>1, <2>2, <2>3
<1> QED BY <1>1, <1>2 DEF RequestsInv

LEMMA OvertakenKeepRequests ==
    ASSUME IInv, NEW S, request' = Overtake(request, S)
    PROVE  RequestsInv'
<1>1. ASSUME NEW j \in Requests
      PROVE  /\ request'[j].pc \in {"students", "schedules", "discounts", "insert"} => request'[j].ay \in Years
             /\ NoGroup(request'[j].prices)
  <2>1. CASE j \notin S
    BY <2>1 DEF Overtake, IInv, RequestsInv
  <2>2. CASE j \in S
    <3>1. request'[j] = [request[j] EXCEPT !.overtaken = TRUE]
      BY <2>2 DEF Overtake
    <3>2. /\ request'[j].pc = request[j].pc /\ request'[j].ay = request[j].ay
          /\ request'[j].prices = request[j].prices
      BY <3>1
    <3> QED BY <3>2 DEF IInv, RequestsInv
  <2> QED BY <2>1, <2>2
<1> QED BY <1>1 DEF RequestsInv, Overtake

\* A request that moves on keeps its year and its prices.
LEMMA MovedKeepsRequests ==
    ASSUME IInv, NEW k \in Requests, NEW q, Moves(k, q),
           q.prices = request[k].prices, q.ay = request[k].ay,
           q.pc \in {"students", "schedules", "discounts", "insert"}
              => request[k].pc \in {"students", "schedules", "discounts", "insert"}
    PROVE  RequestsInv'
  BY DEF IInv, RequestsInv, Moves

LEMMA SameRowsKeepOwners ==
    ASSUME IInv, UNCHANGED <<row, admitted>>
    PROVE  OnlyNewcomersPayAdmission'
  BY DEF IInv, OnlyNewcomersPayAdmission

LEMMA DoneKeepsRequests ==
    ASSUME IInv, NEW k \in Requests, Done(k)
    PROVE  RequestsInv'
<1>1. request' = [request EXCEPT ![k] = Idle]
  BY DEF Done, Moves
<1> QED BY <1>1, IdleIsInv DEF IInv, RequestsInv

-----------------------------------------------------------------------------
LEMMA ArrivalsAreKnown ==
    ASSUME NEW a \in Arrivals
    PROVE  a[2] \in Years
  BY LedgerAssumption

LEMMA NewPricesAreOffers ==
    ASSUME NEW u \in NewPrices
    PROVE  u[1][2] \in Years
  BY LedgerAssumption DEF Offers

LEMMA AsksKeepIInv ==
    ASSUME IInv, NEW k \in Requests, Asks(k)
    PROVE  IInv'
<1>1. ASSUME NEW ay \in Years, NEW annual \in BOOLEAN, AskGenerate(k, ay, annual) PROVE IInv'
  <2> DEFINE q == [Idle EXCEPT !.pc = "students", !.ay = ay, !.annual = annual]
  <2>1. q.prices = Idle.prices /\ q.ay = ay
    BY DEF Idle
  <2>2. RequestsInv'
    <3> HIDE DEF q
    <3> QED BY <1>1, <2>1, SentKeepsRequests DEF AskGenerate, Moves, q
  <2> QED BY <1>1, <2>2, SameRowsKeepOwners DEF AskGenerate, IInv
<1>2. ASSUME NEW s \in Students, NEW a \in Arrivals, Enrol(k, s, a[1], a[2]) PROVE IInv'
  <2> DEFINE q == [Idle EXCEPT !.pc = "students", !.ay = a[2], !.annual = TRUE, !.charges = groupOn,
               !.who = [x \in {s} |-> [state |-> "active", class |-> a[1], year |-> a[2], rides |-> FALSE]],
               !.enrols = {s}]
  <2>1. request' = [request EXCEPT ![k] = q]
    BY <1>2 DEF Enrol, Moves
  <2>2. q.prices = Idle.prices /\ q.ay = a[2]
    BY DEF Idle
  <2>3. RequestsInv'
    <3> HIDE DEF q
    <3> QED BY <2>1, <2>2, ArrivalsAreKnown, SentKeepsRequests
  <2> QED BY <1>2, <2>3, SameRowsKeepOwners DEF Enrol, IInv
<1>3. ASSUME NEW s \in Students, NEW a \in Arrivals, CreateStudent(k, s, a[1], a[2], a[3]) PROVE IInv'
  <2> DEFINE q == [Idle EXCEPT !.pc = "schedules", !.ay = a[2], !.annual = TRUE,
               !.who = [x \in {s} |-> student'[s]]]
  <2>1. request' = [request EXCEPT ![k] = q]
    BY <1>3 DEF CreateStudent, Moves
  <2>2. q.prices = Idle.prices /\ q.ay = a[2]
    BY DEF Idle
  <2>3. RequestsInv'
    <3> HIDE DEF q
    <3> QED BY <2>1, <2>2, ArrivalsAreKnown, SentKeepsRequests
  <2> QED BY <1>3, <2>3, SameRowsKeepOwners DEF CreateStudent, IInv
<1>4. ASSUME NEW s \in Students, NEW a \in Arrivals, ImportStudents(k, s, a[1], a[2], a[3]) PROVE IInv'
  <2> DEFINE q == [Idle EXCEPT !.pc = "students", !.ay = a[2], !.annual = TRUE]
  <2>1. request' = [Overtake(request, ReadStudent(s)) EXCEPT ![k] = q]
    BY <1>4 DEF ImportStudents
  <2>2. q.prices = Idle.prices /\ q.ay = a[2]
    BY DEF Idle
  <2>3. RequestsInv'
    <3> HIDE DEF q
    <3> QED BY <2>1, <2>2, ArrivalsAreKnown, OvertakeKeepsRequests
  <2> QED BY <1>4, <2>3, SameRowsKeepOwners DEF ImportStudents, IInv
<1>5. ASSUME NEW u \in NewPrices, ImportStructure(k, u[1], u[2]) PROVE IInv'
  <2> DEFINE q == [Idle EXCEPT !.pc = "students", !.ay = u[1][2], !.annual = TRUE, !.upsert = {<<u[1], u[2]>>}]
  <2>1. request' = [request EXCEPT ![k] = q]
    BY <1>5 DEF ImportStructure, Moves
  <2>2. q.prices = Idle.prices /\ q.ay = u[1][2]
    BY DEF Idle
  <2>3. RequestsInv'
    <3> HIDE DEF q
    <3> QED BY <2>1, <2>2, NewPricesAreOffers, SentKeepsRequests
  <2> QED BY <1>5, <2>3, SameRowsKeepOwners DEF ImportStructure, IInv
<1>6. ASSUME NEW s \in Students, NEW items \in Concessions, SetDiscounts(k, s, items) PROVE IInv'
  <2> DEFINE q == [Idle EXCEPT !.pc = "replace", !.who = [x \in {s} |-> student[s]], !.items = items]
  <2>1. request' = [request EXCEPT ![k] = q]
    BY <1>6 DEF SetDiscounts, Moves
  <2>2. q.prices = Idle.prices /\ q.pc = "replace"
    BY DEF Idle
  <2>3. RequestsInv'
    <3> HIDE DEF q
    <3> QED BY <2>1, <2>2, SentKeepsRequests
  <2> QED BY <1>6, <2>3, SameRowsKeepOwners DEF SetDiscounts, IInv
<1> QED BY <1>1, <1>2, <1>3, <1>4, <1>5, <1>6 DEF Asks

-----------------------------------------------------------------------------
(* The steps of a request.                                                 *)

\* The read leaves the heads of the group out.
LEMMA PricesLeaveGroupOut ==
    ASSUME IInv, NEW k \in Requests, ReadSchedules(k)
    PROVE  IInv'
<1> DEFINE q == request[k]
           seen(o) == Generated(o[1]) \/ (o[1] \notin Grouped /\ \E u \in q.upsert : u[1][1] = o[1])
           prices == [o \in Offers |-> IF o[2] = q.ay /\ seen(o) THEN Imported(q, schedule)[o] ELSE 0]
           next == [q EXCEPT !.pc = "discounts", !.prices = prices]
<1>1. q.pc = "schedules" /\ request' = [request EXCEPT ![k] = next]
  BY DEF ReadSchedules, Moves
<1>2. NoGroup(prices)
  BY DEF Generated, NoGroup
<1>3. next.ay = q.ay /\ next.pc = "discounts" /\ (next.prices = prices \/ next.prices = q.prices)
  <2> HIDE DEF prices
  <2> QED OBVIOUS
<1>4. q.ay \in Years
  BY <1>1 DEF IInv, RequestsInv
<1>5. NoGroup(next.prices)
  <2> HIDE DEF prices, next
  <2> QED BY <1>2, <1>3 DEF IInv, RequestsInv
<1>6. RequestsInv'
  <2> HIDE DEF next
  <2> QED BY <1>1, <1>3, <1>4, <1>5, SentKeepsRequests
<1> QED BY <1>6, SameRowsKeepOwners DEF ReadSchedules, IInv

LEMMA NothingGrouped ==
    ASSUME IInv, NEW k \in Requests, request[k].pc = "insert",
           NEW r \in Rows, r.head \in Grouped, NEW scope \in Scopes
    PROVE  Entry(request[k], r, scope) = NotBilled
<1>1. <<r.head, request[k].ay, scope>> \in Offers
  BY LedgerAssumption DEF IInv, RequestsInv, Offers, Heads
<1>2. request[k].prices[<<r.head, request[k].ay, scope>>] = 0
  BY <1>1 DEF IInv, RequestsInv, NoGroup
<1> QED BY <1>2 DEF Entry

\* Only the charges of an enrolment insert rows of the group.
LEMMA InsertKeepsIInv ==
    ASSUME IInv, NEW k \in Requests, NEW first, InsertRows(k, first)
    PROVE  IInv'
<1> DEFINE q == request[k]
           rows == Inserted(q, first)
           charged == Charged(q, rows)
<1>1. q.pc = "insert"
  BY DEF InsertRows
<1>2. PICK S : request' = [Overtake(request, S) EXCEPT ![k] = Idle]
  BY DEF InsertRows
<1>3. RequestsInv'
  BY <1>2, IdleIsInv, OvertakeKeepsRequests
<1>4. \A r \in DOMAIN rows : r.head \notin Grouped
  BY <1>1, NothingGrouped DEF Inserted
<1>5. ASSUME NEW r \in Rows, r \notin DOMAIN rows, r \notin charged PROVE row'[r] = row[r]
  BY <1>5 DEF InsertRows
<1>6. \A r \in charged : q.charges /\ r.student \in q.enrols
  BY DEF Charged
<1>7. /\ admitted \subseteq admitted'
      /\ q.charges => q.enrols \subseteq admitted'
  BY DEF InsertRows
<1>8. OnlyNewcomersPayAdmission'
  <2> HIDE DEF q, rows, charged
  <2> QED BY <1>4, <1>5, <1>6, <1>7 DEF IInv, OnlyNewcomersPayAdmission
<1> QED BY <1>3, <1>8 DEF IInv

LEMMA ProceedsKeepsIInv ==
    ASSUME IInv, NEW k \in Requests, Proceeds(k)
    PROVE  IInv'
<1> DEFINE q == request[k]
<1>1. CASE ReadStudents(k)
  <2> DEFINE found == {s \in Students : student[s].state = "active" /\ student[s].year = q.ay}
             who == [s \in found \cup q.enrols |-> IF s \in found THEN student[s] ELSE q.who[s]]
             billed == [q EXCEPT !.pc = "schedules", !.who = who]
             nobody == [q EXCEPT !.pc = "insert"]
  <2>1. q.pc = "students" /\ (Moves(k, billed) \/ Moves(k, Idle) \/ Moves(k, nobody))
    <3> HIDE DEF who
    <3>1. /\ q.pc = "students"
          /\ Moves(k, CASE DOMAIN who # {} -> billed
                        [] DOMAIN who = {} /\ q.upsert = {} -> Idle
                        [] DOMAIN who = {} /\ q.upsert # {} -> nobody)
      BY <1>1, Zenon DEF ReadStudents, who
    <3> HIDE DEF billed, nobody
    <3> QED BY <3>1
  <2>2. billed.prices = q.prices /\ billed.ay = q.ay /\ nobody.prices = q.prices /\ nobody.ay = q.ay
    <3> HIDE DEF who
    <3> QED OBVIOUS
  <2>3. RequestsInv'
    <3> HIDE DEF billed, nobody
    <3> QED BY <2>1, <2>2, MovedKeepsRequests, DoneKeepsRequests DEF Done
  <2> QED BY <1>1, <2>3, SameRowsKeepOwners DEF ReadStudents, IInv
<1>2. CASE ReadSchedules(k)
  BY <1>2, PricesLeaveGroupOut
<1>3. CASE ReadDiscounts(k)
  <2> DEFINE next == [q EXCEPT !.pc = "insert", !.percents = discount]
  <2>1. q.pc = "discounts" /\ Moves(k, next)
    BY <1>3 DEF ReadDiscounts
  <2>2. next.prices = q.prices /\ next.ay = q.ay
    OBVIOUS
  <2>3. RequestsInv'
    <3> HIDE DEF next
    <3> QED BY <2>1, <2>2, MovedKeepsRequests
  <2> QED BY <1>3, <2>3, SameRowsKeepOwners DEF ReadDiscounts, IInv
<1>4. ASSUME NEW first, InsertRows(k, first) PROVE IInv'
  BY <1>4, InsertKeepsIInv
<1>5. CASE ReplaceDiscounts(k)
  <2> DEFINE s == Subject(q)
             old == IF q.pc = "waits" THEN {} ELSE Given(discount[s])
             waiting == [q EXCEPT !.pc = "waits"]
             replaced == [q EXCEPT !.pc = "price", !.deleted = old]
  <2>1. Moves(k, waiting) \/ Done(k) \/ Moves(k, replaced)
    BY <1>5 DEF ReplaceDiscounts
  <2>2. /\ waiting.prices = q.prices /\ waiting.ay = q.ay
        /\ replaced.prices = q.prices /\ replaced.ay = q.ay
        /\ waiting.pc \in {"waits", q.pc} /\ replaced.pc \in {"price", q.pc}
    <3> HIDE DEF old
    <3> QED OBVIOUS
  <2>3. RequestsInv'
    <3> HIDE DEF waiting, replaced
    <3> QED BY <2>1, <2>2, MovedKeepsRequests, DoneKeepsRequests
  <2> QED BY <1>5, <2>3, SameRowsKeepOwners DEF ReplaceDiscounts, IInv
<1>6. CASE PriceRows(k)
  <2> DEFINE s == Subject(q)
             found == {r \in Rows : r.student = s /\ Unpaid(r) /\ Offer(r.head, row[r].ay, q.who[s].class) > 0}
             priced == [r \in found |-> Recomputed(r, Offer(r.head, row[r].ay, q.who[s].class), Discounts(q)[r.head])]
             next == [q EXCEPT !.pc = "priced", !.rows = priced]
  <2>1. Moves(k, next)
    BY <1>6 DEF PriceRows
  <2>2. next.prices = q.prices /\ next.ay = q.ay /\ (next.pc = "priced" \/ next.pc = q.pc)
    <3> HIDE DEF priced
    <3> QED OBVIOUS
  <2>3. RequestsInv'
    <3> HIDE DEF next
    <3> QED BY <2>1, <2>2, MovedKeepsRequests
  <2> QED BY <1>6, <2>3, SameRowsKeepOwners DEF PriceRows, IInv
<1>7. CASE CommitDiscounts(k)
  <2>1. PICK S : request' = [Overtake(request, S) EXCEPT ![k] = Idle]
    BY <1>7 DEF CommitDiscounts
  <2>2. RequestsInv'
    BY <2>1, IdleIsInv, OvertakeKeepsRequests
  <2>3. ASSUME NEW r \in Rows PROVE row'[r].status # "none" => row[r].status # "none"
    <3>1. row'[r] = row[r] \/ row[r].status = "unpaid"
      BY <1>7 DEF CommitDiscounts, Unpaid
    <3> QED BY <3>1
  <2>4. OnlyNewcomersPayAdmission'
    BY <1>7, <2>3 DEF CommitDiscounts, IInv, OnlyNewcomersPayAdmission
  <2> QED BY <2>2, <2>4 DEF IInv
<1>8. CASE Fails(k)
  BY <1>8, DoneKeepsRequests, SameRowsKeepOwners DEF Fails, IInv
<1> QED BY <1>1, <1>2, <1>3, <1>4, <1>5, <1>6, <1>7, <1>8 DEF Proceeds

-----------------------------------------------------------------------------
(* The office.                                                             *)

LEMMA OfficeKeepsIInv == IInv /\ Office => IInv'
<1> SUFFICES ASSUME IInv, Office PROVE IInv'
  OBVIOUS
<1>1. ASSUME NEW o, NEW price, UpsertSchedule(o, price) PROVE IInv'
  BY <1>1, OvertakenKeepRequests, SameRowsKeepOwners DEF UpsertSchedule, IInv
<1>2. ASSUME NEW s \in Students, NEW c, NEW rides, NEW state, UpdateStudent(s, c, rides, state) PROVE IInv'
  BY <1>2, OvertakenKeepRequests, SameRowsKeepOwners DEF UpdateStudent, IInv
<1>3. ASSUME NEW r \in Rows, NEW to, Settle(r, to) PROVE IInv'
  <2>1. \A x \in Rows : row'[x].status # "none" => row[x].status # "none"
    BY <1>3 DEF Settle, Unpaid
  <2> QED BY <1>3, <2>1 DEF Settle, IInv, RequestsInv, OnlyNewcomersPayAdmission
<1>4. ASSUME UNCHANGED <<row, admitted, request>> PROVE IInv'
  BY <1>4 DEF IInv, RequestsInv, OnlyNewcomersPayAdmission
<1>5. ASSUME \/ \E h \in Heads : ToggleHead(h)
             \/ \E active \in BOOLEAN : SetGroupActive(active)
             \/ \E s \in Students : DeactivateStudent(s)
             \/ \E ay \in Years \cup {NoYear} : SetCurrentYear(ay)
             \/ \E from, to \in Years : Rollover(from, to)
      PROVE  IInv'
  BY <1>4, <1>5 DEF ToggleHead, SetGroupActive, DeactivateStudent, SetCurrentYear, Rollover
<1> QED BY <1>1, <1>2, <1>3, <1>5 DEF Office

LEMMA StepKeepsIInv == IInv /\ [Next]_vars => IInv'
<1>1. IInv /\ UNCHANGED vars => IInv'
  BY DEF vars, IInv, RequestsInv, OnlyNewcomersPayAdmission
<1> QED BY <1>1, OfficeKeepsIInv, AsksKeepIInv, ProceedsKeepsIInv DEF Next

\* A charge of the admission group is owed by nobody but the students who were
\* enrolled while the group was on (generate_for_academic_year, levy_fee_group,
\* enrol_student).
THEOREM NewcomersPay == Spec => []OnlyNewcomersPayAdmission
<1>1. IInv => OnlyNewcomersPayAdmission
  BY DEF IInv
<1> QED BY <1>1, InitIInv, StepKeepsIInv, PTL DEF Spec

-----------------------------------------------------------------------------
(* What the unpaid rows ask.                                               *)

StudentRecord ==
    [state : {"none", "active", "left"}, class : Classes, year : Years \cup {NoYear}, rides : BOOLEAN]

TablesInv ==
    /\ student \in [Students -> StudentRecord]
    /\ schedule \in [Offers -> Paise]
    /\ discount \in [Students -> [Heads -> 0 .. 100]]
    /\ row = [r \in Rows |-> row[r]]
    /\ \A r \in Rows :
          /\ row[r] = [status |-> row[r].status, amount |-> row[r].amount, ay |-> row[r].ay]
          /\ row[r].status \in {"none", "unpaid", "paid", "waived"}
          /\ row[r].status # "none" => row[r].ay \in Years /\ student[r.student].state # "none"

\* Whom a request bills: students of the table as it read them, unless one
\* changed meanwhile, and one of its own that is not in the table yet.
WhoOK(q) ==
    /\ q.enrols \subseteq DOMAIN q.who
    /\ q.pc = "students" => DOMAIN q.who = q.enrols
    /\ \A s \in DOMAIN q.who :
          /\ s \in Students
          /\ q.who[s] \in StudentRecord
          /\ q.who[s].state # "none"
          /\ s \in q.enrols => student[s] = NoStudent
          /\ s \notin q.enrols => student[s].state # "none"
          /\ s \notin q.enrols /\ ~q.overtaken => q.who[s].class = student[s].class

\* What a structure import is going to write.
UpsertOK(q) == \A u \in q.upsert : u[1] \in Offers /\ u[2] \in Paise

\* The prices of a generation are those of its year as they will be when it
\* commits, unless a schedule changed meanwhile.
PricesOK(q) ==
    \A o \in Offers :
        q.prices[o] # 0 /\ ~q.overtaken =>
            /\ q.pc \in {"discounts", "insert"}
            /\ o[2] = q.ay
            /\ q.prices[o] = Imported(q, schedule)[o]

\* Nor have the discounts of those it bills.
PercentsOK(q) ==
    q.pc = "insert" /\ ~q.overtaken => \A s \in DOMAIN q.who : q.percents[s] = discount[s]

\* A concession is about one student and writes nothing else.
ConcessionOK(q) ==
    q.pc \in {"replace", "waits", "price", "priced"} =>
        /\ \E s \in Students : DOMAIN q.who = {s}
        /\ q.enrols = {} /\ q.upsert = {}
        /\ q.items \in [Heads -> 0 .. 100]

\* The rows it has priced are rows of that student, at the price its commit
\* will leave them with, unless it was overtaken.
PricedOK(q) ==
    q.pc = "priced" =>
        \A r \in DOMAIN q.rows :
            /\ r \in Rows /\ r.student = Subject(q) /\ row[r].status # "none"
            /\ ~q.overtaken =>
                  LET offer == Offer(r.head, row[r].ay, q.who[Subject(q)].class)
                  IN offer > 0 /\ q.rows[r] = Recomputed(r, offer, Discounts(q)[r.head])

ReqOK(q) ==
    WhoOK(q) /\ UpsertOK(q) /\ PricesOK(q) /\ PercentsOK(q) /\ ConcessionOK(q) /\ PricedOK(q)

EnrolsApart ==
    \A j, k \in Requests : j # k => request[j].enrols \cap request[k].enrols = {}

-----------------------------------------------------------------------------
(* What a request may rely on while another runs.                          *)

\* A step leaves request q what it read, or overtakes it.
Leaves(q, late) ==
    /\ \A s \in DOMAIN q.who :
          /\ s \in q.enrols => student'[s] = student[s]
          /\ student[s].state # "none" => student'[s].state # "none"
          /\ s \notin q.enrols /\ ~q.overtaken /\ ~late => student'[s].class = student[s].class
    /\ ~q.overtaken /\ ~late /\ q.pc \in {"discounts", "insert", "priced"} => schedule' = schedule
    /\ ~q.overtaken /\ ~late /\ q.pc \in {"insert", "priced"} =>
          \A s \in DOMAIN q.who : discount'[s] = discount[s]
    /\ \A r \in Rows : row[r].status # "none" => row'[r].status # "none" /\ row'[r].ay = row[r].ay

Late(q, late) == IF late THEN [q EXCEPT !.overtaken = TRUE] ELSE q

LEMMA SubjectOfConcession ==
    ASSUME NEW q, ConcessionOK(q), q.pc \in {"replace", "waits", "price", "priced"}
    PROVE  Subject(q) \in Students /\ DOMAIN q.who = {Subject(q)}
  BY DEF ConcessionOK, Subject

LEMMA RelyUntouched ==
    ASSUME NEW q, ReqOK(q), Leaves(q, FALSE)
    PROVE  ReqOK(q)'
<1>1. WhoOK(q)'
  BY DEF ReqOK, WhoOK, Leaves, NoStudent
<1>2. UpsertOK(q)'
  BY DEF ReqOK, UpsertOK
<1>3. PricesOK(q)'
  BY DEF ReqOK, PricesOK, Leaves, Imported
<1>4. PercentsOK(q)'
  BY DEF ReqOK, PercentsOK, Leaves
<1>5. ConcessionOK(q)'
  BY DEF ReqOK, ConcessionOK
<1>6. ASSUME q.pc = "priced", NEW r \in DOMAIN q.rows
      PROVE  /\ r \in Rows /\ r.student = Subject(q) /\ row'[r].status # "none"
             /\ ~q.overtaken =>
                  /\ Offer(r.head, row[r].ay, q.who[Subject(q)].class)' > 0
                  /\ q.rows[r] = Recomputed(r, Offer(r.head, row[r].ay, q.who[Subject(q)].class)', Discounts(q)'[r.head])
  <2>1. /\ r \in Rows /\ r.student = Subject(q) /\ row[r].status # "none"
        /\ ~q.overtaken =>
                  /\ Offer(r.head, row[r].ay, q.who[Subject(q)].class) > 0
                  /\ q.rows[r] = Recomputed(r, Offer(r.head, row[r].ay, q.who[Subject(q)].class), Discounts(q)[r.head])
    BY <1>6 DEF ReqOK, PricedOK
  <2>2. row'[r].status # "none" /\ row'[r].ay = row[r].ay
    BY <2>1 DEF Leaves
  <2>3. CASE q.overtaken
    BY <2>1, <2>2, <2>3
  <2>4. CASE ~q.overtaken
    <3>1. schedule' = schedule
      BY <1>6, <2>4 DEF Leaves
    <3>2. discount'[Subject(q)] = discount[Subject(q)]
      BY <1>6, <2>4, SubjectOfConcession DEF Leaves, ReqOK
    <3>3. Discounts(q)' = Discounts(q)
      BY <3>2 DEF Discounts
    <3>4. Offer(r.head, row[r].ay, q.who[Subject(q)].class)' = Offer(r.head, row[r].ay, q.who[Subject(q)].class)
      BY <2>2, <3>1 DEF Offer
    <3> QED BY <2>1, <2>2, <2>4, <3>3, <3>4
  <2> QED BY <2>3, <2>4
<1>7. PricedOK(q)'
  BY <1>6 DEF PricedOK
<1> QED BY <1>1, <1>2, <1>3, <1>4, <1>5, <1>7 DEF ReqOK

LEMMA OvertakenIsOK ==
    ASSUME NEW q, ReqOK(q)
    PROVE  ReqOK([q EXCEPT !.overtaken = TRUE])
<1> DEFINE z == [q EXCEPT !.overtaken = TRUE]
<1>1. /\ z.overtaken /\ z.pc = q.pc /\ z.ay = q.ay /\ z.who = q.who /\ z.prices = q.prices /\ z.percents = q.percents
      /\ z.enrols = q.enrols /\ z.upsert = q.upsert /\ z.items = q.items /\ z.deleted = q.deleted /\ z.rows = q.rows
  OBVIOUS
<1> HIDE DEF z
<1>2. Subject(z) = Subject(q)
  BY <1>1 DEF Subject
<1>3. ReqOK(z)
  BY <1>1, <1>2 DEF ReqOK, WhoOK, UpsertOK, PricesOK, PercentsOK, ConcessionOK, PricedOK
<1> QED BY <1>3 DEF z

LEMMA Rely ==
    ASSUME NEW q, ReqOK(q), NEW late \in BOOLEAN, Leaves(q, late)
    PROVE  ReqOK(Late(q, late))'
<1>1. CASE ~late
  BY <1>1, RelyUntouched DEF Late
<1>2. CASE late
  <2> DEFINE z == [q EXCEPT !.overtaken = TRUE]
  <2>1. ReqOK(z)
    BY OvertakenIsOK
  <2>2. z.overtaken /\ z.pc = q.pc /\ z.who = q.who /\ z.enrols = q.enrols
    OBVIOUS
  <2> HIDE DEF z
  <2>3. Leaves(z, FALSE)
    BY <2>2 DEF Leaves
  <2>4. ReqOK(z)'
    BY <2>1, <2>3, RelyUntouched
  <2> QED BY <1>2, <2>4 DEF Late, z
<1> QED BY <1>1, <1>2

-----------------------------------------------------------------------------
(* What a step does to the requests.                                       *)

\* Request k becomes q; of the others those in S are overtaken.
Becomes(k, q, S) ==
    \A j \in Requests : request'[j] = IF j = k THEN q ELSE Late(request[j], j \in S)

RequestsOK ==
    /\ request = [k \in Requests |-> request[k]]
    /\ \A k \in Requests : ReqOK(request[k])
    /\ EnrolsApart

LEMMA MovesBecomes ==
    ASSUME RequestsOK, NEW k \in Requests, NEW q, Moves(k, q)
    PROVE  Becomes(k, q, {})
  BY DEF RequestsOK, Moves, Becomes, Late

LEMMA OvertakeBecomes ==
    ASSUME RequestsOK, NEW k \in Requests, NEW q, NEW S, request' = [Overtake(request, S) EXCEPT ![k] = q]
    PROVE  Becomes(k, q, S)
  BY DEF Overtake, Becomes, Late

LEMMA LateEnrols ==
    ASSUME NEW q, NEW late
    PROVE  Late(q, late).enrols = q.enrols /\ Late(q, late).who = q.who
  BY DEF Late

LEMMA OKIsOfValue ==
    ASSUME NEW j, NEW q, request'[j] = q, ReqOK(q)'
    PROVE  ReqOK(request[j])'
  BY DEF ReqOK, WhoOK, UpsertOK, PricesOK, PercentsOK, ConcessionOK, PricedOK

\* A step that makes k another request keeps what is known of all.
LEMMA RequestsKept ==
    ASSUME RequestsOK, NEW k \in Requests, NEW q, NEW S, Becomes(k, q, S),
           request' = [j \in Requests |-> request'[j]],
           ReqOK(q)',
           \A j \in Requests \ {k} : q.enrols \cap request[j].enrols = {},
           \A j \in Requests \ {k} : Leaves(request[j], j \in S)
    PROVE  RequestsOK'
<1>1. ASSUME NEW j \in Requests PROVE ReqOK(request[j])'
  <2>1. CASE j = k
    <3>1. request'[j] = q
      BY <2>1 DEF Becomes
    <3> QED BY <3>1, OKIsOfValue
  <2>2. CASE j # k
    <3>0. PICK x : x = request[j]
      OBVIOUS
    <3>1. PICK late \in BOOLEAN : late <=> j \in S
      OBVIOUS
    <3>2. request'[j] = Late(x, late)
      BY <2>2, <3>0, <3>1 DEF Becomes, Late
    <3>3. Leaves(x, late) /\ ReqOK(x)
      BY <2>2, <3>0, <3>1 DEF RequestsOK, Leaves
    <3> QED BY <3>2, <3>3, Rely, OKIsOfValue
  <2> QED BY <2>1, <2>2
<1>2. ASSUME NEW j \in Requests PROVE request'[j].enrols = IF j = k THEN q.enrols ELSE request[j].enrols
  BY LateEnrols DEF Becomes
<1>3. EnrolsApart'
  BY <1>2 DEF RequestsOK, EnrolsApart
<1> QED BY <1>1, <1>3 DEF RequestsOK

LEMMA RequestsOvertaken ==
    ASSUME RequestsOK, NEW S, request' = Overtake(request, S),
           \A j \in Requests : Leaves(request[j], j \in S)
    PROVE  RequestsOK'
<1>1. ASSUME NEW j \in Requests PROVE request'[j] = Late(request[j], j \in S)
  BY DEF Overtake, Late
<1>2. ASSUME NEW j \in Requests PROVE ReqOK(request[j])'
  <2>0. PICK x : x = request[j]
    OBVIOUS
  <2>1. PICK late \in BOOLEAN : late <=> j \in S
    OBVIOUS
  <2>2. request'[j] = Late(x, late)
    BY <1>1, <2>0, <2>1 DEF Late
  <2>3. Leaves(x, late) /\ ReqOK(x)
    BY <2>0, <2>1 DEF RequestsOK, Leaves
  <2> QED BY <2>2, <2>3, Rely, OKIsOfValue
<1>3. EnrolsApart'
  BY <1>1, LateEnrols DEF RequestsOK, EnrolsApart
<1>4. request' = [j \in Requests |-> request'[j]]
  BY DEF Overtake
<1> QED BY <1>2, <1>3, <1>4 DEF RequestsOK

LEMMA TablesStay ==
    ASSUME UNCHANGED <<student, schedule, discount, row>>
    PROVE  \A q, late : Leaves(q, late)
  BY DEF Leaves

LEMMA SameTablesSameOK ==
    ASSUME NEW q, ReqOK(q), UNCHANGED <<student, schedule, discount, row>>
    PROVE  ReqOK(q)'
  BY TablesStay, RelyUntouched

PricedInv == TablesInv /\ RequestsOK /\ UnpaidRowsPriced

LEMMA SameTables ==
    ASSUME PricedInv, UNCHANGED <<student, schedule, discount, row>>, drift \subseteq drift'
    PROVE  TablesInv' /\ UnpaidRowsPriced'
<1>1. TablesInv'
  BY DEF PricedInv, TablesInv
<1>2. UnpaidRowsPriced'
  BY DEF PricedInv, UnpaidRowsPriced, Unpaid, PricesOf, Recomputed
<1> QED BY <1>1, <1>2

\* A step of request k that touches no table.
LEMMA MoveKeepsPricedInv ==
    ASSUME PricedInv, NEW k \in Requests, NEW q, Moves(k, q), ReqOK(q),
           \/ q.enrols \in {{}, request[k].enrols}
           \/ \A j \in Requests \ {k} : q.enrols \cap request[j].enrols = {},
           UNCHANGED <<student, schedule, discount, row, drift>>
    PROVE  PricedInv'
<1>1. RequestsOK /\ TablesInv' /\ UnpaidRowsPriced'
  BY SameTables DEF PricedInv
<1>2. request' = [j \in Requests |-> request'[j]]
  BY <1>1 DEF Moves, RequestsOK
<1>3. \A j \in Requests \ {k} : q.enrols \cap request[j].enrols = {}
  BY <1>1 DEF RequestsOK, EnrolsApart
<1>4. RequestsOK'
  BY <1>1, <1>2, <1>3, MovesBecomes, RequestsKept, TablesStay, SameTablesSameOK
<1> QED BY <1>1, <1>4 DEF PricedInv

LEMMA IdleFields ==
    /\ Idle.pc = "idle" /\ DOMAIN Idle.who = {} /\ Idle.enrols = {} /\ Idle.upsert = {} /\ Idle.prices = NoOffers
    /\ Idle.overtaken = FALSE
  BY DEF Idle

LEMMA IdleIsOK == ReqOK(Idle)
  BY IdleFields DEF ReqOK, WhoOK, UpsertOK, PricesOK, PercentsOK, ConcessionOK, PricedOK, NoOffers

LEMMA DoneKeepsPricedInv ==
    ASSUME PricedInv, NEW k \in Requests, Done(k), UNCHANGED <<student, schedule, discount, row, drift>>
    PROVE  PricedInv'
  BY IdleIsOK, IdleFields, MoveKeepsPricedInv DEF Done

-----------------------------------------------------------------------------
(* The initial states and the new requests.                                *)

LEMMA NoStudentType == NoStudent \in StudentRecord /\ NoStudent.state = "none"
  BY LedgerAssumption DEF NoStudent, StudentRecord

LEMMA InitPricedInv == Init => PricedInv
<1> SUFFICES ASSUME Init PROVE PricedInv
  OBVIOUS
<1>1. [NoStudent EXCEPT !.state = "active", !.year = FirstYear, !.rides = TRUE] \in StudentRecord
  BY NoStudentType, LedgerAssumption DEF StudentRecord
<1>2. student \in [Students -> StudentRecord]
  BY <1>1, NoStudentType DEF Init
<1>3. \A r \in Rows : row[r] = NoRow
  BY DEF Init
<1>4. TablesInv
  <2>1. schedule \in [Offers -> Paise]
    BY LedgerAssumption DEF Init
  <2>2. discount \in [Students -> [Heads -> 0 .. 100]]
    BY DEF Init, NoDiscount
  <2>3. row = [r \in Rows |-> row[r]]
    BY DEF Init
  <2> QED BY <1>2, <1>3, <2>1, <2>2, <2>3 DEF TablesInv, NoRow
<1>5. \A k \in Requests : request[k] = Idle
  BY DEF Init
<1>6. RequestsOK
  <2>1. \A k \in Requests : ReqOK(request[k])
    BY <1>5, IdleIsOK
  <2>2. EnrolsApart
    BY <1>5, IdleFields DEF EnrolsApart
  <2>3. request = [k \in Requests |-> request[k]]
    BY DEF Init
  <2> QED BY <2>1, <2>2, <2>3 DEF RequestsOK
<1>7. UnpaidRowsPriced
  BY <1>3 DEF UnpaidRowsPriced, Unpaid, NoRow
<1> QED BY <1>4, <1>6, <1>7 DEF PricedInv

\* What is asked for row r does not change if its prices do not.
LEMMA PricesOfSame ==
    ASSUME NEW r \in Rows, row'[r].ay = row[r].ay,
           student'[r.student].class = student[r.student].class,
           discount'[r.student][r.head] = discount[r.student][r.head],
           \A x \in {"all", student[r.student].class} :
              schedule'[<<r.head, row[r].ay, x>>] = schedule[<<r.head, row[r].ay, x>>]
    PROVE  PricesOf(r)' = PricesOf(r)
<1> DEFINE class == student[r.student].class
           ay == row[r].ay
           percent == discount[r.student][r.head]
           Both(sch) ==
              UNION {{MonthlyAmount(sch[<<r.head, ay, x>>], r.head, r.period.month, percent),
                      Recomputed(r, sch[<<r.head, ay, x>>], percent)} :
                        x \in {y \in {"all", class} : sch[<<r.head, ay, y>>] > 0}}
<1>1. PricesOf(r) = Both(schedule)
  BY DEF PricesOf
<1>2. PricesOf(r)' = Both(schedule')
  BY DEF PricesOf
<1> QED BY <1>1, <1>2

LEMMA RowFields ==
    ASSUME NEW r \in Rows
    PROVE  r.student \in Students /\ r.head \in Heads
  BY DEF Rows, Heads

\* Registering a student overtakes who has read the student's row.
LEMMA RegistersKeeps ==
    ASSUME PricedInv, NEW k, NEW s \in Students, NEW c \in Classes, NEW ay \in Years, NEW rides \in BOOLEAN,
           Registers(k, s, c, ay, rides), UNCHANGED <<schedule, discount, row>>
    PROVE  /\ TablesInv' /\ UnpaidRowsPriced'
           /\ \A j \in Requests : Leaves(request[j], s \in DOMAIN request[j].who)
           /\ student'[s] = [state |-> "active", class |-> c, year |-> ay, rides |-> rides]
           /\ student'[s] \in StudentRecord
<1> DEFINE new == [state |-> "active", class |-> c, year |-> ay, rides |-> rides]
<1>1. new \in StudentRecord /\ new.state = "active"
  BY DEF StudentRecord
<1>2. student' \in [Students -> StudentRecord] /\ student'[s] = new
  BY <1>1 DEF Registers, PricedInv, TablesInv
<1>3. \A x \in Students : x # s => student'[x] = student[x]
  BY DEF Registers, PricedInv, TablesInv
<1>4. \A x \in Students : student[x].state # "none" => student'[x].state # "none"
  BY <1>1, <1>2, <1>3
<1>5. TablesInv'
  BY <1>2, <1>4, RowFields DEF PricedInv, TablesInv
<1>6. UnpaidRowsPriced'
  <2> SUFFICES ASSUME NEW r \in Rows, Unpaid(r)', r.head \notin Grouped, r \notin drift'
               PROVE  row'[r].amount \in PricesOf(r)'
    BY DEF UnpaidRowsPriced
  <2>1. Unpaid(r) /\ r \notin drift
    BY DEF Unpaid, Registers
  <2>2. student'[r.student].class = student[r.student].class
    <3>1. CASE r.student # s
      BY <3>1, <1>3, RowFields
    <3>2. CASE r.student = s
      BY <3>2, <1>2, <2>1 DEF Registers
    <3> QED BY <3>1, <3>2
  <2>3. PricesOf(r)' = PricesOf(r)
    BY <2>2, PricesOfSame
  <2> QED BY <2>1, <2>3 DEF PricedInv, UnpaidRowsPriced
<1>7. ASSUME NEW j \in Requests PROVE Leaves(request[j], s \in DOMAIN request[j].who)
  <2>1. s \notin request[j].enrols
    BY DEF Registers
  <2>2. DOMAIN request[j].who \subseteq Students
    BY DEF PricedInv, RequestsOK, ReqOK, WhoOK
  <2> QED BY <1>3, <1>4, <2>1, <2>2 DEF Leaves
<1> QED BY <1>1, <1>2, <1>5, <1>6, <1>7

LEMMA FreshRequest ==
    ASSUME NEW q, q.pc \in {"students", "schedules"}, q.prices = Idle.prices,
           WhoOK(q), UpsertOK(q)
    PROVE  ReqOK(q)
  BY IdleFields DEF ReqOK, PricesOK, PercentsOK, ConcessionOK, PricedOK, NoOffers

LEMMA AsksKeepPriced ==
    ASSUME PricedInv, NEW k \in Requests, Asks(k)
    PROVE  PricedInv'
<1>1. ASSUME NEW ay \in Years, NEW annual \in BOOLEAN, AskGenerate(k, ay, annual) PROVE PricedInv'
  <2> DEFINE q == [Idle EXCEPT !.pc = "students", !.ay = ay, !.annual = annual]
  <2>1. /\ q.pc = "students" /\ q.prices = Idle.prices /\ q.who = Idle.who /\ q.enrols = Idle.enrols
        /\ q.upsert = Idle.upsert
    BY DEF Idle
  <2>2. Moves(k, q) /\ UNCHANGED <<student, schedule, discount, row, drift>>
    BY <1>1 DEF AskGenerate
  <2> HIDE DEF q
  <2>3. WhoOK(q) /\ UpsertOK(q)
    BY <2>1, IdleFields DEF WhoOK, UpsertOK
  <2>4. ReqOK(q)
    BY <2>1, <2>3, FreshRequest
  <2> QED BY <2>1, <2>2, <2>4, IdleFields, MoveKeepsPricedInv
<1>2. ASSUME NEW s \in Students, NEW a \in Arrivals, Enrol(k, s, a[1], a[2]) PROVE PricedInv'
  <2> DEFINE new == [state |-> "active", class |-> a[1], year |-> a[2], rides |-> FALSE]
             q == [Idle EXCEPT !.pc = "students", !.ay = a[2], !.annual = TRUE, !.charges = groupOn,
                     !.who = [x \in {s} |-> new], !.enrols = {s}]
  <2>1. /\ q.pc = "students" /\ q.prices = Idle.prices /\ q.who = [x \in {s} |-> new] /\ q.enrols = {s}
        /\ q.upsert = Idle.upsert
    BY DEF Idle
  <2>2. Moves(k, q) /\ UNCHANGED <<student, schedule, discount, row, drift>>
    BY <1>2 DEF Enrol
  <2>3. student[s] = NoStudent /\ \A j \in Requests : s \notin request[j].enrols
    BY <1>2 DEF Enrol
  <2>4. new \in StudentRecord /\ new.state # "none"
    BY LedgerAssumption DEF StudentRecord
  <2> HIDE DEF q, new
  <2>5. WhoOK(q) /\ UpsertOK(q)
    BY <2>1, <2>3, <2>4, IdleFields DEF WhoOK, UpsertOK
  <2>6. ReqOK(q)
    BY <2>1, <2>5, FreshRequest
  <2> QED BY <2>1, <2>2, <2>3, <2>6, MoveKeepsPricedInv
<1>3. ASSUME NEW s \in Students, NEW a \in Arrivals, CreateStudent(k, s, a[1], a[2], a[3]) PROVE PricedInv'
  <2>0. a[1] \in Classes /\ a[2] \in Years /\ a[3] \in BOOLEAN
    BY LedgerAssumption
  <2>1. PICK new : new = student'[s]
    OBVIOUS
  <2> DEFINE z == [Idle EXCEPT !.pc = "schedules", !.ay = a[2], !.annual = TRUE, !.who = [x \in {s} |-> new]]
  <2>a. PICK q : q = z
    OBVIOUS
  <2>2. /\ q.pc = "schedules" /\ q.prices = Idle.prices /\ q.who = [x \in {s} |-> new] /\ q.enrols = {}
        /\ q.upsert = Idle.upsert /\ q.overtaken = FALSE
    BY <2>a DEF Idle
  <2>3. Moves(k, q)
    BY <1>3, <2>1, <2>a DEF CreateStudent
  <2>4. /\ student[s] = NoStudent /\ Registers(k, s, a[1], a[2], a[3]) /\ UNCHANGED <<schedule, discount, row>>
        /\ \A j \in Requests : s \notin request[j].enrols
    BY <1>3 DEF CreateStudent, Registers
  <2>5. /\ TablesInv' /\ UnpaidRowsPriced'
        /\ \A j \in Requests : Leaves(request[j], s \in DOMAIN request[j].who)
        /\ new = [state |-> "active", class |-> a[1], year |-> a[2], rides |-> a[3]]
        /\ new \in StudentRecord
    BY <2>0, <2>1, <2>4, RegistersKeeps
  <2> HIDE DEF z
  <2>6. \A j \in Requests : s \notin DOMAIN request[j].who
    BY <2>4, NoStudentType DEF PricedInv, RequestsOK, ReqOK, WhoOK
  <2>7. \A j \in Requests : Leaves(request[j], j \in {})
    BY <2>5, <2>6 DEF Leaves
  <2>b. DOMAIN q.who = {s} /\ q.who[s] = new
    BY <2>2
  <2>c. new.state = "active"
    BY <2>5
  <2>8. WhoOK(q)'
    BY <2>1, <2>2, <2>5, <2>b, <2>c DEF WhoOK
  <2>9. ReqOK(q)'
    BY <2>2, <2>8, IdleFields DEF ReqOK, UpsertOK, PricesOK, PercentsOK, ConcessionOK, PricedOK, NoOffers
  <2>10. RequestsOK
    BY DEF PricedInv
  <2>11. request' = [j \in Requests |-> request'[j]]
    BY <2>3, <2>10 DEF Moves, RequestsOK
  <2>12. RequestsOK'
    BY <2>2, <2>3, <2>7, <2>9, <2>10, <2>11, MovesBecomes, RequestsKept
  <2> QED BY <2>5, <2>12 DEF PricedInv
<1>4. ASSUME NEW s \in Students, NEW a \in Arrivals, ImportStudents(k, s, a[1], a[2], a[3]) PROVE PricedInv'
  <2>0. a[1] \in Classes /\ a[2] \in Years /\ a[3] \in BOOLEAN
    BY LedgerAssumption
  <2> DEFINE z == [Idle EXCEPT !.pc = "students", !.ay = a[2], !.annual = TRUE]
  <2>a. PICK q : q = z
    OBVIOUS
  <2>1. /\ q.pc = "students" /\ q.prices = Idle.prices /\ q.who = Idle.who /\ q.enrols = {}
        /\ q.upsert = Idle.upsert
    BY <2>a DEF Idle
  <2>2. request' = [Overtake(request, ReadStudent(s)) EXCEPT ![k] = q]
    BY <1>4, <2>a DEF ImportStudents
  <2>3. Registers(k, s, a[1], a[2], a[3]) /\ UNCHANGED <<schedule, discount, row>>
    BY <1>4 DEF ImportStudents
  <2>4. /\ TablesInv' /\ UnpaidRowsPriced'
        /\ \A j \in Requests : Leaves(request[j], s \in DOMAIN request[j].who)
    BY <2>0, <2>3, RegistersKeeps
  <2> HIDE DEF z
  <2>5. \A j \in Requests : Leaves(request[j], j \in ReadStudent(s))
    BY <2>4 DEF ReadStudent, Leaves
  <2>6. ReqOK(q)'
    BY <2>1, IdleFields DEF ReqOK, WhoOK, UpsertOK, PricesOK, PercentsOK, ConcessionOK, PricedOK, NoOffers
  <2>7. RequestsOK
    BY DEF PricedInv
  <2>8. request' = [j \in Requests |-> request'[j]]
    BY <2>2 DEF Overtake
  <2>9. RequestsOK'
    BY <2>1, <2>2, <2>5, <2>6, <2>7, <2>8, OvertakeBecomes, RequestsKept
  <2> QED BY <2>4, <2>9 DEF PricedInv
<1>5. ASSUME NEW u \in NewPrices, ImportStructure(k, u[1], u[2]) PROVE PricedInv'
  <2> DEFINE q == [Idle EXCEPT !.pc = "students", !.ay = u[1][2], !.annual = TRUE, !.upsert = {<<u[1], u[2]>>}]
  <2>1. /\ q.pc = "students" /\ q.prices = Idle.prices /\ q.who = Idle.who /\ q.enrols = Idle.enrols
        /\ q.upsert = {<<u[1], u[2]>>}
    BY DEF Idle
  <2>2. Moves(k, q) /\ UNCHANGED <<student, schedule, discount, row, drift>>
    BY <1>5 DEF ImportStructure
  <2>3. u[1] \in Offers /\ u[2] \in Paise
    BY LedgerAssumption
  <2> HIDE DEF q
  <2>4. WhoOK(q) /\ UpsertOK(q)
    BY <2>1, <2>3, IdleFields DEF WhoOK, UpsertOK
  <2>5. ReqOK(q)
    BY <2>1, <2>4, FreshRequest
  <2> QED BY <2>1, <2>2, <2>5, IdleFields, MoveKeepsPricedInv
<1>6. ASSUME NEW s \in Students, NEW items \in Concessions, SetDiscounts(k, s, items) PROVE PricedInv'
  <2> DEFINE q == [Idle EXCEPT !.pc = "replace", !.who = [x \in {s} |-> student[s]], !.items = items]
  <2>1. /\ q.pc = "replace" /\ q.prices = Idle.prices /\ q.who = [x \in {s} |-> student[s]] /\ q.enrols = {}
        /\ q.upsert = {} /\ q.items = items
    BY DEF Idle
  <2>2. Moves(k, q) /\ UNCHANGED <<student, schedule, discount, row, drift>>
    BY <1>6 DEF SetDiscounts
  <2>3. student[s] \in StudentRecord /\ student[s].state # "none"
    BY <1>6 DEF SetDiscounts, PricedInv, TablesInv
  <2>4. items \in [Heads -> 0 .. 100]
    BY LedgerAssumption
  <2> HIDE DEF q
  <2>5. ReqOK(q)
    BY <2>1, <2>3, <2>4, IdleFields
       DEF ReqOK, WhoOK, UpsertOK, PricesOK, PercentsOK, ConcessionOK, PricedOK, NoOffers
  <2>6. q.enrols \in {{}, request[k].enrols}
    BY <2>1
  <2> QED BY <2>2, <2>5, <2>6, MoveKeepsPricedInv
<1> QED BY <1>1, <1>2, <1>3, <1>4, <1>5, <1>6 DEF Asks

-----------------------------------------------------------------------------
(* The steps of a request.                                                 *)

LEMMA ReadStudentsKeeps ==
    ASSUME PricedInv, NEW k \in Requests, ReadStudents(k)
    PROVE  PricedInv'
<1> DEFINE q == request[k]
           found == {s \in Students : student[s].state = "active" /\ student[s].year = q.ay}
           who == [s \in found \cup q.enrols |-> IF s \in found THEN student[s] ELSE q.who[s]]
           billed == [q EXCEPT !.pc = "schedules", !.who = who]
           nobody == [q EXCEPT !.pc = "insert"]
<1>1. /\ q.pc = "students"
      /\ \/ Moves(k, billed)
         \/ Moves(k, Idle)
         \/ DOMAIN who = {} /\ Moves(k, nobody)
  <2> HIDE DEF who
  <2>1. /\ q.pc = "students"
        /\ Moves(k, CASE DOMAIN who # {} -> billed
                      [] DOMAIN who = {} /\ q.upsert = {} -> Idle
                      [] DOMAIN who = {} /\ q.upsert # {} -> nobody)
    BY Zenon DEF ReadStudents, who
  <2> HIDE DEF billed, nobody
  <2> QED BY <2>1
<1>2. ReqOK(q) /\ UNCHANGED <<student, schedule, discount, row, drift>>
  BY DEF ReadStudents, PricedInv, RequestsOK
<1>3. /\ billed.pc = "schedules" /\ billed.who = who /\ billed.enrols = q.enrols /\ billed.upsert = q.upsert
      /\ billed.prices = q.prices /\ billed.overtaken = q.overtaken
  <2> HIDE DEF who
  <2> QED OBVIOUS
<1>4. /\ nobody.pc = "insert" /\ nobody.who = q.who /\ nobody.enrols = q.enrols /\ nobody.upsert = q.upsert
      /\ nobody.prices = q.prices /\ nobody.overtaken = q.overtaken
  OBVIOUS
<1>5. \A o \in Offers : q.prices[o] # 0 => q.overtaken
  BY <1>1, <1>2 DEF ReqOK, PricesOK
<1>6. ReqOK(billed)
  <2>1. DOMAIN who = found \cup q.enrols /\ q.enrols \subseteq DOMAIN q.who
    BY <1>2 DEF ReqOK, WhoOK
  <2>2. ASSUME NEW s \in DOMAIN who
        PROVE  /\ s \in Students /\ who[s] \in StudentRecord /\ who[s].state # "none"
               /\ s \in q.enrols => student[s] = NoStudent
               /\ s \notin q.enrols => student[s].state # "none"
               /\ s \notin q.enrols => who[s].class = student[s].class
    <3>1. CASE s \in found
      <4>1. who[s] = student[s] /\ s \in Students /\ student[s].state = "active"
        BY <3>1
      <4>2. s \notin q.enrols
        BY <1>2, <4>1, NoStudentType DEF ReqOK, WhoOK
      <4> QED BY <4>1, <4>2 DEF PricedInv, TablesInv
    <3>2. CASE s \notin found
      <4>1. s \in q.enrols /\ who[s] = q.who[s]
        BY <3>2
      <4> QED BY <4>1, <1>2 DEF ReqOK, WhoOK
    <3> QED BY <3>1, <3>2
  <2> HIDE DEF billed, found, who
  <2>3. WhoOK(billed)
    BY <1>3, <2>1, <2>2 DEF WhoOK
  <2> QED BY <1>2, <1>3, <1>5, <2>3 DEF ReqOK, UpsertOK, PricesOK, PercentsOK, ConcessionOK, PricedOK
<1>7. ASSUME DOMAIN who = {} PROVE ReqOK(nobody)
  <2>1. DOMAIN q.who = {}
    BY <1>1, <1>2, <1>7 DEF ReqOK, WhoOK
  <2> HIDE DEF nobody
  <2> QED BY <1>2, <1>4, <1>5, <2>1 DEF ReqOK, WhoOK, UpsertOK, PricesOK, PercentsOK, ConcessionOK, PricedOK
<1> HIDE DEF billed, nobody, who
<1> QED BY <1>1, <1>2, <1>3, <1>4, <1>6, <1>7, IdleIsOK, IdleFields, MoveKeepsPricedInv

LEMMA ReadSchedulesKeeps ==
    ASSUME PricedInv, NEW k \in Requests, ReadSchedules(k)
    PROVE  PricedInv'
<1> DEFINE q == request[k]
           seen(o) == Generated(o[1]) \/ (o[1] \notin Grouped /\ \E u \in q.upsert : u[1][1] = o[1])
           prices == [o \in Offers |-> IF o[2] = q.ay /\ seen(o) THEN Imported(q, schedule)[o] ELSE 0]
           next == [q EXCEPT !.pc = "discounts", !.prices = prices]
<1>1. q.pc = "schedules" /\ Moves(k, next) /\ UNCHANGED <<student, schedule, discount, row, drift>>
  BY DEF ReadSchedules
<1>2. ReqOK(q)
  BY DEF PricedInv, RequestsOK
<1>3. /\ next.pc = "discounts" /\ next.who = q.who /\ next.enrols = q.enrols /\ next.upsert = q.upsert
      /\ next.prices = prices /\ next.overtaken = q.overtaken /\ next.ay = q.ay
  <2> HIDE DEF prices
  <2> QED OBVIOUS
<1>4. \A o \in Offers : prices[o] # 0 => o[2] = q.ay /\ prices[o] = Imported(q, schedule)[o]
  OBVIOUS
<1> HIDE DEF next, prices
<1>5. Imported(next, schedule) = Imported(q, schedule)
  BY <1>3 DEF Imported
<1>6. ReqOK(next)
  BY <1>1, <1>2, <1>3, <1>4, <1>5
     DEF ReqOK, WhoOK, UpsertOK, PricesOK, PercentsOK, ConcessionOK, PricedOK
<1> QED BY <1>1, <1>3, <1>6, MoveKeepsPricedInv

LEMMA ReadDiscountsKeeps ==
    ASSUME PricedInv, NEW k \in Requests, ReadDiscounts(k)
    PROVE  PricedInv'
<1> DEFINE q == request[k]
           next == [q EXCEPT !.pc = "insert", !.percents = discount]
<1>1. q.pc = "discounts" /\ Moves(k, next) /\ UNCHANGED <<student, schedule, discount, row, drift>>
  BY DEF ReadDiscounts
<1>2. ReqOK(q)
  BY DEF PricedInv, RequestsOK
<1>3. /\ next.pc = "insert" /\ next.who = q.who /\ next.enrols = q.enrols /\ next.upsert = q.upsert
      /\ next.prices = q.prices /\ next.overtaken = q.overtaken /\ next.ay = q.ay /\ next.percents = discount
  OBVIOUS
<1> HIDE DEF next
<1>5. Imported(next, schedule) = Imported(q, schedule)
  BY <1>3 DEF Imported
<1>6. ReqOK(next)
  BY <1>1, <1>2, <1>3, <1>5
     DEF ReqOK, WhoOK, UpsertOK, PricesOK, PercentsOK, ConcessionOK, PricedOK
<1> QED BY <1>1, <1>3, <1>6, MoveKeepsPricedInv

LEMMA ReplaceDiscountsKeeps ==
    ASSUME PricedInv, NEW k \in Requests, ReplaceDiscounts(k)
    PROVE  PricedInv'
<1> DEFINE q == request[k]
           s == Subject(q)
           old == IF q.pc = "waits" THEN {} ELSE Given(discount[s])
           waiting == [q EXCEPT !.pc = "waits"]
           replaced == [q EXCEPT !.pc = "price", !.deleted = old]
<1>1. /\ q.pc \in {"replace", "waits"} /\ (Moves(k, waiting) \/ Moves(k, Idle) \/ Moves(k, replaced))
      /\ UNCHANGED <<student, schedule, discount, row, drift>>
  BY DEF ReplaceDiscounts, Done
<1>2. ReqOK(q)
  BY DEF PricedInv, RequestsOK
<1>3. ASSUME NEW z \in {waiting, replaced}
      PROVE  /\ z.pc \in {"waits", "price"} /\ z.who = q.who /\ z.enrols = q.enrols /\ z.upsert = q.upsert
             /\ z.prices = q.prices /\ z.overtaken = q.overtaken /\ z.items = q.items
  <2> HIDE DEF old
  <2>1. CASE z = waiting
    BY <2>1
  <2>2. CASE z = replaced
    BY <2>2
  <2> QED BY <2>1, <2>2
<1> HIDE DEF waiting, replaced
<1>4. ASSUME NEW z \in {waiting, replaced} PROVE ReqOK(z)
  <2> HIDE DEF q
  <2> QED BY <1>1, <1>2, <1>3
          DEF ReqOK, WhoOK, UpsertOK, PricesOK, PercentsOK, ConcessionOK, PricedOK
<1> QED BY <1>1, <1>3, <1>4, IdleIsOK, IdleFields, MoveKeepsPricedInv

LEMMA PriceRowsKeeps ==
    ASSUME PricedInv, NEW k \in Requests, PriceRows(k)
    PROVE  PricedInv'
<1> DEFINE q == request[k]
           s == Subject(q)
           offer(r) == Offer(r.head, row[r].ay, q.who[s].class)
           found == {r \in Rows : r.student = s /\ Unpaid(r) /\ offer(r) > 0}
           priced == [r \in found |-> Recomputed(r, offer(r), Discounts(q)[r.head])]
           next == [q EXCEPT !.pc = "priced", !.rows = priced]
<1>1. q.pc = "price" /\ Moves(k, next) /\ UNCHANGED <<student, schedule, discount, row, drift>>
  BY DEF PriceRows
<1>2. ReqOK(q)
  BY DEF PricedInv, RequestsOK
<1>3. /\ next.pc = "priced" /\ next.who = q.who /\ next.enrols = q.enrols /\ next.upsert = q.upsert
      /\ next.prices = q.prices /\ next.overtaken = q.overtaken /\ next.items = q.items
      /\ next.deleted = q.deleted /\ next.rows = priced
  <2> HIDE DEF priced
  <2> QED OBVIOUS
<1>4. ASSUME NEW r \in DOMAIN priced
      PROVE  /\ r \in Rows /\ r.student = s /\ row[r].status # "none"
             /\ offer(r) > 0 /\ priced[r] = Recomputed(r, offer(r), Discounts(q)[r.head])
  BY DEF Unpaid
<1> HIDE DEF next, priced, found
<1>5. Subject(next) = s /\ Discounts(next) = Discounts(q)
  BY <1>3 DEF Subject, Discounts
<1>6. PricedOK(next)
  BY <1>3, <1>4, <1>5 DEF PricedOK
<1>7. ReqOK(next)
  BY <1>1, <1>2, <1>3, <1>6 DEF ReqOK, WhoOK, UpsertOK, PricesOK, PercentsOK, ConcessionOK
<1> QED BY <1>1, <1>3, <1>7, MoveKeepsPricedInv

LEMMA DiscountsType ==
    ASSUME TablesInv, NEW q, ConcessionOK(q), q.pc = "priced"
    PROVE  Discounts(q) \in [Heads -> 0 .. 100]
<1>1. Subject(q) \in Students /\ q.items \in [Heads -> 0 .. 100]
  BY SubjectOfConcession DEF ConcessionOK
<1>2. discount[Subject(q)] \in [Heads -> 0 .. 100]
  BY <1>1 DEF TablesInv
<1> QED BY <1>1, <1>2 DEF Discounts

\* The rows a concession prices ask the price of what it leaves; the rows of
\* the student that it does not reach, and whose discount it changes, drift.
LEMMA CommitDiscountsKeeps ==
    ASSUME PricedInv, NEW k \in Requests, CommitDiscounts(k)
    PROVE  PricedInv'
<1> DEFINE q == request[k]
           s == Subject(q)
           mine == {r \in DOMAIN q.rows : Unpaid(r)}
           missed == {r \in Rows : r.student = s /\ Unpaid(r) /\ Discounts(q)[r.head] # discount[s][r.head]} \ mine
<1>1. /\ q.pc = "priced"
      /\ row' = [r \in Rows |-> IF r \in mine THEN [row[r] EXCEPT !.amount = q.rows[r]] ELSE row[r]]
      /\ discount' = [discount EXCEPT ![s] = Discounts(q)]
      /\ drift' = IF q.overtaken THEN drift \cup mine \cup missed ELSE (drift \ mine) \cup missed
      /\ request' = [Overtake(request, ReadDiscount(s)) EXCEPT ![k] = Idle]
      /\ UNCHANGED <<student, schedule>>
  BY DEF CommitDiscounts
<1>2. ReqOK(q) /\ TablesInv /\ RequestsOK /\ UnpaidRowsPriced
  BY DEF PricedInv, RequestsOK
<1>3. s \in Students /\ DOMAIN q.who = {s} /\ q.enrols = {}
  BY <1>1, <1>2, SubjectOfConcession DEF ReqOK, ConcessionOK
<1>4. Discounts(q) \in [Heads -> 0 .. 100]
  BY <1>1, <1>2, DiscountsType DEF ReqOK
<1>5. ASSUME NEW r \in mine
      PROVE  /\ r \in Rows /\ r.student = s /\ Unpaid(r)
             /\ ~q.overtaken =>
                  LET offer == Offer(r.head, row[r].ay, q.who[s].class)
                  IN offer > 0 /\ q.rows[r] = Recomputed(r, offer, Discounts(q)[r.head])
  BY <1>1, <1>2 DEF ReqOK, PricedOK
<1>6. ASSUME NEW r \in Rows
      PROVE  /\ row'[r] = [status |-> row'[r].status, amount |-> row'[r].amount, ay |-> row'[r].ay]
             /\ row'[r].status = row[r].status /\ row'[r].ay = row[r].ay
             /\ row'[r].amount = IF r \in mine THEN q.rows[r] ELSE row[r].amount
  <2>1. row[r] = [status |-> row[r].status, amount |-> row[r].amount, ay |-> row[r].ay]
    BY <1>2 DEF TablesInv
  <2>2. CASE r \in mine
    <3>1. row'[r] = [row[r] EXCEPT !.amount = q.rows[r]]
      BY <1>1, <2>2
    <3>2. row'[r] = [status |-> row[r].status, amount |-> q.rows[r], ay |-> row[r].ay]
      BY <2>1, <3>1
    <3> HIDE DEF mine
    <3> QED BY <2>2, <3>2
  <2>3. CASE r \notin mine
    <3>1. row'[r] = row[r]
      BY <1>1, <2>3
    <3> HIDE DEF mine
    <3> QED BY <2>1, <2>3, <3>1
  <2> QED BY <2>2, <2>3
<1>7. discount' \in [Students -> [Heads -> 0 .. 100]]
  BY <1>1, <1>2, <1>4 DEF TablesInv
<1>8. /\ discount'[s] = Discounts(q)
      /\ \A x \in Students : x # s => discount'[x] = discount[x]
  BY <1>1, <1>2, <1>3 DEF TablesInv
<1>9. TablesInv'
  <2>1. row' = [r \in Rows |-> row'[r]]
    BY <1>1
  <2> HIDE DEF mine, missed, q, s
  <2> QED BY <1>1, <1>2, <1>6, <1>7, <2>1 DEF TablesInv
<1>10. UnpaidRowsPriced'
  <2> SUFFICES ASSUME NEW r \in Rows, Unpaid(r)', r.head \notin Grouped, r \notin drift'
               PROVE  row'[r].amount \in PricesOf(r)'
    BY DEF UnpaidRowsPriced
  <2>1. Unpaid(r) /\ r.student \in Students /\ r.head \in Heads
    BY <1>6, RowFields DEF Unpaid
  <2>2. CASE r \in mine
    <3>1. ~q.overtaken
      BY <1>1, <2>2
    <3>2. r.student = s /\ q.who[s].class = student[s].class
      BY <1>2, <1>3, <1>5, <2>2, <3>1 DEF ReqOK, WhoOK
    <3> DEFINE class == student[s].class
               ay == row[r].ay
               offer == Offer(r.head, ay, class)
               percent == Discounts(q)[r.head]
    <3>3. offer > 0 /\ row'[r].amount = Recomputed(r, offer, percent)
      BY <1>5, <1>6, <2>2, <3>1, <3>2
    <3>4. PICK scope \in {"all", class} : offer = schedule[<<r.head, ay, scope>>]
      BY DEF Offer
    <3>5. /\ student'[r.student].class = class /\ row'[r].ay = ay
          /\ discount'[r.student][r.head] = percent
      BY <1>1, <1>6, <1>8, <3>2
    <3>6. /\ scope \in {x \in {"all", class} : schedule'[<<r.head, ay, x>>] > 0}
          /\ row'[r].amount = Recomputed(r, schedule'[<<r.head, ay, scope>>], percent)
      BY <1>1, <3>3, <3>4
    <3> HIDE DEF class, ay, offer, percent, q, s, mine, missed
    <3> QED BY <3>5, <3>6 DEF PricesOf
  <2>3. CASE r \notin mine
    <3>1. r \notin missed /\ r \notin drift
      BY <1>1, <2>3
    <3>2. discount'[r.student][r.head] = discount[r.student][r.head]
      <4>1. CASE r.student = s
        BY <1>8, <2>1, <2>3, <3>1, <4>1
      <4>2. CASE r.student # s
        BY <1>8, <2>1, <4>2
      <4> QED BY <4>1, <4>2
    <3>3. PricesOf(r)' = PricesOf(r)
      BY <1>1, <1>6, <3>2, PricesOfSame
    <3>4. row'[r].amount = row[r].amount
      BY <1>6, <2>3
    <3> QED BY <1>2, <2>1, <3>1, <3>3, <3>4 DEF UnpaidRowsPriced
  <2> QED BY <2>2, <2>3
<1>11. ASSUME NEW j \in Requests PROVE Leaves(request[j], j \in ReadDiscount(s))
  <2>1. DOMAIN request[j].who \subseteq Students
    BY <1>2 DEF RequestsOK, ReqOK, WhoOK
  <2>2. j \notin ReadDiscount(s) /\ request[j].pc \in {"insert", "priced"} => s \notin DOMAIN request[j].who
    BY DEF ReadDiscount, ReadStudent
  <2> HIDE DEF s, q, mine, missed
  <2> QED BY <1>1, <1>6, <1>8, <2>1, <2>2 DEF Leaves
<1>12. ReqOK(Idle)'
  BY IdleFields DEF ReqOK, WhoOK, UpsertOK, PricesOK, PercentsOK, ConcessionOK, PricedOK, NoOffers
<1>13. RequestsOK'
  <2>1. request' = [j \in Requests |-> request'[j]]
    BY <1>1 DEF Overtake
  <2> HIDE DEF s, q, mine, missed
  <2>2. Becomes(k, Idle, ReadDiscount(s))
    BY <1>1, <1>2, OvertakeBecomes
  <2> QED BY <1>2, <1>11, <1>12, <2>1, <2>2, IdleFields, RequestsKept
<1> QED BY <1>9, <1>10, <1>13 DEF PricedInv

\* What a generation makes of a row is a price of a schedule it has read.
LEMMA EntryIsPrice ==
    ASSUME NEW q, NEW r \in Rows, NEW scope, Entry(q, r, scope) # NotBilled
    PROVE  /\ scope \in {"all", q.who[r.student].class}
           /\ q.prices[<<r.head, q.ay, scope>>] # 0
           /\ Entry(q, r, scope) = MonthlyAmount(q.prices[<<r.head, q.ay, scope>>], r.head, r.period.month,
                                                 q.percents[r.student][r.head])
<1> DEFINE who == q.who[r.student]
           amount == q.prices[<<r.head, q.ay, scope>>]
           percent == q.percents[r.student][r.head]
           bills == scope \in {"all", who.class} /\ amount # 0 /\ (r.head \in RidersOnly => who.rides)
           monthly == bills /\ r.head \in Monthly
                        /\ r.period \in {[month |-> p[1], year |-> p[2]] : p \in {Pairs[q.ay][i] : i \in DOMAIN Pairs[q.ay]}}
           annual == bills /\ r.head \in Annual /\ q.annual /\ r.period.year = Pairs[q.ay][1][2]
<1>1. Entry(q, r, scope) = CASE monthly -> MonthlyAmount(amount, r.head, r.period.month, percent)
                             [] annual -> Discounted(amount, percent)
                             [] OTHER -> NotBilled
  BY Zenon DEF Entry
<1>2. r.head \in Annual => ~Reduced(r.head, r.period.month)
  BY LedgerAssumption DEF Reduced
<1>3. r.head \in Annual => Discounted(amount, percent) = MonthlyAmount(amount, r.head, r.period.month, percent)
  BY <1>2 DEF MonthlyAmount
<1>4. monthly => bills /\ r.head \in Monthly
  OBVIOUS
<1>5. annual => bills /\ r.head \in Annual
  OBVIOUS
<1>6. bills => scope \in {"all", who.class} /\ amount # 0
  OBVIOUS
<1> HIDE DEF bills, monthly, annual, amount, percent, who
<1>7. bills /\ Entry(q, r, scope) = MonthlyAmount(amount, r.head, r.period.month, percent)
  BY <1>1, <1>3, <1>4, <1>5
<1> QED BY <1>6, <1>7 DEF amount, percent, who

LEMMA InsertedIsPriced ==
    ASSUME PricedInv, NEW k \in Requests, request[k].pc = "insert", ~request[k].overtaken, request[k].ay \in Years,
           NEW first, NEW r \in DOMAIN Inserted(request[k], first)
    PROVE  LET q == request[k]
               class == q.who[r.student].class
               sch == Imported(q, schedule)
           IN \E scope \in {"all", class} :
                 /\ sch[<<r.head, q.ay, scope>>] # 0
                 /\ Inserted(q, first)[r].amount =
                       MonthlyAmount(sch[<<r.head, q.ay, scope>>], r.head, r.period.month, discount[r.student][r.head])
<1> DEFINE q == request[k]
           class == q.who[r.student].class
           sch == Imported(q, schedule)
           all == Entry(q, r, "all")
           own == Entry(q, r, class)
<1>1. /\ r \in Rows /\ r.student \in DOMAIN q.who
      /\ \E scope \in Scopes : Entry(q, r, scope) # NotBilled
      /\ Inserted(q, first)[r].amount = IF own = NotBilled \/ (first = "all" /\ all # NotBilled) THEN all ELSE own
  BY DEF Inserted
<1>2. own # NotBilled \/ all # NotBilled
  <2>1. PICK scope \in Scopes : Entry(q, r, scope) # NotBilled
    BY <1>1
  <2>2. scope \in {"all", class}
    BY <1>1, <2>1, EntryIsPrice
  <2> HIDE DEF q
  <2> QED BY <2>1, <2>2
<1>3. PICK scope \in {"all", class} :
         Entry(q, r, scope) # NotBilled /\ Inserted(q, first)[r].amount = Entry(q, r, scope)
  <2> HIDE DEF q
  <2> QED BY <1>1, <1>2
<1>4. ReqOK(q)
  BY DEF PricedInv, RequestsOK
<1>5. <<r.head, q.ay, scope>> \in Offers
  <2>1. class \in Classes
    BY <1>1, <1>4 DEF ReqOK, WhoOK, StudentRecord
  <2> QED BY <1>1, <2>1, RowFields DEF Offers, Scopes
<1>6. /\ q.prices[<<r.head, q.ay, scope>>] # 0
      /\ Entry(q, r, scope) = MonthlyAmount(q.prices[<<r.head, q.ay, scope>>], r.head, r.period.month,
                                            q.percents[r.student][r.head])
  BY <1>1, <1>3, EntryIsPrice
<1>7. q.prices[<<r.head, q.ay, scope>>] = sch[<<r.head, q.ay, scope>>]
  BY <1>4, <1>5, <1>6 DEF ReqOK, PricesOK
<1>8. q.percents[r.student] = discount[r.student]
  BY <1>1, <1>4 DEF ReqOK, PercentsOK
<1> HIDE DEF q, sch, class
<1>9. \E x \in {"all", class} :
         /\ sch[<<r.head, q.ay, x>>] # 0
         /\ Inserted(q, first)[r].amount = MonthlyAmount(sch[<<r.head, q.ay, x>>], r.head, r.period.month, discount[r.student][r.head])
  BY <1>3, <1>6, <1>7, <1>8
<1> QED BY <1>9 DEF q, sch, class

LEMMA ImportedType ==
    ASSUME NEW q, UpsertOK(q), schedule \in [Offers -> Paise]
    PROVE  /\ Imported(q, schedule) \in [Offers -> Paise]
           /\ q.upsert = {} => Imported(q, schedule) = schedule
           /\ \A o \in Offers : (\A u \in q.upsert : u[1] # o) => Imported(q, schedule)[o] = schedule[o]
<1>1. ASSUME NEW o \in Offers, \E u \in q.upsert : u[1] = o
      PROVE  (CHOOSE u \in q.upsert : u[1] = o)[2] \in Paise
  <2>1. PICK w : w = CHOOSE u \in q.upsert : u[1] = o
    OBVIOUS
  <2>2. w \in q.upsert
    BY <1>1, <2>1
  <2> QED BY <2>1, <2>2 DEF UpsertOK
<1>2. ASSUME NEW o \in Offers
      PROVE  /\ Imported(q, schedule)[o] \in Paise
             /\ (\A u \in q.upsert : u[1] # o) => Imported(q, schedule)[o] = schedule[o]
  BY <1>1 DEF Imported
<1>3. Imported(q, schedule) = [o \in Offers |-> Imported(q, schedule)[o]]
  BY DEF Imported
<1>4. Imported(q, schedule) \in [Offers -> Paise]
  BY <1>2, <1>3
<1>5. ASSUME q.upsert = {} PROVE Imported(q, schedule) = schedule
  BY <1>2, <1>4, <1>5
<1> QED BY <1>2, <1>4, <1>5

\* The rows a generation inserts ask a price of its year; the rows of a
\* schedule it imports drift, and whoever has read prices is overtaken.
LEMMA InsertRowsKeeps ==
    ASSUME PricedInv, IInv, NEW k \in Requests, NEW first, InsertRows(k, first)
    PROVE  PricedInv'
<1> DEFINE q == request[k]
           rows == Inserted(q, first)
           charged == Charged(q, rows)
           repriced == UNION {UnpaidUnder(u[1]) : u \in q.upsert}
           S == IF q.upsert = {} THEN {} ELSE ReadPrices
<1>1. /\ q.pc = "insert"
      /\ student' = [s \in Students |-> IF s \in q.enrols THEN q.who[s] ELSE student[s]]
      /\ schedule' = Imported(q, schedule)
      /\ request' = [Overtake(request, S) EXCEPT ![k] = Idle]
      /\ drift' = drift \cup repriced \cup (IF q.overtaken THEN DOMAIN rows ELSE {})
      /\ discount' = discount
  BY DEF InsertRows
<1>2. PICK amount : row' = [r \in Rows |-> IF r \in DOMAIN rows THEN rows[r]
                                           ELSE IF r \in charged THEN [status |-> "unpaid", amount |-> amount[r], ay |-> q.ay]
                                           ELSE row[r]]
  BY DEF InsertRows
<1>3. ReqOK(q) /\ TablesInv /\ RequestsOK /\ UnpaidRowsPriced /\ q.ay \in Years
  BY <1>1 DEF PricedInv, RequestsOK, IInv, RequestsInv
<1>4. ASSUME NEW r \in DOMAIN rows
      PROVE  /\ r \in Rows /\ row[r] = NoRow /\ r.student \in DOMAIN q.who
             /\ rows[r] = [status |-> "unpaid", amount |-> rows[r].amount, ay |-> q.ay]
  BY DEF Inserted
<1>5. ASSUME NEW r \in charged
      PROVE  r \in Rows /\ row[r] = NoRow /\ r.student \in q.enrols /\ r.head \in Grouped
  BY DEF Charged
<1>6. /\ schedule' \in [Offers -> Paise]
      /\ q.upsert = {} => schedule' = schedule
      /\ \A o \in Offers : (\A u \in q.upsert : u[1] # o) => schedule'[o] = schedule[o]
  BY <1>1, <1>3, ImportedType DEF ReqOK, TablesInv
<1>7. q.enrols \subseteq DOMAIN q.who /\ DOMAIN q.who \subseteq Students
  BY <1>3 DEF ReqOK, WhoOK
<1>8. /\ student' \in [Students -> StudentRecord]
      /\ \A s \in Students : /\ student[s].state # "none" => student'[s] = student[s]
                             /\ s \notin q.enrols => student'[s] = student[s]
      /\ \A s \in DOMAIN q.who : student'[s].state # "none"
      /\ \A s \in q.enrols : student'[s] = q.who[s]
  <2>1. \A s \in DOMAIN q.who : /\ q.who[s] \in StudentRecord /\ q.who[s].state # "none"
                                /\ s \in q.enrols => student[s].state = "none"
                                /\ s \notin q.enrols => student[s].state # "none"
    BY <1>3, NoStudentType DEF ReqOK, WhoOK
  <2>2. \A s \in Students : student[s] \in StudentRecord
    BY <1>3 DEF TablesInv
  <2> HIDE DEF q
  <2> QED BY <1>1, <1>7, <2>1, <2>2
<1>9. ASSUME NEW r \in Rows
      PROVE  \/ /\ row[r] = NoRow /\ r.student \in DOMAIN q.who
                /\ row'[r] = [status |-> "unpaid", amount |-> row'[r].amount, ay |-> q.ay]
                /\ \/ r \in DOMAIN rows /\ row'[r] = rows[r]
                   \/ r.head \in Grouped
             \/ row'[r] = row[r]
  <2>1. CASE r \in DOMAIN rows
    <3>1. row'[r] = rows[r]
      BY <1>2, <2>1
    <3> HIDE DEF rows, q
    <3> QED BY <1>4, <2>1, <3>1
  <2>2. CASE r \notin DOMAIN rows /\ r \in charged
    <3>1. row'[r] = [status |-> "unpaid", amount |-> amount[r], ay |-> q.ay]
      BY <1>2, <2>2
    <3> HIDE DEF rows, q, charged
    <3> QED BY <1>5, <1>7, <2>2, <3>1
  <2>3. CASE r \notin DOMAIN rows /\ r \notin charged
    BY <1>2, <2>3
  <2> QED BY <2>1, <2>2, <2>3
<1>10. NoRow.status = "none"
  BY DEF NoRow
<1>11. ASSUME NEW r \in Rows, row[r].status # "none" PROVE row'[r] = row[r]
  BY <1>9, <1>10, <1>11
<1>12. TablesInv'
  <2>1. row' = [r \in Rows |-> row'[r]]
    BY <1>2
  <2>2. ASSUME NEW r \in Rows
        PROVE  /\ row'[r] = [status |-> row'[r].status, amount |-> row'[r].amount, ay |-> row'[r].ay]
               /\ row'[r].status \in {"none", "unpaid", "paid", "waived"}
               /\ row'[r].status # "none" => row'[r].ay \in Years /\ student'[r.student].state # "none"
    <3>1. CASE row'[r] = row[r]
      <4>1. r.student \in Students
        BY RowFields
      <4>2. row[r].status # "none" => student'[r.student].state # "none"
        BY <1>3, <1>8, <4>1 DEF TablesInv
      <4> HIDE DEF q
      <4> QED BY <1>3, <3>1, <4>2 DEF TablesInv
    <3>2. CASE row'[r] # row[r]
      <4>1. r.student \in DOMAIN q.who
        BY <1>9, <3>2
      <4>2. row'[r] = [status |-> "unpaid", amount |-> row'[r].amount, ay |-> q.ay]
        BY <1>9, <3>2
      <4>3. row'[r].status = "unpaid" /\ row'[r].ay = q.ay
        <5> HIDE DEF q
        <5> QED BY <4>2
      <4>4. student'[r.student].state # "none"
        BY <1>8, <4>1
      <4> HIDE DEF q, rows
      <4> QED BY <1>3, <4>2, <4>3, <4>4
    <3> QED BY <3>1, <3>2
  <2> HIDE DEF q, rows, charged
  <2> QED BY <1>1, <1>3, <1>6, <1>8, <2>1, <2>2 DEF TablesInv
<1>13. UnpaidRowsPriced'
  <2> SUFFICES ASSUME NEW r \in Rows, Unpaid(r)', r.head \notin Grouped, r \notin drift'
               PROVE  row'[r].amount \in PricesOf(r)'
    BY DEF UnpaidRowsPriced
  <2>0. r.student \in Students /\ r.head \in Heads
    BY RowFields
  <2>1. CASE row'[r] = row[r]
    <3>1. Unpaid(r) /\ r \notin drift /\ r \notin repriced
      BY <1>1, <2>1 DEF Unpaid
    <3>2. row[r].ay \in Years /\ student[r.student].state # "none"
      BY <1>3, <3>1 DEF TablesInv, Unpaid
    <3>3. student'[r.student] = student[r.student] /\ student[r.student].class \in Classes
      BY <1>3, <1>8, <2>0, <3>2 DEF TablesInv, StudentRecord
    <3>4. ASSUME NEW x \in {"all", student[r.student].class}
          PROVE  schedule'[<<r.head, row[r].ay, x>>] = schedule[<<r.head, row[r].ay, x>>]
      <4>1. <<r.head, row[r].ay, x>> \in Offers
        BY <2>0, <3>2, <3>3 DEF Offers, Scopes
      <4>2. ASSUME NEW u \in q.upsert, u[1] = <<r.head, row[r].ay, x>> PROVE FALSE
        <5>1. r \in UnpaidUnder(u[1])
          BY <3>1, <4>2 DEF UnpaidUnder
        <5> HIDE DEF q
        <5> QED BY <3>1, <5>1
      <4> HIDE DEF q
      <4> QED BY <1>6, <4>1, <4>2
    <3>5. PricesOf(r)' = PricesOf(r)
      BY <1>1, <2>1, <3>3, <3>4, PricesOfSame
    <3> QED BY <1>3, <2>1, <3>1, <3>5 DEF UnpaidRowsPriced
  <2>2. CASE row'[r] # row[r]
    <3> DEFINE class == q.who[r.student].class
               percent == discount[r.student][r.head]
    <3>1. r \in DOMAIN rows /\ row'[r] = rows[r] /\ r.student \in DOMAIN q.who /\ row'[r].ay = q.ay
      <4>1. r \in DOMAIN rows /\ row'[r] = rows[r] /\ r.student \in DOMAIN q.who
        BY <1>9, <2>2
      <4>2. row'[r] = [status |-> "unpaid", amount |-> row'[r].amount, ay |-> q.ay]
        BY <1>9, <2>2
      <4> HIDE DEF rows, q
      <4>3. row'[r].ay = q.ay
        BY <4>2
      <4> QED BY <4>1, <4>3
    <3>2. ~q.overtaken
      BY <1>1, <3>1
    <3>3. PICK scope \in {"all", class} :
             /\ schedule'[<<r.head, q.ay, scope>>] # 0
             /\ row'[r].amount = MonthlyAmount(schedule'[<<r.head, q.ay, scope>>], r.head, r.period.month, percent)
      BY <1>1, <1>3, <3>1, <3>2, InsertedIsPriced
    <3>4. student'[r.student].class = class
      <4>1. CASE r.student \in q.enrols
        BY <1>8, <4>1
      <4>2. CASE r.student \notin q.enrols
        BY <1>3, <1>8, <2>0, <3>1, <3>2, <4>2 DEF ReqOK, WhoOK
      <4> QED BY <4>1, <4>2
    <3>5. class \in Classes
      BY <1>3, <3>1 DEF ReqOK, WhoOK, StudentRecord
    <3>6. <<r.head, q.ay, scope>> \in Offers
      BY <1>3, <2>0, <3>5 DEF Offers, Scopes
    <3>7. schedule'[<<r.head, q.ay, scope>>] > 0
      BY <1>6, <3>3, <3>6 DEF Paise
    <3>8. scope \in {x \in {"all", class} : schedule'[<<r.head, q.ay, x>>] > 0}
      BY <3>7
    <3>9. discount'[r.student][r.head] = percent
      BY <1>1
    <3> HIDE DEF class, percent, q, rows
    <3> QED BY <3>1, <3>3, <3>4, <3>8, <3>9 DEF PricesOf
  <2> QED BY <2>1, <2>2
<1>14. ASSUME NEW j \in Requests, j # k PROVE Leaves(request[j], j \in S)
  <2>1. ReqOK(request[j]) /\ q.enrols \cap request[j].enrols = {}
    BY <1>3, <1>14 DEF RequestsOK, EnrolsApart
  <2>2. ASSUME NEW s \in DOMAIN request[j].who
        PROVE  student'[s] = student[s]
    <3>1. s \in Students
      BY <2>1, <2>2 DEF ReqOK, WhoOK
    <3>2. CASE s \in q.enrols
      <4>1. student[s].state # "none"
        BY <2>1, <2>2, <3>2 DEF ReqOK, WhoOK
      <4> QED BY <1>8, <3>1, <4>1
    <3>3. CASE s \notin q.enrols
      BY <1>8, <3>1, <3>3
    <3> QED BY <3>2, <3>3
  <2>3. request[j].pc \in {"discounts", "insert", "priced"} /\ j \notin S => q.upsert = {}
    BY DEF ReadPrices
  <2> HIDE DEF S, q, rows, charged
  <2> QED BY <1>1, <1>6, <1>11, <2>2, <2>3 DEF Leaves
<1>15. ReqOK(Idle)'
  BY IdleFields DEF ReqOK, WhoOK, UpsertOK, PricesOK, PercentsOK, ConcessionOK, PricedOK, NoOffers
<1>16. RequestsOK'
  <2>1. request' = [j \in Requests |-> request'[j]]
    BY <1>1 DEF Overtake
  <2> HIDE DEF S, q, rows, charged
  <2>2. Becomes(k, Idle, S)
    BY <1>1, <1>3, OvertakeBecomes
  <2> QED BY <1>3, <1>14, <1>15, <2>1, <2>2, IdleFields, RequestsKept
<1> QED BY <1>12, <1>13, <1>16 DEF PricedInv

LEMMA ProceedsKeepPriced ==
    ASSUME PricedInv, IInv, NEW k \in Requests, Proceeds(k)
    PROVE  PricedInv'
<1>1. ASSUME Fails(k) PROVE PricedInv'
  BY <1>1, DoneKeepsPricedInv DEF Fails
<1> QED BY <1>1, ReadStudentsKeeps, ReadSchedulesKeeps, ReadDiscountsKeeps, InsertRowsKeeps,
           ReplaceDiscountsKeeps, PriceRowsKeeps, CommitDiscountsKeeps DEF Proceeds

-----------------------------------------------------------------------------
(* The steps of the office.                                                *)

\* A student's edit overtakes who has read the student.
LEMMA UpdateStudentKeeps ==
    ASSUME PricedInv, NEW s \in Students, NEW class \in Classes, NEW rides \in BOOLEAN,
           NEW state \in {"active", "left"}, UpdateStudent(s, class, rides, state)
    PROVE  PricedInv'
<1> DEFINE new == [student[s] EXCEPT !.class = class, !.rides = rides, !.state = state]
<1>1. /\ student[s].state # "none" /\ student' = [student EXCEPT ![s] = new]
      /\ drift' = drift \cup {r \in Rows : r.student = s /\ Unpaid(r) /\ student[s].class # class}
      /\ request' = Overtake(request, ReadStudent(s))
      /\ UNCHANGED <<schedule, discount, row>>
  BY DEF UpdateStudent
<1>2. TablesInv /\ RequestsOK /\ UnpaidRowsPriced
  BY DEF PricedInv
<1>3. new \in StudentRecord /\ new.state # "none" /\ new.class = class
  <2>1. student[s] \in StudentRecord
    BY <1>2 DEF TablesInv
  <2> QED BY <2>1 DEF StudentRecord
<1> HIDE DEF new
<1>4. /\ student' \in [Students -> StudentRecord] /\ student'[s] = new
      /\ \A x \in Students : x # s => student'[x] = student[x]
  BY <1>1, <1>2, <1>3 DEF TablesInv
<1>5. \A x \in Students : student[x].state # "none" => student'[x].state # "none"
  BY <1>3, <1>4
<1>6. TablesInv'
  BY <1>1, <1>2, <1>4, <1>5, RowFields DEF TablesInv
<1>7. UnpaidRowsPriced'
  <2> SUFFICES ASSUME NEW r \in Rows, Unpaid(r)', r.head \notin Grouped, r \notin drift'
               PROVE  row'[r].amount \in PricesOf(r)'
    BY DEF UnpaidRowsPriced
  <2>1. Unpaid(r) /\ r \notin drift
    BY <1>1 DEF Unpaid
  <2>2. student'[r.student].class = student[r.student].class
    <3>1. CASE r.student # s
      BY <3>1, <1>4, RowFields
    <3>2. CASE r.student = s
      BY <3>2, <1>1, <1>3, <1>4, <2>1
    <3> QED BY <3>1, <3>2
  <2>3. PricesOf(r)' = PricesOf(r)
    BY <1>1, <2>2, PricesOfSame
  <2> QED BY <1>1, <1>2, <2>1, <2>3 DEF UnpaidRowsPriced
<1>8. ASSUME NEW j \in Requests PROVE Leaves(request[j], j \in ReadStudent(s))
  <2>1. ReqOK(request[j])
    BY <1>2 DEF RequestsOK
  <2>2. s \notin request[j].enrols
    BY <1>1, <2>1, NoStudentType DEF ReqOK, WhoOK
  <2>3. DOMAIN request[j].who \subseteq Students
    BY <2>1 DEF ReqOK, WhoOK
  <2> QED BY <1>1, <1>4, <1>5, <2>2, <2>3 DEF Leaves, ReadStudent
<1>9. RequestsOK'
  BY <1>1, <1>2, <1>8, RequestsOvertaken
<1> QED BY <1>6, <1>7, <1>9 DEF PricedInv

LEMMA UpsertScheduleKeeps ==
    ASSUME PricedInv, NEW o \in Offers, NEW price \in Paise, UpsertSchedule(o, price)
    PROVE  PricedInv'
<1>1. /\ schedule' = [schedule EXCEPT ![o] = price]
      /\ drift' = drift \cup UnpaidUnder(o)
      /\ request' = Overtake(request, ReadPrices)
      /\ UNCHANGED <<student, discount, row>>
  BY DEF UpsertSchedule
<1>2. TablesInv /\ RequestsOK /\ UnpaidRowsPriced
  BY DEF PricedInv
<1>3. schedule' \in [Offers -> Paise] /\ \A x \in Offers : x # o => schedule'[x] = schedule[x]
  BY <1>1, <1>2 DEF TablesInv
<1>4. TablesInv'
  BY <1>1, <1>2, <1>3 DEF TablesInv
<1>5. UnpaidRowsPriced'
  <2> SUFFICES ASSUME NEW r \in Rows, Unpaid(r)', r.head \notin Grouped, r \notin drift'
               PROVE  row'[r].amount \in PricesOf(r)'
    BY DEF UnpaidRowsPriced
  <2>1. Unpaid(r) /\ r \notin drift /\ r \notin UnpaidUnder(o)
    BY <1>1 DEF Unpaid
  <2>2. row[r].ay \in Years /\ r.student \in Students /\ r.head \in Heads
    BY <1>2, <2>1, RowFields DEF TablesInv, Unpaid
  <2>3. student[r.student].class \in Classes
    BY <1>2, <2>2 DEF TablesInv, StudentRecord
  <2>4. ASSUME NEW x \in {"all", student[r.student].class}
        PROVE  schedule'[<<r.head, row[r].ay, x>>] = schedule[<<r.head, row[r].ay, x>>]
    <3>1. <<r.head, row[r].ay, x>> \in Offers
      BY <2>2, <2>3 DEF Offers, Scopes
    <3>2. <<r.head, row[r].ay, x>> # o
      BY <2>1 DEF UnpaidUnder
    <3> QED BY <1>3, <3>1, <3>2
  <2>5. PricesOf(r)' = PricesOf(r)
    BY <1>1, <2>4, PricesOfSame
  <2> QED BY <1>1, <1>2, <2>1, <2>5 DEF UnpaidRowsPriced
<1>6. ASSUME NEW j \in Requests PROVE Leaves(request[j], j \in ReadPrices)
  BY <1>1 DEF Leaves, ReadPrices
<1>7. RequestsOK'
  BY <1>1, <1>2, <1>6, RequestsOvertaken
<1> QED BY <1>4, <1>5, <1>7 DEF PricedInv

\* A step that no request notices.
LEMMA UnnoticedKeeps ==
    ASSUME PricedInv, request' = request, schedule' = schedule, discount' = discount,
           \A s \in Students : /\ student'[s].class = student[s].class
                               /\ (student'[s].state = "none") <=> (student[s].state = "none")
                               /\ student[s].state = "none" => student'[s] = student[s],
           \A r \in Rows : /\ row[r].status # "none" => row'[r].status # "none"
                           /\ row'[r].ay = row[r].ay
    PROVE  RequestsOK'
<1>1. RequestsOK
  BY DEF PricedInv
<1>2. ASSUME NEW j \in Requests PROVE ReqOK(request[j])'
  <2>0. PICK x : x = request[j]
    OBVIOUS
  <2>1. ReqOK(x)
    BY <1>1, <2>0 DEF RequestsOK
  <2>2. Leaves(x, FALSE)
    BY <2>1, NoStudentType DEF Leaves, ReqOK, WhoOK
  <2>3. ReqOK(x)'
    BY <2>1, <2>2, RelyUntouched
  <2> QED BY <2>0, <2>3, OKIsOfValue
<1>3. EnrolsApart' /\ request' = [j \in Requests |-> request'[j]]
  BY <1>1 DEF RequestsOK, EnrolsApart
<1> QED BY <1>2, <1>3 DEF RequestsOK

LEMMA DeactivateStudentKeeps ==
    ASSUME PricedInv, NEW s \in Students, DeactivateStudent(s)
    PROVE  PricedInv'
<1> DEFINE new == [student[s] EXCEPT !.state = "left"]
<1>1. /\ student[s].state = "active" /\ student' = [student EXCEPT ![s] = new]
      /\ UNCHANGED <<schedule, discount, row, drift, request>>
  BY DEF DeactivateStudent
<1>2. TablesInv /\ UnpaidRowsPriced
  BY DEF PricedInv
<1>3. new \in StudentRecord /\ new.state = "left" /\ new.class = student[s].class
  <2>1. student[s] \in StudentRecord
    BY <1>2 DEF TablesInv
  <2> QED BY <2>1 DEF StudentRecord
<1> HIDE DEF new
<1>4. /\ student' \in [Students -> StudentRecord] /\ student'[s] = new
      /\ \A x \in Students : x # s => student'[x] = student[x]
  BY <1>1, <1>2, <1>3 DEF TablesInv
<1>5. \A x \in Students : /\ student'[x].class = student[x].class
                          /\ (student'[x].state = "none") <=> (student[x].state = "none")
                          /\ student[x].state = "none" => student'[x] = student[x]
  BY <1>1, <1>3, <1>4
<1>6. TablesInv'
  BY <1>1, <1>2, <1>4, <1>5, RowFields DEF TablesInv
<1>7. ASSUME NEW r \in Rows PROVE PricesOf(r)' = PricesOf(r)
  BY <1>1, <1>5, PricesOfSame, RowFields
<1>8. UnpaidRowsPriced'
  BY <1>1, <1>2, <1>7 DEF UnpaidRowsPriced, Unpaid
<1>9. RequestsOK'
  BY <1>1, <1>5, UnnoticedKeeps
<1> QED BY <1>6, <1>8, <1>9 DEF PricedInv

LEMMA SettleKeeps ==
    ASSUME PricedInv, NEW r \in Rows, NEW to \in {"paid", "waived"}, Settle(r, to)
    PROVE  PricedInv'
<1> DEFINE new == [row[r] EXCEPT !.status = to]
<1>1. /\ row[r].status = "unpaid" /\ row' = [row EXCEPT ![r] = new]
      /\ UNCHANGED <<student, schedule, discount, drift, request>>
  BY DEF Settle, Unpaid
<1>2. TablesInv /\ UnpaidRowsPriced
  BY DEF PricedInv
<1>3. new = [status |-> to, amount |-> row[r].amount, ay |-> row[r].ay]
  <2>1. row[r] = [status |-> row[r].status, amount |-> row[r].amount, ay |-> row[r].ay]
    BY <1>2 DEF TablesInv
  <2> QED BY <2>1
<1> HIDE DEF new
<1>4. row' = [x \in Rows |-> row'[x]] /\ row'[r] = new /\ \A x \in Rows : x # r => row'[x] = row[x]
  BY <1>1, <1>2 DEF TablesInv
<1>5. new.status = to /\ new.ay = row[r].ay /\ new.amount = row[r].amount
  BY <1>3
<1>6. TablesInv'
  <2>1. ASSUME NEW x \in Rows
        PROVE  /\ row'[x] = [status |-> row'[x].status, amount |-> row'[x].amount, ay |-> row'[x].ay]
               /\ row'[x].status \in {"none", "unpaid", "paid", "waived"}
               /\ row'[x].status # "none" => row'[x].ay \in Years /\ student[x.student].state # "none"
    <3>1. CASE x = r
      BY <1>1, <1>2, <1>3, <1>4, <1>5, <3>1 DEF TablesInv
    <3>2. CASE x # r
      BY <1>2, <1>4, <3>2 DEF TablesInv
    <3> QED BY <3>1, <3>2
  <2> QED BY <1>1, <1>2, <1>4, <2>1 DEF TablesInv
<1>7. UnpaidRowsPriced'
  <2> SUFFICES ASSUME NEW x \in Rows, Unpaid(x)', x.head \notin Grouped, x \notin drift'
               PROVE  row'[x].amount \in PricesOf(x)'
    BY DEF UnpaidRowsPriced
  <2>1. x # r
    BY <1>4, <1>5 DEF Unpaid
  <2>2. row'[x] = row[x] /\ Unpaid(x)
    BY <1>4, <2>1 DEF Unpaid
  <2>3. PricesOf(x)' = PricesOf(x)
    BY <1>1, <2>2, PricesOfSame
  <2> QED BY <1>1, <1>2, <2>2, <2>3 DEF UnpaidRowsPriced
<1>8. \A x \in Rows : (row[x].status # "none" => row'[x].status # "none") /\ row'[x].ay = row[x].ay
  BY <1>4, <1>5
<1>9. RequestsOK'
  BY <1>1, <1>8, UnnoticedKeeps
<1> QED BY <1>6, <1>7, <1>9 DEF PricedInv

LEMMA OfficeKeepsPriced ==
    ASSUME PricedInv, Office
    PROVE  PricedInv'
<1>1. ASSUME NEW u \in NewPrices, UpsertSchedule(u[1], u[2]) PROVE PricedInv'
  <2>1. u[1] \in Offers /\ u[2] \in Paise
    BY LedgerAssumption
  <2> QED BY <1>1, <2>1, UpsertScheduleKeeps
<1>2. ASSUME UNCHANGED <<student, schedule, discount, row, drift, request>> PROVE PricedInv'
  BY <1>2, SameTables, UnnoticedKeeps DEF PricedInv
<1>3. ASSUME \/ \E h \in Heads : ToggleHead(h)
             \/ \E active \in BOOLEAN : SetGroupActive(active)
             \/ \E ay \in Years \cup {NoYear} : SetCurrentYear(ay)
             \/ \E from, to \in Years : Rollover(from, to)
      PROVE  PricedInv'
  BY <1>2, <1>3 DEF ToggleHead, SetGroupActive, SetCurrentYear, Rollover
<1> QED BY <1>1, <1>3, UpdateStudentKeeps, DeactivateStudentKeeps, SettleKeeps DEF Office

LEMMA StepKeepsPriced == PricedInv /\ IInv /\ [Next]_vars => PricedInv'
<1> SUFFICES ASSUME PricedInv, IInv, [Next]_vars PROVE PricedInv'
  OBVIOUS
<1>1. CASE UNCHANGED vars
  BY <1>1, SameTables, UnnoticedKeeps DEF PricedInv, vars
<1>2. CASE Next
  BY <1>2, AsksKeepPriced, ProceedsKeepPriced, OfficeKeepsPriced DEF Next
<1> QED BY <1>1, <1>2

-----------------------------------------------------------------------------
(* The theorems.                                                           *)

\* An unpaid row asks what a schedule of its year, the season and the student's
\* concession make of it, however generations, imports and concessions
\* interleave (generate_for_academic_year, set_student_discounts,
\* create_or_update_fee_schedule, import_fee_structure, update_student).
THEOREM RowsArePriced == Spec => []UnpaidRowsPriced
<1>1. PricedInv => UnpaidRowsPriced
  BY DEF PricedInv
<1>2. Init => PricedInv /\ IInv
  BY InitPricedInv, InitIInv
<1>3. PricedInv /\ IInv /\ [Next]_vars => (PricedInv /\ IInv)'
  BY StepKeepsPriced, StepKeepsIInv
<1> QED BY <1>1, <1>2, <1>3, PTL DEF Spec

-----------------------------------------------------------------------------
(* The reports.                                                            *)

LEMMA BilledRow ==
    ASSUME TablesInv, NEW r \in Rows, row[r].status # "none"
    PROVE  /\ r.student \in Students /\ row[r].ay \in Years /\ student[r.student].class \in Classes
           /\ row[r].status \in {"unpaid", "paid", "waived"}
  BY RowFields DEF TablesInv, StudentRecord

LEMMA DuesAddUp ==
    ASSUME TablesInv
    PROVE  LET listed == {GetOutstandingDues(f).grand_total : f \in Filters}
           IN With("unpaid") = UNION listed /\ Disjoint(listed)
<1> DEFINE listed == {GetOutstandingDues(f).grand_total : f \in Filters}
<1>1. \A f : GetOutstandingDues(f).grand_total = Matching(f)
  BY DEF GetOutstandingDues
<1>2. ASSUME NEW f \in Filters, NEW r
      PROVE  r \in Matching(f) <=> r \in With("unpaid") /\ f.class = student[r.student].class /\ f.year = row[r].ay
  BY ReportsAssumption DEF Matching, Filters
<1>3. ASSUME NEW r \in With("unpaid") PROVE r \in UNION listed
  <2> DEFINE f == [class |-> student[r.student].class, year |-> row[r].ay]
  <2>1. f \in Filters /\ f.class = student[r.student].class /\ f.year = row[r].ay
    BY BilledRow DEF With, Filters
  <2> HIDE DEF f
  <2>2. r \in Matching(f)
    BY <1>2, <2>1
  <2> QED BY <1>1, <2>1, <2>2
<1>4. ASSUME NEW r \in UNION listed PROVE r \in With("unpaid")
  BY <1>1, <1>2
<1>5. ASSUME NEW f \in Filters, NEW g \in Filters, NEW r \in Matching(f) \cap Matching(g)
      PROVE  Matching(f) = Matching(g)
  <2>1. f.class = g.class /\ f.year = g.year
    BY <1>2
  <2> QED BY <2>1 DEF Matching
<1>6. Disjoint(listed)
  BY <1>1, <1>5 DEF Disjoint
<1> QED BY <1>3, <1>4, <1>6

LEMMA RecoveryAddsUp ==
    ASSUME TablesInv
    PROVE  LET recovered == {FeeRecovery(c, "any").expected : c \in Classes}
           IN OfActive(NotWaived) = UNION recovered /\ Disjoint(recovered)
<1> DEFINE recovered == {FeeRecovery(c, "any").expected : c \in Classes}
           counted(c) == {r \in OfActive(NotWaived) : student[r.student].class = c}
<1>1. ASSUME NEW c PROVE FeeRecovery(c, "any").expected = counted(c)
  BY DEF FeeRecovery
<1>2. \A r \in OfActive(NotWaived) : student[r.student].class \in Classes
  BY BilledRow DEF OfActive, NotWaived, Billed
<1>3. OfActive(NotWaived) = UNION recovered
  BY <1>1, <1>2
<1>4. Disjoint(recovered)
  BY <1>1 DEF Disjoint
<1> QED BY <1>3, <1>4

LEMMA TablesAgree == TablesInv => ReportsAgree
<1> SUFFICES ASSUME TablesInv PROVE ReportsAgree
  OBVIOUS
<1> DEFINE open == With("unpaid")
<1>1. GetOutstandingDues(Everything).grand_total = open
  <2>1. Matching(Everything) = open
    BY DEF Matching, Everything
  <2> QED BY <2>1 DEF GetOutstandingDues
<1>2. \A r \in Billed : r \in Rows /\ r.student \in Students /\ row[r].status \in {"unpaid", "paid", "waived"}
  BY BilledRow DEF Billed
<1>3. \A status : With(status) \subseteq Rows
  BY DEF With
<1>4. open = UNION {line[2] : line \in ExportFees(Everything)}
  <2> DEFINE items == [s \in {r.student : r \in open} |-> Of(s, open)]
  <2>1. GetOutstandingDues(Everything).items = items
    <3>1. Matching(Everything) = open
      BY DEF Matching, Everything
    <3> QED BY <3>1 DEF GetOutstandingDues
  <2>2. ExportFees(Everything) = {<<s, items[s]>> : s \in DOMAIN items}
    BY <2>1 DEF ExportFees
  <2>3. ASSUME NEW r \in open PROVE \E line \in ExportFees(Everything) : r \in line[2]
    <3>1. r.student \in DOMAIN items /\ r \in items[r.student]
      BY DEF Of
    <3> HIDE DEF items
    <3>2. <<r.student, items[r.student]>> \in ExportFees(Everything)
      BY <2>2, <3>1
    <3>3. r \in <<r.student, items[r.student]>>[2]
      BY <3>1
    <3> QED BY <3>2, <3>3
  <2>4. ASSUME NEW line \in ExportFees(Everything) PROVE line[2] \subseteq open
    <3>1. PICK s \in DOMAIN items : line = <<s, items[s]>>
      BY <2>2
    <3>2. items[s] \subseteq open
      BY DEF Of
    <3> HIDE DEF items
    <3> QED BY <3>1, <3>2
  <2> HIDE DEF open
  <2> QED BY <2>3, <2>4
<1>5. open = Dashboard.outstanding /\ Dashboard.expected = NotWaived /\ Dashboard.collected = With("paid")
  BY DEF Dashboard
<1>6. ASSUME NEW status
      PROVE  With(status) = UNION {Of(s, With(status)) : s \in Students}
  BY <1>3, RowFields DEF Of
<1>7. \A s : GetStudentLedger(s).pending = Of(s, open) /\ GetStudentLedger(s).paid = Of(s, With("paid"))
  BY DEF GetStudentLedger
<1>8. \A s : /\ FeeSummary(s).balance = Of(s, open)
             /\ FeeSummary(s).total_due = Of(s, NotWaived)
             /\ FeeSummary(s).total_paid = Of(s, With("paid"))
             /\ FeeSummary(s).status = "paid" => ~Positive(Of(s, open))
  BY DEF FeeSummary
<1>9. NotWaived = With("paid") \cup open
  BY <1>2 DEF NotWaived, Billed, With
<1>10. \A s : Of(s, NotWaived) = Of(s, With("paid")) \cup Of(s, open)
  BY <1>9 DEF Of
<1>11. \A s : GetFeeLedgerEntries(s) \cap open = Of(s, open)
  BY DEF GetFeeLedgerEntries, Of, Billed, With
<1>12. open = UNION {GetStudentLedger(s).pending : s \in Students}
  BY <1>6, <1>7
<1>13. open = UNION {FeeSummary(s).balance : s \in Students}
  BY <1>6, <1>8
<1>14. With("paid") = UNION {GetStudentLedger(s).paid : s \in Students}
  BY <1>6, <1>7
<1>15. \A s \in Students :
          /\ FeeSummary(s).total_due = FeeSummary(s).total_paid \cup FeeSummary(s).balance
          /\ FeeSummary(s).status = "paid" => ~Positive(GetFeeLedgerEntries(s) \cap open)
  <2> HIDE DEF open
  <2> QED BY <1>8, <1>10, <1>11
<1>16. LET listed == {GetOutstandingDues(f).grand_total : f \in Filters}
       IN open = UNION listed /\ Disjoint(listed)
  BY DuesAddUp
<1>17. LET recovered == {FeeRecovery(c, "any").expected : c \in Classes}
       IN OfActive(Dashboard.expected) = UNION recovered /\ Disjoint(recovered)
  BY <1>5, RecoveryAddsUp
<1>18. Dashboard.expected = Dashboard.collected \cup open
  BY <1>5, <1>9
<1>19. Dashboard.collected = UNION {GetStudentLedger(s).paid : s \in Students}
  BY <1>5, <1>14
<1>20. open = Dashboard.outstanding
  BY <1>5
<1> HIDE DEF open
<1> QED BY <1>1, <1>4, <1>12, <1>13, <1>15, <1>16, <1>17, <1>18, <1>19, <1>20, Zenon DEF ReportsAgree

\* The list of dues by class and year, the export, the dashboard, the recovery
\* by class and the parents' and the office's pages take the same rows for open
\* and lose none, students who left among them (get_outstanding_dues,
\* export_fees, get_fee_recovery, get_fee_summary, the dashboard).
THEOREM ReportsAlwaysAgree == Spec => []ReportsAgree
<1>1. PricedInv => ReportsAgree
  BY TablesAgree DEF PricedInv
<1>2. Init => PricedInv /\ IInv
  BY InitPricedInv, InitIInv
<1>3. PricedInv /\ IInv /\ [Next]_vars => (PricedInv /\ IInv)'
  BY StepKeepsPriced, StepKeepsIInv
<1> QED BY <1>1, <1>2, <1>3, PTL DEF Spec
=============================================================================
