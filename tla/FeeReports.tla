----------------------------- MODULE FeeReports -----------------------------
(***************************************************************************)
(* What the school and the parents are told about the ledger: every report *)
(* is a query of its own over the same rows, each with its own conditions  *)
(* on status, standing, class and year.  A row of StudentLedger that is    *)
(* unpaid is pending, due or overdue.  A total is given by the rows whose  *)
(* amounts it sums.                                                        *)
(***************************************************************************)
EXTENDS StudentLedger

\* A filter of a report may be left open.
ASSUME ReportsAssumption == "any" \notin Classes /\ "any" \notin Years

Billed == {r \in Rows : row[r].status # "none"}
With(status) == {r \in Rows : row[r].status = status}
NotWaived == Billed \ With("waived")
Of(s, rs) == {r \in rs : r.student = s}
OfActive(rs) == {r \in rs : student[r.student].state = "active"}
Positive(rs) == \E r \in rs : row[r].amount > 0

\* The office's page of one student.
GetStudentLedger(s) == [pending |-> Of(s, With("unpaid")), paid |-> Of(s, With("paid"))]

\* A class and a year are asked for, each of which may be any.
Filters == [class : Classes, year : Years]
Everything == [class |-> "any", year |-> "any"]

\* Mutant of Matching: students who left are not asked for.
MatchingActive(f) ==
    {r \in OfActive(With("unpaid")) : f.class \in {"any", student[r.student].class} /\ f.year \in {"any", row[r].ay}}

\* Students who left still owe.
Matching(f) ==
    {r \in With("unpaid") : f.class \in {"any", student[r.student].class} /\ f.year \in {"any", row[r].ay}}

\* The rows grouped by student, of which a page has as many groups as its
\* limit, and the totals, which a second statement takes from all of them.
GetOutstandingDues(f) ==
    LET rows == Matching(f)
    IN [items |-> [s \in {r.student : r \in rows} |-> Of(s, rows)], grand_total |-> rows]

\* A line for a student.
ExportFees(f) == LET items == GetOutstandingDues(f).items IN {<<s, items[s]>> : s \in DOMAIN items}

\* The principal's dashboard asks nobody's standing ...
Dashboard == [outstanding |-> With("unpaid"), collected |-> With("paid"), expected |-> NotWaived]

\* ... the recovery by class, there and in the analytics, only active students'.
FeeRecovery(c, year) ==
    LET counted == {r \in OfActive(NotWaived) : student[r.student].class = c /\ year \in {"any", row[r].ay}}
    IN [collected |-> counted \cap With("paid"), expected |-> counted]

\* The parents' summary, ...
FeeSummary(s) ==
    LET due == Of(s, NotWaived)  balance == Of(s, With("unpaid"))
    IN [total_due |-> due, total_paid |-> Of(s, With("paid")), balance |-> balance,
        status |-> CASE ~Positive(due) -> "none" [] Positive(balance) -> "pending" [] OTHER -> "paid"]

\* ... and the rows they may pay.
GetFeeLedgerEntries(s) == Of(s, Billed)

-----------------------------------------------------------------------------
Disjoint(parts) == \A p, q \in parts : p # q => p \cap q = {}

\* The reports add up: the list of dues, by class and year and student by
\* student, the dashboard, the office's and the parents' pages take the same
\* rows for open, each once, and left students' among them; what was expected
\* is what was collected and what is open; and the recovery by class falls
\* short of the dashboard by exactly the rows of students who left.  A report
\* that lost some of them once disagreed with the dashboard
\* (services/finance.py:627-727, api/v1/dashboard.py:24-64,
\* api/v1/fees.py:351-393, services/parent.py:342-386).
ReportsAgree ==
    LET open == GetOutstandingDues(Everything).grand_total
        listed == {GetOutstandingDues(f).grand_total : f \in Filters}
        recovered == {FeeRecovery(c, "any").expected : c \in Classes}
    IN /\ open = UNION listed /\ Disjoint(listed)
       /\ open = UNION {line[2] : line \in ExportFees(Everything)}
       /\ open = Dashboard.outstanding
       /\ open = UNION {GetStudentLedger(s).pending : s \in Students}
       /\ open = UNION {FeeSummary(s).balance : s \in Students}
       /\ Dashboard.expected = Dashboard.collected \cup open
       /\ Dashboard.collected = UNION {GetStudentLedger(s).paid : s \in Students}
       /\ OfActive(Dashboard.expected) = UNION recovered /\ Disjoint(recovered)
       /\ \A s \in Students :
             LET summary == FeeSummary(s)
             IN /\ summary.total_due = summary.total_paid \cup summary.balance
                /\ summary.status = "paid" => ~Positive(GetFeeLedgerEntries(s) \cap open)
=============================================================================
