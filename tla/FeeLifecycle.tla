---------------------------- MODULE FeeLifecycle ----------------------------
(***************************************************************************)
(* fee_lifecycle_advance: the hourly scan that moves unpaid ledger rows    *)
(* from pending to due to overdue and reminds parents of overdue ones.     *)
(*                                                                         *)
(* The scan is one transaction of several statements.  Its UPDATEs lock    *)
(* the rows they change until it commits; the SELECT that adds old overdue *)
(* rows locks nothing, so a payment may settle such a row before the       *)
(* reminder is written.  Times are days.                                   *)
(***************************************************************************)
EXTENDS Integers

CONSTANTS
    Rows,               \* ids of fee_ledger rows
    DueDates,           \* due_date of the rows migration 028 backfilled
    NoDate,             \* SQL NULL
    GRACE_DAYS,
    REMINDER_INTERVAL_DAYS,
    LastDay             \* bound: the days 0 .. LastDay are modelled

ASSUME DatesAssumption == DueDates \subseteq Int /\ NoDate \notin Int
ASSUME DaysAssumption ==
    /\ GRACE_DAYS \in Nat
    /\ REMINDER_INTERVAL_DAYS \in Nat
    /\ LastDay \in Nat

VARIABLES
    today,
    row,        \* fee_ledger: status, due_date, reminded_at
    noticed,    \* rows with a FEE_OVERDUE notification, whose ref is the row's id
    scan        \* the running scan: step, its today, rows changed and to remind

vars == <<today, row, noticed, scan>>

-----------------------------------------------------------------------------
Days == 0 .. LastDay
Statuses == {"none", "pending", "due", "overdue", "paid", "waived"}
Unpaid == {"pending", "due", "overdue"}
ScanSteps == {"idle", "advanced", "overdue", "selected"}

NoScan == [step |-> "idle", today |-> 0, due |-> {}, overdue |-> {}, remind |-> {}]

\* Rows older than migration 028 have a due_date, the others do not exist yet.
Init ==
    /\ today = 0
    /\ row \in [Rows -> [status : {"pending"}, due : DueDates, reminded : {NoDate}]
                        \cup [status : {"none"}, due : {NoDate}, reminded : {NoDate}]]
    /\ noticed = {}
    /\ scan = NoScan

-----------------------------------------------------------------------------
NextDay ==
    /\ today < LastDay
    /\ today' = today + 1
    /\ UNCHANGED <<row, noticed, scan>>

\* generate_ledger, generate_ledger_for_new_student and levy_one_time_fee
\* insert rows without a due_date.
Generate(r) ==
    /\ row[r].status = "none"
    /\ row' = [row EXCEPT ![r].status = "pending"]
    /\ UNCHANGED <<today, noticed, scan>>

\* Mutant of Locked: the scan's UPDATEs hold no lock on their rows.
LockedByNobody(r) == FALSE

\* The scan's UPDATEs keep their rows locked until it commits.
Locked(r) == r \in scan.due \cup scan.overdue

\* waive_fees asks for an unpaid row.
Waive(r) ==
    /\ row[r].status \in Unpaid
    /\ ~ Locked(r)
    /\ row' = [row EXCEPT ![r].status = "waived"]
    /\ UNCHANGED <<today, noticed, scan>>

\* A collection and an approved claim ask for an unpaid row; the UPDATE of a
\* webhook does not look at the status, and pays a waived row as well.
Pay(r) ==
    /\ row[r].status # "none"
    /\ ~ Locked(r)
    /\ row' = [row EXCEPT ![r].status = "paid"]
    /\ UNCHANGED <<today, noticed, scan>>

-----------------------------------------------------------------------------
(* The statements of the scan.                                             *)

\* Mutant of PastGrace: the grace period is one day short.
PastGraceTooSoon(r, day) ==
    row[r].due # NoDate /\ row[r].due <= day - GRACE_DAYS + 1

\* due_date <= overdue_cutoff
PastGrace(r, day) == row[r].due # NoDate /\ row[r].due <= day - GRACE_DAYS

InDueWindow(r, day) ==
    row[r].due # NoDate /\ row[r].due <= day /\ row[r].due > day - GRACE_DAYS

ScanAdvances ==
    /\ scan.step = "idle"
    /\ scan' = [NoScan EXCEPT
           !.step = "advanced", !.today = today,
           !.due = {r \in Rows : row[r].status = "pending" /\ InDueWindow(r, today)}]
    /\ UNCHANGED <<today, row, noticed>>

\* Mutant of ScanFindsOverdue: only pending rows become overdue.
ScanFindsOverduePending ==
    /\ scan.step = "advanced"
    /\ scan' = [scan EXCEPT
           !.step = "overdue",
           !.overdue = {r \in Rows : /\ row[r].status = "pending"
                                     /\ PastGrace(r, scan.today)}]
    /\ UNCHANGED <<today, row, noticed>>

ScanFindsOverdue ==
    /\ scan.step = "advanced"
    /\ scan' = [scan EXCEPT
           !.step = "overdue",
           !.overdue = {r \in Rows : /\ row[r].status \in {"pending", "due"}
                                     /\ PastGrace(r, scan.today)}]
    /\ UNCHANGED <<today, row, noticed>>

\* Mutant of ReminderDue: only rows never reminded of are selected.
ReminderDueOnce(r) == row[r].reminded = NoDate

\* reminded_at IS NULL OR reminded_at < NOW() - 7 days; NOW() is the start of
\* the transaction.
ReminderDue(r) ==
    \/ row[r].reminded = NoDate
    \/ row[r].reminded < scan.today - REMINDER_INTERVAL_DAYS

\* The rows just made overdue, and the overdue rows whose reminder is old.
ScanSelects ==
    /\ scan.step = "overdue"
    /\ scan' = [scan EXCEPT
           !.step = "selected",
           !.remind = scan.overdue \cup
               {r \in Rows : /\ row[r].status = "overdue"
                             /\ row[r].due # NoDate
                             /\ ReminderDue(r)}]
    /\ UNCHANGED <<today, row, noticed>>

\* INSERT INTO notifications ... ON CONFLICT DO NOTHING, ref = the row's id:
\* the reminder of a row that has a notification already is swallowed.
WriteNotices == noticed' = noticed \cup scan.remind

\* Mutant of ScanStatus: a status the CHECK of migration 028 does not know.
ScanStatusLate(r) == IF r \in scan.overdue THEN "late"
                     ELSE IF r \in scan.due THEN "due" ELSE row[r].status

ScanStatus(r) == IF r \in scan.overdue THEN "overdue"
                 ELSE IF r \in scan.due THEN "due" ELSE row[r].status

\* Mutant of ScanCommits: reminded_at is not written.
ScanCommitsUnstamped ==
    /\ scan.step = "selected"
    /\ row' = [r \in Rows |-> [row[r] EXCEPT !.status = ScanStatus(r)]]
    /\ WriteNotices
    /\ scan' = NoScan
    /\ UNCHANGED today

ScanCommits ==
    /\ scan.step = "selected"
    /\ row' = [r \in Rows |->
          [row[r] EXCEPT !.status = ScanStatus(r),
                         !.reminded = IF r \in scan.remind THEN scan.today ELSE @]]
    /\ WriteNotices
    /\ scan' = NoScan
    /\ UNCHANGED today

\* Any statement fails, or the worker stops: nothing is written.
ScanFails ==
    /\ scan.step # "idle"
    /\ scan' = NoScan
    /\ UNCHANGED <<today, row, noticed>>

Scan == ScanAdvances \/ ScanFindsOverdue \/ ScanSelects \/ ScanCommits

-----------------------------------------------------------------------------
Next ==
    \/ NextDay
    \/ \E r \in Rows : \/ Generate(r)
                       \/ Waive(r)
                       \/ Pay(r)
    \/ Scan
    \/ ScanFails

Spec == Init /\ [][Next]_vars

\* Days pass, the worker scans every hour, and no statement of the scan fails
\* every time it is run; nobody is obliged to pay.
Fairness ==
    /\ WF_vars(NextDay)
    /\ WF_vars(ScanAdvances)
    /\ SF_vars(ScanFindsOverdue)
    /\ SF_vars(ScanSelects)
    /\ SF_vars(ScanCommits)

FairSpec == Spec /\ Fairness

-----------------------------------------------------------------------------
(* Properties.                                                             *)

TypeOK ==
    /\ today \in Days
    /\ row \in [Rows -> [status : Statuses, due : DueDates \cup {NoDate},
                         reminded : Days \cup {NoDate}]]
    /\ noticed \subseteq Rows
    /\ scan \in [step : ScanSteps, today : Days, due : SUBSET Rows,
                 overdue : SUBSET Rows, remind : SUBSET Rows]

Rank(status) == CASE status = "none" -> 0 [] status = "pending" -> 1
                  [] status = "due" -> 2 [] status = "overdue" -> 3
                  [] status = "waived" -> 4 [] OTHER -> 5

\* A row's status only moves forward: a row paid or waived while a scan is
\* running is never made unpaid again by the scan's commit, a paid row stays
\* paid, and a waived row becomes nothing but paid, by the webhook that does
\* not look at the status (fee_lifecycle_advance, _mark_payment_success).
StatusOnlyAdvances ==
    [][\A r \in Rows : row'[r].status # row[r].status =>
                           Rank(row[r].status) < Rank(row'[r].status)]_vars

\* No row is called overdue before its grace period is over, also when the
\* scan runs past midnight.
GraceIsRespected ==
    \A r \in Rows : row[r].status = "overdue" => row[r].due + GRACE_DAYS <= today

\* Becoming overdue and telling the parent are one: an overdue row has its
\* notification and reminded_at, whatever statement of whatever scan failed.
OverdueRowsAreNotified ==
    \A r \in Rows : row[r].status = "overdue" =>
                        r \in noticed /\ row[r].reminded # NoDate

\* A row left unpaid past its grace period is found by a scan.
LateRowsBecomeOverdue ==
    \A r \in Rows :
        (row[r].status \in {"pending", "due"} /\ PastGrace(r, today))
            ~> row[r].status \notin {"pending", "due"}

\* A row left overdue is selected again each time its reminder has aged.
RemindersAreRestamped ==
    \A r \in Rows :
        (row[r].status = "overdue" /\ row[r].reminded < today - REMINDER_INTERVAL_DAYS)
            ~> \/ row[r].status # "overdue"
               \/ row[r].reminded >= today - REMINDER_INTERVAL_DAYS
=============================================================================
