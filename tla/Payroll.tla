------------------------------ MODULE Payroll ------------------------------
(***************************************************************************)
(* Salary structures, monthly payroll runs and their payslips.             *)
(*                                                                         *)
(* A run snapshots a payslip of every active member of staff with a salary *)
(* structure; a payslip is edited while its run is a draft.  Requests run  *)
(* concurrently; each step below is one statement of theirs, or the last   *)
(* statements of a transaction with its commit.                            *)
(***************************************************************************)
EXTENDS Integers

CONSTANTS
    Staff,
    Periods,        \* months: period_year and period_month
    RunIds,         \* bound: rows of staff_payroll_runs
    Gross,          \* bound: values of gross_salary
    Lines,          \* bound: sums of the allowance and of the deduction lines
    Requests,       \* requests of the principal; each is sent once
    MaxChanges      \* bound: changes of staff and salaries

ASSUME SalaryAssumption ==
    /\ Gross \subseteq Nat
    /\ Lines \subseteq [allowances : Nat, deductions : Nat]
    /\ MaxChanges \in Nat

VARIABLES
    active,     \* staff.is_active
    structure,  \* staff_salary_structures
    run,        \* staff_payroll_runs
    payslip,    \* staff_payslips, by run and member of staff
    request,    \* requests in progress
    changes,    \* changes of staff and salaries so far
    payableOnce,   \* history: staff to be paid at some time while a run was created
    payableAlways, \* history: staff to be paid all the time while a run was created
    inFlight    \* history: edits that had read a draft run when it was finalized

tables == <<active, structure, run, payslip>>
creation == <<payableOnce, payableAlways>>
vars == <<tables, request, changes, creation, inFlight>>

-----------------------------------------------------------------------------
NoLines == [allowances |-> 0, deductions |-> 0]
NoStructure == [gross |-> 0, lines |-> NoLines, row |-> FALSE]
NoRun == [period |-> "none", status |-> "none"]
NoSlip == [gross |-> 0, lines |-> NoLines, net |-> 0, row |-> FALSE]

Idle == [pc |-> "idle", run |-> "none", staff |-> "none", saw |-> "none", snapshot |-> <<>>]
Finished == [Idle EXCEPT !.pc = "finished"]

\* net = gross + allowances - deductions; nothing keeps it above zero.
Net(gross, lines) == gross + lines.allowances - lines.deductions

Payable(s) == active[s] /\ structure[s].row

EligibleOrLeft == {s \in Staff : structure[s].row}
Eligible == {s \in Staff : Payable(s)}

Creating(r) == {k \in Requests : request[k].run = r /\ request[k].pc \in {"inserted", "snapshot"}}

Committed(r) == run[r] # NoRun /\ Creating(r) = {}

Init ==
    /\ active = [s \in Staff |-> TRUE]
    /\ structure = [s \in Staff |-> NoStructure]
    /\ run = [r \in RunIds |-> NoRun]
    /\ payslip = [r \in RunIds |-> [s \in Staff |-> NoSlip]]
    /\ request = [k \in Requests |-> Idle]
    /\ changes = 0
    /\ payableOnce = [r \in RunIds |-> {}]
    /\ payableAlways = [r \in RunIds |-> {}]
    /\ inFlight = {}

-----------------------------------------------------------------------------
(* Staff and salaries.                                                     *)

\* While a run is created, staff and salaries may still change.
Watch ==
    LET now == {s \in Staff : active'[s] /\ structure'[s].row}
    IN /\ payableOnce' = [r \in RunIds |-> IF Creating(r) = {} THEN payableOnce[r] ELSE payableOnce[r] \cup now]
       /\ payableAlways' = [r \in RunIds |-> IF Creating(r) = {} THEN payableAlways[r] ELSE payableAlways[r] \cap now]

\* deactivate_staff; import_staff activates again.
SetActive(s) ==
    /\ changes < MaxChanges
    /\ changes' = changes + 1
    /\ active' = [active EXCEPT ![s] = ~@]
    /\ UNCHANGED <<structure, run, payslip, request, inFlight>>
    /\ Watch

FindStaff(k, s) ==
    /\ request[k] = Idle /\ active[s]
    /\ request' = [request EXCEPT ![k] = [Idle EXCEPT !.pc = "salary", !.staff = s]]
    /\ UNCHANGED <<tables, changes, creation, inFlight>>

UpsertSalaryStructure(k, gross, lines) ==
    /\ request[k].pc = "salary" /\ changes < MaxChanges
    /\ changes' = changes + 1
    /\ structure' = [structure EXCEPT ![request[k].staff] = [gross |-> gross, lines |-> lines, row |-> TRUE]]
    /\ request' = [request EXCEPT ![k] = Finished]
    /\ UNCHANGED <<active, run, payslip, inFlight>>
    /\ Watch

-----------------------------------------------------------------------------
(* create_run: one transaction of four statements.                         *)

\* The check sees committed runs.
CheckNoRun(k, period) ==
    /\ request[k] = Idle
    /\ ~\E r \in RunIds : Committed(r) /\ run[r].period = period
    /\ request' = [request EXCEPT ![k] = [Idle EXCEPT !.pc = "create", !.saw = period]]
    /\ UNCHANGED <<tables, changes, creation, inFlight>>

\* uq_payroll_run_period: the INSERT waits for a transaction that has inserted
\* the period, and fails once that one has committed.
PeriodTaken(period) == \E r \in RunIds : run[r].period = period
PeriodWaits(period) == \E r \in RunIds : run[r].period = period /\ ~Committed(r)

InsertRun(k) ==
    LET period == request[k].saw
    IN /\ request[k].pc = "create" /\ ~PeriodWaits(period)
       /\ IF PeriodTaken(period)
          THEN request' = [request EXCEPT ![k] = Finished] /\ UNCHANGED <<run, creation>>
          ELSE \E r \in RunIds :
                  /\ run[r] = NoRun
                  /\ run' = [run EXCEPT ![r] = [period |-> period, status |-> "draft"]]
                  /\ request' = [request EXCEPT ![k] = [@ EXCEPT !.pc = "inserted", !.run = r]]
                  /\ payableOnce' = [payableOnce EXCEPT ![r] = {s \in Staff : Payable(s)}]
                  /\ payableAlways' = [payableAlways EXCEPT ![r] = {s \in Staff : Payable(s)}]
       /\ UNCHANGED <<active, structure, payslip, changes, inFlight>>

\* Nobody with a salary: the transaction rolls back.
Snapshot(k) ==
    /\ request[k].pc = "inserted"
    /\ IF Eligible = {}
       THEN /\ run' = [run EXCEPT ![request[k].run] = NoRun]
            /\ request' = [request EXCEPT ![k] = Finished]
       ELSE /\ request' = [request EXCEPT ![k] =
                             [@ EXCEPT !.pc = "snapshot", !.snapshot = [s \in Eligible |-> structure[s]]]]
            /\ UNCHANGED run
    /\ UNCHANGED <<active, structure, payslip, changes, creation, inFlight>>

SlipFor(k, s) ==
    LET salary == request[k].snapshot
    IN IF s \notin DOMAIN salary THEN NoSlip
       ELSE [gross |-> salary[s].gross, lines |-> salary[s].lines,
             net |-> Net(salary[s].gross, salary[s].lines), row |-> TRUE]

CommitRun(k) ==
    /\ request[k].pc = "snapshot"
    /\ payslip' = [payslip EXCEPT ![request[k].run] = [s \in Staff |-> SlipFor(k, s)]]
    /\ request' = [request EXCEPT ![k] = Finished]
    /\ UNCHANGED <<active, structure, run, changes, creation, inFlight>>

-----------------------------------------------------------------------------
(* update_payslip: the join with the run is read as of the statement's     *)
(* start, then the payslip's row is locked, and only then is it written.   *)

ReadPayslip(k, r, s) ==
    /\ request[k] = Idle /\ Committed(r) /\ payslip[r][s].row
    /\ request' = [request EXCEPT ![k] =
                     [Idle EXCEPT !.pc = "edit", !.run = r, !.staff = s, !.saw = run[r].status]]
    /\ UNCHANGED <<tables, changes, creation, inFlight>>

SlipLocked(r, s) == \E k \in Requests : request[k].pc = "locked" /\ request[k].run = r /\ request[k].staff = s

LockAnyPayslip(k) ==
    /\ request[k].pc = "edit"
    /\ ~SlipLocked(request[k].run, request[k].staff)
    /\ request' = [request EXCEPT ![k].pc = "locked"]
    /\ UNCHANGED <<tables, changes, creation, inFlight>>

LockPayslip(k) ==
    /\ request[k].pc = "edit"
    /\ ~SlipLocked(request[k].run, request[k].staff)
    /\ request' = [request EXCEPT ![k] = IF @.saw # "draft" THEN Finished ELSE [@ EXCEPT !.pc = "locked"]]
    /\ UNCHANGED <<tables, changes, creation, inFlight>>

UpdatePayslip(k, lines) ==
    LET r == request[k].run
        s == request[k].staff
    IN /\ request[k].pc = "locked"
       /\ payslip' = [payslip EXCEPT ![r][s].lines = lines,
                                     ![r][s].net = Net(payslip[r][s].gross, lines)]
       /\ request' = [request EXCEPT ![k] = Finished]
       /\ UNCHANGED <<active, structure, run, changes, creation, inFlight>>

FinalizeRun(r) ==
    /\ Committed(r) /\ run[r].status # "finalized"
    /\ run' = [run EXCEPT ![r].status = "finalized"]
    /\ inFlight' = inFlight \cup {k \in Requests : request[k].run = r /\ request[k].pc \in {"edit", "locked"}}
    /\ UNCHANGED <<active, structure, payslip, request, changes, creation>>

\* A request's process stops; its transaction rolls back.
Dies(k) ==
    /\ request[k].pc \notin {"idle", "finished"}
    /\ run' = [r \in RunIds |-> IF k \in Creating(r) THEN NoRun ELSE run[r]]
    /\ request' = [request EXCEPT ![k] = Finished]
    /\ UNCHANGED <<active, structure, payslip, changes, creation, inFlight>>

-----------------------------------------------------------------------------
Next ==
    \/ \E s \in Staff : SetActive(s)
    \/ \E r \in RunIds : FinalizeRun(r)
    \/ \E k \in Requests :
          \/ \E s \in Staff : FindStaff(k, s)
          \/ \E gross \in Gross, lines \in Lines : UpsertSalaryStructure(k, gross, lines)
          \/ \E period \in Periods : CheckNoRun(k, period)
          \/ InsertRun(k)
          \/ Snapshot(k)
          \/ CommitRun(k)
          \/ \E r \in RunIds, s \in Staff : ReadPayslip(k, r, s)
          \/ LockPayslip(k)
          \/ \E lines \in Lines : UpdatePayslip(k, lines)
          \/ Dies(k)

Spec == Init /\ [][Next]_vars

-----------------------------------------------------------------------------
(* Properties.                                                             *)

TypeOK ==
    /\ active \in [Staff -> BOOLEAN]
    /\ structure \in [Staff -> [gross : Nat, lines : [allowances : Nat, deductions : Nat], row : BOOLEAN]]
    /\ run \in [RunIds -> [period : Periods \cup {"none"}, status : {"none", "draft", "finalized"}]]
    /\ \A k \in Requests : request[k].run \in RunIds \cup {"none"}
    /\ payslip \in [RunIds -> [Staff -> [gross : Nat, lines : [allowances : Nat, deductions : Nat],
                                         net : Int, row : BOOLEAN]]]
    /\ changes \in 0 .. MaxChanges
    /\ inFlight \subseteq Requests

\* A payslip of a finalized run changes only by an edit that had read the run
\* as a draft before it was finalized, and no other edit ever reaches it
\* (update_payslip locks the payslip, finalize_run the run, so neither waits
\* for the other).
LateEditsWereInFlight ==
    [][\A r \in RunIds, s \in Staff :
          (run[r].status = "finalized" /\ payslip'[r][s] # payslip[r][s])
              => \E k \in inFlight : /\ request[k].run = r /\ request[k].staff = s
                                     /\ request[k] # Finished /\ request'[k] = Finished]_vars

\* However two requests for the same month, salary changes and deactivations
\* interleave: a month has one run, every run pays someone, everybody who was
\* to be paid all the while it was created has a payslip in it, and nobody who
\* was never to be paid then (create_run checks, inserts, reads and writes in
\* four statements).
RunsAreSnapshots ==
    \A r \in RunIds : Committed(r) =>
        LET paid == {s \in Staff : payslip[r][s].row}
        IN /\ \A q \in RunIds : (Committed(q) /\ run[q].period = run[r].period) => q = r
           /\ paid # {}
           /\ payableAlways[r] \subseteq paid
           /\ paid \subseteq payableOnce[r]
=============================================================================
