# A TLA+ model of Tulips.edu

Tulips.edu is a multi-tenant school ERP: a FastAPI backend over PostgreSQL
(asyncpg, READ COMMITTED, autocommit unless the code opens
`conn.transaction()`; four gunicorn workers), one background worker, and a
Preact frontend with an offline attendance queue. This directory models the
parts of it in which several actors change shared state, checks them with TLC
on small instances and proves the most important results with TLAPS. Paths
below are relative to `backend/` unless they start with `frontend/` or
`migrations/`.

## The system

| Component | State it keeps | Operations | What makes it hard | Correct when |
|---|---|---|---|---|
| Fee payments (`services/payment.py`, `fee_collection.py`, `parent_payment.py`) | `fee_ledger`, `fee_payments`, `fee_payment_items`, `fee_receipt_counters` | create order, webhook, claim, approve, reject, desk collection, waive | five channels settle the same rows; orders are created statement by statement; webhooks are late, repeated or lost | no row is paid twice, nothing is settled uncharged, receipts are gapless |
| Ledger generation (`services/finance.py`, `api/v1/fees.py`) | `fee_heads`, `fee_schedules`, `fee_ledger`, `student_fee_discounts` | generate, levy, discounts, groups, import, reports | generation is repeated, reads statement by statement and locks nothing | one row per student, head and period, at a price its schedule makes |
| Worker (`worker/main.py`, `registry.py`, `handlers/`) | `worker_cursors`, `worker_dlq`, `notifications` | batch, dead-letter retry, restart | ids of the outbox are not in commit order; handlers are several commits | every event is delivered once or parked |
| Scheduler (`worker/scheduler.py`) | statuses, `reminded_at`, `escalated_at` | lifecycle, claim escalation, order sweep, reconciliation, admissions aging | repeated runs; payments between two statements; runs across midnight | statuses only advance, nobody is forgotten |
| Attendance (`services/attendance.py`, `frontend/src/views/Attendance.tsx`, `db/idb.ts`) | sessions, records, the offline queue | open, mark, submit, correct, flush | offline replay into a session that is being submitted or locked | absentees' parents hear of it, taps are not lost |
| Exams (`services/exam.py`) | terms, papers, components, marks | term transitions, marks entry, results | marks saved while a term is being locked; two computations of one total | a closed term takes no new marks; entry and grid agree |
| Payroll (`services/payroll.py`) | structures, runs, payslips | create run, edit payslip, finalize | a payslip edited while its run is finalized | one run a month, a snapshot of who was to be paid |
| Admissions (`api/v1/admissions.py`) | `admissions`, `students` | enquiry, documents, advance, enrol; the hourly nudge | a status change against an enrolment; a sweep that dies between event and stamp | one student per admission |
| Students and years (`services/student.py`) | `students`, `academic_years` | create, import, move, leave, rollover | a ledger generated from rows that change meanwhile; current flag cleared | one current year, dues carried once |
| Staff, roles, tokens (`services/staff.py`, `services/auth.py`, `core/`, `middleware/`) | staff, users, tokens, roles, assignments | link a login, replace roles, login, refresh, scope checks | roles change while a token lives; DELETE and INSERT commit apart | nobody acts outside role and scope for longer than a token lives |
| Parent portal (`services/parent.py`, `api/v1/parent_auth.py`, `api/v1/parent.py`) | password hashes, `parents` with their codes, `parent_students` | login, code, change and reset of a password, pages | every handler reads in one statement and acts in another | what was superseded opens nothing for longer than a token lives |
| Timetable, homework, notifications, CMS, uploads, activity log, dashboards | their tables | create, update, read | little: single-statement changes | |

The components meet in the database. Every service writes its `audit_events`
row in the transaction of the change (`core/events.py`), the worker reads that
table as its queue, and the scheduler, which runs inside the worker, changes
the rows the services own. The gateway calls back over HTTP, the phone replays
its queue over HTTP.

## Modules

| Module | Models | Checked by |
|---|---|---|
| `FeePayments` | all money operations on one student's ledger rows | `fee_payments`, `fee_live` |
| `FeeLedger` | the abstract ledger `FeePayments` implements | `fee_payments` (`ImplementsFeeLedger`) |
| `MoneyLocks` | the same transactions statement by statement under row locks; EXTENDS `FeePayments` | `money_locks` |
| `FeePaymentsProofs` | the theorems of all three; EXTENDS `MoneyLocks` | TLAPS |
| `StudentLedger` | students, schedules, concessions, generation of the ledger, academic years | `student_ledger` |
| `FeeReports` | what each report takes from the ledger; EXTENDS `StudentLedger` | `student_ledger` |
| `StudentLedgerProofs` | the theorems of both | TLAPS |
| `FeeLifecycle` | the scheduler's hourly lifecycle and overdue scan | `fee_lifecycle` |
| `WorkerSpine`, `WorkerSpineProofs` | outbox, cursor, handlers, dead letters | `worker_spine`, TLAPS |
| `Attendance` | sessions, records and alerts on the server | through `AttendanceDevice` |
| `AttendanceDevice`, `AttendanceProofs` | a teacher's phone, its queue and the network; EXTENDS `Attendance` | `attendance`, TLAPS |
| `ExamTerms` | one term and subject: lifecycle, setup, overlapping saves of marks | `exams` |
| `ExamResults` | the computation of results, twice as the code has it | `exams` (`ExamTerms` EXTENDS it) |
| `Totals` | sums and products over a set and the two roundings, which both use | `exams` |
| `Payroll`, `PayrollProofs` | salary structures, runs, payslips | `payroll`, TLAPS |
| `Admissions` | the pipeline, enrolment, the hourly nudge | `admissions` |
| `LifecycleProofs` | the theorems of `FeeLifecycle`, `Admissions`, `ExamTerms` and `ExamResults` | TLAPS |
| `StaffAccess`, `StaffAccessProofs` | staff, logins, roles, tokens, class scopes | `staff_access`, TLAPS |
| `ParentPortal`, `ParentPortalProofs` | the parents' logins, codes, sessions and pages | `parent_portal`, TLAPS |

Each `MC` module names the instance of the module it is called after.
Definitions such as `LockedByNobody` or `ReadAnyStatus`, which no next-state
relation uses, are the bugs that the properties have been seen to catch.
`LifecycleProofs` extends three components that share nothing, so that each
brings its own theorems and the exam its arithmetic; their names therefore must
not clash, which is why `Admissions` and `ExamTerms` say `AdmissionsInit` and
`TermInit` where other modules say `Init`.

### FeePayments

One tenant and one student. `ledger`, `pay`, `items`, `counter` and `log` are
`fee_ledger`, `fee_payments`, `fee_payment_items`, the tenant's receipt counter
and the events of each payment in `audit_events`. An amount is kept as the set
of priced lines it was summed from, which tells apart every pair of sums the
properties compare. `pending`, `due` and `overdue` are all "unpaid": no money
operation distinguishes them.

`create_payment_order` has no transaction, so it is one action per statement
(`OrderReadsLedger`, `OrderInsertsPayment`, `OrderInsertsItems`,
`OrderGetsGatewayId`, and `OrderRequestDies` between any two). Every other
operation runs in `conn.transaction()` and is one action: `Webhook` (Razorpay,
PhonePe and the mock checkout all end in `_mark_payment_success`), `Collect`,
`Claim`, `Approve`, `Reject`, `Waive`, `SetDiscounts`, `Sweep`. That they may
be taken in one step is not assumed: `MoneyLocks` checks it.

Left out: a webhook that changes nothing (duplicate, late, or turned away by
NOWAIT) is a stutter; `processing` is never visible after a commit;
`gateway_payment_id`'s unique index cannot fire because a payment is settled
once.

### MoneyLocks

Each of the transactions above as its sequence of statements: `FOR UPDATE` on
ledger rows, `FOR UPDATE NOWAIT` on the payment joined with the tenant, the
update lock on the counter, the share lock a foreign key takes. `held` is who
holds which lock in which mode (PostgreSQL's conflict table for the modes that
occur). Writes take effect at COMMIT, reads see what is committed. Each
transaction of the instance runs once, so the run ends: deadlock checking is
off. `fee_heads` rows, which `record_offline_payment` also locks, are left out:
nothing else in the instance locks them.

### WorkerSpine

Ids of `audit_events` are drawn in order and committed in any order. A tick
reads a batch above the cursor, runs each handler (a number of notification
INSERTs, each its own commit, each under the dedup index), parks a failure in
the dead-letter queue and moves the cursor; a retry round takes due rows, and a
row is closed when it is resolved or has failed `MAX_ATTEMPTS` times.
`TickFails` is an exception or the death of the process between any two
commits; `DeployWithout` is a restart without a handler. `notified` is the set
of keys of the dedup index, the type of a notification and what it is about, so
two events about one subject whose handlers write the same type have one
notification between them (a term published again is announced once), and a
delivered event is one whose keys are all there. A handler whose key differs
from run to run would notify more than once; the two that date theirs,
`claim_escalated` and `admission_stale`, have statements that no argument list
can be bound to (`Mistyped`) and never write one. One worker runs, as
deployed. `RETRY_BATCH` (20) is not reached; the order of due rows is left
open. `overtaken` is a history variable: ids that committed after a larger id
had been read.

### FeeLifecycle

`fee_lifecycle_advance` statement by statement: advance to due, find overdue,
select reminders, write notices and stamps, commit or fail. Days pass and rows
are paid or waived between any two statements, subject to the row locks the
first updates take; `Pay` also pays a waived row, as the webhook does. `noticed`
is the set of keys of the dedup index. `scan.today` is the day the scan read when it began.

### Attendance and AttendanceDevice

`Sessions` are sections taking attendance on one day; `over` says that the
day's IST date has passed. A request is asked, reads (the lock check and the
`submitted` flag), and writes in a transaction, or is refused or fails before;
its client may give up waiting at any time while it goes on, which is also how
a lost answer looks. A successful answer is heard at once: one that is slow to
arrive is a slow request. `get_or_create_session` is one step: the loser of the race violates
`unique_session_per_day` and changes nothing. The phone has a view, a queue in
IndexedDB and the online flag; its actions are the view's handlers. Status "L"
behaves as "P" and is left out, as are class scopes (access control) and the
view's read-only toggle (its edit button is always there). That the worker
delivers the events it reads is taken from `WorkerSpine`, with the exception
found there. `stale` and `owed` are history variables.

### StudentLedger and FeeReports

A row of `fee_ledger` is keyed as the two partial unique indexes key it: by
student, head and month, or student, head and year, and not by academic year.
Generation reads students, schedules and discounts in three statements
(`ReadStudents`, `ReadSchedules`, `ReadDiscounts`) and inserts with ON CONFLICT
DO NOTHING (`InsertRows`), so it may be overtaken at each; it is reached from the
office's button, the two imports, a new student and an enrolment, of which the
last two and the import of a structure have rows of their own in the same or an
earlier transaction. `set_student_discounts` is one transaction of five
statements; what its DELETE waits for and then does not see is
`ReplaceDiscounts`. Amounts are in paise and the two ways of rounding, Python's
half-to-even and PostgreSQL's half-up, are both there. `drift` is a history
variable: the rows whose price may be out of date, by a named cause.
`levy_fee_group` is part of an enrolment's `InsertRows`.

`FeeReports` gives each report the rows it sums, with the conditions of its own
query: the dues and their export, the ledger of a student, the dashboard's
totals, the recovery by class, the parents' summary. Not taken over: the
defaulters (they need due dates, which generated rows lack), the payment log,
the limit of eight classes in the dashboard's chart, creating heads, classes
and years.

### ExamTerms and ExamResults

A save asks whether the term is open, then whether the marks fit, then writes;
only the write is a transaction, and its roll-up sees the committed scores and
its own. `ConfigureComponents` replaces the others with their scores (ON DELETE
CASCADE) and keeps the ids of those that stay; a save that has written a score
holds a key lock on its component. A score is typed, absent or left blank
(`marks_obtained` NULL); the last two count as nothing in the entry, and where
there is nothing else the grid shows no total (`NoTotal`). The grid
(`GridTotal`) and the entry (`RollUp`) are two pieces of code that should agree:
both divide what was earned by what could be (`Earned`, `Attainable`), over a
common denominator, but the entry is rounded by PostgreSQL, half away from zero
(`RoundAway`), and the grid by Python's Decimal, half to even (`RoundEven`).
`GridMatchesEntry` says that they are then the same but for the tie.

`ExamResults` has the two computations over the same rows, the sheet of a term
(which the report card prints) and the consolidated result of a year. One
divides floats, the other Decimals that it then makes floats; which tenth a tie
goes to depends on the binary value, so a percentage is any of the `Nearest`
tenths and a result one of several. `TermAndYearAgree` compares all of them over
all small sheets, to a tenth. Left out: subjects as such, the layout of sheets.

### Payroll

`create_run` is check, INSERT, SELECT and INSERT of one transaction at READ
COMMITTED: the check sees committed runs, the INSERT waits for a rival at the
unique index, and the snapshot is of that statement's moment. `update_payslip`
locks the payslip and has read the run's status before; `finalize_run` writes
the run. `payableOnce` and `payableAlways` record who was to be paid at some
moment, and at every moment, of a run's creation.

### Admissions

`advance_status` takes its FOR UPDATE outside a transaction, so the lock is gone
with its statement: `ReadStatus` and `WriteStatus` are two actions with anything
between them. `enrol_student` keeps the row to its COMMIT, chooses the largest
committed number and one, and meets a rival at the unique index. The ledger of
the new student is in `StudentLedger`. `admissions_aging` emits an event and
stamps the row in two commits, and may die in between. `late`, `overtaken`,
`told` and `unstamped` are history variables.

### StaffAccess

`set_staff_roles` finds, checks, creates and links a login and replaces its
roles in up to five commits; `import_staff` goes through the same DELETE and
INSERT. A login reads the roles, hashes the password and emits its event before
it signs its tokens; a refresh reads the roles anew and gives its connection
back first: `Login` or `AuthRefresh` and `SignTokens` are two actions, and a
role may be taken away between them. Time passes in ticks, of which a login, a
refresh or a request may last at most `ServiceLife` (a bound of the model; the
properties name it). A request in service takes its roles from the token and
reads its class scope from the database in two statements. `current` is the set
of replacements that no later DELETE has undone, `notHeld` the time since a
login last held a role, `known` what a request in service could have read.
Deactivating a member of staff touches neither login, roles nor tokens, and two
members with one phone may share a login: both are in the model. Passwords are
left out.

### ParentPortal

A child's password is its hash, or the end of its phone's number where none is
set; with the flag `parent_password` off, none is asked for. Every handler is a
read and a write in two statements. A code is a number drawn in order; its
UPDATE does not ask for the code that was checked. A session's pages are read in
two steps, of which some look at `is_active` and some do not. `age` is the time
since a credential last opened a child's pages, `overtaken` marks a request
whose row was written between its two statements.

## Runs

| Run | Question | Instance | Result |
|---|---|---|---|
| `fee_payments` | Do the channels ever pay a row twice, orphan a paid row, issue a wrong receipt or event, reopen a closed payment? Is every transaction a step of `FeeLedger`? | 2 rows, 3 payments, symmetric | holds, 68 thousand states |
| `fee_live` | Do discounts between read, claim, order and settlement ever change what was charged? Is every order resolved and its rows released? | 2 rows, 2 payments, 2 prices, fairness | holds, 353 thousand states |
| `money_locks` | Is every commit what the transaction does alone? | any 2 transactions, an old order and a second order or a claim | holds |
| `student_ledger` | Is every unpaid row at a price its schedule, season and concession make? Is the admission group billed to newcomers alone? Do the reports add up? | 1 student, 2 classes, 2 years, 3 heads, 3 requests of which 2 overlap | holds, 488 thousand states |
| `fee_lifecycle` | Do statuses only advance, is an overdue row's parent always told, is every late row found? | 2 rows, 9 days, fairness | holds, 44 thousand states |
| `worker_spine` | With crashes, failures and late commits: is an event lost, resolved undelivered, parked more than once per crash, blocked, or retried for ever? | 2 events, 2 kinds, 2 subjects, 2 attempts, 1 crash, fairness | holds, 76 thousand states |
| `attendance` | Are absentees alerted, are taps kept, does the queue drain? | 2 sessions, 1 student, 2 requests at a time, 2 edits, fairness | holds, 302 thousand states |
| `exams` | Is a closed term written only by saves that were under way? Do entry and grid, and the two computations of results, agree but for their rounding? Does a roll-up pass a hundred? | 1 student, 2 components, 2 saves, 2 setups; results over 2 terms of 2 subjects | holds, 802 thousand states |
| `payroll` | Is each run the snapshot of a month? Which edits reach a finalized payslip? | 2 staff, 2 months, 4 requests, 4 changes | holds |
| `admissions` | How many students can one admission get, which moves break the table of transitions, how often is a stale one announced? | 2 admissions, 2 requests at a time, 5 in all, 1 crash | holds, 2.3 million states |
| `staff_access` | How long is a revoked role served, which roles survive overlapping replacements, who may write to a class? | 2 staff, 2 phones, 2 roles, 2 replacements, a login or refresh at a time, 1 token of each type | holds, 1.3 million states |
| `parent_portal` | What does a superseded password or code still open, and for how long? | 1 child, a phone and a placeholder, 2 codes, 2 requests | holds, 1.5 million states |

The type invariants of `FeePayments`, `WorkerSpine`, `FeeLifecycle`,
`StaffAccess`, `ParentPortal`, `Payroll`, `Admissions` and `ExamTerms` are proved
and not run. `LTypeOK` of `MoneyLocks` and `TypeOK` of the attendance and ledger
modules held in runs of the same instances with the line added to the `.cfg`; the
types their proofs need are in the inductive invariants (`TablesInv`).

### Bounds, and why they are enough

- Two ledger rows are the least with which two payments overlap on some rows
  and not on others; three payments let an order, a claim and a collection
  meet. Discounts need two prices; the liveness run does with two payments.
  The proofs lift all of these bounds for safety.
- Two transactions at a time: two already give every conflict of two lock
  modes; cycles of three are not covered.
- `student_ledger`: of three requests one can write, one can have read before,
  and one can come after; a monthly head that is seasonal and for transport, an
  annual one and a grouped one are the kinds generation tells apart. Two classes
  and the schedule of all classes are the least that can differ; the years share
  a calendar month, so a key that ignores the academic year matters. Rows of
  different students never meet, so one student is enough.
- `worker_spine`: two events are the least in which one overtakes another, and
  they are about one subject or about two; two attempts give a retry that is not
  the last; one crash or restart can fall between any two commits, beside the
  failures of handlers, which are not bounded. The three invariants also held
  with three events (2.5 million states), and the proofs take any number of
  events, subjects and crashes.
- Nine days hold a due window, a grace period and two reminder intervals at
  the reduced lengths of two days each; the code's constants are larger, but
  they enter the comparisons only.
- `MaxEdits` bounds the taps, submissions and requests of the office together:
  two let a mark cross a submission, an override follow a submission, and a
  queued tap meet a newer one. Two sessions are needed for a queue that
  outlives its session.
- `exams`: two saves overlap in every way two can; two setups configure and
  reconfigure; two components are the least of which one is missing. A
  mark of 2 is above a maximum of 1 and below one of 32, at half the weight of
  which it is 3.125 percent, a tie that the two roundings resolve differently;
  on a sheet one of 80 is a tie between two tenths.
- `payroll`: four requests let two creations, a salary and an edit meet.
- `admissions`: five requests take an admission from its documents to approval
  and past a second enrolment; one day is the shortest time to become stale.
- `staff_access`, `parent_portal`: the lives of tokens are one to three ticks;
  what the properties compare are sums of them, and the proofs take any lives,
  phones and numbers of requests.

### Fairness, and what justifies it

- `FeePayments`: order requests end or die, days pass, and the sweep runs
  (hourly in `worker/main.py`). Payers, parents and accountants need not act.
- `WorkerSpine`: the worker's own steps and the end of backoffs; the polling
  loop runs for ever and restarts are finite (`MaxCrashes`). `HealthySpec` adds
  that no accidental failure occurs: it makes the escalation's failure its own.
- `FeeLifecycle`: days pass and the scan starts (weak), and its later
  statements, disabled when it fails, get through if tried again and again
  (strong): the scan is hourly and its failures are not permanent.
- `AttendanceDevice`: requests end on the server and for the view (fetch and
  the pool have timeouts), and the network goes and comes back again and again.
  The last is a real assumption about the environment: the view flushes on an
  `online` event or when a session opens, and on nothing else, so marks queued
  by a failed request while the browser stays online wait for either.
- The other modules state no fairness and no liveness: nobody in the code waits
  for an enrolment, a payroll run or a login to come about. Their requests are
  sent a bounded number of times, so their runs end and deadlock checking is
  off, as it is for `money_locks`.

## What is proved

TLAPS checks, for every value of the constants, every invariant and every action
property that the runs check, and the refinements:

- `FeePaymentsProofs`, from `NoneAssumption` and `IdsAssumption`: type
  correctness; no double live payment; a row is paid exactly when a paid
  payment's item covers it; claimed rows stay unpaid; claims and collections
  keep their items; nothing is settled uncharged; receipts are gapless; the
  outbox is exact; paid rows and closed payments are final; only an open
  gateway order charges a waived row; and the refinement of `FeeLedger`. From
  `LockableAssumption` as well, of `MoneyLocks` for any number of transactions:
  each may rely on what it locked (`LocksAreKept`), every commit is a step of
  `FeePayments` (`EveryCommitIsATransaction`), and so no double payment,
  finality and the refinement of `FeeLedger` hold statement by statement.
- `WorkerSpineProofs`, from `InsertsAssumption`, `MistypedAssumption` and
  `BoundsAssumption`: type correctness; an event is parked once per crash
  (`ParkedOncePerCrash`); nothing lost unless overtaken; resolved means
  delivered.
- `LifecycleProofs`. The fee row, from `DatesAssumption` and `DaysAssumption`:
  type correctness; grace is respected; an overdue row is notified;
  statuses only advance. Admissions, from `AdmissionsAssumption`: type
  correctness; `OneStudentPerAdmission`, `IllegalMovesWereOvertaken`,
  `NudgesAreThrottled`. The exam term, from `WeightAssumption` and
  `MarksAssumption`: type correctness; `LateWritesWereInFlight`,
  `RollUpsStayWithinHundred`, `GridMatchesEntry`; and from `SheetAssumption`,
  of any terms, subjects and marks: `ResultsAgree`.
- `StaffAccessProofs`, from `AccessAssumption`: type correctness;
  `RevokedRolesExpire`, `HeldRolesWereAskedFor`, `WritesWereEntitled`.
- `ParentPortalProofs`, from `PortalAssumption`: type correctness;
  `PagesFollowTheAccount`, `UsedWhatItChecked`.
- `PayrollProofs`, from `SalaryAssumption`: type correctness;
  `RunsAreSnapshots`, `LateEditsWereInFlight`.
- `AttendanceProofs`, from `MarksAssumption` and `StudentsAssumption` of
  `Attendance`: `UnalertedOnlyByStaleMark` and `TapsAreKept`, of the phone and
  the server together.
- `StudentLedgerProofs`, from `LedgerAssumption`: `OnlyNewcomersPayAdmission` and
  `UnpaidRowsPriced`; and from `ReportsAssumption` (no class and no year is
  called "any", which the reports use for a filter left out): `ReportsAgree`.

The assumptions say what the schema and the code's literals say: names do not
clash, prices and marks are numbers, weights and maxima are positive (the checks
of `exam_components` and of the request models), and the sets of components and
of students are finite. Nothing bounds the number of rows, requests, days or
transactions.

The argument for money. None of the properties is inductive. `IInv` adds what
they rest on: an item belongs to one row and is a line of a payment that is
open, claimed or paid (`ItemsInv`: the unique index of migration 032 and the
deletions of items of dead payments); a paid row and its paid item come
together (`PaidInv`); a payment prices a row once (`LinesInv`); a request in
flight is in step with its payment (`RequestInv`), which is why a late INSERT of
items cannot touch a settled payment; channel and status agree (`ChannelInv`);
claims and collections hold all their lines (`KeepInv`), since only an open
order's items are ever taken over. `Settle`, the part the webhook, the approval
and the collection share, has its effect stated once (`SettleEffect`), as do
the claim's and the collection's replacement of items (`TakeOverEffect`). Each
action preserves `IInv`; the properties follow. The refinement maps a row to its
status and the receipt of its payment: settlement is the abstract step, every
other action but the waiver leaves the image alone.

The argument for the row locks is rely and guarantee. `TxnOK` says, per
transaction, which locks its statement holds and what is true while it holds
them: a row locked for update keeps status and price, and nobody claims it; the
items read for deletion are still all there are on the rows; a counter's number
is still the next; a settlement's payment is still open. Every step of another
transaction leaves that alone, because `HeldInv` says that two transactions hold
compatible locks only. At COMMIT what a transaction relies on is exactly the
guard and the effect of its action in `FeePayments`, so `LInv`, which contains
`IInv`, gives `EveryCommitIsATransaction`, and the theorems of `FeePayments`
follow for `MoneyLocks` without being proved again. New payments need one lock
more: the foreign key of an inserted payment shares the tenant's row, which a
webhook's or an approval's update lock on the tenant excludes, so neither sees
the other's items change under it.

The argument for the worker. `BatchInv` says that a batch contains, up to its
last event, everything visible and not yet passed but the overtaken, and that
what the handler of its first event has done is recorded; so moving the cursor
past that event loses nothing. `RetryInv` says the same of the row being
retried: it is still waiting, has a handler, and its statements so far have
notified, so resolving it is right. `ParkedInv` counts: an event that the cursor
has not passed and whose handler is not at its end has at most as many rows as
there were crashes, and parking it, which is done once before the cursor moves,
adds the one more that the property allows. That statements are under the dedup
index makes re-running them harmless.

The argument for the fee row. The invariant relates a running scan to the
rows it has locked: what it lists as due or overdue is unpaid and stays so
until it commits, since payments and waivers wait for its locks; its day is not
after today; and an overdue row carries its notice and its stamp, which the
committing step writes together with the status.

The argument for roles and tokens. A role a login holds has age zero
(`RolesInv`), so what a login or refresh has read is no older than the ticks
since (`SignInsInv`); a token signed over it satisfies the sum that `TokensInv`
states, and a tick takes one from its life for the one it may add to the age. A request
in service (`ServingInv`) inherits the bound and adds its own ticks, and what it
has read is contained in `known`, which every change of staff or assignments
extends. `ReplacementsInv` says that a login's roles are exactly what the
current replacements that are past their INSERT asked for, and that those
between their two statements are current: a DELETE makes it so, and a failed
INSERT or a death takes its replacement out again.

The argument for the portal is the same for ages and sessions (`AgeInv`,
`SessionsInv`). For the two-statement handlers, `RequestsInv` says that a
request not marked overtaken still sees in the row what it had checked, and
`CodesInv` that the code in a row is the last one sent and has opened nothing
yet; so its second statement acts on what it checked.

The argument for payroll. `CreationsInv` says that a run somebody is creating
is that request's alone, that its payslips appear with its commit, and that who
was payable always, is payable now and was payable once contain each other in
that order; `RunsInv` that every other run is the snapshot such a creation left,
one a month by the unique index; `EditsInv` that an edit which read the run as a
draft counts as in flight if the run is finalized meanwhile.

The argument for admissions. `StaffInv` says that an enrolment is alone with its
admission, which stays approved because the row is locked, and that a change of
status whose move the table no longer allows has been overtaken: only such a
move is late. `StudentsInv` counts: an admission has at most as many students as
it has late writes, and one more while it is enrolled; an enrolment moves the
one into the other's place. `NudgeInv` says that the stamp is older than the
announcement only between the two commits of the sweep or after it died there.

The argument for the exam term. `SavesInv` says that the components a save names
are numbered as they were when it began; that a score which passed the check
still fits its component when it is written, unless a maximum was lowered (a
component with the same id has no smaller maximum, one with another id refuses
the row); and that a roll-up whose save missed nothing is what its rows give
now. `EntriesInv` says the same of an entry that nothing disturbed, so grid and
entry are nearest to the same fraction over the same components, and two numbers
that are nearest to one are at most one apart; or the grid divides by more, and
rounding keeps the order of fractions (`RoundedOrder`). `LateInv` says that whoever is past its check when the term closes is in
`inFlight`. That these percentages are numbers, at most a hundred, and grow
when the divisor shrinks, takes the laws of sums and products over a set of any
size. The library defines them by a fold, and the induction theorems with an
operator for a parameter are closed to this prover; so `SetInduction` is proved
for sets of sets, by a least element of the natural numbers' order
(`WFMin`), and from it that the fold's function exists and is the only one, how
it steps, and the laws the percentages need.

The argument for attendance. `UnalertedOnlyByStaleMark` is inductive once every
request is known to be for a session: a mark either emits an event of
`HANDLERS`, after which an alert is pending, or is recorded as stale, or finds
the session open; an alert reads the records anew. For `TapsAreKept`, `KeptInv`
adds that the queue is a sequence and that what a request carries is a finite
set, so that storing it queues exactly that. A tap is stored or in flight; a
failed one is stored again; a flush puts the queue in flight except what goes to
another session; and every write to the session, as every known cause, takes
what it carried out of `owed`.

The argument for the ledger. Nobody locks what a generation or a concession
reads, so `PricedInv` is rely and guarantee without locks: each request knows
that the classes, prices and percentages it has read are those of the tables
now, or has been overtaken (`ReqOK`), and every step leaves a request that or
overtakes it (`Leaves`, `Rely`). What an overtaken request writes is in `drift`;
what another writes is one of the prices the tables make. For the admission
group, no request has read a price of a grouped head (`NoGroup`), so what is left
is the levy of an enrolment. The reports are sums over sets of rows that each
query's conditions pick; that they agree is that these sets are, or nest.

Only model-checked: the liveness properties (`OrdersAreResolved`,
`StreamNeverBlocks`, `EventsAreSettled`, `LateRowsBecomeOverdue`, `QueueDrains`),
which need fairness and ENABLED, out of this prover's reach.

## Where the code and its words differ

Each of these is stated as a property next to the module's own, and is in no
run because it does not hold. Added to the named `.cfg`, TLC gives a
behaviour that violates it.

1. `PaidAmountEqualsItems` (`MCFeeLive.cfg`; `worker/scheduler.py:161`): a desk
   collection or a claim takes the items of an open order away; its payer pays
   the whole link, and the order is paid with fewer items than its amount.
2. `WaivedNeverCollected` (`MCFeeLive.cfg`; `services/fee_collection.py:161`):
   an order created before a waiver turns the waived row into a paid one.
3. `OnlyDuplicateWebhooksSkipped` (`MCMoneyLocks.cfg`; `services/payment.py:241`):
   NOWAIT also asks for the tenant's row, which every money transaction of the
   school locks; the only webhook of a paid order may be turned away, is
   acknowledged, and the sweep later fails the order.
4. `AtLeastOnce` (`MCWorkerSpine.cfg`; `worker/main.py:6`): the cursor passes an
   id whose transaction has not committed yet.
5. `EscalationsAreDelivered` (`MCWorkerSpine.cfg` with the kind in `Mistyped`
   and `HealthySpec`; `worker/handlers/fees.py:102`): `claim_escalated` binds an
   integer where PostgreSQL infers text; so does `admission_stale`. They can
   never succeed.
6. `FlushedToTheirSession` (`MCAttendance.cfg`;
   `frontend/src/views/Attendance.tsx:184`): marks queued in one session are
   posted to the session on screen.
7. `RolloverDelivers` (`MCStudentLedger.cfg`; `services/student.py:84`,
   BUILD.md:1537): the INSERT at `services/student.py:117` names
   `fee_schedule_id`, a column no migration gives `fee_ledger`, so no rollover
   ever commits. Were the column there, the carried rows would have the keys of
   the rows they are copied from, and ON CONFLICT DO NOTHING would drop them.

Others, met in reading or in exploratory runs:

- `worker/scheduler.py:262` sweeps orders with "no confirmed money behind
  them", but goes by age alone: a captured order whose webhook is late is failed.
- ARCHITECTURE.md:1067 says a dead order "never blocks a legitimate retry";
  `create_payment_order` (`services/payment.py:156`) does not remove the items
  of an abandoned order, so the retry conflicts until the sweep.
- BUILD.md:1552 promises repeated reminders; the notification's ref is the
  row's id, so the dedup index swallows every one after the first
  (`worker/scheduler.py:119`), which is why `noticed` is a set.
- Rows generated by `services/finance.py:484` have no due date and never become
  due; migration 028 fills it in once for the rows of its day.
- `services/finance.py:352` gives the recomputation of concessions "same
  precedence as generation"; generation reads schedules in no order, so either
  schedule of a row may win, and the two round a half differently. A levied
  row is priced again too, and the amount of a levy is that of any year.
- `frontend/src/views/Attendance.tsx:191` says "Re-enqueue if flush fails" and
  does not; a failed online "mark all present" is swallowed. `TapsAreKept`
  names both as the causes by which a tap is lost.
- A mark that read the session before it was submitted and writes after emits
  ATTENDANCE_MARKED, which alerts nobody: the exception in
  `UnalertedOnlyByStaleMark`.
- Migration 031 calls a run frozen once finalized; an edit that had read the
  draft still lands (the exception in `LateEditsWereInFlight`).
- `services/exam.py:583` rounds half to even what `services/exam.py:503` rounds
  half up: 0.625 is 0.63 in the entry and 0.62 in the grid. 49 of 80 is 61.3 in
  the sheet of a term (`services/exam.py:666`) and 61.2 in the year
  (`services/exam.py:808`). A student whose scores are all absent or blank has
  no total in the grid and an entry of 0, which the results count. Hence the
  allowances in `GridMatchesEntry` and `TermAndYearAgree`.
- Two saves of one student that overlap leave an entry that lacks a component
  (the exception "overlapped" in `GridMatchesEntry`). The consolidated result
  ignores passing marks: a student may fail every term and pass the year.
- `services/staff.py:155` calls it "Full-replace"; two that overlap leave the
  union, as `HeldRolesWereAskedFor` allows.
- BUILD.md:2168 has parents go from the code to the portal. The token of a
  code names a parent, every route of the portal takes it for a student, so such
  a session sees nothing. Parents' refresh tokens renew nothing, since
  `auth_refresh` finds no role of theirs. Results, timetable, report card,
  ledger, payments and notifications do not read `is_active`.

Hazards in PROJECT.json without a property are those whose expected behaviour
fails (3, 6 and 7 above, and deadlock: an approval takes the tenant's row before
the counter and the ledger, a collection after them, so PostgreSQL may kill one)
or where there is nothing to say but what the code does: `set_current_year`
clears every flag and commits before it notices that the chosen year does not
exist (`services/student.py:57`); a queued tap is sent again over a newer record;
a maximum lowered after marks were typed leaves percentages above a hundred
(`lowered` in `RollUpsStayWithinHundred`).

## Not modelled, and the plan

- Claim escalation and money reconciliation: the first has the two commits of
  `admissions_aging`, which is modelled; the second reads and reports.
- Timetable, homework, notifications, CMS, settings, activity log: one
  statement on one row under unique indexes, with events as in `WorkerSpine`.
- Documents (receipts, payslips and report cards as PDF), uploads, exports, the
  superadmin's pages, the public sites, seeds and repair scripts: they render,
  read, or talk to a store outside.
- Views of the frontend other than attendance: forms without state that
  outlives a page.
- Small things: `SetParentPhone` is not taken for an inactive student, `ClearCode`
  signs the token in the step that clears the code, and `StudentLedger` generates
  every month of the year at once.
- Creating heads, classes, sections, years and subjects; the one-time levy of a
  group other than at enrolment; staff passwords; the choice of a tenant.

Next, most important first: the safety half of the liveness properties (what an
order not yet resolved, a row not yet overdue or an item not yet flushed is
waiting for, so that only fairness is missing); which transactions of
`MoneyLocks` can deadlock, so that the others are shown not to; the types of
`Attendance` and `StudentLedger` as theorems; claim escalation as a second
instance of the sweep of `Admissions`.
