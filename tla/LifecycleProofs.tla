-------------------------- MODULE LifecycleProofs --------------------------
(***************************************************************************)
(* Three lifecycles of a school's office, for any sets of rows and any     *)
(* number of requests: the fee row and the admission, which staff and the  *)
(* hourly jobs of the scheduler move, and the exam term with its marks.    *)
(* Each has an inductive invariant of its own - IInv, AdmissionsInv and    *)
(* ExamInv - and its theorems follow from that.                            *)
(*                                                                         *)
(* The exam's theorems are about weighted percentages.  They rest on the   *)
(* laws of finite sums and products that come before them, which are       *)
(* proved by induction on the size of a set.                               *)
(***************************************************************************)
EXTENDS FeeLifecycle, Admissions, ExamTerms, FiniteSetTheorems, WellFoundedInduction, TLAPS

-----------------------------------------------------------------------------
(* The fee row: fee_lifecycle_advance.                                     *)

\* The scan read its day in the past; the rows it changes are still as it
\* found them, because it has locked them; and it reminds of every row that it
\* makes overdue.
ScanInv ==
    /\ scan.today <= today
    /\ \A r \in scan.due : row[r].status = "pending"
    /\ \A r \in scan.overdue : row[r].status \in {"pending", "due"} /\ PastGrace(r, scan.today)
    /\ scan.step \in {"idle", "advanced"} => scan.overdue = {}
    /\ scan.step = "selected" => scan.overdue \subseteq scan.remind

\* An overdue row has a date and is past its grace period, and its parent has
\* been told.
OverdueInv ==
    \A r \in Rows : row[r].status = "overdue" =>
        /\ PastGrace(r, today)
        /\ r \in noticed
        /\ row[r].reminded # NoDate

IInv == TypeOK /\ ScanInv /\ OverdueInv

-----------------------------------------------------------------------------
LEMMA DaysAreNumbers == Days \subseteq Nat
  BY DaysAssumption DEF Days

\* Only the step of a day's end changes the day; it never goes back.
LEMMA PastGraceLater ==
    ASSUME NEW r \in Rows, NEW day \in Int, NEW later \in Int, day <= later,
           row[r].due \in DueDates \cup {NoDate}, PastGrace(r, day)
    PROVE  PastGrace(r, later)
<1>1. row[r].due \in Int /\ row[r].due # NoDate /\ row[r].due <= day - GRACE_DAYS
  BY DatesAssumption DEF PastGrace
<1>2. GRACE_DAYS \in Int
  BY DaysAssumption
<1>3. row[r].due <= later - GRACE_DAYS
  BY <1>1, <1>2
<1> QED BY <1>1, <1>3 DEF PastGrace

LEMMA InitIInv == Init => IInv
<1> SUFFICES ASSUME Init PROVE IInv
  OBVIOUS
<1>1. \A r \in Rows : /\ row[r].status \in {"pending", "none"}
                      /\ row[r].reminded = NoDate
  BY DEF Init
<1>2. TypeOK
  <2>1. row \in [Rows -> [status : Statuses, due : DueDates \cup {NoDate}, reminded : Days \cup {NoDate}]]
    BY DEF Init, Statuses
  <2>2. today \in Days
    BY DaysAssumption DEF Init, Days
  <2>3. scan \in [step : ScanSteps, today : Days, due : SUBSET Rows, overdue : SUBSET Rows, remind : SUBSET Rows]
    BY DaysAssumption DEF Init, NoScan, ScanSteps, Days
  <2>4. noticed \subseteq Rows
    BY DEF Init
  <2> QED BY <2>1, <2>2, <2>3, <2>4 DEF TypeOK
<1>3. ScanInv
  BY DEF Init, NoScan, ScanInv
<1>4. OverdueInv
  BY <1>1 DEF OverdueInv
<1> QED BY <1>2, <1>3, <1>4 DEF IInv

-----------------------------------------------------------------------------
(* The actions.                                                            *)

LEMMA NextDayKeeps == IInv /\ NextDay => IInv'
<1> SUFFICES ASSUME IInv, NextDay PROVE IInv'
  OBVIOUS
<1> USE DEF NextDay
<1>1. today \in Nat /\ today' = today + 1 /\ today' \in Days
  BY DaysAssumption, DaysAreNumbers DEF IInv, TypeOK, Days
<1>2. TypeOK'
  BY <1>1 DEF IInv, TypeOK
<1>3. ScanInv'
  <2>1. scan.today \in Nat /\ scan.today <= today
    BY DaysAreNumbers DEF IInv, TypeOK, ScanInv
  <2>2. scan.today <= today'
    BY <1>1, <2>1
  <2> QED BY <2>2 DEF IInv, ScanInv, PastGrace
<1>4. OverdueInv'
  <2> SUFFICES ASSUME NEW r \in Rows, row[r].status = "overdue"
               PROVE  PastGrace(r, today') /\ r \in noticed /\ row[r].reminded # NoDate
    BY DEF OverdueInv, PastGrace
  <2>1. row[r].due \in DueDates \cup {NoDate}
    BY DEF IInv, TypeOK
  <2> QED BY <2>1, <1>1, PastGraceLater DEF IInv, OverdueInv
<1> QED BY <1>2, <1>3, <1>4 DEF IInv

\* A step that gives one unlocked row another status than overdue, and does
\* nothing else.
LEMMA StatusKeeps ==
    ASSUME IInv, NEW r \in Rows, NEW end \in {"pending", "paid", "waived"},
           ~ Locked(r),
           row' = [row EXCEPT ![r].status = end], UNCHANGED <<today, noticed, scan>>
    PROVE  IInv'
<1>1. /\ row'[r].status = end
      /\ \A x \in Rows : /\ row'[x].due = row[x].due
                         /\ row'[x].reminded = row[x].reminded
                         /\ x # r => row'[x].status = row[x].status
  BY DEF IInv, TypeOK
<1>2. TypeOK'
  BY DEF IInv, TypeOK, Statuses
<1>3. ScanInv'
  BY <1>1 DEF IInv, TypeOK, ScanInv, PastGrace, Locked
<1>4. OverdueInv'
  BY <1>1 DEF IInv, OverdueInv, PastGrace
<1> QED BY <1>2, <1>3, <1>4 DEF IInv

\* A row that does not exist yet is locked by nobody.
LEMMA GenerateKeeps == ASSUME IInv, NEW r \in Rows, Generate(r) PROVE IInv'
<1>1. ~ Locked(r)
  BY DEF IInv, ScanInv, Locked, Generate
<1> QED BY <1>1, StatusKeeps DEF Generate

LEMMA SettleKeeps == ASSUME IInv, NEW r \in Rows, Waive(r) \/ Pay(r) PROVE IInv'
  BY StatusKeeps DEF Waive, Pay

\* A step of the scan that writes no row.
LEMMA ScanStepKeeps ==
    ASSUME IInv, ScanInv', UNCHANGED <<today, row, noticed>>,
           scan' \in [step : ScanSteps, today : Days, due : SUBSET Rows,
                      overdue : SUBSET Rows, remind : SUBSET Rows]
    PROVE  IInv'
<1>1. TypeOK'
  BY DEF IInv, TypeOK
<1>2. OverdueInv'
  BY DEF IInv, OverdueInv, PastGrace
<1> QED BY <1>1, <1>2 DEF IInv

LEMMA ScanAdvancesKeeps == IInv /\ ScanAdvances => IInv'
<1> SUFFICES ASSUME IInv, ScanAdvances PROVE IInv'
  OBVIOUS
<1>1. /\ scan'.step = "advanced" /\ scan'.today = today
      /\ scan'.due = {r \in Rows : row[r].status = "pending" /\ InDueWindow(r, today)}
      /\ scan'.overdue = {} /\ scan'.remind = {}
  BY DEF ScanAdvances, NoScan
<1>2. scan' \in [step : ScanSteps, today : Days, due : SUBSET Rows, overdue : SUBSET Rows, remind : SUBSET Rows]
  BY DEF IInv, TypeOK, ScanAdvances, NoScan, ScanSteps
<1>3. today \in Int
  BY DaysAreNumbers DEF IInv, TypeOK
<1>4. ScanInv'
  BY <1>1, <1>3 DEF ScanAdvances, ScanInv
<1> QED BY <1>2, <1>4, ScanStepKeeps DEF ScanAdvances

LEMMA ScanFindsOverdueKeeps == IInv /\ ScanFindsOverdue => IInv'
<1> SUFFICES ASSUME IInv, ScanFindsOverdue PROVE IInv'
  OBVIOUS
<1>1. /\ scan'.step = "overdue" /\ scan'.today = scan.today /\ scan'.due = scan.due
      /\ scan'.overdue = {r \in Rows : row[r].status \in {"pending", "due"} /\ PastGrace(r, scan.today)}
  BY DEF IInv, TypeOK, ScanFindsOverdue
<1>2. scan' \in [step : ScanSteps, today : Days, due : SUBSET Rows, overdue : SUBSET Rows, remind : SUBSET Rows]
  BY DEF IInv, TypeOK, ScanFindsOverdue, ScanSteps
<1>3. ScanInv'
  BY <1>1 DEF IInv, ScanFindsOverdue, ScanInv, PastGrace
<1> QED BY <1>2, <1>3, ScanStepKeeps DEF ScanFindsOverdue

LEMMA ScanSelectsKeeps == IInv /\ ScanSelects => IInv'
<1> SUFFICES ASSUME IInv, ScanSelects PROVE IInv'
  OBVIOUS
<1>1. /\ scan'.step = "selected" /\ scan'.today = scan.today
      /\ scan'.due = scan.due /\ scan'.overdue = scan.overdue
      /\ scan.overdue \subseteq scan'.remind
  BY DEF IInv, TypeOK, ScanSelects
<1>2. scan' \in [step : ScanSteps, today : Days, due : SUBSET Rows, overdue : SUBSET Rows, remind : SUBSET Rows]
  BY DEF IInv, TypeOK, ScanSelects, ScanSteps
<1>3. ScanInv'
  BY <1>1 DEF IInv, ScanSelects, ScanInv, PastGrace
<1> QED BY <1>2, <1>3, ScanStepKeeps DEF ScanSelects

LEMMA ScanFailsKeeps == IInv /\ ScanFails => IInv'
<1> SUFFICES ASSUME IInv, ScanFails PROVE IInv'
  OBVIOUS
<1>1. today \in Nat /\ 0 \in Days
  BY DaysAssumption, DaysAreNumbers DEF IInv, TypeOK, Days
<1>2. scan' \in [step : ScanSteps, today : Days, due : SUBSET Rows, overdue : SUBSET Rows, remind : SUBSET Rows]
  BY <1>1 DEF ScanFails, NoScan, ScanSteps
<1>3. ScanInv'
  BY <1>1 DEF ScanFails, NoScan, ScanInv
<1> QED BY <1>2, <1>3, ScanStepKeeps DEF ScanFails

-----------------------------------------------------------------------------
\* What the commit writes: reminded_at and the notice go with each row
\* selected, and the only rows it makes overdue are among them.
LEMMA CommitEffect ==
    ASSUME IInv, ScanCommits, NEW r \in Rows
    PROVE  /\ row'[r].due = row[r].due
           /\ row'[r].status = IF r \in scan.overdue THEN "overdue"
                               ELSE IF r \in scan.due THEN "due" ELSE row[r].status
           /\ row'[r].reminded = IF r \in scan.remind THEN scan.today ELSE row[r].reminded
           /\ r \in noticed' <=> r \in noticed \/ r \in scan.remind
           /\ r \in scan.overdue => r \in scan.remind
  BY DEF IInv, TypeOK, ScanInv, ScanCommits, ScanStatus, WriteNotices

LEMMA ScanCommitsKeeps == IInv /\ ScanCommits => IInv'
<1> SUFFICES ASSUME IInv, ScanCommits PROVE IInv'
  OBVIOUS
<1>1. /\ today \in Nat /\ scan.today \in Nat /\ scan.today <= today /\ 0 \in Days
      /\ scan.today # NoDate /\ today' = today /\ scan' = NoScan
  <2>1. today \in Days /\ scan.today \in Days /\ scan.today <= today
    BY DEF IInv, TypeOK, ScanInv
  <2>2. 0 \in Days
    BY DaysAssumption DEF Days
  <2>3. today' = today /\ scan' = NoScan
    BY DEF ScanCommits
  <2>4. today \in Nat /\ scan.today \in Nat
    BY <2>1, DaysAreNumbers
  <2>5. scan.today # NoDate
    BY <2>4, DatesAssumption
  <2> QED BY <2>1, <2>2, <2>3, <2>4, <2>5
<1>2. TypeOK'
  <2>1. row' \in [Rows -> [status : Statuses, due : DueDates \cup {NoDate}, reminded : Days \cup {NoDate}]]
    <3>1. \A r \in Rows : /\ row[r] \in [status : Statuses, due : DueDates \cup {NoDate}, reminded : Days \cup {NoDate}]
                          /\ ScanStatus(r) \in Statuses
      BY DEF IInv, TypeOK, ScanStatus, Statuses
    <3>2. scan.today \in Days
      BY DEF IInv, TypeOK
    <3>3. ASSUME NEW x \in Rows, NEW new \in Days \cup {NoDate}
          PROVE  [row[x] EXCEPT !.status = ScanStatus(x), !.reminded = new]
                    \in [status : Statuses, due : DueDates \cup {NoDate}, reminded : Days \cup {NoDate}]
      BY <3>1, Zenon
    <3>4. \A x \in Rows : (IF x \in scan.remind THEN scan.today ELSE row[x].reminded) \in Days \cup {NoDate}
      BY <3>1, <3>2
    <3> QED BY <3>3, <3>4, Zenon DEF ScanCommits
  <2>2. noticed' \subseteq Rows
    BY DEF IInv, TypeOK, ScanCommits, WriteNotices
  <2>3. scan' \in [step : ScanSteps, today : Days, due : SUBSET Rows, overdue : SUBSET Rows, remind : SUBSET Rows]
    BY <1>1 DEF NoScan, ScanSteps
  <2> QED BY <2>1, <2>2, <2>3 DEF IInv, TypeOK, ScanCommits
<1>3. ScanInv'
  BY <1>1 DEF NoScan, ScanInv
<1>4. OverdueInv'
  <2> SUFFICES ASSUME NEW r \in Rows, row'[r].status = "overdue"
               PROVE  PastGrace(r, today)' /\ r \in noticed' /\ row'[r].reminded # NoDate
    BY DEF OverdueInv
  <2>1. row[r].due \in DueDates \cup {NoDate}
    BY DEF IInv, TypeOK
  <2>2. PastGrace(r, today) /\ (r \in scan.remind \/ (r \in noticed /\ row[r].reminded # NoDate))
    <3>1. CASE r \in scan.overdue
      <4>1. PastGrace(r, scan.today)
        BY <3>1 DEF IInv, ScanInv
      <4>2. PastGrace(r, today)
        BY <4>1, <2>1, <1>1, PastGraceLater
      <4> QED BY <3>1, <4>2, CommitEffect
    <3>2. CASE r \notin scan.overdue
      BY <3>2, CommitEffect DEF IInv, OverdueInv
    <3> QED BY <3>1, <3>2
  <2> QED BY <2>2, <1>1, CommitEffect DEF PastGrace
<1> QED BY <1>2, <1>3, <1>4 DEF IInv

LEMMA StepKeepsIInv == IInv /\ [Next]_vars => IInv'
<1> SUFFICES ASSUME IInv, [Next]_vars PROVE IInv'
  OBVIOUS
<1>1. CASE NextDay
  BY <1>1, NextDayKeeps
<1>2. ASSUME NEW r \in Rows, Generate(r) PROVE IInv'
  BY <1>2, GenerateKeeps
<1>3. ASSUME NEW r \in Rows, Waive(r) \/ Pay(r) PROVE IInv'
  BY <1>3, SettleKeeps
<1>4. CASE Scan
  BY <1>4, ScanAdvancesKeeps, ScanFindsOverdueKeeps, ScanSelectsKeeps, ScanCommitsKeeps DEF Scan
<1>5. CASE ScanFails
  BY <1>5, ScanFailsKeeps
<1>6. CASE UNCHANGED vars
  BY <1>6 DEF vars, IInv, TypeOK, ScanInv, OverdueInv, PastGrace
<1> QED BY <1>1, <1>2, <1>3, <1>4, <1>5, <1>6 DEF Next

LEMMA IInvHolds == Spec => []IInv
  BY InitIInv, StepKeepsIInv, PTL DEF Spec

-----------------------------------------------------------------------------
(* The theorems.                                                           *)

\* The state of the scan and of the rows is always of its type.
THEOREM TypeCorrect == Spec => []TypeOK
<1>1. IInv => TypeOK
  BY DEF IInv
<1> QED BY <1>1, IInvHolds, PTL

\* No row is called overdue before its grace period is over, however long
\* the scan that found it runs.
THEOREM GraceHolds == Spec => []GraceIsRespected
<1>1. ASSUME IInv, NEW r \in Rows, row[r].status = "overdue"
      PROVE  row[r].due + GRACE_DAYS <= today
  <2>1. row[r].due \in Int /\ row[r].due <= today - GRACE_DAYS
    BY <1>1, DatesAssumption DEF IInv, TypeOK, OverdueInv, PastGrace
  <2>2. today \in Int /\ GRACE_DAYS \in Int
    BY <1>1, DaysAssumption, DaysAreNumbers DEF IInv, TypeOK
  <2> QED BY <2>1, <2>2
<1>2. IInv => GraceIsRespected
  BY <1>1 DEF GraceIsRespected
<1> QED BY <1>2, IInvHolds, PTL

\* A row becomes overdue, and its parent is told, in one commit or not at all.
THEOREM OverdueAreNotified == Spec => []OverdueRowsAreNotified
<1>1. IInv => OverdueRowsAreNotified
  BY DEF IInv, OverdueInv, OverdueRowsAreNotified
<1> QED BY <1>1, IInvHolds, PTL

\* No step moves a status back: the rows a scan has found keep the status it
\* found until it commits, since a payment waits for their locks; a paid row
\* stays paid, and a waived row becomes nothing but paid.
THEOREM StatusAdvances == Spec => StatusOnlyAdvances
<1>1. ASSUME IInv, [Next]_vars, NEW r \in Rows, row'[r].status # row[r].status
      PROVE  Rank(row[r].status) < Rank(row'[r].status)
  <2>1. ASSUME NEW x \in Rows, Generate(x) PROVE row[r].status = "none" /\ row'[r].status = "pending"
    BY <1>1, <2>1 DEF Generate, IInv, TypeOK
  <2>2. ASSUME NEW x \in Rows, Waive(x)
        PROVE  row[r].status \in Unpaid /\ row'[r].status = "waived"
    BY <1>1, <2>2 DEF Waive, IInv, TypeOK
  <2>7. ASSUME NEW x \in Rows, Pay(x)
        PROVE  row[r].status \in {"none", "pending", "due", "overdue", "waived"} /\ row'[r].status = "paid"
    BY <1>1, <2>7 DEF Pay, IInv, TypeOK, Statuses
  <2>3. CASE ScanCommits
    BY <1>1, <2>3, CommitEffect DEF IInv, ScanInv, Rank
  <2>4. CASE UNCHANGED row
    BY <1>1, <2>4
  <2>5. ASSUME Scan \/ ScanFails \/ NextDay PROVE ScanCommits \/ UNCHANGED row
    BY <2>5 DEF Scan, ScanAdvances, ScanFindsOverdue, ScanSelects, ScanFails, NextDay
  <2>6. UNCHANGED vars => UNCHANGED row
    BY DEF vars
  <2> QED BY <1>1, <2>1, <2>2, <2>3, <2>4, <2>5, <2>6, <2>7 DEF Next, Rank, Unpaid
<1>2. IInv /\ [Next]_vars => [\A r \in Rows : row'[r].status # row[r].status =>
                                  Rank(row[r].status) < Rank(row'[r].status)]_vars
  BY <1>1
<1> QED BY <1>2, IInvHolds, PTL DEF Spec, StatusOnlyAdvances

-----------------------------------------------------------------------------
(* Admissions.                                                             *)

Enrols(k) == request[k].pc \in {"enrol", "number", "insert"}

\* A request in progress is about an admission.  A change of status that its
\* admission no longer allows has been overtaken.  An enrolment is alone with
\* its admission, which stays approved because its row is locked.
StaffInv ==
    \A k \in Requests : request[k].pc # "ready" =>
        /\ request[k].id \in Ids /\ admission[request[k].id].status # "none"
        /\ request[k].pc = "read" =>
              /\ request[k].to \in AdmissionStatuses
              /\ k \in overtaken \/ request[k].to \in ValidTransitions[admission[request[k].id].status]
        /\ Enrols(k) =>
              /\ admission[request[k].id].status = "approved"
              /\ \A j \in Requests : Enrols(j) /\ request[j].id = request[k].id => j = k
        /\ request[k].pc \in {"number", "insert"} => request[k].number # 0

\* An admission that is not enrolled has a student for each time its enrolment
\* was overwritten, and an enrolled one may have one more.
StudentsInv ==
    \A a \in Ids :
        /\ IsFiniteSet(StudentsOf(a))
        /\ Cardinality(StudentsOf(a)) <= late[a] + (IF admission[a].status = "enrolled" THEN 1 ELSE 0)
        /\ late[a] = 0 => \A s \in StudentsOf(a) : admission[a].student = s.number

\* The stamp on an admission is older than its last announcement only while
\* the sweep is between the two, or died there.  What the sweep has fetched was
\* announced long ago, but for the latter.
NudgeInv ==
    /\ \A a \in Ids : admission[a].nudged <= told[a] \/ a \in unstamped \/ a = sweep.telling
    /\ \A a \in sweep.fetched : a # sweep.telling /\ (told[a] >= StaleDays \/ a \in unstamped)

AdmissionsInv == AdmissionsTypeOK /\ StaffInv /\ StudentsInv /\ NudgeInv

-----------------------------------------------------------------------------
\* A set of bounded numbers has a largest one.
LEMMA MaxOf ==
    ASSUME NEW N \in Nat, NEW S \in SUBSET (0 .. N), S # {}
    PROVE  Max(S) \in S /\ \A x \in S : x <= Max(S)
<1> DEFINE U == {u \in Nat : \A x \in S : x <= u}
<1>1. U \subseteq Nat /\ N \in U
  OBVIOUS
<1>2. PICK m \in U : \A y \in U : ~ (<<y, m>> \in OpToRel(<, Nat))
  BY <1>1, NatLessThanWellFounded, WFMin
<1>3. \A y \in U : ~ (y < m)
  BY <1>1, <1>2 DEF OpToRel
<1>4. m \in S
  <2> SUFFICES ASSUME m \notin S PROVE FALSE
    OBVIOUS
  <2>1. m # 0
    <3>1. PICK x \in S : TRUE
      OBVIOUS
    <3>2. m = 0 => x = m
      BY <3>1
    <3> QED BY <3>1, <3>2
  <2>2. m - 1 \in U
    BY <2>1
  <2> QED BY <1>3, <2>2
<1>5. \A x \in S : m >= x
  OBVIOUS
<1>6. \E x \in S : \A y \in S : x >= y
  BY <1>4, <1>5
<1> HIDE DEF U
<1> QED BY <1>6 DEF Max

\* The next number is a number.
LEMMA NextNumber ==
    ASSUME AdmissionsTypeOK
    PROVE  \A n \in GivenNumbers \cup {1 + Max(Numbers \cup {0})} : n <= MaxNumber => n \in 1 .. MaxNumber
<1>1. Numbers \cup {0} \in SUBSET (0 .. MaxNumber)
  BY AdmissionsAssumption DEF Numbers, AdmissionsTypeOK
<1>2. Max(Numbers \cup {0}) \in 0 .. MaxNumber
  BY <1>1, MaxOf, AdmissionsAssumption
<1> QED BY <1>2, AdmissionsAssumption

LEMMA OlderIsADay == \A days \in 0 .. StaleDays : Older(days) \in 0 .. StaleDays /\ days <= Older(days)
  BY AdmissionsAssumption DEF Older

LEMMA OlderIsMonotone == \A m, n \in 0 .. StaleDays : m <= n => Older(m) <= Older(n)
  BY AdmissionsAssumption DEF Older

LEMMA TransitionsOfStatuses ==
    /\ \A from \in AdmissionStatuses : ValidTransitions[from] \in SUBSET AdmissionStatuses
    /\ ValidTransitions["enrolled"] = {}
    /\ "none" \notin AdmissionStatuses
  BY DEF ValidTransitions, AdmissionStatuses, Open

-----------------------------------------------------------------------------
(* Types.                                                                  *)

LEMMA InitTypeOK == AdmissionsInit => AdmissionsTypeOK
  BY AdmissionsAssumption DEF AdmissionsInit, AdmissionsTypeOK, NoAdmission, Ready, Asleep,
                                 AdmissionRecord, RequestRecord, AdmissionStatuses, Open

LEMMA ReadyIsARequest ==
    Ready \in RequestRecord
  BY AdmissionsAssumption DEF Ready, RequestRecord

LEMMA ReadRequest ==
    ASSUME NEW a \in Ids, NEW to \in AdmissionStatuses
    PROVE  LET reads == [Ready EXCEPT !.pc = "read", !.id = a, !.to = to]
           IN reads \in RequestRecord /\ reads.pc = "read" /\ reads.id = a /\ reads.to = to
  BY ReadyIsARequest DEF RequestRecord

LEMMA EnrolRequest ==
    ASSUME NEW a \in Ids
    PROVE  LET enrols == [Ready EXCEPT !.pc = "enrol", !.id = a]
           IN enrols \in RequestRecord /\ enrols.pc = "enrol" /\ enrols.id = a
  BY ReadyIsARequest DEF RequestRecord

LEMMA SentIsBounded == ASSUME AdmissionsTypeOK, NEW k, Sends(k) PROVE sent' \in 0 .. MaxSent
  BY AdmissionsAssumption DEF Sends, AdmissionsTypeOK

LEMMA StaffKeepsTypeOK ==
    ASSUME AdmissionsTypeOK, StaffInv, NEW k \in Requests,
           \/ \E a \in Ids, to \in AdmissionStatuses : ReadStatus(k, a, to)
           \/ WriteStatus(k)
           \/ \E a \in Ids : BeginEnrol(k, a)
           \/ ChooseNumber(k) \/ InsertStudent(k) \/ CommitEnrol(k) \/ Fails(k)
    PROVE  AdmissionsTypeOK'
<1>1. ASSUME NEW a \in Ids, NEW to \in AdmissionStatuses, ReadStatus(k, a, to) PROVE AdmissionsTypeOK'
  <2>1. request' \in [Requests -> RequestRecord]
    BY <1>1, ReadyIsARequest, ReadRequest DEF ReadStatus, AdmissionsTypeOK
  <2>2. sent' \in 0 .. MaxSent
    BY <1>1, SentIsBounded DEF ReadStatus
  <2> QED BY <1>1, <2>1, <2>2 DEF ReadStatus, AdmissionsTypeOK
<1>2. ASSUME NEW a \in Ids, BeginEnrol(k, a) PROVE AdmissionsTypeOK'
  <2>1. request' \in [Requests -> RequestRecord]
    <3>1. "approved" \in AdmissionStatuses
      BY DEF AdmissionStatuses
    <3> QED BY <1>2, <3>1, ReadyIsARequest, EnrolRequest DEF BeginEnrol, AdmissionsTypeOK
  <2>2. sent' \in 0 .. MaxSent
    BY <1>2, SentIsBounded DEF BeginEnrol
  <2> QED BY <1>2, <2>1, <2>2 DEF BeginEnrol, AdmissionsTypeOK
<1>3. CASE ChooseNumber(k)
  <2>1. PICK n \in 1 .. MaxNumber : request' = [request EXCEPT ![k].pc = "number", ![k].number = n]
    BY <1>3, NextNumber DEF ChooseNumber
  <2>2. n \in 0 .. MaxNumber
    BY AdmissionsAssumption
  <2>3. PICK old \in RequestRecord : old = request[k]
    BY DEF AdmissionsTypeOK
  <2>4. [old EXCEPT !.pc = "number", !.number = n] \in RequestRecord
    BY <2>2 DEF RequestRecord
  <2>5. request' = [request EXCEPT ![k] = [old EXCEPT !.pc = "number", !.number = n]]
    BY <2>1, <2>3 DEF AdmissionsTypeOK
  <2>6. request' \in [Requests -> RequestRecord]
    BY <2>4, <2>5 DEF AdmissionsTypeOK
  <2> QED BY <1>3, <2>6 DEF ChooseNumber, AdmissionsTypeOK
<1>4. CASE InsertStudent(k)
  <2>1. request' \in [Requests -> RequestRecord]
    BY <1>4, ReadyIsARequest DEF InsertStudent, AdmissionsTypeOK, RequestRecord
  <2> QED BY <1>4, <2>1 DEF InsertStudent, AdmissionsTypeOK
<1>5. CASE Fails(k)
  BY <1>5, ReadyIsARequest DEF Fails, Done, AdmissionsTypeOK
<1>6. CASE WriteStatus(k)
  <2>1. request[k].id \in Ids /\ request[k].to \in AdmissionStatuses
    BY <1>6 DEF WriteStatus, StaffInv
  <2>2. overtaken' \subseteq Requests
    BY <1>6 DEF WriteStatus, Overtake, AdmissionsTypeOK
  <2>3. admission' \in [Ids -> AdmissionRecord]
    BY <1>6, <2>1, AdmissionsAssumption DEF WriteStatus, AdmissionsTypeOK, AdmissionRecord
  <2>4. late' \in [Ids -> Nat]
    BY <1>6, <2>1 DEF WriteStatus, AdmissionsTypeOK
  <2>5. request' \in [Requests -> RequestRecord]
    BY <1>6, ReadyIsARequest DEF WriteStatus, Done, AdmissionsTypeOK
  <2> QED BY <1>6, <2>2, <2>3, <2>4, <2>5 DEF WriteStatus, AdmissionsTypeOK
<1>7. CASE CommitEnrol(k)
  <2>1. request[k].id \in Ids /\ request[k].number \in 1 .. MaxNumber
    <3>1. request[k].number \in 0 .. MaxNumber
      BY DEF AdmissionsTypeOK, RequestRecord
    <3>2. request[k].number # 0 /\ request[k].id \in Ids
      BY <1>7 DEF CommitEnrol, StaffInv
    <3> QED BY <3>1, <3>2, AdmissionsAssumption
  <2>2. overtaken' \subseteq Requests
    BY <1>7 DEF CommitEnrol, Overtake, AdmissionsTypeOK
  <2>3. "enrolled" \in AdmissionStatuses
    BY DEF AdmissionStatuses
  <2>4. admission' \in [Ids -> AdmissionRecord]
    <3>1. PICK a, n, old : a = request[k].id /\ n = request[k].number /\ old = admission[a]
      OBVIOUS
    <3>2. a \in Ids /\ n \in 0 .. MaxNumber /\ old \in AdmissionRecord
      BY <2>1, <3>1, AdmissionsAssumption DEF AdmissionsTypeOK
    <3>3. [old EXCEPT !.status = "enrolled", !.student = n, !.idle = 0] \in AdmissionRecord
      <4>1. 0 \in 0 .. StaleDays
        BY AdmissionsAssumption
      <4> QED BY <2>3, <3>2, <4>1 DEF AdmissionRecord
    <3>4. admission' = [admission EXCEPT ![a] = [old EXCEPT !.status = "enrolled", !.student = n, !.idle = 0]]
      BY <1>7, <3>1, <3>2 DEF CommitEnrol, AdmissionsTypeOK
    <3> QED BY <3>2, <3>3, <3>4 DEF AdmissionsTypeOK
  <2>5. request' \in [Requests -> RequestRecord]
    BY <1>7, ReadyIsARequest DEF CommitEnrol, Done, AdmissionsTypeOK
  <2>6. students' \subseteq [number : 1 .. MaxNumber, of : Ids]
    BY <1>7, <2>1 DEF CommitEnrol, AdmissionsTypeOK
  <2> QED BY <1>7, <2>2, <2>4, <2>5, <2>6 DEF CommitEnrol, AdmissionsTypeOK
<1> QED BY <1>1, <1>2, <1>3, <1>4, <1>5, <1>6, <1>7

LEMMA OthersKeepTypeOK ==
    ASSUME AdmissionsTypeOK,
           \/ \E a \in Ids : CreateEnquiry(a) \/ ConfirmDocument(a)
           \/ Aging \/ DayPasses
    PROVE  AdmissionsTypeOK'
<1>1. ASSUME NEW a \in Ids, CreateEnquiry(a) PROVE AdmissionsTypeOK'
  <2>1. "enquiry" \in AdmissionStatuses
    BY DEF AdmissionStatuses, Open
  <2>2. admission' \in [Ids -> AdmissionRecord]
    BY <1>1, <2>1 DEF CreateEnquiry, AdmissionsTypeOK, AdmissionRecord
  <2> QED BY <1>1, <2>2 DEF CreateEnquiry, AdmissionsTypeOK
<1>2. ASSUME NEW a \in Ids, ConfirmDocument(a) PROVE AdmissionsTypeOK'
  <2>1. admission' \in [Ids -> AdmissionRecord]
    BY <1>2, AdmissionsAssumption DEF ConfirmDocument, AdmissionsTypeOK, AdmissionRecord
  <2> QED BY <1>2, <2>1 DEF ConfirmDocument, AdmissionsTypeOK
<1>3. CASE FetchStale
  BY <1>3 DEF FetchStale, AdmissionsTypeOK
<1>4. ASSUME NEW a \in Ids, TellStale(a) PROVE AdmissionsTypeOK'
  BY <1>4, AdmissionsAssumption DEF TellStale, AdmissionsTypeOK
<1>5. CASE StampNudge
  <2>1. sweep.telling \in Ids
    BY <1>5 DEF StampNudge, AdmissionsTypeOK
  <2>2. admission' \in [Ids -> AdmissionRecord]
    BY <1>5, <2>1, AdmissionsAssumption DEF StampNudge, AdmissionsTypeOK, AdmissionRecord
  <2>3. sweep' \in [fetched : SUBSET Ids, telling : Ids \cup {NoId}]
    BY <1>5 DEF StampNudge, AdmissionsTypeOK
  <2> QED BY <1>5, <2>2, <2>3 DEF StampNudge, AdmissionsTypeOK
<1>6. CASE SweepDies
  <2>1. Asleep \in [fetched : SUBSET Ids, telling : Ids \cup {NoId}]
    BY DEF Asleep
  <2> QED BY <1>6, <2>1, AdmissionsAssumption DEF SweepDies, AdmissionsTypeOK
<1>7. CASE DayPasses
  <2>1. \A a \in Ids : Older(told[a]) \in 0 .. StaleDays
    BY OlderIsADay DEF AdmissionsTypeOK
  <2>2. ASSUME NEW a \in Ids PROVE admission'[a] \in AdmissionRecord
    <3>1. PICK old \in AdmissionRecord : old = admission[a]
      BY DEF AdmissionsTypeOK
    <3>2. old.idle \in 0 .. StaleDays /\ old.nudged \in 0 .. StaleDays
      BY DEF AdmissionRecord
    <3>3. PICK i, n : i = Older(old.idle) /\ n = Older(old.nudged)
      OBVIOUS
    <3>4. i \in 0 .. StaleDays /\ n \in 0 .. StaleDays
      BY <3>2, <3>3, OlderIsADay
    <3>5. [old EXCEPT !.idle = i, !.nudged = n] \in AdmissionRecord
      BY <3>4 DEF AdmissionRecord
    <3>6. admission'[a] = old \/ admission'[a] = [old EXCEPT !.idle = i, !.nudged = n]
      BY <1>7, <3>1, <3>3 DEF DayPasses
    <3> QED BY <3>5, <3>6
  <2>3. admission' \in [Ids -> AdmissionRecord]
    BY <1>7, <2>2 DEF DayPasses
  <2>4. told' \in [Ids -> 0 .. StaleDays]
    BY <1>7, <2>1 DEF DayPasses
  <2> QED BY <1>7, <2>3, <2>4 DEF DayPasses, AdmissionsTypeOK
<1> QED BY <1>1, <1>2, <1>3, <1>4, <1>5, <1>6, <1>7 DEF Aging

-----------------------------------------------------------------------------
(* Requests of the staff.                                                  *)

\* What StaffInv asks of one request, of what it is in progress with.
InProgress(q) ==
    q.pc # "ready" =>
        /\ q.id \in Ids /\ admission[q.id].status # "none"
        /\ q.pc \in {"number", "insert"} => q.number # 0
        /\ q.pc \in {"enrol", "number", "insert"} => admission[q.id].status = "approved"
        /\ q.pc = "read" => q.to \in AdmissionStatuses

\* A request takes a step, and no admission's status moves.
LEMMA RequestMoves ==
    ASSUME AdmissionsTypeOK, StaffInv, NEW k \in Requests, NEW new, request' = [request EXCEPT ![k] = new],
           \A a \in Ids : admission'[a].status = admission[a].status,
           overtaken \ {k} \subseteq overtaken',
           InProgress(new),
           new.pc = "read" => new.to \in ValidTransitions[admission[new.id].status],
           new.pc \in {"enrol", "number", "insert"} =>
               ~RowLocked(new.id) \/ (Enrols(k) /\ request[k].id = new.id)
    PROVE  StaffInv'
<1>1. request'[k] = new /\ \A j \in Requests : j # k => request'[j] = request[j]
  BY DEF AdmissionsTypeOK
<1>2. ASSUME NEW j \in Requests, request'[j].pc # "ready"
      PROVE  /\ request'[j].id \in Ids /\ admission'[request'[j].id].status # "none"
             /\ request'[j].pc = "read" =>
                   /\ request'[j].to \in AdmissionStatuses
                   /\ j \in overtaken' \/ request'[j].to \in ValidTransitions[admission'[request'[j].id].status]
             /\ request'[j].pc \in {"enrol", "number", "insert"} => admission'[request'[j].id].status = "approved"
             /\ request'[j].pc \in {"number", "insert"} => request'[j].number # 0
  <2>1. CASE j = k
    BY <1>1, <1>2, <2>1 DEF InProgress
  <2>2. CASE j # k
    BY <1>1, <1>2, <2>2 DEF StaffInv, Enrols
  <2> QED BY <2>1, <2>2
<1>3. ASSUME NEW i \in Requests, NEW j \in Requests,
             request'[i].pc \in {"enrol", "number", "insert"}, request'[j].pc \in {"enrol", "number", "insert"},
             request'[j].id = request'[i].id
      PROVE  j = i
  <2>1. CASE i # k /\ j # k
    BY <1>1, <1>3, <2>1 DEF StaffInv, Enrols
  <2>2. CASE i = k /\ j # k
    <3>1. RowLocked(new.id)
      BY <1>1, <1>3, <2>2 DEF RowLocked
    <3>2. Enrols(k) /\ request[k].id = new.id
      BY <1>1, <1>3, <2>2, <3>1
    <3> QED BY <1>1, <1>3, <2>2, <3>2 DEF StaffInv, Enrols
  <2>3. CASE i # k /\ j = k
    <3>1. RowLocked(new.id)
      BY <1>1, <1>3, <2>3 DEF RowLocked
    <3>2. Enrols(k) /\ request[k].id = new.id
      BY <1>1, <1>3, <2>3, <3>1
    <3> QED BY <1>1, <1>3, <2>3, <3>2 DEF StaffInv, Enrols
  <2> QED BY <2>1, <2>2, <2>3
<1> QED BY <1>2, <1>3 DEF StaffInv, Enrols

\* A request that ends moves its admission: who had read it is overtaken, and
\* nobody else is enrolling it.
LEMMA AdmissionMoves ==
    ASSUME AdmissionsTypeOK, StaffInv, NEW k \in Requests, NEW a \in Ids, NEW to \in AdmissionStatuses,
           Done(k), Overtake(a, k),
           admission'[a].status = to, \A b \in Ids : b # a => admission'[b].status = admission[b].status,
           \A j \in Requests : j # k /\ Enrols(j) => request[j].id # a
    PROVE  StaffInv'
<1>1. request'[k] = Ready /\ \A j \in Requests : j # k => request'[j] = request[j]
  BY DEF AdmissionsTypeOK, Done
<1>2. request'[k].pc = "ready"
  BY <1>1 DEF Ready
<1>3. ASSUME NEW j \in Requests, request'[j].pc # "ready"
      PROVE  /\ request'[j].id \in Ids /\ admission'[request'[j].id].status # "none"
             /\ request'[j].pc = "read" =>
                   /\ request'[j].to \in AdmissionStatuses
                   /\ j \in overtaken' \/ request'[j].to \in ValidTransitions[admission'[request'[j].id].status]
             /\ request'[j].pc \in {"enrol", "number", "insert"} =>
                   /\ admission'[request'[j].id].status = "approved"
                   /\ \A i \in Requests :
                         request'[i].pc \in {"enrol", "number", "insert"} /\ request'[i].id = request'[j].id => i = j
             /\ request'[j].pc \in {"number", "insert"} => request'[j].number # 0
  <2>1. j # k /\ request'[j] = request[j] /\ request[j].id \in Ids
    BY <1>1, <1>2, <1>3 DEF StaffInv
  <2>2. admission'[request[j].id].status # "none"
    BY <2>1, <1>3, TransitionsOfStatuses DEF StaffInv
  <2>3. ASSUME request[j].pc = "read"
        PROVE  /\ request[j].to \in AdmissionStatuses
               /\ j \in overtaken' \/ request[j].to \in ValidTransitions[admission'[request[j].id].status]
    <3>1. CASE request[j].id = a
      BY <2>1, <2>3, <3>1, <1>3 DEF Overtake, StaffInv
    <3>2. CASE request[j].id # a
      <4>1. j \in overtaken => j \in overtaken'
        BY <2>1 DEF Overtake
      <4>2. admission'[request[j].id].status = admission[request[j].id].status
        BY <2>1, <3>2
      <4> QED BY <2>1, <2>3, <4>1, <4>2, <1>3 DEF StaffInv
    <3> QED BY <3>1, <3>2
  <2>4. ASSUME Enrols(j)
        PROVE  /\ admission'[request[j].id].status = "approved"
               /\ \A i \in Requests :
                     request'[i].pc \in {"enrol", "number", "insert"} /\ request'[i].id = request[j].id => i = j
    <3>1. request[j].id # a
      BY <2>1, <2>4
    <3>2. admission'[request[j].id].status = admission[request[j].id].status
      BY <2>1, <3>1
    <3>3. ASSUME NEW i \in Requests, request'[i].pc \in {"enrol", "number", "insert"}, request'[i].id = request[j].id
          PROVE  i = j
      <4>1. i # k
        BY <1>2, <3>3
      <4> QED BY <1>1, <2>1, <1>3, <2>4, <3>3, <4>1 DEF StaffInv, Enrols
    <3> QED BY <1>3, <2>1, <2>4, <3>2, <3>3 DEF StaffInv
  <2> QED BY <1>3, <2>1, <2>2, <2>3, <2>4 DEF StaffInv, Enrols
<1> QED BY <1>3 DEF StaffInv, Enrols

\* Nobody moves: the rows keep their status, or one was created.
LEMMA NobodyMoves ==
    ASSUME AdmissionsTypeOK, StaffInv, UNCHANGED <<request, overtaken>>,
           \A a \in Ids : \/ admission'[a].status = admission[a].status
                          \/ admission[a].status = "none" /\ admission'[a].status # "none"
    PROVE  StaffInv'
<1>1. ASSUME NEW k \in Requests, request[k].pc # "ready"
      PROVE  request[k].id \in Ids /\ admission'[request[k].id].status = admission[request[k].id].status
  BY <1>1 DEF StaffInv
<1> QED BY <1>1 DEF StaffInv, Enrols

\* Rows that stay enrolled, or not enrolled, and linked as they were.
LEMMA StudentsStay ==
    ASSUME StudentsInv, UNCHANGED <<students, late>>,
           \A a \in Ids : /\ admission'[a].status = "enrolled" <=> admission[a].status = "enrolled"
                          /\ admission'[a].student = admission[a].student
    PROVE  StudentsInv'
  BY DEF StudentsInv, StudentsOf

LEMMA NudgesStay ==
    ASSUME NudgeInv, UNCHANGED <<sweep, told, unstamped>>,
           \A a \in Ids : admission'[a].nudged = admission[a].nudged
    PROVE  NudgeInv'
  BY DEF NudgeInv

LEMMA WriteKeepsStudents ==
    ASSUME AdmissionsTypeOK, StudentsInv, NEW a \in Ids, NEW to \in AdmissionStatuses,
           admission[a].status \in AdmissionStatuses,
           students' = students,
           late' = [late EXCEPT ![a] = IF to \in ValidTransitions[admission[a].status] THEN @ ELSE @ + 1],
           admission'[a].status = to, \A b \in Ids : b # a => admission'[b].status = admission[b].status,
           \A b \in Ids : admission'[b].student = admission[b].student
    PROVE  StudentsInv'
<1>1. ASSUME NEW b \in Ids
      PROVE  /\ IsFiniteSet(StudentsOf(b))'
             /\ (Cardinality(StudentsOf(b)) <= late[b] + (IF admission[b].status = "enrolled" THEN 1 ELSE 0))'
             /\ (late[b] = 0 => \A s \in StudentsOf(b) : admission[b].student = s.number)'
  <2>1. StudentsOf(b)' = StudentsOf(b)
    BY DEF StudentsOf
  <2>2. CASE b # a
    BY <2>1, <2>2 DEF AdmissionsTypeOK, StudentsInv
  <2>3. CASE b = a
    <3>1. IsFiniteSet(StudentsOf(a)) /\ Cardinality(StudentsOf(a)) \in Nat /\ late[a] \in Nat
      BY FS_CardinalityType DEF StudentsInv, AdmissionsTypeOK
    <3>2. late'[a] \in {late[a], late[a] + 1} /\ late'[a] >= late[a]
      BY <3>1 DEF AdmissionsTypeOK
    <3>3. late'[a] = late[a] => admission[a].status # "enrolled"
      BY <3>1, TransitionsOfStatuses DEF AdmissionsTypeOK
    <3>4. Cardinality(StudentsOf(a)) <= late'[a]
      <4>1. CASE late'[a] = late[a]
        BY <3>1, <3>3, <4>1 DEF StudentsInv
      <4>2. CASE late'[a] = late[a] + 1
        BY <3>1, <4>2 DEF StudentsInv
      <4> QED BY <3>2, <4>1, <4>2
    <3>5. late'[a] = 0 => late[a] = 0
      BY <3>1, <3>2
    <3> QED BY <2>1, <2>3, <3>1, <3>2, <3>4, <3>5 DEF StudentsInv
  <2> QED BY <2>2, <2>3
<1> QED BY <1>1 DEF StudentsInv

LEMMA EnrolmentKeepsStudents ==
    ASSUME AdmissionsTypeOK, StudentsInv, NEW a \in Ids, NEW n,
           admission[a].status = "approved",
           students' = students \cup {[number |-> n, of |-> a]},
           late' = late,
           admission'[a].status = "enrolled", admission'[a].student = n,
           \A b \in Ids : b # a => /\ admission'[b].status = admission[b].status
                                   /\ admission'[b].student = admission[b].student
    PROVE  StudentsInv'
<1>1. ASSUME NEW b \in Ids
      PROVE  /\ IsFiniteSet(StudentsOf(b))'
             /\ (Cardinality(StudentsOf(b)) <= late[b] + (IF admission[b].status = "enrolled" THEN 1 ELSE 0))'
             /\ (late[b] = 0 => \A s \in StudentsOf(b) : admission[b].student = s.number)'
  <2>1. CASE b # a
    <3>1. StudentsOf(b)' = StudentsOf(b)
      BY <2>1 DEF StudentsOf
    <3> QED BY <2>1, <3>1 DEF StudentsInv
  <2>2. CASE b = a
    <3>1. StudentsOf(a)' = StudentsOf(a) \cup {[number |-> n, of |-> a]}
      BY DEF StudentsOf
    <3>2. IsFiniteSet(StudentsOf(a)) /\ Cardinality(StudentsOf(a)) \in Nat /\ late[a] \in Nat
      BY FS_CardinalityType DEF StudentsInv, AdmissionsTypeOK
    <3>3. Cardinality(StudentsOf(a)) <= late[a]
      BY <3>2 DEF StudentsInv
    <3>4. IsFiniteSet(StudentsOf(a)') /\ Cardinality(StudentsOf(a)') <= Cardinality(StudentsOf(a)) + 1
      <4>1. PICK S, x : S = StudentsOf(a) /\ x = [number |-> n, of |-> a]
        OBVIOUS
      <4>2. IsFiniteSet(S \cup {x}) /\ Cardinality(S \cup {x}) \in {Cardinality(S), Cardinality(S) + 1}
        BY <3>2, <4>1, FS_AddElement
      <4>3. Cardinality(S \cup {x}) <= Cardinality(S) + 1
        BY <3>2, <4>1, <4>2
      <4> QED BY <3>1, <4>1, <4>2, <4>3
    <3>5. ASSUME late[a] = 0, NEW s \in StudentsOf(a)' PROVE s.number = n
      <4>1. StudentsOf(a) = {}
        BY <3>2, <3>3, <3>5, FS_EmptySet
      <4> QED BY <3>1, <3>5, <4>1
    <3>6. Cardinality(StudentsOf(a)') \in Nat
      BY <3>4, FS_CardinalityType
    <3>7. Cardinality(StudentsOf(a)') <= late[a] + 1
      BY <3>2, <3>3, <3>4, <3>6
    <3> QED BY <2>2, <3>4, <3>5, <3>7
  <2> QED BY <2>1, <2>2
<1> QED BY <1>1 DEF StudentsInv

-----------------------------------------------------------------------------
LEMMA StaffKeepsInv ==
    ASSUME AdmissionsInv, Staff PROVE AdmissionsInv'
<1> USE DEF AdmissionsInv
<1>0. AdmissionsTypeOK'
  BY StaffKeepsTypeOK DEF Staff
<1>1. ASSUME NEW k \in Requests, NEW a \in Ids, NEW to \in AdmissionStatuses, ReadStatus(k, a, to)
      PROVE  AdmissionsInv'
  <2> DEFINE reads == [Ready EXCEPT !.pc = "read", !.id = a, !.to = to]
  <2>1. reads.pc = "read" /\ reads.id = a /\ reads.to = to
    BY ReadRequest
  <2>2. PICK new : /\ request' = [request EXCEPT ![k] = new]
                   /\ new = Ready \/ (new = reads /\ to \in ValidTransitions[admission[a].status])
    BY <1>1 DEF ReadStatus
  <2> HIDE DEF reads
  <2>3. InProgress(new) /\ (new.pc = "read" => new.to \in ValidTransitions[admission[new.id].status])
        /\ new.pc \notin {"enrol", "number", "insert"}
    BY <1>1, <2>1, <2>2 DEF ReadStatus, InProgress, Ready
  <2>4. StaffInv'
    BY <1>1, <2>2, <2>3, RequestMoves DEF ReadStatus
  <2> QED BY <1>0, <1>1, <2>4, StudentsStay, NudgesStay DEF ReadStatus
<1>2. ASSUME NEW k \in Requests, NEW a \in Ids, BeginEnrol(k, a) PROVE AdmissionsInv'
  <2> DEFINE enrols == [Ready EXCEPT !.pc = "enrol", !.id = a]
  <2>1. enrols.pc = "enrol" /\ enrols.id = a
    BY EnrolRequest
  <2>2. PICK new : /\ request' = [request EXCEPT ![k] = new]
                   /\ new = Ready \/ (new = enrols /\ admission[a].status = "approved")
    BY <1>2 DEF BeginEnrol
  <2> HIDE DEF enrols
  <2>3. InProgress(new) /\ new.pc # "read" /\ (new.pc # "ready" => ~RowLocked(new.id))
    BY <1>2, <2>1, <2>2 DEF BeginEnrol, InProgress, Ready
  <2>4. StaffInv'
    BY <1>2, <2>2, <2>3, RequestMoves DEF BeginEnrol
  <2> QED BY <1>0, <1>2, <2>4, StudentsStay, NudgesStay DEF BeginEnrol
<1>3. ASSUME NEW k \in Requests, ChooseNumber(k) PROVE AdmissionsInv'
  <2>1. PICK old \in RequestRecord : old = request[k]
    BY DEF AdmissionsTypeOK
  <2>2. PICK n \in 1 .. MaxNumber : request' = [request EXCEPT ![k].pc = "number", ![k].number = n]
    BY <1>3, NextNumber DEF ChooseNumber
  <2> DEFINE new == [old EXCEPT !.pc = "number", !.number = n]
  <2>3. request' = [request EXCEPT ![k] = new]
    BY <2>1, <2>2 DEF AdmissionsTypeOK
  <2>4. new.pc = "number" /\ new.id = old.id /\ new.number = n
    BY DEF RequestRecord
  <2>5. n # 0
    BY AdmissionsAssumption
  <2> HIDE DEF new
  <2>6. InProgress(new)
    BY <1>3, <2>1, <2>4, <2>5 DEF ChooseNumber, InProgress, StaffInv, Enrols
  <2>7. StaffInv'
    BY <1>3, <2>1, <2>3, <2>4, <2>6, RequestMoves DEF ChooseNumber, Enrols
  <2> QED BY <1>0, <1>3, <2>7, StudentsStay, NudgesStay DEF ChooseNumber
<1>4. ASSUME NEW k \in Requests, InsertStudent(k) PROVE AdmissionsInv'
  <2>1. PICK old \in RequestRecord : old = request[k]
    BY DEF AdmissionsTypeOK
  <2> DEFINE inserted == [old EXCEPT !.pc = "insert"]
  <2>2. inserted.pc = "insert" /\ inserted.id = old.id /\ inserted.number = old.number
    BY DEF RequestRecord
  <2>3. PICK new : request' = [request EXCEPT ![k] = new] /\ new \in {Ready, inserted}
    BY <1>4, <2>1 DEF InsertStudent
  <2> HIDE DEF inserted
  <2>4. InProgress(new) /\ new.pc # "read" /\ (new.pc # "ready" => Enrols(k) /\ request[k].id = new.id)
    BY <1>4, <2>1, <2>2, <2>3 DEF InsertStudent, InProgress, Ready, StaffInv, Enrols
  <2>5. StaffInv'
    BY <1>4, <2>3, <2>4, RequestMoves DEF InsertStudent
  <2> QED BY <1>0, <1>4, <2>5, StudentsStay, NudgesStay DEF InsertStudent
<1>5. ASSUME NEW k \in Requests, Fails(k) PROVE AdmissionsInv'
  <2>1. request' = [request EXCEPT ![k] = Ready] /\ InProgress(Ready) /\ Ready.pc = "ready"
    BY <1>5 DEF Fails, Done, InProgress, Ready
  <2>2. StaffInv'
    BY <1>5, <2>1, RequestMoves DEF Fails
  <2> QED BY <1>0, <1>5, <2>2, StudentsStay, NudgesStay DEF Fails
<1>6. ASSUME NEW k \in Requests, WriteStatus(k) PROVE AdmissionsInv'
  <2>1. PICK a, to : a = request[k].id /\ to = request[k].to
    OBVIOUS
  <2>2. a \in Ids /\ to \in AdmissionStatuses /\ admission[a].status \in AdmissionStatuses
    BY <1>6, <2>1 DEF WriteStatus, StaffInv, AdmissionsTypeOK, AdmissionRecord
  <2>3. admission' = [admission EXCEPT ![a].status = to, ![a].idle = 0]
    BY <1>6, <2>1 DEF WriteStatus
  <2>4. /\ admission'[a].status = to
        /\ \A b \in Ids : b # a => admission'[b].status = admission[b].status
        /\ \A b \in Ids : /\ admission'[b].student = admission[b].student
                          /\ admission'[b].nudged = admission[b].nudged
    BY <2>2, <2>3 DEF AdmissionsTypeOK, AdmissionRecord
  <2>5. \A j \in Requests : Enrols(j) => request[j].id # a
    BY <1>6, <2>1 DEF WriteStatus, RowLocked, Enrols
  <2>6. StaffInv'
    BY <1>6, <2>1, <2>2, <2>4, <2>5, AdmissionMoves DEF WriteStatus
  <2>7. StudentsInv'
    BY <1>6, <2>1, <2>2, <2>4, WriteKeepsStudents DEF WriteStatus
  <2> QED BY <1>0, <1>6, <2>4, <2>6, <2>7, NudgesStay DEF WriteStatus
<1>7. ASSUME NEW k \in Requests, CommitEnrol(k) PROVE AdmissionsInv'
  <2>1. PICK a, n : a = request[k].id /\ n = request[k].number
    OBVIOUS
  <2>2. a \in Ids /\ admission[a].status = "approved"
    BY <1>7, <2>1 DEF CommitEnrol, StaffInv, Enrols
  <2>3. admission' = [admission EXCEPT ![a].status = "enrolled", ![a].student = n, ![a].idle = 0]
    BY <1>7, <2>1 DEF CommitEnrol
  <2>4. /\ admission'[a].status = "enrolled" /\ admission'[a].student = n
        /\ \A b \in Ids : b # a => /\ admission'[b].status = admission[b].status
                                   /\ admission'[b].student = admission[b].student
        /\ \A b \in Ids : admission'[b].nudged = admission[b].nudged
    BY <2>2, <2>3 DEF AdmissionsTypeOK, AdmissionRecord
  <2>5. \A j \in Requests : j # k /\ Enrols(j) => request[j].id # a
    BY <1>7, <2>1 DEF CommitEnrol, StaffInv, Enrols
  <2>6. StaffInv'
    <3>1. "enrolled" \in AdmissionStatuses
      BY DEF AdmissionStatuses
    <3> QED BY <1>7, <2>1, <2>2, <2>4, <2>5, <3>1, AdmissionMoves DEF CommitEnrol
  <2>7. StudentsInv'
    BY <1>7, <2>1, <2>2, <2>4, EnrolmentKeepsStudents DEF CommitEnrol
  <2> QED BY <1>0, <1>7, <2>4, <2>6, <2>7, NudgesStay DEF CommitEnrol
<1> QED BY <1>1, <1>2, <1>3, <1>4, <1>5, <1>6, <1>7 DEF Staff

LEMMA OthersKeepInv ==
    ASSUME AdmissionsInv,
           \/ \E a \in Ids : CreateEnquiry(a) \/ ConfirmDocument(a)
           \/ Aging \/ DayPasses
    PROVE  AdmissionsInv'
<1> USE DEF AdmissionsInv
<1>0. AdmissionsTypeOK'
  BY OthersKeepTypeOK
<1>1. ASSUME NEW a \in Ids, CreateEnquiry(a) PROVE AdmissionsInv'
  <2>1. admission[a].status = "none"
    BY <1>1 DEF CreateEnquiry, NoAdmission
  <2>2. /\ admission'[a].status = "enquiry"
        /\ \A b \in Ids : /\ b # a => admission'[b].status = admission[b].status
                          /\ admission'[b].student = admission[b].student
                          /\ admission'[b].nudged = admission[b].nudged
    BY <1>1 DEF CreateEnquiry, AdmissionsTypeOK, AdmissionRecord
  <2>3. StaffInv'
    BY <1>1, <2>1, <2>2, NobodyMoves DEF CreateEnquiry
  <2>4. \A b \in Ids : admission'[b].status = "enrolled" <=> admission[b].status = "enrolled"
    BY <2>1, <2>2
  <2> QED BY <1>0, <1>1, <2>2, <2>3, <2>4, StudentsStay, NudgesStay DEF CreateEnquiry
<1>2. ASSUME NEW a \in Ids, ConfirmDocument(a) PROVE AdmissionsInv'
  <2>1. \A b \in Ids : /\ admission'[b].status = admission[b].status
                       /\ admission'[b].student = admission[b].student
                       /\ admission'[b].nudged = admission[b].nudged
    BY <1>2 DEF ConfirmDocument, AdmissionsTypeOK, AdmissionRecord
  <2> QED BY <1>0, <1>2, <2>1, NobodyMoves, StudentsStay, NudgesStay DEF ConfirmDocument
<1>3. CASE FetchStale
  <2>1. StaffInv' /\ StudentsInv'
    BY <1>3, NobodyMoves, StudentsStay DEF FetchStale
  <2>2. sweep'.fetched = {a \in Ids : Stale(a)} /\ sweep'.telling = NoId /\ sweep.telling = NoId
    BY <1>3 DEF FetchStale, AdmissionsTypeOK, Asleep
  <2>3. ASSUME NEW a \in Ids, Stale(a) PROVE a # NoId /\ (told[a] >= StaleDays \/ a \in unstamped)
    <3>1. admission[a].nudged >= StaleDays /\ (admission[a].nudged <= told[a] \/ a \in unstamped)
      BY <2>2, <2>3, AdmissionsAssumption DEF Stale, NudgeInv
    <3>2. admission[a].nudged \in Int /\ told[a] \in Int /\ StaleDays \in Int
      BY AdmissionsAssumption DEF AdmissionsTypeOK, AdmissionRecord
    <3> QED BY <3>1, <3>2, AdmissionsAssumption
  <2>4. NudgeInv'
    BY <1>3, <2>2, <2>3 DEF FetchStale, NudgeInv
  <2> QED BY <1>0, <2>1, <2>4
<1>4. ASSUME NEW a \in Ids, TellStale(a) PROVE AdmissionsInv'
  <2>1. StaffInv' /\ StudentsInv'
    BY <1>4, NobodyMoves, StudentsStay DEF TellStale
  <2>2. sweep'.fetched = sweep.fetched \ {a} /\ sweep'.telling = a
    BY <1>4 DEF TellStale
  <2>3. \A b \in Ids : b # a => told'[b] = told[b] /\ b # sweep.telling
    BY <1>4, AdmissionsAssumption DEF TellStale, AdmissionsTypeOK
  <2>4. sweep.fetched \subseteq Ids
    BY DEF AdmissionsTypeOK
  <2>5. NudgeInv'
    BY <1>4, <2>2, <2>3, <2>4 DEF TellStale, NudgeInv
  <2> QED BY <1>0, <2>1, <2>5
<1>5. CASE StampNudge
  <2>1. PICK t \in Ids : t = sweep.telling
    BY <1>5 DEF StampNudge, AdmissionsTypeOK
  <2>2. /\ admission'[t].nudged = 0
        /\ \A b \in Ids : /\ admission'[b].status = admission[b].status
                          /\ admission'[b].student = admission[b].student
                          /\ b # t => admission'[b].nudged = admission[b].nudged
    BY <1>5, <2>1 DEF StampNudge, AdmissionsTypeOK, AdmissionRecord
  <2>3. StaffInv' /\ StudentsInv'
    BY <1>5, <2>2, NobodyMoves, StudentsStay DEF StampNudge
  <2>4. /\ sweep'.fetched = sweep.fetched /\ told' = told
        /\ unstamped' = unstamped \ {t} /\ t \notin sweep.fetched
    BY <1>5, <2>1 DEF StampNudge, AdmissionsTypeOK, NudgeInv
  <2>5. \A b \in Ids : admission'[b].nudged <= told'[b] \/ b \in unstamped'
    <3>1. told[t] >= 0
      BY AdmissionsAssumption DEF AdmissionsTypeOK
    <3> QED BY <2>1, <2>2, <2>4, <3>1 DEF NudgeInv
  <2>6. sweep'.telling = NoId /\ sweep.fetched \subseteq Ids
    BY <1>5 DEF StampNudge, AdmissionsTypeOK
  <2>7. \A b \in sweep'.fetched : b # sweep'.telling /\ (told'[b] >= StaleDays \/ b \in unstamped')
    BY <2>4, <2>6, AdmissionsAssumption DEF NudgeInv
  <2> QED BY <1>0, <2>3, <2>5, <2>7 DEF NudgeInv
<1>6. CASE SweepDies
  <2>1. StaffInv' /\ StudentsInv'
    BY <1>6, NobodyMoves, StudentsStay DEF SweepDies
  <2>2. sweep'.fetched = {} /\ UNCHANGED <<admission, told>>
    BY <1>6 DEF SweepDies, Asleep
  <2>3. \A b \in Ids : b \in unstamped \/ b = sweep.telling => b \in unstamped'
    BY <1>6, AdmissionsAssumption DEF SweepDies
  <2>4. NudgeInv'
    BY <2>2, <2>3 DEF NudgeInv
  <2> QED BY <1>0, <2>1, <2>4
<1>7. CASE DayPasses
  <2>1. \A b \in Ids : /\ admission'[b].status = admission[b].status
                       /\ admission'[b].student = admission[b].student
                       /\ admission'[b].nudged \in {admission[b].nudged, Older(admission[b].nudged)}
    BY <1>7 DEF DayPasses, AdmissionsTypeOK, AdmissionRecord
  <2>2. StaffInv' /\ StudentsInv'
    BY <1>7, <2>1, NobodyMoves, StudentsStay DEF DayPasses
  <2>3. sweep.fetched = {} /\ sweep.telling = NoId /\ UNCHANGED <<sweep, unstamped>>
    BY <1>7 DEF DayPasses, Asleep
  <2>4. ASSUME NEW b \in Ids, b \notin unstamped PROVE admission'[b].nudged <= told'[b]
    <3>1. admission[b].nudged \in 0 .. StaleDays /\ told[b] \in 0 .. StaleDays
      BY DEF AdmissionsTypeOK, AdmissionRecord
    <3>2. admission[b].nudged <= told[b]
      BY <2>3, <2>4, AdmissionsAssumption DEF NudgeInv
    <3>3. told'[b] = Older(told[b])
      BY <1>7 DEF DayPasses
    <3>4. told[b] <= Older(told[b]) /\ Older(told[b]) \in 0 .. StaleDays /\ Older(admission[b].nudged) <= Older(told[b])
      BY <3>1, <3>2, OlderIsADay, OlderIsMonotone
    <3>5. admission[b].nudged <= Older(told[b])
      BY <3>1, <3>2, <3>4, AdmissionsAssumption
    <3> QED BY <2>1, <3>3, <3>4, <3>5
  <2>5. NudgeInv'
    BY <2>3, <2>4 DEF NudgeInv
  <2> QED BY <1>0, <2>2, <2>5
<1> QED BY <1>1, <1>2, <1>3, <1>4, <1>5, <1>6, <1>7 DEF Aging

LEMMA InitAdmissionsInv == AdmissionsInit => AdmissionsInv
<1> SUFFICES ASSUME AdmissionsInit PROVE AdmissionsInv
  OBVIOUS
<1>1. AdmissionsTypeOK
  BY InitTypeOK
<1>2. StaffInv
  BY DEF AdmissionsInit, StaffInv, Ready, Enrols
<1>3. ASSUME NEW a \in Ids PROVE StudentsOf(a) = {} /\ IsFiniteSet(StudentsOf(a)) /\ Cardinality(StudentsOf(a)) = 0
  BY FS_EmptySet DEF AdmissionsInit, StudentsOf
<1>4. StudentsInv
  BY <1>3 DEF AdmissionsInit, StudentsInv
<1>5. NudgeInv
  <2>1. \A a \in Ids : admission[a].nudged = StaleDays /\ told[a] = StaleDays
    BY DEF AdmissionsInit, NoAdmission
  <2> QED BY <2>1, AdmissionsAssumption DEF AdmissionsInit, NudgeInv, Asleep
<1> QED BY <1>1, <1>2, <1>4, <1>5 DEF AdmissionsInv

LEMMA StepKeepsAdmissions == AdmissionsInv /\ [AdmissionsNext]_admissionsVars => AdmissionsInv'
<1> SUFFICES ASSUME AdmissionsInv, [AdmissionsNext]_admissionsVars PROVE AdmissionsInv'
  OBVIOUS
<1>1. CASE UNCHANGED admissionsVars
  BY <1>1 DEF admissionsVars, AdmissionsInv, AdmissionsTypeOK, StaffInv, Enrols, StudentsInv, StudentsOf, NudgeInv
<1> QED BY <1>1, StaffKeepsInv, OthersKeepInv DEF AdmissionsNext

LEMMA AdmissionsAreKept == AdmissionsSpec => []AdmissionsInv
  BY InitAdmissionsInv, StepKeepsAdmissions, PTL DEF AdmissionsSpec

\* Rows of admissions, requests and the sweep keep their types; the number an
\* enrolment chooses is one of the numbers there are (create_enquiry,
\* advance_status, enrol_student, admissions_aging).
THEOREM AdmissionsTypeCorrect == AdmissionsSpec => []AdmissionsTypeOK
<1>1. AdmissionsInv => AdmissionsTypeOK
  BY DEF AdmissionsInv
<1> QED BY <1>1, AdmissionsAreKept, PTL

\* Unless a change of status has overwritten another one, an admission with a
\* student is enrolled and linked to it, and it is the only one, however many
\* members of staff enrol and move it at once (enrol_student, advance_status).
THEOREM OneStudentEach == AdmissionsSpec => []OneStudentPerAdmission
<1>1. AdmissionsInv => OneStudentPerAdmission
  <2> SUFFICES ASSUME AdmissionsInv, NEW a \in Ids
               PROVE  /\ Cardinality(StudentsOf(a)) <= 1 + late[a]
                      /\ late[a] = 0 => \A s \in StudentsOf(a) :
                            admission[a].status = "enrolled" /\ admission[a].student = s.number
    BY DEF OneStudentPerAdmission
  <2>1. IsFiniteSet(StudentsOf(a)) /\ Cardinality(StudentsOf(a)) \in Nat /\ late[a] \in Nat
    BY FS_CardinalityType DEF AdmissionsInv, StudentsInv, AdmissionsTypeOK
  <2>2. Cardinality(StudentsOf(a)) <= 1 + late[a]
    BY <2>1 DEF AdmissionsInv, StudentsInv
  <2>3. ASSUME late[a] = 0, NEW s \in StudentsOf(a) PROVE admission[a].status = "enrolled"
    <3>1. Cardinality(StudentsOf(a)) # 0
      BY <2>1, <2>3, FS_EmptySet
    <3> QED BY <2>1, <2>3, <3>1 DEF AdmissionsInv, StudentsInv
  <2> QED BY <2>2, <2>3 DEF AdmissionsInv, StudentsInv
<1> QED BY <1>1, AdmissionsAreKept, PTL

\* A status changes against the table of transitions only by a request that had
\* read the admission before another moved it (advance_status).
THEOREM IllegalMovesOvertaken == AdmissionsSpec => IllegalMovesWereOvertaken
<1> DEFINE Moved == \A a \in Ids :
          late'[a] # late[a] => \E k \in overtaken : /\ request[k].id = a /\ request[k].pc = "read"
                                                     /\ request'[k] = Ready
<1>1. AdmissionsInv /\ [AdmissionsNext]_admissionsVars => [Moved]_admissionsVars
  <2> SUFFICES ASSUME AdmissionsInv, AdmissionsNext, NEW a \in Ids, late'[a] # late[a]
               PROVE  \E k \in overtaken : /\ request[k].id = a /\ request[k].pc = "read" /\ request'[k] = Ready
    OBVIOUS
  <2>1. PICK k \in Requests : WriteStatus(k)
    BY DEF AdmissionsNext, Staff, Aging, CreateEnquiry, ConfirmDocument, ReadStatus, BeginEnrol, ChooseNumber,
           InsertStudent, CommitEnrol, Fails, FetchStale, TellStale, StampNudge, SweepDies, DayPasses
  <2>2. request[k].id = a /\ request[k].to \notin ValidTransitions[admission[a].status]
    BY <2>1 DEF WriteStatus, AdmissionsInv, AdmissionsTypeOK
  <2>3. request[k].pc = "read" /\ request'[k] = Ready
    BY <2>1 DEF WriteStatus, Done, AdmissionsInv, AdmissionsTypeOK
  <2>4. k \in overtaken
    BY <2>2, <2>3 DEF AdmissionsInv, StaffInv
  <2> QED BY <2>2, <2>3, <2>4
<1>2. AdmissionsSpec => [][Moved]_admissionsVars
  BY <1>1, AdmissionsAreKept, PTL DEF AdmissionsSpec
<1> QED BY <1>2 DEF IllegalMovesWereOvertaken

\* An admission is announced as stale at most once in StaleDays days, but again
\* after a sweep that died between the announcement and its stamp
\* (admissions_aging commits the two separately).
THEOREM NudgesThrottled == AdmissionsSpec => NudgesAreThrottled
<1> DEFINE Throttled == \A a \in Ids : (sweep'.telling = a /\ sweep.telling # a)
                            => told[a] >= StaleDays \/ a \in unstamped
<1>1. AdmissionsInv /\ [AdmissionsNext]_admissionsVars => [Throttled]_admissionsVars
  <2> SUFFICES ASSUME AdmissionsInv, AdmissionsNext, NEW a \in Ids, sweep'.telling = a, sweep.telling # a
               PROVE  told[a] >= StaleDays \/ a \in unstamped
    OBVIOUS
  <2>1. a # NoId
    BY AdmissionsAssumption
  <2>2. ~ FetchStale /\ ~ StampNudge /\ ~ SweepDies
    BY <2>1 DEF FetchStale, StampNudge, SweepDies, Asleep, AdmissionsInv, AdmissionsTypeOK
  <2>3. sweep' # sweep
    OBVIOUS
  <2>4. PICK b \in Ids : TellStale(b)
    BY <2>2, <2>3 DEF AdmissionsNext, Staff, Aging, CreateEnquiry, ConfirmDocument, ReadStatus, WriteStatus,
           BeginEnrol, ChooseNumber, InsertStudent, CommitEnrol, Fails, DayPasses
  <2>5. b = a /\ a \in sweep.fetched
    BY <2>4 DEF TellStale
  <2> QED BY <2>5 DEF AdmissionsInv, NudgeInv
<1>2. AdmissionsSpec => [][Throttled]_admissionsVars
  BY <1>1, AdmissionsAreKept, PTL DEF AdmissionsSpec
<1> QED BY <1>2 DEF NudgesAreThrottled

-----------------------------------------------------------------------------
(* Sums and products over finite sets.                                     *)

LEMMA LeastNat ==
    ASSUME NEW B \in SUBSET Nat, B # {}
    PROVE  \E m \in B : \A n \in Nat : n < m => n \notin B
<1>1. PICK m \in B : \A n \in B : ~ (<<n, m>> \in OpToRel(<, Nat))
  BY NatLessThanWellFounded, WFMin
<1> QED BY <1>1 DEF OpToRel

\* Among some finite sets there is one with no smaller one among them.
LEMMA LeastSet ==
    ASSUME NEW B, B # {}, \A T \in B : IsFiniteSet(T)
    PROVE  \E M \in B : \A T \in B : Cardinality(T) >= Cardinality(M)
<1> DEFINE sizes == {Cardinality(T) : T \in B}
<1>1. sizes \in SUBSET Nat /\ sizes # {}
  BY FS_CardinalityType
<1>2. PICK m \in sizes : \A n \in Nat : n < m => n \notin sizes
  BY <1>1, LeastNat
<1>3. PICK M \in B : m = Cardinality(M)
  OBVIOUS
<1>4. ASSUME NEW T \in B PROVE Cardinality(T) >= Cardinality(M)
  <2>1. Cardinality(T) \in sizes /\ Cardinality(T) \in Nat /\ m \in Nat
    BY <1>1
  <2> HIDE DEF sizes
  <2> QED BY <1>2, <1>3, <2>1
<1> QED BY <1>4

Pick(T) == CHOOSE x \in T : TRUE
Unit(times) == IF times THEN 1 ELSE 0
With(times, a, b) == IF times THEN a * b ELSE a + b

\* What the library folds with, one element after the other.
IsFold(g, times, v, S) ==
    g = [T \in SUBSET S |-> IF T = {} THEN Unit(times) ELSE With(times, v[Pick(T)], g[T \ {Pick(T)}])]

Total(times, v, S) == (CHOOSE g : IsFold(g, times, v, S))[S]

LEMMA WithLaws ==
    ASSUME NEW times \in BOOLEAN
    PROVE  /\ Unit(times) \in Nat
           /\ \A a, b \in Nat : With(times, a, b) \in Nat
  BY DEF Unit, With

LEMMA WithCommutes ==
    ASSUME NEW times \in BOOLEAN, NEW a \in Nat, NEW b \in Nat, NEW c \in Nat
    PROVE  With(times, a, With(times, b, c)) = With(times, b, With(times, a, c))
  BY DEF With

LEMMA PickIn == \A T : T # {} => Pick(T) \in T
  BY DEF Pick

LEMMA OneLess ==
    ASSUME NEW T, IsFiniteSet(T), NEW x \in T
    PROVE  /\ IsFiniteSet(T \ {x}) /\ Cardinality(T) \in Nat /\ Cardinality(T \ {x}) \in Nat
           /\ Cardinality(T) > 0 /\ Cardinality(T \ {x}) = Cardinality(T) - 1
<1>1. IsFiniteSet(T \ {x}) /\ Cardinality(T \ {x}) = Cardinality(T) - 1
  BY FS_RemoveElement
<1>2. Cardinality(T) \in Nat /\ Cardinality(T \ {x}) \in Nat
  BY <1>1, FS_CardinalityType
<1> QED BY <1>1, <1>2

LEMMA FoldExists ==
    ASSUME NEW times \in BOOLEAN, NEW S, IsFiniteSet(S), NEW v, \A x \in S : v[x] \in Nat
    PROVE  \E g \in [SUBSET S -> Nat] : IsFold(g, times, v, S)
<1> DEFINE Upto(n) == {T \in SUBSET S : Cardinality(T) <= n}
           Body(g, T) == IF T = {} THEN Unit(times) ELSE With(times, v[Pick(T)], g[T \ {Pick(T)}])
           Reaches(n) == \E g \in [Upto(n) -> Nat] : \A T \in Upto(n) : g[T] = Body(g, T)
           bad == {n \in Nat : ~ Reaches(n)}
<1>1. \A T \in SUBSET S : IsFiniteSet(T) /\ Cardinality(T) \in Nat /\ Cardinality(T) <= Cardinality(S)
  BY FS_Subset, FS_CardinalityType
<1>2. Reaches(0)
  <2> DEFINE g == [T \in Upto(0) |-> Unit(times)]
  <2>1. \A T \in Upto(0) : T = {}
    BY <1>1, FS_EmptySet
  <2>2. g \in [Upto(0) -> Nat]
    BY WithLaws
  <2>3. \A T \in Upto(0) : g[T] = Body(g, T)
    BY <2>1
  <2> HIDE DEF g
  <2> QED BY <2>2, <2>3
<1>3. ASSUME NEW n \in Nat, Reaches(n) PROVE Reaches(n + 1)
  <2>1. PICK g \in [Upto(n) -> Nat] : \A T \in Upto(n) : g[T] = Body(g, T)
    BY <1>3
  <2> DEFINE h == [T \in Upto(n + 1) |-> Body(g, T)]
  <2>2. ASSUME NEW T \in Upto(n + 1), T # {}
        PROVE  v[Pick(T)] \in Nat /\ T \ {Pick(T)} \in Upto(n) /\ T \ {Pick(T)} \in Upto(n + 1)
    <3>1. Pick(T) \in T /\ T \in SUBSET S
      BY <2>2, PickIn
    <3>2. T \ {Pick(T)} \in SUBSET S /\ Cardinality(T \ {Pick(T)}) = Cardinality(T) - 1 /\ Cardinality(T) \in Nat
      BY <3>1, <1>1, OneLess
    <3> QED BY <3>1, <3>2
  <2>3. h \in [Upto(n + 1) -> Nat]
    <3>1. ASSUME NEW T \in Upto(n + 1) PROVE Body(g, T) \in Nat
      <4>1. CASE T = {}
        BY <4>1, WithLaws
      <4>2. CASE T # {}
        BY <4>2, <2>2, WithLaws
      <4> QED BY <4>1, <4>2
    <3> QED BY <3>1
  <2>4. ASSUME NEW T \in Upto(n) PROVE Body(g, T) = g[T]
    BY <2>1
  <2>5. ASSUME NEW T \in Upto(n + 1) PROVE h[T] = Body(h, T)
    <3>1. CASE T = {}
      BY <3>1
    <3>2. CASE T # {}
      <4> DEFINE rest == T \ {Pick(T)}
      <4>1. rest \in Upto(n) /\ rest \in Upto(n + 1)
        BY <2>2, <3>2
      <4> HIDE DEF rest
      <4>2. h[rest] = g[rest]
        BY <4>1, <2>4
      <4> USE DEF rest
      <4> QED BY <3>2, <4>2
    <3> QED BY <3>1, <3>2
  <2> HIDE DEF h
  <2> QED BY <2>3, <2>5
<1> HIDE DEF Reaches
<1>4. bad = {}
  <2> SUFFICES ASSUME bad # {} PROVE FALSE
    OBVIOUS
  <2>1. PICK m \in bad : \A n \in Nat : n < m => n \notin bad
    BY LeastNat
  <2>2. m \in Nat /\ m # 0
    BY <1>2
  <2>3. Reaches(m - 1)
    BY <2>1, <2>2
  <2>4. Reaches((m - 1) + 1)
    BY <1>3, <2>2, <2>3
  <2> QED BY <2>2, <2>4
<1>5. Reaches(Cardinality(S))
  BY <1>4, FS_CardinalityType
<1>6. Upto(Cardinality(S)) = SUBSET S
  BY <1>1
<1>7. PICK g \in [SUBSET S -> Nat] : \A T \in SUBSET S : g[T] = Body(g, T)
  BY <1>5, <1>6 DEF Reaches
<1>8. IsFold(g, times, v, S)
  BY <1>7 DEF IsFold
<1> QED BY <1>8

\* A property of finite sets, given as the sets G that have it, that survives
\* the addition of an element.
LEMMA SetInduction ==
    ASSUME NEW S, IsFiniteSet(S), NEW G, {} \in G,
           \A T \in SUBSET S : \A x \in T : T \ {x} \in G => T \in G
    PROVE  S \in G
<1> DEFINE B == {T \in SUBSET S : T \notin G}
<1> SUFFICES ASSUME S \notin G PROVE FALSE
  OBVIOUS
<1>1. B # {} /\ \A T \in B : IsFiniteSet(T)
  BY FS_Subset
<1>2. PICK M \in B : \A T \in B : Cardinality(T) >= Cardinality(M)
  <2> HIDE DEF B
  <2> QED BY <1>1, LeastSet
<1>3. PICK x \in M : TRUE
  OBVIOUS
<1>4. M \ {x} \notin B
  BY <1>1, <1>2, <1>3, OneLess
<1> QED BY <1>2, <1>3, <1>4

\* Two folds agree on the sets that both are about.
LEMMA FoldUnique ==
    ASSUME NEW times \in BOOLEAN, NEW S, IsFiniteSet(S), NEW D \in SUBSET S, NEW v, NEW g, NEW h,
           IsFold(g, times, v, S), IsFold(h, times, v, D)
    PROVE  h[D] = g[D]
<1> DEFINE G == {T \in SUBSET D : h[T] = g[T]}
           B == {T \in SUBSET D : h[T] # g[T]}
<1> SUFFICES ASSUME h[D] # g[D] PROVE FALSE
  OBVIOUS
<1>1. B # {} /\ \A T \in B : IsFiniteSet(T)
  BY FS_Subset
<1>2. PICK M \in B : \A T \in B : Cardinality(T) >= Cardinality(M)
  <2> HIDE DEF B
  <2> QED BY <1>1, LeastSet
<1>3. M \in SUBSET D /\ M \in SUBSET S
  OBVIOUS
<1>4. M # {}
  BY <1>3 DEF IsFold
<1>5. Pick(M) \in M
  BY <1>4, PickIn
<1>6. M \ {Pick(M)} \notin B
  BY <1>1, <1>2, <1>5, OneLess
<1>7. h[M \ {Pick(M)}] = g[M \ {Pick(M)}]
  BY <1>3, <1>6
<1>8. h[M] = With(times, v[Pick(M)], h[M \ {Pick(M)}])
  BY <1>3, <1>4 DEF IsFold
<1>9. g[M] = With(times, v[Pick(M)], g[M \ {Pick(M)}])
  BY <1>3, <1>4 DEF IsFold
<1> QED BY <1>2, <1>7, <1>8, <1>9

LEMMA TotalIs ==
    ASSUME NEW times \in BOOLEAN, NEW S, IsFiniteSet(S), NEW v, \A x \in S : v[x] \in Nat,
           NEW g, IsFold(g, times, v, S)
    PROVE  \A D \in SUBSET S : Total(times, v, D) = g[D]
<1> SUFFICES ASSUME NEW D \in SUBSET S PROVE Total(times, v, D) = g[D]
  OBVIOUS
<1>1. IsFiniteSet(D)
  BY FS_Subset
<1>2. \E h : IsFold(h, times, v, D)
  BY <1>1, FoldExists
<1> DEFINE h == CHOOSE h : IsFold(h, times, v, D)
<1>3. IsFold(h, times, v, D)
  BY <1>2
<1>4. Total(times, v, D) = h[D]
  BY DEF Total
<1> HIDE DEF h
<1> QED BY <1>3, <1>4, FoldUnique

\* A total is a number, starts from the unit, and may be taken from any of its
\* elements.
LEMMA TotalType ==
    ASSUME NEW times \in BOOLEAN, NEW S, IsFiniteSet(S), NEW v, \A x \in S : v[x] \in Nat
    PROVE  Total(times, v, S) \in Nat
<1>1. PICK g \in [SUBSET S -> Nat] : IsFold(g, times, v, S)
  BY FoldExists
<1> QED BY <1>1, TotalIs

LEMMA TotalEmpty ==
    ASSUME NEW times \in BOOLEAN, NEW v
    PROVE  Total(times, v, {}) = Unit(times)
<1>1. PICK g \in [SUBSET {} -> Nat] : IsFold(g, times, v, {})
  BY FoldExists, FS_EmptySet
<1>2. Total(times, v, {}) = g[{}]
  BY <1>1, TotalIs, FS_EmptySet
<1> QED BY <1>1, <1>2 DEF IsFold

LEMMA TotalStep ==
    ASSUME NEW times \in BOOLEAN, NEW S, IsFiniteSet(S), NEW v, \A x \in S : v[x] \in Nat
    PROVE  \A x \in S : Total(times, v, S) = With(times, v[x], Total(times, v, S \ {x}))
<1>1. PICK g \in [SUBSET S -> Nat] : IsFold(g, times, v, S)
  BY FoldExists
<1>2. \A D \in SUBSET S : Total(times, v, D) = g[D]
  BY <1>1, TotalIs
<1> DEFINE G == {T \in SUBSET S : \A x \in T : g[T] = With(times, v[x], g[T \ {x}])}
<1>3. ASSUME NEW T \in SUBSET S, NEW y \in T, \A z \in T : T \ {z} \in G
      PROVE  g[T] = With(times, v[y], g[T \ {y}])
  <2> DEFINE p == Pick(T)
  <2>1. p \in T
    BY PickIn
  <2>2. g[T] = With(times, v[p], g[T \ {p}])
    BY <1>1, <2>1 DEF IsFold
  <2> HIDE DEF p
  <2>3. CASE y = p
    BY <2>2, <2>3
  <2>4. CASE y # p
    <3>1. g[T \ {p}] = With(times, v[y], g[(T \ {p}) \ {y}])
      BY <1>3, <2>1, <2>4
    <3>2. g[T \ {y}] = With(times, v[p], g[(T \ {y}) \ {p}])
      BY <1>3, <2>1, <2>4
    <3>3. (T \ {p}) \ {y} = (T \ {y}) \ {p}
      OBVIOUS
    <3>4. v[y] \in Nat /\ v[p] \in Nat /\ g[(T \ {y}) \ {p}] \in Nat
      BY <2>1
    <3>5. With(times, v[p], With(times, v[y], g[(T \ {y}) \ {p}])) = With(times, v[y], With(times, v[p], g[(T \ {y}) \ {p}]))
      BY <3>4, WithCommutes
    <3>6. g[T] = With(times, v[p], With(times, v[y], g[(T \ {y}) \ {p}]))
      BY <2>2, <3>1, <3>3
    <3>7. With(times, v[y], g[T \ {y}]) = With(times, v[y], With(times, v[p], g[(T \ {y}) \ {p}]))
      BY <3>2
    <3> QED BY <3>5, <3>6, <3>7
  <2> QED BY <2>3, <2>4
<1>4. S \in G
  <2> DEFINE B == {T \in SUBSET S : T \notin G}
  <2> SUFFICES ASSUME S \notin G PROVE FALSE
    OBVIOUS
  <2>1. B # {} /\ \A T \in B : IsFiniteSet(T)
    BY FS_Subset
  <2>2. PICK M \in B : \A T \in B : Cardinality(T) >= Cardinality(M)
    <3> HIDE DEF B
    <3> QED BY <2>1, LeastSet
  <2> HIDE DEF G
  <2>3. \A z \in M : M \ {z} \in G
    <3> SUFFICES ASSUME NEW z \in M PROVE M \ {z} \in G
      OBVIOUS
    <3>1. M \ {z} \notin B
      BY <2>1, <2>2, OneLess
    <3> QED BY <3>1
  <2>4. M \in SUBSET S /\ M \notin G
    OBVIOUS
  <2>5. \A y \in M : g[M] = With(times, v[y], g[M \ {y}])
    BY <1>3, <2>3, <2>4
  <2> QED BY <2>4, <2>5 DEF G
<1> QED BY <1>2, <1>4

\* The library's folds are those totals.
LEMMA SumIsTotal == ASSUME NEW v, NEW S PROVE SumOver(v, S) = Total(FALSE, v, S)
<1>1. SumOver(v, S) =
        (CHOOSE g : g = [T \in SUBSET S |-> IF T = {} THEN 0 ELSE v[Pick(T)] + g[T \ {Pick(T)}]])[S]
  BY Zenon DEF SumOver, MapThenSumSet, MapThenFoldSet, Pick
<1> QED BY <1>1 DEF Total, IsFold, Unit, With

LEMMA ProductIsTotal == ASSUME NEW v, NEW S PROVE ProductOver(v, S) = Total(TRUE, v, S)
<1>1. ProductOver(v, S) =
        (CHOOSE g : g = [T \in SUBSET S |-> IF T = {} THEN 1 ELSE v[Pick(T)] * g[T \ {Pick(T)}]])[S]
  BY Zenon DEF ProductOver, FoldSet, MapThenFoldSet, Pick
<1> QED BY <1>1 DEF Total, IsFold, Unit, With

LEMMA SumType ==
    ASSUME NEW S, IsFiniteSet(S), NEW v, \A x \in S : v[x] \in Nat
    PROVE  SumOver(v, S) \in Nat
  BY SumIsTotal, TotalType

LEMMA SumEmpty == \A v : SumOver(v, {}) = 0
  BY SumIsTotal, TotalEmpty DEF Unit

LEMMA SumStep ==
    ASSUME NEW S, IsFiniteSet(S), NEW v, \A x \in S : v[x] \in Nat, NEW x \in S
    PROVE  /\ SumOver(v, S) = v[x] + SumOver(v, S \ {x})
           /\ SumOver(v, S \ {x}) \in Nat
<1> DEFINE times == FALSE
<1>3. times \in BOOLEAN
  OBVIOUS
<1> HIDE DEF times
<1>1. Total(times, v, S) = With(times, v[x], Total(times, v, S \ {x}))
  BY <1>3, TotalStep
<1>2. IsFiniteSet(S \ {x})
  BY FS_Subset
<1> QED BY <1>1, <1>2, SumIsTotal, SumType DEF With, times

LEMMA ProductType ==
    ASSUME NEW S, IsFiniteSet(S), NEW v, \A x \in S : v[x] \in Nat
    PROVE  ProductOver(v, S) \in Nat
  BY ProductIsTotal, TotalType

LEMMA ProductEmpty == \A v : ProductOver(v, {}) = 1
  BY ProductIsTotal, TotalEmpty DEF Unit

LEMMA ProductStep ==
    ASSUME NEW S, IsFiniteSet(S), NEW v, \A x \in S : v[x] \in Nat, NEW x \in S
    PROVE  /\ ProductOver(v, S) = v[x] * ProductOver(v, S \ {x})
           /\ ProductOver(v, S \ {x}) \in Nat
<1> DEFINE times == TRUE
<1>3. times \in BOOLEAN
  OBVIOUS
<1> HIDE DEF times
<1>1. Total(times, v, S) = With(times, v[x], Total(times, v, S \ {x}))
  BY <1>3, TotalStep
<1>2. IsFiniteSet(S \ {x})
  BY FS_Subset
<1> QED BY <1>1, <1>2, ProductIsTotal, ProductType DEF With, times

LEMMA SumOfOne ==
    ASSUME NEW x, NEW v, v[x] \in Nat
    PROVE  SumOver(v, {x}) = v[x]
<1>1. IsFiniteSet({x}) /\ {x} \ {x} = {}
  BY FS_Singleton
<1> QED BY <1>1, SumStep, SumEmpty

LEMMA ProductOfOne ==
    ASSUME NEW x, NEW v, v[x] \in Nat
    PROVE  ProductOver(v, {x}) = v[x]
<1>1. IsFiniteSet({x}) /\ {x} \ {x} = {}
  BY FS_Singleton
<1> QED BY <1>1, ProductStep, ProductEmpty

\* Smaller terms and a factor: if each term of v is at most k times the term of
\* w, the sum of v is at most k times the sum of w.
LEMMA SumBounded ==
    ASSUME NEW S, IsFiniteSet(S), NEW k \in Nat, NEW v, NEW w,
           \A x \in S : v[x] \in Nat /\ w[x] \in Nat /\ v[x] <= k * w[x]
    PROVE  SumOver(v, S) <= k * SumOver(w, S)
<1> DEFINE G == {T \in SUBSET S : SumOver(v, T) <= k * SumOver(w, T)}
<1>1. {} \in G
  BY SumEmpty
<1>2. ASSUME NEW T \in SUBSET S, NEW x \in T, T \ {x} \in G PROVE T \in G
  <2>1. IsFiniteSet(T)
    BY FS_Subset
  <2> DEFINE a == SumOver(v, T \ {x})
             b == SumOver(w, T \ {x})
  <2>2. SumOver(v, T) = v[x] + a /\ a \in Nat /\ SumOver(w, T) = w[x] + b /\ b \in Nat
    BY <2>1, SumStep
  <2>3. a <= k * b /\ v[x] <= k * w[x] /\ v[x] \in Nat /\ w[x] \in Nat
    BY <1>2
  <2> HIDE DEF a, b
  <2>4. k * (w[x] + b) = k * w[x] + k * b /\ k * w[x] \in Nat /\ k * b \in Nat
    BY <2>2, <2>3
  <2>5. v[x] + a <= k * (w[x] + b)
    BY <2>2, <2>3, <2>4
  <2> QED BY <2>2, <2>5
<1> HIDE DEF G
<1>3. S \in G
  BY <1>1, <1>2, SetInduction
<1> QED BY <1>3 DEF G

\* If each term of w is k times the term of v, so is the sum.
LEMMA SumScaled ==
    ASSUME NEW S, IsFiniteSet(S), NEW k \in Nat, NEW v, NEW w,
           \A x \in S : v[x] \in Nat /\ w[x] = k * v[x]
    PROVE  SumOver(w, S) = k * SumOver(v, S)
<1> DEFINE G == {T \in SUBSET S : SumOver(w, T) = k * SumOver(v, T)}
<1>1. {} \in G
  BY SumEmpty
<1>2. ASSUME NEW T \in SUBSET S, NEW x \in T, T \ {x} \in G PROVE T \in G
  <2>1. IsFiniteSet(T) /\ \A y \in T : w[y] \in Nat /\ v[y] \in Nat
    BY FS_Subset
  <2> DEFINE a == SumOver(w, T \ {x})
             b == SumOver(v, T \ {x})
  <2>2. SumOver(w, T) = w[x] + a /\ a \in Nat /\ SumOver(v, T) = v[x] + b /\ b \in Nat
    BY <2>1, SumStep
  <2>3. a = k * b /\ w[x] = k * v[x] /\ v[x] \in Nat
    BY <1>2
  <2> HIDE DEF a, b
  <2>4. k * (v[x] + b) = k * v[x] + k * b
    BY <2>2, <2>3
  <2> QED BY <2>2, <2>3, <2>4
<1> HIDE DEF G
<1>3. S \in G
  BY <1>1, <1>2, SetInduction
<1> QED BY <1>3 DEF G

\* More terms, a larger sum.
LEMMA SumGrows ==
    ASSUME NEW S, IsFiniteSet(S), NEW R \in SUBSET S, NEW v, \A x \in S : v[x] \in Nat
    PROVE  SumOver(v, R) <= SumOver(v, S)
<1> DEFINE G == {T \in SUBSET (S \ R) : SumOver(v, R) <= SumOver(v, R \cup T)}
<1>0. IsFiniteSet(S \ R) /\ IsFiniteSet(R)
  BY FS_Subset
<1>1. {} \in G
  <2>1. SumOver(v, R) \in Nat /\ R \cup {} = R
    BY <1>0, SumType
  <2> QED BY <2>1
<1>2. ASSUME NEW T \in SUBSET (S \ R), NEW x \in T, T \ {x} \in G PROVE T \in G
  <2>1. IsFiniteSet(R \cup T) /\ (R \cup T) \ {x} = R \cup (T \ {x}) /\ SumOver(v, R) \in Nat /\ v[x] \in Nat
    BY <1>0, FS_Subset, SumType
  <2>2. SumOver(v, R \cup T) = v[x] + SumOver(v, R \cup (T \ {x})) /\ SumOver(v, R \cup (T \ {x})) \in Nat
    BY <2>1, SumStep
  <2>3. SumOver(v, R) <= SumOver(v, R \cup (T \ {x}))
    BY <1>2
  <2> QED BY <2>1, <2>2, <2>3
<1> HIDE DEF G
<1>3. S \ R \in G
  BY <1>0, <1>1, <1>2, SetInduction
<1>4. R \cup (S \ R) = S
  OBVIOUS
<1> QED BY <1>3, <1>4 DEF G

\* A sum of positive terms is positive.
LEMMA SumPositive ==
    ASSUME NEW S, IsFiniteSet(S), S # {}, NEW v, \A x \in S : v[x] \in Nat \ {0}
    PROVE  SumOver(v, S) \in Nat \ {0}
<1>1. PICK x \in S : TRUE
  OBVIOUS
<1>2. SumOver(v, S) = v[x] + SumOver(v, S \ {x}) /\ SumOver(v, S \ {x}) \in Nat /\ v[x] \in Nat \ {0}
  BY SumStep
<1> QED BY <1>2

\* The product over more elements is a multiple.
LEMMA ProductGrows ==
    ASSUME NEW S, IsFiniteSet(S), NEW R \in SUBSET S, NEW v, \A x \in S : v[x] \in Nat \ {0}
    PROVE  \E q \in Nat \ {0} : ProductOver(v, S) = q * ProductOver(v, R)
<1> DEFINE G == {T \in SUBSET (S \ R) : \E q \in Nat \ {0} : ProductOver(v, R \cup T) = q * ProductOver(v, R)}
<1>0. IsFiniteSet(S \ R) /\ IsFiniteSet(R)
  BY FS_Subset
<1>1. {} \in G
  <2>1. ProductOver(v, R) \in Nat /\ R \cup {} = R
    BY <1>0, ProductType
  <2>2. ProductOver(v, R) = 1 * ProductOver(v, R)
    BY <2>1
  <2> QED BY <2>1, <2>2
<1>2. ASSUME NEW T \in SUBSET (S \ R), NEW x \in T, T \ {x} \in G PROVE T \in G
  <2>1. IsFiniteSet(R \cup T) /\ (R \cup T) \ {x} = R \cup (T \ {x}) /\ ProductOver(v, R) \in Nat /\ v[x] \in Nat \ {0}
    BY <1>0, FS_Subset, ProductType
  <2>2. ProductOver(v, R \cup T) = v[x] * ProductOver(v, R \cup (T \ {x}))
    BY <2>1, ProductStep
  <2>3. PICK q \in Nat \ {0} : ProductOver(v, R \cup (T \ {x})) = q * ProductOver(v, R)
    BY <1>2
  <2>4. v[x] * (q * ProductOver(v, R)) = (v[x] * q) * ProductOver(v, R) /\ v[x] * q \in Nat \ {0}
    BY <2>1
  <2> QED BY <2>2, <2>3, <2>4
<1> HIDE DEF G
<1>3. S \ R \in G
  BY <1>0, <1>1, <1>2, SetInduction
<1>4. R \cup (S \ R) = S
  OBVIOUS
<1> QED BY <1>3, <1>4 DEF G

LEMMA ProductPositive ==
    ASSUME NEW S, IsFiniteSet(S), NEW v, \A x \in S : v[x] \in Nat \ {0}
    PROVE  ProductOver(v, S) \in Nat \ {0}
<1>1. PICK q \in Nat \ {0} : ProductOver(v, S) = q * ProductOver(v, {})
  BY ProductGrows
<1> QED BY <1>1, ProductEmpty

-----------------------------------------------------------------------------
(* Quotients.                                                              *)

LEMMA Quotient ==
    ASSUME NEW a \in Nat, NEW b \in Nat \ {0}
    PROVE  a \div b \in Nat /\ b * (a \div b) <= a /\ a < b * (a \div b) + b
  OBVIOUS

LEMMA QuotientOfMultiple ==
    ASSUME NEW a \in Nat, NEW b \in Nat \ {0}
    PROVE  (b * a) \div b = a
<1> DEFINE q == (b * a) \div b
<1>1. b * a \in Nat
  OBVIOUS
<1>2. q \in Nat /\ b * q <= b * a /\ b * a < b * q + b
  BY <1>1, Quotient
<1> HIDE DEF q
<1>3. ~ (q < a)
  <2> SUFFICES ASSUME q < a PROVE FALSE
    OBVIOUS
  <2>1. b * (q + 1) <= b * a
    <3>1. \A n \in Nat : b * (q + 1) <= b * (q + 1 + n)
      BY <1>2
    <3>2. a - (q + 1) \in Nat /\ q + 1 + (a - (q + 1)) = a
      BY <1>2
    <3> QED BY <3>1, <3>2
  <2> QED BY <1>2, <2>1
<1>4. ~ (a < q)
  <2> SUFFICES ASSUME a < q PROVE FALSE
    OBVIOUS
  <2>1. b * (a + 1) <= b * q
    <3>1. \A n \in Nat : b * (a + 1) <= b * (a + 1 + n)
      BY <1>2
    <3>2. q - (a + 1) \in Nat /\ a + 1 + (q - (a + 1)) = q
      BY <1>2
    <3> QED BY <3>1, <3>2
  <2> QED BY <1>2, <2>1
<1>5. q = a
  BY <1>2, <1>3, <1>4
<1> QED BY <1>5 DEF q

\* A product with a larger factor is larger.
LEMMA Times ==
    ASSUME NEW a \in Nat, NEW b \in Nat, NEW k \in Nat, a <= b
    PROVE  k * a <= k * b
<1>1. b - a \in Nat /\ b = a + (b - a)
  OBVIOUS
<1>2. \A n \in Nat : k * a <= k * (a + n)
  OBVIOUS
<1> QED BY <1>1, <1>2

-----------------------------------------------------------------------------
(* Roundings.                                                              *)

LEMMA NearestBounds ==
    ASSUME NEW n \in Nat, NEW d \in Nat \ {0}, NEW q \in Nearest(n, d)
    PROVE  q \in Nat /\ 2 * d * q <= 2 * n + d /\ 2 * n <= 2 * d * q + d
<1>1. n \div d \in Nat
  BY Quotient
<1> QED BY <1>1 DEF Nearest

LEMMA NearestExists ==
    ASSUME NEW n \in Nat, NEW d \in Nat \ {0}
    PROVE  Nearest(n, d) # {}
<1> DEFINE q == n \div d
<1>1. q \in Nat /\ d * q <= n /\ n < d * q + d
  BY Quotient
<1>2. \A x \in {q, q + 1} : (2 * d * x <= 2 * n + d /\ 2 * n <= 2 * d * x + d) => x \in Nearest(n, d)
  BY DEF Nearest
<1> HIDE DEF q
<1>3. 2 * d * q = 2 * (d * q) /\ 2 * d * (q + 1) = 2 * (d * q) + 2 * d /\ d * q \in Nat
  BY <1>1
<1>4. CASE 2 * n <= 2 * (d * q) + d
  BY <1>1, <1>2, <1>3, <1>4
<1>5. CASE ~ (2 * n <= 2 * (d * q) + d)
  BY <1>1, <1>2, <1>3, <1>5
<1> QED BY <1>4, <1>5

LEMMA RoundingsAreNearest ==
    ASSUME NEW n \in Nat, NEW d \in Nat \ {0}
    PROVE  RoundAway(n, d) \in Nearest(n, d) /\ RoundEven(n, d) \in Nearest(n, d)
<1>1. PICK q \in Nat : Nearest(n, d) \subseteq {q, q + 1}
  BY Quotient DEF Nearest
<1>2. Nearest(n, d) # {}
  BY NearestExists
<1>3. \E r \in Nearest(n, d) : \A p \in Nearest(n, d) : p <= r
  <2>1. CASE q + 1 \in Nearest(n, d)
    BY <1>1, <2>1
  <2>2. CASE q + 1 \notin Nearest(n, d)
    BY <1>1, <1>2, <2>2
  <2> QED BY <2>1, <2>2
<1>4. \E r \in Nearest(n, d) : \A p \in Nearest(n, d) : p = r \/ r % 2 = 0
  <2>1. CASE q \in Nearest(n, d) /\ q % 2 = 0
    BY <2>1
  <2>2. CASE q + 1 \in Nearest(n, d) /\ (q + 1) % 2 = 0
    BY <2>2
  <2>3. CASE q \notin Nearest(n, d) \/ q + 1 \notin Nearest(n, d)
    BY <1>1, <1>2, <2>3
  <2>4. q % 2 = 0 \/ (q + 1) % 2 = 0
    OBVIOUS
  <2> QED BY <2>1, <2>2, <2>3, <2>4
<1> QED BY <1>3, <1>4 DEF RoundAway, RoundEven

\* Of two fractions the one that is not larger is rounded to at most one more.
LEMMA RoundedOrder ==
    ASSUME NEW a \in Nat, NEW b \in Nat \ {0}, NEW c \in Nat, NEW d \in Nat \ {0},
           a * d <= c * b, NEW p \in Nearest(a, b), NEW q \in Nearest(c, d)
    PROVE  p <= q + 1
<1>1. p \in Nat /\ 2 * b * p <= 2 * a + b
  BY NearestBounds
<1>2. q \in Nat /\ 2 * c <= 2 * d * q + d
  BY NearestBounds
<1> SUFFICES ASSUME q + 2 <= p PROVE FALSE
  BY <1>1, <1>2
<1> DEFINE e == b * d
<1>3. e \in Nat \ {0}
  OBVIOUS
<1>4. d * (2 * b * (q + 2)) <= d * (2 * a + b)
  <2>1. (2 * b) * (q + 2) <= (2 * b) * p
    BY <1>1, <1>2, Times
  <2>2. 2 * b * (q + 2) \in Nat /\ 2 * b * (q + 2) <= 2 * a + b /\ 2 * a + b \in Nat
    BY <1>1, <1>2, <2>1
  <2> QED BY <2>2, Times
<1>5. b * (2 * c) <= b * (2 * d * q + d)
  <2>1. 2 * c \in Nat /\ 2 * d * q + d \in Nat
    BY <1>2
  <2> QED BY <1>2, <2>1, Times
<1>6. d * (2 * b * (q + 2)) = 2 * (e * q) + 4 * e
  BY <1>2
<1>7. d * (2 * a + b) = 2 * (a * d) + e
  OBVIOUS
<1>8. b * (2 * c) = 2 * (c * b)
  OBVIOUS
<1>9. b * (2 * d * q + d) = 2 * (e * q) + e
  BY <1>2
<1>10. e * q \in Nat /\ a * d \in Nat /\ c * b \in Nat
  BY <1>2
<1> HIDE DEF e
<1> QED BY <1>3, <1>4, <1>5, <1>6, <1>7, <1>8, <1>9, <1>10

\* A whole number is not rounded beyond: of at most k the result is at most k.
LEMMA RoundedWithin ==
    ASSUME NEW n \in Nat, NEW d \in Nat \ {0}, NEW k \in Nat, n <= k * d, NEW p \in Nearest(n, d)
    PROVE  p <= k
<1>1. p \in Nat /\ 2 * d * p <= 2 * n + d
  BY NearestBounds
<1> SUFFICES ASSUME k + 1 <= p PROVE FALSE
  BY <1>1
<1>2. (2 * d) * (k + 1) <= (2 * d) * p
  BY <1>1, Times
<1>3. (2 * d) * (k + 1) = 2 * (k * d) + 2 * d /\ k * d \in Nat
  OBVIOUS
<1> QED BY <1>1, <1>2, <1>3

-----------------------------------------------------------------------------
(* Weighted marks.                                                         *)

Part(max, scores, scale) ==
    [c \in DOMAIN scores |->
        IF scores[c].absent THEN 0 ELSE scores[c].marks * Weight[c] * (scale \div max[c])]

\* The parts of Earned and Attainable: numbers, the maxima and weights positive.
LEMMA PercentParts ==
    ASSUME NEW D, IsFiniteSet(D), NEW R \in SUBSET D, NEW max, NEW scores,
           D \subseteq Components, R # {}, DOMAIN scores = R,
           \A c \in D : max[c] \in Nat \ {0}, \A c \in R : scores[c] \in ScoreRecord
    PROVE  /\ ProductOver(max, D) \in Nat \ {0}
           /\ SumOver(Weight, D) \in Nat \ {0}
           /\ \A c \in R : /\ ProductOver(max, D) \div max[c] \in Nat
                           /\ ProductOver(max, D) = max[c] * (ProductOver(max, D) \div max[c])
                           /\ Part(max, scores, ProductOver(max, D))[c] \in Nat
           /\ SumOver(Part(max, scores, ProductOver(max, D)), R) \in Nat
<1>1. ProductOver(max, D) \in Nat \ {0}
  BY ProductPositive
<1>2. \A c \in D : Weight[c] \in Nat \ {0}
  BY WeightAssumption
<1>3. SumOver(Weight, D) \in Nat \ {0}
  BY <1>2, SumPositive
<1>4. ASSUME NEW c \in R
      PROVE  /\ ProductOver(max, D) \div max[c] \in Nat
             /\ ProductOver(max, D) = max[c] * (ProductOver(max, D) \div max[c])
             /\ Part(max, scores, ProductOver(max, D))[c] \in Nat
  <2> DEFINE rest == ProductOver(max, D \ {c})
  <2>1. ProductOver(max, D) = max[c] * rest /\ rest \in Nat /\ max[c] \in Nat \ {0}
    BY ProductStep
  <2> HIDE DEF rest
  <2>2. ProductOver(max, D) \div max[c] = rest
    BY <2>1, QuotientOfMultiple
  <2>3. Part(max, scores, ProductOver(max, D))[c] =
          IF scores[c].absent THEN 0 ELSE scores[c].marks * Weight[c] * rest
    BY <2>2 DEF Part
  <2>4. scores[c].marks \in Nat /\ Weight[c] \in Nat
    BY <1>2 DEF ScoreRecord
  <2>5. scores[c].marks * Weight[c] * rest \in Nat
    BY <2>1, <2>4
  <2> QED BY <2>1, <2>2, <2>3, <2>5
<1>5. IsFiniteSet(R)
  BY FS_Subset
<1>6. SumOver(Part(max, scores, ProductOver(max, D)), R) \in Nat
  BY <1>4, <1>5, SumType
<1> QED BY <1>1, <1>3, <1>4, <1>6

LEMMA OwnParts ==
    ASSUME NEW R, IsFiniteSet(R), NEW max, NEW scores,
           R \subseteq Components, R # {}, DOMAIN scores = R,
           \A c \in R : max[c] \in Nat \ {0}, \A c \in R : scores[c] \in ScoreRecord
    PROVE  /\ ProductOver(max, R) \in Nat \ {0}
           /\ SumOver(Weight, R) \in Nat \ {0}
           /\ SumOver(Part(max, scores, ProductOver(max, R)), R) \in Nat
           /\ \A c \in R : /\ ProductOver(max, R) \div max[c] \in Nat
                           /\ ProductOver(max, R) = max[c] * (ProductOver(max, R) \div max[c])
                           /\ Part(max, scores, ProductOver(max, R))[c] \in Nat
<1>1. R \in SUBSET R
  OBVIOUS
<1> QED BY <1>1, PercentParts

LEMMA EarnedIs ==
    ASSUME NEW max, NEW scores, NEW counting
    PROVE  /\ Earned(max, scores, counting) = 10000 * SumOver(Part(max, scores, ProductOver(max, counting)), DOMAIN scores)
           /\ Attainable(max, counting) = ProductOver(max, counting) * SumOver(Weight, counting)
  BY DEF Earned, Attainable, Part

LEMMA EarnedType ==
    ASSUME NEW D, IsFiniteSet(D), D \subseteq Components, NEW R \in SUBSET D, R # {}, NEW max, NEW scores, DOMAIN scores = R,
           \A c \in D : max[c] \in Nat \ {0}, \A c \in R : scores[c] \in ScoreRecord
    PROVE  Earned(max, scores, D) \in Nat /\ Attainable(max, D) \in Nat \ {0}
<1> DEFINE sum == SumOver(Part(max, scores, ProductOver(max, D)), R)
           scale == ProductOver(max, D)
           weights == SumOver(Weight, D)
<1>1. sum \in Nat /\ scale \in Nat \ {0} /\ weights \in Nat \ {0}
  BY PercentParts
<1>2. Earned(max, scores, D) = 10000 * sum /\ Attainable(max, D) = scale * weights
  BY EarnedIs
<1> HIDE DEF sum, scale, weights
<1> QED BY <1>1, <1>2

\* Marks that fit their maxima earn no more than what there is.
LEMMA EarnedBounded ==
    ASSUME NEW R, IsFiniteSet(R), R # {}, R \subseteq Components, NEW max, NEW scores, DOMAIN scores = R,
           \A c \in R : max[c] \in Nat \ {0}, \A c \in R : scores[c] \in ScoreRecord, \A c \in R : scores[c].marks <= max[c]
    PROVE  Earned(max, scores, R) <= 10000 * Attainable(max, R)
<1> DEFINE scale == ProductOver(max, R)
           part == Part(max, scores, scale)
           sum == SumOver(part, R)
           weights == SumOver(Weight, R)
<1>1. /\ scale \in Nat \ {0} /\ weights \in Nat \ {0} /\ sum \in Nat
      /\ \A c \in R : scale \div max[c] \in Nat /\ scale = max[c] * (scale \div max[c]) /\ part[c] \in Nat
  BY OwnParts
<1>2. \A c \in R : Weight[c] \in Nat
  BY WeightAssumption
<1>3. ASSUME NEW c \in R PROVE part[c] <= scale * Weight[c]
  <2>1. part[c] = IF scores[c].absent THEN 0 ELSE scores[c].marks * Weight[c] * (scale \div max[c])
    BY DEF Part
  <2> HIDE DEF part
  <2> DEFINE q == scale \div max[c]
             m == scores[c].marks
             w == Weight[c]
  <2>2. m \in Nat /\ m <= max[c] /\ w \in Nat /\ q \in Nat /\ max[c] \in Nat /\ scale = max[c] * q /\ scale \in Nat
    BY <1>1, <1>2 DEF ScoreRecord
  <2>3. part[c] = IF scores[c].absent THEN 0 ELSE m * w * q
    BY <2>1
  <2> HIDE DEF q, m, w, scale
  <2>4. w * q \in Nat
    BY <2>2
  <2>5. (w * q) * m <= (w * q) * max[c]
    BY <2>2, <2>4, Times
  <2>6. (w * q) * m = m * w * q /\ (w * q) * max[c] = scale * w /\ 0 <= scale * w
    BY <2>2
  <2>7. part[c] <= scale * w
    BY <2>3, <2>5, <2>6
  <2> QED BY <2>7 DEF w
<1>4. sum <= scale * weights
  <2> HIDE DEF part, scale
  <2> QED BY <1>1, <1>2, <1>3, SumBounded
<1>5. Earned(max, scores, R) = 10000 * sum /\ Attainable(max, R) = scale * weights
  BY EarnedIs
<1> HIDE DEF scale, part, sum, weights
<1>6. scale * weights \in Nat
  BY <1>1
<1> QED BY <1>1, <1>4, <1>5, <1>6

\* Components without a score lower the share or leave it.
LEMMA ShareShrinks ==
    ASSUME NEW D, IsFiniteSet(D), D \subseteq Components, NEW R \in SUBSET D, R # {}, NEW max, NEW scores, DOMAIN scores = R,
           \A c \in D : max[c] \in Nat \ {0}, \A c \in R : scores[c] \in ScoreRecord
    PROVE  Earned(max, scores, D) * Attainable(max, R) <= Earned(max, scores, R) * Attainable(max, D)
<1> DEFINE scale == ProductOver(max, R)
           part == Part(max, scores, scale)
           sum == SumOver(part, R)
           weights == SumOver(Weight, R)
           Scale == ProductOver(max, D)
           Parts == Part(max, scores, Scale)
           Sum == SumOver(Parts, R)
           Weights == SumOver(Weight, D)
<1>0. IsFiniteSet(R) /\ R \in SUBSET R /\ R \subseteq Components /\ \A c \in R : max[c] \in Nat \ {0}
  BY FS_Subset
<1>1. /\ scale \in Nat \ {0} /\ weights \in Nat \ {0} /\ sum \in Nat
      /\ \A c \in R : scale \div max[c] \in Nat /\ scale = max[c] * (scale \div max[c]) /\ part[c] \in Nat
  BY <1>0, PercentParts
<1>2. /\ Scale \in Nat \ {0} /\ Weights \in Nat \ {0} /\ Sum \in Nat
      /\ \A c \in R : Scale \div max[c] \in Nat /\ Scale = max[c] * (Scale \div max[c]) /\ Parts[c] \in Nat
  <2>1. R \in SUBSET D /\ \A c \in D : max[c] \in Nat \ {0}
    OBVIOUS
  <2>2. \A c \in R : scores[c] \in ScoreRecord
    OBVIOUS
  <2> QED BY <2>1, <2>2, PercentParts
<1>3. PICK q \in Nat \ {0} : Scale = q * scale
  BY ProductGrows
<1>4. ASSUME NEW c \in R PROVE Parts[c] = q * part[c]
  <2>1. /\ part[c] = IF scores[c].absent THEN 0 ELSE scores[c].marks * Weight[c] * (scale \div max[c])
        /\ Parts[c] = IF scores[c].absent THEN 0 ELSE scores[c].marks * Weight[c] * (Scale \div max[c])
    BY DEF Part
  <2> HIDE DEF part, Parts
  <2> DEFINE r == scale \div max[c]
             m == scores[c].marks
             w == Weight[c]
  <2>2. m \in Nat /\ w \in Nat /\ r \in Nat /\ max[c] \in Nat \ {0} /\ scale = max[c] * r
    BY <1>1, WeightAssumption DEF ScoreRecord
  <2>3. part[c] = IF scores[c].absent THEN 0 ELSE m * w * r
    BY <2>1
  <2> HIDE DEF r, m, scale, Scale
  <2>4. Scale = max[c] * (q * r) /\ q * r \in Nat
    BY <1>3, <2>2
  <2>5. Scale \div max[c] = q * r
    BY <2>2, <2>4, QuotientOfMultiple
  <2>6. Parts[c] = IF scores[c].absent THEN 0 ELSE m * w * (q * r)
    BY <2>1, <2>5 DEF m
  <2> HIDE DEF w
  <2>7. m * w * (q * r) = q * (m * w * r) /\ q * 0 = 0
    BY <2>2
  <2> QED BY <2>3, <2>6, <2>7
<1>5. Sum = q * sum
  <2> HIDE DEF part, Parts
  <2> QED BY <1>0, <1>1, <1>4, SumScaled
<1>6. weights <= Weights
  <2>1. \A c \in D : Weight[c] \in Nat
    BY WeightAssumption
  <2> QED BY <2>1, SumGrows
<1>7. Earned(max, scores, R) = 10000 * sum /\ Attainable(max, R) = scale * weights
  BY EarnedIs
<1>8. Earned(max, scores, D) = 10000 * Sum /\ Attainable(max, D) = Scale * Weights
  BY EarnedIs
<1> HIDE DEF scale, part, sum, weights, Scale, Parts, Sum, Weights
<1> DEFINE k == 10000 * sum * q * scale
<1>9. k \in Nat
  BY <1>1
<1>10. (10000 * Sum) * (scale * weights) = k * weights
  BY <1>1, <1>5
<1>11. (10000 * sum) * (Scale * Weights) = k * Weights
  BY <1>1, <1>2, <1>3
<1> HIDE DEF k
<1>12. k * weights <= k * Weights
  BY <1>1, <1>2, <1>6, <1>9, Times
<1> QED BY <1>7, <1>8, <1>10, <1>11, <1>12

-----------------------------------------------------------------------------
(* The exam term.                                                          *)

Fields == {"pc", "student", "typed", "ids", "total", "missed"}
BeforeWrite == {"opened", "fitted", "written", "rolled"}

\* A request in progress: its components had an id when it began; once their
\* scores are written they still have it; marks that were found to fit their
\* component still do; and the total rolled up is that of the scores it sees,
\* unless it missed something.
SaveInv(k) ==
    /\ DOMAIN save[k] = Fields
    /\ SaveTypeOK(k)
    /\ \A c \in DOMAIN save[k].typed : save[k].ids[c] \in 1 .. setups
    /\ save[k].pc \in {"written", "rolled"} =>
           /\ DOMAIN save[k].typed # {}
           /\ \A c \in DOMAIN save[k].typed : component[c].id = save[k].ids[c]
    /\ save[k].pc \in {"fitted", "written", "rolled"} /\ ~lowered =>
           \A c \in DOMAIN save[k].typed :
               save[k].ids[c] = component[c].id => save[k].typed[c].marks <= component[c].max
    /\ save[k].pc = "rolled" =>
           /\ save[k].missed = {} => save[k].total = RollUp(k)
           /\ ~lowered => save[k].total.marks <= 10000

SavesInv ==
    /\ save = [k \in Saves |-> save[k]]
    /\ \A k \in Saves : SaveInv(k)

LateInv ==
    status # "marks_open" => \A k \in Saves : save[k].pc \in BeforeWrite => k \in inFlight

\* A component has a number and a maximum, and only components have scores,
\* which fit.
ScoresInv ==
    /\ \A c \in Components :
           /\ component[c].id <= setups
           /\ component[c] # NoComponent => component[c].id > 0 /\ component[c].max \in Nat \ {0}
    /\ \A s \in Students : \A c \in Components : score[s][c].row =>
           /\ c \in Defined
           /\ ~lowered => score[s][c].marks <= component[c].max

\* An entry that nothing disturbed is the roll-up of its student's scores.
EntriesInv ==
    \A s \in Students :
        /\ entry[s].row /\ drift[s] = {} => /\ \E c \in Defined : score[s][c].row
                                            /\ entry[s] = RollUpOf(score[s])
        /\ ~lowered /\ "typed" \notin drift[s] => entry[s].marks <= 10000

RowTypes ==
    /\ status \in TermStatuses /\ published \in BOOLEAN /\ announced \in BOOLEAN
    /\ config \in Nat
    /\ component \in [Components -> [max : Nat, id : Nat]]
    /\ score \in [Students -> [Components -> ScoreRecord]]
    /\ entry \in [Students -> ScoreRecord]
    /\ setups \in 0 .. MaxSetups
    /\ drift \in [Students -> SUBSET Causes]
    /\ lowered \in BOOLEAN
    /\ inFlight \subseteq Saves

ExamInv == RowTypes /\ LateInv /\ SavesInv /\ ScoresInv /\ EntriesInv

-----------------------------------------------------------------------------
\* The roll-up as a function of the rows it reads, now and after a step.
RollUpFrom(max, defined, seen) ==
    LET rated == {c \in defined : seen[c].row}
    IN [marks |-> RoundAway(Earned(max, [c \in rated |-> seen[c]], rated), Attainable(max, rated)),
        absent |-> \A c \in rated : seen[c].absent,
        marked |-> TRUE, row |-> TRUE]

LEMMA RollUpReads ==
    /\ \A seen : RollUpOf(seen) = RollUpFrom(MaxMarks, Defined, seen)
    /\ \A s : RollUpOf(score[s])' = RollUpFrom(MaxMarks', Defined', score'[s])
    /\ \A k : RollUp(k)' = RollUpFrom(MaxMarks', Defined', Seen(k)')
  BY DEF RollUpOf, RollUpFrom, RollUp

LEMMA SameRows == component' = component => MaxMarks' = MaxMarks /\ Defined' = Defined
  BY DEF MaxMarks, Defined

LEMMA NothingTyped == DOMAIN <<>> = {}
  OBVIOUS

LEMMA Records ==
    /\ NoScore \in ScoreRecord /\ NoScore.marks = 0 /\ ~NoScore.row
    /\ Typed \subseteq ScoreRecord /\ \A t \in Typed : t.row /\ (t.absent => t.marks = 0)
    /\ NoComponent \in [max : Nat, id : Nat] /\ NoComponent.id = 0
<1>1. NoScore \in ScoreRecord /\ NoScore.marks = 0 /\ ~NoScore.row
  BY DEF NoScore, ScoreRecord
<1>2. ASSUME NEW t \in Typed PROVE t \in ScoreRecord /\ t.row /\ (t.absent => t.marks = 0)
  <2>1. CASE t = AbsentScore
    BY <2>1 DEF AbsentScore, ScoreRecord
  <2>2. CASE t = BlankScore
    BY <2>2 DEF BlankScore, ScoreRecord
  <2>3. CASE \E m \in Marks : t = Score(m)
    <3>1. PICK m \in Marks : t = Score(m)
      BY <2>3
    <3>2. m \in Nat
      BY MarksAssumption
    <3> QED BY <3>1, <3>2 DEF Score, ScoreRecord
  <2> QED BY <2>1, <2>2, <2>3 DEF Typed
<1>3. NoComponent \in [max : Nat, id : Nat] /\ NoComponent.id = 0
  BY DEF NoComponent
<1> QED BY <1>1, <1>2, <1>3

LEMMA NoNumber == NoComponent.id = 0
  BY DEF NoComponent

LEMMA IdleFields ==
    /\ DOMAIN Idle = Fields /\ Idle.pc = "idle" /\ Idle.typed = <<>> /\ Idle.ids = <<>>
    /\ Idle.total = NoScore /\ Idle.missed = {}
    /\ DOMAIN Finished = Fields /\ Finished.pc = "finished" /\ Finished.typed = <<>> /\ Finished.ids = <<>>
    /\ Finished.total = NoScore /\ Finished.missed = {}
  BY DEF Idle, Finished, Fields

\* Requests that have not begun or are over.
LEMMA QuietSave ==
    ASSUME NEW k \in Saves, save[k] = Idle \/ save[k] = Finished
    PROVE  SaveInv(k)
  BY IdleFields, NothingTyped, Records DEF SaveInv, SaveTypeOK, Checked

LEMMA QuietSaveNext ==
    ASSUME NEW k \in Saves, save'[k] = Idle \/ save'[k] = Finished
    PROVE  SaveInv(k)'
  BY IdleFields, NothingTyped, Records DEF SaveInv, SaveTypeOK, Checked

LEMMA InitExamInv == TermInit => ExamInv
<1> SUFFICES ASSUME TermInit PROVE ExamInv
  OBVIOUS
<1>1. SavesInv
  BY QuietSave DEF TermInit, SavesInv
<1>2. LateInv
  BY IdleFields DEF TermInit, LateInv, BeforeWrite
<1>3. RowTypes
  <2>1. component \in [Components -> [max : Nat, id : Nat]] /\ entry \in [Students -> ScoreRecord]
    BY Records DEF TermInit
  <2>2. score \in [Students -> [Components -> ScoreRecord]]
    BY Records DEF TermInit
  <2>3. setups \in 0 .. MaxSetups /\ config \in Nat /\ drift \in [Students -> SUBSET Causes]
    BY MarksAssumption DEF TermInit
  <2> QED BY <2>1, <2>2, <2>3 DEF TermInit, RowTypes, TermStatuses
<1>4. ScoresInv
  BY Records DEF TermInit, ScoresInv
<1>5. EntriesInv
  BY Records DEF TermInit, EntriesInv
<1> QED BY <1>1, <1>2, <1>3, <1>4, <1>5 DEF ExamInv

-----------------------------------------------------------------------------
\* What a request knows stays true while its rows stay, maxima may only have
\* been lowered by a step that says so, and numbers are not used again.
LEMMA SaveStays ==
    ASSUME NEW k \in Saves, SaveInv(k), save'[k] = save[k], component' = component,
           lowered => lowered', setups \in Nat, setups' \in Nat, setups <= setups',
           save[k].pc = "rolled" => score'[save[k].student] = score[save[k].student]
    PROVE  SaveInv(k)'
<1>1. SaveTypeOK(k)'
  BY DEF SaveInv, SaveTypeOK, Checked
<1>2. \A c \in DOMAIN save[k].typed : save[k].ids[c] \in 1 .. setups'
  BY DEF SaveInv
<1>3. save[k].pc = "rolled" => Seen(k)' = Seen(k)
  BY DEF Seen, Visible
<1>4. save[k].pc = "rolled" => RollUp(k)' = RollUp(k)
  BY <1>3, RollUpReads, SameRows DEF RollUp
<1> QED BY <1>1, <1>2, <1>4 DEF SaveInv

\* A step of one request.
LEMMA OneSave ==
    ASSUME SavesInv, LateInv, RowTypes, NEW k \in Saves, NEW new, save' = [save EXCEPT ![k] = new],
           UNCHANGED <<component, score, setups, lowered, status, inFlight>>,
           SaveInv(k)', new.pc \in BeforeWrite => save[k].pc \in BeforeWrite \/ status = "marks_open"
    PROVE  SavesInv' /\ LateInv'
<1>1. save'[k] = new /\ \A j \in Saves \ {k} : save'[j] = save[j]
  BY DEF SavesInv
<1>2. setups \in Nat
  BY MarksAssumption DEF RowTypes
<1>3. ASSUME NEW j \in Saves PROVE SaveInv(j)'
  BY <1>1, <1>2, SaveStays DEF SavesInv
<1>4. save' = [j \in Saves |-> save'[j]]
  BY DEF SavesInv
<1>5. LateInv'
  BY <1>1 DEF LateInv
<1> QED BY <1>3, <1>4, <1>5 DEF SavesInv

LEMMA RowsStay ==
    ASSUME RowTypes, ScoresInv, EntriesInv, UNCHANGED <<component, score, entry, drift>>,
           lowered => lowered', setups' \in Nat, setups <= setups'
    PROVE  ScoresInv' /\ EntriesInv'
<1>1. setups \in Nat /\ \A c \in Components : component[c].id \in Nat
  BY MarksAssumption DEF RowTypes
<1>2. ScoresInv'
  BY <1>1, SameRows DEF ScoresInv
<1>3. EntriesInv'
  BY SameRows, RollUpReads DEF EntriesInv
<1> QED BY <1>2, <1>3

-----------------------------------------------------------------------------
(* The actions.                                                            *)

LEMMA TransitionKeeps ==
    ASSUME ExamInv, NEW to \in AllowedTransitions[status], TransitionTermStatus(to)
    PROVE  ExamInv'
<1>1. setups \in Nat /\ setups' = setups /\ lowered' = lowered /\ save' = save /\ component' = component /\ score' = score
  BY MarksAssumption DEF ExamInv, RowTypes, TransitionTermStatus, rows
<1>2. SavesInv'
  <2>1. ASSUME NEW k \in Saves PROVE SaveInv(k)'
    BY <1>1, SaveStays DEF ExamInv, SavesInv
  <2> QED BY <1>1, <2>1 DEF ExamInv, SavesInv
<1>3. LateInv'
  BY DEF ExamInv, LateInv, TransitionTermStatus, Checked, BeforeWrite
<1>4. ScoresInv' /\ EntriesInv'
  BY <1>1, RowsStay DEF ExamInv, TransitionTermStatus, rows
<1>5. RowTypes'
  <2>1. to \in TermStatuses
    BY DEF AllowedTransitions, TermStatuses, ExamInv, RowTypes
  <2>2. inFlight' \subseteq Saves
    BY DEF TransitionTermStatus, ExamInv, RowTypes, Checked
  <2> QED BY <2>1, <2>2 DEF TransitionTermStatus, ExamInv, RowTypes, rows
<1> QED BY <1>2, <1>3, <1>4, <1>5 DEF ExamInv

LEMMA PublishKeeps ==
    ASSUME ExamInv, NEW publish \in BOOLEAN, PublishTerm(publish)
    PROVE  ExamInv'
<1>1. setups \in Nat /\ UNCHANGED <<status, rows, save, setups, history>>
  BY MarksAssumption DEF ExamInv, RowTypes, PublishTerm
<1>2. SavesInv'
  <2>1. ASSUME NEW k \in Saves PROVE SaveInv(k)'
    BY <1>1, SaveStays DEF ExamInv, SavesInv, rows, history
  <2> QED BY <1>1, <2>1 DEF ExamInv, SavesInv
<1>3. LateInv'
  BY <1>1 DEF ExamInv, LateInv, history
<1>4. ScoresInv' /\ EntriesInv'
  BY <1>1, RowsStay DEF ExamInv, rows, history
<1>5. RowTypes'
  <2>1. published' \in BOOLEAN /\ announced' \in BOOLEAN
    BY DEF ExamInv, RowTypes, PublishTerm
  <2> QED BY <1>1, <2>1 DEF ExamInv, RowTypes, rows, history
<1> QED BY <1>2, <1>3, <1>4, <1>5 DEF ExamInv

LEMMA MarksConfigKeeps ==
    ASSUME ExamInv, NEW max \in Maxima, SetMarksConfig(max)
    PROVE  ExamInv'
<1>1. /\ setups \in Nat /\ setups' \in 0 .. MaxSetups /\ setups <= setups'
      /\ UNCHANGED <<term, component, score, entry, save, drift, inFlight>>
  BY MarksAssumption DEF ExamInv, RowTypes, SetMarksConfig
<1>2. lowered' \in BOOLEAN /\ (lowered => lowered')
  BY DEF ExamInv, RowTypes, SetMarksConfig
<1>3. SavesInv'
  <2>1. ASSUME NEW k \in Saves PROVE SaveInv(k)'
    BY <1>1, <1>2, SaveStays DEF ExamInv, SavesInv
  <2> QED BY <1>1, <2>1 DEF ExamInv, SavesInv
<1>4. LateInv'
  BY <1>1 DEF ExamInv, LateInv, term
<1>5. ScoresInv' /\ EntriesInv'
  BY <1>1, <1>2, RowsStay DEF ExamInv
<1>6. RowTypes'
  <2>1. config' \in Nat
    BY MarksAssumption DEF SetMarksConfig
  <2> QED BY <1>1, <1>2, <2>1 DEF ExamInv, RowTypes, term
<1> QED BY <1>3, <1>4, <1>5, <1>6 DEF ExamInv

\* The steps of a request that write no row.
LEMMA NoRowsKeep ==
    ASSUME ExamInv, NEW k \in Saves, NEW new, save' = [save EXCEPT ![k] = new],
           UNCHANGED <<term, rows, setups, history>>,
           SaveInv(k)', new.pc \in BeforeWrite => save[k].pc \in BeforeWrite \/ status = "marks_open"
    PROVE  ExamInv'
<1>1. UNCHANGED <<component, score, setups, lowered, status, inFlight, entry, drift, config, published, announced>>
  BY DEF term, rows, history
<1>2. SavesInv' /\ LateInv'
  BY <1>1, OneSave DEF ExamInv
<1>3. setups \in Nat
  BY MarksAssumption DEF ExamInv, RowTypes
<1>4. ScoresInv' /\ EntriesInv'
  BY <1>1, <1>3, RowsStay DEF ExamInv
<1>5. RowTypes'
  BY <1>1 DEF ExamInv, RowTypes
<1> QED BY <1>2, <1>4, <1>5 DEF ExamInv

LEMMA DiesKeeps ==
    ASSUME ExamInv, NEW k \in Saves, save' = [save EXCEPT ![k] = Finished],
           UNCHANGED <<term, rows, setups, history>>
    PROVE  ExamInv'
<1>1. save'[k] = Finished
  BY DEF ExamInv, SavesInv
<1>2. SaveInv(k)'
  BY <1>1, QuietSaveNext
<1> QED BY <1>2, IdleFields, NoRowsKeep DEF BeforeWrite

LEMMA BeginKeeps ==
    ASSUME ExamInv, NEW k \in Saves, NEW s \in Students, NEW typed, NEW total \in ScoreRecord,
           DOMAIN typed \subseteq Defined, \A c \in DOMAIN typed : typed[c] \in Typed,
           Begin(k, s, typed, total)
    PROVE  ExamInv'
<1> DEFINE new == [Idle EXCEPT !.pc = "opened", !.student = s, !.typed = typed,
                               !.ids = [c \in DOMAIN typed |-> component[c].id], !.total = total]
<1>1. save' = [save EXCEPT ![k] = new] /\ UNCHANGED <<term, rows, setups, history>> /\ status = "marks_open"
  BY DEF Begin, AssertMarksOpen
<1>2. /\ DOMAIN new = Fields /\ new.pc = "opened" /\ new.student = s /\ new.typed = typed
      /\ new.ids = [c \in DOMAIN typed |-> component[c].id] /\ new.total = total /\ new.missed = {}
  BY IdleFields DEF Fields
<1> HIDE DEF new
<1>3. save'[k] = new
  BY <1>1 DEF ExamInv, SavesInv
<1>4. \A c \in DOMAIN typed : c \in Components /\ component[c].id \in 1 .. setups
  <2>1. \A c \in DOMAIN typed : c \in Components /\ component[c] # NoComponent
    BY DEF Defined
  <2>2. setups \in Nat /\ \A c \in Components : component[c].id \in Nat
    BY MarksAssumption DEF ExamInv, RowTypes
  <2> QED BY <2>1, <2>2 DEF ExamInv, ScoresInv
<1>5. SaveInv(k)'
  <2>1. setups' = setups
    BY <1>1
  <2>2. SaveTypeOK(k)'
    BY <1>2, <1>3, <1>4 DEF SaveTypeOK, Checked
  <2> QED BY <1>2, <1>3, <1>4, <2>1, <2>2 DEF SaveInv
<1> QED BY <1>1, <1>2, <1>5, NoRowsKeep

LEMMA CheckFitKeeps ==
    ASSUME ExamInv, NEW k \in Saves, CheckFit(k)
    PROVE  ExamInv'
<1>1. save[k].pc = "opened" /\ UNCHANGED <<term, rows, setups, history>> /\ SaveInv(k) /\ DOMAIN save[k] = Fields
  BY DEF CheckFit, ExamInv, SavesInv, SaveInv
<1>2. CASE Fits(k)
  <2> DEFINE new == [save[k] EXCEPT !.pc = "fitted"]
  <2>1. save' = [save EXCEPT ![k] = new]
    BY <1>2 DEF CheckFit
  <2>2. /\ DOMAIN new = Fields /\ new.pc = "fitted" /\ new.student = save[k].student /\ new.typed = save[k].typed
        /\ new.ids = save[k].ids /\ new.total = save[k].total /\ new.missed = save[k].missed
    BY <1>1 DEF Fields
  <2> HIDE DEF new
  <2>3. save'[k] = new
    BY <2>1 DEF ExamInv, SavesInv
  <2>4. SaveTypeOK(k)'
    BY <1>1, <2>2, <2>3 DEF SaveInv, SaveTypeOK, Checked
  <2>5. ASSUME NEW c \in DOMAIN save[k].typed, save[k].ids[c] = component[c].id
        PROVE  save[k].typed[c].marks <= component[c].max
    <3>1. c \in Components /\ save[k].typed[c] \in Typed
      BY <1>1, <2>5 DEF SaveInv, SaveTypeOK
    <3>2. component[c].max \in Nat
      BY <3>1 DEF ExamInv, RowTypes
    <3>3. ~Direct(k)
      BY <2>5 DEF Direct
    <3>4. save[k].typed[c].absent \/ save[k].typed[c].marks <= component[c].max
      BY <1>2, <2>5, <3>3 DEF Fits, ComponentFits
    <3> QED BY <3>1, <3>2, <3>4, Records
  <2>6. component' = component /\ setups' = setups
    BY <1>1 DEF rows
  <2>7. SaveInv(k)'
    BY <1>1, <2>2, <2>3, <2>4, <2>5, <2>6 DEF SaveInv
  <2> QED BY <1>1, <2>1, <2>7, NoRowsKeep DEF BeforeWrite
<1>3. CASE ~Fits(k)
  BY <1>1, <1>3, DiesKeeps DEF CheckFit
<1> QED BY <1>2, <1>3

LEMMA WriteScoresKeeps ==
    ASSUME ExamInv, NEW k \in Saves, WriteScores(k)
    PROVE  ExamInv'
<1>1. save[k].pc = "fitted" /\ UNCHANGED <<term, rows, setups, history>> /\ SaveInv(k) /\ DOMAIN save[k] = Fields /\ ~Direct(k)
  BY DEF WriteScores, ExamInv, SavesInv, SaveInv
<1> DEFINE there == \A c \in DOMAIN save[k].typed : component[c].id = save[k].ids[c]
<1>2. CASE there
  <2> DEFINE new == [save[k] EXCEPT !.pc = "written"]
  <2>1. save' = [save EXCEPT ![k] = new]
    BY <1>2 DEF WriteScores
  <2>2. /\ DOMAIN new = Fields /\ new.pc = "written" /\ new.student = save[k].student /\ new.typed = save[k].typed
        /\ new.ids = save[k].ids /\ new.total = save[k].total /\ new.missed = save[k].missed
    BY <1>1 DEF Fields
  <2> HIDE DEF new
  <2>3. save'[k] = new
    BY <2>1 DEF ExamInv, SavesInv
  <2>4. SaveTypeOK(k)'
    BY <1>1, <2>2, <2>3 DEF SaveInv, SaveTypeOK, Checked
  <2>5. component' = component /\ setups' = setups /\ lowered' = lowered
    BY <1>1 DEF rows, history
  <2>6. SaveInv(k)'
    BY <1>1, <1>2, <2>2, <2>3, <2>4, <2>5 DEF SaveInv, Direct
  <2> QED BY <1>1, <2>1, <2>2, <2>6, NoRowsKeep DEF BeforeWrite
<1>3. CASE ~there
  BY <1>1, <1>3, DiesKeeps DEF WriteScores
<1> QED BY <1>2, <1>3

LEMMA DefinedMaxima ==
    RowTypes /\ ScoresInv =>
        /\ Defined \subseteq Components /\ IsFiniteSet(Defined)
        /\ \A c \in Defined : MaxMarks[c] = component[c].max /\ MaxMarks[c] \in Nat \ {0}
<1>1. Defined \subseteq Components /\ IsFiniteSet(Components)
  BY MarksAssumption DEF Defined
<1>2. IsFiniteSet(Defined)
  BY <1>1, FS_Subset
<1> QED BY <1>1, <1>2 DEF ScoresInv, Defined, MaxMarks

\* What is rolled up from the components that have a score.
LEMMA RollUpType ==
    ASSUME RowTypes, ScoresInv, NEW seen, \A c \in Components : seen[c] \in ScoreRecord,
           NEW d \in Defined, seen[d].row
    PROVE  /\ RollUpOf(seen) \in ScoreRecord
           /\ (\A c \in Defined : seen[c].row => seen[c].marks <= component[c].max) => RollUpOf(seen).marks <= 10000
<1>0. PICK rated : rated = {c \in Defined : seen[c].row}
  OBVIOUS
<1>1. PICK given : given = [c \in rated |-> seen[c]]
  OBVIOUS
<1> DEFINE n == Earned(MaxMarks, given, rated)
           w == Attainable(MaxMarks, rated)
<1>2. RollUpOf(seen) = [marks |-> RoundAway(n, w), absent |-> \A c \in rated : seen[c].absent,
                        marked |-> TRUE, row |-> TRUE]
  BY <1>0, <1>1 DEF RollUpOf
<1>11. /\ rated \in SUBSET Defined /\ rated \subseteq Components /\ IsFiniteSet(rated)
       /\ \A c \in rated : MaxMarks[c] \in Nat \ {0} /\ MaxMarks[c] = component[c].max
       /\ \A c \in rated : seen[c] \in ScoreRecord
  <2>1. rated \in SUBSET Defined
    BY <1>0
  <2>2. IsFiniteSet(rated)
    BY <2>1, DefinedMaxima, FS_Subset
  <2> QED BY <2>1, <2>2, DefinedMaxima
<1>3. /\ rated # {} /\ rated \in SUBSET Components /\ IsFiniteSet(rated) /\ DOMAIN given = rated
      /\ \A c \in rated : MaxMarks[c] = component[c].max /\ given[c] = seen[c]
  BY <1>0, <1>1, <1>11
<1>4. (\A c \in rated : MaxMarks[c] \in Nat \ {0}) /\ (\A c \in rated : given[c] \in ScoreRecord)
  BY <1>1, <1>11
<1>5. n \in Nat /\ w \in Nat \ {0}
  <2>1. rated \in SUBSET rated /\ \A c \in rated : MaxMarks[c] \in Nat \ {0}
    BY <1>4
  <2>2. \A c \in rated : given[c] \in ScoreRecord
    BY <1>4
  <2> QED BY <1>3, <2>1, <2>2, EarnedType
<1>6. ASSUME \A c \in Defined : seen[c].row => seen[c].marks <= component[c].max PROVE n <= 10000 * w
  <2>1. \A c \in rated : given[c].marks <= MaxMarks[c]
    BY <1>0, <1>3, <1>6
  <2>2. (\A c \in rated : MaxMarks[c] \in Nat \ {0}) /\ (\A c \in rated : given[c] \in ScoreRecord)
    BY <1>4
  <2> QED BY <1>3, <2>1, <2>2, EarnedBounded
<1> HIDE DEF n, w
<1>7. RoundAway(n, w) \in Nearest(n, w) /\ RoundAway(n, w) \in Nat
  BY <1>5, RoundingsAreNearest, NearestBounds
<1>8. RollUpOf(seen).marks = RoundAway(n, w)
  BY <1>2
<1>9. n <= 10000 * w => RoundAway(n, w) <= 10000
  BY <1>5, <1>7, RoundedWithin
<1>10. RollUpOf(seen) \in ScoreRecord
  BY <1>2, <1>7 DEF ScoreRecord
<1> QED BY <1>6, <1>8, <1>9, <1>10

\* The scores that a request sees: its own and those of its student.
LEMMA SeenScores ==
    ASSUME ExamInv, NEW k \in Saves, save[k].pc \in {"written", "rolled"}
    PROVE  /\ Seen(k) \in [Components -> ScoreRecord]
           /\ \E d \in Defined : Seen(k)[d].row
           /\ \A c \in Components : Seen(k)[c].row =>
                  c \in Defined /\ (~lowered => Seen(k)[c].marks <= component[c].max)
<1>1. SaveInv(k) /\ save[k].student \in Students
  BY DEF ExamInv, SavesInv, SaveInv, SaveTypeOK, Checked
<1>2. \A c \in Components : Seen(k)[c] = IF c \in DOMAIN save[k].typed THEN save[k].typed[c] ELSE score[save[k].student][c]
  BY DEF Seen, Visible
<1>3. DOMAIN save[k].typed \subseteq Components /\ \A c \in DOMAIN save[k].typed : save[k].typed[c] \in Typed
  BY <1>1 DEF SaveInv, SaveTypeOK
<1>4. Seen(k) \in [Components -> ScoreRecord]
  <2>1. \A c \in Components : Visible(k, c) \in ScoreRecord
    BY <1>1, <1>3, Records DEF Visible, ExamInv, RowTypes
  <2> QED BY <2>1 DEF Seen
<1>5. ASSUME NEW c \in DOMAIN save[k].typed PROVE c \in Defined /\ (~lowered => save[k].typed[c].marks <= component[c].max)
  <2>1. component[c].id = save[k].ids[c] /\ save[k].ids[c] \in 1 .. setups /\ c \in Components
    BY <1>1, <1>3 DEF SaveInv
  <2>2. setups \in Nat
    BY MarksAssumption DEF ExamInv, RowTypes
  <2>3. component[c] # NoComponent
    BY <2>1, <2>2, Records
  <2> QED BY <1>1, <2>1, <2>3 DEF SaveInv, Defined
<1>6. \A c \in Components : Seen(k)[c].row => c \in Defined /\ (~lowered => Seen(k)[c].marks <= component[c].max)
  BY <1>1, <1>2, <1>5 DEF ExamInv, ScoresInv
<1>7. \E d \in Defined : Seen(k)[d].row
  <2>1. PICK d \in DOMAIN save[k].typed : TRUE
    BY <1>1 DEF SaveInv
  <2> QED BY <1>2, <1>3, <1>5, <2>1, Records
<1> QED BY <1>4, <1>6, <1>7

LEMMA RollUpKeeps ==
    ASSUME ExamInv, NEW k \in Saves, RollUpScores(k)
    PROVE  ExamInv'
<1>1. save[k].pc = "written" /\ UNCHANGED <<term, rows, setups, history>> /\ SaveInv(k) /\ DOMAIN save[k] = Fields
  BY DEF RollUpScores, ExamInv, SavesInv, SaveInv
<1> DEFINE new == [save[k] EXCEPT !.pc = "rolled", !.total = RollUp(k)]
<1>2. save' = [save EXCEPT ![k] = new]
  BY DEF RollUpScores
<1>3. /\ DOMAIN new = Fields /\ new.pc = "rolled" /\ new.student = save[k].student /\ new.typed = save[k].typed
      /\ new.ids = save[k].ids /\ new.total = RollUp(k) /\ new.missed = save[k].missed
  BY <1>1 DEF Fields
<1> HIDE DEF new
<1>4. save'[k] = new
  BY <1>2 DEF ExamInv, SavesInv
<1>5. RollUp(k) \in ScoreRecord /\ (~lowered => RollUp(k).marks <= 10000)
  <2>1. PICK d \in Defined : Seen(k)[d].row
    BY <1>1, SeenScores
  <2>2. \A c \in Components : Seen(k)[c] \in ScoreRecord
    BY <1>1, SeenScores
  <2>3. RowTypes /\ ScoresInv
    BY DEF ExamInv
  <2>4. ~lowered => \A c \in Defined : Seen(k)[c].row => Seen(k)[c].marks <= component[c].max
    BY <1>1, SeenScores DEF Defined
  <2>5. RollUpOf(Seen(k)) \in ScoreRecord /\ (~lowered => RollUpOf(Seen(k)).marks <= 10000)
    BY <2>1, <2>2, <2>3, <2>4, RollUpType
  <2> QED BY <2>5 DEF RollUp
<1>6. component' = component /\ setups' = setups /\ lowered' = lowered /\ score' = score
  BY <1>1 DEF rows, history
<1>7. SaveTypeOK(k)'
  BY <1>1, <1>3, <1>4, <1>5 DEF SaveInv, SaveTypeOK, Checked
<1>8. RollUp(k)' = RollUp(k)
  <2>1. Seen(k)' = Seen(k)
    BY <1>3, <1>4, <1>6 DEF Seen, Visible
  <2> QED BY <1>6, <2>1, RollUpReads, SameRows DEF RollUp
<1>9. SaveInv(k)'
  BY <1>1, <1>3, <1>4, <1>5, <1>6, <1>7, <1>8 DEF SaveInv
<1> QED BY <1>1, <1>2, <1>3, <1>9, NoRowsKeep DEF BeforeWrite

LEMMA SaveMarksKeeps ==
    ASSUME ExamInv, NEW k \in Saves, SaveMarks(k)
    PROVE  ExamInv'
<1> DEFINE s == save[k].student
<1>1. /\ SaveInv(k) /\ save[k].pc = "fitted" /\ s \in Students /\ save[k].total \in ScoreRecord
      /\ UNCHANGED <<term, config, component, score, setups, lowered, inFlight>>
      /\ entry' = [entry EXCEPT ![s] = [save[k].total EXCEPT !.marks = 100 * @]]
      /\ drift' = [drift EXCEPT ![s] = @ \cup {"typed"}]
      /\ save' = [save EXCEPT ![k] = Finished]
  BY DEF SaveMarks, ExamInv, SavesInv, SaveInv, SaveTypeOK, Checked
<1> HIDE DEF s
<1>2. UNCHANGED <<component, score, setups, lowered, status, inFlight, config, published, announced>>
  BY <1>1 DEF term
<1>3. save'[k] = Finished
  BY <1>1 DEF ExamInv, SavesInv
<1>4. SavesInv' /\ LateInv'
  <2>1. SaveInv(k)'
    BY <1>3, QuietSaveNext
  <2> QED BY <1>1, <1>2, <2>1, IdleFields, OneSave DEF ExamInv, BeforeWrite
<1>9. [save[k].total EXCEPT !.marks = 100 * @] \in ScoreRecord
  BY <1>1 DEF ScoreRecord
<1>5. /\ drift'[s] = drift[s] \cup {"typed"}
      /\ \A t \in Students \ {s} : entry'[t] = entry[t] /\ drift'[t] = drift[t]
      /\ entry' \in [Students -> ScoreRecord] /\ drift' \in [Students -> SUBSET Causes]
  BY <1>1, <1>9 DEF ExamInv, RowTypes, Causes
<1>6. ScoresInv'
  BY <1>2, SameRows DEF ExamInv, ScoresInv
<1>7. EntriesInv'
  <2>1. \A t \in Students : RollUpOf(score[t])' = RollUpOf(score[t])
    BY <1>2, SameRows, RollUpReads
  <2>2. Defined' = Defined
    BY <1>2, SameRows
  <2> QED BY <1>2, <1>5, <2>1, <2>2 DEF ExamInv, EntriesInv
<1>8. RowTypes'
  BY <1>2, <1>5 DEF ExamInv, RowTypes
<1> QED BY <1>4, <1>6, <1>7, <1>8 DEF ExamInv

\* A request that has rolled up and learns that it missed something.
LEMMA SaveMisses ==
    ASSUME NEW k \in Saves, SaveInv(k), save[k].pc = "rolled", NEW cause \in Causes,
           save'[k] = [save[k] EXCEPT !.missed = @ \cup {cause}],
           lowered => lowered', setups \in Nat, setups' \in Nat, setups <= setups',
           \A c \in DOMAIN save[k].typed : component'[c].id = component[c].id,
           ~lowered' => \A c \in DOMAIN save[k].typed : save[k].typed[c].marks <= component'[c].max
    PROVE  SaveInv(k)'
<1>1. /\ DOMAIN save'[k] = Fields /\ save'[k].pc = "rolled" /\ save'[k].student = save[k].student
      /\ save'[k].typed = save[k].typed /\ save'[k].ids = save[k].ids /\ save'[k].total = save[k].total
      /\ save'[k].missed = save[k].missed \cup {cause}
  BY DEF SaveInv, Fields
<1>2. SaveTypeOK(k)'
  BY <1>1 DEF SaveInv, SaveTypeOK, Checked
<1>3. \A c \in DOMAIN save[k].typed : save[k].ids[c] \in 1 .. setups'
  BY DEF SaveInv
<1>4. save'[k].missed # {}
  BY <1>1
<1> QED BY <1>1, <1>2, <1>3, <1>4 DEF SaveInv

LEMMA CommitKeeps ==
    ASSUME ExamInv, NEW k \in Saves, CommitScores(k)
    PROVE  ExamInv'
<1>0. PICK s : s = save[k].student
  OBVIOUS
<1>1. /\ SaveInv(k) /\ save[k].pc = "rolled" /\ s \in Students /\ save[k].total \in ScoreRecord /\ save[k].missed \subseteq Causes
      /\ UNCHANGED <<term, config, component, setups, lowered, inFlight>>
      /\ score' = [score EXCEPT ![s] = Seen(k)]
      /\ entry' = [entry EXCEPT ![s] = save[k].total]
      /\ drift' = [drift EXCEPT ![s] = save[k].missed]
      /\ save' = [j \in Saves |->
                     IF j = k THEN Finished
                     ELSE IF save[j].pc = "rolled" /\ save[j].student = s
                     THEN [save[j] EXCEPT !.missed = @ \cup {"overlapped"}]
                     ELSE save[j]]
  BY <1>0 DEF CommitScores, ExamInv, SavesInv, SaveInv, SaveTypeOK, Checked
<1>2. UNCHANGED <<component, setups, lowered, status, inFlight, config, published, announced>> /\ setups \in Nat
  BY <1>1, MarksAssumption DEF term, ExamInv, RowTypes
<1>3. /\ score'[s] = Seen(k) /\ \A t \in Students \ {s} : score'[t] = score[t]
      /\ entry'[s] = save[k].total /\ \A t \in Students \ {s} : entry'[t] = entry[t]
      /\ drift'[s] = save[k].missed /\ \A t \in Students \ {s} : drift'[t] = drift[t]
      /\ entry' \in [Students -> ScoreRecord] /\ drift' \in [Students -> SUBSET Causes]
      /\ score' \in [Students -> [Components -> ScoreRecord]]
  BY <1>1, SeenScores DEF ExamInv, RowTypes
<1>4. ASSUME NEW j \in Saves PROVE SaveInv(j)' /\ (save'[j].pc \in BeforeWrite => save[j].pc \in BeforeWrite)
  <2>0. SaveInv(j)
    BY DEF ExamInv, SavesInv
  <2>1. CASE j = k
    <3>1. save'[k] = Finished
      BY <1>1
    <3> QED BY <2>1, <3>1, QuietSaveNext, IdleFields DEF BeforeWrite
  <2>2. CASE j # k /\ save[j].pc = "rolled" /\ save[j].student = s
    <3>1. save'[j] = [save[j] EXCEPT !.missed = @ \cup {"overlapped"}] /\ "overlapped" \in Causes
      BY <1>1, <2>2 DEF Causes
    <3>2. \A c \in DOMAIN save[j].typed : component'[c].id = component[c].id
      BY <1>2
    <3>3. ~lowered' => \A c \in DOMAIN save[j].typed : save[j].typed[c].marks <= component'[c].max
      BY <1>2, <2>0, <2>2 DEF SaveInv
    <3>4. SaveInv(j)'
      BY <1>2, <2>0, <2>2, <3>1, <3>2, <3>3, SaveMisses
    <3> QED BY <2>2, <3>4 DEF BeforeWrite
  <2>3. CASE j # k /\ ~(save[j].pc = "rolled" /\ save[j].student = s)
    <3>1. save'[j] = save[j]
      BY <1>1, <2>3
    <3>2. save[j].pc = "rolled" => save[j].student \in Students
      BY <2>0 DEF SaveInv, SaveTypeOK, Checked
    <3>3. save[j].pc = "rolled" => score'[save[j].student] = score[save[j].student]
      BY <1>0, <1>3, <2>3, <3>2
    <3>4. SaveInv(j)'
      BY <1>2, <2>0, <3>1, <3>3, SaveStays
    <3> QED BY <3>1, <3>4
  <2> QED BY <2>1, <2>2, <2>3
<1>5. SavesInv'
  BY <1>1, <1>4 DEF SavesInv
<1>6. LateInv'
  BY <1>2, <1>4 DEF ExamInv, LateInv
<1>7. ScoresInv'
  BY <1>1, <1>2, <1>3, SameRows, SeenScores DEF ExamInv, ScoresInv
<1>8. EntriesInv'
  <2>1. Defined' = Defined /\ MaxMarks' = MaxMarks
    BY <1>2, SameRows
  <2>2. ASSUME NEW t \in Students, t # s
        PROVE  /\ entry'[t].row /\ drift'[t] = {} => /\ \E c \in Defined' : score'[t][c].row
                                                     /\ entry'[t] = RollUpOf(score[t])'
               /\ ~lowered' /\ "typed" \notin drift'[t] => entry'[t].marks <= 10000
    <3>1. RollUpOf(score[t])' = RollUpOf(score[t])
      BY <1>3, <2>1, <2>2, RollUpReads
    <3> QED BY <1>2, <1>3, <2>1, <2>2, <3>1 DEF ExamInv, EntriesInv
  <2>3. RollUpOf(score[s])' = RollUp(k)
    BY <1>3, <2>1, RollUpReads DEF RollUp
  <2>4. \E c \in Defined' : score'[s][c].row
    BY <1>1, <1>3, <2>1, SeenScores
  <2>5. /\ drift'[s] = {} => entry'[s] = RollUpOf(score[s])'
        /\ ~lowered' => entry'[s].marks <= 10000
    BY <1>1, <1>2, <1>3, <2>3 DEF SaveInv
  <2> QED BY <2>2, <2>4, <2>5 DEF EntriesInv
<1>9. RowTypes'
  BY <1>2, <1>3 DEF ExamInv, RowTypes
<1> QED BY <1>5, <1>6, <1>7, <1>8, <1>9 DEF ExamInv

LEMMA ConfigureKeeps ==
    ASSUME ExamInv, NEW over \in SUBSET Components, NEW wanted \in [over -> Maxima], ConfigureComponents(wanted)
    PROVE  ExamInv'
<1>1. /\ setups \in Nat /\ setups' = setups + 1 /\ setups' \in 0 .. MaxSetups /\ setups' \in Nat
      /\ lowered \in BOOLEAN /\ lowered' \in BOOLEAN /\ (lowered => lowered')
      /\ UNCHANGED <<term, entry, inFlight>> /\ config' = 100
  BY MarksAssumption DEF ExamInv, RowTypes, ConfigureComponents
<1>2. /\ DOMAIN wanted = over /\ \A c \in over : c \in Components /\ wanted[c] \in Nat \ {0}
  BY MarksAssumption
<1>3. \A c \in Components : component[c].id \in 0 .. setups /\ component[c].max \in Nat
  BY <1>1 DEF ExamInv, RowTypes, ScoresInv
<1>4. \A c \in Components :
        /\ c \notin over => component'[c] = NoComponent
        /\ c \in over => component'[c] =
              [max |-> wanted[c], id |-> IF component[c] = NoComponent THEN setups + 1 ELSE component[c].id]
  BY <1>2 DEF ConfigureComponents, Reconfigured
<1>15. \A c \in Components : component'[c].id \in 1 .. setups => c \in over
  <2> SUFFICES ASSUME NEW c \in Components, c \notin over PROVE component'[c].id \notin 1 .. setups
    OBVIOUS
  <2>1. component'[c] = NoComponent
    BY <1>4
  <2>2. component'[c].id = 0
    BY <2>1, NoNumber
  <2> QED BY <1>1, <2>2
<1>5. \A c \in over : /\ component'[c].max = wanted[c]
                      /\ component[c] = NoComponent => component'[c].id = setups + 1
                      /\ component[c] # NoComponent => component'[c].id = component[c].id
                      /\ component'[c] \in [max : Nat, id : Nat]
  <2> SUFFICES ASSUME NEW c \in over
               PROVE  /\ component'[c].max = wanted[c]
                      /\ component[c] = NoComponent => component'[c].id = setups + 1
                      /\ component[c] # NoComponent => component'[c].id = component[c].id
                      /\ component'[c] \in [max : Nat, id : Nat]
    OBVIOUS
  <2> DEFINE number == IF component[c] = NoComponent THEN setups + 1 ELSE component[c].id
  <2>1. number \in Nat /\ wanted[c] \in Nat
    BY <1>1, <1>2, <1>3
  <2>2. component'[c] = [max |-> wanted[c], id |-> number]
    BY <1>2, <1>4
  <2> HIDE DEF number
  <2>3. component'[c].max = wanted[c] /\ component'[c].id = number /\ component'[c] \in [max : Nat, id : Nat]
    BY <2>1, <2>2
  <2> QED BY <2>3 DEF number
<1>6. ~lowered' => \A c \in over : component[c] # NoComponent => component[c].max <= wanted[c]
  <2> SUFFICES ASSUME ~lowered', NEW c \in over, component[c] # NoComponent PROVE component[c].max <= wanted[c]
    OBVIOUS
  <2>1. c \in Defined \cap DOMAIN wanted
    BY <1>2 DEF Defined
  <2>2. ~(wanted[c] < component[c].max)
    BY <2>1 DEF ConfigureComponents
  <2> QED BY <1>2, <1>3, <2>2
<1>7. \A s \in Students : \A c \in Components : score'[s][c] = IF c \in over THEN score[s][c] ELSE NoScore
  BY <1>2 DEF ConfigureComponents
<1>8. ASSUME NEW k \in Saves, NEW c \in DOMAIN save[k].typed
      PROVE  /\ component'[c].id = save[k].ids[c] =>
                    component[c].id = save[k].ids[c] /\ (~lowered' => component[c].max <= component'[c].max)
             /\ save[k].pc \in {"written", "rolled"} => component'[c].id = component[c].id
  <2>1. SaveInv(k) /\ c \in Components /\ save[k].ids[c] \in 1 .. setups
    BY DEF ExamInv, SavesInv, SaveInv, SaveTypeOK
  <2>2. ASSUME component'[c].id = save[k].ids[c]
        PROVE  component[c].id = save[k].ids[c] /\ (~lowered' => component[c].max <= component'[c].max)
    <3>1. c \in over
      BY <1>1, <1>15, <2>1, <2>2
    <3>2. component[c] # NoComponent
      BY <1>1, <1>5, <2>1, <2>2, <3>1
    <3> QED BY <1>5, <1>6, <2>2, <3>1, <3>2
  <2>3. ASSUME save[k].pc \in {"written", "rolled"} PROVE component'[c].id = component[c].id
    <3>1. component[c].id = save[k].ids[c]
      BY <2>1, <2>3 DEF SaveInv
    <3>2. component[c] # NoComponent
      BY <2>1, <3>1, Records
    <3>3. c \in Defined /\ Referenced(c)
      BY <2>1, <2>3, <3>2 DEF Defined, Referenced
    <3>4. c \in over
      BY <1>2, <3>3 DEF ConfigureComponents
    <3> QED BY <1>5, <3>2, <3>4
  <2> QED BY <2>2, <2>3
<1>9. ASSUME NEW k \in Saves PROVE SaveInv(k)' /\ save'[k].pc = save[k].pc
  <2>0. SaveInv(k)
    BY DEF ExamInv, SavesInv
  <2>1. CASE save[k].pc = "rolled"
    <3>1. save'[k] = [save[k] EXCEPT !.missed = @ \cup {"reconfigured"}] /\ "reconfigured" \in Causes
      BY <2>1 DEF ConfigureComponents, Causes
    <3>2. \A c \in DOMAIN save[k].typed : component'[c].id = component[c].id
      BY <1>8, <2>1
    <3>3. ~lowered' => \A c \in DOMAIN save[k].typed : save[k].typed[c].marks <= component'[c].max
      <4> SUFFICES ASSUME ~lowered', NEW c \in DOMAIN save[k].typed PROVE save[k].typed[c].marks <= component'[c].max
        OBVIOUS
      <4>1. component[c].id = save[k].ids[c] /\ save[k].typed[c].marks <= component[c].max
        BY <1>1, <2>0, <2>1 DEF SaveInv
      <4>2. component[c].max <= component'[c].max
        BY <1>8, <3>2, <4>1
      <4>3. c \in Components /\ save[k].typed[c] \in Typed
        BY <2>0 DEF SaveInv, SaveTypeOK
      <4>4. save[k].typed[c].marks \in Nat /\ component[c].max \in Nat
        BY <1>3, <4>3, Records DEF ScoreRecord
      <4>5. component'[c].max \in Nat
        <5>1. c \in over
          BY <1>1, <1>15, <3>2, <4>1, <4>3, <2>0 DEF SaveInv
        <5> QED BY <1>2, <1>5, <5>1
      <4> QED BY <4>1, <4>2, <4>4, <4>5
    <3>4. SaveInv(k)'
      BY <1>1, <2>0, <2>1, <3>1, <3>2, <3>3, SaveMisses
    <3>5. save'[k].pc = save[k].pc
      BY <2>0, <3>1 DEF SaveInv, Fields
    <3> QED BY <3>4, <3>5
  <2>2. CASE save[k].pc # "rolled"
    <3>1. save'[k] = save[k]
      BY <2>2 DEF ConfigureComponents
    <3>2. SaveTypeOK(k)'
      BY <2>0, <3>1 DEF SaveInv, SaveTypeOK, Checked
    <3>3. \A c \in DOMAIN save[k].typed : save[k].ids[c] \in 1 .. setups'
      BY <1>1, <2>0 DEF SaveInv
    <3>4. save[k].pc = "written" => \A c \in DOMAIN save[k].typed : component'[c].id = save[k].ids[c]
      BY <1>8, <2>0 DEF SaveInv
    <3>5. save[k].pc \in {"fitted", "written"} /\ ~lowered' =>
             \A c \in DOMAIN save[k].typed :
                 save[k].ids[c] = component'[c].id => save[k].typed[c].marks <= component'[c].max
      <4> SUFFICES ASSUME save[k].pc \in {"fitted", "written"}, ~lowered',
                          NEW c \in DOMAIN save[k].typed, save[k].ids[c] = component'[c].id
                   PROVE  save[k].typed[c].marks <= component'[c].max
        OBVIOUS
      <4>1. component[c].id = save[k].ids[c] /\ component[c].max <= component'[c].max
        BY <1>8
      <4>2. save[k].typed[c].marks <= component[c].max
        BY <1>1, <2>0, <4>1 DEF SaveInv
      <4>3. c \in Components /\ save[k].typed[c] \in Typed
        BY <2>0 DEF SaveInv, SaveTypeOK
      <4>4. save[k].typed[c].marks \in Nat /\ component[c].max \in Nat
        BY <1>3, <4>3, Records DEF ScoreRecord
      <4>5. component'[c].max \in Nat
        <5>1. c \in over
          BY <1>1, <1>15, <4>3, <2>0 DEF SaveInv
        <5> QED BY <1>2, <1>5, <5>1
      <4> QED BY <4>1, <4>2, <4>4, <4>5
    <3> QED BY <2>0, <2>2, <3>1, <3>2, <3>3, <3>4, <3>5 DEF SaveInv
  <2> QED BY <2>1, <2>2
<1>10. SavesInv'
  BY <1>9 DEF ConfigureComponents, SavesInv
<1>11. LateInv'
  BY <1>1, <1>9 DEF ExamInv, LateInv, term
<1>12. ScoresInv'
  <2>1. ASSUME NEW c \in Components
        PROVE  /\ component'[c].id <= setups'
               /\ component'[c] # NoComponent => component'[c].id > 0 /\ component'[c].max \in Nat \ {0}
    <3>1. CASE c \in over
      <4>1. component[c] # NoComponent => component[c].id > 0
        BY DEF ExamInv, ScoresInv
      <4> QED BY <1>1, <1>2, <1>3, <1>5, <3>1, <4>1
    <3>2. CASE c \notin over
      <4>1. component'[c] = NoComponent
        BY <1>4, <3>2
      <4>2. component'[c].id = 0
        BY <4>1, NoNumber
      <4> QED BY <1>1, <4>1, <4>2
    <3> QED BY <3>1, <3>2
  <2>2. ASSUME NEW s \in Students, NEW c \in Components, score'[s][c].row
        PROVE  c \in Defined' /\ (~lowered' => score'[s][c].marks <= component'[c].max)
    <3>1. c \in over /\ score'[s][c] = score[s][c]
      BY <1>7, <2>2, Records
    <3>2. c \in Defined /\ (~lowered => score[s][c].marks <= component[c].max)
      BY <2>2, <3>1 DEF ExamInv, ScoresInv
    <3>3. component[c] # NoComponent /\ component[c].id > 0
      BY <3>2 DEF Defined, ExamInv, ScoresInv
    <3>4. component'[c] # NoComponent
      BY <1>5, <3>1, <3>3, Records
    <3>5. score[s][c].marks \in Nat /\ component[c].max \in Nat
      BY <1>3 DEF ExamInv, RowTypes, ScoreRecord
    <3>6. ~lowered' => score'[s][c].marks <= component'[c].max
      BY <1>1, <1>2, <1>5, <1>6, <3>1, <3>2, <3>3, <3>5
    <3> QED BY <3>4, <3>6 DEF Defined
  <2> QED BY <2>1, <2>2 DEF ScoresInv
<1>13. EntriesInv'
  <2>1. \A s \in Students : drift'[s] = drift[s] \cup {"reconfigured"}
    BY DEF ConfigureComponents
  <2> QED BY <1>1, <2>1 DEF ExamInv, EntriesInv
<1>14. RowTypes'
  <2>1. component' \in [Components -> [max : Nat, id : Nat]]
    <3>1. \A c \in Components : component'[c] \in [max : Nat, id : Nat]
      BY <1>4, <1>5, Records
    <3> QED BY <3>1 DEF ConfigureComponents, Reconfigured
  <2>2. score' \in [Students -> [Components -> ScoreRecord]]
    BY Records DEF ConfigureComponents, ExamInv, RowTypes
  <2>3. drift' \in [Students -> SUBSET Causes]
    BY DEF ConfigureComponents, ExamInv, RowTypes, Causes
  <2> QED BY <1>1, <2>1, <2>2, <2>3 DEF ExamInv, RowTypes, term
<1> QED BY <1>10, <1>11, <1>12, <1>13, <1>14 DEF ExamInv

LEMMA BeginComponentsKeeps ==
    ASSUME ExamInv, NEW k \in Saves, NEW s \in Students, BeginComponents(k, s)
    PROVE  ExamInv'
<1>1. PICK over \in (SUBSET Defined) \ {{}} : \E typed \in [over -> Typed] : Begin(k, s, typed, NoScore)
  BY DEF BeginComponents
<1>2. PICK typed \in [over -> Typed] : Begin(k, s, typed, NoScore)
  BY <1>1
<1>3. DOMAIN typed \subseteq Defined /\ \A c \in DOMAIN typed : typed[c] \in Typed
  OBVIOUS
<1> QED BY <1>2, <1>3, Records, BeginKeeps

LEMMA BeginDirectKeeps ==
    ASSUME ExamInv, NEW k \in Saves, NEW s \in Students, BeginDirect(k, s)
    PROVE  ExamInv'
<1>1. PICK total \in Typed : Begin(k, s, <<>>, total)
  BY DEF BeginDirect
<1>2. PICK typed : typed = <<>>
  OBVIOUS
<1>3. DOMAIN typed \subseteq Defined /\ \A c \in DOMAIN typed : typed[c] \in Typed
  BY <1>2, NothingTyped
<1>4. Begin(k, s, typed, total) /\ total \in ScoreRecord
  BY <1>1, <1>2, Records
<1> QED BY <1>3, <1>4, BeginKeeps

LEMMA StepKeepsExamInv == ExamInv /\ [TermNext]_termVars => ExamInv'
<1> SUFFICES ASSUME ExamInv, [TermNext]_termVars PROVE ExamInv'
  OBVIOUS
<1>1. CASE Lifecycle
  BY <1>1, TransitionKeeps, PublishKeeps DEF Lifecycle
<1>2. CASE Setup
  <2>1. CASE \E max \in Maxima : UpsertMarksConfig(max) \/ ImportTermRow(max)
    BY <2>1, MarksConfigKeeps DEF UpsertMarksConfig, ImportTermRow
  <2>2. CASE \E over \in (SUBSET Components) \ {{}} : \E wanted \in [over -> Maxima] : ConfigureComponents(wanted)
    BY <2>2, ConfigureKeeps
  <2> QED BY <1>2, <2>1, <2>2 DEF Setup
<1>3. ASSUME NEW k \in Saves, Save(k) PROVE ExamInv'
  <2>1. CASE \E s \in Students : BeginComponents(k, s) \/ BeginDirect(k, s)
    BY <2>1, BeginComponentsKeeps, BeginDirectKeeps
  <2>2. CASE CheckFit(k)
    BY <2>2, CheckFitKeeps
  <2>3. CASE SaveMarks(k)
    BY <2>3, SaveMarksKeeps
  <2>4. CASE WriteScores(k)
    BY <2>4, WriteScoresKeeps
  <2>5. CASE RollUpScores(k)
    BY <2>5, RollUpKeeps
  <2>6. CASE CommitScores(k)
    BY <2>6, CommitKeeps
  <2>7. CASE SaveDies(k)
    BY <2>7, DiesKeeps DEF SaveDies
  <2> QED BY <1>3, <2>1, <2>2, <2>3, <2>4, <2>5, <2>6, <2>7 DEF Save
<1>4. CASE UNCHANGED termVars
  <2>1. /\ UNCHANGED <<status, published, announced, config, component, score, entry, save, setups, drift, lowered, inFlight>>
        /\ setups \in Nat
    BY <1>4, MarksAssumption DEF termVars, term, rows, history, ExamInv, RowTypes
  <2>2. SavesInv'
    <3>1. ASSUME NEW k \in Saves PROVE SaveInv(k)'
      BY <2>1, SaveStays DEF ExamInv, SavesInv
    <3> QED BY <2>1, <3>1 DEF ExamInv, SavesInv
  <2>3. ScoresInv' /\ EntriesInv'
    BY <2>1, RowsStay DEF ExamInv
  <2>4. LateInv' /\ RowTypes'
    BY <2>1 DEF ExamInv, LateInv, RowTypes
  <2> QED BY <2>2, <2>3, <2>4 DEF ExamInv
<1> QED BY <1>1, <1>2, <1>3, <1>4 DEF TermNext

LEMMA ExamInvHolds == TermSpec => []ExamInv
  BY InitExamInv, StepKeepsExamInv, PTL DEF TermSpec

\* The term, its components, the scores, the entries and the requests in
\* progress stay what their columns and request models allow (services/exam.py).
THEOREM TermTypeCorrect == TermSpec => []TermTypeOK
<1>1. ExamInv => TermTypeOK
  BY DEF ExamInv, RowTypes, SavesInv, SaveInv, TermTypeOK
<1> QED BY <1>1, ExamInvHolds, PTL

\* An entry changes in a term that is not open only by a request that was past
\* its check when the term was closed (save_marks and save_component_marks
\* after _assert_marks_open, transition_term_status).
THEOREM LateWritesWereStarted == TermSpec => LateWritesWereInFlight
<1> DEFINE Late == (entry' # entry /\ status # "marks_open")
                      => \E k \in inFlight : save[k] # Finished /\ save'[k] = Finished
<1>1. ASSUME ExamInv, TermNext, entry' # entry, status # "marks_open"
      PROVE  \E k \in inFlight : save[k] # Finished /\ save'[k] = Finished
  <2>1. PICK k \in Saves : SaveMarks(k) \/ CommitScores(k)
    BY <1>1 DEF TermNext, Lifecycle, TransitionTermStatus, PublishTerm, Setup, UpsertMarksConfig, ImportTermRow, SetMarksConfig,
             ConfigureComponents, Save, BeginComponents, BeginDirect, Begin, CheckFit, WriteScores, RollUpScores, SaveDies, rows
  <2>2. save[k].pc \in BeforeWrite
    BY <2>1 DEF SaveMarks, CommitScores, BeforeWrite
  <2>3. k \in inFlight /\ save[k] # Finished
    BY <1>1, <2>2, IdleFields DEF ExamInv, LateInv, BeforeWrite
  <2>4. save'[k] = Finished
    BY <1>1, <2>1 DEF SaveMarks, CommitScores, ExamInv, SavesInv
  <2> QED BY <2>3, <2>4
<1>2. ExamInv /\ [TermNext]_termVars => [Late]_termVars
  BY <1>1
<1> QED BY <1>2, ExamInvHolds, PTL DEF TermSpec, LateWritesWereInFlight

\* No percentage above a hundred is rolled up unless a maximum was lowered
\* (save_component_marks, whose caps are read before its transaction).
THEOREM RollUpsStay == TermSpec => []RollUpsStayWithinHundred
<1>1. ExamInv => RollUpsStayWithinHundred
  BY DEF ExamInv, EntriesInv, RollUpsStayWithinHundred
<1> QED BY <1>1, ExamInvHolds, PTL

\* Without any marks nothing is earned.
LEMMA NothingEarned ==
    ASSUME NEW D, IsFiniteSet(D), D \subseteq Components, NEW R \in SUBSET D, R # {}, NEW max, NEW scores, DOMAIN scores = R,
           \A c \in D : max[c] \in Nat \ {0}, \A c \in R : scores[c] \in ScoreRecord,
           \A c \in R : ~scores[c].marked \/ scores[c].absent
    PROVE  Earned(max, scores, D) = 0
<1> DEFINE scale == ProductOver(max, D)
           part == Part(max, scores, scale)
<1>1. \A c \in R : part[c] \in Nat /\ scale \div max[c] \in Nat
  BY PercentParts
<1>2. ASSUME NEW c \in R PROVE part[c] = 0
  <2>1. part[c] = IF scores[c].absent THEN 0 ELSE scores[c].marks * Weight[c] * (scale \div max[c])
    BY DEF Part
  <2>2. scores[c].absent \/ scores[c].marks = 0
    BY DEF ScoreRecord
  <2>3. Weight[c] \in Nat
    BY WeightAssumption
  <2> HIDE DEF part, scale
  <2> QED BY <1>1, <2>1, <2>2, <2>3
<1>3. Earned(max, scores, D) = 10000 * SumOver(part, R)
  BY EarnedIs
<1> HIDE DEF part
<1>4. IsFiniteSet(R) /\ \A c \in R : part[c] \in Nat /\ part[c] = 0 * part[c]
  BY <1>1, <1>2, FS_Subset
<1>5. SumOver(part, R) = 0 * SumOver(part, R) /\ SumOver(part, R) \in Nat
  BY <1>4, SumScaled, SumType
<1> QED BY <1>3, <1>5

\* The grid that get_component_marks_grid computes and the entry that
\* save_component_marks rolled up agree to a hundredth, whichever way each
\* rounds; a blank total is an entry of 0; and the grid shows no more while
\* components have no score.
THEOREM GridAndEntryAgree == TermSpec => []GridMatchesEntry
<1>1. ASSUME ExamInv, NEW s \in Students, entry[s].row, drift[s] = {}
      PROVE  /\ GridTotal(s) = NoTotal => entry[s].marks = 0
             /\ GridTotal(s) <= entry[s].marks + 1
             /\ (\A c \in Defined : score[s][c].row) =>
                   /\ entry[s].absent = GridAbsent(s)
                   /\ GridTotal(s) # NoTotal => entry[s].marks <= GridTotal(s) + 1
  <2>0. PICK rated : rated = {c \in Defined : score[s][c].row}
    OBVIOUS
  <2>1. PICK given : given = [c \in rated |-> score[s][c]]
    OBVIOUS
  <2> DEFINE n == Earned(MaxMarks, given, rated)
             w == Attainable(MaxMarks, rated)
             N == Earned(MaxMarks, given, Defined)
             W == Attainable(MaxMarks, Defined)
  <2>2. entry[s] = RollUpOf(score[s]) /\ rated # {}
    BY <1>1, <2>0 DEF ExamInv, EntriesInv
  <2>3. entry[s].marks = RoundAway(n, w) /\ entry[s].absent = \A c \in rated : score[s][c].absent
    BY <2>0, <2>1, <2>2 DEF RollUpOf
  <2>4. GridTotal(s) = IF Present(s) = {} THEN NoTotal ELSE RoundEven(N, W)
    BY <2>0, <2>1 DEF GridTotal
  <2>5. \A c \in Components : score[s][c] \in ScoreRecord
    BY <1>1 DEF ExamInv, RowTypes
  <2>6. /\ IsFiniteSet(Defined) /\ Defined \subseteq Components
        /\ rated \in SUBSET Defined /\ rated \subseteq Components /\ IsFiniteSet(rated) /\ DOMAIN given = rated
    BY <1>1, <2>0, <2>1, DefinedMaxima, FS_Subset DEF ExamInv
  <2>7. \A c \in Defined : MaxMarks[c] \in Nat \ {0}
    BY <1>1, DefinedMaxima DEF ExamInv
  <2>8. \A c \in rated : given[c] \in ScoreRecord
    BY <2>1, <2>5, <2>6
  <2>9. rated \in SUBSET rated /\ \A c \in rated : MaxMarks[c] \in Nat \ {0}
    BY <2>6, <2>7
  <2>10. n \in Nat /\ w \in Nat \ {0}
    BY <2>2, <2>6, <2>8, <2>9, EarnedType
  <2>11. N \in Nat /\ W \in Nat \ {0}
    BY <2>2, <2>6, <2>7, <2>8, EarnedType
  <2>12. N * w <= n * W
    BY <2>2, <2>6, <2>7, <2>8, ShareShrinks
  <2>13. (\A c \in Defined : score[s][c].row) => rated = Defined
    BY <2>0
  <2>14. (\A c \in Defined : score[s][c].row) => entry[s].absent = GridAbsent(s)
    BY <2>0, <2>2, <2>3 DEF GridAbsent
  <2>15. Present(s) = {} => n = 0
    <3> SUFFICES ASSUME Present(s) = {} PROVE n = 0
      OBVIOUS
    <3>1. \A c \in rated : ~given[c].marked \/ given[c].absent
      BY <2>0, <2>1 DEF Present
    <3> QED BY <2>2, <2>6, <2>8, <2>9, <3>1, NothingEarned
  <2>16. rated = Defined => n * W <= N * w
    BY <2>10
  <2> HIDE DEF n, w, N, W
  <2>17. entry[s].marks \in Nearest(n, w) /\ entry[s].marks \in Nat
    BY <2>3, <2>10, RoundingsAreNearest, NearestBounds
  <2>18. CASE Present(s) = {}
    <3>1. GridTotal(s) = -1
      BY <2>4, <2>18 DEF NoTotal
    <3>2. n <= 0 * w
      BY <2>10, <2>15, <2>18
    <3>3. entry[s].marks <= 0
      BY <2>10, <2>17, <3>2, RoundedWithin
    <3> QED BY <2>14, <2>17, <3>1, <3>3 DEF NoTotal
  <2>19. CASE Present(s) # {}
    <3>1. GridTotal(s) \in Nearest(N, W) /\ GridTotal(s) \in Nat
      BY <2>4, <2>11, <2>19, RoundingsAreNearest, NearestBounds
    <3>2. GridTotal(s) # NoTotal
      BY <3>1 DEF NoTotal
    <3>3. GridTotal(s) <= entry[s].marks + 1
      BY <2>10, <2>11, <2>12, <2>17, <3>1, RoundedOrder
    <3>4. rated = Defined => entry[s].marks <= GridTotal(s) + 1
      BY <2>10, <2>11, <2>16, <2>17, <3>1, RoundedOrder
    <3> QED BY <2>13, <2>14, <3>2, <3>3, <3>4
  <2> QED BY <2>18, <2>19
<1>2. ExamInv => GridMatchesEntry
  BY <1>1 DEF GridMatchesEntry
<1> QED BY <1>2, ExamInvHolds, PTL

-----------------------------------------------------------------------------
(* The results of a term and of a year.                                    *)

LEMMA PercentagesType ==
    ASSUME NEW part \in Nat, NEW whole \in Nat
    PROVE  /\ Percentages(part, whole) # {}
           /\ \A p \in Percentages(part, whole) : p = Absent \/ p \in Nat
           /\ whole # 0 => \A p \in Percentages(part, whole) : p \in Nat /\ p # Absent
<1>1. 1000 * part \in Nat
  OBVIOUS
<1>2. CASE whole = 0
  BY <1>2 DEF Percentages
<1>3. CASE whole # 0
  <2> DEFINE n == 1000 * part
  <2>1. Percentages(part, whole) = Nearest(n, whole)
    BY <1>3 DEF Percentages
  <2>2. n \in Nat /\ whole \in Nat \ {0}
    BY <1>3
  <2> HIDE DEF n
  <2>3. Nearest(n, whole) # {} /\ \A p \in Nearest(n, whole) : p \in Nat
    BY <2>2, NearestExists, NearestBounds
  <2> QED BY <1>3, <2>1, <2>3 DEF Absent
<1> QED BY <1>2, <1>3

\* Equal fractions may be rounded to two neighbours, no further apart.
LEMMA EqualFractions ==
    ASSUME NEW m \in Nat, NEW x \in Nat \ {0}, NEW w \in Nat \ {0},
           NEW p \in Percentages(m, x), NEW q \in Percentages(w * m, x * w)
    PROVE  SameBut(p, q)
<1>1. 1000 * m \in Nat /\ 1000 * (w * m) \in Nat /\ x * w \in Nat \ {0}
  OBVIOUS
<1>2. p \in Nearest(1000 * m, x) /\ q \in Nearest(1000 * (w * m), x * w)
  BY <1>1 DEF Percentages
<1>3. (1000 * m) * (x * w) = (1000 * (w * m)) * x /\ (1000 * m) * (x * w) \in Nat
  OBVIOUS
<1> DEFINE a == 1000 * m
           c == 1000 * (w * m)
           d == x * w
<1>5. a \in Nat /\ c \in Nat /\ d \in Nat \ {0} /\ a * d <= c * x /\ c * x <= a * d
      /\ p \in Nearest(a, x) /\ q \in Nearest(c, d)
  BY <1>1, <1>2, <1>3
<1> HIDE DEF a, c, d
<1>4. p \in Nat /\ q \in Nat
  BY <1>5, NearestBounds
<1>6. p <= q + 1
  BY <1>5, RoundedOrder
<1>7. q <= p + 1
  BY <1>5, RoundedOrder
<1> QED BY <1>4, <1>6, <1>7 DEF SameBut, Absent

LEMMA WholeNumbersStay ==
    ASSUME NEW n \in Nat
    PROVE  Nearest(n, 1) = {n}
<1>1. Nearest(n, 1) # {}
  BY NearestExists
<1>2. ASSUME NEW q \in Nearest(n, 1) PROVE q = n
  <2>1. q \in Nat /\ 2 * 1 * q <= 2 * n + 1 /\ 2 * n <= 2 * 1 * q + 1
    BY NearestBounds
  <2> QED BY <2>1
<1> QED BY <1>1, <1>2

\* The row of a configured subject.
LEMMA ConfiguredRows ==
    ASSUME NEW sheet \in Sheets
    PROVE  /\ DOMAIN Configured(sheet) \subseteq YearSubjects
           /\ \A s \in DOMAIN Configured(sheet) :
                 Configured(sheet)[s] \in SheetConfigs /\ Configured(sheet)[s].max \in Nat \ {0} /\ Configured(sheet)[s].weight \in Nat \ {0}
  BY SheetAssumption DEF Configured, Sheets

\* The marks of a subject that one term of the year configures.
LEMMA OneTermYear ==
    ASSUME NEW configs, NEW marks, NEW t \in DOMAIN configs, NEW s \in DOMAIN configs[t],
           configs[t][s].max \in Nat \ {0}, configs[t][s].weight \in Nat \ {0},
           marks[t][s] \in Nat, marks[t][s] # Absent,
           \A u \in DOMAIN configs \ {t} : s \notin DOMAIN configs[u]
    PROVE  YearSubjectPercentages(configs, marks, s) =
             Percentages(configs[t][s].weight * marks[t][s], configs[t][s].max * configs[t][s].weight)
<1> DEFINE marked == {u \in DOMAIN configs : s \in DOMAIN configs[u] /\ marks[u][s] # Absent}
           max == [u \in marked |-> configs[u][s].max]
           weight == [u \in marked |-> configs[u][s].weight]
           scale == ProductOver(max, marked)
           part == [u \in marked |-> weight[u] * marks[u][s] * (scale \div max[u])]
           m == marks[t][s]
           w == configs[t][s].weight
           x == configs[t][s].max
<1>1. YearSubjectPercentages(configs, marks, s) = Percentages(SumOver(part, marked), scale * SumOver(weight, marked))
  BY DEF YearSubjectPercentages
<1>2. m \in Nat /\ w \in Nat \ {0} /\ x \in Nat \ {0}
  OBVIOUS
<1>3. marked = {t}
  OBVIOUS
<1>4. max[t] = x /\ weight[t] = w
  BY <1>3
<1>5. part[t] = weight[t] * m * (scale \div max[t])
  BY <1>3
<1> HIDE DEF marked, part, weight, max, m, w, x
<1>6. scale = x
  BY <1>2, <1>3, <1>4, ProductOfOne
<1> HIDE DEF scale
<1>7. scale \div max[t] = 1
  <2>1. x * 1 = x /\ (x * 1) \div x = 1
    BY <1>2, QuotientOfMultiple
  <2> QED BY <1>4, <1>6, <2>1
<1>8. part[t] = w * m
  BY <1>2, <1>4, <1>5, <1>7
<1>9. w * m \in Nat
  BY <1>2
<1>10. SumOver(part, marked) = w * m /\ SumOver(weight, marked) = w
  BY <1>2, <1>3, <1>4, <1>8, <1>9, SumOfOne
<1>11. YearSubjectPercentages(configs, marks, s) = Percentages(w * m, x * w)
  BY <1>1, <1>6, <1>10
<1> QED BY <1>11 DEF m, w, x

LEMMA MarklessYear ==
    ASSUME NEW configs, NEW marks, NEW s,
           \A u \in DOMAIN configs : s \in DOMAIN configs[u] => marks[u][s] = Absent
    PROVE  YearSubjectPercentages(configs, marks, s) = {Absent}
<1> DEFINE marked == {u \in DOMAIN configs : s \in DOMAIN configs[u] /\ marks[u][s] # Absent}
           max == [u \in marked |-> configs[u][s].max]
           weight == [u \in marked |-> configs[u][s].weight]
           scale == ProductOver(max, marked)
           part == [u \in marked |-> weight[u] * marks[u][s] * (scale \div max[u])]
<1>1. YearSubjectPercentages(configs, marks, s) = Percentages(SumOver(part, marked), scale * SumOver(weight, marked))
  BY DEF YearSubjectPercentages
<1>2. marked = {}
  OBVIOUS
<1> HIDE DEF marked, max, weight, part
<1>3. SumOver(weight, marked) = 0 /\ scale = 1
  BY <1>2, SumEmpty, ProductEmpty
<1> HIDE DEF scale
<1>4. scale * SumOver(weight, marked) = 0
  BY <1>3
<1> QED BY <1>1, <1>4 DEF Percentages

\* The line of a term's sheet that configures one subject.
LEMMA OneSubjectTerm ==
    ASSUME NEW sheet, NEW marks, NEW s, DOMAIN sheet = {s}, sheet[s].max \in Nat \ {0},
           marks[s] = Absent \/ marks[s] \in Nat, NEW result \in TermResults(sheet, marks)
    PROVE  result.percentage \in SubjectPercentages(sheet[s], marks[s])
<1> DEFINE present == {x \in DOMAIN sheet : marks[x] # Absent}
           outOf == OutOf(sheet)
<1>1. result.percentage \in Percentages(SumOver(marks, present), SumOver(outOf, present))
  BY DEF TermResults
<1>2. outOf[s] = sheet[s].max
  BY DEF OutOf
<1>3. CASE marks[s] = Absent
  <2>1. present = {}
    BY <1>3
  <2> HIDE DEF present, outOf
  <2>2. SumOver(outOf, present) = 0
    BY <2>1, SumEmpty
  <2> QED BY <1>1, <1>3, <2>2 DEF Percentages, SubjectPercentages
<1>4. CASE marks[s] # Absent
  <2>1. present = {s}
    BY <1>4
  <2> HIDE DEF present, outOf
  <2>2. SumOver(marks, present) = marks[s] /\ SumOver(outOf, present) = sheet[s].max
    BY <1>2, <1>4, <2>1, SumOfOne
  <2> QED BY <1>1, <1>4, <2>2 DEF SubjectPercentages
<1> QED BY <1>3, <1>4

\* A year whose other subjects have no marks has the one subject's percentage.
LEMMA OneSubjectYear ==
    ASSUME NEW configs, NEW marks, NEW subjects, NEW s \in subjects,
           \A x \in subjects \ {s} : YearSubjectPercentages(configs, marks, x) = {Absent},
           \A p \in YearSubjectPercentages(configs, marks, s) : p = Absent \/ p \in Nat,
           NEW year \in ConsolidatedResults(configs, marks, subjects)
    PROVE  year.percentage \in YearSubjectPercentages(configs, marks, s)
<1>1. PICK pct \in Roundings(configs, marks, subjects) : year.percentage \in OverallPercentages(pct)
  BY DEF ConsolidatedResults
<1>2. DOMAIN pct = subjects /\ \A x \in subjects : pct[x] \in YearSubjectPercentages(configs, marks, x)
  BY DEF Roundings
<1>3. \A x \in subjects \ {s} : pct[x] = Absent
  BY <1>2
<1> DEFINE graded == {x \in DOMAIN pct : pct[x] # Absent}
<1>4. year.percentage \in IF graded = {} THEN {Absent} ELSE Nearest(SumOver(pct, graded), Cardinality(graded))
  BY <1>1 DEF OverallPercentages
<1>5. CASE pct[s] = Absent
  <2>1. graded = {}
    BY <1>2, <1>3, <1>5
  <2>2. year.percentage = pct[s]
    BY <1>4, <1>5, <2>1
  <2> QED BY <1>2, <2>2
<1>6. CASE pct[s] # Absent
  <2>1. graded = {s} /\ pct[s] \in Nat
    BY <1>2, <1>3, <1>6
  <2> HIDE DEF graded
  <2>2. SumOver(pct, graded) = pct[s] /\ Cardinality(graded) = 1
    BY <2>1, SumOfOne, FS_Singleton
  <2>3. year.percentage \in Nearest(pct[s], 1)
    BY <1>4, <2>1, <2>2
  <2>4. year.percentage = pct[s]
    BY <2>1, <2>3, WholeNumbersStay
  <2> QED BY <1>2, <2>4
<1> QED BY <1>5, <1>6

\* A term has a line for the student, and who passes has passed each subject.
LEMMA TermLines ==
    ASSUME NEW sheet, NEW marks, IsFiniteSet(DOMAIN sheet),
           \A s \in DOMAIN sheet : sheet[s].max \in Nat /\ (marks[s] = Absent \/ marks[s] \in Nat)
    PROVE  /\ TermResults(sheet, marks) # {}
           /\ \A result \in TermResults(sheet, marks) :
                 result.passed => \A s \in DOMAIN sheet : SubjectPassed(sheet[s], marks[s])
<1> DEFINE present == {x \in DOMAIN sheet : marks[x] # Absent}
           outOf == OutOf(sheet)
<1>1. IsFiniteSet(present) /\ \A s \in present : marks[s] \in Nat /\ outOf[s] \in Nat
  BY FS_Subset DEF OutOf
<1>2. TermResults(sheet, marks) =
        {[percentage |-> total, grade |-> GradeFromPct(total),
          passed |-> \A s \in DOMAIN sheet : SubjectPassed(sheet[s], marks[s])] :
         total \in Percentages(SumOver(marks, present), SumOver(outOf, present))}
  BY DEF TermResults
<1> HIDE DEF present, outOf
<1>3. SumOver(marks, present) \in Nat /\ SumOver(outOf, present) \in Nat
  BY <1>1, SumType
<1>4. PICK total : total \in Percentages(SumOver(marks, present), SumOver(outOf, present))
  BY <1>3, PercentagesType
<1>5. [percentage |-> total, grade |-> GradeFromPct(total),
       passed |-> \A s \in DOMAIN sheet : SubjectPassed(sheet[s], marks[s])] \in TermResults(sheet, marks)
  BY <1>2, <1>4
<1>6. \A result \in TermResults(sheet, marks) :
         result.passed => \A s \in DOMAIN sheet : SubjectPassed(sheet[s], marks[s])
  <2> SUFFICES ASSUME NEW result \in TermResults(sheet, marks), result.passed
               PROVE  \A s \in DOMAIN sheet : SubjectPassed(sheet[s], marks[s])
    OBVIOUS
  <2>1. PICK p : result = [percentage |-> p, grade |-> GradeFromPct(p),
                           passed |-> \A s \in DOMAIN sheet : SubjectPassed(sheet[s], marks[s])]
    BY <1>2
  <2>2. result.passed = (\A s \in DOMAIN sheet : SubjectPassed(sheet[s], marks[s]))
    BY <2>1
  <2> QED BY <2>2
<1> QED BY <1>5, <1>6

\* The report card of a term and the result of a year, which are computed by
\* two functions, agree to a tenth for every configuration and all marks,
\* whichever way each rounds a tie (compute_term_results,
\* compute_consolidated_results).
THEOREM ReportCardAndYearAgree == TermAndYearAgree
<1> SUFFICES ASSUME NEW sheets \in [YearTerms -> Sheets],
                    NEW marks \in [YearTerms -> [YearSubjects -> SheetMarks \cup {Absent}]]
             PROVE  LET configs == [t \in YearTerms |-> Configured(sheets[t])]
                        Terms(t) == TermResults(configs[t], marks[t])
                        Years == ConsolidatedResults(configs, marks, YearSubjects)
                        Only(t, s) == s \in DOMAIN configs[t] /\ \A u \in YearTerms \ {t} : s \notin DOMAIN configs[u]
                    IN /\ (\A t \in YearTerms : \A result \in Terms(t) : result.passed) => \A year \in Years : year.passed
                       /\ \A t \in YearTerms, s \in YearSubjects : Only(t, s) =>
                              \A p \in SubjectPercentages(configs[t][s], marks[t][s]) :
                                  \A q \in YearSubjectPercentages(configs, marks, s) : SameBut(p, q)
                       /\ \A t \in YearTerms, s \in YearSubjects :
                              (Only(t, s) /\ \A u \in YearTerms : DOMAIN configs[u] \subseteq {s}) =>
                                  \A result \in Terms(t), year \in Years : SameBut(result.percentage, year.percentage)
                       /\ \A t \in YearTerms : \A result \in Terms(t) : result.passed =>
                              \A s \in DOMAIN configs[t] : Absent \notin SubjectPercentages(configs[t][s], marks[t][s])
  BY DEF TermAndYearAgree
<1>0. PICK configs : configs = [t \in YearTerms |-> Configured(sheets[t])]
  OBVIOUS
<1> DEFINE Terms(t) == TermResults(configs[t], marks[t])
           Years == ConsolidatedResults(configs, marks, YearSubjects)
           Only(t, s) == s \in DOMAIN configs[t] /\ \A u \in YearTerms \ {t} : s \notin DOMAIN configs[u]
<1>1. \A t \in YearTerms :
        /\ DOMAIN configs[t] \subseteq YearSubjects /\ IsFiniteSet(DOMAIN configs[t])
        /\ \A s \in DOMAIN configs[t] : configs[t][s].max \in Nat \ {0} /\ configs[t][s].weight \in Nat \ {0}
        /\ \A s \in YearSubjects : marks[t][s] = Absent \/ marks[t][s] \in Nat
  <2> SUFFICES ASSUME NEW t \in YearTerms
               PROVE  /\ DOMAIN configs[t] \subseteq YearSubjects /\ IsFiniteSet(DOMAIN configs[t])
                      /\ \A s \in DOMAIN configs[t] : configs[t][s].max \in Nat \ {0} /\ configs[t][s].weight \in Nat \ {0}
                      /\ \A s \in YearSubjects : marks[t][s] = Absent \/ marks[t][s] \in Nat
    OBVIOUS
  <2>1. configs[t] = Configured(sheets[t]) /\ sheets[t] \in Sheets
    BY <1>0
  <2>2. /\ DOMAIN configs[t] \subseteq YearSubjects
        /\ \A s \in DOMAIN configs[t] : configs[t][s].max \in Nat \ {0} /\ configs[t][s].weight \in Nat \ {0}
    BY <2>1, ConfiguredRows
  <2>3. IsFiniteSet(DOMAIN configs[t])
    BY <2>2, SheetAssumption, FS_Subset
  <2>4. \A s \in YearSubjects : marks[t][s] = Absent \/ marks[t][s] \in Nat
    BY SheetAssumption
  <2> QED BY <2>2, <2>3, <2>4
<1>2. ASSUME NEW t \in YearTerms
      PROVE  /\ Terms(t) # {}
             /\ \A result \in Terms(t) : result.passed => \A s \in DOMAIN configs[t] : SubjectPassed(configs[t][s], marks[t][s])
  <2>1. \A s \in DOMAIN configs[t] : configs[t][s].max \in Nat /\ (marks[t][s] = Absent \/ marks[t][s] \in Nat)
    BY <1>1
  <2>2. IsFiniteSet(DOMAIN configs[t])
    BY <1>1
  <2> QED BY <2>1, <2>2, TermLines
<1>3. ASSUME NEW year \in Years
      PROVE  year.passed = \A s \in YearSubjects : YearSubjectPassed(configs, marks, s)
  <2>1. PICK p : year = [percentage |-> p, grade |-> GradeFromPct(p),
                         passed |-> \A s \in YearSubjects : YearSubjectPassed(configs, marks, s)]
    BY DEF ConsolidatedResults
  <2> QED BY <2>1
<1>4. ASSUME \A t \in YearTerms : \A result \in Terms(t) : result.passed, NEW year \in Years
      PROVE  year.passed
  <2>1. \A t \in YearTerms : \A s \in DOMAIN configs[t] : SubjectPassed(configs[t][s], marks[t][s])
    BY <1>2, <1>4
  <2>2. DOMAIN configs = YearTerms
    BY <1>0
  <2> HIDE DEF Terms, Years
  <2> QED BY <1>3, <2>1, <2>2 DEF SubjectPassed, YearSubjectPassed
<1>5. ASSUME NEW t \in YearTerms, NEW s \in YearSubjects, Only(t, s)
      PROVE  /\ \A p \in SubjectPercentages(configs[t][s], marks[t][s]) :
                   \A q \in YearSubjectPercentages(configs, marks, s) : SameBut(p, q)
             /\ \A q \in YearSubjectPercentages(configs, marks, s) : q = Absent \/ q \in Nat
  <2>1. DOMAIN configs = YearTerms
    BY <1>0
  <2>2. t \in DOMAIN configs /\ s \in DOMAIN configs[t] /\ \A u \in DOMAIN configs \ {t} : s \notin DOMAIN configs[u]
    BY <1>5, <2>1
  <2>3. configs[t][s].max \in Nat \ {0} /\ configs[t][s].weight \in Nat \ {0}
    BY <1>1, <2>2
  <2>4. CASE marks[t][s] = Absent
    <3>1. YearSubjectPercentages(configs, marks, s) = {Absent}
      BY <2>2, <2>4, MarklessYear
    <3>2. SubjectPercentages(configs[t][s], marks[t][s]) = {Absent}
      BY <2>4 DEF SubjectPercentages
    <3> QED BY <3>1, <3>2 DEF SameBut
  <2>5. CASE marks[t][s] # Absent
    <3> DEFINE m == marks[t][s]
               w == configs[t][s].weight
               x == configs[t][s].max
    <3>1. m \in Nat
      BY <1>1, <2>5
    <3>2. YearSubjectPercentages(configs, marks, s) = Percentages(w * m, x * w)
      BY <2>2, <2>3, <2>5, <3>1, OneTermYear
    <3>3. SubjectPercentages(configs[t][s], marks[t][s]) = Percentages(m, x)
      BY <2>5 DEF SubjectPercentages
    <3>4. x \in Nat \ {0} /\ w \in Nat \ {0}
      BY <2>3
    <3> HIDE DEF m, w, x
    <3>5. w * m \in Nat /\ x * w \in Nat
      BY <3>1, <3>4
    <3>6. \A q \in Percentages(w * m, x * w) : q = Absent \/ q \in Nat
      BY <3>5, PercentagesType
    <3>7. \A p \in Percentages(m, x), q \in Percentages(w * m, x * w) : SameBut(p, q)
      BY <3>1, <3>4, EqualFractions
    <3> QED BY <3>2, <3>3, <3>6, <3>7
  <2> QED BY <2>4, <2>5
<1>6. ASSUME NEW t \in YearTerms, NEW s \in YearSubjects, Only(t, s), \A u \in YearTerms : DOMAIN configs[u] \subseteq {s},
             NEW result \in Terms(t), NEW year \in Years
      PROVE  SameBut(result.percentage, year.percentage)
  <2>1. DOMAIN configs = YearTerms /\ DOMAIN configs[t] = {s}
    BY <1>0, <1>6
  <2>2. configs[t][s].max \in Nat \ {0} /\ (marks[t][s] = Absent \/ marks[t][s] \in Nat)
    BY <1>1, <2>1
  <2>3. result.percentage \in SubjectPercentages(configs[t][s], marks[t][s])
    BY <2>1, <2>2, OneSubjectTerm
  <2>4. ASSUME NEW x \in YearSubjects \ {s} PROVE YearSubjectPercentages(configs, marks, x) = {Absent}
    <3>1. \A u \in DOMAIN configs : x \notin DOMAIN configs[u]
      BY <1>6, <2>1
    <3> QED BY <3>1, MarklessYear
  <2>5. year.percentage \in YearSubjectPercentages(configs, marks, s)
    BY <1>5, <1>6, <2>4, OneSubjectYear
  <2> HIDE DEF Terms, Years
  <2> QED BY <1>5, <1>6, <2>3, <2>5
<1>7. ASSUME NEW t \in YearTerms, NEW result \in Terms(t), result.passed, NEW s \in DOMAIN configs[t]
      PROVE  Absent \notin SubjectPercentages(configs[t][s], marks[t][s])
  <2>1. marks[t][s] # Absent
    BY <1>2, <1>7 DEF SubjectPassed
  <2>2. marks[t][s] \in Nat /\ configs[t][s].max \in Nat \ {0}
    BY <1>1, <1>7, <2>1
  <2> QED BY <2>1, <2>2, PercentagesType DEF SubjectPercentages
<1> HIDE DEF Years
<1> QED BY <1>0, <1>4, <1>5, <1>6, <1>7 DEF Years

\* The same as a property of the term, which is how TLC checks it: the line
\* of compute_term_results and that of compute_consolidated_results agree.
THEOREM ResultsAlwaysAgree == TermSpec => []ResultsAgree
<1>1. ResultsAgree
  BY ReportCardAndYearAgree DEF ResultsAgree
<1> QED BY <1>1, PTL
=============================================================================
