---------------------------- MODULE Admissions ----------------------------
(***************************************************************************)
(* The admissions pipeline: enquiries, their documents and status,         *)
(* enrolment as a student, and the hourly nudge about stale ones.          *)
(*                                                                         *)
(* A change of status reads in one statement and writes in another, each   *)
(* with a commit of its own: its FOR UPDATE locks nothing.  An enrolment   *)
(* is one transaction that keeps the admission's row locked to its end.    *)
(***************************************************************************)
EXTENDS Integers, FiniteSets, FiniteSetsExt

CONSTANTS
    Ids,            \* bound: rows of admissions
    NoId,
    Started,        \* where an admission may stand when the model begins
    Requests,       \* requests of the staff that may be in progress together
    MaxSent,        \* bound: requests of the staff
    GivenNumbers,   \* admission numbers the principal types
    MaxNumber,      \* bound: admission numbers
    StaleDays,      \* ADMISSION_STALE_DAYS
    MaxDocuments,   \* bound: documents of an admission
    MaxCrashes      \* bound: sweeps that die

ASSUME AdmissionsAssumption ==
    /\ NoId \notin Ids
    /\ GivenNumbers \subseteq 1 .. MaxNumber
    /\ Started \subseteq {"none", "enquiry", "application", "docs_pending", "approved", "rejected"}
    /\ MaxSent \in Nat /\ MaxNumber \in Nat /\ MaxDocuments \in Nat /\ MaxCrashes \in Nat
    /\ StaleDays \in Nat \ {0}

VARIABLES
    admission,  \* rows of admissions
    students,   \* rows of students that an enrolment made
    request,    \* requests of the staff in progress
    sent,       \* requests so far
    sweep,      \* admissions_aging: what it has fetched and not yet handled
    crashes,    \* sweeps that have died
    late,       \* history: status writes the table of transitions does not allow
    overtaken,  \* history: requests whose admission moved after they read it
    told,       \* history: days since an admission's last ADMISSION_STALE
    unstamped   \* history: admissions a sweep died over before stamping them

admissionsVars == <<admission, students, request, sent, sweep, crashes, late, overtaken, told, unstamped>>

-----------------------------------------------------------------------------
Open == {"enquiry", "application", "docs_pending"}
AdmissionStatuses == Open \cup {"approved", "enrolled", "rejected"}

ValidTransitions ==
    [enquiry |-> {"application", "rejected"}, application |-> {"docs_pending", "rejected"},
     docs_pending |-> {"approved", "rejected"}, approved |-> {"enrolled", "rejected"},
     enrolled |-> {}, rejected |-> {}]

\* idle: days since updated_at; nudged: days since nudged_at.
NoAdmission == [status |-> "none", student |-> 0, documents |-> 0, idle |-> 0, nudged |-> StaleDays]
Ready == [pc |-> "ready", id |-> NoId, to |-> "none", number |-> 0]
Asleep == [fetched |-> {}, telling |-> NoId]

Sends(k) == request[k] = Ready /\ sent < MaxSent /\ sent' = sent + 1
Done(k) == request' = [request EXCEPT ![k] = Ready]

\* enrol_student has the row locked, and holds on to it.
RowLocked(a) == \E k \in Requests : request[k].id = a /\ request[k].pc \in {"enrol", "number", "insert"}

\* The status of a becomes to: whoever had read it before is overtaken.
Overtake(a, k) ==
    overtaken' = (overtaken \cup {j \in Requests : request[j].id = a /\ request[j].pc = "read"}) \ {k}

AdmissionsInit ==
    /\ admission \in [Ids -> {[NoAdmission EXCEPT !.status = from] : from \in Started}]
    /\ students = {}
    /\ request = [k \in Requests |-> Ready]
    /\ sent = 0 /\ sweep = Asleep /\ crashes = 0
    /\ late = [a \in Ids |-> 0]
    /\ overtaken = {}
    /\ told = [a \in Ids |-> StaleDays]
    /\ unstamped = {}

-----------------------------------------------------------------------------
(* The public form.                                                        *)

CreateEnquiry(a) ==
    /\ admission[a] = NoAdmission
    /\ admission' = [admission EXCEPT ![a].status = "enquiry"]
    /\ UNCHANGED <<sent, students, request, sweep, crashes, late, overtaken, told, unstamped>>

\* admission_doc_confirm: one UPDATE that appends to what is there.
ConfirmDocument(a) ==
    /\ admission[a].status # "none" /\ ~RowLocked(a) /\ admission[a].documents < MaxDocuments
    /\ admission' = [admission EXCEPT ![a].documents = @ + 1, ![a].idle = 0]
    /\ UNCHANGED <<sent, students, request, sweep, crashes, late, overtaken, told, unstamped>>

-----------------------------------------------------------------------------
(* advance_status.                                                         *)

\* Any status may follow any other.
ReadAnyStatus(k, a, to) ==
    /\ Sends(k) /\ admission[a].status # "none" /\ ~RowLocked(a)
    /\ request' = [request EXCEPT ![k] =
                     [Ready EXCEPT !.pc = "read", !.id = a, !.to = to]]
    /\ UNCHANGED <<admission, students, sweep, crashes, late, overtaken, told, unstamped>>

ReadStatus(k, a, to) ==
    /\ Sends(k) /\ admission[a].status # "none" /\ ~RowLocked(a)
    /\ request' = [request EXCEPT ![k] =
          IF to \in ValidTransitions[admission[a].status]
          THEN [Ready EXCEPT !.pc = "read", !.id = a, !.to = to]
          ELSE Ready]
    /\ UNCHANGED <<admission, students, sweep, crashes, late, overtaken, told, unstamped>>

WriteStatus(k) ==
    LET a == request[k].id
        from == admission[a].status
        to == request[k].to
    IN /\ request[k].pc = "read" /\ ~RowLocked(a)
       /\ admission' = [admission EXCEPT ![a].status = to, ![a].idle = 0]
       /\ late' = [late EXCEPT ![a] = IF to \in ValidTransitions[from] THEN @ ELSE @ + 1]
       /\ Overtake(a, k) /\ Done(k)
       /\ UNCHANGED <<sent, students, sweep, crashes, told, unstamped>>

-----------------------------------------------------------------------------
(* enrol_student: a transaction.                                           *)

\* Reads the status with no lock to wait for.
BeginEnrolUnlocked(k, a) ==
    /\ Sends(k) /\ admission[a].status # "none"
    /\ request' = [request EXCEPT ![k] =
          IF admission[a].status = "approved" THEN [Ready EXCEPT !.pc = "enrol", !.id = a]
          ELSE Ready]
    /\ UNCHANGED <<admission, students, sweep, crashes, late, overtaken, told, unstamped>>

BeginEnrol(k, a) ==
    /\ Sends(k) /\ admission[a].status # "none" /\ ~RowLocked(a)
    /\ request' = [request EXCEPT ![k] =
          IF admission[a].status = "approved" THEN [Ready EXCEPT !.pc = "enrol", !.id = a]
          ELSE Ready]
    /\ UNCHANGED <<admission, students, sweep, crashes, late, overtaken, told, unstamped>>

Numbers == {s.number : s \in students}

\* The largest committed number and one, unless a number is given.
ChooseNumber(k) ==
    /\ request[k].pc = "enrol"
    /\ \E n \in GivenNumbers \cup {1 + Max(Numbers \cup {0})} :
          n <= MaxNumber /\ request' = [request EXCEPT ![k].pc = "number", ![k].number = n]
    /\ UNCHANGED <<sent, admission, students, sweep, crashes, late, overtaken, told, unstamped>>

\* unique_tenant_admission_no: the INSERT waits for a transaction that has
\* inserted the number, and fails when that commits.
InsertStudent(k) ==
    /\ request[k].pc = "number"
    /\ ~\E j \in Requests : request[j].pc = "insert" /\ request[j].number = request[k].number
    /\ request' = [request EXCEPT ![k] =
          IF request[k].number \in Numbers THEN Ready ELSE [@ EXCEPT !.pc = "insert"]]
    /\ UNCHANGED <<sent, admission, students, sweep, crashes, late, overtaken, told, unstamped>>

\* The ledger is generated, the admission marked and linked, and all of it commits.
CommitEnrol(k) ==
    LET a == request[k].id
    IN /\ request[k].pc = "insert"
       /\ students' = students \cup {[number |-> request[k].number, of |-> a]}
       /\ admission' = [admission EXCEPT ![a].status = "enrolled", ![a].student = request[k].number,
                                        ![a].idle = 0]
       /\ Overtake(a, k) /\ Done(k)
       /\ UNCHANGED <<sent, sweep, crashes, late, told, unstamped>>

\* A field is missing, the roll number is taken, a fee cannot be levied, or the
\* server stops: a transaction rolls back, a status is not written.
Fails(k) ==
    /\ request[k] # Ready
    /\ Done(k)
    /\ overtaken' = overtaken \ {k}
    /\ UNCHANGED <<sent, admission, students, sweep, crashes, late, told, unstamped>>

-----------------------------------------------------------------------------
(* admissions_aging, in the worker.                                        *)

StaleWhateverNudged(a) == admission[a].status \in Open /\ admission[a].idle >= StaleDays

Stale(a) ==
    /\ admission[a].status \in Open
    /\ admission[a].idle >= StaleDays /\ admission[a].nudged >= StaleDays

FetchStale ==
    /\ sweep = Asleep
    /\ sweep' = [sweep EXCEPT !.fetched = {a \in Ids : Stale(a)}]
    /\ UNCHANGED <<sent, admission, students, request, crashes, late, overtaken, told, unstamped>>

\* The event, whatever the admission's status by now.
TellStale(a) ==
    /\ a \in sweep.fetched /\ sweep.telling = NoId
    /\ sweep' = [fetched |-> sweep.fetched \ {a}, telling |-> a]
    /\ told' = [told EXCEPT ![a] = 0]
    /\ UNCHANGED <<sent, admission, students, request, crashes, late, overtaken, unstamped>>

StampNudge ==
    /\ sweep.telling # NoId /\ ~RowLocked(sweep.telling)
    /\ admission' = [admission EXCEPT ![sweep.telling].nudged = 0]
    /\ sweep' = [sweep EXCEPT !.telling = NoId]
    /\ unstamped' = unstamped \ {sweep.telling}
    /\ UNCHANGED <<sent, students, request, crashes, late, overtaken, told>>

SweepDies ==
    /\ sweep # Asleep /\ crashes < MaxCrashes
    /\ crashes' = crashes + 1
    /\ sweep' = Asleep
    /\ unstamped' = unstamped \cup ({sweep.telling} \ {NoId})
    /\ UNCHANGED <<sent, admission, students, request, late, overtaken, told>>

\* A sweep ends within its day.
Older(days) == IF days < StaleDays THEN days + 1 ELSE days

DayPasses ==
    /\ sweep = Asleep
    /\ admission' = [a \in Ids |-> IF admission[a].status = "none" THEN admission[a] ELSE
                       [admission[a] EXCEPT !.idle = Older(@), !.nudged = Older(@)]]
    /\ told' = [a \in Ids |-> Older(told[a])]
    /\ UNCHANGED <<sent, students, request, sweep, crashes, late, overtaken, unstamped>>

-----------------------------------------------------------------------------
Staff ==
    \E k \in Requests :
        \/ \E a \in Ids, to \in AdmissionStatuses : ReadStatus(k, a, to)
        \/ WriteStatus(k)
        \/ \E a \in Ids : BeginEnrol(k, a)
        \/ ChooseNumber(k) \/ InsertStudent(k) \/ CommitEnrol(k)
        \/ Fails(k)

Aging == FetchStale \/ StampNudge \/ SweepDies \/ \E a \in Ids : TellStale(a)

AdmissionsNext ==
    \/ \E a \in Ids : CreateEnquiry(a) \/ ConfirmDocument(a)
    \/ Staff \/ Aging \/ DayPasses

AdmissionsSpec == AdmissionsInit /\ [][AdmissionsNext]_admissionsVars

-----------------------------------------------------------------------------
(* Properties.                                                             *)

StudentsOf(a) == {s \in students : s.of = a}

AdmissionRecord ==
    [status : AdmissionStatuses \cup {"none"}, student : 0 .. MaxNumber,
     documents : 0 .. MaxDocuments, idle : 0 .. StaleDays, nudged : 0 .. StaleDays]

RequestRecord ==
    [pc : {"ready", "read", "enrol", "number", "insert"}, id : Ids \cup {NoId},
     to : AdmissionStatuses \cup {"none"}, number : 0 .. MaxNumber]

AdmissionsTypeOK ==
    /\ admission \in [Ids -> AdmissionRecord]
    /\ students \subseteq [number : 1 .. MaxNumber, of : Ids]
    /\ request \in [Requests -> RequestRecord]
    /\ sweep \in [fetched : SUBSET Ids, telling : Ids \cup {NoId}]
    /\ late \in [Ids -> Nat] /\ told \in [Ids -> 0 .. StaleDays]
    /\ sent \in 0 .. MaxSent /\ crashes \in 0 .. MaxCrashes
    /\ overtaken \subseteq Requests /\ unstamped \subseteq Ids

\* Unless a change of status has overwritten another one, an admission with a
\* student is enrolled, and linked to it, and it is the only one; each
\* overwriting makes room for at most one student more (enrol_student against
\* itself and against advance_status, which may also call an admission
\* enrolled that has no student).
OneStudentPerAdmission ==
    \A a \in Ids :
        /\ Cardinality(StudentsOf(a)) <= 1 + late[a]
        /\ late[a] = 0 => \A s \in StudentsOf(a) :
              admission[a].status = "enrolled" /\ admission[a].student = s.number

\* A status changes against the table of transitions only by a request that
\* had read the admission before another moved it (advance_status).
IllegalMovesWereOvertaken ==
    [][\A a \in Ids :
          late'[a] # late[a] => \E k \in overtaken : /\ request[k].id = a /\ request[k].pc = "read"
                                                     /\ request'[k] = Ready]_admissionsVars

\* An admission is announced as stale at most once in StaleDays days, but
\* again after a sweep that died between the announcement and its stamp
\* (admissions_aging commits the two separately).
NudgesAreThrottled ==
    [][\A a \in Ids : (sweep'.telling = a /\ sweep.telling # a)
          => told[a] >= StaleDays \/ a \in unstamped]_admissionsVars
=============================================================================
