----------------------------- MODULE Attendance -----------------------------
(***************************************************************************)
(* Daily attendance on the server: staff open the session of a class and   *)
(* day, mark its students, submit it and correct it; the worker alerts the *)
(* parents of the absent.  A request reads in one statement and writes in  *)
(* a later transaction, and others run in between.                         *)
(***************************************************************************)
EXTENDS Naturals, FiniteSets

CONSTANTS
    Sessions,       \* the sections taking attendance on one day
    Students,       \* students of all the sessions
    Marks,          \* statuses: "A" is absent; "P" and "L" behave alike here
    Requests        \* slots for the requests being served at one time

ASSUME MarksAssumption == {"P", "A"} \subseteq Marks /\ "none" \notin Marks
ASSUME StudentsAssumption == IsFiniteSet(Students)

VARIABLES
    session,    \* "none" | "open" | "submitted"
    over,       \* is the sessions' day over in school-local time?
    record,     \* attendance_records.status
    request,    \* what each slot is serving
    pending,    \* committed events of the session that absent_alert handles
    alerted,    \* rows of notifications of type ABSENT
    stale       \* history: records written to a submitted session by a
                \* request that had read it before it was submitted

serverVars == <<session, over, record, request, pending, alerted, stale>>

-----------------------------------------------------------------------------
\* The view sends a student once, and never an empty list.
MarkLists == {m \in (SUBSET [student : Students, status : Marks]) \ {{}} :
                 \A a, b \in m : a.student = b.student => a = b}

FreeSlot == [step |-> "free"]

Clients == {"nobody", "tap", "all", "submit", "flush"}

ServerInit ==
    /\ session = [s \in Sessions |-> "none"]
    /\ over = FALSE
    /\ record = [s \in Sessions |-> [x \in Students |-> "none"]]
    /\ request = [r \in Requests |-> FreeSlot]
    /\ pending = [s \in Sessions |-> 0]
    /\ alerted = {}
    /\ stale = {}

-----------------------------------------------------------------------------
(* Requests.                                                               *)

\* A request the client waits for; the slots are taken in order.
NewRequest(client, op, s, marks, admin) ==
    [step |-> "asked", client |-> client, op |-> op, session |-> s, marks |-> marks,
     admin |-> admin, sawSubmitted |-> FALSE, sawOver |-> FALSE]

NextSlot(r) == request[r].step = "free" /\ \A q \in Requests : q < r => request[q].step # "free"

Ask(r, client, op, s, marks, admin) ==
    /\ NextSlot(r)
    /\ request' = [request EXCEPT ![r] = NewRequest(client, op, s, marks, admin)]

Serves(r, step, op) == request[r].step = step /\ request[r].op = op

\* An answer is heard at once, a slow one being a slow request: the slot is
\* free.  A refusal waits for the view to handle it.
Succeeds(r) == request' = [request EXCEPT ![r] = FreeSlot]

Refuses(r) ==
    request' = [request EXCEPT ![r] =
        IF request[r].client = "nobody" THEN FreeSlot
        ELSE [@ EXCEPT !.step = "refused", !.sawSubmitted = FALSE, !.sawOver = FALSE]]

\* Lost on the way, or failed by the database: nothing is written.
Fails(r) ==
    /\ request[r].step \in {"asked", "write"}
    /\ Refuses(r)
    /\ UNCHANGED <<session, over, record, pending, alerted, stale>>

\* get_or_create_session.  Of two that find no row, the second one's INSERT
\* violates unique_session_per_day and changes nothing.
GetOrCreateSession(s) ==
    session' = [session EXCEPT ![s] = IF @ = "none" THEN "open" ELSE @]

\* Only a principal may touch a day that is over.
Locked(r) == over /\ ~ request[r].admin

EditRefused(r) ==
    /\ request[r].step = "asked"
    /\ Locked(r)
    /\ Refuses(r)
    /\ UNCHANGED <<session, over, record, pending, alerted, stale>>

\* The SELECT of mark_attendance and of submit_session, and the lock check;
\* what it saw decides which event a mark emits.
EditReads(r) ==
    /\ request[r].step = "asked"
    /\ ~ Locked(r)
    /\ request' = [request EXCEPT
           ![r].step = "write",
           ![r].sawSubmitted = request[r].op = "mark" /\ session[request[r].session] = "submitted",
           ![r].sawOver = request[r].op = "mark" /\ over]
    /\ UNCHANGED <<session, over, record, pending, alerted, stale>>

EventOf(r) ==
    IF request[r].sawOver THEN "ATTENDANCE_OVERRIDE"
    ELSE IF request[r].sawSubmitted THEN "ATTENDANCE_CORRECTED"
    ELSE "ATTENDANCE_MARKED"

\* Mutant of HANDLERS: overrides are only audited.
HANDLERSWithoutOverride == {"ATTENDANCE_SESSION_SUBMITTED", "ATTENDANCE_CORRECTED"}

\* The events registered with absent_alert.
HANDLERS == {"ATTENDANCE_SESSION_SUBMITTED", "ATTENDANCE_CORRECTED", "ATTENDANCE_OVERRIDE"}

\* emit: the event, in the transaction; an alert will read the records anew.
Emit(s, event) ==
    pending' = IF event \in HANDLERS THEN [pending EXCEPT ![s] = @ + 1] ELSE pending

\* The transaction of mark_attendance.
MarkWrites(r) ==
    LET s == request[r].session
        marked == {m.student : m \in request[r].marks}
    IN
    /\ Serves(r, "write", "mark")
    /\ record' = [record EXCEPT ![s] = [x \in Students |->
           IF x \in marked THEN (CHOOSE m \in request[r].marks : m.student = x).status
           ELSE record[s][x]]]
    /\ Emit(s, EventOf(r))
    /\ stale' = IF EventOf(r) # "ATTENDANCE_MARKED"
                THEN {p \in stale : p[1] # s}
                ELSE IF session[s] = "submitted" THEN stale \cup ({s} \X marked)
                ELSE stale
    /\ Succeeds(r)
    /\ UNCHANGED <<session, over, alerted>>

\* The transaction of submit_session.
SubmitWrites(r) ==
    LET s == request[r].session IN
    /\ Serves(r, "write", "submit")
    /\ session' = [session EXCEPT ![s] = "submitted"]
    /\ Emit(s, "ATTENDANCE_SESSION_SUBMITTED")
    /\ stale' = {p \in stale : p[1] # s}
    /\ Succeeds(r)
    /\ UNCHANGED <<over, record, alerted>>

-----------------------------------------------------------------------------
(* The worker and the calendar.                                            *)

\* absent_alert: one notification per student and session, ever.
Alert(s) ==
    /\ pending[s] > 0
    /\ alerted' = alerted \cup
           {<<s, x>> : x \in {y \in Students : session[s] = "submitted" /\ record[s][y] = "A"}}
    /\ pending' = [pending EXCEPT ![s] = @ - 1]
    /\ UNCHANGED <<session, over, record, request, stale>>

DayEnds ==
    /\ ~ over
    /\ over' = TRUE
    /\ UNCHANGED <<session, record, request, pending, alerted, stale>>

ServerStep(r) ==
    \/ Fails(r)
    \/ EditRefused(r)
    \/ EditReads(r)
    \/ SubmitWrites(r)

-----------------------------------------------------------------------------
(* Properties.                                                             *)

RequestRecord ==
    [step : {"asked", "write", "refused"},
     client : Clients, op : {"mark", "submit"}, session : Sessions, marks : MarkLists \cup {{}},
     admin : BOOLEAN, sawSubmitted : BOOLEAN, sawOver : BOOLEAN]

ServerTypeOK ==
    /\ session \in [Sessions -> {"none", "open", "submitted"}]
    /\ over \in BOOLEAN
    /\ record \in [Sessions -> [Students -> Marks \cup {"none"}]]
    /\ \A r \in Requests : request[r] = FreeSlot \/ request[r] \in RequestRecord
    /\ pending \in [Sessions -> Nat]
    /\ alerted \in SUBSET (Sessions \X Students)
    /\ stale \in SUBSET (Sessions \X Students)

\* Once the alerts of a submitted session are worked off, the parents of every
\* student recorded absent have been told, whatever corrections and overrides
\* ran between; only a mark that had read the session before it was submitted
\* and wrote after escapes.
UnalertedOnlyByStaleMark ==
    \A s \in Sessions, x \in Students :
        /\ session[s] = "submitted"
        /\ record[s][x] = "A"
        /\ pending[s] = 0
        => <<s, x>> \in alerted \cup stale
=============================================================================
