-------------------------- MODULE AttendanceProofs --------------------------
(***************************************************************************)
(* Who is recorded absent in a submitted session has been alerted, or is   *)
(* owed an alert by an event, or was marked by a request that had read the *)
(* session before it was submitted.  And the teacher's latest tap on a     *)
(* student is recorded, queued or on its way, but for the known causes.    *)
(***************************************************************************)
EXTENDS AttendanceDevice, FiniteSetTheorems, TLAPS

\* The sections' tables are functions of the sections, and of the students.
TablesInv ==
    /\ session \in [Sessions -> {"none", "open", "submitted"}]
    /\ pending \in [Sessions -> Nat]
    /\ record = [s \in Sessions |-> [x \in Students |-> record[s][x]]]

\* A request being served is for a session, the one the view shows or another.
ServedInv ==
    /\ view \in Sessions \cup {"none"}
    /\ request = [r \in Requests |-> request[r]]
    /\ \A r \in Requests : request[r].step # "free" => request[r].session \in Sessions

IInv == TablesInv /\ ServedInv /\ UnalertedOnlyByStaleMark

-----------------------------------------------------------------------------
LEMMA InitIInv == Init => IInv
  BY DEF Init, ServerInit, FreeSlot, IInv, TablesInv, ServedInv, UnalertedOnlyByStaleMark

(* Steps of the requests.                                                  *)

LEMMA AskKeepsServed ==
    ASSUME IInv, NEW r \in Requests, NEW client, NEW op, NEW s \in Sessions, NEW marks, NEW admin,
           Ask(r, client, op, s, marks, admin)
    PROVE  /\ request' = [q \in Requests |-> request'[q]]
           /\ \A q \in Requests : request'[q].step # "free" => request'[q].session \in Sessions
  BY DEF IInv, ServedInv, Ask, NewRequest

LEMMA FlushKeepsServed ==
    ASSUME IInv, NEW s, NEW start, start => s \in Sessions, FlushQueue(s, start)
    PROVE  /\ request' = [q \in Requests |-> request'[q]]
           /\ \A q \in Requests : request'[q].step # "free" => request'[q].session \in Sessions
<1>1. CASE UNCHANGED request
  BY <1>1 DEF IInv, ServedInv
<1>2. CASE s \in Sessions /\ \E r \in Requests : Ask(r, "flush", "mark", s, Merged, FALSE)
  BY <1>2, AskKeepsServed
<1> QED BY <1>1, <1>2 DEF FlushQueue

LEMMA AnswerKeepsServed ==
    ASSUME IInv, NEW r \in Requests, request[r].step # "free", Succeeds(r) \/ Refuses(r)
    PROVE  /\ request' = [q \in Requests |-> request'[q]]
           /\ \A q \in Requests : request'[q].step # "free" => request'[q].session \in Sessions
<1>1. CASE Succeeds(r) \/ (Refuses(r) /\ request[r].client = "nobody")
  BY <1>1 DEF IInv, ServedInv, Succeeds, Refuses, FreeSlot
<1>2. CASE Refuses(r) /\ request[r].client # "nobody"
  <2> DEFINE refused == [request[r] EXCEPT !.step = "refused", !.sawSubmitted = FALSE, !.sawOver = FALSE]
  <2>1. request' = [request EXCEPT ![r] = refused]
    BY <1>2 DEF Refuses
  <2>2. refused.session = request[r].session
    OBVIOUS
  <2>3. request'[r].session \in Sessions
    BY <2>1, <2>2 DEF IInv, ServedInv
  <2> HIDE DEF refused
  <2> QED BY <2>1, <2>3 DEF IInv, ServedInv
<1> QED BY <1>1, <1>2

LEMMA OrphanedKeepsServed ==
    ASSUME IInv, NEW rs, Orphaned(rs)
    PROVE  /\ request' = [q \in Requests |-> request'[q]]
           /\ \A q \in Requests : request'[q].step # "free" => request'[q].session \in Sessions
<1>1. ASSUME NEW q \in Requests, request'[q].step # "free" PROVE request'[q].session \in Sessions
  <2>1. CASE q \notin rs
    BY <1>1, <2>1 DEF Orphaned, IInv, ServedInv
  <2>2. CASE q \in rs /\ request[q].step = "refused"
    BY <1>1, <2>2 DEF Orphaned, FreeSlot
  <2>3. CASE q \in rs /\ request[q].step # "refused"
    <3>1. request'[q] = [request[q] EXCEPT !.client = "nobody"]
      BY <2>3 DEF Orphaned
    <3>2. request'[q].step = request[q].step /\ request'[q].session = request[q].session
      BY <3>1
    <3> QED BY <1>1, <3>2 DEF IInv, ServedInv
  <2> QED BY <2>1, <2>2, <2>3
<1>2. request' = [q \in Requests |-> request'[q]]
  BY DEF Orphaned
<1> QED BY <1>1, <1>2

-----------------------------------------------------------------------------
(* Steps of the data.                                                      *)

\* A mark that emits an event for absent_alert leaves an alert pending; one
\* that does not is recorded as stale, or finds the session open.
LEMMA MarkKeepsData ==
    ASSUME IInv, NEW r \in Requests, MarkWrites(r)
    PROVE  TablesInv' /\ UnalertedOnlyByStaleMark'
<1> DEFINE s == request[r].session
           marked == {m.student : m \in request[r].marks}
<1>1. s \in Sessions
  BY DEF MarkWrites, Serves, IInv, ServedInv
<1>2. TablesInv'
  <2>1. session' = session /\ pending' \in [Sessions -> Nat]
    BY <1>1 DEF MarkWrites, Emit, IInv, TablesInv
  <2> DEFINE new == [x \in Students |->
                       IF x \in marked THEN (CHOOSE m \in request[r].marks : m.student = x).status
                       ELSE record[s][x]]
  <2>2. record' = [record EXCEPT ![s] = new]
    BY DEF MarkWrites
  <2>3. new = [x \in Students |-> new[x]]
    OBVIOUS
  <2>4. record' = [t \in Sessions |-> [x \in Students |-> record'[t][x]]]
    <3> HIDE DEF s, new
    <3> QED BY <2>2, <2>3 DEF IInv, TablesInv
  <2> QED BY <2>1, <2>4 DEF IInv, TablesInv
<1>3. ASSUME NEW t \in Sessions, NEW x \in Students,
             session'[t] = "submitted", record'[t][x] = "A", pending'[t] = 0
      PROVE  <<t, x>> \in alerted' \cup stale'
  <2>1. /\ session' = session /\ alerted' = alerted
        /\ pending[t] = 0
    BY <1>1, <1>3 DEF MarkWrites, Emit, IInv, TablesInv
  <2>2. CASE t # s
    <3>1. record'[t] = record[t]
      BY <1>1, <2>2 DEF MarkWrites, IInv, TablesInv
    <3>2. <<t, x>> \in stale => <<t, x>> \in stale'
      BY <2>2 DEF MarkWrites
    <3> QED BY <1>3, <2>1, <3>1, <3>2 DEF IInv, UnalertedOnlyByStaleMark
  <2>3. CASE t = s
    <3>1. EventOf(r) \notin HANDLERS
      BY <1>1, <1>3, <2>3 DEF MarkWrites, Emit, IInv, TablesInv
    <3>2. EventOf(r) = "ATTENDANCE_MARKED"
      BY <3>1 DEF EventOf, HANDLERS
    <3>3. stale' = stale \cup ({s} \X marked)
      BY <1>3, <2>1, <2>3, <3>2 DEF MarkWrites
    <3>4. CASE x \in marked
      BY <2>3, <3>3, <3>4
    <3>5. CASE x \notin marked
      <4>1. record'[t][x] = record[t][x]
        BY <1>1, <2>3, <3>5 DEF MarkWrites, IInv, TablesInv
      <4> QED BY <1>3, <2>1, <3>3, <4>1 DEF IInv, UnalertedOnlyByStaleMark
    <3> QED BY <3>4, <3>5
  <2> QED BY <2>2, <2>3
<1> QED BY <1>2, <1>3 DEF UnalertedOnlyByStaleMark

LEMMA SubmitKeepsData ==
    ASSUME IInv, NEW r \in Requests, SubmitWrites(r)
    PROVE  TablesInv' /\ UnalertedOnlyByStaleMark'
<1> DEFINE s == request[r].session
<1>1. s \in Sessions
  BY DEF SubmitWrites, Serves, IInv, ServedInv
<1>2. /\ session' = [session EXCEPT ![s] = "submitted"]
      /\ pending' = [pending EXCEPT ![s] = @ + 1]
      /\ stale' = {p \in stale : p[1] # s}
      /\ UNCHANGED <<record, alerted>>
  BY DEF SubmitWrites, Emit, HANDLERS
<1>3. TablesInv'
  BY <1>1, <1>2 DEF IInv, TablesInv
<1>4. ASSUME NEW t \in Sessions, NEW x \in Students,
             session'[t] = "submitted", record'[t][x] = "A", pending'[t] = 0
      PROVE  <<t, x>> \in alerted' \cup stale'
  <2>1. t # s
    BY <1>1, <1>2, <1>4 DEF IInv, TablesInv
  <2>2. session[t] = "submitted" /\ pending[t] = 0
    BY <1>2, <1>4, <2>1 DEF IInv, TablesInv
  <2> QED BY <1>2, <1>4, <2>1, <2>2 DEF IInv, UnalertedOnlyByStaleMark
<1> QED BY <1>3, <1>4 DEF UnalertedOnlyByStaleMark

\* absent_alert reads the records anew, so it tells of everybody now absent.
LEMMA AlertKeepsData ==
    ASSUME IInv, NEW s \in Sessions, Alert(s)
    PROVE  TablesInv' /\ UnalertedOnlyByStaleMark'
<1>1. TablesInv'
  BY DEF Alert, IInv, TablesInv
<1>2. ASSUME NEW t \in Sessions, NEW x \in Students,
             session'[t] = "submitted", record'[t][x] = "A", pending'[t] = 0
      PROVE  <<t, x>> \in alerted' \cup stale'
  <2>1. CASE t = s
    BY <1>2, <2>1 DEF Alert
  <2>2. CASE t # s
    <3>1. pending[t] = 0
      BY <1>2, <2>2 DEF Alert, IInv, TablesInv
    <3> QED BY <1>2, <3>1 DEF Alert, IInv, UnalertedOnlyByStaleMark
  <2> QED BY <2>1, <2>2
<1> QED BY <1>1, <1>2 DEF UnalertedOnlyByStaleMark

LEMMA OpenKeepsData ==
    ASSUME IInv, NEW s \in Sessions, GetOrCreateSession(s),
           UNCHANGED <<record, pending, alerted, stale>>
    PROVE  TablesInv' /\ UnalertedOnlyByStaleMark'
<1>1. \A t \in Sessions : session'[t] = "submitted" => session[t] = "submitted"
  BY DEF GetOrCreateSession, IInv, TablesInv
<1>2. TablesInv'
  BY DEF GetOrCreateSession, IInv, TablesInv
<1> QED BY <1>1, <1>2 DEF IInv, UnalertedOnlyByStaleMark

LEMMA SameDataKeepsData ==
    ASSUME IInv, UNCHANGED <<session, record, pending, alerted, stale>>
    PROVE  TablesInv' /\ UnalertedOnlyByStaleMark'
  BY DEF IInv, TablesInv, UnalertedOnlyByStaleMark

-----------------------------------------------------------------------------
LEMMA DeviceKeepsIInv == IInv /\ Device => IInv'
<1> SUFFICES ASSUME IInv, Device PROVE IInv'
  OBVIOUS
<1>1. ASSUME NEW s \in Sessions, OpenSession(s) PROVE IInv'
  <2>1. TablesInv' /\ UnalertedOnlyByStaleMark'
    BY <1>1, OpenKeepsData DEF OpenSession
  <2>2. ServedInv'
    BY <1>1, FlushKeepsServed DEF OpenSession, ServedInv
  <2> QED BY <2>1, <2>2 DEF IInv
<1>2. CASE SelectAnother \/ GoesOffline
  BY <1>2, SameDataKeepsData DEF SelectAnother, GoesOffline, serverVars, IInv, ServedInv
<1>3. ASSUME NEW marks, NEW client, Send(marks, client) PROVE IInv'
  <2>1. view \in Sessions
    BY <1>3 DEF Send, Tap, IInv, ServedInv
  <2>2. ServedInv'
    BY <1>3, <2>1, AskKeepsServed DEF Send, IInv, ServedInv
  <2> QED BY <1>3, <2>2, SameDataKeepsData DEF Send, SameData, IInv
<1>4. ASSUME NEW marks, Store(marks) PROVE IInv'
  BY <1>4, SameDataKeepsData DEF Store, serverVars, IInv, ServedInv
<1>5. CASE HandleSubmit
  <2>1. view \in Sessions
    BY <1>5 DEF HandleSubmit, IInv, ServedInv
  <2>2. ServedInv'
    BY <1>5, <2>1, AskKeepsServed DEF HandleSubmit, IInv, ServedInv
  <2> QED BY <1>5, <2>2, SameDataKeepsData DEF HandleSubmit, SameData, IInv
<1>6. CASE CloseTab
  <2>1. ServedInv'
    BY <1>6, OrphanedKeepsServed DEF CloseTab, ServedInv
  <2> QED BY <1>6, <2>1, SameDataKeepsData DEF CloseTab, SameData, IInv
<1>7. ASSUME NEW r \in Requests, GivesUp(r) PROVE IInv'
  <2>1. ServedInv'
    BY <1>7, OrphanedKeepsServed DEF GivesUp, IInv, ServedInv
  <2> QED BY <1>7, <2>1, SameDataKeepsData DEF GivesUp, SameData, IInv
<1>8. CASE ComesOnline
  <2>1. view # "none" => view \in Sessions
    BY DEF IInv, ServedInv
  <2>2. ServedInv'
    BY <1>8, <2>1, FlushKeepsServed DEF ComesOnline, IInv, ServedInv
  <2> QED BY <1>8, <2>2, SameDataKeepsData DEF ComesOnline, SameData, IInv
<1> QED BY <1>1, <1>2, <1>3, <1>4, <1>5, <1>6, <1>7, <1>8 DEF Device, HandleMark, MarkAllPresent

LEMMA ServeKeepsIInv ==
    ASSUME IInv, NEW r \in Requests, Serve(r)
    PROVE  IInv'
<1>1. view' = view
  BY DEF Serve
<1>2. CASE Fails(r) \/ EditRefused(r)
  <2>1. ServedInv'
    BY <1>1, <1>2, AnswerKeepsServed DEF Fails, EditRefused, IInv, ServedInv
  <2> QED BY <1>2, <2>1, SameDataKeepsData DEF Fails, EditRefused, IInv
<1>3. CASE EditReads(r)
  <2>1. ServedInv'
    <3> DEFINE seen == [request[r] EXCEPT
                 !.step = "write",
                 !.sawSubmitted = request[r].op = "mark" /\ session[request[r].session] = "submitted",
                 !.sawOver = request[r].op = "mark" /\ over]
    <3>1. request[r].step # "free" /\ request' = [request EXCEPT ![r] = seen]
      BY <1>3 DEF EditReads, IInv, ServedInv
    <3>2. seen.session = request[r].session
      OBVIOUS
    <3>3. request'[r].session \in Sessions
      BY <3>1, <3>2 DEF IInv, ServedInv
    <3> HIDE DEF seen
    <3> QED BY <1>1, <3>1, <3>3 DEF IInv, ServedInv
  <2> QED BY <1>3, <2>1, SameDataKeepsData DEF EditReads, IInv
<1>4. CASE SubmitWrites(r)
  <2>1. ServedInv'
    BY <1>1, <1>4, AnswerKeepsServed DEF SubmitWrites, Serves, IInv, ServedInv
  <2> QED BY <1>4, <2>1, SubmitKeepsData DEF IInv
<1>5. CASE MarkWrites(r)
  <2>1. ServedInv'
    BY <1>1, <1>5, AnswerKeepsServed DEF MarkWrites, Serves, IInv, ServedInv
  <2> QED BY <1>5, <2>1, MarkKeepsData DEF IInv
<1> QED BY <1>2, <1>3, <1>4, <1>5 DEF Serve, ServerStep

LEMMA StepKeepsIInv == IInv /\ [Next]_vars => IInv'
<1> SUFFICES ASSUME IInv, [Next]_vars PROVE IInv'
  OBVIOUS
<1>1. ASSUME NEW r \in Requests, NEW op, NEW s \in Sessions, NEW m, OfficeAsks(r, op, s, m) PROVE IInv'
  <2>1. ServedInv'
    BY <1>1, AskKeepsServed DEF OfficeAsks, IInv, ServedInv
  <2> QED BY <1>1, <2>1, SameDataKeepsData DEF OfficeAsks, SameData, IInv
<1>2. CASE (DayEnds \/ \E s \in Sessions : Alert(s)) /\ UNCHANGED deviceVars
  <2>1. ServedInv'
    BY <1>2 DEF DayEnds, Alert, deviceVars, IInv, ServedInv
  <2> QED BY <1>2, <2>1, AlertKeepsData, SameDataKeepsData DEF DayEnds, IInv
<1>3. CASE UNCHANGED vars
  BY <1>3, SameDataKeepsData DEF vars, serverVars, deviceVars, IInv, ServedInv
<1> QED BY <1>1, <1>2, <1>3, DeviceKeepsIInv, ServeKeepsIInv DEF Next

\* Once the alerts of a submitted session are worked off, the parents of all
\* who are recorded absent have been told, but for marks written by a request
\* that had read the session before it was submitted (mark_attendance,
\* submit_session, absent_alert).
THEOREM AbsentAreAlerted == Spec => []UnalertedOnlyByStaleMark
<1>1. IInv => UnalertedOnlyByStaleMark
  BY DEF IInv
<1> QED BY <1>1, InitIInv, StepKeepsIInv, PTL DEF Spec

-----------------------------------------------------------------------------
(* The queue of the teacher's device.                                      *)

\* The items of a sequence.
ItemsIn(q) == {q[i] : i \in DOMAIN q}

\* What is stored is appended item by item, and nothing else.
LEMMA SetToSeqItems ==
    ASSUME NEW S, IsFiniteSet(S)
    PROVE  SetToSeq(S) \in Seq(S) /\ ItemsIn(SetToSeq(S)) = S
<1> DEFINE n == Cardinality(S)
           f == SetToSeq(S)
<1>1. n \in Nat /\ ExistsBijection(1 .. n, S)
  BY FS_CardinalityType
<1>2. \E g \in [1 .. n -> S] : IsInjective(g)
  BY <1>1 DEF ExistsBijection, Bijection, Injection
<1>3. f \in [1 .. n -> S] /\ IsInjective(f)
  BY <1>2 DEF SetToSeq
<1> HIDE DEF f
<1>4. ItemsIn(f) \in SUBSET S /\ f \in Injection(1 .. n, ItemsIn(f)) /\ f \in Surjection(1 .. n, ItemsIn(f))
  BY <1>3 DEF ItemsIn, Injection, Surjection
<1>5. IsFiniteSet(1 .. n) /\ Cardinality(1 .. n) = n
  BY <1>1, FS_Interval
<1>6. Cardinality(ItemsIn(f)) = n
  BY <1>4, <1>5, FS_Bijection DEF ExistsBijection, Bijection
<1>7. ItemsIn(f) = S
  BY <1>4, <1>6, FS_Subset
<1>8. f \in Seq(S)
  BY <1>1, <1>3
<1> QED BY <1>7, <1>8 DEF f

LEMMA AppendedItems ==
    ASSUME NEW q, q \in Seq(ItemsIn(q)), NEW S, NEW t \in Seq(S), ItemsIn(t) = S
    PROVE  /\ q \o t \in Seq(ItemsIn(q \o t))
           /\ ItemsIn(q \o t) = ItemsIn(q) \cup S
<1> DEFINE X == ItemsIn(q) \cup S
<1>1. q \in Seq(X) /\ t \in Seq(X)
  OBVIOUS
<1>2. /\ q \o t \in Seq(X) /\ Len(q \o t) = Len(q) + Len(t)
      /\ \A i \in 1 .. Len(q) + Len(t) : (q \o t)[i] = IF i <= Len(q) THEN q[i] ELSE t[i - Len(q)]
  BY <1>1
<1>3. ASSUME NEW i \in 1 .. Len(q) PROVE q[i] \in ItemsIn(q \o t)
  <2>1. i \in DOMAIN (q \o t) /\ (q \o t)[i] = q[i]
    BY <1>2
  <2> QED BY <2>1 DEF ItemsIn
<1>4. ASSUME NEW i \in 1 .. Len(t) PROVE t[i] \in ItemsIn(q \o t)
  <2>1. Len(q) + i \in DOMAIN (q \o t) /\ (q \o t)[Len(q) + i] = t[i]
    BY <1>2
  <2> QED BY <2>1 DEF ItemsIn
<1>5. ItemsIn(q \o t) \subseteq X
  BY <1>2 DEF ItemsIn
<1>6. X \subseteq ItemsIn(q \o t)
  <2>1. ASSUME NEW x \in ItemsIn(q) PROVE x \in ItemsIn(q \o t)
    <3>1. PICK i \in 1 .. Len(q) : x = q[i]
      BY DEF ItemsIn
    <3> QED BY <1>3, <3>1
  <2>2. ASSUME NEW x \in ItemsIn(t) PROVE x \in ItemsIn(q \o t)
    <3>1. PICK i \in 1 .. Len(t) : x = t[i]
      BY DEF ItemsIn
    <3> QED BY <1>4, <3>1
  <2> QED BY <2>1, <2>2
<1> HIDE DEF X
<1>7. ItemsIn(q \o t) = X
  BY <1>5, <1>6
<1> QED BY <1>2, <1>7 DEF X

\* The queue is a list of items; a tap in flight is a list of marks the queue
\* can take, and a submission carries none.
ListsInv ==
    \A r \in Requests : request[r].step # "free" =>
        /\ {"step", "client"} \subseteq DOMAIN request[r]
        /\ request[r].client = "tap" => IsFiniteSet(request[r].marks)
        /\ request[r].op = "submit" => request[r].marks = {}

KeptInv ==
    /\ queue \in Seq(Queued)
    /\ owed = [s \in Sessions |-> owed[s]]
    /\ ListsInv
    /\ TapsAreKept

\* An item is on its way to its session, for the view to hear of.
OnItsWay(item) == \E r \in Mine : item \in InFlight(r)

LEMMA QueuedItems == Queued = ItemsIn(queue)
  BY DEF Queued, ItemsIn

LEMMA ImageIsFinite ==
    ASSUME NEW S, IsFiniteSet(S), NEW f, DOMAIN f = S
    PROVE  IsFiniteSet({f[x] : x \in S})
<1> DEFINE T == {f[x] : x \in S}
           g == [x \in S |-> f[x]]
<1>1. g \in Surjection(S, T)
  BY DEF Surjection
<1> QED BY <1>1, FS_Surjection

LEMMA ItemsAreFinite ==
    ASSUME NEW marks, IsFiniteSet(marks), NEW s
    PROVE  IsFiniteSet(Items(s, marks))
<1> DEFINE f == [m \in marks |-> Item(s, m.student, m.status)]
<1>1. Items(s, marks) = {f[m] : m \in marks}
  BY DEF Items
<1>2. DOMAIN f = marks
  OBVIOUS
<1> HIDE DEF f
<1> QED BY <1>1, <1>2, ImageIsFinite

LEMMA AllPresentIsFinite == IsFiniteSet([student : Students, status : {"P"}])
<1> DEFINE f == [x \in Students |-> [student |-> x, status |-> "P"]]
           T == [student : Students, status : {"P"}]
<1>1. DOMAIN f = Students /\ \A x \in Students : f[x] \in T
  OBVIOUS
<1>2. ASSUME NEW m \in T PROVE m.student \in Students /\ m = f[m.student]
  OBVIOUS
<1> HIDE DEF f, T
<1>3. T = {f[x] : x \in Students}
  BY <1>1, <1>2
<1>4. IsFiniteSet(T)
  BY <1>1, <1>3, ImageIsFinite, StudentsAssumption
<1> QED BY <1>4 DEF T

\* What is stored is queued, and what was queued stays.
LEMMA EnqueueQueues ==
    ASSUME KeptInv, NEW items, IsFiniteSet(items), Enqueue(items)
    PROVE  queue' \in Seq(Queued') /\ Queued' = Queued \cup items
<1>1. SetToSeq(items) \in Seq(items) /\ ItemsIn(SetToSeq(items)) = items
  BY SetToSeqItems
<1>2. queue \in Seq(ItemsIn(queue))
  BY QueuedItems DEF KeptInv
<1>3. queue' = queue \o SetToSeq(items)
  BY DEF Enqueue
<1>4. queue' \in Seq(ItemsIn(queue')) /\ ItemsIn(queue') = ItemsIn(queue) \cup items
  BY <1>1, <1>2, <1>3, AppendedItems
<1>5. Queued' = ItemsIn(queue')
  BY DEF Queued, ItemsIn
<1> QED BY <1>4, <1>5, QueuedItems

\* A request for what is owed is on its way; the others' stay on theirs.
LEMMA AskedIsOnItsWay ==
    ASSUME ServedInv, NEW r \in Requests, NEW client, NEW op, NEW s, NEW marks, NEW admin,
           Ask(r, client, op, s, marks, admin)
    PROVE  /\ \A item : OnItsWay(item) => OnItsWay(item)'
           /\ client \in Clients \ {"nobody"} => \A item \in Items(s, marks) : OnItsWay(item)'
           /\ {"step", "client"} \subseteq DOMAIN request'[r]
           /\ request'[r].client = client /\ request'[r].op = op /\ request'[r].marks = marks
           /\ \A q \in Requests : q # r => request'[q] = request[q]
<1> DEFINE new == NewRequest(client, op, s, marks, admin)
<1>1. request[r].step = "free" /\ request' = [request EXCEPT ![r] = new]
  BY DEF Ask, NextSlot
<1>2. /\ {"step", "client"} \subseteq DOMAIN new /\ new.step = "asked" /\ new.client = client /\ new.op = op /\ new.marks = marks
      /\ new.session = s
  BY DEF NewRequest
<1> HIDE DEF new
<1>3. request'[r] = new /\ \A q \in Requests : q # r => request'[q] = request[q]
  BY <1>1 DEF ServedInv
<1>4. ASSUME NEW q \in Requests, q # r
      PROVE  (q \in Mine)' = (q \in Mine) /\ InFlight(q)' = InFlight(q)
  BY <1>3, <1>4 DEF Mine, Waits, InFlight
<1>5. r \notin Mine
  BY <1>1 DEF Mine, Waits
<1>6. Mine \subseteq Requests
  BY DEF Mine
<1>7. \A item : OnItsWay(item) => OnItsWay(item)'
  BY <1>4, <1>5, <1>6 DEF OnItsWay
<1>8. ASSUME client \in Clients \ {"nobody"} PROVE (r \in Mine)' /\ InFlight(r)' = Items(s, marks)
  BY <1>2, <1>3, <1>8 DEF Mine, Waits, InFlight
<1> QED BY <1>2, <1>3, <1>7, <1>8 DEF OnItsWay

\* The taps that are owed, as items.
Owed == {Item(p[1], p[2], owed[p[1]][p[2]]) : p \in {q \in Sessions \X Students : owed[q[1]][q[2]] # "none"}}

OwedAreKept == \A item \in Owed : item \in Queued \/ OnItsWay(item)

LEMMA KeptMeans == TapsAreKept <=> OwedAreKept
<1>1. ASSUME NEW s \in Sessions, NEW x \in Students, owed[s][x] # "none" PROVE Item(s, x, owed[s][x]) \in Owed
  <2>1. <<s, x>> \in {q \in Sessions \X Students : owed[q[1]][q[2]] # "none"}
    BY <1>1
  <2> QED BY <2>1 DEF Owed
<1>2. ASSUME NEW item \in Owed
      PROVE  \E s \in Sessions, x \in Students : owed[s][x] # "none" /\ item = Item(s, x, owed[s][x])
  BY DEF Owed
<1> QED BY <1>1, <1>2 DEF TapsAreKept, OwedAreKept, OnItsWay

LEMMA DischargedOwed ==
    ASSUME NEW items, Discharged(items)
    PROVE  Owed' \subseteq Owed \ items /\ owed' = [s \in Sessions |-> owed'[s]]
<1>1. ASSUME NEW item \in Owed' PROVE item \in Owed /\ item \notin items
  <2>1. PICK s \in Sessions, x \in Students : owed'[s][x] # "none" /\ item = Item(s, x, owed'[s][x])
    BY DEF Owed
  <2>2. owed'[s][x] = IF Item(s, x, owed[s][x]) \in items THEN "none" ELSE owed[s][x]
    BY DEF Discharged
  <2>3. owed'[s][x] = owed[s][x] /\ item \notin items
    BY <2>1, <2>2
  <2>4. <<s, x>> \in {q \in Sessions \X Students : owed[q[1]][q[2]] # "none"}
    BY <2>1, <2>3
  <2> QED BY <2>1, <2>3, <2>4 DEF Owed
<1> QED BY <1>1 DEF Discharged

LEMMA TappedOwed ==
    ASSUME KeptInv, ServedInv, NEW marks, Tap(marks)
    PROVE  Owed' \subseteq Owed \cup Items(view, marks) /\ owed' = [s \in Sessions |-> owed'[s]]
<1>0. view \in Sessions
  BY DEF Tap, ServedInv
<1>1. ASSUME NEW item \in Owed' PROVE item \in Owed \cup Items(view, marks)
  <2>1. PICK s \in Sessions, x \in Students : owed'[s][x] # "none" /\ item = Item(s, x, owed'[s][x])
    BY DEF Owed
  <2>2. CASE s = view /\ \E m \in marks : m.student = x
    <3>1. PICK m : m = CHOOSE y \in marks : y.student = x
      OBVIOUS
    <3>2. m \in marks /\ m.student = x
      BY <2>2, <3>1
    <3>3. owed'[s][x] = m.status
      BY <1>0, <2>2, <3>1 DEF Tap, KeptInv
    <3> QED BY <2>1, <2>2, <3>2, <3>3 DEF Items
  <2>3. CASE ~(s = view /\ \E m \in marks : m.student = x)
    <3>1. owed'[s][x] = owed[s][x]
      BY <1>0, <2>3 DEF Tap, KeptInv
    <3>2. <<s, x>> \in {q \in Sessions \X Students : owed[q[1]][q[2]] # "none"}
      BY <2>1, <3>1
    <3> QED BY <2>1, <3>1, <3>2 DEF Owed
  <2> QED BY <2>2, <2>3
<1>2. owed' = [s \in Sessions |-> owed'[s]]
  BY DEF Tap, KeptInv
<1> QED BY <1>1, <1>2

LEMMA KeptNext ==
    ASSUME \A item \in Owed' : item \in Queued' \/ OnItsWay(item)'
    PROVE  TapsAreKept'
<1>1. OwedAreKept'
  BY DEF OwedAreKept
<1> QED BY <1>1, KeptMeans, PTL

\* A request that is asked carries what the queue can take.
LEMMA AskedKeepsLists ==
    ASSUME KeptInv, ServedInv, NEW r \in Requests, NEW client, NEW op, NEW s, NEW marks, NEW admin,
           Ask(r, client, op, s, marks, admin),
           client = "tap" => IsFiniteSet(marks), op = "submit" => marks = {}
    PROVE  ListsInv'
  BY AskedIsOnItsWay DEF KeptInv, ListsInv

\* A flush sends what it does not misdirect.
LEMMA FlushKeeps ==
    ASSUME KeptInv, ServedInv, NEW s, NEW start, FlushQueue(s, start)
    PROVE  KeptInv'
<1>1. CASE UNCHANGED <<request, queue, owed>>
  BY <1>1 DEF KeptInv, ListsInv, Queued, TapsAreKept, Mine, Waits, InFlight
<1>2. CASE /\ \E r \in Requests : Ask(r, "flush", "mark", s, Merged, FALSE)
           /\ queue' = <<>>
           /\ Discharged(Misdirected(s))
  <2>0. PICK m : m = Merged
    OBVIOUS
  <2>1. PICK r \in Requests : Ask(r, "flush", "mark", s, m, FALSE)
    BY <1>2, <2>0
  <2>2. queue' \in Seq(Queued')
    BY <1>2 DEF Queued
  <2>3. /\ \A item : OnItsWay(item) => OnItsWay(item)'
        /\ \A item \in Items(s, m) : OnItsWay(item)'
    <3>1. "flush" \in Clients \ {"nobody"}
      BY DEF Clients
    <3> QED BY <2>1, <3>1, AskedIsOnItsWay
  <2>4. PICK gone : gone = Misdirected(s)
    OBVIOUS
  <2>5. Owed' \subseteq Owed \ gone /\ owed' = [x \in Sessions |-> owed'[x]]
    BY <1>2, <2>4, DischargedOwed
  <2>6. ASSUME NEW item \in Owed' PROVE OnItsWay(item)'
    <3>1. item \in Owed /\ item \notin Misdirected(s)
      BY <2>4, <2>5
    <3>2. CASE item \in Queued
      <4>1. item.session = s /\ [student |-> item.student, status |-> item.status] \in m
        BY <2>0, <3>1, <3>2 DEF Misdirected
      <4>2. PICK i \in Sessions, x \in Students : item = Item(i, x, owed[i][x])
        BY <3>1 DEF Owed
      <4> DEFINE mark == [student |-> item.student, status |-> item.status]
      <4>3. item = Item(s, mark.student, mark.status)
        BY <4>1, <4>2 DEF Item
      <4>5. mark \in m
        BY <4>1
      <4> HIDE DEF mark
      <4>4. item \in Items(s, m)
        BY <4>3, <4>5 DEF Items
      <4> QED BY <2>3, <4>4
    <3>3. CASE item \notin Queued
      <4>1. OnItsWay(item)
        BY <3>1, <3>3, KeptMeans DEF KeptInv, OwedAreKept
      <4> QED BY <2>3, <4>1
    <3> QED BY <3>2, <3>3
  <2>7. TapsAreKept'
    BY <2>6, KeptNext
  <2>8. ListsInv'
    <3>1. "flush" # "tap" /\ "mark" # "submit"
      OBVIOUS
    <3> QED BY <2>1, <3>1, AskedKeepsLists
  <2> QED BY <2>2, <2>5, <2>7, <2>8 DEF KeptInv
<1> QED BY <1>1, <1>2 DEF FlushQueue

\* What is sent at once is on its way.
LEMMA SendKeeps ==
    ASSUME KeptInv, ServedInv, NEW marks, IsFiniteSet(marks), NEW client \in {"tap", "all"},
           Send(marks, client)
    PROVE  KeptInv'
<1>0. PICK s : s = view
  OBVIOUS
<1>1. PICK r \in Requests : Ask(r, client, "mark", s, marks, FALSE)
  BY <1>0 DEF Send
<1>2. /\ \A item : OnItsWay(item) => OnItsWay(item)'
      /\ \A item \in Items(s, marks) : OnItsWay(item)'
  <2>1. client \in Clients \ {"nobody"}
    BY DEF Clients
  <2> QED BY <1>1, <2>1, AskedIsOnItsWay
<1>3. Owed' \subseteq Owed \cup Items(s, marks) /\ owed' = [x \in Sessions |-> owed'[x]]
  BY <1>0, TappedOwed DEF Send
<1>4. queue' = queue /\ Queued' = Queued
  BY DEF Send, Queued
<1>5. TapsAreKept'
  BY <1>2, <1>3, <1>4, KeptMeans, KeptNext DEF KeptInv, OwedAreKept
<1>6. ListsInv'
  BY <1>1, AskedKeepsLists
<1> QED BY <1>3, <1>4, <1>5, <1>6 DEF KeptInv

\* What is not sent is queued.
LEMMA StoreKeeps ==
    ASSUME KeptInv, ServedInv, NEW marks, IsFiniteSet(marks), Store(marks)
    PROVE  KeptInv'
<1>0. PICK s : s = view
  OBVIOUS
<1>1. queue' \in Seq(Queued') /\ Queued' = Queued \cup Items(s, marks)
  BY <1>0, ItemsAreFinite, EnqueueQueues DEF Store
<1>2. Owed' \subseteq Owed \cup Items(s, marks) /\ owed' = [x \in Sessions |-> owed'[x]]
  BY <1>0, TappedOwed DEF Store
<1>3. request' = request
  BY DEF Store, serverVars
<1>4. \A item : OnItsWay(item) => OnItsWay(item)'
  BY <1>3 DEF OnItsWay, Mine, Waits, InFlight
<1>5. TapsAreKept'
  BY <1>1, <1>2, <1>4, KeptMeans, KeptNext DEF KeptInv, OwedAreKept
<1>6. ListsInv'
  BY <1>3 DEF KeptInv, ListsInv
<1> QED BY <1>1, <1>2, <1>5, <1>6 DEF KeptInv

\* A request that only asks leaves what is owed where it is.
LEMMA AskKeeps ==
    ASSUME KeptInv, ServedInv, NEW r \in Requests, NEW client, client # "tap", NEW op, NEW s, NEW marks, NEW admin,
           Ask(r, client, op, s, marks, admin), op = "submit" => marks = {},
           UNCHANGED <<queue, owed>>
    PROVE  KeptInv'
<1>1. \A item : OnItsWay(item) => OnItsWay(item)'
  BY AskedIsOnItsWay
<1>2. Queued' = Queued /\ Owed' = Owed
  BY DEF Queued, Owed
<1>3. TapsAreKept'
  BY <1>1, <1>2, KeptMeans, KeptNext DEF KeptInv, OwedAreKept
<1>4. ListsInv'
  BY AskedKeepsLists
<1> QED BY <1>2, <1>3, <1>4 DEF KeptInv

\* An item that stays away from the requests that are orphaned stays on its way.
LEMMA OrphanedKeeps ==
    ASSUME KeptInv, ServedInv, NEW rs, Orphaned(rs)
    PROVE  /\ \A item : (\E q \in Mine \ rs : item \in InFlight(q)) => OnItsWay(item)'
           /\ ListsInv'
<1>1. ASSUME NEW item, NEW q \in Mine \ rs, item \in InFlight(q) PROVE OnItsWay(item)'
  <2>1. q \in Requests /\ request'[q] = request[q]
    BY DEF Mine, Orphaned
  <2>2. (q \in Mine)' /\ InFlight(q)' = InFlight(q)
    BY <2>1 DEF Mine, Waits, InFlight
  <2> QED BY <1>1, <2>2 DEF OnItsWay
<1>2. ASSUME NEW q \in Requests, request'[q].step # "free"
      PROVE  /\ {"step", "client"} \subseteq DOMAIN request'[q]
             /\ request'[q].client = "tap" => IsFiniteSet(request'[q].marks)
             /\ request'[q].op = "submit" => request'[q].marks = {}
  <2>1. CASE q \notin rs
    <3>1. request'[q] = request[q]
      BY <2>1 DEF Orphaned
    <3> QED BY <1>2, <3>1 DEF KeptInv, ListsInv
  <2>2. CASE q \in rs /\ request[q].step = "refused"
    BY <1>2, <2>2 DEF Orphaned, FreeSlot
  <2>3. CASE q \in rs /\ request[q].step # "refused"
    <3>1. request'[q] = [request[q] EXCEPT !.client = "nobody"]
      BY <2>3 DEF Orphaned
    <3>2. request'[q].step = request[q].step /\ request'[q].op = request[q].op /\ request'[q].marks = request[q].marks
      BY <3>1
    <3>3. {"step", "client"} \subseteq DOMAIN request'[q] /\ request'[q].client = "nobody"
      <4>1. {"step", "client"} \subseteq DOMAIN request[q]
        BY <1>2, <3>2 DEF KeptInv, ListsInv
      <4> QED BY <3>1, <4>1
    <3> QED BY <1>2, <3>2, <3>3 DEF KeptInv, ListsInv
  <2> QED BY <2>1, <2>2, <2>3
<1>3. ListsInv'
  BY <1>2 DEF ListsInv
<1> QED BY <1>1, <1>3

LEMMA CloseTabKeeps ==
    ASSUME KeptInv, ServedInv, CloseTab
    PROVE  KeptInv'
<1>0. PICK gone : gone = UNION {InFlight(r) : r \in Mine}
  OBVIOUS
<1>1. Owed' \subseteq Owed \ gone /\ owed' = [s \in Sessions |-> owed'[s]]
  BY <1>0, DischargedOwed DEF CloseTab
<1>2. queue' = queue /\ Queued' = Queued
  BY DEF CloseTab, Queued
<1>3. ASSUME NEW item \in Owed' PROVE item \in Queued'
  <2>1. item \in Owed /\ item \notin gone
    BY <1>1
  <2>2. ~ OnItsWay(item)
    BY <1>0, <2>1 DEF OnItsWay
  <2> QED BY <1>2, <2>1, <2>2, KeptMeans DEF KeptInv, OwedAreKept
<1>4. TapsAreKept'
  BY <1>3, KeptNext
<1>5. ListsInv'
  <2>1. PICK rs : rs = Mine
    OBVIOUS
  <2> QED BY <2>1, OrphanedKeeps DEF CloseTab
<1> QED BY <1>1, <1>2, <1>4, <1>5 DEF KeptInv

\* A tap that is not sent after all is queued; anything else is forgotten.
LEMMA GivesUpKeeps ==
    ASSUME KeptInv, ServedInv, NEW r \in Requests, GivesUp(r)
    PROVE  KeptInv'
<1>0. PICK items : items = InFlight(r)
  OBVIOUS
<1>1. /\ \A item : (\E q \in Mine \ {r} : item \in InFlight(q)) => OnItsWay(item)'
      /\ ListsInv'
  BY OrphanedKeeps DEF GivesUp
<1>2. ASSUME NEW item \in Owed, item \notin items PROVE item \in Queued \/ OnItsWay(item)'
  <2>1. item \in Queued \/ OnItsWay(item)
    BY KeptMeans DEF KeptInv, OwedAreKept
  <2>2. OnItsWay(item) => \E q \in Mine \ {r} : item \in InFlight(q)
    BY <1>0, <1>2 DEF OnItsWay
  <2> QED BY <1>1, <2>1, <2>2
<1>3. CASE Waits(r, "tap")
  <2>1. IsFiniteSet(items)
    BY <1>0, <1>3, ItemsAreFinite DEF InFlight, Waits, KeptInv, ListsInv
  <2>2. Enqueue(items) /\ owed' = owed
    BY <1>0, <1>3 DEF GivesUp
  <2>3. queue' \in Seq(Queued') /\ Queued' = Queued \cup items
    BY <2>1, <2>2, EnqueueQueues
  <2>4. Owed' = Owed
    BY <2>2 DEF Owed
  <2>5. TapsAreKept'
    BY <1>2, <2>3, <2>4, KeptNext
  <2> QED BY <1>1, <2>2, <2>3, <2>5 DEF KeptInv
<1>4. CASE ~ Waits(r, "tap")
  <2>1. Discharged(items) /\ queue' = queue
    BY <1>0, <1>4 DEF GivesUp
  <2>2. Owed' \subseteq Owed \ items /\ owed' = [s \in Sessions |-> owed'[s]]
    BY <2>1, DischargedOwed
  <2>3. Queued' = Queued
    BY <2>1 DEF Queued
  <2>4. TapsAreKept'
    BY <1>2, <2>2, <2>3, KeptNext
  <2> QED BY <1>1, <2>1, <2>2, <2>3, <2>4 DEF KeptInv
<1> QED BY <1>3, <1>4

-----------------------------------------------------------------------------
(* The server's answers.                                                   *)

\* An answer that changes the request only is one the view has not heard yet.
LEMMA AnsweredKeeps ==
    ASSUME KeptInv, ServedInv, NEW r \in Requests, request[r].step # "free",
           NEW new, request' = [request EXCEPT ![r] = new],
           \/ new = FreeSlot /\ r \notin Mine
           \/ /\ new.step # "free" /\ {"step", "client"} \subseteq DOMAIN new
              /\ new.client = request[r].client /\ new.op = request[r].op
              /\ new.session = request[r].session /\ new.marks = request[r].marks,
           UNCHANGED <<queue, owed>>
    PROVE  KeptInv'
<1>1. request'[r] = new /\ \A q \in Requests : q # r => request'[q] = request[q]
  BY DEF ServedInv
<1>2. ASSUME NEW item, NEW q \in Mine, item \in InFlight(q) PROVE OnItsWay(item)'
  <2>1. q \in Requests
    BY DEF Mine
  <2>2. (q \in Mine)' /\ item \in InFlight(q)'
    <3>1. CASE q # r
      BY <1>1, <1>2, <2>1, <3>1 DEF Mine, Waits, InFlight
    <3>2. CASE q = r
      <4>1. /\ new.step # "free" /\ new.client = request[r].client
            /\ new.session = request[r].session /\ new.marks = request[r].marks
        BY <1>2, <3>2
      <4> QED BY <1>1, <1>2, <3>2, <4>1 DEF Mine, Waits, InFlight
    <3> QED BY <3>1, <3>2
  <2> QED BY <2>2 DEF OnItsWay
<1>3. \A item : OnItsWay(item) => OnItsWay(item)'
  BY <1>2 DEF OnItsWay
<1>4. Queued' = Queued /\ Owed' = Owed
  BY DEF Queued, Owed
<1>5. TapsAreKept'
  BY <1>3, <1>4, KeptMeans, KeptNext DEF KeptInv, OwedAreKept
<1>6. ListsInv'
  <2>1. ASSUME NEW q \in Requests, request'[q].step # "free"
        PROVE  /\ {"step", "client"} \subseteq DOMAIN request'[q]
               /\ request'[q].client = "tap" => IsFiniteSet(request'[q].marks)
               /\ request'[q].op = "submit" => request'[q].marks = {}
    <3>1. CASE q # r
      BY <1>1, <2>1, <3>1 DEF KeptInv, ListsInv
    <3>2. CASE q = r
      <4>1. /\ {"step", "client"} \subseteq DOMAIN new
            /\ new.client = request[r].client /\ new.op = request[r].op /\ new.marks = request[r].marks
        BY <1>1, <2>1, <3>2 DEF FreeSlot
      <4> QED BY <1>1, <3>2, <4>1 DEF KeptInv, ListsInv
    <3> QED BY <3>1, <3>2
  <2> QED BY <2>1 DEF ListsInv
<1> QED BY <1>4, <1>5, <1>6 DEF KeptInv

LEMMA RefusesKeeps ==
    ASSUME KeptInv, ServedInv, NEW r \in Requests, request[r].step # "free", Refuses(r),
           UNCHANGED <<queue, owed>>
    PROVE  KeptInv'
<1>1. CASE request[r].client = "nobody"
  <2>1. r \notin Mine
    BY <1>1 DEF Mine, Waits
  <2>2. request' = [request EXCEPT ![r] = FreeSlot]
    BY <1>1 DEF Refuses
  <2> QED BY <2>1, <2>2, AnsweredKeeps
<1>2. CASE request[r].client # "nobody"
  <2>1. PICK old : old = request[r]
    OBVIOUS
  <2> DEFINE new == [old EXCEPT !.step = "refused", !.sawSubmitted = FALSE, !.sawOver = FALSE]
  <2>2. request' = [request EXCEPT ![r] = new]
    BY <1>2, <2>1 DEF Refuses
  <2>3. "step" \in DOMAIN old => new.step = "refused"
    OBVIOUS
  <2>5. /\ DOMAIN new = DOMAIN old /\ new.client = old.client /\ new.op = old.op
        /\ new.session = old.session /\ new.marks = old.marks
    OBVIOUS
  <2>6. {"step", "client"} \subseteq DOMAIN old
    BY <2>1 DEF KeptInv, ListsInv
  <2> HIDE DEF new
  <2>7. new.step # "free"
    BY <2>3, <2>6
  <2> QED BY <2>1, <2>2, <2>5, <2>6, <2>7, AnsweredKeeps
<1> QED BY <1>1, <1>2

LEMMA ReadsKeeps ==
    ASSUME KeptInv, ServedInv, NEW r \in Requests, request[r].step # "free", EditReads(r),
           UNCHANGED <<queue, owed>>
    PROVE  KeptInv'
<1>1. PICK old : old = request[r]
  OBVIOUS
<1>2. PICK saw, late : /\ saw = (request[r].op = "mark" /\ session[request[r].session] = "submitted")
                       /\ late = (request[r].op = "mark" /\ over)
  OBVIOUS
<1> DEFINE new == [old EXCEPT !.step = "write", !.sawSubmitted = saw, !.sawOver = late]
<1>3. request' = [request EXCEPT ![r] = new]
  BY <1>1, <1>2 DEF EditReads
<1>4. "step" \in DOMAIN old => new.step = "write"
  OBVIOUS
<1>6. /\ DOMAIN new = DOMAIN old /\ new.client = old.client /\ new.op = old.op
      /\ new.session = old.session /\ new.marks = old.marks
  OBVIOUS
<1>7. {"step", "client"} \subseteq DOMAIN old
  BY <1>1 DEF KeptInv, ListsInv
<1> HIDE DEF new
<1>8. new.step # "free"
  BY <1>4, <1>7
<1> QED BY <1>1, <1>3, <1>6, <1>7, <1>8, AnsweredKeeps

\* A request that ends leaves nothing of it owed: a submission carries no
\* marks, and the marks that are written are discharged.
LEMMA SucceedsKeeps ==
    ASSUME KeptInv, ServedInv, NEW r \in Requests, Succeeds(r), queue' = queue,
           \/ InFlight(r) = {} /\ owed' = owed
           \/ Discharged(InFlight(r))
    PROVE  KeptInv'
<1>0. PICK items : items = InFlight(r)
  OBVIOUS
<1>1. request'[r] = FreeSlot /\ \A q \in Requests : q # r => request'[q] = request[q]
  BY DEF Succeeds, ServedInv
<1>2. ASSUME NEW item, NEW q \in Mine, q # r, item \in InFlight(q) PROVE OnItsWay(item)'
  <2>1. q \in Requests /\ request'[q] = request[q]
    BY <1>1, <1>2 DEF Mine
  <2>2. (q \in Mine)' /\ InFlight(q)' = InFlight(q)
    BY <2>1 DEF Mine, Waits, InFlight
  <2> QED BY <1>2, <2>2 DEF OnItsWay
<1>3. Owed' \subseteq Owed \ items /\ owed' = [s \in Sessions |-> owed'[s]]
  <2>1. CASE Discharged(items)
    BY <2>1, DischargedOwed
  <2>2. CASE items = {} /\ owed' = owed
    BY <2>2 DEF Owed, KeptInv
  <2> QED BY <1>0, <2>1, <2>2
<1>4. ASSUME NEW item \in Owed' PROVE item \in Queued \/ OnItsWay(item)'
  <2>1. item \in Owed /\ item \notin items
    BY <1>3
  <2>2. item \in Queued \/ OnItsWay(item)
    BY <2>1, KeptMeans DEF KeptInv, OwedAreKept
  <2>3. OnItsWay(item) => \E q \in Mine \ {r} : item \in InFlight(q)
    BY <1>0, <2>1 DEF OnItsWay
  <2> QED BY <1>2, <2>2, <2>3
<1>5. Queued' = Queued
  BY DEF Queued
<1>6. TapsAreKept'
  BY <1>4, <1>5, KeptNext
<1>7. ListsInv'
  BY <1>1 DEF KeptInv, ListsInv, FreeSlot
<1> QED BY <1>3, <1>5, <1>6, <1>7 DEF KeptInv

LEMMA ServeKeeps ==
    ASSUME KeptInv, ServedInv, NEW r \in Requests, Serve(r)
    PROVE  KeptInv'
<1>0. queue' = queue
  BY DEF Serve
<1>1. CASE (Fails(r) \/ EditRefused(r)) /\ UNCHANGED owed
  BY <1>0, <1>1, RefusesKeeps DEF Fails, EditRefused
<1>2. CASE EditReads(r) /\ UNCHANGED owed
  BY <1>0, <1>2, ReadsKeeps DEF EditReads
<1>3. CASE SubmitWrites(r) /\ UNCHANGED owed
  <2>1. request[r].marks = {}
    BY <1>3 DEF SubmitWrites, Serves, KeptInv, ListsInv
  <2>2. InFlight(r) = {}
    BY <2>1 DEF InFlight, Items
  <2> QED BY <1>0, <1>3, <2>2, SucceedsKeeps DEF SubmitWrites
<1>4. CASE MarkWrites(r) /\ Discharged(InFlight(r))
  BY <1>0, <1>4, SucceedsKeeps DEF MarkWrites
<1> QED BY <1>1, <1>2, <1>3, <1>4 DEF Serve, ServerStep

-----------------------------------------------------------------------------
LEMMA DeviceKeepsKept ==
    ASSUME KeptInv, ServedInv, Device
    PROVE  KeptInv'
<1>1. ASSUME NEW s \in Sessions, OpenSession(s) PROVE KeptInv'
  <2>1. PICK start : start = ~ syncing
    OBVIOUS
  <2> QED BY <1>1, <2>1, FlushKeeps DEF OpenSession
<1>2. CASE SelectAnother \/ GoesOffline
  BY <1>2 DEF SelectAnother, GoesOffline, serverVars,
              KeptInv, ListsInv, Queued, TapsAreKept, Mine, Waits, InFlight
<1>3. ASSUME NEW x \in Students, NEW m \in Marks, HandleMark(x, m) PROVE KeptInv'
  <2>1. PICK marks : marks = {[student |-> x, status |-> m]}
    OBVIOUS
  <2>2. IsFiniteSet(marks)
    BY <2>1, FS_Singleton
  <2>3. Send(marks, "tap") \/ Store(marks)
    BY <1>3, <2>1 DEF HandleMark
  <2> QED BY <2>2, <2>3, SendKeeps, StoreKeeps
<1>4. CASE MarkAllPresent
  <2>1. PICK marks : marks = [student : Students, status : {"P"}]
    OBVIOUS
  <2>2. IsFiniteSet(marks)
    BY <2>1, AllPresentIsFinite
  <2>3. Send(marks, "all") \/ Store(marks)
    BY <1>4, <2>1 DEF MarkAllPresent
  <2> QED BY <2>2, <2>3, SendKeeps, StoreKeeps
<1>5. CASE HandleSubmit
  <2>1. PICK s : s = view
    OBVIOUS
  <2>2. PICK r \in Requests : Ask(r, "submit", "submit", s, {}, FALSE)
    BY <1>5, <2>1 DEF HandleSubmit
  <2>3. UNCHANGED <<queue, owed>> /\ "submit" # "tap"
    BY <1>5 DEF HandleSubmit
  <2> QED BY <2>2, <2>3, AskKeeps
<1>6. CASE CloseTab
  BY <1>6, CloseTabKeeps
<1>7. ASSUME NEW r \in Requests, GivesUp(r) PROVE KeptInv'
  BY <1>7, GivesUpKeeps
<1>8. CASE ComesOnline
  <2>1. PICK s, start : s = view /\ start = (view # "none" /\ ~ syncing)
    OBVIOUS
  <2> QED BY <1>8, <2>1, FlushKeeps DEF ComesOnline
<1> QED BY <1>1, <1>2, <1>3, <1>4, <1>5, <1>6, <1>7, <1>8 DEF Device

LEMMA StepKeepsKept == KeptInv /\ ServedInv /\ [Next]_vars => KeptInv'
<1> SUFFICES ASSUME KeptInv, ServedInv, [Next]_vars PROVE KeptInv'
  OBVIOUS
<1>1. ASSUME NEW r \in Requests, NEW op \in {"mark", "submit"}, NEW s, NEW m, OfficeAsks(r, op, s, m)
      PROVE  KeptInv'
  <2>1. op = "submit" => m = {}
    BY <1>1 DEF OfficeAsks
  <2>2. Ask(r, "nobody", op, s, m, TRUE) /\ UNCHANGED <<queue, owed>> /\ "nobody" # "tap"
    BY <1>1 DEF OfficeAsks
  <2> QED BY <2>1, <2>2, AskKeeps
<1>2. CASE UNCHANGED <<request, queue, owed>>
  BY <1>2 DEF KeptInv, ListsInv, Queued, TapsAreKept, Mine, Waits, InFlight
<1>3. CASE (DayEnds \/ \E s \in Sessions : Alert(s)) /\ UNCHANGED deviceVars
  BY <1>2, <1>3 DEF DayEnds, Alert, deviceVars
<1>4. CASE UNCHANGED vars
  BY <1>2, <1>4 DEF vars, serverVars, deviceVars
<1> QED BY <1>1, <1>3, <1>4, DeviceKeepsKept, ServeKeeps DEF Next

\* The teacher's latest tap on a student is never lost without one of the
\* known causes, whatever the network does: it has reached its session, or it
\* is in the phone's queue or on its way (enqueue, handleMark, flushQueue of
\* views/Attendance.tsx).
THEOREM TapsStayKept == Spec => []TapsAreKept
<1>1. Init => KeptInv
  <2> SUFFICES ASSUME Init PROVE KeptInv
    OBVIOUS
  <2>1. queue \in Seq(Queued)
    BY DEF Init
  <2> QED BY <2>1 DEF Init, ServerInit, FreeSlot, KeptInv, ListsInv, TapsAreKept
<1>2. IInv => ServedInv
  BY DEF IInv
<1>3. KeptInv => TapsAreKept
  BY DEF KeptInv
<1> QED BY <1>1, <1>2, <1>3, InitIInv, StepKeepsIInv, StepKeepsKept, PTL DEF Spec
=============================================================================
