-------------------------- MODULE AttendanceDevice --------------------------
(***************************************************************************)
(* A teacher's phone taking attendance over a bad network, and the server  *)
(* it shares with the office: the attendance view, its IndexedDB queue and *)
(* the flush of the queue when the network returns or a session opens.     *)
(***************************************************************************)
EXTENDS Attendance, SequencesExt

CONSTANTS
    MaxEdits        \* bound: taps, submissions and requests of the office

VARIABLES
    online,     \* the browser's online flag
    view,       \* the session the attendance view shows, or "none"
    queue,      \* attendance_queue in IndexedDB, oldest first
    owed,       \* history: the teacher's latest tap for each record, while it
                \* is neither recorded nor lost for a known cause
    edits       \* taps, submissions and requests of the office so far

deviceVars == <<online, view, queue, owed, edits>>
vars == <<serverVars, deviceVars>>

-----------------------------------------------------------------------------
\* setSyncing(true) until the flush is answered.
Waits(r, client) == request[r].step # "free" /\ request[r].client = client
syncing == \E r \in Requests : Waits(r, "flush")

Item(s, x, status) == [session |-> s, student |-> x, status |-> status]
Items(s, marks) == {Item(s, m.student, m.status) : m \in marks}

Init ==
    /\ ServerInit
    /\ online = TRUE
    /\ view = "none"
    /\ queue = <<>>
    /\ owed = [s \in Sessions |-> [x \in Students |-> "none"]]
    /\ edits = 0

\* The server's variables while only the requests change.
SameData == UNCHANGED <<session, over, record, pending, alerted, stale>>

-----------------------------------------------------------------------------
(* The flush.                                                              *)

Queued == {queue[i] : i \in DOMAIN queue}

InFlight(r) ==
    IF request[r].step = "free" THEN {} ELSE Items(request[r].session, request[r].marks)

\* The last item of each student, whatever session it was tapped in.
Merged ==
    {[student |-> x, status |->
        LET last == CHOOSE i \in DOMAIN queue :
                        /\ queue[i].student = x
                        /\ \A j \in DOMAIN queue : queue[j].student = x => j <= i
        IN queue[last].status] : x \in {q.student : q \in Queued}}

\* The items that leave the queue without being sent to their session.
Misdirected(s) ==
    {q \in Queued : q.session # s \/ [student |-> q.student, status |-> q.status] \notin Merged}

Discharged(items) ==
    owed' = [s \in Sessions |-> [x \in Students |->
        IF Item(s, x, owed[s][x]) \in items THEN "none" ELSE owed[s][x]]]

\* Mutant of FlushQueue: the queue is only emptied by a flush that succeeds.
FlushQueueKeeping(s, start) ==
    IF ~ start \/ queue = <<>> THEN UNCHANGED <<request, queue, owed>>
    ELSE /\ \E r \in Requests : Ask(r, "flush", "mark", s, Merged, FALSE)
         /\ UNCHANGED <<queue, owed>>

\* flushQueue with the session s on screen: the queue is emptied first.
FlushQueue(s, start) ==
    IF ~ start \/ queue = <<>> THEN UNCHANGED <<request, queue, owed>>
    ELSE /\ \E r \in Requests : Ask(r, "flush", "mark", s, Merged, FALSE)
         /\ queue' = <<>>
         /\ Discharged(Misdirected(s))

-----------------------------------------------------------------------------
(* The teacher.                                                            *)

\* handleOpenSession, "Start" or "Reload", and the effect of setSession.
OpenSession(s) ==
    /\ view \in {"none", s}
    /\ online
    /\ GetOrCreateSession(s)
    /\ view' = s
    /\ FlushQueue(s, ~ syncing)
    /\ UNCHANGED <<over, record, pending, alerted, stale, online, edits>>

\* resetSession: another class, section or date is selected.
SelectAnother ==
    /\ view # "none"
    /\ view' = "none"
    /\ UNCHANGED <<serverVars, online, queue, owed, edits>>

Tap(marks) ==
    /\ view # "none"
    /\ edits < MaxEdits
    /\ edits' = edits + 1
    /\ owed' = [owed EXCEPT ![view] = [x \in Students |->
           IF \E m \in marks : m.student = x
           THEN (CHOOSE m \in marks : m.student = x).status ELSE owed[view][x]]]

\* Online, the tap is sent at once.
Send(marks, client) ==
    /\ online
    /\ Tap(marks)
    /\ \E r \in Requests : Ask(r, client, "mark", view, marks, FALSE)
    /\ SameData
    /\ UNCHANGED <<online, view, queue>>

\* enqueue, one item per mark.
Enqueue(items) == queue' = queue \o SetToSeq(items)

Store(marks) ==
    /\ ~ online
    /\ Tap(marks)
    /\ Enqueue(Items(view, marks))
    /\ UNCHANGED <<serverVars, online, view>>

HandleMark(x, status) ==
    LET marks == {[student |-> x, status |-> status]} IN
    Send(marks, "tap") \/ Store(marks)

MarkAllPresent ==
    LET marks == [student : Students, status : {"P"}] IN
    Send(marks, "all") \/ Store(marks)

\* The button, which shows once something is marked; it does not flush first.
HandleSubmit ==
    /\ view # "none"
    /\ online
    /\ edits < MaxEdits
    /\ edits' = edits + 1
    /\ \E r \in Requests : Ask(r, "submit", "submit", view, {}, FALSE)
    /\ SameData
    /\ UNCHANGED <<online, view, queue, owed>>

\* What is in flight for the view.
Mine == {r \in Requests : \E client \in Clients \ {"nobody"} : Waits(r, client)}

Orphaned(rs) ==
    request' = [r \in Requests |->
        IF r \notin rs THEN request[r]
        ELSE IF request[r].step = "refused" THEN FreeSlot ELSE [request[r] EXCEPT !.client = "nobody"]]

\* The tab is closed: nobody waits for what is in flight, the queue stays.
CloseTab ==
    /\ Mine # {}
    /\ view' = "none"
    /\ Orphaned(Mine)
    /\ Discharged(UNION {InFlight(r) : r \in Mine})
    /\ SameData
    /\ UNCHANGED <<online, queue, edits>>

-----------------------------------------------------------------------------
(* Failures.                                                               *)

\* Mutant of GivesUp: a tap that was not sent is only shown.
GivesUpForgetting(r) ==
    /\ r \in Mine
    /\ Orphaned({r})
    /\ IF Waits(r, "tap") THEN UNCHANGED owed ELSE Discharged(InFlight(r))
    /\ SameData
    /\ UNCHANGED <<online, view, queue, edits>>

\* An error answer, or none: a tap goes to the queue; a flush and "mark all
\* present" are forgotten.  The request may still be on its way.
GivesUp(r) ==
    /\ r \in Mine
    /\ Orphaned({r})
    /\ IF Waits(r, "tap") THEN Enqueue(InFlight(r)) /\ UNCHANGED owed
                          ELSE Discharged(InFlight(r)) /\ UNCHANGED queue
    /\ SameData
    /\ UNCHANGED <<online, view, edits>>

-----------------------------------------------------------------------------
(* The network.                                                            *)

GoesOffline ==
    /\ online
    /\ online' = FALSE
    /\ UNCHANGED <<serverVars, view, queue, owed, edits>>

\* Mutant of ComesOnline: the queue is flushed whether a session is open or not.
ComesOnlineWithoutSession ==
    /\ ~ online
    /\ online' = TRUE
    /\ FlushQueue(view, ~ syncing)
    /\ SameData
    /\ UNCHANGED <<view, edits>>

ComesOnline ==
    /\ ~ online
    /\ online' = TRUE
    /\ FlushQueue(view, view # "none" /\ ~ syncing)
    /\ SameData
    /\ UNCHANGED <<view, edits>>

-----------------------------------------------------------------------------
(* The rest of the system.                                                 *)

\* A principal marks or submits a session from another device.
OfficeAsks(r, op, s, marks) ==
    /\ edits < MaxEdits
    /\ edits' = edits + 1
    /\ session[s] # "none"
    /\ op = "mark" <=> marks # {}
    /\ Ask(r, "nobody", op, s, marks, TRUE)
    /\ SameData
    /\ UNCHANGED <<online, view, queue, owed>>

\* A mark that is written to its session is owed no more.
Serve(r) ==
    /\ \/ ServerStep(r) /\ UNCHANGED owed
       \/ MarkWrites(r) /\ Discharged(InFlight(r))
    /\ UNCHANGED <<online, view, queue, edits>>

-----------------------------------------------------------------------------
Device ==
    \/ \E s \in Sessions : OpenSession(s)
    \/ SelectAnother
    \/ \E x \in Students, m \in Marks : HandleMark(x, m)
    \/ MarkAllPresent
    \/ HandleSubmit
    \/ CloseTab
    \/ \E r \in Requests : GivesUp(r)
    \/ GoesOffline
    \/ ComesOnline

Next ==
    \/ Device
    \/ \E r \in Requests : \/ Serve(r)
                           \/ \E op \in {"mark", "submit"}, s \in Sessions, m \in MarkLists \cup {{}} :
                                 OfficeAsks(r, op, s, m)
    \/ (DayEnds \/ \E s \in Sessions : Alert(s)) /\ UNCHANGED deviceVars

Spec == Init /\ [][Next]_vars

\* Requests end, on the server and for the view, and the network goes and
\* comes back again and again.
Fairness ==
    /\ \A r \in Requests : WF_vars(Serve(r)) /\ WF_vars(GivesUp(r))
    /\ WF_vars(GoesOffline)
    /\ WF_vars(ComesOnline)

FairSpec == Spec /\ Fairness

-----------------------------------------------------------------------------
(* Properties.                                                             *)

TypeOK ==
    /\ ServerTypeOK
    /\ online \in BOOLEAN
    /\ view \in Sessions \cup {"none"}
    /\ queue \in Seq([session : Sessions, student : Students, status : Marks])
    /\ owed \in [Sessions -> [Students -> Marks \cup {"none"}]]
    /\ edits \in 0 .. MaxEdits

\* The teacher's latest tap on a student is never lost without one of the
\* known causes: it has reached its session, or is queued or in flight, unless
\* a flush or a "mark all present" failed, a flush sent it elsewhere, or the
\* tab was closed on it.
TapsAreKept ==
    \A s \in Sessions, x \in Students :
        LET item == Item(s, x, owed[s][x]) IN
        owed[s][x] # "none" => item \in Queued \/ \E r \in Mine : item \in InFlight(r)

\* Marks taken offline, or queued because sending them failed, do not stay on
\* the phone while a session is open on it.
QueueDrains == (queue # <<>> /\ view # "none") ~> (queue = <<>> \/ view = "none")

-----------------------------------------------------------------------------
(* What a comment says, and the code does not do.                          *)

\* views/Attendance.tsx:184: "Batch items by session": a flush sends each mark
\* to the session it was tapped in.
FlushedToTheirSession ==
    [][\A r \in Requests :
          Waits(r, "flush")' /\ ~ Waits(r, "flush") =>
              InFlight(r)' \subseteq Queued]_vars
=============================================================================
