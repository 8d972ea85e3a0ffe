---------------------------- MODULE ParentPortal ----------------------------
(***************************************************************************)
(* The parents' way in: a login by admission number and portal password,   *)
(* the code sent to a phone, the pages a session opens, and the changes of *)
(* password, phone and standing that staff and parents make meanwhile.     *)
(*                                                                         *)
(* Every handler reads a row in one statement and acts on it in another;   *)
(* none of them locks or opens a transaction.  The password of a child     *)
(* whose hash is not set is the end of the registered phone's number.      *)
(***************************************************************************)
EXTENDS Integers, FiniteSets

CONSTANTS
    Children,       \* students, by id and by admission number
    Phones,
    Callers,        \* bound: phones for which a code is asked
    Passwords, NoPassword, AnyPassword,
    DefaultPassword,    \* last four digits of a phone; NoPassword of a placeholder
    NoPhone,
    Requests,       \* requests in service at a time
    AccessLife,     \* ticks a token lives
    CodeLife,       \* ticks a code may be used
    ServiceLife,    \* bound: ticks a request in service may last
    MaxSessions,    \* bound: tokens at a time
    MaxCodes,       \* bound: codes ever sent
    MaxChanges      \* bound: changes the staff makes

ASSUME PortalAssumption ==
    /\ NoPassword \notin Passwords /\ AnyPassword \notin Passwords \cup {NoPassword}
    /\ DefaultPassword \in [Phones -> Passwords \cup {NoPassword}]
    /\ Callers \subseteq Phones
    /\ Children \cap Phones = {} /\ NoPhone \notin Children \cup Phones
    /\ AccessLife \in Nat \ {0} /\ CodeLife \in Nat \ {0} /\ ServiceLife \in Nat
    /\ MaxSessions \in Nat /\ MaxCodes \in Nat /\ MaxChanges \in Nat

VARIABLES
    student,    \* students: is_active, parent_phone, portal_password_hash
    required,   \* feature_flags.parent_password, which no code changes
    parent,     \* parents: otp_hash (0: none) and the ticks until it expires
    linked,     \* parent_students
    sessions,   \* access tokens not yet expired; the refresh token renews none
    request,
    changes, codes,
    age,        \* history: ticks since a credential last opened a child's pages
    latest,     \* history: the code last sent to a phone
    opened      \* history: codes that opened a session

rows == <<student, required, parent, linked>>
history == <<age, latest, opened>>
vars == <<rows, sessions, request, changes, codes, history>>

-----------------------------------------------------------------------------
Long == AccessLife + 2 * ServiceLife + 1
Credentials == Passwords \cup {AnyPassword}
NoParent == [row |-> FALSE, code |-> 0, left |-> 0]
Idle == [pc |-> "idle", sub |-> NoPhone, with |-> NoPassword, new |-> NoPassword, code |-> 0,
         attends |-> FALSE, ticks |-> 0, overtaken |-> FALSE]

\* Mutant of PortalPassword: the phone's default goes before the
\* password that was set.
PortalPasswordOrPhone(c) ==
    IF DefaultPassword[student[c].phone] # NoPassword THEN DefaultPassword[student[c].phone] ELSE student[c].hash

\* The hash where one is set, the phone's default where none is.
PasswordOf(r) == IF r.hash # NoPassword THEN r.hash ELSE DefaultPassword[r.phone]
PortalPassword(c) == PasswordOf(student[c])

\* With the flag off the password is not looked at.
Accepted(c) == IF required THEN {PortalPassword(c)} \ {NoPassword} ELSE {AnyPassword}

Starts(k, r) == request[k] = Idle /\ request' = [request EXCEPT ![k] = r]
Ends(k) == request' = [request EXCEPT ![k] = Idle]

\* Of the tokens they hold, clients keep any, and lose the others.
Issue(sub, with) ==
    /\ \E kept \in SUBSET sessions : sessions' = kept \cup {[sub |-> sub, with |-> with, left |-> AccessLife]}
    /\ Cardinality(sessions') <= MaxSessions

Init ==
    /\ student \in [Children -> [active : {TRUE}, phone : Phones, hash : {NoPassword}]]
    /\ required \in BOOLEAN
    /\ parent = [p \in Callers |-> NoParent]
    /\ linked = {}
    /\ sessions = {}
    /\ request = [k \in Requests |-> Idle]
    /\ changes = 0 /\ codes = 0
    /\ age = [c \in Children |-> [w \in Credentials |-> IF w \in Accepted(c) THEN 0 ELSE Long]]
    /\ latest = [p \in Callers |-> 0]
    /\ opened = {}

-----------------------------------------------------------------------------
(* The password in force, as the history knows it.                         *)

OpensOf(st, c) ==
    IF ~st[c].active THEN {}
    ELSE IF ~required THEN {AnyPassword}
    ELSE {PasswordOf(st[c])}

\* A step to student' makes what then opens a child's pages as fresh as can
\* be, and overtakes the changes that were checked against another password.
Refreshed == [c \in Children |-> [w \in Credentials |-> IF w \in OpensOf(student', c) THEN 0 ELSE age[c][w]]]
OvertakenBy(c, j) ==
    [j EXCEPT !.overtaken = @ \/ (j.pc = "change" /\ j.sub = c /\ PasswordOf(student'[c]) # PasswordOf(student[c]))]

\* What staff does, one statement each, while requests are in service.
StaffChanges(c, now) ==
    /\ changes < MaxChanges /\ changes' = changes + 1
    /\ student' = [student EXCEPT ![c] = now]
    /\ student' # student
    /\ age' = Refreshed
    /\ request' = [k \in Requests |-> OvertakenBy(c, request[k])]
    /\ UNCHANGED <<required, parent, linked, sessions, codes, latest, opened>>

SetParentPhone(c, phone) == student[c].active /\ StaffChanges(c, [student[c] EXCEPT !.phone = phone])
ResetPortalPassword(c, new) == student[c].active /\ StaffChanges(c, [student[c] EXCEPT !.hash = new])
DeactivateStudent(c) == student[c].active /\ StaffChanges(c, [student[c] EXCEPT !.active = FALSE])
\* By PATCH, or because an import finds the admission number again.
ReactivateStudent(c) == ~student[c].active /\ StaffChanges(c, [student[c] EXCEPT !.active = TRUE])

-----------------------------------------------------------------------------
(* Login by admission number, and the change of a password.                *)

LoginByAdmissionNo(k, c, supplied) ==
    /\ student[c].active
    /\ supplied \in Accepted(c)
    /\ Starts(k, [Idle EXCEPT !.pc = "login", !.sub = c, !.with = supplied])
    /\ UNCHANGED <<rows, sessions, changes, codes, history>>

\* PARENT_LOGIN is recorded and the tokens signed.
AnswerLogin(k) ==
    /\ request[k].pc = "login"
    /\ Issue(request[k].sub, request[k].with)
    /\ Ends(k)
    /\ UNCHANGED <<rows, changes, codes, history>>

\* The current password is asked for whether or not the flag is on.
ReadPortalPassword(k, t, current, new) ==
    /\ t \in sessions /\ t.sub \in Children
    /\ student[t.sub].active
    /\ current = PortalPassword(t.sub) /\ current # NoPassword
    /\ Starts(k, [Idle EXCEPT !.pc = "change", !.sub = t.sub, !.with = current, !.new = new])
    /\ UNCHANGED <<rows, sessions, changes, codes, history>>

\* The UPDATE asks neither for the password read nor for is_active.
WritePortalPassword(k) ==
    LET c == request[k].sub
    IN /\ request[k].pc = "change"
       /\ student' = [student EXCEPT ![c].hash = request[k].new]
       /\ age' = Refreshed
       /\ request' = [j \in Requests |-> IF j = k THEN Idle ELSE OvertakenBy(c, request[j])]
       /\ UNCHANGED <<required, parent, linked, sessions, changes, codes, latest, opened>>

-----------------------------------------------------------------------------
(* The code sent to a phone.                                               *)

RequestOtp(k, phone) ==
    /\ Starts(k, [Idle EXCEPT !.pc = IF parent[phone].row THEN "update" ELSE "insert", !.sub = phone])
    /\ UNCHANGED <<rows, sessions, changes, codes, history>>

\* Whoever checks the code of this phone is overtaken.
OvertakenAt(phone, j) == [j EXCEPT !.overtaken = @ \/ (j.pc = "clear" /\ j.sub = phone)]

SendsCode(k, pc) ==
    LET phone == request[k].sub
    IN /\ codes < MaxCodes /\ codes' = codes + 1
       /\ parent' = [parent EXCEPT ![phone] = [row |-> TRUE, code |-> codes', left |-> CodeLife]]
       /\ latest' = [latest EXCEPT ![phone] = codes']
       /\ request' = [j \in Requests |-> IF j # k THEN OvertakenAt(phone, request[j])
                                          ELSE IF pc = "idle" THEN Idle ELSE [request[k] EXCEPT !.pc = pc]]
       /\ UNCHANGED <<student, required, linked, sessions, changes, age, opened>>

UpdateCode(k) == request[k].pc = "update" /\ SendsCode(k, "idle")

\* uq_parent_tenant_phone: of two first requests one is answered with a 500.
InsertParent(k) ==
    /\ request[k].pc = "insert"
    /\ \/ ~parent[request[k].sub].row /\ SendsCode(k, "link")
       \/ parent[request[k].sub].row /\ Ends(k) /\ UNCHANGED <<rows, sessions, changes, codes, history>>

\* The children the phone is registered for now; later ones are never linked.
LinkStudents(k) ==
    LET phone == request[k].sub
    IN /\ request[k].pc = "link"
       /\ linked' = linked \cup {<<phone, c>> : c \in {x \in Children : student[x].active /\ student[x].phone = phone}}
       /\ Ends(k)
       /\ UNCHANGED <<student, required, parent, sessions, changes, codes, history>>

VerifyOtp(k, phone, code) ==
    /\ parent[phone].row /\ parent[phone].code # 0 /\ parent[phone].left > 0
    /\ code = parent[phone].code
    /\ Starts(k, [Idle EXCEPT !.pc = "clear", !.sub = phone, !.code = code])
    /\ UNCHANGED <<rows, sessions, changes, codes, history>>

\* Mutant of ClearCode: only last_login_at is written.
ClearCodeNever(k) ==
    LET phone == request[k].sub
    IN /\ request[k].pc = "clear"
       /\ opened' = opened \cup {request[k].code}
       /\ Issue(phone, NoPassword)
       /\ Ends(k)
       /\ UNCHANGED <<rows, changes, codes, age, latest>>

\* The UPDATE clears the row, whatever code it has by now.
ClearCode(k) ==
    LET phone == request[k].sub
    IN /\ request[k].pc = "clear"
       /\ parent' = [parent EXCEPT ![phone] = [row |-> TRUE, code |-> 0, left |-> 0]]
       /\ opened' = opened \cup {request[k].code}
       /\ Issue(phone, NoPassword)
       /\ request' = [j \in Requests |-> IF j = k THEN Idle ELSE OvertakenAt(phone, request[j])]
       /\ UNCHANGED <<student, required, linked, changes, codes, age, latest>>

-----------------------------------------------------------------------------
(* The pages.                                                              *)

\* What reads is_active of the child, and what does not.
ActiveOnly == {"students", "summary"}
Anybodys == {"ledger", "payments", "notifications", "results", "timetable", "report card"}

\* TenantMiddleware has checked the token.  A session may only read its own
\* student: its subject, which for one opened by a code is no student.
OwnStudent(t, c) == t.sub = c

AskPage(k, t, c, page) ==
    /\ t \in sessions /\ OwnStudent(t, c)
    /\ Starts(k, [Idle EXCEPT !.pc = "page", !.sub = c, !.with = t.with, !.attends = page \in ActiveOnly])
    /\ UNCHANGED <<rows, sessions, changes, codes, history>>

\* The student's row, and then the rest of the page.
ReadPage(k) ==
    /\ request[k].pc = "page"
    /\ request[k].attends => student[request[k].sub].active
    /\ request' = [request EXCEPT ![k].pc = "shown"]
    /\ UNCHANGED <<rows, sessions, changes, codes, history>>

\* The request is answered, refused, or dies; what it has written stays.
Over(k) ==
    /\ request[k] # Idle
    /\ Ends(k)
    /\ UNCHANGED <<rows, sessions, changes, codes, history>>

-----------------------------------------------------------------------------
Down(n) == IF n > 0 THEN n - 1 ELSE 0

Tick ==
    /\ \A k \in Requests : request[k] # Idle => request[k].ticks < ServiceLife
    /\ sessions' = {[t EXCEPT !.left = @ - 1] : t \in {x \in sessions : x.left > 1}}
    /\ parent' = [p \in Callers |-> [parent[p] EXCEPT !.left = Down(@)]]
    /\ request' = [k \in Requests |-> IF request[k] = Idle THEN Idle ELSE [request[k] EXCEPT !.ticks = @ + 1]]
    /\ age' = [c \in Children |-> [w \in Credentials |->
          IF w \in OpensOf(student, c) THEN 0 ELSE IF age[c][w] < Long THEN age[c][w] + 1 ELSE Long]]
    /\ UNCHANGED <<student, required, linked, changes, codes, latest, opened>>

Office ==
    \E c \in Children :
        \/ \E phone \in Phones : SetParentPhone(c, phone)
        \/ \E new \in Passwords : ResetPortalPassword(c, new)
        \/ DeactivateStudent(c) \/ ReactivateStudent(c)

Parent(k) ==
    \/ \E c \in Children, supplied \in Credentials : LoginByAdmissionNo(k, c, supplied)
    \/ AnswerLogin(k)
    \/ \E t \in sessions, current, new \in Passwords : ReadPortalPassword(k, t, current, new)
    \/ WritePortalPassword(k)
    \/ \E phone \in Callers : RequestOtp(k, phone)
    \/ UpdateCode(k) \/ InsertParent(k) \/ LinkStudents(k)
    \/ \E phone \in Callers, code \in 1 .. codes : VerifyOtp(k, phone, code)
    \/ ClearCode(k)
    \/ \E t \in sessions, c \in Children, page \in ActiveOnly \cup Anybodys : AskPage(k, t, c, page)
    \/ ReadPage(k)
    \/ Over(k)

Next == Office \/ Tick \/ \E k \in Requests : Parent(k)

Spec == Init /\ [][Next]_vars

-----------------------------------------------------------------------------
(* Properties.                                                             *)

\* After a reset, a change of phone or a deactivation the old way in ends: a
\* page is shown only to a session whose credential opened the child's pages
\* at most a token's life ago, give or take the two requests that log in and
\* ask.  No refresh prolongs it: auth_refresh finds no role of a parent.
PagesFollowTheAccount ==
    /\ \A t \in sessions : t.sub \in Children => age[t.sub][t.with] + t.left <= AccessLife + ServiceLife
    /\ \A k \in Requests : request[k].pc = "shown" => age[request[k].sub][request[k].with] < Long

\* A parent's change replaces the password it was checked against, and a code
\* opens a session while it is the last one sent and for the first time, and
\* clears no other; a request does otherwise only if somebody wrote the row
\* between its check and its UPDATE (services/parent.py:130-168, 226-276).
UsedWhatItChecked ==
    [][\A k \in Requests :
          LET r == request[k]
          IN ~r.overtaken /\ request'[k] = Idle =>
               /\ r.pc = "change" /\ student' # student => r.with = PortalPassword(r.sub)
               /\ r.pc = "clear" /\ sessions' # sessions =>
                     r.code \notin opened /\ r.code = latest[r.sub] /\ r.code = parent[r.sub].code]_vars
=============================================================================
