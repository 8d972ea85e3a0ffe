-------------------------- MODULE ParentPortalProofs --------------------------
(***************************************************************************)
(* The two promises of the parents' way in, for any children, phones,      *)
(* passwords, lives and numbers of requests.  A credential ages from the   *)
(* moment it stops opening a child's pages; requests and sessions that     *)
(* hold it are bounded by that age (RequestsInv, SessionsInv).  A code     *)
(* belongs to one phone (CodesInv).                                        *)
(***************************************************************************)
EXTENDS ParentPortal, TLAPS

StudentRows == [active : BOOLEAN, phone : Phones, hash : Passwords \cup {NoPassword}]
RequestRows == [pc : {"idle", "login", "change", "update", "insert", "link", "clear", "page", "shown"},
                sub : Children \cup Phones \cup {NoPhone}, with : Credentials \cup {NoPassword},
                new : Passwords \cup {NoPassword}, code : Nat, attends : BOOLEAN, ticks : Nat,
                overtaken : BOOLEAN]
SessionRows == [sub : Children \cup Phones, with : Credentials \cup {NoPassword}, left : Nat]

TypeOK ==
    /\ student \in [Children -> StudentRows]
    /\ required \in BOOLEAN
    /\ parent \in [Callers -> [row : BOOLEAN, code : Nat, left : Nat]]
    /\ sessions \subseteq SessionRows
    /\ request \in [Requests -> RequestRows]
    /\ codes \in Nat
    /\ age \in [Children -> [Credentials -> Nat]]
    /\ latest \in [Callers -> Nat]

\* What opens the pages is fresh.
AgeInv ==
    \A c \in Children : \A w \in Credentials :
        /\ age[c][w] <= Long
        /\ w \in OpensOf(student, c) => age[c][w] = 0

\* A session's credential opened the pages when its token was signed, or
\* stopped to during the login.
SessionsInv ==
    \A t \in sessions :
        /\ t.left > 0
        /\ t.sub \in Children => /\ t.with \in Credentials
                                 /\ age[t.sub][t.with] + t.left <= AccessLife + ServiceLife

\* A code is the last one of its phone, and of no other, while it is stored.
CodesInv ==
    /\ \A p \in Callers :
          /\ latest[p] <= codes
          /\ parent[p].code # 0 => parent[p].code = latest[p] /\ parent[p].code \notin opened
    /\ \A p, q \in Callers : p # q /\ latest[p] = latest[q] => latest[p] = 0
    /\ \A code \in opened : code \in Nat /\ code <= codes

Holds(j) == j.sub \in Children /\ j.with \in Credentials

RequestGood(j) ==
    /\ j.ticks <= ServiceLife
    /\ j.pc = "login" => Holds(j) /\ age[j.sub][j.with] <= j.ticks
    /\ j.pc \in {"page", "shown"} => Holds(j) /\ age[j.sub][j.with] < AccessLife + ServiceLife + j.ticks
    /\ j.pc = "change" => /\ j.sub \in Children /\ j.new \in Passwords
                          /\ ~j.overtaken => j.with = PortalPassword(j.sub)
    /\ j.pc \in {"update", "insert", "link"} => j.sub \in Callers
    /\ j.pc = "clear" =>
          /\ j.sub \in Callers
          /\ 0 < j.code /\ j.code <= codes
          /\ \A q \in Callers \ {j.sub} : j.code # latest[q]
          /\ ~j.overtaken => j.code \notin opened /\ j.code = latest[j.sub] /\ j.code = parent[j.sub].code

RequestsInv == \A k \in Requests : RequestGood(request[k])

IInv == TypeOK /\ AgeInv /\ SessionsInv /\ CodesInv /\ RequestsInv

-----------------------------------------------------------------------------
LEMMA LongIsNat == Long \in Nat /\ AccessLife \in Nat /\ AccessLife > 0 /\ ServiceLife \in Nat /\ CodeLife \in Nat
  BY PortalAssumption DEF Long

LEMMA PasswordType == ASSUME NEW r \in StudentRows PROVE PasswordOf(r) \in Passwords \cup {NoPassword}
  BY PortalAssumption DEF StudentRows, PasswordOf

LEMMA IdleIsGood == Idle \in RequestRows /\ RequestGood(Idle) /\ RequestGood(Idle)'
<1>1. Idle \in RequestRows
  BY DEF Idle, RequestRows
<1>2. Idle.pc = "idle" /\ Idle.ticks = 0
  BY DEF Idle
<1>3. 0 <= ServiceLife
  BY LongIsNat
<1> QED BY <1>1, <1>2, <1>3 DEF RequestGood

LEMMA InitIInv == Init => IInv
<1> SUFFICES ASSUME Init PROVE IInv
  OBVIOUS
<1>1. student \in [Children -> StudentRows]
  BY DEF Init, StudentRows
<1>2. \A c \in Children : student[c].active /\ student[c].hash = NoPassword
  BY DEF Init
<1>3. \A c \in Children, w \in Credentials : age[c][w] = IF w \in Accepted(c) THEN 0 ELSE Long
  BY DEF Init
<1>4. age \in [Children -> [Credentials -> Nat]]
  BY LongIsNat DEF Init
<1>5. \A k \in Requests : request[k] = Idle
  BY DEF Init
<1>6. \A p \in Callers : latest[p] = 0 /\ parent[p].code = 0
  BY DEF Init, NoParent
<1>7. TypeOK
  <2>1. parent \in [Callers -> [row : BOOLEAN, code : Nat, left : Nat]]
    BY DEF Init, NoParent
  <2>2. request \in [Requests -> RequestRows]
    BY IdleIsGood DEF Init
  <2> QED BY <1>1, <1>4, <2>1, <2>2 DEF Init, TypeOK
<1>8. AgeInv
  <2> SUFFICES ASSUME NEW c \in Children, NEW w \in Credentials
               PROVE  age[c][w] <= Long /\ (w \in OpensOf(student, c) => age[c][w] = 0)
    BY DEF AgeInv
  <2>1. age[c][w] <= Long
    BY <1>3, LongIsNat
  <2>2. w # NoPassword
    BY PortalAssumption DEF Credentials
  <2>3. w \in OpensOf(student, c) => w \in Accepted(c)
    BY <1>2, <2>2 DEF OpensOf, Accepted, PortalPassword
  <2> QED BY <2>1, <2>3, <1>3
<1>9. SessionsInv
  BY DEF Init, SessionsInv
<1>10. CodesInv
  BY <1>6 DEF Init, CodesInv
<1>11. RequestsInv
  BY <1>5, IdleIsGood DEF RequestsInv
<1> QED BY <1>7, <1>8, <1>9, <1>10, <1>11 DEF IInv

-----------------------------------------------------------------------------
(* Steps that write no row: a request begins, goes on or ends.             *)

\* Request k becomes j; the database stays.
LEMMA RequestStep ==
    ASSUME IInv, NEW k \in Requests, NEW j \in RequestRows, RequestGood(j),
           request' = [request EXCEPT ![k] = j],
           UNCHANGED <<student, required, parent, sessions, codes, age, latest, opened>>
    PROVE  IInv'
<1>1. TypeOK'
  BY DEF IInv, TypeOK
<1>2. AgeInv' /\ SessionsInv' /\ CodesInv'
  BY DEF IInv, AgeInv, SessionsInv, CodesInv, OpensOf, PasswordOf
<1>3. \A i \in Requests : request'[i] = IF i = k THEN j ELSE request[i]
  BY DEF IInv, TypeOK
<1>4. RequestsInv'
  <2> SUFFICES ASSUME NEW i \in Requests PROVE RequestGood(request[i])'
    BY DEF RequestsInv
  <2>1. RequestGood(request'[i])
    BY <1>3 DEF IInv, RequestsInv
  <2> QED BY <2>1 DEF RequestGood, Holds, PortalPassword, PasswordOf
<1> QED BY <1>1, <1>2, <1>4 DEF IInv

LEMMA EndStep ==
    ASSUME IInv, NEW k \in Requests, Ends(k),
           UNCHANGED <<student, required, parent, sessions, codes, age, latest, opened>>
    PROVE  IInv'
  BY RequestStep, IdleIsGood DEF Ends

\* What opens a child's pages has age 0 when it is accepted.
LEMMA LoginKeeps ==
    ASSUME IInv, NEW k \in Requests, NEW c \in Children, NEW supplied \in Credentials,
           LoginByAdmissionNo(k, c, supplied)
    PROVE  IInv'
<1> DEFINE j == [Idle EXCEPT !.pc = "login", !.sub = c, !.with = supplied]
<1>1. /\ j \in RequestRows
      /\ j.pc = "login" /\ j.sub = c /\ j.with = supplied /\ j.ticks = 0
  BY DEF Idle, RequestRows
<1>2. age[c][supplied] = 0
  <2>1. supplied \in OpensOf(student, c)
    BY DEF LoginByAdmissionNo, Accepted, OpensOf, PortalPassword
  <2> QED BY <2>1 DEF IInv, AgeInv
<1>3. request' = [request EXCEPT ![k] = j]
  BY DEF LoginByAdmissionNo, Starts
<1> HIDE DEF j
<1>4. RequestGood(j)
  BY <1>1, <1>2, LongIsNat DEF RequestGood, Holds
<1> QED BY <1>1, <1>3, <1>4, RequestStep DEF LoginByAdmissionNo, rows, history

LEMMA ReadPasswordKeeps ==
    ASSUME IInv, NEW k \in Requests, NEW t \in sessions, NEW current \in Passwords, NEW new \in Passwords,
           ReadPortalPassword(k, t, current, new)
    PROVE  IInv'
<1> DEFINE j == [Idle EXCEPT !.pc = "change", !.sub = t.sub, !.with = current, !.new = new]
<1>1. /\ j \in RequestRows
      /\ j.pc = "change" /\ j.sub = t.sub /\ j.with = current /\ j.new = new /\ j.ticks = 0
  BY DEF ReadPortalPassword, Idle, RequestRows, Credentials
<1>2. request' = [request EXCEPT ![k] = j]
  BY DEF ReadPortalPassword, Starts
<1> HIDE DEF j
<1>3. RequestGood(j)
  BY <1>1, LongIsNat DEF ReadPortalPassword, RequestGood
<1> QED BY <1>1, <1>2, <1>3, RequestStep DEF ReadPortalPassword, rows, history

LEMMA RequestOtpKeeps ==
    ASSUME IInv, NEW k \in Requests, NEW phone \in Callers, RequestOtp(k, phone)
    PROVE  IInv'
<1> DEFINE j == [Idle EXCEPT !.pc = IF parent[phone].row THEN "update" ELSE "insert", !.sub = phone]
<1>1. /\ j \in RequestRows
      /\ j.pc \in {"update", "insert"} /\ j.sub = phone /\ j.ticks = 0
  BY PortalAssumption DEF Idle, RequestRows
<1>2. request' = [request EXCEPT ![k] = j]
  BY DEF RequestOtp, Starts
<1> HIDE DEF j
<1>3. RequestGood(j)
  BY <1>1, LongIsNat DEF RequestGood
<1> QED BY <1>1, <1>2, <1>3, RequestStep DEF RequestOtp, rows, history

LEMMA VerifyKeeps ==
    ASSUME IInv, NEW k \in Requests, NEW phone \in Callers, NEW code \in Nat, VerifyOtp(k, phone, code)
    PROVE  IInv'
<1> DEFINE j == [Idle EXCEPT !.pc = "clear", !.sub = phone, !.code = code]
<1>1. /\ j \in RequestRows
      /\ j.pc = "clear" /\ j.sub = phone /\ j.code = code /\ j.ticks = 0
  BY PortalAssumption DEF Idle, RequestRows
<1>2. request' = [request EXCEPT ![k] = j]
  BY DEF VerifyOtp, Starts
<1>3. /\ code = parent[phone].code /\ code # 0 /\ code = latest[phone] /\ code \notin opened /\ code <= codes
      /\ \A q \in Callers \ {phone} : code # latest[q]
  BY DEF VerifyOtp, IInv, CodesInv
<1> HIDE DEF j
<1>4. RequestGood(j)
  BY <1>1, <1>3, LongIsNat DEF RequestGood
<1> QED BY <1>1, <1>2, <1>4, RequestStep DEF VerifyOtp, rows, history

LEMMA AskPageKeeps ==
    ASSUME IInv, NEW k \in Requests, NEW t \in sessions, NEW c \in Children,
           NEW page \in ActiveOnly \cup Anybodys, AskPage(k, t, c, page)
    PROVE  IInv'
<1> DEFINE active == page \in ActiveOnly
           j == [Idle EXCEPT !.pc = "page", !.sub = c, !.with = t.with, !.attends = active]
<1>1. t.sub = c /\ t.with \in Credentials /\ t.left \in Nat /\ t.left > 0
      /\ age[c][t.with] \in Nat /\ age[c][t.with] + t.left <= AccessLife + ServiceLife
  BY DEF AskPage, OwnStudent, IInv, TypeOK, SessionRows, SessionsInv
<1>2. /\ j \in RequestRows
      /\ j.pc = "page" /\ j.sub = c /\ j.with = t.with /\ j.ticks = 0
  <2>1. active \in BOOLEAN
    OBVIOUS
  <2> HIDE DEF active
  <2> QED BY <1>1, <2>1 DEF Idle, RequestRows
<1>3. request' = [request EXCEPT ![k] = j]
  BY DEF AskPage, Starts
<1>4. age[c][t.with] < AccessLife + ServiceLife + 0
  BY <1>1, LongIsNat
<1> HIDE DEF j
<1>5. RequestGood(j)
  BY <1>1, <1>2, <1>4, LongIsNat DEF RequestGood, Holds
<1> QED BY <1>2, <1>3, <1>5, RequestStep DEF AskPage, rows, history

LEMMA ReadPageKeeps ==
    ASSUME IInv, NEW k \in Requests, ReadPage(k)
    PROVE  IInv'
<1> DEFINE j == [request[k] EXCEPT !.pc = "shown"]
<1>1. request[k] \in RequestRows /\ RequestGood(request[k]) /\ request[k].pc = "page"
  BY DEF ReadPage, IInv, TypeOK, RequestsInv
<1>2. /\ j \in RequestRows
      /\ j.pc = "shown" /\ j.sub = request[k].sub /\ j.with = request[k].with /\ j.ticks = request[k].ticks
  BY <1>1 DEF RequestRows
<1>3. request' = [request EXCEPT ![k] = j]
  BY <1>1 DEF ReadPage, IInv, TypeOK
<1> HIDE DEF j
<1>4. RequestGood(j)
  BY <1>1, <1>2 DEF RequestGood, Holds
<1> QED BY <1>2, <1>3, <1>4, RequestStep DEF ReadPage, rows, history

LEMMA LinkKeeps == ASSUME IInv, NEW k \in Requests, LinkStudents(k) PROVE IInv'
  BY EndStep DEF LinkStudents, history

LEMMA OverKeeps == ASSUME IInv, NEW k \in Requests, Over(k) PROVE IInv'
  BY EndStep DEF Over, rows, history

-----------------------------------------------------------------------------
(* Tokens are signed.                                                      *)

\* Some sessions are kept and one is opened; request k ends.
LEMMA IssueStep ==
    ASSUME IInv, NEW k \in Requests, Ends(k),
           NEW sub \in Children \cup Phones, NEW with \in Credentials \cup {NoPassword},
           Issue(sub, with),
           sub \in Children => with \in Credentials /\ age[sub][with] <= ServiceLife,
           UNCHANGED <<student, required, parent, codes, age, latest, opened>>
    PROVE  IInv'
<1>1. PICK kept \in SUBSET sessions : sessions' = kept \cup {[sub |-> sub, with |-> with, left |-> AccessLife]}
  BY DEF Issue
<1>2. sessions' \subseteq SessionRows
  BY <1>1, LongIsNat DEF IInv, TypeOK, SessionRows
<1>3. request' \in [Requests -> RequestRows]
  BY IdleIsGood DEF Ends, IInv, TypeOK
<1>4. TypeOK'
  BY <1>2, <1>3 DEF IInv, TypeOK
<1>5. AgeInv' /\ CodesInv'
  BY DEF IInv, AgeInv, CodesInv, OpensOf, PasswordOf
<1>6. SessionsInv'
  <2>1. sub \in Children => age[sub][with] \in Nat
    BY DEF IInv, TypeOK
  <2>2. sub \in Children => age[sub][with] + AccessLife <= AccessLife + ServiceLife
    BY <2>1, LongIsNat
  <2> QED BY <1>1, <2>2, LongIsNat DEF IInv, SessionsInv
<1>7. RequestsInv'
  <2> SUFFICES ASSUME NEW i \in Requests PROVE RequestGood(request[i])'
    BY DEF RequestsInv
  <2>1. request'[i] = IF i = k THEN Idle ELSE request[i]
    BY DEF Ends, IInv, TypeOK
  <2>2. RequestGood(request'[i])
    BY <2>1, IdleIsGood DEF IInv, RequestsInv
  <2> QED BY <2>2 DEF RequestGood, Holds, PortalPassword, PasswordOf
<1> QED BY <1>4, <1>5, <1>6, <1>7 DEF IInv

LEMMA AnswerLoginKeeps == ASSUME IInv, NEW k \in Requests, AnswerLogin(k) PROVE IInv'
<1> DEFINE j == request[k]
<1>1. j \in RequestRows /\ RequestGood(j) /\ j.pc = "login"
  BY DEF AnswerLogin, IInv, TypeOK, RequestsInv
<1>2. /\ j.sub \in Children /\ j.with \in Credentials
      /\ age[j.sub][j.with] <= j.ticks /\ j.ticks <= ServiceLife
  BY <1>1 DEF RequestGood, Holds
<1>3. age[j.sub][j.with] \in Nat /\ j.ticks \in Nat
  BY <1>1, <1>2 DEF IInv, TypeOK, RequestRows
<1>4. age[j.sub][j.with] <= ServiceLife
  BY <1>2, <1>3, LongIsNat
<1>5. Issue(j.sub, j.with) /\ Ends(k) /\ UNCHANGED <<student, required, parent, codes, age, latest, opened>>
  BY DEF AnswerLogin, rows, history
<1> HIDE DEF j
<1> QED BY <1>2, <1>4, <1>5, IssueStep

-----------------------------------------------------------------------------
(* The student's row changes.                                              *)

\* A request that another has overtaken is the same but for the mark.
LEMMA OvertakenByEffect ==
    ASSUME NEW j \in RequestRows, NEW c
    PROVE  LET i == OvertakenBy(c, j)
           IN /\ i \in RequestRows
              /\ i.pc = j.pc /\ i.sub = j.sub /\ i.with = j.with /\ i.new = j.new
              /\ i.code = j.code /\ i.ticks = j.ticks
              /\ ~i.overtaken => ~j.overtaken
              /\ ~i.overtaken /\ j.pc = "change" /\ j.sub = c => PasswordOf(student'[c]) = PasswordOf(student[c])
<1> DEFINE now == j.overtaken \/ (j.pc = "change" /\ j.sub = c /\ PasswordOf(student'[c]) # PasswordOf(student[c]))
           i == [j EXCEPT !.overtaken = now]
<1>1. now \in BOOLEAN
  OBVIOUS
<1>2. OvertakenBy(c, j) = i
  BY DEF OvertakenBy
<1>3. ~now => ~j.overtaken /\ (j.pc = "change" /\ j.sub = c => PasswordOf(student'[c]) = PasswordOf(student[c]))
  OBVIOUS
<1> HIDE DEF now
<1>4. i \in RequestRows /\ i.overtaken = now
      /\ i.pc = j.pc /\ i.sub = j.sub /\ i.with = j.with /\ i.new = j.new
      /\ i.code = j.code /\ i.ticks = j.ticks
  BY <1>1 DEF RequestRows
<1> HIDE DEF i
<1> QED BY <1>2, <1>3, <1>4

\* The row of student c becomes now; the requests go on, overtaken or not,
\* or end.
LEMMA StudentStep ==
    ASSUME IInv, NEW c \in Children, NEW now \in StudentRows,
           student' = [student EXCEPT ![c] = now], age' = Refreshed,
           request' \in [Requests -> RequestRows],
           \A i \in Requests : request'[i] \in {Idle, OvertakenBy(c, request[i])},
           UNCHANGED <<required, parent, sessions, codes, latest, opened>>
    PROVE  IInv'
<1>1. student' \in [Children -> StudentRows] /\ \A x \in Children : x # c => student'[x] = student[x]
  BY DEF IInv, TypeOK
<1>2. age' \in [Children -> [Credentials -> Nat]]
  BY DEF IInv, TypeOK, Refreshed
<1>3. \A x \in Children, w \in Credentials :
         /\ age'[x][w] \in Nat /\ age[x][w] \in Nat
         /\ age'[x][w] = IF w \in OpensOf(student', x) THEN 0 ELSE age[x][w]
  BY DEF IInv, TypeOK, Refreshed
<1>4. \A x \in Children, w \in Credentials : age'[x][w] <= age[x][w]
  BY <1>3
<1>5. TypeOK'
  BY <1>1, <1>2 DEF IInv, TypeOK
<1>6. AgeInv'
  BY <1>3, <1>4, LongIsNat DEF IInv, AgeInv, OpensOf, Long
<1>7. SessionsInv'
  <2> SUFFICES ASSUME NEW t \in sessions, t.sub \in Children, t.with \in Credentials
               PROVE  age'[t.sub][t.with] + t.left <= AccessLife + ServiceLife
    BY DEF IInv, SessionsInv
  <2>1. t.left \in Nat /\ age[t.sub][t.with] + t.left <= AccessLife + ServiceLife
    BY DEF IInv, TypeOK, SessionRows, SessionsInv
  <2> QED BY <2>1, <1>3, <1>4, LongIsNat
<1>8. CodesInv'
  BY DEF IInv, CodesInv
<1>9. RequestsInv'
  <2> SUFFICES ASSUME NEW i \in Requests PROVE RequestGood(request[i])'
    BY DEF RequestsInv
  <2> DEFINE j == request[i]
             n == request'[i]
  <2>1. CASE n = Idle
    BY <2>1, IdleIsGood DEF RequestGood
  <2>2. CASE n = OvertakenBy(c, j)
    <3>1. j \in RequestRows /\ RequestGood(j)
      BY DEF IInv, TypeOK, RequestsInv
    <3>2. /\ n.pc = j.pc /\ n.sub = j.sub /\ n.with = j.with /\ n.new = j.new
          /\ n.code = j.code /\ n.ticks = j.ticks
          /\ ~n.overtaken => ~j.overtaken
          /\ ~n.overtaken /\ j.pc = "change" /\ j.sub = c => PasswordOf(student'[c]) = PasswordOf(student[c])
      BY <2>2, <3>1, OvertakenByEffect
    <3>3. j.ticks \in Nat
      BY <3>1 DEF RequestRows
    <3> HIDE DEF j, n
    <3>4. n.pc = "login" => Holds(n) /\ age'[n.sub][n.with] <= n.ticks
      BY <3>1, <3>2, <3>3, <1>3, <1>4 DEF RequestGood, Holds
    <3>5. n.pc \in {"page", "shown"} => Holds(n) /\ age'[n.sub][n.with] < AccessLife + ServiceLife + n.ticks
      BY <3>1, <3>2, <3>3, <1>3, <1>4, LongIsNat DEF RequestGood, Holds
    <3>6. n.pc = "change" => /\ n.sub \in Children /\ n.new \in Passwords
                             /\ ~n.overtaken => n.with = PasswordOf(student'[n.sub])
      BY <3>1, <3>2, <1>1 DEF RequestGood, PortalPassword
    <3>7. n.ticks <= ServiceLife
      BY <3>1, <3>2 DEF RequestGood
    <3>8. n.pc \in {"update", "insert", "link"} => n.sub \in Callers
      BY <3>1, <3>2 DEF RequestGood
    <3>9. n.pc = "clear" =>
             /\ n.sub \in Callers
             /\ 0 < n.code /\ n.code <= codes
             /\ \A q \in Callers \ {n.sub} : n.code # latest[q]
             /\ ~n.overtaken => n.code \notin opened /\ n.code = latest[n.sub] /\ n.code = parent[n.sub].code
      BY <3>1, <3>2 DEF RequestGood
    <3> QED BY <3>4, <3>5, <3>6, <3>7, <3>8, <3>9 DEF RequestGood, Holds, PortalPassword, n
  <2> QED BY <2>1, <2>2
<1> QED BY <1>5, <1>6, <1>7, <1>8, <1>9 DEF IInv
LEMMA StaffKeeps ==
    ASSUME IInv, NEW c \in Children, NEW now \in StudentRows, StaffChanges(c, now)
    PROVE  IInv'
<1>1. request' = [k \in Requests |-> OvertakenBy(c, request[k])]
  BY DEF StaffChanges
<1>2. request' \in [Requests -> RequestRows]
  BY <1>1, OvertakenByEffect DEF IInv, TypeOK
<1>3. \A i \in Requests : request'[i] \in {Idle, OvertakenBy(c, request[i])}
  BY <1>1
<1>4. /\ student' = [student EXCEPT ![c] = now] /\ age' = Refreshed
      /\ UNCHANGED <<required, parent, sessions, codes, latest, opened>>
  BY DEF StaffChanges
<1> QED BY <1>2, <1>3, <1>4, StudentStep

LEMMA OfficeKeeps == ASSUME IInv, Office PROVE IInv'
<1>1. PICK c \in Children : \/ \E phone \in Phones : SetParentPhone(c, phone)
                            \/ \E new \in Passwords : ResetPortalPassword(c, new)
                            \/ DeactivateStudent(c) \/ ReactivateStudent(c)
  BY DEF Office
<1>2. student[c] \in StudentRows
  BY DEF IInv, TypeOK
<1>3. ASSUME NEW phone \in Phones, SetParentPhone(c, phone) PROVE IInv'
  <2>1. [student[c] EXCEPT !.phone = phone] \in StudentRows
    BY <1>2, <1>3 DEF StudentRows
  <2> QED BY <1>3, <2>1, StaffKeeps DEF SetParentPhone
<1>4. ASSUME NEW new \in Passwords, ResetPortalPassword(c, new) PROVE IInv'
  <2>1. [student[c] EXCEPT !.hash = new] \in StudentRows
    BY <1>2, <1>4 DEF StudentRows
  <2> QED BY <1>4, <2>1, StaffKeeps DEF ResetPortalPassword
<1>5. ASSUME NEW b \in BOOLEAN PROVE [student[c] EXCEPT !.active = b] \in StudentRows
  BY <1>2, <1>5 DEF StudentRows
<1>6. CASE DeactivateStudent(c)
  BY <1>5, <1>6, StaffKeeps DEF DeactivateStudent
<1>7. CASE ReactivateStudent(c)
  BY <1>5, <1>7, StaffKeeps DEF ReactivateStudent
<1> QED BY <1>1, <1>3, <1>4, <1>6, <1>7

LEMMA WritePasswordKeeps == ASSUME IInv, NEW k \in Requests, WritePortalPassword(k) PROVE IInv'
<1> DEFINE c == request[k].sub
           now == [student[c] EXCEPT !.hash = request[k].new]
<1>1. c \in Children /\ request[k].new \in Passwords
  BY DEF WritePortalPassword, IInv, RequestsInv, RequestGood
<1>2. student[c] \in StudentRows
  BY <1>1 DEF IInv, TypeOK
<1>3. now \in StudentRows
  BY <1>1, <1>2 DEF StudentRows
<1>4. student' = [student EXCEPT ![c] = now]
  BY <1>1 DEF WritePortalPassword, IInv, TypeOK
<1>5. request' = [j \in Requests |-> IF j = k THEN Idle ELSE OvertakenBy(c, request[j])]
  BY DEF WritePortalPassword
<1>6. request' \in [Requests -> RequestRows]
  BY <1>5, OvertakenByEffect, IdleIsGood DEF IInv, TypeOK
<1>7. \A i \in Requests : request'[i] \in {Idle, OvertakenBy(c, request[i])}
  BY <1>5
<1>8. age' = Refreshed /\ UNCHANGED <<required, parent, sessions, codes, latest, opened>>
  BY DEF WritePortalPassword
<1> HIDE DEF c, now
<1> QED BY <1>1, <1>3, <1>4, <1>6, <1>7, <1>8, StudentStep

-----------------------------------------------------------------------------
(* The parent's row changes.                                               *)

LEMMA OvertakenAtEffect ==
    ASSUME NEW j \in RequestRows, NEW phone
    PROVE  LET i == OvertakenAt(phone, j)
           IN /\ i \in RequestRows
              /\ i.pc = j.pc /\ i.sub = j.sub /\ i.with = j.with /\ i.new = j.new
              /\ i.code = j.code /\ i.ticks = j.ticks
              /\ ~i.overtaken => ~j.overtaken
              /\ ~i.overtaken /\ j.pc = "clear" => j.sub # phone
<1> DEFINE now == j.overtaken \/ (j.pc = "clear" /\ j.sub = phone)
           i == [j EXCEPT !.overtaken = now]
<1>1. now \in BOOLEAN
  OBVIOUS
<1>2. OvertakenAt(phone, j) = i
  BY DEF OvertakenAt
<1>3. ~now => ~j.overtaken /\ (j.pc = "clear" => j.sub # phone)
  OBVIOUS
<1> HIDE DEF now
<1>4. i \in RequestRows /\ i.overtaken = now
      /\ i.pc = j.pc /\ i.sub = j.sub /\ i.with = j.with /\ i.new = j.new
      /\ i.code = j.code /\ i.ticks = j.ticks
  BY <1>1 DEF RequestRows
<1> HIDE DEF i
<1> QED BY <1>2, <1>3, <1>4

\* What a request must be, but for the code it clears.
Elsewhere(j) ==
    /\ j.ticks <= ServiceLife
    /\ j.pc = "login" => Holds(j) /\ age[j.sub][j.with] <= j.ticks
    /\ j.pc \in {"page", "shown"} => Holds(j) /\ age[j.sub][j.with] < AccessLife + ServiceLife + j.ticks
    /\ j.pc = "change" => /\ j.sub \in Children /\ j.new \in Passwords
                          /\ ~j.overtaken => j.with = PortalPassword(j.sub)
    /\ j.pc \in {"update", "insert", "link"} => j.sub \in Callers

LEMMA OvertakenAtElsewhere ==
    ASSUME NEW j \in RequestRows, NEW phone, RequestGood(j) PROVE Elsewhere(OvertakenAt(phone, j))
<1> DEFINE i == OvertakenAt(phone, j)
<1>1. /\ i.pc = j.pc /\ i.sub = j.sub /\ i.with = j.with /\ i.new = j.new
      /\ i.ticks = j.ticks /\ (~i.overtaken => ~j.overtaken)
  BY OvertakenAtEffect
<1> HIDE DEF i
<1>2. Elsewhere(i)
  BY <1>1 DEF RequestGood, Elsewhere, Holds
<1> QED BY <1>2 DEF i

\* A new code is stored and sent: it is nobody else's, and no request that
\* clears another one of this phone goes on unmarked.
LEMMA SendsKeeps ==
    ASSUME IInv, NEW k \in Requests, NEW pc \in {"idle", "link"}, SendsCode(k, pc),
           request[k].sub \in Callers
    PROVE  IInv'
<1> DEFINE phone == request[k].sub
<1>1. phone \in Callers
  OBVIOUS
<1>2. /\ codes \in Nat /\ codes' = codes + 1
      /\ parent' = [parent EXCEPT ![phone] = [row |-> TRUE, code |-> codes', left |-> CodeLife]]
      /\ latest' = [latest EXCEPT ![phone] = codes']
      /\ request' = [j \in Requests |-> IF j # k THEN OvertakenAt(phone, request[j])
                                        ELSE IF pc = "idle" THEN Idle ELSE [request[k] EXCEPT !.pc = pc]]
      /\ UNCHANGED <<student, required, sessions, age, opened>>
  BY DEF SendsCode, IInv, TypeOK
<1> HIDE DEF phone
<1>3. /\ parent' \in [Callers -> [row : BOOLEAN, code : Nat, left : Nat]]
      /\ latest' \in [Callers -> Nat] /\ codes' \in Nat
  BY <1>1, <1>2, LongIsNat DEF IInv, TypeOK
<1>4. \A p \in Callers : /\ latest'[p] = IF p = phone THEN codes' ELSE latest[p]
                         /\ parent'[p].code = IF p = phone THEN codes' ELSE parent[p].code
                         /\ latest[p] \in Nat
  BY <1>2 DEF IInv, TypeOK
<1>5. CodesInv'
  <2>1. \A p \in Callers : latest[p] <= codes
    BY DEF IInv, CodesInv
  <2>2. codes' \notin opened /\ codes' # 0
    BY <1>2 DEF IInv, CodesInv
  <2>3. \A p \in Callers : /\ latest'[p] <= codes'
                           /\ parent'[p].code # 0 => parent'[p].code = latest'[p] /\ parent'[p].code \notin opened
    BY <1>2, <1>4, <2>1, <2>2 DEF IInv, CodesInv
  <2>4. \A p, q \in Callers : p # q /\ latest'[p] = latest'[q] => latest'[p] = 0
    BY <1>2, <1>4, <2>1 DEF IInv, CodesInv
  <2>5. \A code \in opened : code \in Nat /\ code <= codes'
    BY <1>2 DEF IInv, CodesInv
  <2> QED BY <1>2, <2>3, <2>4, <2>5 DEF CodesInv
<1>6. \A i \in Requests : request[i] \in RequestRows /\ RequestGood(request[i])
  BY DEF IInv, TypeOK, RequestsInv
<1>7. ASSUME pc # "idle"
      PROVE  /\ request'[k] \in RequestRows /\ request'[k].pc = "link" /\ request'[k].sub \in Callers
             /\ request'[k].ticks <= ServiceLife
  <2>1. request'[k] = [request[k] EXCEPT !.pc = "link"]
    BY <1>2, <1>7
  <2>2. request[k] \in RequestRows /\ request[k].ticks <= ServiceLife
    BY <1>6 DEF RequestGood
  <2> QED BY <2>1, <2>2 DEF RequestRows
<1>8. request' \in [Requests -> RequestRows]
  <2> SUFFICES ASSUME NEW i \in Requests PROVE request'[i] \in RequestRows
    BY <1>2
  <2> QED BY <1>2, <1>6, <1>7, IdleIsGood, OvertakenAtEffect
<1>9. TypeOK'
  BY <1>2, <1>3, <1>8 DEF IInv, TypeOK
<1>10. AgeInv' /\ SessionsInv'
  BY <1>2 DEF IInv, AgeInv, SessionsInv, OpensOf, PasswordOf
<1>11. RequestsInv'
  <2> SUFFICES ASSUME NEW i \in Requests PROVE RequestGood(request[i])'
    BY DEF RequestsInv
  <2>1. CASE i = k /\ pc = "idle"
    <3>1. request'[i] = Idle
      BY <1>2, <2>1
    <3> QED BY <3>1, IdleIsGood DEF RequestGood
  <2>2. CASE i = k /\ pc # "idle"
    BY <1>7, <2>2 DEF RequestGood
  <2>3. CASE i # k
    <3> DEFINE j == request[i]
               n == OvertakenAt(phone, j)
    <3>1. request'[i] = n
      BY <1>2, <2>3
    <3>2. j \in RequestRows /\ RequestGood(j) /\ Elsewhere(n)
      BY <1>6, OvertakenAtElsewhere
    <3>3. n.pc = j.pc /\ n.sub = j.sub /\ n.code = j.code /\ (~n.overtaken => ~j.overtaken)
          /\ (~n.overtaken /\ j.pc = "clear" => j.sub # phone)
      BY <3>2, OvertakenAtEffect
    <3>4. j.code \in Nat
      BY <3>2 DEF RequestRows
    <3> HIDE DEF j, n
    <3>5. j.pc = "clear" =>
             /\ j.sub \in Callers /\ 0 < j.code /\ j.code <= codes
             /\ \A q \in Callers \ {j.sub} : j.code # latest[q]
             /\ ~j.overtaken => j.code \notin opened /\ j.code = latest[j.sub] /\ j.code = parent[j.sub].code
      BY <3>2 DEF RequestGood
    <3>6. j.pc = "clear" => j.code <= codes' /\ j.code # codes'
      BY <1>2, <3>4, <3>5
    <3>7. n.pc = "clear" =>
             /\ n.sub \in Callers /\ 0 < n.code /\ n.code <= codes'
             /\ \A q \in Callers \ {n.sub} : n.code # latest'[q]
             /\ ~n.overtaken => n.code \notin opened /\ n.code = latest'[n.sub] /\ n.code = parent'[n.sub].code
      BY <1>4, <3>3, <3>5, <3>6
    <3>8. Elsewhere(request'[i])
      BY <3>1, <3>2
    <3>9. Elsewhere(request[i])'
      BY <1>2, <3>8 DEF Elsewhere, Holds, PortalPassword, PasswordOf
    <3> QED BY <1>2, <3>1, <3>7, <3>9 DEF Elsewhere, RequestGood
  <2> QED BY <2>1, <2>2, <2>3
<1> QED BY <1>5, <1>9, <1>10, <1>11 DEF IInv

LEMMA UpdateCodeKeeps == ASSUME IInv, NEW k \in Requests, UpdateCode(k) PROVE IInv'
<1>1. request[k].sub \in Callers
  BY DEF UpdateCode, IInv, RequestsInv, RequestGood
<1> QED BY <1>1, SendsKeeps DEF UpdateCode

LEMMA InsertParentKeeps == ASSUME IInv, NEW k \in Requests, InsertParent(k) PROVE IInv'
<1>1. request[k].sub \in Callers
  BY DEF InsertParent, IInv, RequestsInv, RequestGood
<1>2. CASE SendsCode(k, "link")
  BY <1>1, <1>2, SendsKeeps
<1>3. CASE Ends(k) /\ UNCHANGED <<rows, sessions, changes, codes, history>>
  BY <1>3, EndStep DEF rows, history
<1> QED BY <1>2, <1>3 DEF InsertParent
\* The code has opened a session: it is cleared, and with it whatever its
\* phone has by now.
LEMMA ClearKeeps == ASSUME IInv, NEW k \in Requests, ClearCode(k) PROVE IInv'
<1> DEFINE phone == request[k].sub
           used == request[k].code
<1>1. /\ phone \in Callers /\ used \in Nat /\ used <= codes
      /\ \A q \in Callers \ {phone} : used # latest[q]
  BY DEF ClearCode, IInv, TypeOK, RequestRows, RequestsInv, RequestGood
<1>2. /\ parent' = [parent EXCEPT ![phone] = [row |-> TRUE, code |-> 0, left |-> 0]]
      /\ opened' = opened \cup {used}
      /\ request' = [j \in Requests |-> IF j = k THEN Idle ELSE OvertakenAt(phone, request[j])]
      /\ UNCHANGED <<student, required, codes, age, latest>>
  BY DEF ClearCode
<1>3. PICK kept \in SUBSET sessions : sessions' = kept \cup {[sub |-> phone, with |-> NoPassword, left |-> AccessLife]}
  BY DEF ClearCode, Issue
<1> HIDE DEF phone, used
<1>4. phone \in Phones /\ phone \notin Children
  BY <1>1, PortalAssumption
<1>5. sessions' \subseteq SessionRows
  BY <1>3, <1>4, LongIsNat DEF IInv, TypeOK, SessionRows
<1>6. \A i \in Requests : request[i] \in RequestRows /\ RequestGood(request[i])
  BY DEF IInv, TypeOK, RequestsInv
<1>7. request' \in [Requests -> RequestRows]
  BY <1>2, <1>6, IdleIsGood, OvertakenAtEffect
<1>8. parent' \in [Callers -> [row : BOOLEAN, code : Nat, left : Nat]]
  BY <1>2 DEF IInv, TypeOK
<1>9. TypeOK'
  BY <1>2, <1>5, <1>7, <1>8 DEF IInv, TypeOK
<1>10. AgeInv'
  BY <1>2 DEF IInv, AgeInv, OpensOf, PasswordOf
<1>11. SessionsInv'
  BY <1>2, <1>3, <1>4, LongIsNat DEF IInv, SessionsInv
<1>12. \A p \in Callers : parent'[p].code = IF p = phone THEN 0 ELSE parent[p].code
  BY <1>2 DEF IInv, TypeOK
<1>13. CodesInv'
  BY <1>1, <1>2, <1>12 DEF IInv, CodesInv
<1>14. RequestsInv'
  <2> SUFFICES ASSUME NEW i \in Requests PROVE RequestGood(request[i])'
    BY DEF RequestsInv
  <2>1. CASE i = k
    BY <1>2, <2>1, IdleIsGood DEF RequestGood
  <2>2. CASE i # k
    <3> DEFINE j == request[i]
               n == OvertakenAt(phone, j)
    <3>1. request'[i] = n
      BY <1>2, <2>2
    <3>2. j \in RequestRows /\ RequestGood(j) /\ Elsewhere(n)
      BY <1>6, OvertakenAtElsewhere
    <3>3. n.pc = j.pc /\ n.sub = j.sub /\ n.code = j.code /\ (~n.overtaken => ~j.overtaken)
          /\ (~n.overtaken /\ j.pc = "clear" => j.sub # phone)
      BY <3>2, OvertakenAtEffect
    <3> HIDE DEF j, n
    <3>4. j.pc = "clear" =>
             /\ j.sub \in Callers /\ 0 < j.code /\ j.code <= codes
             /\ \A q \in Callers \ {j.sub} : j.code # latest[q]
             /\ ~j.overtaken => j.code \notin opened /\ j.code = latest[j.sub] /\ j.code = parent[j.sub].code
      BY <3>2 DEF RequestGood
    <3>5. n.pc = "clear" =>
             /\ n.sub \in Callers /\ 0 < n.code /\ n.code <= codes
             /\ \A q \in Callers \ {n.sub} : n.code # latest[q]
             /\ ~n.overtaken => n.code \notin opened' /\ n.code = latest[n.sub] /\ n.code = parent'[n.sub].code
      BY <1>1, <1>2, <1>12, <3>3, <3>4
    <3>6. Elsewhere(request'[i])
      BY <3>1, <3>2
    <3>7. Elsewhere(request[i])'
      BY <1>2, <3>6 DEF Elsewhere, Holds, PortalPassword, PasswordOf
    <3> QED BY <1>2, <3>1, <3>5, <3>7 DEF Elsewhere, RequestGood
  <2> QED BY <2>1, <2>2
<1> QED BY <1>9, <1>10, <1>11, <1>13, <1>14 DEF IInv

-----------------------------------------------------------------------------
(* Time passes.                                                            *)

LEMMA TickKeeps == ASSUME IInv, Tick PROVE IInv'
<1>1. UNCHANGED <<student, required, codes, latest, opened>>
  BY DEF Tick
<1>2. \A c \in Children, w \in Credentials :
         /\ age[c][w] \in Nat /\ age[c][w] <= Long
         /\ age'[c][w] = IF w \in OpensOf(student, c) THEN 0
                         ELSE IF age[c][w] < Long THEN age[c][w] + 1 ELSE Long
  BY DEF Tick, IInv, TypeOK, AgeInv
<1>3. \A c \in Children, w \in Credentials :
         age'[c][w] \in Nat /\ age'[c][w] <= Long /\ age'[c][w] <= age[c][w] + 1
  BY <1>2, LongIsNat
<1>4. age' \in [Children -> [Credentials -> Nat]]
  <2> DEFINE older(c, w) == IF w \in OpensOf(student, c) THEN 0
                            ELSE IF age[c][w] < Long THEN age[c][w] + 1 ELSE Long
  <2>1. \A c \in Children, w \in Credentials : older(c, w) \in Nat
    BY <1>2, LongIsNat
  <2>2. age' = [c \in Children |-> [w \in Credentials |-> older(c, w)]]
    BY DEF Tick
  <2> HIDE DEF older
  <2> QED BY <2>1, <2>2
<1>5. \A i \in Requests :
         /\ request[i] \in RequestRows /\ RequestGood(request[i])
         /\ request'[i] = IF request[i] = Idle THEN Idle ELSE [request[i] EXCEPT !.ticks = @ + 1]
         /\ request[i] # Idle => request[i].ticks < ServiceLife
  BY DEF Tick, IInv, TypeOK, RequestsInv
<1>6. ASSUME NEW i \in Requests, request[i] # Idle
      PROVE  /\ request'[i] \in RequestRows
             /\ request'[i].pc = request[i].pc /\ request'[i].sub = request[i].sub
             /\ request'[i].with = request[i].with /\ request'[i].new = request[i].new
             /\ request'[i].code = request[i].code /\ request'[i].overtaken = request[i].overtaken
             /\ request[i].ticks \in Nat /\ request'[i].ticks = request[i].ticks + 1
  <2> DEFINE j == request[i]
             later == j.ticks + 1
  <2>1. j \in RequestRows /\ request'[i] = [j EXCEPT !.ticks = later]
    BY <1>5, <1>6
  <2>2. j.ticks \in Nat /\ later \in Nat /\ later = j.ticks + 1
    BY <2>1 DEF RequestRows
  <2> HIDE DEF j, later
  <2>3. LET n == [j EXCEPT !.ticks = later]
        IN /\ n \in RequestRows /\ n.ticks = later
           /\ n.pc = j.pc /\ n.sub = j.sub /\ n.with = j.with /\ n.new = j.new
           /\ n.code = j.code /\ n.overtaken = j.overtaken
    BY <2>1, <2>2 DEF RequestRows
  <2> QED BY <2>1, <2>2, <2>3 DEF j
<1>7. request' \in [Requests -> RequestRows]
  <2>1. \A i \in Requests : request'[i] \in RequestRows
    BY <1>5, <1>6, IdleIsGood
  <2>2. request' = [i \in Requests |-> request'[i]]
    BY DEF Tick
  <2> QED BY <2>1, <2>2
<1>8. \A p \in Callers : parent'[p] \in [row : BOOLEAN, code : Nat, left : Nat] /\ parent'[p].code = parent[p].code
  <2> SUFFICES ASSUME NEW p \in Callers
               PROVE  parent'[p] \in [row : BOOLEAN, code : Nat, left : Nat] /\ parent'[p].code = parent[p].code
    OBVIOUS
  <2>1. parent[p] \in [row : BOOLEAN, code : Nat, left : Nat]
    BY DEF IInv, TypeOK
  <2>2. Down(parent[p].left) \in Nat
    BY <2>1 DEF Down
  <2>3. parent'[p] = [parent[p] EXCEPT !.left = Down(parent[p].left)]
    BY DEF Tick
  <2> QED BY <2>1, <2>2, <2>3
<1>9. parent' \in [Callers -> [row : BOOLEAN, code : Nat, left : Nat]]
  <2>1. parent' = [p \in Callers |-> parent'[p]]
    BY DEF Tick
  <2> QED BY <1>8, <2>1
<1>10. \A t \in sessions' : \E x \in sessions : /\ x \in SessionRows /\ x.left > 1
                                              /\ t = [x EXCEPT !.left = @ - 1]
  BY DEF Tick, IInv, TypeOK
<1>11. ASSUME NEW t \in sessions'
       PROVE  /\ t \in SessionRows /\ t.left > 0
              /\ t.sub \in Children => /\ t.with \in Credentials
                                       /\ age'[t.sub][t.with] + t.left <= AccessLife + ServiceLife
  <2>1. PICK x \in sessions : x \in SessionRows /\ x.left > 1 /\ t = [x EXCEPT !.left = @ - 1]
    BY <1>10
  <2>2. x.left \in Nat /\ x.left - 1 \in Nat /\ x.left - 1 > 0
    BY <2>1 DEF SessionRows
  <2>3. t \in SessionRows /\ t.left = x.left - 1 /\ t.sub = x.sub /\ t.with = x.with
    BY <2>1, <2>2 DEF SessionRows
  <2>4. ASSUME x.sub \in Children
        PROVE  x.with \in Credentials /\ age'[x.sub][x.with] + (x.left - 1) <= AccessLife + ServiceLife
    <3>1. x.with \in Credentials /\ age[x.sub][x.with] + x.left <= AccessLife + ServiceLife
      BY <2>4 DEF IInv, SessionsInv
    <3>2. age[x.sub][x.with] \in Nat /\ age'[x.sub][x.with] \in Nat /\ age'[x.sub][x.with] <= age[x.sub][x.with] + 1
      BY <2>4, <3>1, <1>2, <1>3
    <3> QED BY <3>1, <3>2, <2>2, LongIsNat
  <2> QED BY <2>2, <2>3, <2>4
<1>12. TypeOK'
  BY <1>1, <1>4, <1>7, <1>9, <1>11 DEF IInv, TypeOK
<1>13. AgeInv'
  BY <1>1, <1>2, <1>3 DEF AgeInv, OpensOf, PasswordOf, Long
<1>14. SessionsInv'
  BY <1>11 DEF SessionsInv
<1>15. CodesInv'
  BY <1>1, <1>8 DEF IInv, CodesInv
<1>16. RequestsInv'
  <2> SUFFICES ASSUME NEW i \in Requests PROVE RequestGood(request[i])'
    BY DEF RequestsInv
  <2>1. CASE request[i] = Idle
    BY <1>5, <2>1, IdleIsGood
  <2>2. CASE request[i] # Idle
    <3> DEFINE j == request[i]
               n == request'[i]
    <3>1. /\ n.pc = j.pc /\ n.sub = j.sub /\ n.with = j.with /\ n.new = j.new
          /\ n.code = j.code /\ n.overtaken = j.overtaken
          /\ j.ticks \in Nat /\ n.ticks = j.ticks + 1 /\ j.ticks < ServiceLife
      BY <1>5, <1>6, <2>2
    <3>2. RequestGood(j)
      BY <1>5
    <3> HIDE DEF j, n
    <3>3. n.ticks <= ServiceLife
      BY <3>1, LongIsNat
    <3>4. j.pc \in {"login", "page", "shown"} =>
             /\ Holds(j)
             /\ age[j.sub][j.with] \in Nat /\ age'[j.sub][j.with] \in Nat
             /\ age'[j.sub][j.with] <= age[j.sub][j.with] + 1
      BY <3>2, <1>2, <1>3 DEF RequestGood, Holds
    <3>5. n.pc = "login" => Holds(n) /\ age'[n.sub][n.with] <= n.ticks
      BY <3>1, <3>2, <3>4 DEF RequestGood, Holds
    <3>6. n.pc \in {"page", "shown"} => Holds(n) /\ age'[n.sub][n.with] < AccessLife + ServiceLife + n.ticks
      BY <3>1, <3>2, <3>4, LongIsNat DEF RequestGood, Holds
    <3>7. n.pc = "change" => /\ n.sub \in Children /\ n.new \in Passwords
                             /\ ~n.overtaken => n.with = PasswordOf(student'[n.sub])
      BY <3>1, <3>2, <1>1 DEF RequestGood, PortalPassword
    <3>8. n.pc \in {"update", "insert", "link"} => n.sub \in Callers
      BY <3>1, <3>2 DEF RequestGood
    <3>9. n.pc = "clear" =>
             /\ n.sub \in Callers /\ 0 < n.code /\ n.code <= codes'
             /\ \A q \in Callers \ {n.sub} : n.code # latest'[q]
             /\ ~n.overtaken => n.code \notin opened' /\ n.code = latest'[n.sub] /\ n.code = parent'[n.sub].code
      BY <3>1, <3>2, <1>1, <1>8 DEF RequestGood
    <3> QED BY <3>3, <3>5, <3>6, <3>7, <3>8, <3>9 DEF RequestGood, Holds, PortalPassword, n
  <2> QED BY <2>1, <2>2
<1> QED BY <1>12, <1>13, <1>14, <1>15, <1>16 DEF IInv

LEMMA StepKeepsIInv == IInv /\ [Next]_vars => IInv'
<1> SUFFICES ASSUME IInv, [Next]_vars PROVE IInv'
  OBVIOUS
<1>1. ASSUME NEW k \in Requests, Parent(k) PROVE IInv'
  <2>1. \A c \in Children, supplied \in Credentials : LoginByAdmissionNo(k, c, supplied) => IInv'
    BY LoginKeeps
  <2>2. \A t \in sessions, current, new \in Passwords : ReadPortalPassword(k, t, current, new) => IInv'
    BY ReadPasswordKeeps
  <2>3. \A phone \in Callers : RequestOtp(k, phone) => IInv'
    BY RequestOtpKeeps
  <2>4. \A phone \in Callers, code \in 1 .. codes : VerifyOtp(k, phone, code) => IInv'
    <3>1. 1 .. codes \subseteq Nat
      BY DEF IInv, TypeOK
    <3> QED BY <3>1, VerifyKeeps
  <2>5. \A t \in sessions, c \in Children, page \in ActiveOnly \cup Anybodys : AskPage(k, t, c, page) => IInv'
    BY AskPageKeeps
  <2>6. AnswerLogin(k) \/ WritePortalPassword(k) => IInv'
    BY AnswerLoginKeeps, WritePasswordKeeps
  <2>7. UpdateCode(k) \/ InsertParent(k) \/ LinkStudents(k) \/ ClearCode(k) => IInv'
    BY UpdateCodeKeeps, InsertParentKeeps, LinkKeeps, ClearKeeps
  <2>8. ReadPage(k) \/ Over(k) => IInv'
    BY ReadPageKeeps, OverKeeps
  <2> QED BY <1>1, <2>1, <2>2, <2>3, <2>4, <2>5, <2>6, <2>7, <2>8 DEF Parent
<1>2. CASE UNCHANGED vars
  <2>1. UNCHANGED <<student, required, parent, sessions, request, codes, age, latest, opened>>
    BY <1>2 DEF vars, rows, history
  <2>2. TypeOK' /\ AgeInv' /\ SessionsInv' /\ CodesInv'
    BY <2>1 DEF IInv, TypeOK, AgeInv, SessionsInv, CodesInv, OpensOf, PasswordOf
  <2>3. RequestsInv'
    BY <2>1 DEF IInv, RequestsInv, RequestGood, Holds, PortalPassword, PasswordOf
  <2> QED BY <2>2, <2>3 DEF IInv
<1> QED BY <1>1, <1>2, OfficeKeeps, TickKeeps DEF Next

LEMMA IInvHolds == Spec => []IInv
  BY InitIInv, StepKeepsIInv, PTL DEF Spec

-----------------------------------------------------------------------------
(* The theorems.                                                           *)

\* The state is always of its type.
THEOREM TypeCorrect == Spec => []TypeOK
<1>1. IInv => TypeOK
  BY DEF IInv
<1> QED BY <1>1, IInvHolds, PTL

\* A page is shown only to a session whose credential opened the child's
\* pages at most a token's life and two requests ago.
THEOREM PagesFollow == Spec => []PagesFollowTheAccount
<1>1. ASSUME IInv PROVE PagesFollowTheAccount
  <2>1. \A t \in sessions : t.sub \in Children => age[t.sub][t.with] + t.left <= AccessLife + ServiceLife
    BY <1>1 DEF IInv, SessionsInv
  <2>2. ASSUME NEW k \in Requests, request[k].pc = "shown"
        PROVE  age[request[k].sub][request[k].with] < Long
    <3> DEFINE j == request[k]
    <3>1. /\ Holds(j) /\ j.ticks <= ServiceLife /\ j.ticks \in Nat
          /\ age[j.sub][j.with] < AccessLife + ServiceLife + j.ticks
      BY <1>1, <2>2 DEF IInv, TypeOK, RequestRows, RequestsInv, RequestGood
    <3>2. age[j.sub][j.with] \in Nat
      BY <1>1, <3>1 DEF IInv, TypeOK, Holds
    <3> HIDE DEF j
    <3>3. age[j.sub][j.with] < AccessLife + 2 * ServiceLife + 1
      BY <3>1, <3>2, LongIsNat
    <3> QED BY <3>3 DEF Long, j
  <2> QED BY <2>1, <2>2 DEF PagesFollowTheAccount
<1> QED BY <1>1, IInvHolds, PTL

\* A change of password replaces the one it was checked against, and a code
\* opens one session, while it is the last one sent, unless somebody wrote
\* the row between the request's check and its UPDATE.
THEOREM UsesWhatItChecked == Spec => UsedWhatItChecked
<1>1. ASSUME IInv, NEW k \in Requests
      PROVE  LET r == request[k]
             IN ~r.overtaken /\ request'[k] = Idle =>
                  /\ r.pc = "change" /\ student' # student => r.with = PortalPassword(r.sub)
                  /\ r.pc = "clear" /\ sessions' # sessions =>
                        r.code \notin opened /\ r.code = latest[r.sub] /\ r.code = parent[r.sub].code
  BY <1>1 DEF IInv, RequestsInv, RequestGood
<1>2. IInv /\ [Next]_vars =>
        [\A k \in Requests :
          LET r == request[k]
          IN ~r.overtaken /\ request'[k] = Idle =>
               /\ r.pc = "change" /\ student' # student => r.with = PortalPassword(r.sub)
               /\ r.pc = "clear" /\ sessions' # sessions =>
                     r.code \notin opened /\ r.code = latest[r.sub] /\ r.code = parent[r.sub].code]_vars
  BY <1>1
<1> QED BY <1>2, IInvHolds, PTL DEF Spec, UsedWhatItChecked
=============================================================================
