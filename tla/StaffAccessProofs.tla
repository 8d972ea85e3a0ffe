--------------------------- MODULE StaffAccessProofs ---------------------------
(***************************************************************************)
(* How long a revoked role is served, which roles survive overlapping      *)
(* replacements, and who may write to a class, for any staff, phones,      *)
(* roles, requests and lives of tokens.                                    *)
(***************************************************************************)
EXTENDS StaffAccess, TLAPS

StaffRows == [row : BOOLEAN, active : BOOLEAN, phone : Phones \cup {NoPhone}, login : Phones \cup {NoPhone}]
Assignments == [staff : Staff, class : Classes]
Tokens == [login : Phones, roles : SUBSET Roles, left : Nat]
Readings == [login : Phones \cup {NoPhone}, roles : SUBSET Roles, ticks : Nat]
Progress == {"ready", "check", "user", "link", "delete", "insert", "upsert", "done"}
RequestRows == [pc : Progress, from : {"roles", "import"}, staff : Staff \cup {NoPhone},
                login : Phones \cup {NoPhone}, asked : SUBSET Roles]
Services == [pc : {"idle", "authenticated", "found", "scoped", "written"}, login : Phones \cup {NoPhone},
             roles : SUBSET Roles, staff : Staff \cup {NoPhone}, scope : SUBSET Classes, ticks : Nat]

TypeOK ==
    /\ staff \in [Staff -> StaffRows]
    /\ users \subseteq Phones
    /\ assigned \subseteq Assignments
    /\ roles \in [Phones -> SUBSET Roles]
    /\ access \subseteq Tokens /\ refresh \subseteq Tokens
    /\ signIn \in [SignIns -> Readings]
    /\ request \in [Requests -> RequestRows]
    /\ serving \in Services
    /\ notHeld \in [Phones -> [Roles -> Nat]]
    /\ current \in [Phones -> SUBSET Requests]
    /\ known \in [staff : SUBSET Staff, assigned : SUBSET Assignments]

\* A row of staff has a phone number.
StaffInv == \A s \in Staff : staff[s].row => staff[s].phone \in Phones

\* The age of a role, and of the roles in a token.
RolesInv ==
    \A p \in Phones : \A r \in Roles :
        notHeld[p][r] <= Long /\ (r \in roles[p] => notHeld[p][r] = 0)

TokensInv ==
    \A t \in access :
        t.left > 0 /\ \A r \in t.roles : notHeld[t.login][r] + t.left <= AccessLife + ServiceLife

\* What a login or a refresh has read is no older than its time in service.
SignInsInv ==
    \A n \in SignIns : signIn[n] # NotSigning =>
        /\ signIn[n].login \in Phones /\ signIn[n].ticks <= ServiceLife
        /\ \A r \in signIn[n].roles : notHeld[signIn[n].login][r] <= signIn[n].ticks

\* A request in service: its roles are as old as its token let them be, and
\* what it has read was so at some moment since it began.
ServingInv ==
    /\ serving.pc # "idle" =>
          /\ serving.login \in Phones
          /\ \A r \in serving.roles : notHeld[serving.login][r] < AccessLife + ServiceLife + serving.ticks
          /\ LinkedTo(serving.login) \subseteq known.staff
          /\ assigned \subseteq known.assigned
    /\ serving.pc = "found" => serving.staff \in known.staff
    /\ serving.pc = "scoped" =>
          \/ serving.roles \cap AdminRoles # {}
          \/ \A c \in serving.scope : \E a \in known.assigned : a.class = c /\ a.staff \in known.staff

\* A login holds what the current replacements asked for, those excepted that
\* are between their two statements.
ReplacementsInv ==
    /\ \A k \in Requests : request[k].pc \notin {"ready", "done"} => request[k].login \in Phones
    /\ \A p \in Phones :
          /\ \A k \in current[p] : request[k].login = p /\ request[k].pc \in {"insert", "upsert", "done"}
          /\ \A k \in Requests : request[k].pc = "insert" /\ request[k].login = p => k \in current[p]
          /\ \A r \in Roles :
                r \in roles[p] <=> \E k \in current[p] : request[k].pc # "insert" /\ r \in request[k].asked

IInv == TypeOK /\ StaffInv /\ RolesInv /\ TokensInv /\ SignInsInv /\ ServingInv /\ ReplacementsInv

-----------------------------------------------------------------------------
LEMMA LivesAreNat ==
    /\ Long \in Nat /\ AccessLife \in Nat /\ AccessLife > 0 /\ AccessLife <= Long
    /\ RefreshLife \in Nat /\ RefreshLife > 0 /\ ServiceLife \in Nat
  BY AccessAssumption DEF Long

LEMMA InitIInv == Init => IInv
<1> SUFFICES ASSUME Init PROVE IInv
  OBVIOUS
<1>1. \A s \in Staff : staff[s] = NoStaff
  BY DEF Init
<1>2. \A k \in Requests : request[k].pc = "ready"
  BY DEF Init, Ready
<1>3. TypeOK
  <2>1. staff \in [Staff -> StaffRows] /\ request \in [Requests -> RequestRows]
    BY DEF Init, NoStaff, StaffRows, Ready, RequestRows, Progress
  <2>2. serving \in Services /\ known \in [staff : SUBSET Staff, assigned : SUBSET Assignments]
    BY DEF Init, NotServing, Services, NothingKnown
  <2>3. notHeld \in [Phones -> [Roles -> Nat]]
    BY LivesAreNat DEF Init
  <2>4. signIn \in [SignIns -> Readings]
    BY DEF Init, NotSigning, Readings
  <2> QED BY <2>1, <2>2, <2>3, <2>4 DEF Init, TypeOK
<1>4. StaffInv
  BY <1>1 DEF NoStaff, StaffInv
<1>5. RolesInv /\ TokensInv /\ SignInsInv
  BY LivesAreNat DEF Init, RolesInv, TokensInv, SignInsInv
<1>6. ServingInv
  BY DEF Init, NotServing, ServingInv
<1>7. ReplacementsInv
  BY <1>2 DEF Init, ReplacementsInv
<1> QED BY <1>3, <1>4, <1>5, <1>6, <1>7 DEF IInv

-----------------------------------------------------------------------------
(* Staff and assignments.                                                  *)

\* What is observed keeps the request in service in step with the tables.
LEMMA ObserveKeeps ==
    ASSUME IInv, Observe, UNCHANGED <<serving, notHeld>>,
           staff' \in [Staff -> StaffRows], assigned' \subseteq Assignments
    PROVE  known' \in [staff : SUBSET Staff, assigned : SUBSET Assignments] /\ ServingInv'
<1>1. CASE serving.pc = "idle"
  BY <1>1 DEF Observe, NothingKnown, ServingInv
<1>2. CASE serving.pc # "idle"
  <2>1. known' = [staff |-> known.staff \cup {s \in Staff : staff'[s].active /\ staff'[s].login = serving.login},
                  assigned |-> known.assigned \cup assigned']
    BY <1>2 DEF Observe
  <2>2. known' \in [staff : SUBSET Staff, assigned : SUBSET Assignments]
    BY <2>1 DEF IInv, TypeOK
  <2>3. /\ known.staff \subseteq known'.staff /\ known.assigned \subseteq known'.assigned
        /\ assigned' \subseteq known'.assigned
        /\ {s \in Staff : staff'[s].active /\ staff'[s].login = serving.login} \subseteq known'.staff
    BY <2>1
  <2>4. ServingInv'
    BY <1>2, <2>3 DEF IInv, ServingInv, LinkedTo
  <2> QED BY <2>2, <2>4
<1> QED BY <1>1, <1>2

\* A step of the office, or the statement of a replacement that writes staff.
LEMMA PeopleStep ==
    ASSUME IInv, Observe,
           staff' \in [Staff -> StaffRows], assigned' \subseteq Assignments, StaffInv',
           request' \in [Requests -> RequestRows], ReplacementsInv',
           UNCHANGED <<users, roles, access, refresh, signIn, serving, notHeld, current>>
    PROVE  IInv'
<1>1. known' \in [staff : SUBSET Staff, assigned : SUBSET Assignments] /\ ServingInv'
  BY ObserveKeeps
<1>2. TypeOK'
  BY <1>1 DEF IInv, TypeOK
<1>3. RolesInv' /\ TokensInv' /\ SignInsInv'
  BY DEF IInv, RolesInv, TokensInv, SignInsInv
<1> QED BY <1>1, <1>2, <1>3 DEF IInv

LEMMA StaffStep ==
    ASSUME IInv, Observe, NEW s \in Staff, NEW now \in StaffRows, now.row => now.phone \in Phones,
           staff' = [staff EXCEPT ![s] = now],
           request' \in [Requests -> RequestRows], ReplacementsInv',
           UNCHANGED <<assigned, users, roles, access, refresh, signIn, serving, notHeld, current>>
    PROVE  IInv'
<1>1. staff' \in [Staff -> StaffRows]
  BY DEF IInv, TypeOK
<1>2. StaffInv'
  BY DEF IInv, TypeOK, StaffInv
<1>3. assigned' \subseteq Assignments
  BY DEF IInv, TypeOK
<1> QED BY <1>1, <1>2, <1>3, PeopleStep

LEMMA OfficeKeeps == ASSUME IInv, Office PROVE IInv'
<1>0. ChangesStaff => request' \in [Requests -> RequestRows] /\ ReplacementsInv'
  BY DEF ChangesStaff, IInv, TypeOK, ReplacementsInv
<1> USE <1>0 DEF ChangesStaff, tokens
<1>1. ASSUME NEW s \in Staff, NEW phone \in Phones, NEW login \in Phones \cup {NoPhone},
             CreateStaff(s, phone, login)
      PROVE  IInv'
  <2> DEFINE now == [row |-> TRUE, active |-> TRUE, phone |-> phone, login |-> login]
  <2>1. now \in StaffRows /\ now.phone \in Phones
    BY DEF StaffRows
  <2>2. staff' = [staff EXCEPT ![s] = now]
    BY <1>1 DEF CreateStaff
  <2> HIDE DEF now
  <2> QED BY <1>1, <2>1, <2>2, StaffStep DEF CreateStaff
<1>2. ASSUME NEW s \in Staff, NEW phone \in Phones, NEW login \in Phones \cup {NoPhone}, NEW active \in BOOLEAN,
             UpdateStaff(s, phone, login, active)
      PROVE  IInv'
  <2> DEFINE now == [row |-> TRUE, active |-> active, phone |-> phone, login |-> login]
  <2>1. now \in StaffRows /\ now.phone \in Phones
    BY DEF StaffRows
  <2>2. staff' = [staff EXCEPT ![s] = now]
    BY <1>2 DEF UpdateStaff
  <2> HIDE DEF now
  <2> QED BY <1>2, <2>1, <2>2, StaffStep DEF UpdateStaff
<1>3. ASSUME NEW s \in Staff, DeactivateStaff(s) PROVE IInv'
  <2> DEFINE now == [staff[s] EXCEPT !.active = FALSE]
  <2>1. staff[s] \in StaffRows /\ (staff[s].row => staff[s].phone \in Phones)
    BY DEF IInv, TypeOK, StaffInv
  <2>2. now \in StaffRows /\ (now.row => now.phone \in Phones)
    BY <2>1 DEF StaffRows
  <2>3. staff' = [staff EXCEPT ![s] = now]
    BY <1>3 DEF DeactivateStaff, IInv, TypeOK
  <2> HIDE DEF now
  <2> QED BY <1>3, <2>2, <2>3, StaffStep DEF DeactivateStaff
<1>4. ASSUME NEW s \in Staff, NEW c \in Classes, CreateAssignment(s, c) PROVE IInv'
  <2>1. assigned' \subseteq Assignments /\ UNCHANGED staff
    BY <1>4 DEF CreateAssignment, IInv, TypeOK, Assignments
  <2>2. staff' \in [Staff -> StaffRows] /\ StaffInv'
    BY <2>1 DEF IInv, TypeOK, StaffInv
  <2> QED BY <1>4, <2>1, <2>2, PeopleStep DEF CreateAssignment
<1>5. ASSUME NEW a \in assigned, DeleteAssignment(a) PROVE IInv'
  <2>1. assigned' \subseteq Assignments /\ UNCHANGED staff
    BY <1>5 DEF DeleteAssignment, IInv, TypeOK
  <2>2. staff' \in [Staff -> StaffRows] /\ StaffInv'
    BY <2>1 DEF IInv, TypeOK, StaffInv
  <2> QED BY <1>5, <2>1, <2>2, PeopleStep DEF DeleteAssignment
<1> QED BY <1>1, <1>2, <1>3, <1>4, <1>5 DEF Office

-----------------------------------------------------------------------------
(* The replacement of roles.                                               *)

\* Request k becomes j, not between its two statements before or after; the
\* roles stay.
LEMMA RequestStep ==
    ASSUME IInv, NEW k \in Requests, NEW j \in RequestRows,
           request' = [request EXCEPT ![k] = j],
           j.pc \notin {"ready", "done"} => j.login \in Phones,
           \/ request[k].pc \in {"ready", "check", "user", "link", "delete"} /\ j.pc # "insert"
           \/ request[k].pc = "upsert" /\ j.pc = "done" /\ j.login = request[k].login /\ j.asked = request[k].asked,
           UNCHANGED <<roles, current>>
    PROVE  request' \in [Requests -> RequestRows] /\ ReplacementsInv'
<1>1. request' \in [Requests -> RequestRows]
  BY DEF IInv, TypeOK
<1>2. \A i \in Requests : request'[i] = IF i = k THEN j ELSE request[i]
  BY DEF IInv, TypeOK
<1>3. ReplacementsInv'
  <2>1. \A i \in Requests : request'[i].pc \notin {"ready", "done"} => request'[i].login \in Phones
    BY <1>2 DEF IInv, ReplacementsInv
  <2>2. ASSUME NEW p \in Phones
        PROVE  /\ \A i \in current[p] : request'[i].login = p /\ request'[i].pc \in {"insert", "upsert", "done"}
               /\ \A i \in Requests : request'[i].pc = "insert" /\ request'[i].login = p => i \in current[p]
               /\ \A r \in Roles :
                     r \in roles[p] <=> \E i \in current[p] : request'[i].pc # "insert" /\ r \in request'[i].asked
    <3>1. current[p] \subseteq Requests
      BY DEF IInv, TypeOK
    <3>2. /\ \A i \in current[p] : request[i].login = p /\ request[i].pc \in {"insert", "upsert", "done"}
          /\ \A i \in Requests : request[i].pc = "insert" /\ request[i].login = p => i \in current[p]
          /\ \A r \in Roles :
                r \in roles[p] <=> \E i \in current[p] : request[i].pc # "insert" /\ r \in request[i].asked
      BY DEF IInv, ReplacementsInv
    <3>3. CASE request[k].pc \in {"ready", "check", "user", "link", "delete"} /\ j.pc # "insert"
      <4>1. k \notin current[p]
        BY <3>2, <3>3
      <4> QED BY <1>2, <3>1, <3>2, <3>3, <4>1
    <3>4. CASE request[k].pc = "upsert" /\ j.pc = "done" /\ j.login = request[k].login /\ j.asked = request[k].asked
      BY <1>2, <3>1, <3>2, <3>4
    <3> QED BY <3>3, <3>4
  <2> QED BY <2>1, <2>2 DEF ReplacementsInv
<1> QED BY <1>1, <1>3

\* Such a step that writes no more than the users.
LEMMA QuietStep ==
    ASSUME IInv, request' \in [Requests -> RequestRows], ReplacementsInv', users' \subseteq Phones,
           UNCHANGED <<staff, assigned, roles, access, refresh, signIn, serving, notHeld, current, known>>
    PROVE  IInv'
<1>1. TypeOK'
  BY DEF IInv, TypeOK
<1>2. StaffInv' /\ RolesInv' /\ TokensInv' /\ SignInsInv' /\ ServingInv'
  BY DEF IInv, StaffInv, RolesInv, TokensInv, SignInsInv, ServingInv, LinkedTo
<1> QED BY <1>1, <1>2 DEF IInv

LEMMA GotoEffect ==
    ASSUME IInv, NEW k \in Requests, NEW pc \in Progress, Goto(k, pc)
    PROVE  LET j == At(request[k], pc)
           IN /\ request' = [request EXCEPT ![k] = j] /\ j \in RequestRows
              /\ j.pc = pc /\ j.login = request[k].login /\ j.asked = request[k].asked
<1>1. request[k] \in RequestRows
  BY DEF IInv, TypeOK
<1>2. request' = [request EXCEPT ![k] = At(request[k], pc)]
  BY DEF Goto, IInv, TypeOK
<1>3. /\ At(request[k], pc) \in RequestRows /\ At(request[k], pc).pc = pc
      /\ At(request[k], pc).login = request[k].login /\ At(request[k], pc).asked = request[k].asked
  BY <1>1 DEF At, Ready, RequestRows
<1> QED BY <1>2, <1>3

LEMMA FindLoginKeeps ==
    ASSUME IInv, NEW k \in Requests, NEW s \in Staff, NEW asked \in SUBSET Roles, FindLogin(k, s, asked)
    PROVE  IInv'
<1> DEFINE j == [pc |-> IF staff[s].login = NoPhone THEN "check" ELSE "delete",
                 from |-> "roles", staff |-> s,
                 login |-> IF staff[s].login = NoPhone THEN staff[s].phone ELSE staff[s].login,
                 asked |-> asked]
<1>1. staff[s] \in StaffRows /\ staff[s].phone \in Phones
  BY DEF FindLogin, IInv, TypeOK, StaffInv
<1>2. j \in RequestRows /\ j.pc # "insert" /\ j.login \in Phones
  BY <1>1 DEF StaffRows, RequestRows, Progress
<1>3. request' = [request EXCEPT ![k] = j] /\ request[k].pc = "ready"
  BY DEF FindLogin, Ready
<1> HIDE DEF j
<1>4. UNCHANGED <<people, roles, tokens, serving, notHeld, current, known>>
  BY DEF FindLogin
<1> USE DEF people, tokens
<1>5. request' \in [Requests -> RequestRows] /\ ReplacementsInv'
  BY <1>2, <1>3, <1>4, RequestStep
<1>6. users' \subseteq Phones
  BY <1>4 DEF IInv, TypeOK
<1> QED BY <1>4, <1>5, <1>6, QuietStep

\* The steps of a replacement before its DELETE, by their places.
LEMMA BeforeKeeps ==
    ASSUME IInv, NEW k \in Requests, NEW pc \in Progress \ {"ready", "insert"}, Goto(k, pc),
           request[k].pc \in {"check", "user", "link", "delete"}, users' \subseteq Phones,
           UNCHANGED <<staff, assigned, roles, access, refresh, signIn, serving, notHeld, current, known>>
    PROVE  IInv'
<1>1. request[k].login \in Phones
  BY DEF IInv, ReplacementsInv
<1> DEFINE j == At(request[k], pc)
<1>2. request' = [request EXCEPT ![k] = j] /\ j \in RequestRows /\ j.pc = pc /\ j.login = request[k].login
  BY GotoEffect
<1> HIDE DEF j
<1>3. request' \in [Requests -> RequestRows] /\ ReplacementsInv'
  BY <1>1, <1>2, RequestStep
<1> QED BY <1>3, QuietStep

LEMMA CheckPhoneKeeps == ASSUME IInv, NEW k \in Requests, CheckPhone(k) PROVE IInv'
<1>1. users' \subseteq Phones
  BY DEF CheckPhone, people, IInv, TypeOK
<1>2. PICK pc \in {"done", "user"} : Goto(k, pc)
  BY DEF CheckPhone
<1> QED BY <1>1, <1>2, BeforeKeeps DEF CheckPhone, people, tokens, Progress

LEMMA InsertUserKeeps == ASSUME IInv, NEW k \in Requests, InsertUser(k) PROVE IInv'
<1>1. request[k].login \in Phones
  BY DEF InsertUser, IInv, ReplacementsInv
<1>2. users' \subseteq Phones
  BY <1>1 DEF InsertUser, IInv, TypeOK
<1> QED BY <1>2, BeforeKeeps DEF InsertUser, tokens, Progress

LEMMA ImportUserKeeps ==
    ASSUME IInv, NEW k \in Requests, NEW s \in Staff, NEW phone \in Phones, NEW role \in Roles,
           ImportUser(k, s, phone, role)
    PROVE  IInv'
<1> DEFINE j == [pc |-> "delete", from |-> "import", staff |-> s, login |-> phone, asked |-> {role}]
<1>1. j \in RequestRows /\ j.pc = "delete" /\ j.login \in Phones
  BY DEF RequestRows, Progress
<1>2. request' = [request EXCEPT ![k] = j] /\ request[k].pc = "ready"
  BY DEF ImportUser, Ready
<1> HIDE DEF j
<1>3. UNCHANGED <<staff, assigned, roles, access, refresh, signIn, serving, notHeld, current, known>>
  BY DEF ImportUser, tokens
<1>4. request' \in [Requests -> RequestRows] /\ ReplacementsInv'
  BY <1>1, <1>2, <1>3, RequestStep
<1>5. users' \subseteq Phones
  BY DEF ImportUser, IInv, TypeOK
<1> QED BY <1>3, <1>4, <1>5, QuietStep
\* The two statements that write staff.
LEMMA LinkLoginKeeps == ASSUME IInv, NEW k \in Requests, LinkLogin(k) PROVE IInv'
<1> DEFINE j == At(request[k], "delete")
           s == request[k].staff
           now == [staff[s] EXCEPT !.login = request[k].login]
<1>1. request[k].login \in Phones /\ request[k].pc = "link"
  BY DEF LinkLogin, IInv, ReplacementsInv
<1>2. request' = [request EXCEPT ![k] = j] /\ j \in RequestRows /\ j.pc = "delete" /\ j.login = request[k].login
  BY GotoEffect DEF LinkLogin, Progress
<1> HIDE DEF j
<1>3. request' \in [Requests -> RequestRows] /\ ReplacementsInv'
  BY <1>1, <1>2, RequestStep DEF LinkLogin
<1>4. Observe /\ UNCHANGED <<assigned, users, roles, access, refresh, signIn, serving, notHeld, current>>
  BY DEF LinkLogin, tokens
<1>5. CASE s \in Staff
  <2>1. staff[s] \in StaffRows /\ (staff[s].row => staff[s].phone \in Phones)
    BY <1>5 DEF IInv, TypeOK, StaffInv
  <2>2. now \in StaffRows /\ (now.row => now.phone \in Phones)
    BY <1>1, <2>1 DEF StaffRows
  <2>3. staff' = [staff EXCEPT ![s] = now]
    BY <1>5 DEF LinkLogin, IInv, TypeOK
  <2> HIDE DEF now
  <2> QED BY <1>3, <1>4, <1>5, <2>2, <2>3, StaffStep
<1>6. CASE s \notin Staff
  <2>1. staff' = staff
    BY <1>6 DEF LinkLogin, IInv, TypeOK
  <2>2. staff' \in [Staff -> StaffRows] /\ assigned' \subseteq Assignments /\ StaffInv'
    BY <1>4, <2>1 DEF IInv, TypeOK, StaffInv
  <2> QED BY <1>3, <1>4, <2>2, PeopleStep
<1> QED BY <1>5, <1>6

LEMMA ImportStaffKeeps ==
    ASSUME IInv, NEW k \in Requests, NEW phone \in Phones, ImportStaff(k, phone) PROVE IInv'
<1> DEFINE j == At(request[k], "done")
           s == request[k].staff
           now == [row |-> TRUE, active |-> TRUE, phone |-> phone, login |-> request[k].login]
<1>1. request[k].login \in Phones /\ request[k].pc = "upsert"
  BY DEF ImportStaff, IInv, ReplacementsInv
<1>2. /\ request' = [request EXCEPT ![k] = j] /\ j \in RequestRows /\ j.pc = "done"
      /\ j.login = request[k].login /\ j.asked = request[k].asked
  BY GotoEffect DEF ImportStaff, Progress
<1> HIDE DEF j
<1>3. request' \in [Requests -> RequestRows] /\ ReplacementsInv'
  BY <1>1, <1>2, RequestStep DEF ImportStaff
<1>4. Observe /\ UNCHANGED <<assigned, users, roles, access, refresh, signIn, serving, notHeld, current>>
  BY DEF ImportStaff, tokens
<1>5. now \in StaffRows /\ now.phone \in Phones
  BY <1>1 DEF StaffRows
<1>6. staff' = [staff EXCEPT ![s] = now]
  BY DEF ImportStaff
<1> HIDE DEF now
<1>7. CASE s \in Staff
  BY <1>3, <1>4, <1>5, <1>6, <1>7, StaffStep
<1>8. CASE s \notin Staff
  <2>1. staff' = staff
    BY <1>6, <1>8 DEF IInv, TypeOK
  <2>2. staff' \in [Staff -> StaffRows] /\ assigned' \subseteq Assignments /\ StaffInv'
    BY <1>4, <2>1 DEF IInv, TypeOK, StaffInv
  <2> QED BY <1>3, <1>4, <2>2, PeopleStep
<1> QED BY <1>7, <1>8

-----------------------------------------------------------------------------
(* The statements that write roles.                                        *)

\* A step that leaves everything but roles, ages and replacements alone.
LEMMA RolesStep ==
    ASSUME IInv, request' \in [Requests -> RequestRows], ReplacementsInv', RolesInv',
           roles' \in [Phones -> SUBSET Roles], current' \in [Phones -> SUBSET Requests],
           notHeld' \in [Phones -> [Roles -> Nat]],
           \A p \in Phones, r \in Roles : notHeld'[p][r] <= notHeld[p][r],
           UNCHANGED <<staff, users, assigned, access, refresh, signIn, serving, known>>
    PROVE  IInv'
<1>1. TypeOK' /\ StaffInv'
  BY DEF IInv, TypeOK, StaffInv
<1>2. TokensInv'
  <2> SUFFICES ASSUME NEW t \in access, NEW r \in t.roles
               PROVE  notHeld'[t.login][r] + t.left <= AccessLife + ServiceLife
    BY DEF IInv, TokensInv
  <2>1. t.login \in Phones /\ r \in Roles /\ t.left \in Nat /\ notHeld[t.login][r] + t.left <= AccessLife + ServiceLife
    BY DEF IInv, TypeOK, Tokens, TokensInv
  <2>2. notHeld[t.login][r] \in Nat /\ notHeld'[t.login][r] \in Nat /\ notHeld'[t.login][r] <= notHeld[t.login][r]
    BY <2>1 DEF IInv, TypeOK
  <2> QED BY <2>1, <2>2, LivesAreNat
<1>3. ServingInv'
  <2>1. ASSUME serving.pc # "idle", NEW r \in serving.roles
        PROVE  notHeld'[serving.login][r] < AccessLife + ServiceLife + serving.ticks
    <3>1. serving.login \in Phones /\ r \in Roles /\ serving.ticks \in Nat
          /\ notHeld[serving.login][r] < AccessLife + ServiceLife + serving.ticks
      BY <2>1 DEF IInv, TypeOK, Services, ServingInv
    <3>2. /\ notHeld[serving.login][r] \in Nat /\ notHeld'[serving.login][r] \in Nat
          /\ notHeld'[serving.login][r] <= notHeld[serving.login][r]
      BY <3>1 DEF IInv, TypeOK
    <3> QED BY <3>1, <3>2, LivesAreNat
  <2> QED BY <2>1 DEF IInv, ServingInv, LinkedTo
<1>4. SignInsInv'
  <2> SUFFICES ASSUME NEW n \in SignIns, signIn[n] # NotSigning, NEW r \in signIn[n].roles
               PROVE  notHeld'[signIn[n].login][r] <= signIn[n].ticks
    BY DEF IInv, SignInsInv, NotSigning
  <2>1. signIn[n].login \in Phones /\ r \in Roles /\ signIn[n].ticks \in Nat
        /\ notHeld[signIn[n].login][r] <= signIn[n].ticks
    BY DEF IInv, TypeOK, Readings, SignInsInv
  <2>2. /\ notHeld[signIn[n].login][r] \in Nat /\ notHeld'[signIn[n].login][r] \in Nat
        /\ notHeld'[signIn[n].login][r] <= notHeld[signIn[n].login][r]
    BY <2>1 DEF IInv, TypeOK
  <2> QED BY <2>1, <2>2
<1> QED BY <1>1, <1>2, <1>3, <1>4 DEF IInv

LEMMA DeleteRolesKeeps == ASSUME IInv, NEW k \in Requests, DeleteRoles(k) PROVE IInv'
<1> DEFINE j == At(request[k], "insert")
           login == request[k].login
<1>1. login \in Phones /\ request[k].pc = "delete"
  BY DEF DeleteRoles, IInv, ReplacementsInv
<1>2. /\ request' = [request EXCEPT ![k] = j] /\ j \in RequestRows
      /\ j.pc = "insert" /\ j.login = login /\ j.asked = request[k].asked
  BY GotoEffect DEF DeleteRoles, Progress
<1>3. /\ roles' = [roles EXCEPT ![login] = {}]
      /\ current' = [current EXCEPT ![login] = Deleted(login) \cup {k}]
      /\ UNCHANGED <<staff, users, assigned, access, refresh, signIn, serving, notHeld, known>>
  BY DEF DeleteRoles, people, tokens
<1> HIDE DEF j, login
<1>4. request' \in [Requests -> RequestRows] /\ \A i \in Requests : request'[i] = IF i = k THEN j ELSE request[i]
  BY <1>2 DEF IInv, TypeOK
<1> DEFINE now == Deleted(login) \cup {k}
<1>9. /\ now \subseteq Requests
      /\ \A i \in Requests : i \in now <=> (i = k \/ (request[i].pc = "insert" /\ request[i].login = login))
  BY DEF Deleted
<1>10. current' = [current EXCEPT ![login] = now]
  BY <1>3
<1> HIDE DEF now
<1>5. /\ roles' \in [Phones -> SUBSET Roles] /\ current' \in [Phones -> SUBSET Requests]
      /\ \A p \in Phones : /\ roles'[p] = IF p = login THEN {} ELSE roles[p]
                           /\ current'[p] = IF p = login THEN now ELSE current[p]
  <2>1. /\ current' \in [Phones -> SUBSET Requests]
        /\ \A p \in Phones : current'[p] = IF p = login THEN now ELSE current[p]
    BY <1>1, <1>9, <1>10 DEF IInv, TypeOK
  <2>2. /\ roles' \in [Phones -> SUBSET Roles]
        /\ \A p \in Phones : roles'[p] = IF p = login THEN {} ELSE roles[p]
    BY <1>1, <1>3 DEF IInv, TypeOK
  <2> QED BY <2>1, <2>2
<1>6. RolesInv'
  BY <1>3, <1>5 DEF IInv, RolesInv
<1>7. ReplacementsInv'
  <2>1. \A i \in Requests : request'[i].pc \notin {"ready", "done"} => request'[i].login \in Phones
    BY <1>1, <1>2, <1>4 DEF IInv, ReplacementsInv
  <2>2. ASSUME NEW p \in Phones
        PROVE  /\ \A i \in current'[p] : request'[i].login = p /\ request'[i].pc \in {"insert", "upsert", "done"}
               /\ \A i \in Requests : request'[i].pc = "insert" /\ request'[i].login = p => i \in current'[p]
               /\ \A r \in Roles :
                     r \in roles'[p] <=> \E i \in current'[p] : request'[i].pc # "insert" /\ r \in request'[i].asked
    <3>1. /\ current[p] \subseteq Requests /\ k \notin current[p]
          /\ \A i \in current[p] : request[i].login = p /\ request[i].pc \in {"insert", "upsert", "done"}
          /\ \A i \in Requests : request[i].pc = "insert" /\ request[i].login = p => i \in current[p]
          /\ \A r \in Roles :
                r \in roles[p] <=> \E i \in current[p] : request[i].pc # "insert" /\ r \in request[i].asked
      BY <1>1 DEF IInv, TypeOK, ReplacementsInv
    <3>2. CASE p = login
      <4>1. \A i \in Requests : i \in current'[p] <=> (i = k \/ (request[i].pc = "insert" /\ request[i].login = login))
        BY <1>5, <1>9, <3>2
      <4>2. current'[p] \subseteq Requests /\ roles'[p] = {}
        BY <1>5, <3>2
      <4>3. \A i \in current'[p] : request'[i].login = p /\ request'[i].pc = "insert"
        BY <1>2, <1>4, <3>2, <4>1, <4>2
      <4>4. \A i \in Requests : request'[i].pc = "insert" /\ request'[i].login = p => i \in current'[p]
        BY <1>2, <1>4, <3>2, <4>1
      <4> QED BY <4>2, <4>3, <4>4
    <3>3. CASE p # login
      <4>1. current'[p] = current[p] /\ roles'[p] = roles[p]
        BY <1>5, <3>3
      <4>2. \A i \in current[p] : request'[i] = request[i]
        BY <1>4, <3>1
      <4>3. \A i \in Requests : request'[i].pc = "insert" /\ request'[i].login = p => i \in current[p]
        BY <1>2, <1>4, <3>1, <3>3
      <4> QED BY <3>1, <4>1, <4>2, <4>3
    <3> QED BY <3>2, <3>3
  <2> QED BY <2>1, <2>2 DEF ReplacementsInv
<1>8. notHeld' \in [Phones -> [Roles -> Nat]] /\ \A p \in Phones, r \in Roles : notHeld'[p][r] <= notHeld[p][r]
  BY <1>3 DEF IInv, TypeOK
<1> QED BY <1>3, <1>4, <1>5, <1>6, <1>7, <1>8, RolesStep

\* A replacement ends between its two statements: by a failed INSERT or because
\* its process dies.
LEMMA GivesUpKeeps ==
    ASSUME IInv, NEW k \in Requests, request[k].pc = "insert", Goto(k, "done"),
           current' = [current EXCEPT ![request[k].login] = @ \ {k}],
           UNCHANGED <<staff, users, assigned, roles, access, refresh, signIn, serving, notHeld, known>>
    PROVE  IInv'
<1> DEFINE j == At(request[k], "done")
           login == request[k].login
<1>1. login \in Phones
  BY DEF IInv, ReplacementsInv
<1>2. request' = [request EXCEPT ![k] = j] /\ j \in RequestRows /\ j.pc = "done" /\ j.login = login
  BY GotoEffect DEF Progress
<1>3. request[k].login = login /\ current' = [current EXCEPT ![login] = current[login] \ {k}]
  BY <1>1 DEF IInv, TypeOK
<1> HIDE DEF j, login
<1>4. request' \in [Requests -> RequestRows] /\ \A i \in Requests : request'[i] = IF i = k THEN j ELSE request[i]
  BY <1>2 DEF IInv, TypeOK
<1>5. /\ current' \in [Phones -> SUBSET Requests]
      /\ \A p \in Phones : current'[p] = IF p = login THEN current[p] \ {k} ELSE current[p]
  BY <1>1, <1>3 DEF IInv, TypeOK
<1>6. ReplacementsInv'
  <2>1. \A i \in Requests : request'[i].pc \notin {"ready", "done"} => request'[i].login \in Phones
    BY <1>2, <1>4 DEF IInv, ReplacementsInv
  <2>2. ASSUME NEW p \in Phones
        PROVE  /\ \A i \in current'[p] : request'[i].login = p /\ request'[i].pc \in {"insert", "upsert", "done"}
               /\ \A i \in Requests : request'[i].pc = "insert" /\ request'[i].login = p => i \in current'[p]
               /\ \A r \in Roles :
                     r \in roles'[p] <=> \E i \in current'[p] : request'[i].pc # "insert" /\ r \in request'[i].asked
    <3>1. /\ current[p] \subseteq Requests /\ (p # login => k \notin current[p])
          /\ \A i \in current[p] : request[i].login = p /\ request[i].pc \in {"insert", "upsert", "done"}
          /\ \A i \in Requests : request[i].pc = "insert" /\ request[i].login = p => i \in current[p]
          /\ \A r \in Roles :
                r \in roles[p] <=> \E i \in current[p] : request[i].pc # "insert" /\ r \in request[i].asked
      BY <1>3 DEF IInv, TypeOK, ReplacementsInv
    <3> QED BY <1>2, <1>4, <1>5, <3>1
  <2> QED BY <2>1, <2>2 DEF ReplacementsInv
<1>7. RolesInv' /\ roles' \in [Phones -> SUBSET Roles] /\ notHeld' \in [Phones -> [Roles -> Nat]]
      /\ \A p \in Phones, r \in Roles : notHeld'[p][r] <= notHeld[p][r]
  BY DEF IInv, TypeOK, RolesInv
<1> QED BY <1>4, <1>5, <1>6, <1>7, RolesStep
LEMMA InsertRolesKeeps == ASSUME IInv, NEW k \in Requests, InsertRoles(k) PROVE IInv'
<1> DEFINE login == request[k].login
           asked == request[k].asked
           pc == IF request[k].from = "import" THEN "upsert" ELSE "done"
           j == At(request[k], pc)
<1>1. login \in Phones /\ request[k].pc = "insert" /\ asked \in SUBSET Roles
  BY DEF InsertRoles, IInv, TypeOK, RequestRows, ReplacementsInv
<1>2. CASE asked \cap roles[login] # {}
  BY <1>1, <1>2, GivesUpKeeps DEF InsertRoles, people, tokens
<1>3. CASE asked \cap roles[login] = {}
  <2>1. /\ roles' = [roles EXCEPT ![login] = roles[login] \cup asked]
        /\ notHeld' = [notHeld EXCEPT ![login] = [r \in Roles |-> IF r \in asked THEN 0 ELSE notHeld[login][r]]]
        /\ Goto(k, pc) /\ UNCHANGED <<staff, users, assigned, access, refresh, signIn, serving, current, known>>
    BY <1>1, <1>3 DEF InsertRoles, people, tokens, IInv, TypeOK
  <2>2. pc \in {"upsert", "done"}
    OBVIOUS
  <2> HIDE DEF pc
  <2>3. /\ request' = [request EXCEPT ![k] = j] /\ j \in RequestRows
        /\ j.pc = pc /\ j.login = login /\ j.asked = asked
    <3>1. pc \in Progress
      BY <2>2 DEF Progress
    <3> QED BY <2>1, <3>1, GotoEffect
  <2>4. request[k].login = login /\ request[k].asked = asked
    OBVIOUS
  <2> HIDE DEF j, login, asked
  <2>5. request' \in [Requests -> RequestRows] /\ \A i \in Requests : request'[i] = IF i = k THEN j ELSE request[i]
    BY <2>3 DEF IInv, TypeOK
  <2>6. /\ roles' \in [Phones -> SUBSET Roles]
        /\ \A p \in Phones : roles'[p] = IF p = login THEN roles[p] \cup asked ELSE roles[p]
    BY <1>1, <2>1 DEF IInv, TypeOK
  <2>7. /\ notHeld' \in [Phones -> [Roles -> Nat]]
        /\ \A p \in Phones, r \in Roles :
              notHeld'[p][r] = IF p = login /\ r \in asked THEN 0 ELSE notHeld[p][r]
    <3> DEFINE fresh == [r \in Roles |-> IF r \in asked THEN 0 ELSE notHeld[login][r]]
    <3>1. fresh \in [Roles -> Nat] /\ \A r \in Roles : fresh[r] = IF r \in asked THEN 0 ELSE notHeld[login][r]
      BY <1>1 DEF IInv, TypeOK
    <3>2. notHeld' = [notHeld EXCEPT ![login] = fresh]
      BY <2>1
    <3> HIDE DEF fresh
    <3> QED BY <1>1, <3>1, <3>2 DEF IInv, TypeOK
  <2>8. \A p \in Phones, r \in Roles : notHeld'[p][r] <= notHeld[p][r]
    BY <2>7 DEF IInv, TypeOK
  <2>9. RolesInv'
    <3> SUFFICES ASSUME NEW p \in Phones, NEW r \in Roles
                 PROVE  notHeld'[p][r] <= Long /\ (r \in roles'[p] => notHeld'[p][r] = 0)
      BY DEF RolesInv, Long
    <3>1. notHeld[p][r] <= Long /\ (r \in roles[p] => notHeld[p][r] = 0)
      BY DEF IInv, RolesInv
    <3> QED BY <2>6, <2>7, <3>1, LivesAreNat
  <2>10. ReplacementsInv'
    <3>1. \A i \in Requests : request'[i].pc \notin {"ready", "done"} => request'[i].login \in Phones
      BY <1>1, <2>3, <2>5 DEF IInv, ReplacementsInv
    <3>2. ASSUME NEW p \in Phones
          PROVE  /\ \A i \in current[p] : request'[i].login = p /\ request'[i].pc \in {"insert", "upsert", "done"}
                 /\ \A i \in Requests : request'[i].pc = "insert" /\ request'[i].login = p => i \in current[p]
                 /\ \A r \in Roles :
                       r \in roles'[p] <=> \E i \in current[p] : request'[i].pc # "insert" /\ r \in request'[i].asked
      <4>1. /\ current[p] \subseteq Requests /\ (k \in current[p] <=> p = login)
            /\ \A i \in current[p] : request[i].login = p /\ request[i].pc \in {"insert", "upsert", "done"}
            /\ \A i \in Requests : request[i].pc = "insert" /\ request[i].login = p => i \in current[p]
            /\ \A r \in Roles :
                  r \in roles[p] <=> \E i \in current[p] : request[i].pc # "insert" /\ r \in request[i].asked
        BY <1>1, <2>4 DEF IInv, TypeOK, ReplacementsInv
      <4>2. \A i \in Requests : request'[i].pc = "insert" => i # k /\ request[i].pc = "insert"
        BY <2>2, <2>3, <2>5
      <4>3. \A i \in current[p] : request'[i].login = p /\ request'[i].pc \in {"insert", "upsert", "done"}
        BY <2>2, <2>3, <2>5, <4>1
      <4>4. \A i \in Requests : request'[i].pc = "insert" /\ request'[i].login = p => i \in current[p]
        BY <2>2, <2>3, <2>5, <4>1
      <4>5. ASSUME NEW r \in Roles
            PROVE  r \in roles'[p] <=> \E i \in current[p] : request'[i].pc # "insert" /\ r \in request'[i].asked
        <5>1. CASE p = login
          BY <1>1, <2>2, <2>3, <2>4, <2>5, <2>6, <4>1, <5>1
        <5>2. CASE p # login
          BY <2>5, <2>6, <4>1, <5>2
        <5> QED BY <5>1, <5>2
      <4> QED BY <4>3, <4>4, <4>5
    <3> QED BY <2>1, <3>1, <3>2 DEF ReplacementsInv
  <2>11. current' \in [Phones -> SUBSET Requests]
    BY <2>1 DEF IInv, TypeOK
  <2> QED BY <2>1, <2>5, <2>6, <2>7, <2>8, <2>9, <2>10, <2>11, RolesStep
<1> QED BY <1>2, <1>3

LEMMA DiesKeeps == ASSUME IInv, NEW k \in Requests, Dies(k) PROVE IInv'
<1>1. CASE request[k].pc = "insert"
  BY <1>1, GivesUpKeeps DEF Dies, people, tokens
<1>2. CASE request[k].pc \in {"check", "user", "link", "delete"}
  <2>1. users' \subseteq Phones
    BY DEF Dies, people, IInv, TypeOK
  <2> QED BY <1>2, <2>1, BeforeKeeps DEF Dies, people, tokens, Progress
<1>3. CASE request[k].pc = "upsert"
  <2> DEFINE j == At(request[k], "done")
  <2>1. /\ request' = [request EXCEPT ![k] = j] /\ j \in RequestRows /\ j.pc = "done"
        /\ j.login = request[k].login /\ j.asked = request[k].asked
    BY GotoEffect DEF Dies, Progress
  <2> HIDE DEF j
  <2>2. UNCHANGED <<people, roles, tokens, serving, notHeld, current, known>>
    BY <1>3 DEF Dies
  <2>3. request' \in [Requests -> RequestRows] /\ ReplacementsInv'
    BY <1>3, <2>1, <2>2, RequestStep
  <2>4. users' \subseteq Phones
    BY <2>2 DEF people, IInv, TypeOK
  <2> QED BY <2>2, <2>3, <2>4, QuietStep DEF people, tokens
<1>4. request[k].pc \in Progress
  BY DEF IInv, TypeOK, RequestRows
<1> QED BY <1>1, <1>2, <1>3, <1>4 DEF Dies, Progress

LEMMA ReplacementKeeps == ASSUME IInv, Replacement PROVE IInv'
<1> PICK k \in Requests :
        \/ \E s \in Staff, asked \in SUBSET Roles : FindLogin(k, s, asked)
        \/ CheckPhone(k) \/ InsertUser(k) \/ LinkLogin(k)
        \/ \E s \in Staff, phone \in Phones, role \in Roles : ImportUser(k, s, phone, role)
        \/ DeleteRoles(k) \/ InsertRoles(k) \/ Dies(k)
        \/ \E phone \in Phones : ImportStaff(k, phone)
  BY DEF Replacement
<1> QED BY FindLoginKeeps, CheckPhoneKeeps, InsertUserKeeps, LinkLoginKeeps, ImportUserKeeps,
           DeleteRolesKeeps, InsertRolesKeeps, DiesKeeps, ImportStaffKeeps

-----------------------------------------------------------------------------
(* Tokens.                                                                 *)

\* A step of a login or a refresh: the other slots stay.
LEMMA SlotStep ==
    ASSUME IInv, NEW n \in SignIns, NEW slot \in Readings, signIn' = [signIn EXCEPT ![n] = slot],
           slot # NotSigning =>
              /\ slot.login \in Phones /\ slot.ticks <= ServiceLife
              /\ \A r \in slot.roles : notHeld[slot.login][r] <= slot.ticks,
           access' \subseteq Tokens, refresh' \subseteq Tokens, TokensInv',
           UNCHANGED <<people, roles, request, serving, notHeld, current, known>>
    PROVE  IInv'
<1>1. TypeOK'
  BY DEF people, IInv, TypeOK
<1>2. SignInsInv'
  <2>1. \A m \in SignIns : signIn'[m] = IF m = n THEN slot ELSE signIn[m]
    BY DEF IInv, TypeOK
  <2> SUFFICES ASSUME NEW m \in SignIns, signIn'[m] # NotSigning
               PROVE  /\ signIn'[m].login \in Phones /\ signIn'[m].ticks <= ServiceLife
                      /\ \A r \in signIn'[m].roles : notHeld[signIn'[m].login][r] <= signIn'[m].ticks
    BY DEF SignInsInv, NotSigning
  <2>2. CASE m = n
    BY <2>1, <2>2
  <2>3. CASE m # n
    BY <2>1, <2>3 DEF IInv, SignInsInv
  <2> QED BY <2>2, <2>3
<1>3. StaffInv' /\ RolesInv' /\ ServingInv' /\ ReplacementsInv'
  BY DEF people, IInv, StaffInv, RolesInv, ServingInv, LinkedTo, ReplacementsInv
<1> QED BY <1>1, <1>2, <1>3 DEF IInv

LEMMA ReadRolesKeeps ==
    ASSUME IInv, NEW n \in SignIns, NEW login \in Phones, ReadRoles(n, login, roles[login])
    PROVE  IInv'
<1> DEFINE slot == [login |-> login, roles |-> roles[login], ticks |-> 0]
<1>1. roles[login] \in SUBSET Roles /\ \A r \in roles[login] : notHeld[login][r] = 0
  BY DEF IInv, TypeOK, RolesInv
<1>2. /\ slot \in Readings /\ slot.login \in Phones /\ slot.ticks <= ServiceLife
      /\ \A r \in slot.roles : notHeld[slot.login][r] <= slot.ticks
  BY <1>1, LivesAreNat DEF Readings
<1>3. /\ signIn' = [signIn EXCEPT ![n] = slot]
      /\ UNCHANGED <<people, roles, access, refresh, request, serving, notHeld, current, known>>
  BY DEF ReadRoles
<1> HIDE DEF slot
<1>4. access' \subseteq Tokens /\ refresh' \subseteq Tokens /\ TokensInv'
  BY <1>3 DEF IInv, TypeOK, TokensInv
<1> QED BY <1>2, <1>3, <1>4, SlotStep

LEMMA IdleSlot == NotSigning \in Readings
  BY DEF NotSigning, Readings

LEMMA SignTokensKeeps == ASSUME IInv, NEW n \in SignIns, SignTokens(n) PROVE IInv'
<1> DEFINE login == signIn[n].login
           new == AccessToken(login, signIn[n].roles)
           newer == RefreshToken(login, signIn[n].roles)
<1>1. PICK keptAccess \in SUBSET access, keptRefresh \in SUBSET refresh :
          access' = keptAccess \cup {new} /\ refresh' = keptRefresh \cup {newer}
  BY DEF SignTokens
<1>2. /\ signIn' = [signIn EXCEPT ![n] = NotSigning]
      /\ UNCHANGED <<people, roles, request, serving, notHeld, current, known>>
  BY DEF SignTokens
<1>3. /\ login \in Phones /\ signIn[n].roles \in SUBSET Roles
      /\ \A r \in signIn[n].roles : notHeld[login][r] \in Nat /\ notHeld[login][r] <= ServiceLife
  <2>1. /\ signIn[n] \in Readings /\ login \in Phones /\ signIn[n].ticks <= ServiceLife
        /\ \A r \in signIn[n].roles : notHeld[login][r] <= signIn[n].ticks
    BY DEF SignTokens, IInv, TypeOK, SignInsInv
  <2>2. signIn[n].roles \in SUBSET Roles /\ signIn[n].ticks \in Nat
    BY <2>1 DEF Readings
  <2>3. \A r \in signIn[n].roles : notHeld[login][r] \in Nat
    BY <2>1, <2>2 DEF IInv, TypeOK
  <2> HIDE DEF login
  <2> QED BY <2>1, <2>2, <2>3, LivesAreNat
<1>4. /\ new \in Tokens /\ newer \in Tokens /\ new.login = login /\ new.left = AccessLife
      /\ new.roles = signIn[n].roles
  BY <1>3, LivesAreNat DEF Tokens, AccessToken, RefreshToken
<1> HIDE DEF new, newer, login
<1>5. access' \subseteq Tokens /\ refresh' \subseteq Tokens
  BY <1>1, <1>4 DEF IInv, TypeOK
<1>6. TokensInv'
  <2> SUFFICES ASSUME NEW t \in access'
               PROVE  t.left > 0 /\ \A r \in t.roles : notHeld[t.login][r] + t.left <= AccessLife + ServiceLife
    BY <1>2 DEF TokensInv
  <2>1. CASE t = new
    BY <1>3, <1>4, <2>1, LivesAreNat
  <2>2. CASE t \in access
    BY <2>2 DEF IInv, TokensInv
  <2> QED BY <1>1, <2>1, <2>2
<1> QED BY <1>2, <1>5, <1>6, IdleSlot, SlotStep

LEMMA SignInFailsKeeps == ASSUME IInv, NEW n \in SignIns, SignInFails(n) PROVE IInv'
<1>1. /\ signIn' = [signIn EXCEPT ![n] = NotSigning]
      /\ UNCHANGED <<people, roles, access, refresh, request, serving, notHeld, current, known>>
  BY DEF SignInFails
<1>2. access' \subseteq Tokens /\ refresh' \subseteq Tokens /\ TokensInv'
  BY <1>1 DEF IInv, TypeOK, TokensInv
<1> QED BY <1>1, <1>2, IdleSlot, SlotStep

LEMMA TickKeeps == ASSUME IInv, Tick PROVE IInv'
<1>1. /\ access' = Expire(access) /\ refresh' = Expire(refresh)
      /\ serving' = IF serving.pc = "idle" THEN serving ELSE [serving EXCEPT !.ticks = @ + 1]
      /\ signIn' = [n \in SignIns |->
            IF signIn[n] = NotSigning THEN NotSigning ELSE [signIn[n] EXCEPT !.ticks = @ + 1]]
      /\ \A n \in SignIns : signIn[n] # NotSigning => signIn[n].ticks < ServiceLife
      /\ notHeld' = [p \in Phones |-> [r \in Roles |->
            IF r \in roles[p] THEN 0
            ELSE IF notHeld[p][r] < Long THEN notHeld[p][r] + 1 ELSE Long]]
      /\ UNCHANGED <<staff, users, assigned, roles, request, current, known>>
  BY DEF Tick, people
<1>2. /\ notHeld' \in [Phones -> [Roles -> Nat]]
      /\ \A p \in Phones, r \in Roles :
            /\ notHeld[p][r] \in Nat /\ notHeld'[p][r] \in Nat
            /\ notHeld'[p][r] <= notHeld[p][r] + 1 /\ notHeld'[p][r] <= Long
            /\ (r \in roles[p] => notHeld'[p][r] = 0)
  <2>1. \A p \in Phones, r \in Roles : notHeld[p][r] \in Nat /\ notHeld[p][r] <= Long
    BY DEF IInv, TypeOK, RolesInv
  <2>2. \A p \in Phones, r \in Roles :
            notHeld'[p][r] = IF r \in roles[p] THEN 0
                             ELSE IF notHeld[p][r] < Long THEN notHeld[p][r] + 1 ELSE Long
    BY <1>1
  <2>3. \A p \in Phones, r \in Roles : notHeld'[p][r] \in Nat
    BY <2>1, <2>2, LivesAreNat
  <2>4. notHeld' \in [Phones -> [Roles -> Nat]]
    BY <1>1, <2>1, LivesAreNat
  <2> QED BY <2>1, <2>2, <2>3, <2>4, LivesAreNat
<1>3. ASSUME NEW ts \in SUBSET Tokens, NEW u \in Expire(ts)
      PROVE  u \in Tokens /\ u.left > 0
             /\ \E t \in ts : u.login = t.login /\ u.roles = t.roles /\ u.left + 1 = t.left
  <2>1. PICK t \in ts : t.left > 1 /\ u = [t EXCEPT !.left = t.left - 1]
    BY DEF Expire
  <2>2. t \in Tokens /\ t.left \in Nat
    BY DEF Tokens
  <2>3. u.login = t.login /\ u.roles = t.roles /\ u.left = t.left - 1 /\ u \in Tokens
    BY <2>1, <2>2 DEF Tokens
  <2> QED BY <2>1, <2>2, <2>3
<1>4. serving' \in Services
  <2>1. serving \in Services /\ serving.ticks + 1 \in Nat
    BY DEF IInv, TypeOK, Services
  <2>2. [serving EXCEPT !.ticks = serving.ticks + 1] \in Services
    BY <2>1 DEF Services
  <2> QED BY <1>1, <2>1, <2>2
<1>10. /\ signIn' \in [SignIns -> Readings]
       /\ \A n \in SignIns : signIn'[n] # NotSigning =>
             /\ signIn[n] # NotSigning /\ signIn'[n].login = signIn[n].login /\ signIn'[n].roles = signIn[n].roles
             /\ signIn[n].ticks \in Nat /\ signIn'[n].ticks = signIn[n].ticks + 1
  <2> SUFFICES ASSUME NEW n \in SignIns
               PROVE  /\ signIn'[n] \in Readings
                      /\ signIn'[n] # NotSigning =>
                            /\ signIn[n] # NotSigning /\ signIn'[n].login = signIn[n].login
                            /\ signIn'[n].roles = signIn[n].roles
                            /\ signIn[n].ticks \in Nat /\ signIn'[n].ticks = signIn[n].ticks + 1
    BY <1>1
  <2>1. signIn[n] \in Readings
    BY DEF IInv, TypeOK
  <2>2. CASE signIn[n] = NotSigning
    BY <1>1, <2>2, IdleSlot
  <2>3. CASE signIn[n] # NotSigning
    <3>1. signIn'[n] = [signIn[n] EXCEPT !.ticks = signIn[n].ticks + 1]
      BY <1>1, <2>3
    <3> QED BY <2>1, <2>3, <3>1 DEF Readings
  <2> QED BY <2>2, <2>3
<1>5. TypeOK'
  <2>1. access' \subseteq Tokens /\ refresh' \subseteq Tokens
    BY <1>1, <1>3 DEF IInv, TypeOK
  <2> QED BY <1>1, <1>2, <1>4, <1>10, <2>1 DEF IInv, TypeOK
<1>11. SignInsInv'
  <2> SUFFICES ASSUME NEW n \in SignIns, signIn'[n] # NotSigning
               PROVE  /\ signIn'[n].login \in Phones /\ signIn'[n].ticks <= ServiceLife
                      /\ \A r \in signIn'[n].roles : notHeld'[signIn'[n].login][r] <= signIn'[n].ticks
    BY DEF SignInsInv, NotSigning
  <2>1. /\ signIn[n] # NotSigning /\ signIn'[n].login = signIn[n].login /\ signIn'[n].roles = signIn[n].roles
        /\ signIn[n].ticks \in Nat /\ signIn'[n].ticks = signIn[n].ticks + 1
    BY <1>10
  <2>2. /\ signIn[n].login \in Phones /\ signIn[n].roles \subseteq Roles
        /\ \A r \in signIn[n].roles : notHeld[signIn[n].login][r] <= signIn[n].ticks
    BY <2>1 DEF IInv, TypeOK, Readings, SignInsInv
  <2>3. signIn'[n].ticks <= ServiceLife
    BY <1>1, <2>1, LivesAreNat
  <2>4. ASSUME NEW r \in signIn[n].roles PROVE notHeld'[signIn[n].login][r] <= signIn[n].ticks + 1
    <3>1. /\ notHeld[signIn[n].login][r] \in Nat /\ notHeld'[signIn[n].login][r] \in Nat
          /\ notHeld'[signIn[n].login][r] <= notHeld[signIn[n].login][r] + 1
          /\ notHeld[signIn[n].login][r] <= signIn[n].ticks
      BY <1>2, <2>2
    <3> QED BY <2>1, <3>1
  <2> QED BY <2>1, <2>2, <2>3, <2>4
<1>6. TokensInv'
  <2> SUFFICES ASSUME NEW u \in access'
               PROVE  u.left > 0 /\ \A r \in u.roles : notHeld'[u.login][r] + u.left <= AccessLife + ServiceLife
    BY DEF TokensInv
  <2>0. access \in SUBSET Tokens
    BY DEF IInv, TypeOK
  <2>1. PICK t \in access : u.login = t.login /\ u.roles = t.roles /\ u.left + 1 = t.left
    BY <1>1, <1>3, <2>0
  <2>2. u.left > 0 /\ u.left \in Nat /\ t.login \in Phones /\ t.roles \subseteq Roles
    BY <1>1, <1>3, <2>0 DEF Tokens
  <2>3. ASSUME NEW r \in u.roles PROVE notHeld'[u.login][r] + u.left <= AccessLife + ServiceLife
    <3>1. notHeld[t.login][r] + t.left <= AccessLife + ServiceLife
      BY <2>1 DEF IInv, TokensInv
    <3>2. /\ notHeld[t.login][r] \in Nat /\ notHeld'[t.login][r] \in Nat
          /\ notHeld'[t.login][r] <= notHeld[t.login][r] + 1
      BY <1>2, <2>1, <2>2
    <3> QED BY <2>1, <2>2, <3>1, <3>2, LivesAreNat
  <2> QED BY <2>2, <2>3
<1>7. RolesInv'
  BY <1>1, <1>2 DEF RolesInv, Long
<1>8. ServingInv'
  <2>1. /\ serving'.pc = serving.pc /\ serving'.login = serving.login /\ serving'.roles = serving.roles
        /\ serving'.staff = serving.staff /\ serving'.scope = serving.scope
    BY <1>1 DEF IInv, TypeOK, Services
  <2>2. ASSUME serving.pc # "idle", NEW r \in serving.roles
        PROVE  notHeld'[serving.login][r] < AccessLife + ServiceLife + serving'.ticks
    <3>1. serving'.ticks = serving.ticks + 1 /\ serving.ticks \in Nat
      BY <1>1, <2>2 DEF IInv, TypeOK, Services
    <3>2. serving.login \in Phones /\ r \in Roles /\ notHeld[serving.login][r] < AccessLife + ServiceLife + serving.ticks
      BY <2>2 DEF IInv, TypeOK, Services, ServingInv
    <3>3. /\ notHeld[serving.login][r] \in Nat /\ notHeld'[serving.login][r] \in Nat
          /\ notHeld'[serving.login][r] <= notHeld[serving.login][r] + 1
      BY <1>2, <3>2
    <3> QED BY <3>1, <3>2, <3>3, LivesAreNat
  <2>3. UNCHANGED <<staff, assigned, known>>
    BY <1>1
  <2> QED BY <2>1, <2>2, <2>3 DEF IInv, ServingInv, LinkedTo
<1>9. StaffInv' /\ ReplacementsInv'
  BY <1>1 DEF IInv, StaffInv, ReplacementsInv
<1> QED BY <1>5, <1>6, <1>7, <1>8, <1>9, <1>11 DEF IInv

-----------------------------------------------------------------------------
(* The request of a token's holder.                                        *)

LEMMA ServingStep ==
    ASSUME IInv, serving' \in Services, known' \in [staff : SUBSET Staff, assigned : SUBSET Assignments],
           ServingInv', UNCHANGED <<staff, users, assigned, roles, access, refresh, signIn, request, notHeld, current>>
    PROVE  IInv'
<1>1. TypeOK'
  BY DEF IInv, TypeOK
<1>2. StaffInv' /\ RolesInv' /\ TokensInv' /\ SignInsInv' /\ ReplacementsInv'
  BY DEF IInv, StaffInv, RolesInv, TokensInv, SignInsInv, ReplacementsInv
<1> QED BY <1>1, <1>2 DEF IInv

LEMMA AuthenticateKeeps == ASSUME IInv, NEW t \in access, Authenticate(t) PROVE IInv'
<1>1. /\ serving' = [NotServing EXCEPT !.pc = "authenticated", !.login = t.login, !.roles = t.roles]
      /\ known' = [staff |-> LinkedTo(t.login), assigned |-> assigned]
      /\ UNCHANGED <<staff, users, assigned, roles, access, refresh, signIn, request, notHeld, current>>
  BY DEF Authenticate, people, tokens
<1>2. t \in Tokens /\ t.login \in Phones /\ t.roles \subseteq Roles /\ t.left \in Nat
  BY DEF IInv, TypeOK, Tokens
<1>3. /\ serving' \in Services /\ serving'.pc = "authenticated" /\ serving'.login = t.login
      /\ serving'.roles = t.roles /\ serving'.ticks = 0
  BY <1>1, <1>2 DEF NotServing, Services
<1>4. \A r \in t.roles : notHeld[t.login][r] < AccessLife + ServiceLife + 0
  <2> SUFFICES ASSUME NEW r \in t.roles PROVE notHeld[t.login][r] < AccessLife + ServiceLife
    BY LivesAreNat
  <2>1. t.left > 0 /\ notHeld[t.login][r] + t.left <= AccessLife + ServiceLife
    BY DEF IInv, TokensInv
  <2>2. notHeld[t.login][r] \in Nat
    BY <1>2 DEF IInv, TypeOK
  <2> QED BY <1>2, <2>1, <2>2, LivesAreNat
<1>5. known' \in [staff : SUBSET Staff, assigned : SUBSET Assignments]
  BY <1>1 DEF LinkedTo, IInv, TypeOK
<1>6. ServingInv'
  BY <1>1, <1>2, <1>3, <1>4 DEF ServingInv, LinkedTo
<1> QED BY <1>1, <1>3, <1>5, <1>6, ServingStep

\* A step of the request: it stays the request of its holder.
LEMMA ServingMoves ==
    ASSUME IInv, serving.pc # "idle", serving' \in Services,
           serving'.login = serving.login, serving'.roles = serving.roles, serving'.ticks = serving.ticks,
           serving'.pc = "found" => serving'.staff \in known.staff,
           serving'.pc = "scoped" =>
              \/ serving.roles \cap AdminRoles # {}
              \/ \A c \in serving'.scope : \E a \in known.assigned : a.class = c /\ a.staff \in known.staff,
           UNCHANGED <<people, roles, tokens, request, notHeld, current, known>>
    PROVE  IInv'
<1>1. UNCHANGED <<staff, users, assigned, roles, access, refresh, signIn, request, notHeld, current, known>>
  BY DEF people, tokens
<1>2. ServingInv'
  BY <1>1 DEF IInv, ServingInv, LinkedTo
<1>3. known' \in [staff : SUBSET Staff, assigned : SUBSET Assignments]
  BY <1>1 DEF IInv, TypeOK
<1> QED BY <1>1, <1>2, <1>3, ServingStep

LEMMA FindScopeKeeps == ASSUME IInv, FindScope PROVE IInv'
<1>1. serving \in Services /\ serving.pc = "authenticated"
  BY DEF FindScope, IInv, TypeOK
<1>2. CASE serving.roles \cap AdminRoles # {} /\ serving' = [serving EXCEPT !.pc = "scoped", !.scope = Classes]
  <2>1. /\ serving' \in Services /\ serving'.pc = "scoped" /\ serving'.login = serving.login
        /\ serving'.roles = serving.roles /\ serving'.ticks = serving.ticks
    BY <1>1, <1>2 DEF Services
  <2> QED BY <1>1, <1>2, <2>1, ServingMoves DEF FindScope
<1>3. ASSUME NEW s \in LinkedTo(serving.login), serving' = [serving EXCEPT !.pc = "found", !.staff = s]
      PROVE  IInv'
  <2>1. s \in Staff /\ s \in known.staff
    BY <1>1 DEF LinkedTo, IInv, ServingInv
  <2>2. /\ serving' \in Services /\ serving'.pc = "found" /\ serving'.login = serving.login /\ serving'.staff = s
        /\ serving'.roles = serving.roles /\ serving'.ticks = serving.ticks
    BY <1>1, <1>3, <2>1 DEF Services
  <2> QED BY <1>1, <2>1, <2>2, ServingMoves DEF FindScope
<1> QED BY <1>2, <1>3 DEF FindScope

LEMMA LoadClassScopeKeeps == ASSUME IInv, LoadClassScope PROVE IInv'
<1> DEFINE scope == {a.class : a \in {a \in assigned : a.staff = serving.staff}}
<1>1. serving \in Services /\ serving.pc = "found" /\ assigned \subseteq Assignments
  BY DEF LoadClassScope, IInv, TypeOK
<1>2. scope \subseteq Classes
  BY <1>1 DEF Assignments
<1>3. assigned \subseteq known.assigned /\ serving.staff \in known.staff
  BY <1>1 DEF IInv, ServingInv
<1>4. \A c \in scope : \E a \in known.assigned : a.class = c /\ a.staff \in known.staff
  BY <1>3
<1>5. serving' = [serving EXCEPT !.pc = "scoped", !.scope = scope]
  BY DEF LoadClassScope
<1> HIDE DEF scope
<1>6. /\ serving' \in Services /\ serving'.pc = "scoped" /\ serving'.login = serving.login
      /\ serving'.scope = scope /\ serving'.roles = serving.roles /\ serving'.ticks = serving.ticks
  BY <1>1, <1>2, <1>5 DEF Services
<1> QED BY <1>1, <1>4, <1>6, ServingMoves DEF LoadClassScope

LEMMA WriteKeeps == ASSUME IInv, NEW c \in Classes, Write(c) PROVE IInv'
<1>1. serving \in Services /\ serving.pc = "scoped" /\ serving' = [serving EXCEPT !.pc = "written", !.scope = {c}]
  BY DEF Write, IInv, TypeOK
<1>2. /\ serving' \in Services /\ serving'.pc = "written" /\ serving'.login = serving.login
      /\ serving'.roles = serving.roles /\ serving'.ticks = serving.ticks
  BY <1>1 DEF Services
<1> QED BY <1>1, <1>2, ServingMoves DEF Write

LEMMA AnswerKeeps == ASSUME IInv, Answer PROVE IInv'
<1>1. /\ serving' = NotServing /\ known' = NothingKnown
      /\ UNCHANGED <<staff, users, assigned, roles, access, refresh, signIn, request, notHeld, current>>
  BY DEF Answer, people, tokens
<1>2. serving' \in Services /\ serving'.pc = "idle"
  BY <1>1 DEF NotServing, Services
<1>3. known' \in [staff : SUBSET Staff, assigned : SUBSET Assignments]
  BY <1>1 DEF NothingKnown
<1>4. ServingInv'
  BY <1>2 DEF ServingInv
<1> QED BY <1>1, <1>2, <1>3, <1>4, ServingStep

LEMMA SessionKeeps == ASSUME IInv, Session PROVE IInv'
<1>1. \A n \in SignIns, login \in Phones : Login(n, login) => IInv'
  BY ReadRolesKeeps DEF Login
<1>2. \A n \in SignIns, t \in refresh : AuthRefresh(n, t) => IInv'
  <2> SUFFICES ASSUME NEW n \in SignIns, NEW t \in refresh, AuthRefresh(n, t) PROVE IInv'
    OBVIOUS
  <2>1. t.login \in Phones
    BY DEF IInv, TypeOK, Tokens
  <2> QED BY <2>1, ReadRolesKeeps DEF AuthRefresh
<1> QED BY <1>1, <1>2, SignTokensKeeps, SignInFailsKeeps, TickKeeps, AuthenticateKeeps, FindScopeKeeps, LoadClassScopeKeeps,
           WriteKeeps, AnswerKeeps DEF Session

-----------------------------------------------------------------------------
LEMMA StepKeepsIInv == ASSUME IInv, [Next]_vars PROVE IInv'
<1>1. CASE Next
  BY <1>1, OfficeKeeps, ReplacementKeeps, SessionKeeps DEF Next
<1>2. CASE UNCHANGED vars
  <2>1. TypeOK'
    BY <1>2 DEF vars, people, tokens, IInv, TypeOK
  <2>2. StaffInv' /\ RolesInv' /\ TokensInv' /\ SignInsInv'
    BY <1>2 DEF vars, people, tokens, IInv, StaffInv, RolesInv, TokensInv, SignInsInv
  <2>3. ServingInv' /\ ReplacementsInv'
    BY <1>2 DEF vars, people, tokens, IInv, ServingInv, LinkedTo, ReplacementsInv
  <2> QED BY <2>1, <2>2, <2>3 DEF IInv
<1> QED BY <1>1, <1>2

THEOREM IInvHolds == Spec => []IInv
  BY InitIInv, StepKeepsIInv, PTL DEF Spec

\* Staff, logins, roles, tokens and requests keep their types.
THEOREM TypeCorrect == Spec => []TypeOK
<1>1. IInv => TypeOK
  BY DEF IInv
<1> QED BY <1>1, IInvHolds, PTL

\* A token names only roles held within the life of a token and the service of
\* the login or refresh that signed it (login, auth_refresh, TenantMiddleware).
THEOREM RolesExpire == Spec => []RevokedRolesExpire
<1>1. IInv => RevokedRolesExpire
  BY DEF IInv, TokensInv, RevokedRolesExpire
<1> QED BY <1>1, IInvHolds, PTL

\* Overlapping, failed and interrupted replacements leave a login only roles
\* that were asked for (_replace_user_roles).
THEOREM HeldWereAskedFor == Spec => []HeldRolesWereAskedFor
<1>1. ASSUME IInv, NEW p \in Phones
      PROVE  /\ roles[p] \subseteq UNION {request[k].asked : k \in current[p]}
             /\ Deleted(p) = {} => roles[p] = UNION {request[k].asked : k \in current[p]}
  <2>1. /\ roles[p] \subseteq Roles /\ current[p] \subseteq Requests
        /\ \A k \in current[p] : request[k].asked \subseteq Roles /\ request[k].login = p
        /\ \A r \in Roles :
              r \in roles[p] <=> \E k \in current[p] : request[k].pc # "insert" /\ r \in request[k].asked
    BY <1>1 DEF IInv, TypeOK, RequestRows, ReplacementsInv
  <2>2. Deleted(p) = {} => \A k \in current[p] : request[k].pc # "insert"
    BY <2>1 DEF Deleted
  <2> QED BY <2>1, <2>2
<1>2. IInv => HeldRolesWereAskedFor
  BY <1>1 DEF HeldRolesWereAskedFor
<1> QED BY <1>2, IInvHolds, PTL

\* A write to a class is made by a recent administrator or by a member of staff
\* assigned to it during the request (load_class_scope, assert_in_scope).
THEOREM WritesEntitled == Spec => WritesWereEntitled
<1> DEFINE Entitled ==
        (serving'.pc = "written" /\ serving.pc # "written") => \A c \in serving'.scope :
            \/ \E r \in serving.roles \cap AdminRoles :
                  notHeld[serving.login][r] < AccessLife + ServiceLife + serving.ticks
            \/ \E a \in known.assigned : a.class = c /\ a.staff \in known.staff
<1>1. IInv /\ [Next]_vars => [Entitled]_vars
  <2> SUFFICES ASSUME IInv, Next, serving'.pc = "written", serving.pc # "written" PROVE Entitled
    OBVIOUS
  <2>1. PICK c \in Classes : Write(c)
    <3>1. ~Office
      BY DEF Office, CreateStaff, UpdateStaff, DeactivateStaff, CreateAssignment, DeleteAssignment, ChangesStaff
    <3>2. ~Replacement
      BY DEF Replacement, FindLogin, CheckPhone, InsertUser, LinkLogin, ImportUser, DeleteRoles, InsertRoles,
             Dies, ImportStaff
    <3>3. serving \in Services
      BY DEF IInv, TypeOK
    <3>4. \A n : (\A login, held : ~ReadRoles(n, login, held)) /\ ~SignTokens(n) /\ ~SignInFails(n)
      BY DEF ReadRoles, SignTokens, SignInFails
    <3>5. ~Tick
      BY <3>3 DEF Tick, Services
    <3>6. \A t : ~Authenticate(t)
      BY DEF Authenticate, NotServing
    <3>7. ~FindScope /\ ~LoadClassScope
      BY <3>3 DEF FindScope, LoadClassScope, Services
    <3>8. ~Answer
      BY DEF Answer, NotServing
    <3> QED BY <3>1, <3>2, <3>4, <3>5, <3>6, <3>7, <3>8 DEF Next, Session, Login, AuthRefresh
  <2>2. serving \in Services /\ serving.pc = "scoped" /\ c \in serving.scope /\ serving'.scope = {c}
    BY <2>1 DEF Write, IInv, TypeOK, Services
  <2>3. CASE serving.roles \cap AdminRoles # {}
    BY <2>2, <2>3 DEF IInv, ServingInv
  <2>4. CASE serving.roles \cap AdminRoles = {}
    BY <2>2, <2>4 DEF IInv, ServingInv
  <2> QED BY <2>3, <2>4
<1> QED BY <1>1, IInvHolds, PTL DEF Spec, WritesWereEntitled
=============================================================================
