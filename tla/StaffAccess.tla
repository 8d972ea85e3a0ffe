---------------------------- MODULE StaffAccess ----------------------------
(***************************************************************************)
(* Staff, their logins and roles, and what a token lets its holder do.     *)
(*                                                                         *)
(* A login is a row of users, one for a phone number; a member of staff is *)
(* linked to at most one.  Its roles are replaced by a DELETE and an       *)
(* INSERT that commit separately.  A login or a refresh reads the roles,   *)
(* and later signs them into a token, which the server believes until it   *)
(* expires; the classes a teacher may write to are read anew for every     *)
(* request.                                                                *)
(* Passwords are left out: a login is made by whoever knows it.            *)
(***************************************************************************)
EXTENDS Integers, FiniteSets

CONSTANTS
    Staff,
    Phones,         \* phone numbers of a school; NoPhone is none of them
    NoPhone,
    Roles,
    AdminRoles,     \* ADMIN_TIER_ROLES
    Classes,        \* class and section
    Requests,       \* requests that replace roles; each is sent once
    SignIns,        \* logins and refreshes that may be in service at a time
    AccessLife,     \* ticks an access token lives
    RefreshLife,    \* ticks a refresh token lives
    ServiceLife,    \* bound: ticks a request in service may last
    MaxTokens,      \* bound: tokens of each type at a time
    MaxChanges      \* bound: changes of staff and assignments

ASSUME AccessAssumption ==
    /\ NoPhone \notin Phones
    /\ AdminRoles \subseteq Roles
    /\ AccessLife \in Nat \ {0} /\ RefreshLife \in Nat \ {0}
    /\ ServiceLife \in Nat /\ MaxTokens \in Nat /\ MaxChanges \in Nat

VARIABLES
    staff,      \* rows of staff
    users,      \* phones with a row in users
    roles,      \* user_roles
    assigned,   \* staff_class_assignments
    access,     \* access tokens not yet expired
    refresh,    \* refresh tokens not yet expired
    request,    \* requests that replace roles
    signIn,     \* logins and refreshes, between their read and their tokens
    serving,    \* a request of a token's holder
    changes,    \* changes of staff and assignments so far
    notHeld,    \* history: ticks since a login last held a role
    current,    \* history: replacements that no later one has undone
    known       \* history: staff and assignments since serving began

people == <<staff, users, assigned>>
tokens == <<access, refresh, signIn>>
vars == <<people, roles, tokens, request, serving, changes, notHeld, current, known>>

-----------------------------------------------------------------------------
Long == AccessLife + 2 * ServiceLife

NoStaff == [row |-> FALSE, active |-> FALSE, phone |-> NoPhone, login |-> NoPhone]
Ready == [pc |-> "ready", from |-> "roles", staff |-> NoPhone, login |-> NoPhone, asked |-> {}]
NotSigning == [login |-> NoPhone, roles |-> {}, ticks |-> 0]
NotServing == [pc |-> "idle", login |-> NoPhone, roles |-> {}, staff |-> NoPhone, scope |-> {}, ticks |-> 0]
NothingKnown == [staff |-> {}, assigned |-> {}]

\* The row of a request at its next place.  One that has ended keeps what it
\* asked for and of which login; the rest of its locals are gone.
At(row, pc) ==
    IF pc = "done" THEN [Ready EXCEPT !.pc = pc, !.login = row.login, !.asked = row.asked]
    ELSE [row EXCEPT !.pc = pc]

Goto(k, pc) == request' = [request EXCEPT ![k] = At(@, pc)]

Init ==
    /\ staff = [s \in Staff |-> NoStaff]
    /\ users = {} /\ assigned = {}
    /\ roles = [p \in Phones |-> {}]
    /\ access = {} /\ refresh = {}
    /\ signIn = [n \in SignIns |-> NotSigning]
    /\ request = [k \in Requests |-> Ready]
    /\ serving = NotServing
    /\ changes = 0
    /\ notHeld = [p \in Phones |-> [r \in Roles |-> Long]]
    /\ current = [p \in Phones |-> {}]
    /\ known = NothingKnown

-----------------------------------------------------------------------------
(* Staff and assignments: one statement each.                              *)

LinkedTo(login) == {s \in Staff : staff[s].active /\ staff[s].login = login}

\* What a request in service could have read at some moment since it began.
Observe ==
    known' = IF serving.pc = "idle" THEN NothingKnown
             ELSE [staff |-> known.staff \cup
                       {s \in Staff : staff'[s].active /\ staff'[s].login = serving.login},
                   assigned |-> known.assigned \cup assigned']

ChangesStaff ==
    /\ changes < MaxChanges
    /\ changes' = changes + 1
    /\ UNCHANGED <<users, roles, tokens, request, serving, notHeld, current>>

CreateStaff(s, phone, login) ==
    /\ ~staff[s].row /\ login \in users \cup {NoPhone}
    /\ staff' = [staff EXCEPT ![s] = [row |-> TRUE, active |-> TRUE, phone |-> phone, login |-> login]]
    /\ ChangesStaff /\ UNCHANGED assigned /\ Observe

UpdateStaff(s, phone, login, active) ==
    /\ staff[s].row /\ login \in users \cup {staff[s].login}
    /\ staff' = [staff EXCEPT ![s] = [row |-> TRUE, active |-> active, phone |-> phone, login |-> login]]
    /\ ChangesStaff /\ UNCHANGED assigned /\ Observe

\* The account, its roles and its tokens stay.
DeactivateStaff(s) ==
    /\ staff[s].active
    /\ staff' = [staff EXCEPT ![s].active = FALSE]
    /\ ChangesStaff /\ UNCHANGED assigned /\ Observe

\* sca_staff_class_sec_subj_idx.  Of a class, the rows that differ in subject
\* are one: the scope they give is the same.
CreateAssignment(s, c) ==
    /\ staff[s].row
    /\ assigned' = assigned \cup {[staff |-> s, class |-> c]}
    /\ assigned' # assigned
    /\ ChangesStaff /\ UNCHANGED staff /\ Observe

DeleteAssignment(a) ==
    /\ a \in assigned
    /\ assigned' = assigned \ {a}
    /\ ChangesStaff /\ UNCHANGED staff /\ Observe

-----------------------------------------------------------------------------
(* set_staff_roles: up to five statements, each with a commit of its own.  *)

FindLogin(k, s, asked) ==
    /\ request[k] = Ready /\ staff[s].row /\ asked # {}
    /\ request' = [request EXCEPT ![k] =
          [pc |-> IF staff[s].login = NoPhone THEN "check" ELSE "delete",
           from |-> "roles", staff |-> s, login |-> IF staff[s].login = NoPhone THEN staff[s].phone ELSE staff[s].login,
           asked |-> asked]]
    /\ UNCHANGED <<people, roles, tokens, serving, changes, notHeld, current, known>>

CheckPhone(k) ==
    /\ request[k].pc = "check"
    /\ Goto(k, IF \E other \in Staff : staff[other].login = request[k].login THEN "done" ELSE "user")
    /\ UNCHANGED <<people, roles, tokens, serving, changes, notHeld, current, known>>

InsertUser(k) ==
    /\ request[k].pc = "user"
    /\ users' = users \cup {request[k].login}
    /\ Goto(k, "link")
    /\ UNCHANGED <<staff, assigned, roles, tokens, serving, changes, notHeld, current, known>>

LinkLogin(k) ==
    /\ request[k].pc = "link"
    /\ staff' = [staff EXCEPT ![request[k].staff].login = request[k].login]
    /\ Goto(k, "delete")
    /\ UNCHANGED <<users, assigned, roles, tokens, serving, changes, notHeld, current>>
    /\ Observe

-----------------------------------------------------------------------------
(* import_staff: the statements of one row.                                *)

ImportUser(k, s, phone, role) ==
    /\ request[k] = Ready
    /\ users' = users \cup {phone}
    /\ request' = [request EXCEPT ![k] = [pc |-> "delete", from |-> "import", staff |-> s,
                                          login |-> phone, asked |-> {role}]]
    /\ UNCHANGED <<staff, assigned, roles, tokens, serving, changes, notHeld, current, known>>

\* An import with no role for a row is CreateStaff or UpdateStaff.
ImportStaff(k, phone) ==
    /\ request[k].pc = "upsert"
    /\ staff' = [staff EXCEPT ![request[k].staff] =
                   [row |-> TRUE, active |-> TRUE, phone |-> phone, login |-> request[k].login]]
    /\ Goto(k, "done")
    /\ UNCHANGED <<users, assigned, roles, tokens, serving, changes, notHeld, current>>
    /\ Observe

-----------------------------------------------------------------------------
(* _replace_user_roles: two statements, each with a commit of its own.     *)

Deleted(login) == {k \in Requests : request[k].pc = "insert" /\ request[k].login = login}

\* Takes a login of no other member of staff to have no roles yet.
DeleteOldRoles(k) ==
    LET login == request[k].login
        new == ~\E s \in Staff \ {request[k].staff} : staff[s].login = login
    IN /\ request[k].pc = "delete"
       /\ roles' = IF new THEN roles ELSE [roles EXCEPT ![login] = {}]
       /\ current' = [current EXCEPT ![login] = Deleted(login) \cup {k}]
       /\ Goto(k, "insert")
       /\ UNCHANGED <<people, tokens, serving, changes, notHeld, known>>

DeleteRoles(k) ==
    LET login == request[k].login
    IN /\ request[k].pc = "delete"
       /\ roles' = [roles EXCEPT ![login] = {}]
       /\ current' = [current EXCEPT ![login] = Deleted(login) \cup {k}]
       /\ Goto(k, "insert")
       /\ UNCHANGED <<people, tokens, serving, changes, notHeld, known>>

\* A role the login already holds fails the whole INSERT.
InsertRoles(k) ==
    LET login == request[k].login
        asked == request[k].asked
    IN /\ request[k].pc = "insert"
       /\ IF asked \cap roles[login] # {}
          THEN /\ current' = [current EXCEPT ![login] = @ \ {k}]
               /\ Goto(k, "done")
               /\ UNCHANGED <<roles, notHeld>>
          ELSE /\ roles' = [roles EXCEPT ![login] = @ \cup asked]
               /\ notHeld' = [notHeld EXCEPT ![login] = [r \in Roles |-> IF r \in asked THEN 0 ELSE @[r]]]
               /\ Goto(k, IF request[k].from = "import" THEN "upsert" ELSE "done")
               /\ UNCHANGED current
       /\ UNCHANGED <<people, tokens, serving, changes, known>>

\* The server stops, or the client is gone: what has committed stays.
Dies(k) ==
    /\ request[k].pc \notin {"ready", "done"}
    /\ current' = IF request[k].pc = "insert"
                  THEN [current EXCEPT ![request[k].login] = @ \ {k}] ELSE current
    /\ Goto(k, "done")
    /\ UNCHANGED <<people, roles, tokens, serving, changes, notHeld, known>>

-----------------------------------------------------------------------------
(* Tokens.                                                                 *)

AccessToken(login, held) == [login |-> login, roles |-> held, left |-> AccessLife]
RefreshToken(login, held) == [login |-> login, roles |-> held, left |-> RefreshLife]

\* A login or a refresh has read the roles, and now waits: for bcrypt and the
\* event it emits, or for its connection to go back to the pool.
ReadRoles(n, login, held) ==
    /\ signIn[n] = NotSigning /\ held # {}
    /\ signIn' = [signIn EXCEPT ![n] = [login |-> login, roles |-> held, ticks |-> 0]]
    /\ UNCHANGED <<people, roles, access, refresh, request, serving, changes, notHeld, current, known>>

\* users.is_active is set by no code; login does not read staff.is_active.
Login(n, login) == login \in users /\ ReadRoles(n, login, roles[login])

\* The roles in the refresh token are not used.
RefreshWithClaims(n, t) == t \in refresh /\ ReadRoles(n, t.login, t.roles)
AuthRefresh(n, t) == t \in refresh /\ ReadRoles(n, t.login, roles[t.login])

\* The tokens are signed over the roles read, and their lives begin.  Of the
\* tokens they hold, clients keep any, and lose the others.
SignTokens(n) ==
    /\ signIn[n] # NotSigning
    /\ signIn' = [signIn EXCEPT ![n] = NotSigning]
    /\ \E keptAccess \in SUBSET access, keptRefresh \in SUBSET refresh :
          /\ access' = keptAccess \cup {AccessToken(signIn[n].login, signIn[n].roles)}
          /\ refresh' = keptRefresh \cup {RefreshToken(signIn[n].login, signIn[n].roles)}
    /\ Cardinality(access') <= MaxTokens /\ Cardinality(refresh') <= MaxTokens
    /\ UNCHANGED <<people, roles, request, serving, changes, notHeld, current, known>>

\* emit fails, or the client or the server is gone.
SignInFails(n) ==
    /\ signIn[n] # NotSigning
    /\ signIn' = [signIn EXCEPT ![n] = NotSigning]
    /\ UNCHANGED <<people, roles, access, refresh, request, serving, changes, notHeld, current, known>>

Expire(ts) == {[t EXCEPT !.left = @ - 1] : t \in {t \in ts : t.left > 1}}

Tick ==
    /\ serving.pc # "idle" => serving.ticks < ServiceLife
    /\ \A n \in SignIns : signIn[n] # NotSigning => signIn[n].ticks < ServiceLife
    /\ access' = Expire(access)
    /\ refresh' = Expire(refresh)
    /\ serving' = IF serving.pc = "idle" THEN serving ELSE [serving EXCEPT !.ticks = @ + 1]
    /\ signIn' = [n \in SignIns |->
          IF signIn[n] = NotSigning THEN NotSigning ELSE [signIn[n] EXCEPT !.ticks = @ + 1]]
    /\ notHeld' = [p \in Phones |-> [r \in Roles |->
          IF r \in roles[p] THEN 0
          ELSE IF notHeld[p][r] < Long THEN notHeld[p][r] + 1 ELSE Long]]
    /\ UNCHANGED <<people, roles, request, changes, current, known>>

-----------------------------------------------------------------------------
(* A request of a token's holder.                                          *)

\* TenantMiddleware: the roles are the token's.
Authenticate(t) ==
    /\ serving.pc = "idle" /\ t \in access
    /\ serving' = [NotServing EXCEPT !.pc = "authenticated", !.login = t.login, !.roles = t.roles]
    /\ known' = [staff |-> LinkedTo(t.login), assigned |-> assigned]
    /\ UNCHANGED <<people, roles, tokens, request, changes, notHeld, current>>

LoadAnyonesScope ==
    /\ serving.pc = "authenticated"
    /\ \E s \in {s \in Staff : staff[s].login = serving.login} :
          serving' = [serving EXCEPT !.pc = "found", !.staff = s]
    /\ UNCHANGED <<people, roles, tokens, request, changes, notHeld, current, known>>

\* load_class_scope: the staff row, then its assignments.
FindScope ==
    /\ serving.pc = "authenticated"
    /\ \/ /\ serving.roles \cap AdminRoles # {}
          /\ serving' = [serving EXCEPT !.pc = "scoped", !.scope = Classes]
       \/ /\ serving.roles \cap AdminRoles = {}
          /\ \E s \in LinkedTo(serving.login) : serving' = [serving EXCEPT !.pc = "found", !.staff = s]
    /\ UNCHANGED <<people, roles, tokens, request, changes, notHeld, current, known>>

LoadClassScope ==
    /\ serving.pc = "found"
    /\ serving' = [serving EXCEPT !.pc = "scoped",
                                  !.scope = {a.class : a \in {a \in assigned : a.staff = serving.staff}}]
    /\ UNCHANGED <<people, roles, tokens, request, changes, notHeld, current, known>>

\* assert_in_scope, then the handler's write.
Write(c) ==
    /\ serving.pc = "scoped" /\ c \in serving.scope
    /\ serving' = [serving EXCEPT !.pc = "written", !.scope = {c}]
    /\ UNCHANGED <<people, roles, tokens, request, changes, notHeld, current, known>>

\* Answered, or refused with a 403.
Answer ==
    /\ serving.pc # "idle"
    /\ serving' = NotServing /\ known' = NothingKnown
    /\ UNCHANGED <<people, roles, tokens, request, changes, notHeld, current>>

-----------------------------------------------------------------------------
Office ==
    \/ \E s \in Staff :
          \/ \E phone \in Phones, login \in Phones \cup {NoPhone} :
                \/ CreateStaff(s, phone, login)
                \/ \E active \in BOOLEAN : UpdateStaff(s, phone, login, active)
          \/ DeactivateStaff(s)
          \/ \E c \in Classes : CreateAssignment(s, c)
    \/ \E a \in assigned : DeleteAssignment(a)

Replacement ==
    \E k \in Requests :
        \/ \E s \in Staff, asked \in SUBSET Roles : FindLogin(k, s, asked)
        \/ CheckPhone(k) \/ InsertUser(k) \/ LinkLogin(k)
        \/ \E s \in Staff, phone \in Phones, role \in Roles : ImportUser(k, s, phone, role)
        \/ DeleteRoles(k) \/ InsertRoles(k) \/ Dies(k)
        \/ \E phone \in Phones : ImportStaff(k, phone)

Session ==
    \/ \E n \in SignIns :
          \/ \E login \in Phones : Login(n, login)
          \/ \E t \in refresh : AuthRefresh(n, t)
          \/ SignTokens(n) \/ SignInFails(n)
    \/ Tick
    \/ \E t \in access : Authenticate(t)
    \/ FindScope \/ LoadClassScope
    \/ \E c \in Classes : Write(c)
    \/ Answer

Next == Office \/ Replacement \/ Session

Spec == Init /\ [][Next]_vars

-----------------------------------------------------------------------------
(* Properties.                                                             *)

\* Whatever the sequence of logins, refreshes and replacements of roles, a
\* token names only roles its login held at most AccessLife ticks ago, and the
\* ticks its login or refresh was in service: what remains of its life and the
\* time since the role was last held never add up to more, also when the role
\* is taken away between the read of the roles and the signature (login,
\* auth_refresh; TenantMiddleware never reads them anew).
RevokedRolesExpire ==
    \A t \in access : \A r \in t.roles : notHeld[t.login][r] + t.left <= AccessLife + ServiceLife

\* However replacements of one login's roles overlap, fail or stop half-way,
\* it holds no role but those asked for since the last DELETE no request in
\* progress had already passed; and all of those once no request is between
\* its two statements (_replace_user_roles, also for a login that is new to
\* its member of staff).
HeldRolesWereAskedFor ==
    \A p \in Phones :
        LET asked == UNION {request[k].asked : k \in current[p]}
        IN /\ roles[p] \subseteq asked
           /\ Deleted(p) = {} => roles[p] = asked

\* A write to a class is made by a holder whose admin role was held within the
\* life of a token and the service of its login before the request, or whose
\* login was linked, during the request, to an active member of staff assigned
\* to the class during it (load_class_scope, assert_in_scope).
WritesWereEntitled ==
    [][(serving'.pc = "written" /\ serving.pc # "written") => \A c \in serving'.scope :
          \/ \E r \in serving.roles \cap AdminRoles :
                notHeld[serving.login][r] < AccessLife + ServiceLife + serving.ticks
          \/ \E a \in known.assigned : a.class = c /\ a.staff \in known.staff]_vars
=============================================================================
