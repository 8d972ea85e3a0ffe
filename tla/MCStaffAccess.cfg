CONSTANTS
    Staff = {tara, ravi}
    Phones = {p1, p2}
    NoPhone = none
    Roles = {principal, teacher}
    AdminRoles = {principal}
    Classes = {c1}
    Requests = {k1, k2}
    SignIns = {n1}
    AccessLife = 1
    RefreshLife = 2
    ServiceLife = 1
    MaxTokens = 1
    MaxChanges = 2
SPECIFICATION Spec
INVARIANTS
    RevokedRolesExpire
    HeldRolesWereAskedFor
PROPERTIES
    WritesWereEntitled
SYMMETRY Anyone
CHECK_DEADLOCK FALSE
