SPECIFICATION Spec
CONSTANTS
    Children = {child}
    Phones = {"phone", "placeholder"}
    Callers = {"phone"}
    NoPhone = nobody
    Passwords = {"last four", "chosen"}
    NoPassword = "none"
    AnyPassword = "any"
    DefaultPassword <- MCDefault
    Requests = {k1, k2}
    AccessLife = 1
    CodeLife = 1
    ServiceLife = 1
    MaxSessions = 1
    MaxCodes = 2
    MaxChanges = 2
SYMMETRY AnyRequest
INVARIANTS PagesFollowTheAccount
PROPERTIES UsedWhatItChecked
CHECK_DEADLOCK FALSE
