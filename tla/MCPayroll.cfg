CONSTANTS
    Staff = {tara, ravi}
    Periods = {june, july}
    RunIds = {r1, r2}
    Gross = {1}
    Lines <- SomeLines
    Requests = {k1, k2, k3, k4}
    MaxChanges = 4
SPECIFICATION Spec
INVARIANTS
    RunsAreSnapshots
PROPERTIES
    LateEditsWereInFlight
SYMMETRY AnyRequest
CHECK_DEADLOCK FALSE
