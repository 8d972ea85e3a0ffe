CONSTANTS
    Rows = {r1, r2}
    Payments = {p1, p2, p3}
    Prices = {1}
    None = None
    Txns = {t1, t2}
    Tenant = Tenant
    Counter = Counter
SPECIFICATION LSpec
SYMMETRY Symmetry
PROPERTIES
    EveryCommitIsATransaction
CHECK_DEADLOCK FALSE
