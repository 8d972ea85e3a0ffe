CONSTANTS
    Rows = {r1, r2}
    Payments = {p1, p2}
    Prices = {1, 2}
    None = None
SPECIFICATION FairSpec
INVARIANTS
    ClaimsAndCollectionsKeepTheirItems
    NothingSettledUncharged
PROPERTIES
    PaidRowIsFinal
    OrdersAreResolved
