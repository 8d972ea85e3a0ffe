CONSTANTS
    Rows = {r1, r2}
    Payments = {p1, p2, p3}
    Prices = {1}
    None = None
SPECIFICATION Spec
SYMMETRY Symmetry
INVARIANTS
    NoDoubleLivePayment
    PaidRowHasItsPaidItem
    ClaimedRowsStayUnpaid
    ReceiptsWithoutGap
    OutboxMatchesStatus
PROPERTIES
    ClosedPaymentIsFinal
    ImplementsFeeLedger
