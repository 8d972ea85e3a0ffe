CONSTANTS
    Rows = {r1, r2}
    DueDates = {1, 2}
    NoDate = NoDate
    GRACE_DAYS = 2
    REMINDER_INTERVAL_DAYS = 2
    LastDay = 8
SPECIFICATION FairSpec
INVARIANTS
    OverdueRowsAreNotified
PROPERTIES
    StatusOnlyAdvances
    LateRowsBecomeOverdue
