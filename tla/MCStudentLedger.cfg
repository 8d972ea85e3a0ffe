SPECIFICATION Spec
CONSTANTS
    Students = {s1}
    Classes = {"c1", "c2"}
    Years = {"y1", "y2"}
    NoYear = "none"
    FirstYear = "y1"
    Pairs <- MCPairs
    Monthly = {"transport"}
    Annual = {"tuition", "admission"}
    Grouped = {"admission"}
    RidersOnly = {"transport"}
    Seasonal = {"transport"}
    ReducedMonth = 5
    ReducedPercent = 50
    Schedules <- MCSchedules
    Arrivals <- MCArrivals
    NewPrices <- MCNewPrices
    Concessions <- MCConcessions
    ThisYear = 1
    Requests = {k1, k2}
    MaxSent = 3
    MaxChanges = 1
SYMMETRY AnyRequest
INVARIANTS UnpaidRowsPriced OnlyNewcomersPayAdmission ReportsAgree
CHECK_DEADLOCK FALSE
