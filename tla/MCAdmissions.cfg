CONSTANTS
    Ids = {a1, a2}
    NoId = none
    Requests = {k1, k2}
    MaxSent = 5
    Started = {"none", "docs_pending"}
    GivenNumbers = {2}
    MaxNumber = 3
    StaleDays = 1
    MaxDocuments = 1
    MaxCrashes = 1
SPECIFICATION AdmissionsSpec
INVARIANTS
    OneStudentPerAdmission
PROPERTIES
    IllegalMovesWereOvertaken
    NudgesAreThrottled
SYMMETRY Anyone
CHECK_DEADLOCK FALSE
