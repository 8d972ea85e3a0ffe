CONSTANTS
    unitTest = unitTest
    theory = theory
    Students = {asha}
    Components <- ComponentNames
    Weight <- EqualWeight
    Maxima = {1, 32}
    Marks = {2}
    Saves = {k1, k2}
    MaxSetups = 2
    YearTerms = {half, annual}
    YearSubjects = {maths, hindi}
    SheetConfigs <- SheetRows
    SheetMarks = {0, 1, 2, 3}
SPECIFICATION TermSpec
INVARIANTS
    GridMatchesEntry
    ResultsAgree
    RollUpsStayWithinHundred
PROPERTIES
    LateWritesWereInFlight
SYMMETRY AnySaveAnyComponent
CHECK_DEADLOCK FALSE
