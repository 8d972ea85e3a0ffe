---------------------------- MODULE MCStudentLedger ----------------------------
EXTENDS FeeReports, TLC

\* A school year runs from May of its first calendar year to January of its second.
MCPairs == "y1" :> <<<<5, 1>>, <<1, 2>>>> @@ "y2" :> <<<<5, 2>>>>
MCSchedules == [o \in Offers |->
    CASE o = <<"transport", "y1", "all">> -> 33330
      [] o = <<"transport", "y1", "c2">> -> 40000
      [] o = <<"tuition", "y1", "all">> -> 90000
      [] o = <<"admission", "y1", "all">> -> 50000
      [] OTHER -> 0]
MCArrivals == {<<"c2", "y1", TRUE>>}
MCNewPrices == {<<<<"transport", "y1", "all">>, 44440>>}
MCConcessions == {[h \in Heads |-> 0], [h \in Heads |-> IF h = "transport" THEN 15 ELSE 0]}

AnyRequest == Permutations(Requests)
================================================================================
