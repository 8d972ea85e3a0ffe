---------------------------- MODULE MCExamTerms ----------------------------
(* One student, two components, two saves; results over two terms of two   *)
(* subjects.                                                               *)
EXTENDS ExamTerms, TLC

CONSTANTS unitTest, theory

ComponentNames == {unitTest, theory}
EqualWeight == [c \in ComponentNames |-> 1]
AnySaveAnyComponent == Permutations(Saves) \cup Permutations(ComponentNames)

\* 1 of 80 is 1.25 %, a tie between two tenths.
SheetRows == {[max |-> 3, passing |-> 2, weight |-> 2],
              [max |-> 80, passing |-> 1, weight |-> 1]}
=============================================================================
