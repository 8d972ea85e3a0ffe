--------------------------- MODULE MCAdmissions ---------------------------
(* Two admissions under way, two requests at a time, five in all.          *)
EXTENDS Admissions, TLC

Anyone == Permutations(Requests) \cup Permutations(Ids)
=============================================================================
