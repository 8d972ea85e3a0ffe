----------------------------- MODULE MCPayroll -----------------------------
(* Two members of staff, two months, four requests.                         *)
EXTENDS Payroll, TLC

SomeLines == {[allowances |-> 1, deductions |-> 0], [allowances |-> 0, deductions |-> 2]}
AnyRequest == Permutations(Requests)
=============================================================================
