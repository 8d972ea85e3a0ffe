-------------------------- MODULE MCStaffAccess --------------------------
(* Two members of staff, two phones, a teacher's and a principal's role,   *)
(* one class, two replacements of roles.                                   *)
EXTENDS StaffAccess, TLC

Anyone == Permutations(Requests) \cup Permutations(Staff) \cup Permutations(Phones)
=============================================================================
