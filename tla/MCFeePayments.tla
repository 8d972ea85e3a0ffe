--------------------------- MODULE MCFeePayments ---------------------------
(* Two ledger rows and a few payments, the smallest tenant in which an     *)
(* order, a claim and a desk collection can overlap on some rows only.     *)
EXTENDS FeePayments, FiniteSets, TLC

\* Rows and payment ids are interchangeable (safety runs only).
Symmetry == Permutations(Rows) \cup Permutations(Payments)
=============================================================================
