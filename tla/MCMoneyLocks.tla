---------------------------- MODULE MCMoneyLocks ----------------------------
(* Two transactions over two ledger rows, an order, and a claim or a second *)
(* order.                                                                   *)
EXTENDS MoneyLocks, TLC

Symmetry == Permutations(Rows) \cup Permutations(Payments) \cup Permutations(Txns)
=============================================================================
