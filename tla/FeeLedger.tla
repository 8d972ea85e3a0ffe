----------------------------- MODULE FeeLedger -----------------------------
(***************************************************************************)
(* What the fee ledger promises a parent and an auditor, whatever channel  *)
(* the money comes through: receipts are numbered 1, 2, 3, ...; a receipt  *)
(* settles, in the same step, a set of rows none of which was paid; a paid *)
(* row keeps its receipt for ever.  FeePayments implements it.             *)
(*                                                                         *)
(* Two of its weaknesses are the code's: a receipt may settle no row at    *)
(* all, and it may settle a waived one.  See the README.                   *)
(***************************************************************************)
EXTENDS Naturals

CONSTANT Rows

VARIABLES
    state,      \* what each row is: unpaid, paid or waived
    receipt,    \* the number of the receipt that settled it, 0 for none
    issued      \* the last receipt number issued

Init ==
    /\ state = [r \in Rows |-> "unpaid"]
    /\ receipt = [r \in Rows |-> 0]
    /\ issued = 0

Settle(S) ==
    /\ \A r \in S : state[r] # "paid"
    /\ issued' = issued + 1
    /\ state' = [r \in Rows |-> IF r \in S THEN "paid" ELSE state[r]]
    /\ receipt' = [r \in Rows |-> IF r \in S THEN issued + 1 ELSE receipt[r]]

Waive(S) ==
    /\ \A r \in S : state[r] = "unpaid"
    /\ state' = [r \in Rows |-> IF r \in S THEN "waived" ELSE state[r]]
    /\ UNCHANGED <<receipt, issued>>

Next == \E S \in SUBSET Rows : Settle(S) \/ Waive(S)

Spec == Init /\ [][Next]_<<state, receipt, issued>>
=============================================================================
