--------------------------- MODULE MCWorkerSpine ---------------------------
(* Events nobody handles, and receipts with their two notifications, about *)
(* one payment or about two.                                               *)
EXTENDS WorkerSpine

SilentAndReceipt == {"silent", "receipt"}
SilentAndReceiptInserts == [silent |-> 0, receipt |-> 2]
SilentAndReceiptTypes == [silent |-> <<>>, receipt |-> <<"FEE_RECEIPT", "FEE_RECONCILE">>]
=============================================================================
