--------------------------- MODULE MCFeeLifecycle ---------------------------
(* Rows due on the first days, or generated later, over a fortnight shrunk  *)
(* to a short grace period and reminder interval.                           *)
EXTENDS FeeLifecycle
=============================================================================
