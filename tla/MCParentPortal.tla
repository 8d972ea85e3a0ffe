--------------------------- MODULE MCParentPortal ---------------------------
(* One child, a real phone and a placeholder, the phone's default and one   *)
(* chosen password.                                                         *)
EXTENDS ParentPortal, TLC

MCDefault == "phone" :> "last four" @@ "placeholder" :> "none"
AnyRequest == Permutations(Requests)
=============================================================================
