--------------------------- MODULE MCCreditRuntime ---------------------------
(* The renewal of credit deals, checked on its own. *)
EXTENDS CreditRuntime, TLC
Init == CreditInit
Next == CreditNext
Spec == CreditSpec /\ CreditFairness
=============================================================================
