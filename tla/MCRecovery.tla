------------------------------ MODULE MCRecovery ------------------------------
(* The two modules side by side: a behaviour is one of either. *)
EXTENDS FundRecovery, StateRecovery, TLC
VARIABLE part
vars == <<recoveryVars, stateVars, part>>
Init == RecoveryInit /\ StateInit /\ part \in {"funds", "state"}
Next ==
    \/ part = "funds" /\ RecoveryNext /\ UNCHANGED <<stateVars, part>>
    \/ part = "state" /\ StateNext /\ UNCHANGED <<recoveryVars, part>>
Spec == Init /\ [][Next]_vars /\ RecoveryFairness /\ StateFairness
=============================================================================
