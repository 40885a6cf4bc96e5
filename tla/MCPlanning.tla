------------------------------ MODULE MCPlanning ------------------------------
(* The executor's locking and the plans it executes side by side: a behaviour is one of *)
(* either.                                                                              *)
EXTENDS CowBatch, Rebalance, TLC
VARIABLE part
CowSymmetry == Permutations(Slots)
\* One boundary is enough for the executor, which does not read it.
PlanningInit ==
    /\ Init /\ RebalanceInit
    /\ part = "plans" \/ (part = "executor" /\ boundaryIdx = 0)
PlanningNext ==
    \/ part = "executor" /\ Next /\ UNCHANGED <<rebalanceVars, part>>
    \/ part = "plans" /\ RebalanceNext /\ UNCHANGED <<vars, part>>
PlanningSpec == PlanningInit /\ [][PlanningNext]_<<vars, rebalanceVars, part>>
=============================================================================
