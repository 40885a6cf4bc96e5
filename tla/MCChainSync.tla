---------------------------- MODULE MCChainSync -----------------------------
(* ChainSync for TLC: chain ids are interchangeable. *)
EXTENDS ChainSync, TLC
CONSTANTS o1, o2
Symmetry == Permutations(Orders)
=============================================================================
