---------------------------- MODULE MCFillQueue ----------------------------
(* Small instances of FillQueue for TLC. *)
EXTENDS FillQueue, TLC
=============================================================================
