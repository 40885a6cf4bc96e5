----------------------------- MODULE MCAsyncLock -----------------------------
(* Small instances of AsyncLock for TLC. *)
EXTENDS AsyncLock, TLC
=============================================================================
