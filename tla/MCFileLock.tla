----------------------------- MODULE MCFileLock -----------------------------
(* A small instance of FileLock for TLC. *)
EXTENDS FileLock
=============================================================================
