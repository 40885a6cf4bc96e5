----------------------------- MODULE MCSyncGuard -----------------------------
(* Side by side: the time limit around a sync inside a process, the lock files between   *)
(* processes and the supervisor that starts them.  A behaviour is one of the three.      *)
EXTENDS SyncGuard, FileLock, Supervisor, TLC
VARIABLE part
Order == <<"bot", "updater">>
processVars == <<vars, fileVars, supervisorVars, part>>
ProcessInit ==
    Init /\ FileInit /\ SupervisorInit /\ part \in {"sync", "files", "apps"}
ProcessNext ==
    \/ part = "sync" /\ Next /\ UNCHANGED <<fileVars, supervisorVars, part>>
    \/ part = "files" /\ FileNext /\ UNCHANGED <<vars, supervisorVars, part>>
    \/ part = "apps" /\ SupervisorNext /\ UNCHANGED <<vars, fileVars, part>>
\* What is fair in one part is not enabled in the initial state the others keep.
ProcessSpec == ProcessInit /\ [][ProcessNext]_processVars /\ SyncFairness /\ FileFairness
=============================================================================
