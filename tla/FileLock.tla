------------------------------- MODULE FileLock -------------------------------
(***************************************************************************)
(* The lock files that processes share: market_adapter/utils/file_lock.ts. *)
(* A process that creates the file with flag "wx" holds the lock; the file *)
(* names its owner.  A contender that finds the file looks at it, and one  *)
(* that judges it stale unlinks it and tries again.  Every call of the     *)
(* file system is a step of its own, for the processes interleave there.   *)
(*                                                                         *)
(* AdapterLock = TRUE is the life-time lock of the market adapter          *)
(* (acquireFileLockSync: two attempts, the owner's pid is checked, the     *)
(* release stops the heartbeat); FALSE is the short lock around a snapshot *)
(* (acquirePathLockSync: retries until a deadline, no pid check, and the   *)
(* lock object it returns has lost its heartbeat).                         *)
(*                                                                         *)
(* A heartbeat fires strictly inside the staleness window, so the file's   *)
(* age is one bit: it grows old when its owner is gone and no interval of  *)
(* any process touches the path.                                           *)
(***************************************************************************)
EXTENDS Naturals, FiniteSets

CONSTANTS
    Processes,
    Gone,            \* the owner named by a file whose process has died
    NoFile,
    AdapterLock,     \* TRUE: acquireFileLockSync; FALSE: acquirePathLockSync
    MaxDeaths        \* bound on the deaths of processes

ASSUME FileLockAssumption ==
    /\ Gone \notin Processes
    /\ AdapterLock \in BOOLEAN
    /\ MaxDeaths \in Nat

VARIABLES
    lockFile,        \* NoFile, or who created it, whether its text is there, whether it is old
    at,              \* what each process does next
    attempts,        \* the attempts of its call, up to 2
    beats,           \* processes with a heartbeat interval on the path
    deaths

fileVars == <<lockFile, at, attempts, beats, deaths>>

FileInit ==
    /\ lockFile = NoFile
    /\ at = [p \in Processes |-> "away"]
    /\ attempts = [p \in Processes |-> 0]
    /\ beats = {}
    /\ deaths = 0

-----------------------------------------------------------------------------
Goes(p, to) == at' = [at EXCEPT ![p] = to]
CreatedBy(p) == lockFile # NoFile /\ lockFile.by = p

\* maxAttempts of the adapter's lock; the other one counts none.
AttemptsLeft(p) == AdapterLock => attempts[p] < 2

Ask(p) ==
    /\ at[p] = "away"
    /\ Goes(p, "opens")
    /\ attempts' = [attempts EXCEPT ![p] = 0]
    /\ UNCHANGED <<lockFile, beats, deaths>>

\* open(lockPath, 'wx') creates the file or fails with EEXIST.
Open(p) ==
    /\ at[p] = "opens"
    /\ AttemptsLeft(p)
    /\ IF lockFile = NoFile
         THEN /\ lockFile' = [by |-> p, written |-> FALSE, old |-> FALSE]
              /\ Goes(p, "writes")
              /\ UNCHANGED attempts
         ELSE /\ Goes(p, "looks")
              /\ attempts' = [attempts EXCEPT ![p] = IF AdapterLock THEN @ + 1 ELSE @]
              /\ UNCHANGED lockFile
    /\ UNCHANGED <<beats, deaths>>

\* The text goes to the file p opened, which may have lost its name meanwhile.
Write(p) ==
    /\ at[p] = "writes"
    /\ IF CreatedBy(p)
         THEN lockFile' = [lockFile EXCEPT !.written = TRUE]
         ELSE UNCHANGED lockFile
    /\ beats' = beats \cup {p}
    /\ Goes(p, "holds")
    /\ UNCHANGED <<attempts, deaths>>

\* The write fails: the file is unlinked and the call throws.
WriteFails(p) ==
    /\ at[p] = "writes"
    /\ lockFile' = NoFile
    /\ Goes(p, "away")
    /\ UNCHANGED <<attempts, beats, deaths>>

\* A file that is no longer there counts as stale; a text without a pid is not checked.
StaleOrDead ==
    \/ lockFile = NoFile
    \/ lockFile.old
    \/ AdapterLock /\ lockFile.written /\ lockFile.by = Gone

\* A live lock makes the adapter's call throw and the other one wait.
Look(p) ==
    /\ at[p] = "looks"
    /\ Goes(p, IF StaleOrDead THEN "unlinks" ELSE IF AdapterLock THEN "away" ELSE "opens")
    /\ UNCHANGED <<lockFile, attempts, beats, deaths>>

\* Whatever file is there by now.
UnlinkStale(p) ==
    /\ at[p] = "unlinks"
    /\ lockFile' = NoFile
    /\ Goes(p, "opens")
    /\ UNCHANGED <<attempts, beats, deaths>>

\* Out of attempts, or past the deadline.
GiveUp(p) ==
    /\ at[p] = "opens"
    /\ ~AdapterLock \/ ~AttemptsLeft(p)
    /\ Goes(p, "away")
    /\ UNCHANGED <<lockFile, attempts, beats, deaths>>

\* Mutation: the interval is left running.
BeatsStay(p) == beats
BeatsAfterRelease(p) == IF AdapterLock THEN beats \ {p} ELSE beats

\* releaseFileLockSync(): the interval stops if the lock object has it, then the owner
\* is read; another owner's file is left alone, an unreadable one is not.
Release(p) ==
    /\ at[p] = "holds"
    /\ beats' = BeatsAfterRelease(p)
    /\ Goes(p, IF lockFile # NoFile /\ lockFile.written /\ lockFile.by # p
                 THEN "away" ELSE "removes")
    /\ UNCHANGED <<lockFile, attempts, deaths>>

UnlinkOwn(p) ==
    /\ at[p] = "removes"
    /\ lockFile' = NoFile
    /\ Goes(p, "away")
    /\ UNCHANGED <<attempts, beats, deaths>>

-----------------------------------------------------------------------------
\* A process dies at any point; one that starts afresh has another pid.
Die(p) ==
    /\ deaths < MaxDeaths
    /\ at[p] # "away" \/ p \in beats
    /\ deaths' = deaths + 1
    /\ lockFile' = IF CreatedBy(p) THEN [lockFile EXCEPT !.by = Gone] ELSE lockFile
    /\ beats' = beats \ {p}
    /\ Goes(p, "away")
    /\ UNCHANGED attempts

\* staleMs pass without a touch of the path.
GrowOld ==
    /\ CreatedBy(Gone) /\ ~lockFile.old
    /\ beats = {}
    /\ lockFile' = [lockFile EXCEPT !.old = TRUE]
    /\ UNCHANGED <<at, attempts, beats, deaths>>

\* An interval touches the path, whoever's file is there.
Beat ==
    /\ beats # {} /\ lockFile # NoFile /\ lockFile.old
    /\ lockFile' = [lockFile EXCEPT !.old = FALSE]
    /\ UNCHANGED <<at, attempts, beats, deaths>>

Acquiring(p) == Open(p) \/ Write(p) \/ Look(p) \/ UnlinkStale(p) \/ GiveUp(p)

FileNext ==
    \/ \E p \in Processes :
          \/ Ask(p) \/ Acquiring(p) \/ WriteFails(p)
          \/ Release(p) \/ UnlinkOwn(p) \/ Die(p)
    \/ GrowOld \/ Beat

FileSpec == FileInit /\ [][FileNext]_fileVars

\* Calls run to their end, holders release, files age; nobody has to call.
FileFairness ==
    /\ \A p \in Processes :
          WF_fileVars(Acquiring(p)) /\ WF_fileVars(Release(p)) /\ WF_fileVars(UnlinkOwn(p))
    /\ WF_fileVars(GrowOld)

-----------------------------------------------------------------------------
\* A process that holds the lock finds its own file on the path until it releases it:
\* "a live market adapter lock must not be removed by a newer process"
\* (tests/test_market_adapter_file_lock.ts).
HolderKeepsTheFile == \A p \in Processes : at[p] = "holds" => CreatedBy(p)

\* As long as some process asks for the lock again and again, a file left behind by a
\* dead process does not stay: its pid is found dead, or, if it died before it could write
\* one, the file grows old.
LeftoverIsCleared ==
    []<>(\E p \in Processes : at[p] = "opens") => (CreatedBy(Gone) ~> ~CreatedBy(Gone))
===============================================================================
