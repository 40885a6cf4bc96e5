---------------------------- MODULE FundRecovery ----------------------------
(***************************************************************************)
(* How a bot repairs its funds: the verification of the fund invariant and *)
(* its bounded attempts (modules/order/accounting.ts), and the structural  *)
(* resync they ask for (modules/dexbot_maintenance_runtime.ts).            *)
(*                                                                         *)
(* It all hangs on manager._recoveryState.  An attempt keeps the object *)
(* it started with across its awaits, and everybody else replaces the      *)
(* manager's object by a changed copy: from then on the attempt writes to  *)
(* an object nobody reads, and the copy keeps what the attempt had set.    *)
(***************************************************************************)
EXTENDS Naturals, FiniteSets

CONSTANTS
    Attempts,      \* calls of _attemptFundRecovery() that may be under way at once
    MaxAttempts,   \* MAX_RECOVERY_ATTEMPTS
    Decay,         \* retry intervals without a failure after which the count decays
    MaxDefers      \* times the resync's timer is put off while a batch is in flight

ASSUME RecoveryAssumption ==
    /\ IsFiniteSet(Attempts) /\ Attempts # {}
    /\ MaxAttempts \in Nat \ {0} /\ Decay \in Nat \ {0} /\ MaxDefers \in Nat

VARIABLES
    rec,         \* manager._recoveryState, times as ages in retry intervals
    exhausted,   \* _recoveryExhaustedAt: creates are blocked
    attempt,     \* the calls of _attemptFundRecovery()
    verifying,   \* the verification that is awaited, with its attempt
    pending,     \* _pendingInvariantSnapshot
    resync,      \* the structural resync
    defers,      \* _structuralGridResyncDeferCount
    batchInFlight

recordVars == <<rec, exhausted, attempt>>
checkVars == <<verifying, pending>>
resyncVars == <<resync, defers>>
recoveryVars == <<recordVars, checkVars, resyncVars, batchInFlight>>

Zero == [count |-> 0, cooled |-> TRUE, failed |-> 0, inFlight |-> FALSE, requested |-> FALSE]
Idle == [at |-> "idle", own |-> FALSE, requested |-> FALSE, by |-> "verify"]

RecoveryInit ==
    /\ rec = Zero /\ exhausted = FALSE /\ attempt = [a \in Attempts |-> Idle]
    /\ verifying = {} /\ pending = "none"
    /\ resync = "none" /\ defers = 0 /\ batchInFlight = FALSE

-----------------------------------------------------------------------------
\* manager._recoveryState = {...}: the calls under way keep the object they started with.
Replace(new) ==
    /\ rec' = new
    /\ attempt' = [a \in Attempts |->
                     IF attempt[a].own
                     THEN [attempt[a] EXCEPT !.own = FALSE, !.requested = rec.requested]
                     ELSE attempt[a]]

\* The resync is filed unless one is scheduled or runs.
Skipped == resync # "none"
File == resync' = IF Skipped THEN resync ELSE "timer"

\* The count after the decay.
Decayed == rec.count > 0 /\ rec.failed > Decay
Counted == IF Decayed THEN [rec EXCEPT !.count = 0, !.failed = 0] ELSE rec
Cooling(r) == r.count > 0 /\ ~r.cooled

\* Mutations: no look at the attempt in flight; one attempt too many.
NeverBusy == FALSE

Busy == rec.inFlight
Spent(r) == r.count >= MaxAttempts

\* _attemptFundRecovery() up to its first await, by caller `by`; the call is a if it
\* goes ahead.
Attempt(a, by) ==
    IF Busy
    THEN UNCHANGED recordVars
    ELSE IF Spent(Counted)
    THEN rec' = Counted /\ exhausted' = TRUE /\ UNCHANGED attempt
    ELSE IF Cooling(Counted)
    THEN rec' = Counted /\ UNCHANGED <<exhausted, attempt>>
    ELSE /\ rec' = [Counted EXCEPT !.inFlight = TRUE, !.count = @ + 1, !.cooled = FALSE]
         /\ attempt' = [attempt EXCEPT ![a] =
                          [at |-> "reading", own |-> TRUE, requested |-> FALSE, by |-> by]]
         /\ UNCHANGED exhausted

\* _verifyFundInvariants(): awaits the attempt it starts unless the grid lock is held.
Verify(snapshot, gridLocked) ==
    \E a \in Attempts :
        /\ attempt[a].at = "idle"
        /\ IF snapshot = "bad"
           THEN /\ Attempt(a, "verify")
                /\ verifying' = IF attempt'[a].at = "reading" /\ ~gridLocked THEN {a} ELSE {}
           ELSE UNCHANGED recordVars /\ verifying' = {}

\* recalculateFunds(): only the newest snapshot waits while one is being verified.
Recalculate(snapshot, gridLocked) ==
    /\ ~batchInFlight
    /\ IF verifying # {}
       THEN pending' = snapshot /\ UNCHANGED <<recordVars, verifying>>
       ELSE Verify(snapshot, gridLocked) /\ UNCHANGED pending
    /\ UNCHANGED <<resyncVars, batchInFlight>>

\* The awaited attempt is over: the snapshot that waits is verified next.
VerifyNext(gridLocked) ==
    /\ verifying # {} /\ \A a \in verifying : attempt[a].at # "reading"
    /\ pending' = "none"
    /\ IF pending = "none"
       THEN verifying' = {} /\ UNCHANGED recordVars
       ELSE Verify(pending, gridLocked)
    /\ UNCHANGED <<resyncVars, batchInFlight>>

\* A refused deduction schedules one recovery at a time (_pendingRecovery).
DeductionFails(a) ==
    /\ attempt[a].at = "idle"
    /\ \A b \in Attempts : ~(attempt[b].at = "reading" /\ attempt[b].by = "deduct")
    /\ Attempt(a, "deduct")
    /\ UNCHANGED <<checkVars, resyncVars, batchInFlight>>

-----------------------------------------------------------------------------
\* The attempt's result, written to the object it started with.
\* A failed recovery and an error leave the same trace.
Results == {"deferred", "valid", "failed", "structural"}
Settled(r, result) ==
    CASE result = "deferred" -> [r EXCEPT !.count = IF @ > 0 THEN @ - 1 ELSE 0, !.failed = 0]
      [] result = "valid" -> [r EXCEPT !.requested = FALSE]
      [] result = "structural" -> [r EXCEPT !.failed = 1, !.requested = TRUE]
      [] OTHER -> [r EXCEPT !.failed = 1]
Lowered(r) == [r EXCEPT !.inFlight = FALSE]

RequestedBy(a) == IF attempt[a].own THEN rec.requested ELSE attempt[a].requested
Asks(a, result) == result = "structural" /\ ~RequestedBy(a)

EndAttempt(a, result) ==
    /\ attempt[a].at = "reading"
    /\ rec' = IF attempt[a].own THEN Lowered(Settled(rec, result)) ELSE rec
    /\ attempt' = [attempt EXCEPT ![a] =
                     IF Asks(a, result) THEN [@ EXCEPT !.at = "asking", !.requested = TRUE]
                     ELSE Idle]
    /\ UNCHANGED <<exhausted, checkVars, resyncVars, batchInFlight>>

\* The attempt's request runs in a task of its own; a skipped one is taken back.
Ask(a) ==
    /\ attempt[a].at = "asking"
    /\ File
    /\ rec' = IF Skipped /\ attempt[a].own THEN [rec EXCEPT !.requested = FALSE] ELSE rec
    /\ attempt' = [attempt EXCEPT ![a] = Idle]
    /\ UNCHANGED <<exhausted, checkVars, defers, batchInFlight>>

-----------------------------------------------------------------------------
\* Others write the record: a failed commit, check or timer notes its time; a batch
\* that may not create raises the flag and asks for the resync; some only ask.
NoteFailure ==
    /\ Replace([rec EXCEPT !.failed = 1])
    /\ UNCHANGED <<exhausted, checkVars, resyncVars, batchInFlight>>

Request(flagged) ==
    /\ File
    /\ IF flagged THEN Replace([rec EXCEPT !.requested = TRUE])
       ELSE UNCHANGED <<rec, attempt>>
    /\ UNCHANGED <<exhausted, checkVars, defers, batchInFlight>>

\* The periodic fetch of the account starts a new record.
Fetch ==
    /\ Replace(Zero) /\ exhausted' = FALSE
    /\ UNCHANGED <<checkVars, resyncVars, batchInFlight>>

-----------------------------------------------------------------------------
\* Mutation: the deferral has no cap.
FireUncapped ==
    /\ resync = "timer"
    /\ IF batchInFlight THEN UNCHANGED <<resync, defers>> ELSE resync' = "reload" /\ defers' = 0
    /\ UNCHANGED <<recordVars, checkVars, batchInFlight>>

\* runStructuralResync(): waits for the batch in flight, but not for ever.
Fire ==
    /\ resync = "timer"
    /\ IF batchInFlight /\ defers < MaxDefers
       THEN defers' = defers + 1 /\ UNCHANGED resync
       ELSE resync' = "reload" /\ defers' = 0
    /\ UNCHANGED <<recordVars, checkVars, batchInFlight>>

\* The record when the resync is over: counters zeroed on success, flag lowered always.
Cleared(r) == [r EXCEPT !.count = 0, !.cooled = TRUE, !.failed = 0]
\* Mutation: the flag is lowered only by a repair that worked.
FinishedIfRepaired(repaired) ==
    IF repaired THEN [Cleared(rec) EXCEPT !.requested = FALSE] ELSE rec

Finished(repaired) == [(IF repaired THEN Cleared(rec) ELSE rec) EXCEPT !.requested = FALSE]

\* The reload of the persisted grid replaces the grid and re-plans; the full reset
\* follows when it fails.  A reset may fail too.
EndReload(repaired) ==
    /\ resync = "reload"
    /\ IF repaired
       THEN resync' = "none" /\ Replace(Finished(TRUE))
       ELSE resync' = "reset" /\ UNCHANGED <<rec, attempt>>
    /\ UNCHANGED <<exhausted, checkVars, defers, batchInFlight>>

EndReset(repaired) ==
    /\ resync = "reset"
    /\ resync' = "none" /\ Replace(Finished(repaired))
    /\ UNCHANGED <<exhausted, checkVars, defers, batchInFlight>>

-----------------------------------------------------------------------------
\* A batch is broadcast: no verification meanwhile, and the resync waits.
StartBatch ==
    /\ ~batchInFlight /\ batchInFlight' = TRUE
    /\ UNCHANGED <<recordVars, checkVars, resyncVars>>
EndBatch ==
    /\ batchInFlight /\ batchInFlight' = FALSE
    /\ UNCHANGED <<recordVars, checkVars, resyncVars>>

\* A retry interval passes.
Tick ==
    /\ rec' = [rec EXCEPT !.cooled = TRUE,
                          !.failed = IF @ = 0 \/ @ > Decay THEN @ ELSE @ + 1]
    /\ UNCHANGED <<exhausted, attempt, checkVars, resyncVars, batchInFlight>>

Scheduled == Fire \/ (\E ok \in BOOLEAN : EndReload(ok) \/ EndReset(ok))

RecoveryNext ==
    \/ Tick \/ NoteFailure \/ Fetch \/ StartBatch \/ EndBatch \/ Scheduled
    \/ \E yes \in BOOLEAN :
          \/ VerifyNext(yes) \/ Request(yes)
          \/ \E snapshot \in {"good", "bad"} : Recalculate(snapshot, yes)
    \/ \E a \in Attempts : \/ DeductionFails(a) \/ Ask(a)
                            \/ \E result \in Results : EndAttempt(a, result)

\* Timers fire, tasks run, and the reload and the reset end: their reads time out.
RecoveryFairness ==
    /\ WF_recoveryVars(Scheduled)
    /\ \A a \in Attempts : WF_recoveryVars(Ask(a))
RecoverySpec == RecoveryInit /\ [][RecoveryNext]_recoveryVars /\ RecoveryFairness

-----------------------------------------------------------------------------

\* Only one call can write the record that counts, and the record says that it runs
\* (the flag inFlight and the copies of accounting.ts and its users).
OneWriter ==
    \A a, b \in Attempts :
        (attempt[a].at = "reading" /\ attempt[a].own)
            => rec.inFlight /\ ((attempt[b].at = "reading" /\ attempt[b].own) => a = b)

\* A raised request flag, which suppresses further requests and widens the cancelling
\* of orphans, always has a resync ahead that lowers it (structuralResyncRequested).
RequestedMeansScheduled ==
    rec.requested => \/ resync # "none"
                     \/ \E a \in Attempts : attempt[a].at = "asking"

\* The flag comes down even under a storm of batches (the cap on the deferral of
\* runStructuralResync()).
RequestSettles == rec.requested ~> ~rec.requested

=============================================================================
