----------------------------- MODULE FillStore -----------------------------
(***************************************************************************)
(* The record of processed fills (modules/order/processed_fill_store.ts)   *)
(* and the accounting that relies on it (processFillAccounting() of        *)
(* modules/order/accounting.ts), with the flushes of the fill cycle, the   *)
(* write timer, failing writes, shutdown, crash and restart.               *)
(*                                                                         *)
(* Accounting runs inside _fillProcessingLock: one fill at a time.  A key  *)
(* is queued before its credit is applied and written afterwards, by the   *)
(* call itself (immediate) or by a flush of the cycle (batched); writes    *)
(* are chained on _flushPromise, and a failed one is queued again.         *)
(***************************************************************************)
EXTENDS Naturals, SequencesExt, FiniteSets

CONSTANTS
    Keys,          \* fill keys
    Modes,         \* persistence modes in use
    MaxFailures,   \* bound on failing writes
    MaxLives       \* bound on restarts

ASSUME StoreAssumption ==
    Modes \subseteq {"batched", "immediate"} /\ MaxFailures \in Nat /\ MaxLives \in Nat

VARIABLES
    tracker,     \* keys processed in this life or loaded at its start
    pending,     \* pendingWrites
    chain,       \* batches chained on _flushPromise, the head is being written
    timer,       \* _persistTimer is set
    disk,        \* processedFills in the account file
    credit,      \* times the totals of this life were credited with the fill
    job,         \* the accounting call under way
    cycle,       \* pendingFillKeysForCurrentCycle
    wait,        \* batches the cycle's flush, or the final one, still waits for
    closed,      \* history: keys a flush of their cycle was asked for
    phase,       \* "up", "stopping", "flushing" at the end, "exited"
    must,        \* history: keys credited when the final flush started
    failures,    \* failed writes
    lives        \* restarts

store == <<tracker, pending, chain, timer, disk>>
history == <<closed, must, lives>>
vars == <<store, credit, job, cycle, wait, phase, failures, history>>

NoJob == [step |-> "none"]

Init ==
    /\ tracker = {} /\ pending = {} /\ chain = <<>> /\ timer = FALSE /\ disk = {}
    /\ credit = [k \in Keys |-> 0]
    /\ job = NoJob /\ cycle = {} /\ wait = 0
    /\ closed = {} /\ phase = "up" /\ must = {} /\ failures = 0 /\ lives = 0

down == phase # "up"
Running == phase # "exited"

-----------------------------------------------------------------------------
\* flush(): the timer is cleared and everything queued becomes a batch.
TakeAll ==
    /\ timer' = FALSE
    /\ pending' = {}
    /\ chain' = IF pending = {} THEN chain ELSE Append(chain, pending)

\* flushKeys(): only the keys asked for, and the timer stays.
TakeKeys(ks) ==
    LET batch == ks \cap pending IN
    /\ pending' = pending \ batch
    /\ chain' = IF batch = {} THEN chain ELSE Append(chain, batch)
    /\ UNCHANGED timer

\* The check of processFillAccounting() for a key that was processed.
IsNew(k) == k \notin tracker

\* processFillAccounting() up to the balance adjustments: the key is queued only.
Process(k, m) ==
    /\ Running /\ phase # "flushing" /\ job = NoJob /\ wait = 0
    /\ IsNew(k)
    /\ pending' = pending \cup {k}
    /\ job' = [step |-> "apply", key |-> k, mode |-> m]
    /\ UNCHANGED <<tracker, chain, timer, disk, credit, cycle, wait, phase, failures, history>>

\* The end of an accounting call.  Keys of orphan fills are not kept for the cycle's flush.
Succeeds(k) ==
    /\ tracker' = tracker \cup {k}
    /\ cycle' \in {cycle, cycle \cup {k}}
    /\ job' = NoJob

\* The balance adjustments, and the flush of an immediate call.
Apply ==
    /\ Running /\ job.step = "apply"
    /\ credit' = [credit EXCEPT ![job.key] = @ + 1]
    /\ IF job.mode = "batched"
         THEN Succeeds(job.key) /\ UNCHANGED <<pending, chain, timer>>
         ELSE /\ TakeAll
              /\ job' = [step |-> "flush", key |-> job.key, waits |-> Len(chain'),
                         own |-> pending # {}, failed |-> FALSE]
              /\ UNCHANGED <<tracker, cycle>>
    /\ UNCHANGED <<disk, wait, phase, failures, history>>

\* An adjustment throws; the key stays queued.
ApplyFails ==
    /\ Running /\ job.step = "apply"
    /\ job' = NoJob
    /\ UNCHANGED <<store, credit, cycle, wait, phase, failures, history>>

FinishJob ==
    /\ Running /\ job.step = "flush" /\ job.waits = 0 /\ ~job.failed
    /\ Succeeds(job.key)
    /\ UNCHANGED <<pending, chain, timer, disk, credit, wait, phase, failures, history>>

\* Mutation: the credit of a call whose write failed is kept.
CreditKept(k) == credit
\* The adjustments are taken back.
CreditTakenBack(k) == [credit EXCEPT ![k] = @ - 1]

\* Its own write failed: the credit and the key, if it is still queued, are taken back.
Rollback ==
    /\ Running /\ job.step = "flush" /\ job.waits = 0 /\ job.failed
    /\ credit' = CreditTakenBack(job.key)
    /\ pending' = pending \ {job.key}
    /\ job' = NoJob
    /\ UNCHANGED <<tracker, chain, timer, disk, cycle, wait, phase, failures, history>>

-----------------------------------------------------------------------------
\* The end of a fill cycle: a flush of its keys, of everything (bootstrap, post-reset
\* pass), or none when the rebalance was aborted.
CycleFlush ==
    /\ Running /\ phase # "flushing" /\ job = NoJob /\ wait = 0 /\ cycle # {}
    /\ TakeKeys(cycle) \/ TakeAll
    /\ wait' = Len(chain')
    /\ closed' = closed \cup cycle /\ cycle' = {}
    /\ UNCHANGED <<tracker, disk, credit, job, phase, failures, must, lives>>

CycleAborts ==
    /\ Running /\ job = NoJob /\ wait = 0 /\ cycle # {}
    /\ cycle' = {}
    /\ UNCHANGED <<store, credit, job, wait, phase, failures, history>>

WriteTimerFires ==
    /\ Running /\ timer
    /\ TakeAll
    /\ UNCHANGED <<tracker, disk, credit, job, cycle, wait, phase, failures, history>>

\* A batch is settled: who waits for the chain waits for one less.
Settled(n) == IF n = 0 THEN 0 ELSE n - 1
JobSettled(failed) ==
    IF job.step # "flush" \/ job.waits = 0 THEN job
    ELSE [job EXCEPT !.waits = @ - 1, !.failed = failed /\ job.own /\ job.waits = 1]

WriteOk ==
    /\ Running /\ chain # <<>>
    /\ disk' = disk \cup Head(chain)
    /\ chain' = Tail(chain)
    /\ job' = JobSettled(FALSE) /\ wait' = Settled(wait)
    /\ UNCHANGED <<tracker, pending, timer, credit, cycle, phase, failures, history>>

\* Mutation: the keys of the batch are dropped.
Dropped == pending
\* Mutation: no timer for the next try.
NoRetry == timer
\* What is queued and scheduled after a failed write.
Requeued == pending \cup Head(chain)
RetryTimer == timer \/ ~down

WriteFails ==
    /\ Running /\ chain # <<>> /\ failures < MaxFailures
    /\ pending' = Requeued
    /\ timer' = RetryTimer
    /\ chain' = Tail(chain)
    /\ job' = JobSettled(TRUE) /\ wait' = Settled(wait)
    /\ failures' = failures + 1
    /\ UNCHANGED <<tracker, disk, credit, cycle, phase, history>>

-----------------------------------------------------------------------------
Shutdown ==
    /\ phase = "up" /\ phase' = "stopping"
    /\ UNCHANGED <<store, credit, job, cycle, wait, failures, history>>

\* Mutation: the final flush writes only the keys of the cycle.
FinalKeys == TakeKeys(cycle)
FinalTake == TakeAll

\* The final flush, under the lock or after waiting for it in vain.
FinalFlush ==
    /\ phase = "stopping" /\ phase' = "flushing"
    /\ FinalTake
    /\ wait' = Len(chain')
    /\ must' = {k \in Keys : credit[k] > 0}
    /\ failures' = 0
    /\ UNCHANGED <<tracker, disk, credit, job, cycle, closed, lives>>

Exit ==
    /\ phase = "flushing" /\ wait = 0
    /\ phase' = "exited"
    /\ UNCHANGED <<store, credit, job, cycle, wait, failures, history>>

\* After an exit or a crash at any time: the totals are fetched and the keys loaded.
Restart ==
    /\ lives < MaxLives /\ lives' = lives + 1
    /\ tracker' = disk /\ pending' = {} /\ chain' = <<>> /\ timer' = FALSE
    /\ credit' = [k \in Keys |-> 0]
    /\ job' = NoJob /\ cycle' = {} /\ wait' = 0 /\ phase' = "up"
    /\ closed' = {} /\ must' = {}
    /\ UNCHANGED <<disk, failures>>

Next ==
    \/ \E k \in Keys, m \in Modes : Process(k, m)
    \/ Apply \/ ApplyFails \/ FinishJob \/ Rollback
    \/ CycleFlush \/ CycleAborts \/ WriteTimerFires
    \/ WriteOk \/ WriteFails
    \/ Shutdown \/ FinalFlush \/ Exit \/ Restart

Spec == Init /\ [][Next]_vars

\* The timer fires and the disk answers every write, in the end with success.
StoreFairness == WF_vars(WriteTimerFires) /\ WF_vars(WriteOk)
FairSpec == Spec /\ StoreFairness

-----------------------------------------------------------------------------
\* The calls: none, before the adjustments, or waiting for its flush.
Jobs == {NoJob} \cup [step : {"apply"}, key : Keys, mode : Modes]
          \cup [step : {"flush"}, key : Keys, waits : Nat, own : BOOLEAN, failed : BOOLEAN]
InChain == UNION {chain[i] : i \in DOMAIN chain}

TypeOK ==
    /\ tracker \subseteq Keys /\ pending \subseteq Keys /\ disk \subseteq Keys
    /\ chain \in Seq((SUBSET Keys) \ {{}}) /\ timer \in BOOLEAN
    /\ credit \in [Keys -> Nat]
    /\ job \in Jobs /\ (job.step = "flush" => job.waits =< Len(chain))
    /\ wait \in 0 .. Len(chain)
    /\ cycle \subseteq tracker /\ closed \subseteq tracker
    /\ phase \in {"up", "stopping", "flushing", "exited"} /\ must \subseteq Keys
    /\ failures \in 0 .. MaxFailures /\ lives \in 0 .. MaxLives

\* Whatever fails and in whatever order, a fill credited in this life is on disk, queued
\* or being written: no crash-free run forgets that it was processed.
NothingForgotten == \A k \in Keys : credit[k] > 0 => k \in disk \cup pending \cup InChain

\* No fill is credited twice in one life, failed writes and rolled back calls included,
\* and a key counts as processed only with its credit or from the disk.
CreditedOnce ==
    /\ \A k \in Keys : credit[k] <= 1
    /\ \A k \in tracker : credit[k] = 1 \/ k \in disk

\* Once the flush of its cycle was asked for, a key that is still queued has a timer
\* that will try again, except while shutting down.
RetryArmed == \A k \in closed \cap pending : timer \/ down

\* And then it is written, unless the process stops first.
WrittenInTheEnd == \A k \in Keys : k \in closed ~> (k \in disk \/ down \/ k \notin closed)

\* A graceful exit whose last writes succeeded leaves every credited fill on disk, those
\* of aborted cycles and of orphans included.
ExitKeepsCredits == phase = "exited" /\ failures = 0 => must \subseteq disk

=============================================================================
