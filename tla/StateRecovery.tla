---------------------------- MODULE StateRecovery ----------------------------
(***************************************************************************)
(* Recovery from a grid that no longer follows the chain                   *)
(* (modules/dexbot_state_recovery.ts), and from an outage of the           *)
(* credential daemon that signs (modules/dexbot_class.ts).                 *)
(*                                                                         *)
(* A recovery sync reads the chain, reconciles the grid with it, persists  *)
(* it and leaves the orders it lost to a rebalance on a timer, because it  *)
(* is often called from inside a batch that is being torn down; it may     *)
(* throw at any of these awaits.  The sync of a reload or a reset          *)
(* (FundRecovery) excludes it like another one.                            *)
(***************************************************************************)
EXTENDS Naturals, FiniteSets

CONSTANT Batches      \* batches of fills and maintenance that may be in flight together

ASSUME BatchesAssumption == IsFiniteSet(Batches) /\ "credential" \notin Batches

VARIABLES
    flying,       \* the batches in flight (_batchInFlight)
    recovering,   \* who runs the recovery sync (_recoverySyncInFlight)
    rebalance,    \* the deferred rebalance: its timer, and its call that plans
    synced,       \* the recovery sync has changed the grid already
    repairing,    \* the batches whose targeted repair has changed the grid already
    owed,         \* a recovery has changed the grid since the last plan of a rebalance
    abandoned,    \* history: one of these changes was made by a recovery that threw after it
    stopping,     \* _shuttingDown
    up,           \* the credential daemon answers
    needed,       \* _credentialRecoveryNeeded
    suspended,    \* manager._gridPersistenceSuspendedReason is set
    credential,   \* the recovery that follows an outage of the daemon
    deferred,     \* _credentialRecoveryDeferredTimer
    probing       \* _credentialDaemonWatchdogInFlight: a probe that runs the recovery

changeVars == <<synced, repairing, owed, abandoned>>
gridVars == <<flying, recovering, rebalance, changeVars>>
credentialVars == <<up, needed, suspended, credential, deferred, probing>>
stateVars == <<gridVars, stopping, credentialVars>>

\* The batch that the rebalance itself places, and the callers outside a batch.
Placing == "rebalance"
Callers == flying \cup {"alone", "credential"}

StateInit ==
    /\ flying = {} /\ recovering = "none"
    /\ synced = FALSE /\ repairing = {} /\ owed = FALSE /\ abandoned = FALSE
    /\ rebalance = [timer |-> FALSE, planning |-> FALSE]
    /\ stopping = FALSE /\ up = TRUE /\ needed = FALSE /\ suspended = FALSE
    /\ credential = "idle" /\ deferred = FALSE /\ probing = FALSE

-----------------------------------------------------------------------------
\* Mutation: a rebalance that plans already is taken for one that will plan.
ArmUnlessPlanning ==
    rebalance' = [rebalance EXCEPT !.timer = @ \/ ~rebalance.planning]

\* _schedulePostRecoveryRebalance(): at most one timer; shutdown is for its handler.
Arm == rebalance' = [rebalance EXCEPT !.timer = TRUE]

\* A batch of the fill consumer or of maintenance starts, and ends.
BeginBatch(b) ==
    /\ ~stopping /\ b \notin flying /\ flying' = flying \cup {b}
    /\ UNCHANGED <<recovering, rebalance, changeVars, stopping, credentialVars>>
TearDown(b) ==
    /\ b \in flying \ repairing /\ recovering # b /\ flying' = flying \ {b}
    /\ UNCHANGED <<recovering, rebalance, changeVars, stopping, credentialVars>>

\* triggerStateRecoverySync() from a batch that aborts or from elsewhere: one at a
\* time, a second one is dropped.
BeginSync(who) ==
    /\ recovering = "none" /\ recovering' = who
    /\ UNCHANGED <<flying, rebalance, changeVars>>
StartSync(who) ==
    /\ who \in Callers \ ({"credential"} \cup repairing) /\ ~stopping
    /\ BeginSync(who)
    /\ UNCHANGED <<stopping, credentialVars>>

\* Its syncFromOpenOrders() has written to the grid, all of it or a part.
Reconcile ==
    /\ recovering # "none" /\ ~synced
    /\ synced' = TRUE /\ owed' = TRUE
    /\ UNCHANGED <<flying, recovering, rebalance, repairing, abandoned, stopping, credentialVars>>

\* The grid follows the chain and is persisted, or the read was refused; or one of its
\* calls threw, and what has changed by then is left to the next cycle.
EndSync(threw) ==
    /\ recovering # "none" /\ recovering' = "none" /\ synced' = FALSE
    /\ IF synced /\ ~threw THEN Arm ELSE UNCHANGED rebalance
    /\ abandoned' = (abandoned \/ (synced /\ threw))
    /\ UNCHANGED <<flying, repairing, owed, stopping, credentialVars>>

\* recoverBatchSizeDrift(): a targeted repair of the orders that drifted.  If it throws
\* behind its writes, a recovery sync is asked for in its place.
Repair(b) ==
    /\ b \in flying \ repairing /\ recovering # b
    /\ repairing' = repairing \cup {b} /\ owed' = TRUE
    /\ UNCHANGED <<flying, recovering, rebalance, synced, abandoned, stopping, credentialVars>>
EndRepair(b, threw) ==
    /\ b \in repairing /\ repairing' = repairing \ {b}
    /\ IF threw THEN /\ abandoned' = TRUE /\ UNCHANGED rebalance
                     /\ recovering' = IF recovering = "none" THEN b ELSE recovering
       ELSE Arm /\ UNCHANGED <<abandoned, recovering>>
    /\ UNCHANGED <<flying, synced, owed, stopping, credentialVars>>

\* The timer's handler waits until no batch and no recovery is in flight.
FireRebalance ==
    /\ rebalance.timer
    /\ IF stopping THEN rebalance' = [rebalance EXCEPT !.timer = FALSE] /\ UNCHANGED <<owed, abandoned>>
       ELSE IF flying # {} \/ recovering # "none" THEN UNCHANGED <<rebalance, owed, abandoned>>
       ELSE /\ rebalance' = [timer |-> FALSE, planning |-> TRUE]
            /\ owed' = FALSE /\ abandoned' = FALSE
    /\ UNCHANGED <<flying, recovering, synced, repairing, stopping, credentialVars>>

\* _rebalanceAfterRecovery(): the plan has orders to place, has none, or is given up.
Planned(places) ==
    /\ rebalance.planning /\ rebalance' = [rebalance EXCEPT !.planning = FALSE]
    /\ flying' = IF places /\ ~stopping THEN flying \cup {Placing} ELSE flying
    /\ UNCHANGED <<recovering, changeVars, stopping, credentialVars>>

-----------------------------------------------------------------------------
Suspend == suspended' = TRUE
Outage == needed' = TRUE /\ Suspend

\* _ensureCredentialDaemonWritable() of a batch that finds the daemon gone, or a fill
\* cycle that fails for that reason.
WriteRefused(b) ==
    /\ b \in flying /\ ~up /\ Outage
    /\ UNCHANGED <<gridVars, stopping, up, credential, deferred, probing>>

\* _runCredentialRecoveryAfterDaemonRestored() up to its first await: it waits on a
\* timer while a batch broadcasts; then the persistence resumes and the state is
\* synchronised.
Recoverable == credential = "idle" /\ needed /\ ~stopping
Wait == deferred' = TRUE /\ UNCHANGED <<gridVars, suspended, credential>>
Recover ==
    /\ suspended' = FALSE
    /\ IF recovering = "none" THEN BeginSync("credential") /\ credential' = "syncing"
       ELSE UNCHANGED gridVars /\ credential' = "running"

\* Mutation: only a probe that ran the recovery lowers its flag again.
ProbeOnce ==
    /\ ~stopping /\ ~probing /\ probing' = TRUE
    /\ IF up /\ Recoverable /\ flying = {} THEN Recover
       ELSE UNCHANGED <<gridVars, suspended, credential>>
    /\ UNCHANGED <<stopping, up, needed, deferred>>

\* probe(), the watchdog: one at a time.
Probe ==
    /\ ~stopping /\ ~probing
    /\ IF ~up
       THEN Suspend /\ UNCHANGED <<gridVars, credential, deferred, probing>>
       ELSE IF ~Recoverable
       THEN UNCHANGED <<gridVars, suspended, credential, deferred, probing>>
       ELSE \/ flying # {} /\ Wait /\ UNCHANGED probing
            \/ Recover /\ probing' = TRUE /\ UNCHANGED deferred
    /\ UNCHANGED <<stopping, up, needed>>
DeferredRecovery ==
    /\ deferred
    /\ IF ~Recoverable THEN deferred' = FALSE /\ UNCHANGED <<gridVars, suspended, credential>>
       ELSE \/ flying # {} /\ Wait
            \/ Recover /\ deferred' = FALSE
    /\ UNCHANGED <<stopping, up, needed, probing>>

\* The sync is over, then the maintenance; the recovery is done unless that threw, as it
\* does when the daemon is gone again.
SyncOver ==
    /\ credential = "syncing" /\ recovering # "credential"
    /\ credential' = "running"
    /\ UNCHANGED <<gridVars, stopping, up, needed, suspended, deferred, probing>>
EndRecovery(ok) ==
    /\ credential = "running" /\ credential' = "idle"
    /\ ok \/ ~up
    /\ IF ok THEN needed' = FALSE /\ UNCHANGED suspended ELSE Outage
    /\ probing' = FALSE
    /\ UNCHANGED <<gridVars, stopping, up, deferred>>

\* The daemon goes and comes back, and the bot stops: its timers are cleared.
Daemon(answers) ==
    /\ up' = answers
    /\ UNCHANGED <<gridVars, stopping, needed, suspended, credential, deferred, probing>>
Stop ==
    /\ ~stopping /\ stopping' = TRUE
    /\ rebalance' = [rebalance EXCEPT !.timer = FALSE] /\ deferred' = FALSE
    /\ UNCHANGED <<flying, recovering, changeVars, up, needed, suspended, credential, probing>>

StateNext ==
    \/ \E b \in Batches : BeginBatch(b)
    \/ \E b \in Batches \cup {Placing} : TearDown(b) \/ Repair(b) \/ WriteRefused(b)
    \/ \E who \in Batches \cup {Placing, "alone"} : StartSync(who)
    \/ \E b \in Batches \cup {Placing}, threw \in BOOLEAN : EndRepair(b, threw)
    \/ \E yes \in BOOLEAN : EndSync(yes) \/ Planned(yes) \/ EndRecovery(yes) \/ Daemon(yes)
    \/ Reconcile \/ FireRebalance \/ Probe \/ DeferredRecovery \/ SyncOver \/ Stop

\* Timers fire and the watchdog probes; a sync, a plan and a maintenance end.
StateFairness ==
    /\ WF_stateVars(FireRebalance) /\ WF_stateVars(Probe) /\ WF_stateVars(DeferredRecovery)
    /\ WF_stateVars(\E yes \in BOOLEAN : EndSync(yes)) /\ WF_stateVars(SyncOver)
    /\ WF_stateVars(EndRecovery(TRUE))
StateSpec == StateInit /\ [][StateNext]_stateVars /\ StateFairness

-----------------------------------------------------------------------------

\* Whatever syncs, repairs, batches and plans run into each other: a grid that a recovery
\* changed has a rebalance ahead of it that will plan from it, or the recovery is still at
\* work, or it threw behind its writes; one that is planning already has read the older
\* grid (_schedulePostRecoveryRebalance()).
OwedMeansArmed == owed /\ ~stopping =>
    \/ rebalance.timer \/ abandoned
    \/ synced /\ recovering # "none"
    \/ repairing \cap flying # {}

\* Once the daemon answers for good, no batch is in flight and the bot goes on, the
\* recovery that an outage asked for is run (the watchdog and the deferred timer).
NeededIsServed ==
    <>[](up /\ flying = {} /\ ~stopping) => (needed ~> ~needed)

\* The grid is persisted again once the daemon answers (dexbot_class.ts:1191).
SuspensionEnds ==
    <>[](up /\ flying = {} /\ ~stopping) => (suspended ~> ~suspended)
=============================================================================
