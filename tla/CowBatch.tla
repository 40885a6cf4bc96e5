------------------------------ MODULE CowBatch ------------------------------
(***************************************************************************)
(* Copy-on-write batches: a plan clones the master grid, is broadcast, and *)
(* commits its clone only if the master has not moved (OrderManager of     *)
(* modules/order/manager.ts, updateOrdersOnChainBatchCOW() of              *)
(* modules/dexbot_cow_runtime.ts).                                         *)
(*                                                                         *)
(* A frame is one call of the batch executor with its plan.  Fill frames   *)
(* and plan frames run under _fillProcessingLock, one at a time; a         *)
(* recovery frame comes from a timer and holds no lock.  The content of a  *)
(* slot is the version of the master that last wrote it; clones, guards,   *)
(* the stack of pushed grids, the refcounted broadcasting flag and the     *)
(* single-flight slot are modelled as the code keeps them.                 *)
(***************************************************************************)
EXTENDS Integers, SequencesExt, FiniteSets

CONSTANTS
    FillFrames,      \* processFilledOrders(): pushed, may be re-planned
    RecoveryFrames,  \* _rebalanceAfterRecovery(): pushed, no fills to re-plan
    PlanFrames,      \* updateOrdersOnChainPlan(), divergence: never pushed
    Slots,
    MaxVersion,      \* bound on _gridVersion
    MaxRegions,      \* bound on the broadcasting regions of reconcileGrid()
    MaxWatchdogs,    \* bound on resets of a broadcasting flag older than 120 s
    CapExpires       \* whether SINGLE_FLIGHT_MAX_WAIT_MS may run out

Frames == FillFrames \cup RecoveryFrames \cup PlanFrames
LockedFrames == FillFrames \cup PlanFrames

ASSUME CowAssumption ==
    /\ FillFrames \cap RecoveryFrames = {}
    /\ PlanFrames \cap (FillFrames \cup RecoveryFrames) = {}
    /\ {MaxVersion, MaxRegions, MaxWatchdogs} \subseteq Nat
    /\ CapExpires \in BOOLEAN

VARIABLES
    master,          \* orders: per slot the version that last wrote it
    version,         \* _gridVersion
    grid,            \* per frame its WorkingGrid
    stack,           \* _currentWorkingGridStack
    pushed,          \* _workingGridPushed on the frame's result
    state,           \* _rebalanceState
    flag,            \* _broadcastingFlag
    batchInFlight,   \* bot._batchInFlight
    slot,            \* bot._cowBroadcastInFlight
    held,            \* heldBroadcastSlot
    entered,         \* executor calls the frame is inside of: its own and a re-plan's
    mode,            \* how the frame came to commit: "none", "batch", "poll", "local"
    pc,
    regions, inRegion, watchdogs

gridVars == <<master, version, grid>>
stackVars == <<stack, pushed, state>>
slotVars == <<batchInFlight, slot, held, entered>>
outside == <<regions, inRegion, watchdogs>>
vars == <<master, version, grid, stack, pushed, state, flag, batchInFlight, slot,
          held, entered, mode, pc, regions, inRegion, watchdogs>>

NoGrid == [snap |-> [s \in Slots |-> 0], base |-> 0, stale |-> FALSE, resynced |-> FALSE]

Init ==
    /\ master = [s \in Slots |-> 0] /\ version = 0
    /\ grid = [f \in Frames |-> NoGrid]
    /\ stack = <<>> /\ pushed = [f \in Frames |-> FALSE] /\ state = "NORMAL"
    /\ flag = 0 /\ batchInFlight = 0 /\ slot = FALSE
    /\ held = [f \in Frames |-> FALSE]
    /\ entered = [f \in Frames |-> 0]
    /\ mode = [f \in Frames |-> "none"]
    /\ pc = [f \in Frames |-> "idle"]
    /\ regions = 0 /\ inRegion = FALSE /\ watchdogs = 0

-----------------------------------------------------------------------------
Goto(f, l) == pc' = [pc EXCEPT ![f] = l]

\* A fresh clone of the master.
Clone == [snap |-> master, base |-> version, stale |-> FALSE, resynced |-> FALSE]

StateAtDepth(q) == IF q # <<>> THEN "REBALANCING" ELSE "NORMAL"
Popped == IF stack = <<>> THEN <<>> ELSE Front(stack)

PushWorkingGridRef(f) ==
    /\ stack' = Append(stack, f)
    /\ state' = "REBALANCING"
    /\ pushed' = [pushed EXCEPT ![f] = TRUE]

\* Mutation: the marker is neither looked at nor cleared.
PopAnyway(f) ==
    /\ stack' = Popped
    /\ state' = StateAtDepth(Popped)
    /\ UNCHANGED pushed
\* Takes whatever is on top, if f's result says that it was pushed.
PopWorkingGridRef(f) ==
    IF pushed[f]
      THEN /\ stack' = Popped
           /\ state' = StateAtDepth(Popped)
           /\ pushed' = [pushed EXCEPT ![f] = FALSE]
      ELSE UNCHANGED stackVars

\* Takes f's grid if it is on top; the marker is cleared either way.
ReleaseWorkingGridRef(f) ==
    /\ pushed' = [pushed EXCEPT ![f] = FALSE]
    /\ IF stack # <<>> /\ Last(stack) = f
         THEN stack' = Popped /\ state' = StateAtDepth(Popped)
         ELSE UNCHANGED <<stack, state>>

\* n calls of stopBroadcasting().
StopBroadcasting(n) == flag' = IF flag > n THEN flag - n ELSE 0

\* Mutation: the slot stays taken when its owner leaves.
SlotKept(f) == slot
SlotAfter(f) == slot /\ ~held[f]

\* The finally blocks of the frame's executor calls.
Leave(f) ==
    /\ Goto(f, "done")
    /\ batchInFlight' = batchInFlight - entered[f]
    /\ slot' = SlotAfter(f)
    /\ held' = [held EXCEPT ![f] = FALSE]
    /\ UNCHANGED entered

\* Mutation: a version mismatch is let through.
NotStale(g) == ~g.stale
\* evaluateCommit(), delta and size aside.
CanCommit(g) == ~g.stale /\ g.base = version

Active(f) == pc[f] \notin {"idle", "done"}

-----------------------------------------------------------------------------
\* Locked frames wait for each other; a recovery waits until no batch is in flight.
\* The wait for an idle broadcasting flag is capped, so it keeps nobody out.
MayPlan(f) ==
    /\ pc[f] = "idle"
    /\ f \in LockedFrames => \A g \in LockedFrames : ~Active(g)
    /\ f \in RecoveryFrames => batchInFlight = 0

\* performSafeRebalance() or buildCowResultFromPlan(); the engine awaits nothing
\* between the clone and its result.
Plan(f) ==
    /\ MayPlan(f)
    /\ grid' = [grid EXCEPT ![f] = Clone]
    /\ Goto(f, "planned")
    /\ IF f \in PlanFrames THEN UNCHANGED stackVars ELSE PushWorkingGridRef(f)
    /\ UNCHANGED <<master, version, flag, slotVars, mode, outside>>

\* The engine aborts the plan: nothing is pushed, the state is left behind.
PlanAborts(f) ==
    /\ MayPlan(f)
    /\ f \notin PlanFrames
    /\ state' = "REBALANCING"
    /\ Goto(f, "done")
    /\ UNCHANGED <<gridVars, stack, pushed, flag, slotVars, mode, outside>>

\* No executable action, dry run, shutdown, an occupied create slot, exhausted
\* recovery, pending broadcasts, unmatched chain orders, a crossed book.
GiveUp(f) ==
    /\ pc[f] = "planned"
    /\ PopWorkingGridRef(f)
    /\ Leave(f)
    /\ UNCHANGED <<gridVars, flag, mode, outside>>

\* Mutation: startBroadcasting() is not called.
EnterSilently(f) ==
    /\ pc[f] = "planned"
    /\ entered' = [entered EXCEPT ![f] = @ + 1]
    /\ batchInFlight' = batchInFlight + 1
    /\ state' = "BROADCASTING"
    /\ Goto(f, "building")
    /\ UNCHANGED <<gridVars, stack, pushed, flag, slot, held, mode, outside>>

Enter(f) ==
    /\ pc[f] = "planned"
    /\ entered' = [entered EXCEPT ![f] = @ + 1]
    /\ batchInFlight' = batchInFlight + 1
    /\ state' = "BROADCASTING"
    /\ flag' = flag + 1
    /\ Goto(f, "building")
    /\ UNCHANGED <<gridVars, stack, pushed, slot, held, mode, outside>>

\* Divergence corrections without chain operations commit at once.
CommitLocally(f) ==
    /\ pc[f] = "planned"
    /\ f \in PlanFrames
    /\ mode' = [mode EXCEPT ![f] = "local"]
    /\ Goto(f, "precommit")
    /\ UNCHANGED <<gridVars, stackVars, flag, slotVars, outside>>

\* g with the slots R taken from the master again.
Resynced(g, R) ==
    IF R = {} THEN g
    ELSE [snap |-> [s \in Slots |-> IF s \in R THEN master[s] ELSE g.snap[s]],
          base |-> version, stale |-> g.stale, resynced |-> TRUE]

\* The operations are built; the slots of skipped or clamped updates are taken
\* from the master again; nothing to send or no funds for it ends the batch,
\* otherwise the guard looks at the grid.
Build(f) ==
    /\ pc[f] = "building"
    /\ \E R \in SUBSET Slots :
          /\ grid' = [grid EXCEPT ![f] = Resynced(@, R)]
          /\ \/ /\ Goto(f, IF CanCommit(Resynced(grid[f], R)) THEN "check" ELSE "stale")
                /\ UNCHANGED <<stackVars, slotVars>>
             \/ PopWorkingGridRef(f) /\ Leave(f)
    /\ UNCHANGED <<master, version, flag, mode, outside>>

\* A stale plan is abandoned once if its fills are known, else sent all the same.
MeetStale(f) ==
    /\ pc[f] = "stale"
    /\ IF f \in FillFrames /\ entered[f] = 1
         THEN Goto(f, "replan") /\ PopWorkingGridRef(f)
         ELSE Goto(f, "check") /\ UNCHANGED stackVars
    /\ UNCHANGED <<gridVars, flag, slotVars, mode, outside>>

\* The fresh plan goes through the executor again; without one the old plan is
\* pushed back and sent.
Replan(f) ==
    /\ pc[f] = "replan"
    /\ PushWorkingGridRef(f)
    /\ \/ grid' = [grid EXCEPT ![f] = Clone] /\ Goto(f, "planned")
       \/ Goto(f, "check") /\ UNCHANGED grid
    /\ UNCHANGED <<master, version, flag, slotVars, mode, outside>>

\* waitForCowBroadcastSingleFlight() returns: the slot is free or the cap ran out.
CheckSlot(f) ==
    /\ pc[f] = "check"
    /\ ~slot \/ CapExpires
    /\ Goto(f, "claim")
    /\ UNCHANGED <<gridVars, stackVars, flag, slotVars, mode, outside>>

\* Shutdown ends the wait and the batch.
ShutdownAborts(f) ==
    /\ pc[f] = "check"
    /\ PopWorkingGridRef(f)
    /\ Leave(f)
    /\ UNCHANGED <<gridVars, flag, mode, outside>>

\* The awaiting caller goes on in a later microtask and takes the slot.
ClaimSlot(f) ==
    /\ pc[f] = "claim"
    /\ slot' = TRUE
    /\ held' = [held EXCEPT ![f] = TRUE]
    /\ Goto(f, "broadcast")
    /\ UNCHANGED <<gridVars, stackVars, flag, batchInFlight, entered, mode, outside>>

\* Success: on to the commit.
BroadcastSucceeds(f) ==
    /\ pc[f] = "broadcast"
    /\ mode' = [mode EXCEPT ![f] = "batch"]
    /\ Goto(f, "precommit")
    /\ UNCHANGED <<gridVars, stackVars, flag, slotVars, outside>>

\* A failed result stops broadcasting once; so does an error that is handled; an
\* error that is thrown on does so in the catch block of every executor call.
BroadcastFails(f) ==
    /\ pc[f] = "broadcast"
    /\ \E n \in {1, entered[f]} : StopBroadcasting(n)
    /\ PopWorkingGridRef(f)
    /\ Leave(f)
    /\ UNCHANGED <<gridVars, mode, outside>>

\* The response is lost: the flag goes down, then the chain is polled.
BroadcastUncertain(f) ==
    /\ pc[f] = "broadcast"
    /\ StopBroadcasting(1)
    /\ Goto(f, "poll")
    /\ UNCHANGED <<gridVars, stackVars, slotVars, mode, outside>>

\* Every create is on the chain: commit; else reconcile, which may throw through
\* the executor call that re-planned.
Poll(f) ==
    /\ pc[f] = "poll"
    /\ \/ /\ mode' = [mode EXCEPT ![f] = "poll"]
          /\ Goto(f, "precommit")
          /\ UNCHANGED <<stackVars, flag, slotVars>>
       \/ /\ \E n \in {0, entered[f] - 1} : StopBroadcasting(n)
          /\ PopWorkingGridRef(f)
          /\ Leave(f)
          /\ UNCHANGED mode
    /\ UNCHANGED <<gridVars, outside>>

-----------------------------------------------------------------------------
\* _commitWorkingGrid(): the guard before the lock.
PreCommit(f) ==
    /\ pc[f] = "precommit"
    /\ IF CanCommit(grid[f])
         THEN Goto(f, "commit") /\ UNCHANGED stackVars
         ELSE Goto(f, "settle") /\ ReleaseWorkingGridRef(f)
    /\ UNCHANGED <<gridVars, flag, slotVars, mode, outside>>

\* Under _gridLock: the guard again, then the clone with the changes W of the
\* plan becomes the master.  Acquiring the lock may time out.
Commit(f) ==
    /\ pc[f] = "commit"
    /\ Goto(f, "settle")
    /\ ReleaseWorkingGridRef(f)
    /\ \/ /\ CanCommit(grid[f]) /\ version < MaxVersion
          /\ version' = version + 1
          /\ \E W \in SUBSET Slots \ {{}} :
                master' = [s \in Slots |-> IF s \in W THEN version + 1 ELSE grid[f].snap[s]]
       \/ UNCHANGED <<master, version>>
    /\ UNCHANGED <<grid, flag, slotVars, mode, outside>>

\* Results are processed and persisted, or the orders adopted from the chain, or
\* any of it throws: the inner finally block stops broadcasting, every catch block
\* an error passes does so once more.  After polling, the flag was down before.
SettleCommit(f) ==
    /\ pc[f] = "settle"
    /\ \/ mode[f] = "batch" /\ \E n \in {0, 1, entered[f]} : StopBroadcasting(1 + n)
       \/ mode[f] = "poll" /\ \E n \in {0, entered[f] - 1} : StopBroadcasting(n)
       \/ mode[f] = "local" /\ UNCHANGED flag
    /\ Leave(f)
    /\ UNCHANGED <<gridVars, stackVars, mode, outside>>

-----------------------------------------------------------------------------
IsPlanningActive == state = "REBALANCING" \/ flag > 0

\* _applyOrderUpdate() of slot s by fills, syncs, or the corrections a batch
\* drains: the grid on top of the stack is marked stale and follows.
UpdateOrder(s) ==
    /\ version < MaxVersion
    /\ version' = version + 1
    /\ master' = [master EXCEPT ![s] = version + 1]
    /\ grid' = IF stack # <<>> /\ IsPlanningActive
                 THEN [grid EXCEPT ![Last(stack)] =
                        [snap |-> [@.snap EXCEPT ![s] = version + 1],
                         base |-> version + 1, stale |-> TRUE, resynced |-> @.resynced]]
                 ELSE grid
    /\ UNCHANGED <<stackVars, flag, slotVars, mode, pc, outside>>

\* A grid reset replaces the master and marks nothing.
ClearOrderCaches ==
    /\ version < MaxVersion
    /\ version' = version + 1
    /\ master' = [s \in Slots |-> version + 1]
    /\ UNCHANGED <<grid, stackVars, flag, slotVars, mode, pc, outside>>

\* The placement phase of reconcileGrid() holds the broadcasting flag too.
EnterRegion ==
    /\ ~inRegion /\ regions < MaxRegions
    /\ regions' = regions + 1
    /\ inRegion' = TRUE
    /\ flag' = flag + 1
    /\ UNCHANGED <<gridVars, stackVars, slotVars, mode, pc, watchdogs>>

LeaveRegion ==
    /\ inRegion
    /\ inRegion' = FALSE
    /\ StopBroadcasting(1)
    /\ UNCHANGED <<gridVars, stackVars, slotVars, mode, pc, regions, watchdogs>>

\* _clearStaleBroadcastFlag()
ClearStaleBroadcastFlag ==
    /\ flag > 0 /\ watchdogs < MaxWatchdogs
    /\ watchdogs' = watchdogs + 1
    /\ flag' = 0
    /\ UNCHANGED <<gridVars, stackVars, slotVars, mode, pc, regions, inRegion>>

\* The steps a planned batch takes by itself.
BatchStep(f) ==
    \/ GiveUp(f) \/ Enter(f) \/ CommitLocally(f)
    \/ Build(f) \/ MeetStale(f) \/ Replan(f) \/ CheckSlot(f) \/ ClaimSlot(f)
    \/ BroadcastSucceeds(f) \/ BroadcastFails(f) \/ BroadcastUncertain(f) \/ Poll(f)
    \/ PreCommit(f) \/ Commit(f) \/ SettleCommit(f)

Next ==
    \/ \E f \in Frames : Plan(f) \/ PlanAborts(f) \/ BatchStep(f) \/ ShutdownAborts(f)
    \/ \E s \in Slots : UpdateOrder(s)
    \/ ClearOrderCaches \/ EnterRegion \/ LeaveRegion \/ ClearStaleBroadcastFlag

Spec == Init /\ [][Next]_vars

\* Every chain call of a batch has a time limit, so a batch goes on; nothing makes
\* a shutdown, a plan or an update happen.
BatchFairness == \A f \in Frames : WF_vars(BatchStep(f))

-----------------------------------------------------------------------------
TypeOK ==
    /\ master \in [Slots -> Nat] /\ version \in Nat
    /\ grid \in [Frames -> [snap : [Slots -> Nat], base : Nat, stale : BOOLEAN,
                            resynced : BOOLEAN]]
    /\ stack \in Seq(Frames) /\ pushed \in [Frames -> BOOLEAN]
    /\ state \in {"NORMAL", "REBALANCING", "BROADCASTING"}
    /\ flag \in Nat /\ batchInFlight \in Int /\ slot \in BOOLEAN
    /\ held \in [Frames -> BOOLEAN] /\ entered \in [Frames -> 0..2]
    /\ mode \in [Frames -> {"none", "batch", "poll", "local"}]
    /\ pc \in [Frames -> {"idle", "planned", "building", "stale", "replan", "check", "claim",
                          "broadcast", "poll", "precommit", "commit", "settle", "done"}]
    /\ regions \in Nat /\ inRegion \in BOOLEAN /\ watchdogs \in Nat

\* A commit replaces the whole master by the plan's clone.  Unless the plan took
\* single slots from the master again, the clone holds the master as it is at that
\* moment: no update of an order made since the plan is overwritten.
CommitsCurrentGrid ==
    \A f \in Frames :
        pc[f] = "commit" /\ pc'[f] = "settle" /\ version' # version /\ ~grid[f].resynced
            => grid[f].snap = master
NoLostUpdate == [][CommitsCurrentGrid]_vars

\* When no call of the executor is under way the single-flight slot is free and no
\* batch counts as in flight, whichever way the calls ended.
SettledReleases ==
    (\A f \in Frames : ~Active(f)) => batchInFlight = 0 /\ ~slot

\* Every batch ends, the ones that wait for the single-flight slot included, even if
\* the wait has no cap.
BatchesEnd == \A f \in Frames : Active(f) ~> pc[f] = "done"

\* The grid of a frame is on the stack as long as its result says so, once, and it
\* leaves with the frame.
StackExact ==
    /\ \A f \in Frames : pushed[f] <=> f \in ToSet(stack)
    /\ \A f \in Frames : pushed[f] => Active(f)
    /\ IsInjective(stack)

\* Unless a broadcasting region shares the flag or the watchdog cleared it, the flag is
\* up while a batch builds, checks or sends its operations, so the fill consumer keeps
\* its hands off.
InsideMeansFlag ==
    regions = 0 /\ watchdogs = 0 => \A f \in Frames :
        pc[f] \in {"building", "stale", "replan", "check", "claim", "broadcast"} => flag > 0
=============================================================================
