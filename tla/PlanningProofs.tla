--------------------------- MODULE PlanningProofs ---------------------------
(***************************************************************************)
(* Proofs about the two modules MCPlanning puts side by side.  CowBatch:   *)
(* types, no overwritten update for untouched clones, the batch count and  *)
(* the slot at rest, and, when no recovery batch runs beside the lock,     *)
(* the stack and the flag.                                                 *)
(* Rebalance: RebalanceInv, the inductive invariant of plans, broadcasts   *)
(* and repairs, and with it that the bot never crosses itself, never puts  *)
(* two orders on a level, loses no order and shifts within its budget.     *)
(***************************************************************************)
EXTENDS CowBatch, Rebalance, SeqLemmas, FiniteSetTheorems, FunctionTheorems,
        WellFoundedInduction, TLAPS

\* CowBatch.tla: the executor and its locks.

Labels == {"idle", "planned", "building", "stale", "replan", "check", "claim",
           "broadcast", "poll", "precommit", "commit", "settle", "done"}
States == {"NORMAL", "REBALANCING", "BROADCASTING"}
Modes == {"none", "batch", "poll", "local"}
GridType == [snap : [Slots -> Nat], base : Nat, stale : BOOLEAN, resynced : BOOLEAN]

GridTypes ==
    /\ master \in [Slots -> Nat] /\ version \in Nat
    /\ grid \in [Frames -> GridType]
StackTypes ==
    /\ stack \in Seq(Frames) /\ pushed \in [Frames -> BOOLEAN] /\ state \in States
\* A frame is inside at most one executor call when it plans, exactly one when it
\* plans again.
CountTypes ==
    /\ flag \in Nat /\ batchInFlight \in Int /\ slot \in BOOLEAN
    /\ held \in [Frames -> BOOLEAN] /\ entered \in [Frames -> 0..2]
    /\ \A f \in Frames : /\ pc[f] = "planned" => entered[f] \in 0..1
                         /\ pc[f] = "replan" => entered[f] = 1
                         /\ pc[f] = "idle" => entered[f] = 0
FlowTypes ==
    /\ mode \in [Frames -> Modes] /\ pc \in [Frames -> Labels]
    /\ regions \in Nat /\ inRegion \in BOOLEAN /\ watchdogs \in Nat
TInv == GridTypes /\ StackTypes /\ CountTypes /\ FlowTypes

-----------------------------------------------------------------------------
LEMMA PoppedType ==
    ASSUME StackTypes
    PROVE  /\ Popped \in Seq(Frames)
           /\ \A q : StateAtDepth(q) \in States
  BY DEF StackTypes, Popped, StateAtDepth, States, Front

\* Pushing, popping and releasing keep the types of the stack.
LEMMA PushType ==
    ASSUME StackTypes, NEW f \in Frames, PushWorkingGridRef(f)
    PROVE  StackTypes'
  BY DEF StackTypes, PushWorkingGridRef, States

LEMMA PopType ==
    ASSUME StackTypes, NEW f \in Frames, PopWorkingGridRef(f) \/ ReleaseWorkingGridRef(f)
    PROVE  StackTypes'
  BY PoppedType DEF StackTypes, PopWorkingGridRef, ReleaseWorkingGridRef, stackVars

LEMMA StopType ==
    ASSUME flag \in Nat, NEW n \in Int, StopBroadcasting(n)
    PROVE  flag' \in Nat
  BY DEF StopBroadcasting

LEMMA LeaveType ==
    ASSUME CountTypes, FlowTypes, NEW f \in Frames, Leave(f), flag' \in Nat
    PROVE  CountTypes' /\ pc' \in [Frames -> Labels]
  BY DEF CountTypes, FlowTypes, Leave, SlotAfter, Goto, Labels

LEMMA ResyncedType ==
    ASSUME GridTypes, NEW g \in GridType, NEW R \in SUBSET Slots
    PROVE  Resynced(g, R) \in GridType
  BY DEF GridTypes, GridType, Resynced

LEMMA InitTInv == Init => TInv
  <1> SUFFICES ASSUME Init PROVE TInv
    OBVIOUS
  <1>1. GridTypes
    BY DEF Init, GridTypes, GridType, NoGrid
  <1>2. StackTypes
    BY DEF Init, StackTypes, States
  <1>3. CountTypes
    <2>1. flag \in Nat /\ batchInFlight \in Int
      BY DEF Init
    <2>4. slot \in BOOLEAN
      BY Zenon DEF Init
    <2>3. held \in [Frames -> BOOLEAN]
      BY DEF Init
    <2>2. entered \in [Frames -> 0..2] /\ \A f \in Frames : pc[f] = "idle" /\ entered[f] = 0
      BY DEF Init
    <2> QED BY <2>1, <2>2, <2>3, <2>4 DEF CountTypes
  <1>4. FlowTypes
    BY DEF Init, FlowTypes, Modes, Labels
  <1> QED BY <1>1, <1>2, <1>3, <1>4 DEF TInv

\* Every step of the master and of the clones keeps their types.
LEMMA NextGridTypes == TInv /\ [Next]_vars => GridTypes'
  <1> SUFFICES ASSUME TInv, [Next]_vars PROVE GridTypes'
    OBVIOUS
  <1> USE DEF TInv
  <1>1. CASE UNCHANGED gridVars
    BY <1>1 DEF GridTypes, gridVars
  <1>2. ASSUME NEW f \in Frames, Plan(f) \/ Replan(f) PROVE GridTypes'
    <2>1. Clone \in GridType
      BY DEF GridTypes, GridType, Clone
    <2>2. grid' = grid \/ grid' = [grid EXCEPT ![f] = Clone]
      BY <1>2 DEF Plan, Replan
    <2>3. UNCHANGED <<master, version>>
      BY <1>2 DEF Plan, Replan
    <2> QED BY <2>1, <2>2, <2>3 DEF GridTypes
  <1>3. ASSUME NEW f \in Frames, Build(f) PROVE GridTypes'
    <2>1. PICK R \in SUBSET Slots : grid' = [grid EXCEPT ![f] = Resynced(@, R)]
      BY <1>3 DEF Build
    <2>2. Resynced(grid[f], R) \in GridType
      BY ResyncedType DEF GridTypes
    <2>3. UNCHANGED <<master, version>>
      BY <1>3 DEF Build
    <2> QED BY <2>1, <2>2, <2>3 DEF GridTypes
  <1>4. ASSUME NEW f \in Frames, Commit(f) PROVE GridTypes'
    BY <1>4 DEF Commit, GridTypes, GridType
  <1>5. ASSUME NEW s \in Slots, UpdateOrder(s) PROVE GridTypes'
    <2>1. version' \in Nat /\ master' \in [Slots -> Nat]
      BY <1>5 DEF UpdateOrder, GridTypes
    <2>2. CASE grid' = grid
      BY <2>1, <2>2 DEF GridTypes
    <2>3. CASE grid' # grid
      <3> DEFINE g == grid[Last(stack)]
                 h == [snap |-> [g.snap EXCEPT ![s] = version + 1],
                       base |-> version + 1, stale |-> TRUE, resynced |-> g.resynced]
      <3>1. stack # <<>> /\ grid' = [grid EXCEPT ![Last(stack)] = h]
        BY <1>5, <2>3 DEF UpdateOrder
      <3>2. Last(stack) \in Frames
        BY <3>1, SeqElement DEF StackTypes, Last
      <3>3. h \in GridType
        BY <3>2 DEF GridTypes, GridType
      <3> QED BY <2>1, <3>1, <3>2, <3>3 DEF GridTypes
    <2> QED BY <2>2, <2>3
  <1>6. CASE ClearOrderCaches
    BY <1>6 DEF ClearOrderCaches, GridTypes
  <1> QED
    BY <1>1, <1>2, <1>3, <1>4, <1>5, <1>6
    DEF Next, vars, gridVars, BatchStep, PlanAborts, GiveUp, Enter, CommitLocally, MeetStale,
        CheckSlot, ShutdownAborts, ClaimSlot, BroadcastSucceeds, BroadcastFails,
        BroadcastUncertain, Poll, PreCommit, SettleCommit, EnterRegion, LeaveRegion,
        ClearStaleBroadcastFlag

\* Every step of the stack keeps its types.
LEMMA NextStackTypes == TInv /\ [Next]_vars => StackTypes'
  <1> SUFFICES ASSUME TInv, [Next]_vars PROVE StackTypes'
    OBVIOUS
  <1> USE DEF TInv
  <1>1. CASE UNCHANGED stackVars
    BY <1>1 DEF StackTypes, stackVars
  <1>2. ASSUME NEW f \in Frames, PushWorkingGridRef(f) PROVE StackTypes'
    BY <1>2, PushType
  <1>3. ASSUME NEW f \in Frames, PopWorkingGridRef(f) \/ ReleaseWorkingGridRef(f)
        PROVE StackTypes'
    BY <1>3, PopType
  <1>4. ASSUME NEW f \in Frames, PlanAborts(f) \/ Enter(f) PROVE StackTypes'
    BY <1>4 DEF PlanAborts, Enter, StackTypes, States
  <1> QED
    BY <1>1, <1>2, <1>3, <1>4
    DEF Next, vars, stackVars, BatchStep, Plan, GiveUp, CommitLocally, Build, MeetStale,
        Replan, CheckSlot, ShutdownAborts, ClaimSlot, BroadcastSucceeds, BroadcastFails,
        BroadcastUncertain, Poll, PreCommit, Commit, SettleCommit, UpdateOrder,
        ClearOrderCaches, EnterRegion, LeaveRegion, ClearStaleBroadcastFlag

\* The flag is only moved by a start, by stops and by the watchdog.
LEMMA NextFlagType == TInv /\ [Next]_vars => flag' \in Nat
  <1> SUFFICES ASSUME TInv, [Next]_vars PROVE flag' \in Nat
    OBVIOUS
  <1> USE DEF TInv
  <1>1. flag \in Nat
    BY DEF CountTypes
  <1>2. ASSUME NEW f \in Frames, BroadcastFails(f) PROVE flag' \in Nat
    BY <1>1, <1>2, StopType DEF BroadcastFails, CountTypes
  <1>3. ASSUME NEW f \in Frames, Poll(f) PROVE flag' \in Nat
    BY <1>1, <1>3, StopType DEF Poll, CountTypes
  <1>4. ASSUME NEW f \in Frames, SettleCommit(f) PROVE flag' \in Nat
    <2>1. entered[f] \in Int
      BY DEF CountTypes
    <2>2. ASSUME NEW n \in Int, StopBroadcasting(n) PROVE flag' \in Nat
      BY <1>1, <2>2, StopType
    <2>3. CASE \E n \in {0, 1, entered[f]} : StopBroadcasting(1 + n)
      BY <2>1, <2>2, <2>3
    <2>4. CASE \E n \in {0, entered[f] - 1} : StopBroadcasting(n)
      BY <2>1, <2>2, <2>4
    <2> QED BY <1>1, <1>4, <2>3, <2>4 DEF SettleCommit
  <1> QED
    BY <1>1, <1>2, <1>3, <1>4, StopType
    DEF Next, vars, BatchStep, Plan, PlanAborts, GiveUp, Enter, CommitLocally, Build,
        MeetStale, Replan, CheckSlot, ShutdownAborts, ClaimSlot, BroadcastSucceeds,
        BroadcastUncertain, PreCommit, Commit, UpdateOrder, ClearOrderCaches,
        EnterRegion, LeaveRegion, ClearStaleBroadcastFlag

\* The counters of a frame and its place in the batch keep their types.
LEMMA NextCountTypes == TInv /\ [Next]_vars => CountTypes' /\ FlowTypes'
  <1> SUFFICES ASSUME TInv, [Next]_vars PROVE CountTypes' /\ FlowTypes'
    OBVIOUS
  <1> USE DEF TInv
  <1>1. flag' \in Nat
    BY NextFlagType
  <1>2. CASE UNCHANGED <<slotVars, mode, pc>> /\ UNCHANGED outside
    BY <1>1, <1>2 DEF CountTypes, FlowTypes, slotVars, outside
  <1>3. ASSUME NEW f \in Frames, Leave(f), UNCHANGED <<mode, outside>>
        PROVE CountTypes' /\ FlowTypes'
    BY <1>1, <1>3, LeaveType DEF FlowTypes, outside
  <1>4. ASSUME NEW f \in Frames, NEW l \in Labels \ {"planned", "replan", "idle"}, Goto(f, l),
               UNCHANGED <<slotVars, outside>>, mode' \in [Frames -> Modes]
        PROVE CountTypes' /\ FlowTypes'
    <2>1. pc' = [pc EXCEPT ![f] = l]
      BY <1>4 DEF Goto
    <2>2. pc' \in [Frames -> Labels]
      BY <2>1 DEF FlowTypes
    <2> QED BY <1>1, <1>4, <2>1, <2>2 DEF CountTypes, FlowTypes, slotVars, outside
  <1>5. ASSUME NEW f \in Frames, Plan(f) \/ Replan(f) \/ MeetStale(f)
        PROVE CountTypes' /\ FlowTypes'
    BY <1>1, <1>5 DEF Plan, MayPlan, Replan, MeetStale, Goto, CountTypes, FlowTypes, slotVars,
       outside, Labels
  <1>6. ASSUME NEW f \in Frames, Enter(f) PROVE CountTypes' /\ FlowTypes'
    BY <1>1, <1>6 DEF Enter, Goto, CountTypes, FlowTypes, outside, Labels
  <1>7. ASSUME NEW f \in Frames, ClaimSlot(f) PROVE CountTypes' /\ FlowTypes'
    BY <1>1, <1>7 DEF ClaimSlot, Goto, CountTypes, FlowTypes, outside, Labels
  <1>8. ASSUME NEW f \in Frames, Build(f) PROVE CountTypes' /\ FlowTypes'
    <2>1. UNCHANGED <<mode, outside>> /\ mode' \in [Frames -> Modes]
      BY <1>8 DEF Build, FlowTypes
    <2>2. CASE Leave(f)
      BY <1>3, <2>1, <2>2
    <2>3. CASE \E l \in {"check", "stale"} : Goto(f, l) /\ UNCHANGED slotVars
      BY <1>4, <2>1, <2>3 DEF Labels
    <2>4. PICK R \in SUBSET Slots :
             \/ /\ Goto(f, IF CanCommit(Resynced(grid[f], R)) THEN "check" ELSE "stale")
                /\ UNCHANGED <<stackVars, slotVars>>
             \/ PopWorkingGridRef(f) /\ Leave(f)
      BY <1>8 DEF Build
    <2> DEFINE ok == CanCommit(Resynced(grid[f], R))
    <2> HIDE DEF ok
    <2>5. CASE Goto(f, IF ok THEN "check" ELSE "stale") /\ UNCHANGED slotVars
      BY <2>3, <2>5
    <2>6. Leave(f) \/ (Goto(f, IF ok THEN "check" ELSE "stale") /\ UNCHANGED slotVars)
      BY <2>4 DEF ok, slotVars, stackVars
    <2> QED BY <2>2, <2>5, <2>6
  <1>9. ASSUME NEW f \in Frames, Poll(f) PROVE CountTypes' /\ FlowTypes'
    BY <1>3, <1>4, <1>9 DEF Poll, FlowTypes, Labels, Modes
  <1>10. ASSUME NEW f \in Frames,
                PlanAborts(f) \/ CommitLocally(f) \/ CheckSlot(f) \/ BroadcastSucceeds(f)
                \/ BroadcastUncertain(f) \/ PreCommit(f) \/ Commit(f)
         PROVE CountTypes' /\ FlowTypes'
    BY <1>4, <1>10 DEF PlanAborts, CommitLocally, CheckSlot, BroadcastSucceeds,
       BroadcastUncertain, PreCommit, Commit, FlowTypes, Labels, Modes
  <1>11. ASSUME NEW f \in Frames,
                GiveUp(f) \/ ShutdownAborts(f) \/ BroadcastFails(f) \/ SettleCommit(f)
         PROVE CountTypes' /\ FlowTypes'
    BY <1>3, <1>11 DEF GiveUp, ShutdownAborts, BroadcastFails, SettleCommit
  <1>12. CASE EnterRegion \/ LeaveRegion \/ ClearStaleBroadcastFlag
    <2>1. UNCHANGED <<slotVars, mode, pc>>
      BY <1>12 DEF EnterRegion, LeaveRegion, ClearStaleBroadcastFlag
    <2>2. regions' \in Nat /\ watchdogs' \in Nat
      BY <1>12 DEF EnterRegion, LeaveRegion, ClearStaleBroadcastFlag, FlowTypes
    <2>3. inRegion' = inRegion \/ inRegion' = TRUE \/ inRegion' = FALSE
      BY <1>12 DEF EnterRegion, LeaveRegion, ClearStaleBroadcastFlag
    <2>4. inRegion' \in BOOLEAN
      BY <2>3, Zenon DEF FlowTypes
    <2> QED BY <1>1, <2>1, <2>2, <2>4 DEF CountTypes, FlowTypes, slotVars
  <1> QED
    BY <1>2, <1>5, <1>6, <1>7, <1>8, <1>9, <1>10, <1>11, <1>12
    DEF Next, vars, slotVars, outside, BatchStep, UpdateOrder, ClearOrderCaches

\* The state of CowBatch has its types: grids, stack, counters and places.
THEOREM Types == Spec => []TypeOK
  <1>1. Init => TInv
    BY InitTInv
  <1>2. TInv /\ [Next]_vars => TInv'
    BY NextGridTypes, NextStackTypes, NextCountTypes DEF TInv
  <1>3. TInv => TypeOK
    BY DEF TInv, GridTypes, StackTypes, CountTypes, FlowTypes, TypeOK, GridType, States,
       Modes, Labels
  <1> QED BY <1>1, <1>2, <1>3, PTL DEF Spec

-----------------------------------------------------------------------------
\* A clone that nothing marked and nothing refreshed, and whose base is the current
\* version, is the master.
Honest(g, m, v) ==
    /\ g.base <= v
    /\ ~g.stale /\ ~g.resynced /\ g.base = v => g.snap = m
GridsHonest == \A f \in Frames : Honest(grid[f], master, version)

LEMMA InitHonest == Init => GridsHonest
  BY DEF Init, GridsHonest, Honest, NoGrid

\* A clone that is honest stays so when the version grows.
LEMMA HonestGrows ==
    ASSUME TInv, GridsHonest, NEW f \in Frames, NEW m, version' = version + 1
    PROVE  Honest(grid[f], m, version')
  BY DEF TInv, GridTypes, GridType, GridsHonest, Honest

LEMMA NextHonest == TInv /\ GridsHonest /\ [Next]_vars => GridsHonest'
  <1> SUFFICES ASSUME TInv, GridsHonest, [Next]_vars PROVE GridsHonest'
    OBVIOUS
  <1>1. CASE UNCHANGED gridVars
    BY <1>1 DEF GridsHonest, gridVars
  <1>2. ASSUME NEW f \in Frames, Plan(f) \/ Replan(f) PROVE GridsHonest'
    <2>1. Honest(Clone, master, version)
      BY DEF Honest, Clone, TInv, GridTypes
    <2>2. grid' = grid \/ grid' = [grid EXCEPT ![f] = Clone]
      BY <1>2 DEF Plan, Replan
    <2>3. UNCHANGED <<master, version>>
      BY <1>2 DEF Plan, Replan
    <2> QED BY <2>1, <2>2, <2>3 DEF GridsHonest, TInv, GridTypes
  <1>3. ASSUME NEW f \in Frames, Build(f) PROVE GridsHonest'
    <2>1. PICK R \in SUBSET Slots : grid' = [grid EXCEPT ![f] = Resynced(@, R)]
      BY <1>3 DEF Build
    <2>2. Honest(Resynced(grid[f], R), master, version)
      BY DEF GridsHonest, Honest, Resynced, TInv, GridTypes
    <2>3. UNCHANGED <<master, version>>
      BY <1>3 DEF Build
    <2> QED BY <2>1, <2>2, <2>3 DEF GridsHonest, TInv, GridTypes
  <1>4. ASSUME version' = version + 1, grid' = grid PROVE GridsHonest'
    BY <1>4, HonestGrows DEF GridsHonest
  <1>5. ASSUME NEW f \in Frames, Commit(f) PROVE GridsHonest'
    <2>1. grid' = grid /\ (version' = version + 1 \/ UNCHANGED <<master, version>>)
      BY <1>5 DEF Commit
    <2> QED BY <1>1, <1>4, <2>1 DEF gridVars
  <1>6. ASSUME NEW s \in Slots, UpdateOrder(s) PROVE GridsHonest'
    <2>1. version' = version + 1
      BY <1>6 DEF UpdateOrder
    <2>2. CASE grid' # grid
      <3> DEFINE t == Last(stack)
                 h == [snap |-> [grid[t].snap EXCEPT ![s] = version + 1],
                       base |-> version + 1, stale |-> TRUE, resynced |-> grid[t].resynced]
      <3>1. grid' = [grid EXCEPT ![t] = h]
        BY <1>6, <2>2 DEF UpdateOrder
      <3>2. Honest(h, master', version')
        BY <2>1 DEF Honest, TInv, GridTypes
      <3> HIDE DEF h, t
      <3>3. \A g \in Frames : grid'[g] = grid[g] \/ grid'[g] = h
        BY <3>1 DEF TInv, GridTypes
      <3> QED BY <2>1, <3>2, <3>3, HonestGrows DEF GridsHonest
    <2> QED BY <1>4, <2>1, <2>2
  <1>7. CASE ClearOrderCaches
    BY <1>4, <1>7 DEF ClearOrderCaches
  <1> QED
    BY <1>1, <1>2, <1>3, <1>5, <1>6, <1>7
    DEF Next, vars, gridVars, BatchStep, PlanAborts, GiveUp, Enter, CommitLocally, MeetStale,
        CheckSlot, ShutdownAborts, ClaimSlot, BroadcastSucceeds, BroadcastFails,
        BroadcastUncertain, Poll, PreCommit, SettleCommit, EnterRegion, LeaveRegion,
        ClearStaleBroadcastFlag

\* A step that commits frame f and moves the version is a Commit of f.
LEMMA OnlyCommit ==
    ASSUME TInv, [Next]_vars, NEW f \in Frames,
           pc[f] = "commit", pc'[f] = "settle", version' # version
    PROVE  Commit(f)
  <1>1. ASSUME NEW g \in Frames, Commit(g) PROVE g = f
    BY <1>1 DEF Commit, Goto, TInv, FlowTypes
  <1>2. ~UNCHANGED pc
    OBVIOUS
  <1> QED
    BY <1>1, <1>2
    DEF Next, vars, gridVars, BatchStep, Plan, PlanAborts, GiveUp, Enter, CommitLocally, Build,
        MeetStale, Replan, CheckSlot, ShutdownAborts, ClaimSlot, BroadcastSucceeds,
        BroadcastFails, BroadcastUncertain, Poll, PreCommit, SettleCommit, UpdateOrder,
        ClearOrderCaches, EnterRegion, LeaveRegion, ClearStaleBroadcastFlag

\* For any frames, slots and number of updates: a commit of a clone that took nothing
\* from the master again overwrites no update made since the plan.
THEOREM CommitsLoseNothing == Spec => NoLostUpdate
  <1>1. Init => TInv /\ GridsHonest
    BY InitTInv, InitHonest
  <1>2. TInv /\ [Next]_vars => TInv'
    BY NextGridTypes, NextStackTypes, NextCountTypes DEF TInv
  <1>3. TInv /\ GridsHonest /\ [Next]_vars => GridsHonest'
    BY NextHonest
  <1>4. TInv /\ GridsHonest /\ [Next]_vars => [CommitsCurrentGrid]_vars
    <2> SUFFICES ASSUME TInv, GridsHonest, [Next]_vars, NEW f \in Frames,
                        pc[f] = "commit", pc'[f] = "settle", version' # version,
                        ~grid[f].resynced
                 PROVE  grid[f].snap = master
      BY DEF CommitsCurrentGrid
    <2>1. Commit(f)
      BY OnlyCommit
    <2>2. CanCommit(grid[f])
      BY <2>1 DEF Commit
    <2> QED BY <2>2 DEF CanCommit, GridsHonest, Honest
  <1> QED BY <1>1, <1>2, <1>3, <1>4, PTL DEF Spec, NoLostUpdate

-----------------------------------------------------------------------------
(* Recovery batches included: the calls of the executor that are under way are  *)
(* the ones batchInFlight counts, and a call under way holds a slot that is taken. *)

Calls == {c \in Frames \X (1..2) : Active(c[1]) /\ c[2] =< entered[c[1]]}
CallsCounted == IsFiniteSet(Calls) /\ batchInFlight = Cardinality(Calls)
SlotHasHolder == slot => \E f \in Frames : Active(f) /\ held[f]

\* A step of a frame.
FrameStep(f) == Plan(f) \/ PlanAborts(f) \/ BatchStep(f) \/ ShutdownAborts(f)

\* A step outside the frames.
LEMMA FrameOrOutside ==
    ASSUME [Next]_vars
    PROVE  UNCHANGED <<stackVars, slotVars, pc>> \/ \E f \in Frames : FrameStep(f)
  BY DEF Next, vars, stackVars, slotVars, FrameStep, UpdateOrder, ClearOrderCaches,
     EnterRegion, LeaveRegion, ClearStaleBroadcastFlag

\* A frame's step moves its own label only, never back to "idle".
LEMMA OwnLabel ==
    ASSUME TInv, NEW f \in Frames, FrameStep(f)
    PROVE  \E l \in Labels \ {"idle"} :
              /\ pc' = [pc EXCEPT ![f] = l] /\ pc'[f] = l
              /\ \A g \in Frames \ {f} : pc'[g] = pc[g]
  <1>1. \E l \in Labels \ {"idle"} : pc' = [pc EXCEPT ![f] = l]
    BY DEF FrameStep, Plan, PlanAborts, BatchStep, ShutdownAborts, GiveUp, Enter, CommitLocally,
       Build, MeetStale, Replan, CheckSlot, ClaimSlot, BroadcastSucceeds, BroadcastFails,
       BroadcastUncertain, Poll, PreCommit, Commit, SettleCommit, Leave, Goto, Labels
  <1> QED BY <1>1 DEF TInv, FlowTypes

\* What a frame's step does to the counter and the slot.
LEMMA CountSteps ==
    ASSUME TInv, NEW f \in Frames, FrameStep(f)
    PROVE  \/ Plan(f) \/ PlanAborts(f) \/ Enter(f) \/ ClaimSlot(f)
           \/ Active(f) /\ Leave(f)
           \/ Active(f) /\ UNCHANGED slotVars /\ pc'[f] # "done"
  <1>1. DOMAIN pc = Frames
    BY DEF TInv, FlowTypes
  <1> QED
    BY <1>1
    DEF FrameStep, BatchStep, ShutdownAborts, GiveUp, CommitLocally, Build, MeetStale,
        Replan, CheckSlot, BroadcastSucceeds, BroadcastFails, BroadcastUncertain, Poll,
        PreCommit, Commit, SettleCommit, Goto, Active, slotVars

\* Leaving ends all calls of the frame at once and subtracts as many.
LEMMA LeaveCounts ==
    ASSUME TInv, CallsCounted, NEW f \in Frames, Active(f), Leave(f)
    PROVE  CallsCounted'
  <1> DEFINE one == <<f, 1>>
             two == <<f, 2>>
  <1>1. /\ DOMAIN pc = Frames /\ entered \in [Frames -> 0..2] /\ batchInFlight \in Int
        /\ entered[f] \in 0..2
    BY DEF TInv, FlowTypes, CountTypes
  <1>2. /\ entered' = entered /\ batchInFlight' = batchInFlight - entered[f]
        /\ pc' = [pc EXCEPT ![f] = "done"]
    BY DEF Leave, Goto
  <1>3. ~(Active(f)') /\ \A g \in Frames \ {f} : Active(g)' <=> Active(g)
    BY <1>1, <1>2 DEF Active
  <1>4. Calls' = (Calls \ {one}) \ {two}
    BY <1>1, <1>2, <1>3 DEF Calls
  <1>5. /\ one \in Calls <=> 1 =< entered[f]
        /\ two \in Calls \ {one} <=> 2 =< entered[f]
    BY DEF Calls
  <1>6. /\ IsFiniteSet(Calls \ {one})
        /\ Cardinality(Calls \ {one})
             = IF one \in Calls THEN Cardinality(Calls) - 1 ELSE Cardinality(Calls)
    BY FS_RemoveElement DEF CallsCounted
  <1>7. /\ IsFiniteSet((Calls \ {one}) \ {two})
        /\ Cardinality((Calls \ {one}) \ {two})
             = IF two \in Calls \ {one} THEN Cardinality(Calls \ {one}) - 1
                                        ELSE Cardinality(Calls \ {one})
    BY <1>6, FS_RemoveElement
  <1>8. Cardinality(Calls) \in Nat /\ batchInFlight = Cardinality(Calls)
    BY FS_CardinalityType DEF CallsCounted
  <1>9. Cardinality(Calls') = Cardinality(Calls) - entered[f]
    <2> HIDE DEF one, two
    <2> QED BY <1>1, <1>4, <1>5, <1>6, <1>7, <1>8
  <1>10. IsFiniteSet(Calls')
    BY <1>4, <1>7
  <1> QED BY <1>2, <1>8, <1>9, <1>10 DEF CallsCounted

\* Entering adds one call and counts it.
LEMMA EnterCounts ==
    ASSUME TInv, CallsCounted, NEW f \in Frames, Enter(f)
    PROVE  CallsCounted'
  <1> DEFINE new == <<f, entered[f] + 1>>
  <1>1. /\ DOMAIN pc = Frames /\ entered \in [Frames -> 0..2]
        /\ entered[f] \in 0..1 /\ pc[f] = "planned"
    BY DEF Enter, TInv, FlowTypes, CountTypes
  <1>2. /\ entered' = [entered EXCEPT ![f] = @ + 1] /\ batchInFlight' = batchInFlight + 1
        /\ pc' = [pc EXCEPT ![f] = "building"]
    BY DEF Enter, Goto
  <1>3. Active(f) /\ \A g \in Frames : Active(g)' <=> Active(g)
    BY <1>1, <1>2 DEF Active
  <1>4. /\ entered'[f] = entered[f] + 1
        /\ \A g \in Frames \ {f} : entered'[g] = entered[g]
    BY <1>1, <1>2
  <1>5. Calls' = Calls \cup {new} /\ new \notin Calls
    BY <1>1, <1>3, <1>4 DEF Calls
  <1>6. IsFiniteSet(Calls') /\ Cardinality(Calls') = Cardinality(Calls) + 1
    BY <1>5, FS_AddElement DEF CallsCounted
  <1> QED BY <1>2, <1>6 DEF CallsCounted

LEMMA FrameKeepsCalls ==
    ASSUME TInv, CallsCounted, SlotHasHolder, NEW f \in Frames, FrameStep(f)
    PROVE  CallsCounted' /\ SlotHasHolder'
  <1>1. PICK l \in Labels \ {"idle"} :
              pc'[f] = l /\ \A g \in Frames \ {f} : pc'[g] = pc[g]
    BY OwnLabel
  <1>2. \A g \in Frames \ {f} : Active(g)' <=> Active(g)
    BY <1>1 DEF Active
  <1>3. held \in [Frames -> BOOLEAN] /\ (pc[f] = "idle" => entered[f] = 0)
    BY DEF TInv, CountTypes
  <1>4. CASE Plan(f) \/ PlanAborts(f)
    <2>1. UNCHANGED slotVars /\ pc[f] = "idle" /\ ~Active(f)
      BY <1>4 DEF Plan, PlanAborts, MayPlan, Active
    <2>2. Calls' = Calls
      BY <1>2, <1>3, <2>1 DEF Calls, slotVars
    <2>3. SlotHasHolder'
      BY <1>2, <2>1 DEF SlotHasHolder, slotVars
    <2> QED BY <2>1, <2>2, <2>3 DEF CallsCounted, slotVars
  <1>5. CASE Enter(f)
    <2>1. Active(f)' /\ UNCHANGED <<slot, held>>
      BY <1>5 DEF Enter, Goto, Active, TInv, FlowTypes
    <2>2. SlotHasHolder'
      BY <1>2, <2>1 DEF SlotHasHolder
    <2> QED BY <1>5, <2>2, EnterCounts
  <1>6. CASE ClaimSlot(f)
    <2>1. /\ Active(f) /\ Active(f)' /\ held'[f]
          /\ UNCHANGED <<batchInFlight, entered>>
      BY <1>3, <1>6 DEF ClaimSlot, Goto, Active, TInv, FlowTypes
    <2>2. Calls' = Calls
      BY <1>2, <2>1 DEF Calls
    <2> QED BY <2>1, <2>2 DEF CallsCounted, SlotHasHolder
  <1>7. CASE Active(f) /\ Leave(f)
    <2>1. slot' = (slot /\ ~held[f]) /\ held' = [held EXCEPT ![f] = FALSE]
      BY <1>7 DEF Leave, SlotAfter
    <2>2. ASSUME slot' PROVE \E g \in Frames : Active(g)' /\ held'[g]
      <3>1. slot /\ ~held[f]
        BY <2>1, <2>2
      <3>2. PICK g \in Frames : Active(g) /\ held[g]
        BY <3>1 DEF SlotHasHolder
      <3>3. g # f
        BY <3>1, <3>2
      <3> QED BY <1>2, <1>3, <2>1, <3>2, <3>3
    <2> QED BY <1>7, <2>2, LeaveCounts DEF SlotHasHolder
  <1>8. CASE Active(f) /\ UNCHANGED slotVars /\ pc'[f] # "done"
    <2>1. Active(f)'
      BY <1>1, <1>8 DEF Active
    <2>2. Calls' = Calls /\ SlotHasHolder'
      BY <1>2, <1>8, <2>1 DEF Calls, SlotHasHolder, slotVars
    <2> QED BY <1>8, <2>2 DEF CallsCounted, slotVars
  <1> QED BY <1>4, <1>5, <1>6, <1>7, <1>8, CountSteps

\* For any frames, recovery batches beside the lock included: when no batch is under
\* way, none is counted and the single-flight slot is free, whichever ways they ended.
THEOREM BatchesRelease == Spec => []SettledReleases
  <1>1. Init => TInv /\ CallsCounted /\ SlotHasHolder
    <2>1. Init => Calls = {}
      BY DEF Init, Calls, Active
    <2> QED BY <2>1, InitTInv, FS_EmptySet DEF Init, CallsCounted, SlotHasHolder
  <1>2. TInv /\ CallsCounted /\ SlotHasHolder /\ [Next]_vars
          => TInv' /\ CallsCounted' /\ SlotHasHolder'
    <2> SUFFICES ASSUME TInv, CallsCounted, SlotHasHolder, [Next]_vars
                 PROVE  TInv' /\ CallsCounted' /\ SlotHasHolder'
      OBVIOUS
    <2>1. TInv'
      BY NextGridTypes, NextStackTypes, NextCountTypes DEF TInv
    <2>2. CASE UNCHANGED <<stackVars, slotVars, pc>>
      <3>1. Calls' = Calls /\ SlotHasHolder'
        BY <2>2 DEF Calls, SlotHasHolder, Active, slotVars
      <3> QED BY <2>1, <2>2, <3>1 DEF CallsCounted, slotVars
    <2> QED BY <2>1, <2>2, FrameOrOutside, FrameKeepsCalls
  <1>3. CallsCounted /\ SlotHasHolder => SettledReleases
    <2> SUFFICES ASSUME CallsCounted, SlotHasHolder, \A f \in Frames : ~Active(f)
                 PROVE  batchInFlight = 0 /\ ~slot
      BY DEF SettledReleases
    <2>1. Calls = {}
      BY DEF Calls
    <2> QED BY <2>1, FS_EmptySet DEF CallsCounted, SlotHasHolder
  <1> QED BY <1>1, <1>2, <1>3, PTL DEF Spec

-----------------------------------------------------------------------------
(* Without recovery batches every frame holds the fill lock, so one is active at *)
(* a time and what is on the stack is its own.                                   *)

Alone == \A f, g \in Frames : Active(f) /\ Active(g) => f = g
OwnStack ==
    /\ \A f \in Frames : pushed[f] => Active(f) /\ stack = <<f>>
    /\ \A f \in Frames : pc[f] \in {"replan", "settle"} => ~pushed[f]
    /\ (\A f \in Frames : ~pushed[f]) => stack = <<>>
LInv == Alone /\ OwnStack

LEMMA InitLInv == Init => LInv
  BY DEF Init, LInv, Alone, OwnStack, Active

\* The frame that steps is or becomes the only active one.
LEMMA OthersRest ==
    ASSUME RecoveryFrames = {}, TInv, LInv, NEW f \in Frames, FrameStep(f)
    PROVE  /\ \A g \in Frames \ {f} : ~Active(g) /\ ~pushed[g]
           /\ \E l \in Labels \ {"idle"} : pc' = [pc EXCEPT ![f] = l]
           /\ ~pushed[f] => stack = <<>>
           /\ pushed[f] => stack = <<f>>
  <1>1. f \in LockedFrames /\ LockedFrames = Frames
    BY DEF LockedFrames, Frames
  <1>2. Active(f) \/ MayPlan(f)
    BY DEF FrameStep, Plan, PlanAborts, BatchStep, ShutdownAborts, GiveUp, Enter, CommitLocally,
       Build, MeetStale, Replan, CheckSlot, ClaimSlot, BroadcastSucceeds, BroadcastFails,
       BroadcastUncertain, Poll, PreCommit, Commit, SettleCommit, Active
  <1>3. \A g \in Frames \ {f} : ~Active(g)
    BY <1>1, <1>2 DEF LInv, Alone, MayPlan
  <1>4. \A g \in Frames \ {f} : ~pushed[g]
    BY <1>3 DEF LInv, OwnStack
  <1>5. \E l \in Labels \ {"idle"} : pc' = [pc EXCEPT ![f] = l]
    BY OwnLabel
  <1> QED BY <1>3, <1>4, <1>5 DEF LInv, OwnStack

\* Taking the only entry leaves the stack empty.
LEMMA PopOnly ==
    ASSUME TInv, NEW f \in Frames, PopWorkingGridRef(f) \/ ReleaseWorkingGridRef(f),
           ~pushed[f] => stack = <<>>, pushed[f] => stack = <<f>>
    PROVE  stack' = <<>> /\ pushed' = [pushed EXCEPT ![f] = FALSE]
  <1>1. stack = <<f>> => Popped = <<>> /\ Last(stack) = f
    BY DEF Popped, Front, Last
  <1>2. pushed \in [Frames -> BOOLEAN]
    BY DEF TInv, StackTypes
  <1>3. CASE PopWorkingGridRef(f)
    BY <1>1, <1>2, <1>3 DEF PopWorkingGridRef, stackVars
  <1>4. CASE ReleaseWorkingGridRef(f)
    BY <1>1, <1>2, <1>4 DEF ReleaseWorkingGridRef
  <1> QED BY <1>3, <1>4

LEMMA PushOnly ==
    ASSUME TInv, NEW f \in Frames, PushWorkingGridRef(f), stack = <<>>
    PROVE  stack' = <<f>> /\ pushed' = [pushed EXCEPT ![f] = TRUE]
  BY DEF PushWorkingGridRef

\* What a step of f does to the stack: it becomes empty, or f's grid, or stays.
LEMMA StackSteps ==
    ASSUME RecoveryFrames = {}, TInv, LInv, NEW f \in Frames, FrameStep(f)
    PROVE  \/ stack' = <<>> /\ pushed' = [pushed EXCEPT ![f] = FALSE]
           \/ /\ stack' = <<f>> /\ pushed' = [pushed EXCEPT ![f] = TRUE]
              /\ pc'[f] \notin {"done", "replan", "settle"}
           \/ /\ stack' = stack /\ pushed' = pushed
              /\ pushed[f] => pc'[f] \notin {"done", "replan", "settle"}
  <1>1. DOMAIN pc = Frames /\ \A g \in Frames \ {f} : ~pushed[g]
    BY OthersRest DEF TInv, FlowTypes
  <1>2. CASE PopWorkingGridRef(f) \/ ReleaseWorkingGridRef(f)
    BY <1>2, OthersRest, PopOnly
  <1>3. CASE Plan(f)
    <2>1. ~pushed[f]
      BY <1>3 DEF Plan, MayPlan, LInv, OwnStack, Active
    <2> QED BY <1>1, <1>3, <2>1, OthersRest, PushOnly DEF Plan, Goto, stackVars
  <1>4. CASE Replan(f)
    <2>1. ~pushed[f]
      BY <1>4 DEF Replan, LInv, OwnStack
    <2> QED BY <1>1, <1>4, <2>1, OthersRest, PushOnly DEF Replan, Goto
  <1>5. CASE PlanAborts(f)
    BY <1>5 DEF PlanAborts, MayPlan, LInv, OwnStack, Active
  <1>6. CASE SettleCommit(f)
    BY <1>6 DEF SettleCommit, LInv, OwnStack, stackVars
  <1> QED
    BY <1>1, <1>2, <1>3, <1>4, <1>5, <1>6
    DEF FrameStep, BatchStep, ShutdownAborts, GiveUp, Enter, CommitLocally, Build, MeetStale,
        CheckSlot, ClaimSlot, BroadcastSucceeds, BroadcastFails, BroadcastUncertain, Poll,
        PreCommit, Commit, Goto, stackVars

LEMMA FrameKeepsStack ==
    ASSUME RecoveryFrames = {}, TInv, LInv, NEW f \in Frames, FrameStep(f)
    PROVE  Alone' /\ OwnStack'
  <1>1. PICK l \in Labels \ {"idle"} : pc' = [pc EXCEPT ![f] = l]
    BY OthersRest
  <1>2. DOMAIN pc = Frames /\ pushed \in [Frames -> BOOLEAN]
    BY DEF TInv, FlowTypes, StackTypes
  <1>3. /\ \A g \in Frames \ {f} : pc'[g] = pc[g] /\ ~Active(g) /\ ~pushed[g]
        /\ pc'[f] = l
    BY <1>1, <1>2, OthersRest
  <1>4. \A g \in Frames \ {f} : ~(Active(g)')
    BY <1>3 DEF Active
  <1>5. Alone'
    BY <1>4 DEF Alone
  <1>6. \/ stack' = <<>> /\ ~pushed'[f]
        \/ stack' = <<f>> /\ pushed'[f] /\ l \notin {"done", "replan", "settle"}
    <2>1. CASE stack' = <<>> /\ pushed' = [pushed EXCEPT ![f] = FALSE]
      BY <1>2, <2>1
    <2>2. CASE /\ stack' = <<f>> /\ pushed' = [pushed EXCEPT ![f] = TRUE]
               /\ pc'[f] \notin {"done", "replan", "settle"}
      BY <1>2, <1>3, <2>2
    <2>3. CASE /\ stack' = stack /\ pushed' = pushed
               /\ pushed[f] => pc'[f] \notin {"done", "replan", "settle"}
      BY <1>3, <2>3, OthersRest
    <2> QED BY <2>1, <2>2, <2>3, StackSteps
  <1>7. \A g \in Frames \ {f} : ~pushed'[g]
    <2>1. \/ pushed' = [pushed EXCEPT ![f] = FALSE] \/ pushed' = [pushed EXCEPT ![f] = TRUE]
          \/ pushed' = pushed
      BY StackSteps
    <2> QED BY <1>2, <1>3, <2>1
  <1>8. OwnStack'
    BY <1>1, <1>3, <1>6, <1>7 DEF OwnStack, Active, Labels
  <1> QED BY <1>5, <1>8

LEMMA NextLInv == RecoveryFrames = {} /\ TInv /\ LInv /\ [Next]_vars => LInv'
  <1> SUFFICES ASSUME RecoveryFrames = {}, TInv, LInv, [Next]_vars PROVE LInv'
    OBVIOUS
  <1>1. CASE UNCHANGED <<stackVars, slotVars, pc>>
    BY <1>1 DEF LInv, Alone, OwnStack, Active, stackVars
  <1>2. ASSUME NEW f \in Frames, FrameStep(f) PROVE LInv'
    BY <1>2, FrameKeepsStack DEF LInv
  <1> QED BY <1>1, <1>2, FrameOrOutside

LEMMA AlwaysLInv == RecoveryFrames = {} => (Spec => [](TInv /\ LInv))
  <1> SUFFICES ASSUME RecoveryFrames = {} PROVE Spec => [](TInv /\ LInv)
    OBVIOUS
  <1>1. Init => TInv /\ LInv
    BY InitTInv, InitLInv
  <1>2. TInv /\ LInv /\ [Next]_vars => TInv' /\ LInv'
    BY NextGridTypes, NextStackTypes, NextCountTypes, NextLInv DEF TInv
  <1> QED BY <1>1, <1>2, PTL DEF Spec

\* Without recovery batches: a grid is on the stack exactly as long as its result says
\* so, once, whatever sequence of re-plans and early returns its batch goes through.
THEOREM LockedStackExact == RecoveryFrames = {} => (Spec => []StackExact)
  <1>1. TInv /\ LInv => StackExact
    <2> SUFFICES ASSUME TInv, LInv PROVE StackExact
      OBVIOUS
    <2>1. CASE \A f \in Frames : ~pushed[f]
      BY <2>1 DEF LInv, OwnStack, StackExact, ToSet, IsInjective
    <2>2. ASSUME NEW f \in Frames, pushed[f] PROVE StackExact
      <3>1. stack = <<f>> /\ Active(f)
        BY <2>2 DEF LInv, OwnStack
      <3>2. \A g \in Frames : pushed[g] => g = f
        BY <2>2, <3>1 DEF LInv, OwnStack, Alone
      <3>3. ToSet(stack) = {f} /\ IsInjective(stack)
        BY <3>1 DEF ToSet, IsInjective
      <3> QED BY <2>2, <3>1, <3>2, <3>3 DEF StackExact
    <2> QED BY <2>1, <2>2
  <1> QED BY <1>1, AlwaysLInv, PTL

Inside == {"building", "stale", "replan", "check", "claim", "broadcast"}
\* As long as no region began and the watchdog did not strike.
FlagUp ==
    regions = 0 /\ watchdogs = 0 =>
        ~inRegion /\ \A f \in Frames : pc[f] \in Inside => flag > 0

LEMMA NextFlagUp ==
    RecoveryFrames = {} /\ TInv /\ LInv /\ FlagUp /\ [Next]_vars => FlagUp'
  <1> SUFFICES ASSUME RecoveryFrames = {}, TInv, LInv, FlagUp, [Next]_vars,
                      regions' = 0, watchdogs' = 0
               PROVE  ~inRegion' /\ \A f \in Frames : pc'[f] \in Inside => flag' > 0
    BY DEF FlagUp
  <1>1. regions \in Nat /\ watchdogs \in Nat /\ flag \in Nat /\ DOMAIN pc = Frames
    BY DEF TInv, FlowTypes, CountTypes
  <1>2. CASE UNCHANGED <<flag, pc, outside>>
    BY <1>2 DEF FlagUp, outside
  <1>3. ASSUME NEW f \in Frames, FrameStep(f) PROVE
               ~inRegion' /\ \A g \in Frames : pc'[g] \in Inside => flag' > 0
    <2>1. UNCHANGED outside
      BY <1>3 DEF FrameStep, BatchStep, Plan, PlanAborts, GiveUp, Enter, CommitLocally, Build,
         MeetStale, Replan, CheckSlot, ShutdownAborts, ClaimSlot, BroadcastSucceeds,
         BroadcastFails, BroadcastUncertain, Poll, PreCommit, Commit, SettleCommit
    <2>2. PICK l \in Labels \ {"idle"} : pc' = [pc EXCEPT ![f] = l]
      BY <1>3, OthersRest
    <2>3. \A g \in Frames \ {f} : pc'[g] \notin Inside
      BY <1>1, <1>3, <2>2, OthersRest DEF Active, Inside
    <2>4. pc'[f] \in Inside => flag' > 0
      <3>1. CASE Enter(f)
        BY <1>1, <3>1 DEF Enter
      <3>2. CASE pc[f] \in Inside /\ flag' = flag
        BY <2>1, <3>2 DEF FlagUp, outside
      <3>3. Enter(f) \/ (pc[f] \in Inside /\ flag' = flag) \/ pc'[f] \notin Inside
        BY <1>1, <1>3
        DEF FrameStep, BatchStep, Plan, PlanAborts, GiveUp, CommitLocally, Build, MeetStale,
            Replan, CheckSlot, ShutdownAborts, ClaimSlot, BroadcastSucceeds, BroadcastFails,
            BroadcastUncertain, Poll, PreCommit, Commit, SettleCommit, Leave, Goto, Inside
      <3> QED BY <3>1, <3>2, <3>3
    <2> QED BY <2>1, <2>3, <2>4 DEF FlagUp, outside
  <1>4. ~EnterRegion /\ ~LeaveRegion /\ ~ClearStaleBroadcastFlag
    BY <1>1 DEF EnterRegion, LeaveRegion, ClearStaleBroadcastFlag, FlagUp
  <1> QED
    BY <1>2, <1>3, <1>4
    DEF Next, vars, FrameStep, UpdateOrder, ClearOrderCaches, outside

\* Without recovery batches, and until a broadcasting region begins or the watchdog
\* strikes: the flag is up as long as a batch builds, checks or sends.
THEOREM LockedFlag == RecoveryFrames = {} => (Spec => []InsideMeansFlag)
  <1> SUFFICES ASSUME RecoveryFrames = {} PROVE Spec => []InsideMeansFlag
    OBVIOUS
  <1>1. Init => FlagUp
    BY DEF Init, FlagUp, Inside
  <1>2. TInv /\ LInv /\ FlagUp /\ [Next]_vars => FlagUp'
    BY NextFlagUp
  <1>3. FlagUp => InsideMeansFlag
    BY DEF FlagUp, Inside, InsideMeansFlag
  <1> QED BY <1>1, <1>2, <1>3, AlwaysLInv, PTL DEF Spec

-----------------------------------------------------------------------------
\* Rebalance.tla: the plans that fills and divergences lead to, the operations built from
\* them, their broadcast and what is left when one fails. First what the lists of levels
\* contain.

\* What the constants say.
LEMMA Constants ==
    /\ Top \in Nat /\ Gap \in Nat /\ Window \in Nat /\ Ceiling \in Nat
    /\ BaseBudget \in Nat /\ Levels \subseteq Nat /\ IsFiniteSet(Levels)
  <1>1. Top \in Nat /\ Gap \in Nat /\ Window \in Nat /\ Ceiling \in Nat
    BY RebalanceAssumption DEF Ceiling
  <1>2. BaseBudget \in Nat
    BY <1>1 DEF BaseBudget, AtLeast
  <1>3. Levels \subseteq Nat /\ IsFiniteSet(Levels)
    BY <1>1, FS_Interval DEF Levels
  <1> QED  BY <1>1, <1>2, <1>3

\* The least of some natural numbers is one of them.
LEMMA LeastIsIn ==
    ASSUME NEW S \in SUBSET Nat, S # {}
    PROVE  \E x \in S : \A y \in S : x =< y
  <1> DEFINE Less == OpToRel(<, Nat)
  <1>1. IsWellFoundedOn(Less, Nat)
    BY NatLessThanWellFounded, Zenon
  <1>2. \A x, y \in Nat : <<y, x>> \notin Less => x =< y
    BY DEF OpToRel
  <1> HIDE DEF Less
  <1>3. \E x \in S : \A y \in S : <<y, x>> \notin Less
    BY <1>1, WFMin, Zenon
  <1> QED BY <1>2, <1>3

\* Min and Max of a finite set of levels belong to it.
LEMMA MinOf ==
    ASSUME NEW S \in SUBSET Nat, S # {}
    PROVE  Min(S) \in S /\ \A y \in S : Min(S) <= y
  BY LeastIsIn DEF Min

\* The greatest of some natural numbers below a bound is one of them.
LEMMA MaxOf ==
    ASSUME NEW S \in SUBSET Nat, S # {}, NEW n \in Nat, \A x \in S : x <= n
    PROVE  Max(S) \in S /\ \A y \in S : y <= Max(S)
  <1> DEFINE T == {n - x : x \in S}
  <1>1. T \in SUBSET Nat /\ T # {}
    <2>1. \A x \in S : n - x \in Nat
      OBVIOUS
    <2>2. T \in SUBSET Nat
      BY <2>1
    <2>3. PICK x \in S : TRUE
      OBVIOUS
    <2>4. n - x \in T
      BY <2>3
    <2> QED  BY <2>2, <2>4
  <1>2. PICK m \in T : \A y \in T : m <= y
    BY <1>1, LeastIsIn
  <1>3. PICK x \in S : m = n - x
    BY <1>2
  <1>4. ASSUME NEW y \in S PROVE y <= x
    <2>1. n - y \in T
      BY <1>4
    <2>2. m <= n - y
      BY <1>2, <2>1
    <2> QED  BY <1>3, <2>2, <1>4
  <1>5. \E z \in S : \A y \in S : z >= y
    BY <1>3, <1>4
  <1> QED  BY <1>5 DEF Max

-----------------------------------------------------------------------------
\* q holds every element of S once and nothing else.
Lists(q, S) ==
    /\ Len(q) \in Nat /\ DOMAIN q = 1 .. Len(q) /\ q \in Seq(S)
    /\ \A k, l \in DOMAIN q : q[k] = q[l] => k = l
    /\ \A i \in S : \E k \in DOMAIN q : q[k] = i

\* What is less comes before.
Mounts(q) == \A k, l \in DOMAIN q : q[k] < q[l] => k < l

\* Rising(S) lists the set S, the lowest number first.
LEMMA RisingOrder ==
    ASSUME NEW S \in SUBSET Nat, IsFiniteSet(S)
    PROVE  Lists(Rising(S), S) /\ Mounts(Rising(S))
  <1> DEFINE n == Cardinality(S)
             below(i) == {j \in S : j < i}
             rank == [i \in S |-> Cardinality(below(i))]
  <1>1. n \in Nat
    BY FS_CardinalityType
  <1>2. ASSUME NEW i \in S
        PROVE  /\ IsFiniteSet(below(i)) /\ rank[i] \in Nat /\ rank[i] < n
               /\ below(i) \in SUBSET S
    <2>1. below(i) \in SUBSET S /\ i \notin below(i)
      OBVIOUS
    <2>2. IsFiniteSet(below(i)) /\ Cardinality(below(i)) <= n /\ (Cardinality(below(i)) = n => below(i) = S)
      BY <2>1, FS_Subset
    <2>3. Cardinality(below(i)) # n
      BY <2>1, <2>2
    <2>4. Cardinality(below(i)) \in Nat
      BY <2>2, FS_CardinalityType
    <2> HIDE DEF below, n
    <2> QED  BY <1>1, <2>1, <2>2, <2>3, <2>4
  <1>3. ASSUME NEW i \in S, NEW j \in S, i < j
        PROVE  rank[i] < rank[j]
    <2>0. \A x \in S : x \in Nat
      OBVIOUS
    <2>1. below(i) \in SUBSET below(j) /\ i \in below(j) /\ i \notin below(i)
      <3>1. i \in Nat /\ j \in Nat
        BY <2>0
      <3>2. \A k \in S : k < i => k < j
        BY <1>3, <2>0, <3>1
      <3>3. below(i) \subseteq below(j)
        BY <3>2
      <3>4. ~(i < i)
        BY <3>1
      <3> QED  BY <1>3, <3>3, <3>4
    <2>2. IsFiniteSet(below(j))
      BY <1>2
    <2>3. Cardinality(below(i)) <= Cardinality(below(j)) /\ Cardinality(below(i)) # Cardinality(below(j))
      BY <2>1, <2>2, FS_Subset
    <2>4. rank[i] \in Nat /\ rank[j] \in Nat
      BY <1>2
    <2> HIDE DEF below
    <2> QED  BY <2>3, <2>4
  <1>4. \A i, j \in S : rank[i] = rank[j] => i = j
    <2> SUFFICES ASSUME NEW i \in S, NEW j \in S, rank[i] = rank[j], i # j PROVE FALSE
      OBVIOUS
    <2>1. rank[i] \in Nat /\ rank[j] \in Nat
      BY <1>2
    <2> HIDE DEF rank
    <2>2. i < j \/ j < i
      OBVIOUS
    <2> QED  BY <1>3, <2>1, <2>2
  <1>5. IsFiniteSet(0 .. n - 1) /\ Cardinality(0 .. n - 1) = n
    <2>1. n - 1 \in Int /\ 0 \in Int /\ (0 > n - 1 <=> n = 0) /\ (n - 1) - 0 + 1 = n
      BY <1>1
    <2> HIDE DEF n
    <2> QED  BY <2>1, FS_Interval
  <1>6. rank \in [S -> 0 .. n - 1]
    <2>1. \A i \in S : Cardinality(below(i)) \in 0 .. n - 1
      BY <1>1, <1>2
    <2> QED  BY <2>1
  <1> HIDE DEF rank
  <1>7. rank \in Injection(S, 0 .. n - 1)
    BY <1>4, <1>6, Fun_IsInj
  <1>8. rank \in Surjection(S, 0 .. n - 1)
    BY <1>5, <1>7, FS_Injection
  <1>9. \A r \in 0 .. n - 1 : \E i \in S : rank[i] = r
    BY <1>8 DEF Surjection, Range
  <1>10. \A i \in S : rank[i] = Cardinality({j \in S : j < i})
    BY DEF rank
  <1>11. ASSUME NEW k \in 1 .. n
         PROVE  Rising(S)[k] \in S /\ rank[Rising(S)[k]] = k - 1
    <2>1. k - 1 \in 0 .. n - 1
      BY <1>1
    <2>2. \E i \in S : Cardinality({j \in S : j < i}) = k - 1
      BY <1>9, <1>10, <2>1
    <2>3. Rising(S)[k] = CHOOSE i \in S : Cardinality({j \in S : j < i}) = k - 1
      BY DEF Rising
    <2>4. Rising(S)[k] \in S /\ Cardinality({j \in S : j < Rising(S)[k]}) = k - 1
      BY <2>2, <2>3
    <2> QED  BY <1>10, <2>4
  <1> HIDE DEF n
  <1>12. Rising(S) \in [1 .. n -> S]
    <2> DEFINE r(k) == CHOOSE i \in S : Cardinality({j \in S : j < i}) = k - 1
    <2>1. Rising(S) = [k \in 1 .. n |-> r(k)]
      BY DEF Rising, n
    <2> HIDE DEF r
    <2>2. \A k \in 1 .. n : r(k) \in S
      BY <1>11, <2>1
    <2> QED  BY <2>1, <2>2
  <1>13. Rising(S) \in Seq(S) /\ Len(Rising(S)) = n /\ DOMAIN Rising(S) = 1 .. n
    BY <1>1, <1>12
  <1>14. \A k, l \in 1 .. n : Rising(S)[k] = Rising(S)[l] => k = l
    BY <1>1, <1>11
  <1>15. ASSUME NEW i \in S PROVE \E k \in 1 .. n : Rising(S)[k] = i
    <2>1. rank[i] \in 0 .. n - 1
      BY <1>6
    <2>2. rank[i] + 1 \in 1 .. n
      BY <1>1, <2>1
    <2>3. rank[Rising(S)[rank[i] + 1]] = rank[i] /\ Rising(S)[rank[i] + 1] \in S
      BY <1>11, <2>1, <2>2
    <2> QED  BY <1>4, <2>2, <2>3
  <1>16. ASSUME NEW k \in 1 .. n, NEW l \in 1 .. n, Rising(S)[k] < Rising(S)[l] PROVE k < l
    <2>1. rank[Rising(S)[k]] < rank[Rising(S)[l]]
      BY <1>3, <1>11, <1>16
    <2> QED  BY <1>1, <1>11, <2>1
  <1> QED  BY <1>1, <1>13, <1>14, <1>15, <1>16 DEF Lists, Mounts

\* Rising(S) lists the set S.
LEMMA RisingLists ==
    ASSUME NEW S \in SUBSET Nat, IsFiniteSet(S)
    PROVE  Lists(Rising(S), S)
  BY RisingOrder

\* A list read backwards lists the same set.
LEMMA ReverseLists ==
    ASSUME NEW S, NEW q, Lists(q, S)
    PROVE  Lists(Reverse(q), S)
  <1> DEFINE n == Len(q)
  <1>1. n \in Nat /\ DOMAIN q = 1 .. n /\ q \in Seq(S)
    BY DEF Lists
  <1>2. \A j \in 1 .. n : (n - j) + 1 \in 1 .. n
    BY <1>1
  <1>3. Reverse(q) = [j \in 1 .. n |-> q[(n - j) + 1]]
    BY DEF Reverse
  <1>4. Reverse(q) \in [1 .. n -> S]
    <2>1. \A j \in 1 .. n : q[(n - j) + 1] \in S
      BY <1>1, <1>2
    <2> QED  BY <1>3, <2>1
  <1>5. Reverse(q) \in Seq(S) /\ Len(Reverse(q)) = n /\ DOMAIN Reverse(q) = 1 .. n
    BY <1>1, <1>4
  <1>6. \A j \in 1 .. n : Reverse(q)[j] = q[(n - j) + 1]
    BY <1>3
  <1>7. ASSUME NEW k \in 1 .. n, NEW l \in 1 .. n, Reverse(q)[k] = Reverse(q)[l] PROVE k = l
    <2>1. (n - k) + 1 = (n - l) + 1
      <3>1. q[(n - k) + 1] = q[(n - l) + 1]
        BY <1>6, <1>7
      <3>2. (n - k) + 1 \in DOMAIN q /\ (n - l) + 1 \in DOMAIN q
        BY <1>1, <1>2
      <3> QED  BY <3>1, <3>2 DEF Lists
    <2> QED  BY <1>1, <2>1
  <1>8. ASSUME NEW i \in S PROVE \E k \in 1 .. n : Reverse(q)[k] = i
    <2>1. PICK k \in 1 .. n : q[k] = i
      BY <1>1 DEF Lists
    <2>2. (n - k) + 1 \in 1 .. n /\ (n - ((n - k) + 1)) + 1 = k
      BY <1>1
    <2> QED  BY <1>6, <2>1, <2>2
  <1> QED  BY <1>1, <1>5, <1>7, <1>8 DEF Lists

\* Outward lists a set of levels, from the boundary away.
LEMMA OutwardLists ==
    ASSUME NEW S \in SUBSET Nat, IsFiniteSet(S), NEW side
    PROVE  Lists(Outward(side, S), S)
  BY RisingLists, ReverseLists DEF Outward, Falling

\* Picked(q, K) takes the elements of q at the positions K, each once.
LEMMA PickedElements ==
    ASSUME NEW q, NEW K \in SUBSET Nat, IsFiniteSet(K)
    PROVE  \E at : /\ Lists(at, K) /\ DOMAIN Picked(q, K) = DOMAIN at
                   /\ Len(Picked(q, K)) = Len(at) /\ Len(at) \in Nat
                   /\ DOMAIN at = 1 .. Len(at)
                   /\ \A k \in DOMAIN at : at[k] \in K /\ Picked(q, K)[k] = q[at[k]]
  <1>1. Lists(Rising(K), K)
    BY RisingLists
  <1> DEFINE at == Rising(K)
             n == Len(at)
  <1>2. n \in Nat /\ DOMAIN at = 1 .. n
    BY <1>1 DEF Lists
  <1>3. Picked(q, K) = [k \in 1 .. n |-> q[at[k]]]
    BY <1>2 DEF Picked
  <1>4. \A k \in 1 .. n : at[k] \in K
    BY <1>1, <1>2 DEF Lists
  <1> HIDE DEF at
  <1>5. DOMAIN Picked(q, K) = 1 .. n /\ Len(Picked(q, K)) = n
    BY <1>2, <1>3
  <1>6. \A k \in 1 .. n : Picked(q, K)[k] = q[at[k]]
    BY <1>3
  <1>7. Lists(at, K)
    BY <1>1 DEF at
  <1> QED  BY <1>2, <1>4, <1>5, <1>6, <1>7

-----------------------------------------------------------------------------
\* A plan is a list of actions sound for the boundary it aims at, with no slot touched twice.

\* What the grid says of a slot: its type, and whether it holds a whole order, a part of one or none.
SlotTypes == {"buy", "sell", "spread"}
Holdings == {"no", "whole", "part"}
\* The types of a grid: an order has a side.
GridOK(ty, pl) ==
    /\ ty \in [Levels -> SlotTypes] /\ pl \in [Levels -> Holdings]
    /\ \A i \in Levels : pl[i] # "no" => ty[i] \in Sides

\* The types of an action.
Kinds == {"cancel", "create", "move"}
Action == [kind : Kinds, side : Sides, at : Levels, to : Levels]

\* An operation takes away an order of the grid, and places one where the grid has none of
\* its side.
Removable(ty, pl, a) == Removes(a) => pl[a.at] # "no" /\ ty[a.at] = a.side
Placeable(ty, pl, a) == Places(a) => pl[a.to] = "no" \/ ty[a.to] # a.side
\* No two operations place at the same slot, no two take the order of the same slot.
Distinct(ops) ==
    /\ \A k, l \in DOMAIN ops : Places(ops[k]) /\ Places(ops[l]) /\ ops[k].to = ops[l].to => k = l
    /\ \A k, l \in DOMAIN ops : Removes(ops[k]) /\ Removes(ops[l]) /\ ops[k].at = ops[l].at => k = l

\* A plan for boundary b places every order in its rail.
Sound(b, a) ==
    /\ a \in Action /\ (a.kind # "move" => a.to = a.at)
    /\ Removable(type, placed, a) /\ Placeable(type, placed, a)
    /\ Places(a) => InRail(a.side, b, a.to)
\* A plan of boundary b: every action is sound for it and no slot is touched twice.
PlanOK(b, p) == p \in Seq(Action) /\ (\A k \in DOMAIN p : Sound(b, p[k])) /\ Distinct(p)

\* The slots a plan places at, and those whose order it takes.
Tos(p) == {p[k].to : k \in {k \in DOMAIN p : Places(p[k])}}
Ats(p) == {p[k].at : k \in {k \in DOMAIN p : Removes(p[k])}}
\* Two plans that touch different slots, and what both of them do.
Separate(p, q) == Tos(p) \cap Tos(q) = {} /\ Ats(p) \cap Ats(q) = {}
\* The plan r does what p and q do.
Joined(b, p, q, r) ==
    PlanOK(b, r) /\ Tos(r) = Tos(p) \cup Tos(q) /\ Ats(r) = Ats(p) \cup Ats(q)
\* The creates of the slots q, and the moves of the first n slots of one list to another.
Creates(side, q) == [k \in DOMAIN q |-> CreateAct(side, q[k])]
Moves(side, from, to, n) == [k \in 1 .. n |-> MoveAct(side, from[k], to[k])]

-----------------------------------------------------------------------------
\* The empty plan touches no slot.
LEMMA EmptyPlan ==
    ASSUME NEW b PROVE PlanOK(b, <<>>) /\ Tos(<<>>) = {} /\ Ats(<<>>) = {}
  BY DEF PlanOK, Distinct, Tos, Ats

\* Two plans that touch different slots are a plan.
LEMMA ConcatPlan ==
    ASSUME NEW b, NEW p, NEW q, PlanOK(b, p), PlanOK(b, q), Separate(p, q)
    PROVE  Joined(b, p, q, p \o q)
  <1> DEFINE r == p \o q
             m == Len(p)
             n == Len(q)
  <1>0. Tos(p) \cap Tos(q) = {} /\ Ats(p) \cap Ats(q) = {}
    BY DEF Separate
  <1>1. p \in Seq(Action) /\ q \in Seq(Action)
    BY DEF PlanOK
  <1>2. m \in Nat /\ n \in Nat /\ DOMAIN p = 1 .. m /\ DOMAIN q = 1 .. n
    BY <1>1
  <1>3. /\ r \in Seq(Action) /\ Len(r) = m + n
        /\ \A k \in 1 .. (m + n) : r[k] = IF k <= m THEN p[k] ELSE q[k - m]
    BY <1>1, ConcatProperties
  <1>4. DOMAIN r = 1 .. (m + n)
    BY <1>3
  <1> HIDE DEF r, m, n
  <1>5. ASSUME NEW k \in 1 .. (m + n)
        PROVE  \/ k \in 1 .. m /\ r[k] = p[k]
               \/ k - m \in 1 .. n /\ r[k] = q[k - m] /\ ~(k \in 1 .. m)
    <2>1. CASE k <= m
      BY <1>2, <1>3, <2>1
    <2>2. CASE ~(k <= m)
      <3>1. k - m \in 1 .. n
        BY <1>2, <2>2
      <3> QED  BY <1>2, <1>3, <2>2, <3>1
    <2> QED  BY <2>1, <2>2
  <1>6. \A k \in 1 .. m : k \in 1 .. (m + n) /\ r[k] = p[k]
    BY <1>2, <1>3
  <1>7. ASSUME NEW k \in 1 .. n PROVE m + k \in 1 .. (m + n) /\ r[m + k] = q[k]
    <2>1. m + k \in 1 .. (m + n) /\ ~(m + k <= m) /\ (m + k) - m = k
      BY <1>2
    <2> QED  BY <1>3, <2>1
  <1>8. \A k \in 1 .. (m + n) : Sound(b, r[k])
    <2>1. \A k \in 1 .. m : Sound(b, p[k])
      BY <1>2 DEF PlanOK
    <2>2. \A k \in 1 .. n : Sound(b, q[k])
      BY <1>2 DEF PlanOK
    <2> QED  BY <1>5, <2>1, <2>2
  <1>9. ASSUME NEW k \in 1 .. (m + n), NEW l \in 1 .. (m + n),
               Places(r[k]), Places(r[l]), r[k].to = r[l].to
        PROVE  k = l
    <2>1. \A j \in 1 .. m : Places(p[j]) => p[j].to \in Tos(p)
      BY <1>2 DEF Tos
    <2>2. \A j \in 1 .. n : Places(q[j]) => q[j].to \in Tos(q)
      BY <1>2 DEF Tos
    <2>3. CASE k \in 1 .. m /\ l \in 1 .. m
      <3>1. r[k] = p[k] /\ r[l] = p[l]
        BY <1>6, <2>3
      <3> QED  BY <1>2, <1>9, <2>3, <3>1 DEF PlanOK, Distinct
    <2>4. CASE ~(k \in 1 .. m) /\ ~(l \in 1 .. m)
      <3>1. r[k] = q[k - m] /\ r[l] = q[l - m] /\ k - m \in 1 .. n /\ l - m \in 1 .. n
        BY <1>5, <2>4
      <3>2. k - m = l - m
        BY <1>2, <1>9, <3>1 DEF PlanOK, Distinct
      <3> QED  BY <1>2, <3>2
    <2>5. CASE k \in 1 .. m /\ ~(l \in 1 .. m)
      <3>1. r[k] = p[k] /\ r[l] = q[l - m] /\ l - m \in 1 .. n
        BY <1>5, <1>6, <2>5
      <3> QED  BY <1>0, <1>9, <2>1, <2>2, <2>5, <3>1
    <2>6. CASE ~(k \in 1 .. m) /\ l \in 1 .. m
      <3>1. r[l] = p[l] /\ r[k] = q[k - m] /\ k - m \in 1 .. n
        BY <1>5, <1>6, <2>6
      <3> QED  BY <1>0, <1>9, <2>1, <2>2, <2>6, <3>1
    <2> QED  BY <2>3, <2>4, <2>5, <2>6
  <1>10. ASSUME NEW k \in 1 .. (m + n), NEW l \in 1 .. (m + n),
                Removes(r[k]), Removes(r[l]), r[k].at = r[l].at
         PROVE  k = l
    <2>1. \A j \in 1 .. m : Removes(p[j]) => p[j].at \in Ats(p)
      BY <1>2 DEF Ats
    <2>2. \A j \in 1 .. n : Removes(q[j]) => q[j].at \in Ats(q)
      BY <1>2 DEF Ats
    <2>3. CASE k \in 1 .. m /\ l \in 1 .. m
      <3>1. r[k] = p[k] /\ r[l] = p[l]
        BY <1>6, <2>3
      <3> QED  BY <1>2, <1>10, <2>3, <3>1 DEF PlanOK, Distinct
    <2>4. CASE ~(k \in 1 .. m) /\ ~(l \in 1 .. m)
      <3>1. r[k] = q[k - m] /\ r[l] = q[l - m] /\ k - m \in 1 .. n /\ l - m \in 1 .. n
        BY <1>5, <2>4
      <3>2. k - m = l - m
        BY <1>2, <1>10, <3>1 DEF PlanOK, Distinct
      <3> QED  BY <1>2, <3>2
    <2>5. CASE k \in 1 .. m /\ ~(l \in 1 .. m)
      <3>1. r[k] = p[k] /\ r[l] = q[l - m] /\ l - m \in 1 .. n
        BY <1>5, <1>6, <2>5
      <3> QED  BY <1>0, <1>10, <2>1, <2>2, <2>5, <3>1
    <2>6. CASE ~(k \in 1 .. m) /\ l \in 1 .. m
      <3>1. r[l] = p[l] /\ r[k] = q[k - m] /\ k - m \in 1 .. n
        BY <1>5, <1>6, <2>6
      <3> QED  BY <1>0, <1>10, <2>1, <2>2, <2>6, <3>1
    <2> QED  BY <2>3, <2>4, <2>5, <2>6
  <1>11. PlanOK(b, r)
    BY <1>3, <1>4, <1>8, <1>9, <1>10 DEF PlanOK, Distinct
  <1>12. \A x : x \in Tos(r) <=> x \in Tos(p) \/ x \in Tos(q)
    <2>1. \A x : x \in Tos(r) <=> \E k \in 1 .. (m + n) : Places(r[k]) /\ r[k].to = x
      BY <1>4 DEF Tos
    <2>2. \A x : x \in Tos(p) <=> \E k \in 1 .. m : Places(p[k]) /\ p[k].to = x
      BY <1>2 DEF Tos
    <2>3. \A x : x \in Tos(q) <=> \E k \in 1 .. n : Places(q[k]) /\ q[k].to = x
      BY <1>2 DEF Tos
    <2>4. ASSUME NEW x, x \in Tos(r) PROVE x \in Tos(p) \/ x \in Tos(q)
      BY <1>5, <2>1, <2>2, <2>3, <2>4
    <2>5. ASSUME NEW x, x \in Tos(p) PROVE x \in Tos(r)
      BY <1>6, <2>1, <2>2, <2>5
    <2>6. ASSUME NEW x, x \in Tos(q) PROVE x \in Tos(r)
      BY <1>7, <2>1, <2>3, <2>6
    <2> QED  BY <2>4, <2>5, <2>6
  <1>13. \A x : x \in Ats(r) <=> x \in Ats(p) \/ x \in Ats(q)
    <2>1. \A x : x \in Ats(r) <=> \E k \in 1 .. (m + n) : Removes(r[k]) /\ r[k].at = x
      BY <1>4 DEF Ats
    <2>2. \A x : x \in Ats(p) <=> \E k \in 1 .. m : Removes(p[k]) /\ p[k].at = x
      BY <1>2 DEF Ats
    <2>3. \A x : x \in Ats(q) <=> \E k \in 1 .. n : Removes(q[k]) /\ q[k].at = x
      BY <1>2 DEF Ats
    <2>4. ASSUME NEW x, x \in Ats(r) PROVE x \in Ats(p) \/ x \in Ats(q)
      BY <1>5, <2>1, <2>2, <2>3, <2>4
    <2>5. ASSUME NEW x, x \in Ats(p) PROVE x \in Ats(r)
      BY <1>6, <2>1, <2>2, <2>5
    <2>6. ASSUME NEW x, x \in Ats(q) PROVE x \in Ats(r)
      BY <1>7, <2>1, <2>3, <2>6
    <2> QED  BY <2>4, <2>5, <2>6
  <1>14. Tos(r) = Tos(p) \cup Tos(q) /\ Ats(r) = Ats(p) \cup Ats(q)
    BY <1>12, <1>13
  <1> QED  BY <1>11, <1>14 DEF r, Joined

-----------------------------------------------------------------------------
\* The cancels of some slots that hold orders are a plan, and so are the creates of slots
\* of a rail that hold none of its side.
LEMMA CancelsPlan ==
    ASSUME GridOK(type, placed), NEW b, NEW S \in SUBSET Levels, NEW q, Lists(q, S),
           \A i \in S : placed[i] # "no"
    PROVE  /\ PlanOK(b, Each(CancelAct, q))
           /\ Tos(Each(CancelAct, q)) = {} /\ Ats(Each(CancelAct, q)) = S
  <1> DEFINE n == Len(q)
             p == Each(CancelAct, q)
  <1>1. n \in Nat /\ DOMAIN q = 1 .. n /\ \A k \in 1 .. n : q[k] \in S
    BY DEF Lists
  <1>2. p = [k \in 1 .. n |-> CancelAct(q[k])]
    BY <1>1 DEF Each
  <1>3. \A i \in S : CancelAct(i) \in Action /\ CancelAct(i).kind = "cancel" /\ CancelAct(i).at = i
                     /\ CancelAct(i).to = i /\ CancelAct(i).side = type[i]
    BY DEF CancelAct, Act, Action, Kinds, GridOK
  <1> HIDE DEF p
  <1>4. DOMAIN p = 1 .. n /\ (\A k \in 1 .. n : p[k] = CancelAct(q[k])) /\ p \in Seq(Action)
    <2>1. p \in [1 .. n -> Action]
      BY <1>1, <1>2, <1>3
    <2> QED  BY <1>1, <1>2, <2>1
  <1>5. \A k \in 1 .. n : p[k] \in Action /\ p[k].kind = "cancel" /\ p[k].at = q[k] /\ p[k].to = q[k]
                          /\ p[k].side = type[q[k]]
    BY <1>1, <1>3, <1>4
  <1>6. \A k \in 1 .. n : Removes(p[k]) /\ ~Places(p[k])
    BY <1>5 DEF Removes, Places
  <1>7. \A k \in 1 .. n : Sound(b, p[k])
    BY <1>1, <1>5, <1>6 DEF Sound, Removable, Placeable
  <1>8. Distinct(p)
    BY <1>1, <1>4, <1>5, <1>6 DEF Distinct, Lists
  <1>9. Tos(p) = {}
    BY <1>4, <1>6 DEF Tos
  <1>10. Ats(p) = S
    <2>1. \A x : x \in Ats(p) <=> \E k \in 1 .. n : q[k] = x
      BY <1>4, <1>5, <1>6 DEF Ats
    <2>2. \A x \in S : \E k \in 1 .. n : q[k] = x
      BY <1>1 DEF Lists
    <2>3. \A x : x \in Ats(p) <=> x \in S
      BY <1>1, <2>1, <2>2
    <2> QED  BY <2>3, Zenon
  <1> QED  BY <1>4, <1>7, <1>8, <1>9, <1>10 DEF PlanOK, p

\* Creates on empty slots of the rail of their side are a plan that takes no order.
LEMMA CreatesPlan ==
    ASSUME NEW b, NEW side \in Sides, NEW S \in SUBSET Levels, NEW q, Lists(q, S),
           \A i \in S : InRail(side, b, i) /\ placed[i] = "no"
    PROVE  /\ PlanOK(b, Creates(side, q))
           /\ Tos(Creates(side, q)) = S /\ Ats(Creates(side, q)) = {}
  <1> DEFINE n == Len(q)
             p == Creates(side, q)
  <1>1. n \in Nat /\ DOMAIN q = 1 .. n /\ \A k \in 1 .. n : q[k] \in S
    BY DEF Lists
  <1>2. p = [k \in 1 .. n |-> CreateAct(side, q[k])]
    BY <1>1 DEF Creates
  <1>3. \A i \in S : CreateAct(side, i) \in Action /\ CreateAct(side, i).kind = "create"
                     /\ CreateAct(side, i).at = i /\ CreateAct(side, i).to = i
                     /\ CreateAct(side, i).side = side
    BY DEF CreateAct, Act, Action, Kinds
  <1> HIDE DEF p
  <1>4. DOMAIN p = 1 .. n /\ (\A k \in 1 .. n : p[k] = CreateAct(side, q[k])) /\ p \in Seq(Action)
    <2>1. p \in [1 .. n -> Action]
      BY <1>1, <1>2, <1>3
    <2> QED  BY <1>1, <1>2, <2>1
  <1>5. \A k \in 1 .. n : p[k] \in Action /\ p[k].kind = "create" /\ p[k].at = q[k] /\ p[k].to = q[k]
                          /\ p[k].side = side
    BY <1>1, <1>3, <1>4
  <1>6. \A k \in 1 .. n : ~Removes(p[k]) /\ Places(p[k])
    BY <1>5 DEF Removes, Places
  <1>7. \A k \in 1 .. n : Sound(b, p[k])
    BY <1>1, <1>5, <1>6 DEF Sound, Removable, Placeable
  <1>8. Distinct(p)
    BY <1>1, <1>4, <1>5, <1>6 DEF Distinct, Lists
  <1>9. Ats(p) = {}
    BY <1>4, <1>6 DEF Ats
  <1>10. Tos(p) = S
    <2>1. \A x : x \in Tos(p) <=> \E k \in 1 .. n : q[k] = x
      BY <1>4, <1>5, <1>6 DEF Tos
    <2>2. \A x \in S : \E k \in 1 .. n : q[k] = x
      BY <1>1 DEF Lists
    <2>3. \A x : x \in Tos(p) <=> x \in S
      BY <1>1, <2>1, <2>2
    <2> QED  BY <2>3, Zenon
  <1>11. PlanOK(b, p) /\ Tos(p) = S /\ Ats(p) = {}
    BY <1>4, <1>7, <1>8, <1>9, <1>10 DEF PlanOK
  <1> QED  BY <1>11 DEF p

-----------------------------------------------------------------------------
\* Parts of lists, and the first part of a reconcile.

\* Two lists of disjoint sets, one after the other, list the union.
LEMMA ConcatLists ==
    ASSUME NEW S, NEW T, NEW p, NEW q, Lists(p, S), Lists(q, T), S \cap T = {}
    PROVE  Lists(p \o q, S \cup T)
  <1> DEFINE U == S \cup T
             r == p \o q
             m == Len(p)
             n == Len(q)
  <1>1. /\ m \in Nat /\ n \in Nat /\ DOMAIN p = 1 .. m /\ DOMAIN q = 1 .. n
        /\ p \in Seq(S) /\ q \in Seq(T)
    BY DEF Lists
  <1>2. p \in Seq(U) /\ q \in Seq(U)
    BY <1>1
  <1>3. /\ r \in Seq(U) /\ Len(r) = m + n
        /\ \A k \in 1 .. (m + n) : r[k] = IF k <= m THEN p[k] ELSE q[k - m]
    BY <1>2, ConcatProperties
  <1>4. DOMAIN r = 1 .. (m + n)
    BY <1>3
  <1>5. (\A k \in 1 .. m : p[k] \in S) /\ \A k \in 1 .. n : q[k] \in T
    BY <1>1
  <1>a. (\A k, l \in 1 .. m : p[k] = p[l] => k = l) /\ \A k, l \in 1 .. n : q[k] = q[l] => k = l
    BY <1>1 DEF Lists
  <1>b. (\A i \in S : \E k \in 1 .. m : p[k] = i) /\ \A i \in T : \E k \in 1 .. n : q[k] = i
    BY <1>1 DEF Lists
  <1> HIDE DEF r, m, n
  <1>6. ASSUME NEW k \in 1 .. (m + n)
        PROVE  \/ k \in 1 .. m /\ r[k] = p[k]
               \/ k - m \in 1 .. n /\ r[k] = q[k - m] /\ ~(k \in 1 .. m)
    <2>1. CASE k <= m
      BY <1>1, <1>3, <2>1
    <2>2. CASE ~(k <= m)
      <3>1. k - m \in 1 .. n
        BY <1>1, <2>2
      <3> QED  BY <1>1, <1>3, <2>2, <3>1
    <2> QED  BY <2>1, <2>2
  <1>7. ASSUME NEW k \in 1 .. (m + n), NEW l \in 1 .. (m + n), r[k] = r[l]
        PROVE  k = l
    <2>1. CASE k \in 1 .. m /\ l \in 1 .. m
      BY <1>6, <1>7, <1>a, <2>1
    <2>2. CASE ~(k \in 1 .. m) /\ ~(l \in 1 .. m)
      <3>1. k - m = l - m
        BY <1>6, <1>7, <1>a, <2>2
      <3> QED  BY <1>1, <3>1
    <2>3. CASE ~((k \in 1 .. m) <=> (l \in 1 .. m))
      BY <1>5, <1>6, <1>7, <2>3
    <2> QED  BY <2>1, <2>2, <2>3
  <1>8. ASSUME NEW i \in U PROVE \E k \in 1 .. (m + n) : r[k] = i
    <2>1. CASE i \in S
      <3>1. PICK k \in 1 .. m : p[k] = i
        BY <1>b, <2>1
      <3>2. k \in 1 .. (m + n) /\ r[k] = p[k]
        BY <1>1, <1>3
      <3> QED  BY <3>1, <3>2
    <2>2. CASE i \in T
      <3>1. PICK k \in 1 .. n : q[k] = i
        BY <1>b, <2>2
      <3>2. m + k \in 1 .. (m + n) /\ ~(m + k <= m) /\ (m + k) - m = k
        BY <1>1
      <3>3. r[m + k] = q[k]
        BY <1>3, <3>2
      <3> QED  BY <3>1, <3>2, <3>3
    <2> QED  BY <2>1, <2>2
  <1>9. Len(r) \in Nat
    BY <1>1, <1>3
  <1> QED  BY <1>3, <1>4, <1>7, <1>8, <1>9 DEF Lists, r

\* The first n elements of a list, and the others.
Heads(q, n) == {q[k] : k \in 1 .. n}
\* The elements after the first n.
Rest(q, n) == SubSeq(q, n + 1, Len(q))

\* What is left of a list after its first n elements lists the other elements.
LEMMA RestLists ==
    ASSUME NEW S, NEW q, Lists(q, S), NEW n \in Nat, n <= Len(q)
    PROVE  Lists(Rest(q, n), S \ Heads(q, n)) /\ Heads(q, n) \subseteq S
  <1> USE DEF Heads, Rest
  <1> DEFINE H == {q[k] : k \in 1 .. n}
             rest == SubSeq(q, n + 1, Len(q))
             m == Len(q) - n
  <1>1. Len(q) \in Nat /\ DOMAIN q = 1 .. Len(q) /\ q \in Seq(S)
    BY DEF Lists
  <1>2. m \in Nat /\ \A k \in 1 .. m : n + k \in 1 .. Len(q) /\ ~(n + k \in 1 .. n)
    BY <1>1
  <1>3. rest \in Seq(S) /\ Len(rest) = m /\ \A k \in 1 .. m : rest[k] = q[n + k]
    BY <1>1, Drop
  <1>4. (\A k \in 1 .. Len(q) : q[k] \in S) /\ \A k, l \in 1 .. Len(q) : q[k] = q[l] => k = l
    BY <1>1 DEF Lists
  <1>5. \A k \in 1 .. n : k \in 1 .. Len(q)
    BY <1>1
  <1>6. H \subseteq S
    BY <1>4, <1>5
  <1> HIDE DEF m, rest
  <1>7. ASSUME NEW k \in 1 .. m PROVE rest[k] \in S \ H
    <2>1. rest[k] = q[n + k] /\ n + k \in 1 .. Len(q)
      BY <1>2, <1>3
    <2>2. ASSUME NEW l \in 1 .. n, q[l] = q[n + k] PROVE FALSE
      <3>1. l = n + k
        BY <1>4, <1>5, <2>1, <2>2
      <3> QED  BY <1>2, <3>1
    <2> QED  BY <1>4, <2>1, <2>2
  <1>8. rest \in Seq(S \ H) /\ DOMAIN rest = 1 .. m
    <2>1. rest \in [1 .. m -> S]
      BY <1>3
    <2>2. rest \in [1 .. m -> S \ H]
      BY <1>7, <2>1
    <2> QED  BY <1>2, <2>2
  <1>9. ASSUME NEW k \in 1 .. m, NEW l \in 1 .. m, rest[k] = rest[l] PROVE k = l
    <2>1. n + k = n + l
      BY <1>2, <1>3, <1>4, <1>9
    <2> QED  BY <2>1
  <1>10. ASSUME NEW i \in S \ H PROVE \E k \in 1 .. m : rest[k] = i
    <2>1. PICK k \in 1 .. Len(q) : q[k] = i
      BY <1>1 DEF Lists
    <2>2. ~(k \in 1 .. n)
      BY <1>10, <2>1
    <2>3. k - n \in 1 .. m /\ n + (k - n) = k
      BY <1>1, <2>2 DEF m
    <2> QED  BY <1>3, <2>1, <2>3
  <1>11. Lists(rest, S \ H)
    BY <1>2, <1>3, <1>8, <1>9, <1>10 DEF Lists
  <1> QED  BY <1>6, <1>11 DEF rest

-----------------------------------------------------------------------------
\* The slots of a rail have its role.
LEMMA WindowRoles ==
    ASSUME NEW b \in Int, NEW side \in Sides, NEW i \in WindowOf(side, b)
    PROVE  i \in Levels /\ InRail(side, b, i) /\ Role(b, i) = side /\ RoleOf(b, i) = side
  <1>1. i \in Levels /\ InRail(side, b, i)
    BY DEF WindowOf, InRail, Sides
  <1>2. i \in Nat /\ Gap \in Nat
    BY <1>1, Constants
  <1>3. Role(b, i) = side
    BY <1>1, <1>2 DEF Role, InRail, SellStart, Sides
  <1> QED  BY <1>1, <1>3 DEF RoleOf, Sides

\* A slot of the buy rail is below every slot of the sell rail.
LEMMA RailsApart ==
    ASSUME NEW b \in Int, NEW i \in Levels, NEW j \in Levels, InRail("buy", b, i), InRail("sell", b, j)
    PROVE  i < j
  <1>1. i \in Nat /\ j \in Nat /\ Gap \in Nat
    BY Constants
  <1> QED  BY <1>1 DEF InRail, SellStart

\* No slot is in the windows of both sides.
LEMMA WindowsApart ==
    ASSUME NEW b \in Int PROVE WindowOf("buy", b) \cap WindowOf("sell", b) = {}
  <1> SUFFICES ASSUME NEW i \in WindowOf("buy", b), i \in WindowOf("sell", b) PROVE FALSE
    OBVIOUS
  <1>1. i \in Levels /\ InRail("buy", b, i) /\ InRail("sell", b, i)
    BY WindowRoles DEF Sides
  <1>2. i < i /\ i \in Nat
    BY <1>1, RailsApart, Constants
  <1> QED  BY <1>2

\* Cancelling orders of the wrong type and creating them again with their role is a plan on those slots.
LEMMA AgainPlan ==
    ASSUME GridOK(type, placed), NEW b \in Int, NEW S \in SUBSET Mismatched(b), NEW q, Lists(q, S),
           \A i \in S : RoleOf(b, i) \in Sides /\ InRail(RoleOf(b, i), b, i)
    PROVE  PlanOK(b, Again(b, q)) /\ Tos(Again(b, q)) = S /\ Ats(Again(b, q)) = S
  <1> DEFINE n == Len(q)
             p == Again(b, q)
             h(k) == (k + 1) \div 2
  <1>1. n \in Nat /\ DOMAIN q = 1 .. n /\ \A k \in 1 .. n : q[k] \in S
    BY DEF Lists
  <1>2. \A i \in S : i \in Levels /\ placed[i] # "no" /\ type[i] # RoleOf(b, i)
    BY DEF Mismatched
  <1>3. \A k \in 1 .. 2 * n : h(k) \in 1 .. n
    BY <1>1
  <1>4. \A k, l \in 1 .. 2 * n : (k % 2 = 1 <=> l % 2 = 1) /\ h(k) = h(l) => k = l
    BY <1>1
  <1>5. \A j \in 1 .. n : /\ 2 * j \in 1 .. 2 * n /\ h(2 * j) = j /\ (2 * j) % 2 # 1
                          /\ 2 * j - 1 \in 1 .. 2 * n /\ h(2 * j - 1) = j /\ (2 * j - 1) % 2 = 1
    BY <1>1
  <1>6. p = [k \in 1 .. 2 * n |-> IF k % 2 = 1 THEN CancelAct(q[h(k)]) ELSE CreateAct(RoleOf(b, q[h(k)]), q[h(k)])]
    BY DEF Again
  <1> HIDE DEF p, h
  <1>7. \A i \in S : /\ CancelAct(i) \in Action /\ CancelAct(i).kind = "cancel" /\ CancelAct(i).at = i
                     /\ CancelAct(i).to = i /\ CancelAct(i).side = type[i]
    BY <1>2 DEF CancelAct, Act, Action, Kinds, GridOK
  <1>8. \A i \in S : LET a == CreateAct(RoleOf(b, i), i)
                     IN a \in Action /\ a.kind = "create" /\ a.at = i /\ a.to = i /\ a.side = RoleOf(b, i)
    BY <1>2 DEF CreateAct, Act, Action, Kinds
  <1>9. ASSUME NEW k \in 1 .. 2 * n, k % 2 = 1
        PROVE  /\ p[k] \in Action /\ p[k].kind = "cancel" /\ p[k].at = q[h(k)] /\ p[k].to = q[h(k)]
               /\ p[k].side = type[q[h(k)]] /\ Removes(p[k]) /\ ~Places(p[k])
    <2>1. p[k] = CancelAct(q[h(k)]) /\ q[h(k)] \in S
      BY <1>1, <1>3, <1>6, <1>9
    <2> QED  BY <1>7, <2>1 DEF Removes, Places
  <1>10. ASSUME NEW k \in 1 .. 2 * n, k % 2 # 1
         PROVE  /\ p[k] \in Action /\ p[k].kind = "create" /\ p[k].at = q[h(k)] /\ p[k].to = q[h(k)]
                /\ p[k].side = RoleOf(b, q[h(k)]) /\ ~Removes(p[k]) /\ Places(p[k])
    <2>1. p[k] = CreateAct(RoleOf(b, q[h(k)]), q[h(k)]) /\ q[h(k)] \in S
      BY <1>1, <1>3, <1>6, <1>10
    <2> QED  BY <1>8, <2>1 DEF Removes, Places
  <1>11. p \in Seq(Action) /\ DOMAIN p = 1 .. 2 * n
    <2>1. DOMAIN p = 1 .. 2 * n
      BY <1>6
    <2>2. \A k \in 1 .. 2 * n : p[k] \in Action
      BY <1>9, <1>10
    <2>3. p \in [1 .. 2 * n -> Action]
      BY <1>6, <2>2
    <2>4. 2 * n \in Nat
      BY <1>1
    <2> QED  BY <2>1, <2>3, <2>4
  <1>12. ASSUME NEW k \in 1 .. 2 * n PROVE Sound(b, p[k])
    <2>1. q[h(k)] \in S
      BY <1>1, <1>3
    <2>2. CASE k % 2 = 1
      BY <1>2, <1>9, <2>1, <2>2 DEF Sound, Removable, Placeable
    <2>3. CASE k % 2 # 1
      BY <1>2, <1>10, <2>1, <2>3 DEF Sound, Removable, Placeable
    <2> QED  BY <2>2, <2>3
  <1>13. Distinct(p)
    <2>1. \A k, l \in 1 .. n : q[k] = q[l] => k = l
      BY <1>1 DEF Lists
    <2>2. ASSUME NEW k \in 1 .. 2 * n, NEW l \in 1 .. 2 * n, Places(p[k]), Places(p[l]), p[k].to = p[l].to
          PROVE  k = l
      <3>1. k % 2 # 1 /\ l % 2 # 1
        BY <1>9, <2>2
      <3>2. q[h(k)] = q[h(l)]
        BY <1>10, <2>2, <3>1
      <3>3. h(k) = h(l)
        BY <1>3, <2>1, <3>2
      <3> QED  BY <1>4, <3>1, <3>3
    <2>3. ASSUME NEW k \in 1 .. 2 * n, NEW l \in 1 .. 2 * n, Removes(p[k]), Removes(p[l]), p[k].at = p[l].at
          PROVE  k = l
      <3>1. k % 2 = 1 /\ l % 2 = 1
        BY <1>10, <2>3
      <3>2. q[h(k)] = q[h(l)]
        BY <1>9, <2>3, <3>1
      <3>3. h(k) = h(l)
        BY <1>3, <2>1, <3>2
      <3> QED  BY <1>4, <3>1, <3>3
    <2> QED  BY <1>11, <2>2, <2>3 DEF Distinct
  <1>14. \A i \in S : \E j \in 1 .. n : q[j] = i
    BY <1>1 DEF Lists
  <1>15. \A x : x \in Tos(p) <=> x \in S
    <2>1. \A x : x \in Tos(p) <=> \E k \in 1 .. 2 * n : Places(p[k]) /\ p[k].to = x
      BY <1>11 DEF Tos
    <2>2. ASSUME NEW x \in S PROVE x \in Tos(p)
      <3>1. PICK j \in 1 .. n : q[j] = x
        BY <1>14
      <3>2. 2 * j \in 1 .. 2 * n /\ Places(p[2 * j]) /\ p[2 * j].to = x
        BY <1>5, <1>10, <3>1
      <3> QED  BY <2>1, <3>2
    <2>3. ASSUME NEW x \in Tos(p) PROVE x \in S
      <3>1. PICK k \in 1 .. 2 * n : Places(p[k]) /\ p[k].to = x
        BY <2>1
      <3> QED  BY <1>1, <1>3, <1>9, <1>10, <3>1
    <2> QED  BY <2>2, <2>3
  <1>16. \A x : x \in Ats(p) <=> x \in S
    <2>1. \A x : x \in Ats(p) <=> \E k \in 1 .. 2 * n : Removes(p[k]) /\ p[k].at = x
      BY <1>11 DEF Ats
    <2>2. ASSUME NEW x \in S PROVE x \in Ats(p)
      <3>1. PICK j \in 1 .. n : q[j] = x
        BY <1>14
      <3>2. 2 * j - 1 \in 1 .. 2 * n /\ Removes(p[2 * j - 1]) /\ p[2 * j - 1].at = x
        BY <1>5, <1>9, <3>1
      <3> QED  BY <2>1, <3>2
    <2>3. ASSUME NEW x \in Ats(p) PROVE x \in S
      <3>1. PICK k \in 1 .. 2 * n : Removes(p[k]) /\ p[k].at = x
        BY <2>1
      <3> QED  BY <1>1, <1>3, <1>9, <1>10, <3>1
    <2> QED  BY <2>2, <2>3
  <1>17. Tos(p) = S /\ Ats(p) = S
    BY <1>15, <1>16
  <1>18. PlanOK(b, p)
    BY <1>11, <1>12, <1>13 DEF PlanOK
  <1> QED  BY <1>17, <1>18 DEF p

-----------------------------------------------------------------------------
\* The plan of a reconcile.

\* The first part of a reconcile, the orders whose slot changes its role, is a plan that takes them all.
LEMMA RetypedPlan ==
    ASSUME GridOK(type, placed), NEW b \in Int
    PROVE  /\ PlanOK(b, Retyped(b)) /\ Ats(Retyped(b)) = Mismatched(b)
           /\ Tos(Retyped(b)) \subseteq Mismatched(b)
  <1> DEFINE M == Mismatched(b)
             B == M \cap WindowOf("buy", b)
             S == M \cap WindowOf("sell", b)
             R == M \ WindowSlots(b)
             qb == Outward("buy", B)
             qs == Outward("sell", S)
             again == qb \o qs
  <1>1. M \subseteq Levels /\ \A i \in M : placed[i] # "no"
    BY DEF Mismatched
  <1>2. /\ B \in SUBSET Nat /\ IsFiniteSet(B) /\ S \in SUBSET Nat /\ IsFiniteSet(S)
        /\ R \in SUBSET Nat /\ IsFiniteSet(R)
    BY <1>1, Constants, FS_Subset
  <1>3. Lists(qb, B) /\ Lists(qs, S) /\ Lists(Rising(R), R)
    BY <1>2, OutwardLists, RisingLists
  <1>4. B \cap S = {}
    BY WindowsApart
  <1> HIDE DEF qb, qs
  <1>5. Lists(again, B \cup S)
    BY <1>3, <1>4, ConcatLists
  <1>6. \A i \in B \cup S : RoleOf(b, i) \in Sides /\ InRail(RoleOf(b, i), b, i)
    <2>1. \A i \in B : RoleOf(b, i) = "buy" /\ InRail("buy", b, i)
      BY WindowRoles DEF Sides
    <2>2. \A i \in S : RoleOf(b, i) = "sell" /\ InRail("sell", b, i)
      BY WindowRoles DEF Sides
    <2> QED  BY <2>1, <2>2 DEF Sides
  <1> DEFINE first == Again(b, again)
             rest == Each(CancelAct, Rising(R))
  <1>7. PlanOK(b, first) /\ Tos(first) = B \cup S /\ Ats(first) = B \cup S
    <2>1. B \cup S \in SUBSET Mismatched(b)
      OBVIOUS
    <2> HIDE DEF B, S, again
    <2> QED  BY <1>5, <1>6, <2>1, AgainPlan
  <1>8. PlanOK(b, rest) /\ Tos(rest) = {} /\ Ats(rest) = R
    <2>1. R \in SUBSET Levels /\ \A i \in R : placed[i] # "no"
      BY <1>1
    <2> HIDE DEF R
    <2> QED  BY <1>3, <2>1, CancelsPlan
  <1>9. Retyped(b) = first \o rest
    BY DEF Retyped, qb, qs
  <1>10. R \cap (B \cup S) = {} /\ R \cup (B \cup S) = M
    BY DEF WindowSlots
  <1> HIDE DEF first, rest, R, B, S
  <1>11. PlanOK(b, first \o rest) /\ Tos(first \o rest) = B \cup S /\ Ats(first \o rest) = M
    <2>1. Separate(first, rest)
      BY <1>7, <1>8, <1>10 DEF Separate
    <2>2. Joined(b, first, rest, first \o rest)
      BY <1>7, <1>8, <2>1, ConcatPlan
    <2> QED  BY <1>7, <1>8, <1>10, <2>2 DEF Joined
  <1> QED  BY <1>9, <1>10, <1>11

\* Slots that hold orders of the side, and free slots of its rail.
Own(side, S) == S \subseteq Levels /\ \A i \in S : placed[i] # "no" /\ type[i] = side
Free(side, b, T) == T \subseteq Levels /\ \A i \in T : placed[i] = "no" /\ InRail(side, b, i)

\* Moves of orders of one side to empty slots of its rail are a plan.
LEMMA MovesPlan ==
    ASSUME GridOK(type, placed), NEW b, NEW side \in Sides, NEW n \in Nat,
           NEW S, NEW from, Lists(from, S), n <= Len(from), Own(side, S),
           NEW T, NEW to, Lists(to, T), n <= Len(to), Free(side, b, T)
    PROVE  /\ PlanOK(b, Moves(side, from, to, n))
           /\ Ats(Moves(side, from, to, n)) = Heads(from, n)
           /\ Tos(Moves(side, from, to, n)) = Heads(to, n)
  <1> DEFINE p == [k \in 1 .. n |-> MoveAct(side, from[k], to[k])]
  <1>1. /\ \A k \in 1 .. n : from[k] \in S /\ to[k] \in T
        /\ \A k, l \in 1 .. n : (from[k] = from[l] => k = l) /\ (to[k] = to[l] => k = l)
    <2>1. \A k \in 1 .. n : k \in DOMAIN from /\ k \in DOMAIN to
      BY DEF Lists
    <2>2. (\A k \in DOMAIN from : from[k] \in S) /\ \A k \in DOMAIN to : to[k] \in T
      BY DEF Lists
    <2> QED  BY <2>1, <2>2 DEF Lists
  <1>2. \A k \in 1 .. n : /\ p[k] \in Action /\ p[k].kind = "move" /\ p[k].side = side
                          /\ p[k].at = from[k] /\ p[k].to = to[k] /\ Removes(p[k]) /\ Places(p[k])
    BY <1>1 DEF MoveAct, Act, Action, Kinds, Removes, Places, Own, Free
  <1>3. DOMAIN p = 1 .. n
    OBVIOUS
  <1> HIDE DEF p
  <1>4. p \in Seq(Action)
    <2>1. p \in [1 .. n -> Action]
      <3>1. p = [k \in 1 .. n |-> p[k]]
        BY DEF p
      <3> QED  BY <1>2, <3>1
    <2> QED  BY <2>1
  <1>5. \A k \in 1 .. n : Sound(b, p[k])
    BY <1>1, <1>2 DEF Sound, Removable, Placeable, Own, Free
  <1>6. Distinct(p)
    BY <1>1, <1>2, <1>3 DEF Distinct
  <1>7. Ats(p) = {from[k] : k \in 1 .. n}
    BY <1>2, <1>3 DEF Ats
  <1>8. Tos(p) = {to[k] : k \in 1 .. n}
    BY <1>2, <1>3 DEF Tos
  <1>9. PlanOK(b, p) /\ Ats(p) = {from[k] : k \in 1 .. n} /\ Tos(p) = {to[k] : k \in 1 .. n}
    BY <1>3, <1>4, <1>5, <1>6, <1>7, <1>8 DEF PlanOK
  <1> QED  BY <1>9 DEF p, Moves, Heads

\* The rotations of a side fill its holes and take its surplus, each once.
LEMMA RotationsPlan ==
    ASSUME GridOK(type, placed), NEW b \in Int, NEW side \in Sides
    PROVE  LET p == PairRotations(side, b)
           IN PlanOK(b, p) /\ Tos(p) = Holes(side, b) /\ Ats(p) = Surplus(side, b)
  <1> DEFINE S == Surplus(side, b)
             T == Holes(side, b)
             from == Rising(S)
             to == IF from = <<>> THEN Outward(side, T) ELSE Rising(T)
             n == AtMost(Len(from), Len(to))
             rf == Rest(from, n)
             rt == Rest(to, n)
             moves == Moves(side, from, to, n)
             creates == Creates(side, rt)
             cancels == Each(CancelAct, rf)
             HF == Heads(from, n)
             HT == Heads(to, n)
  <1>0. PairRotations(side, b) = (moves \o creates) \o cancels
    BY DEF PairRotations, Each, Moves, Creates, Rest
  <1>1. S \in SUBSET Levels /\ \A i \in S : placed[i] # "no" /\ type[i] = side
    BY DEF Surplus
  <1>2. T \in SUBSET Levels /\ \A i \in T : placed[i] = "no" /\ InRail(side, b, i)
    BY WindowRoles DEF Holes
  <1>3. S \in SUBSET Nat /\ IsFiniteSet(S) /\ T \in SUBSET Nat /\ IsFiniteSet(T)
    BY <1>1, <1>2, Constants, FS_Subset
  <1>4. Lists(from, S) /\ Lists(to, T)
    BY <1>3, RisingLists, OutwardLists
  <1> HIDE DEF from, to, S, T
  <1>5. Len(from) \in Nat /\ Len(to) \in Nat
    BY <1>4 DEF Lists
  <1>6. n \in Nat /\ n <= Len(from) /\ n <= Len(to)
    BY <1>5 DEF AtMost
  <1> HIDE DEF n
  <1>7a. Lists(rf, S \ HF) /\ HF \subseteq S
    BY <1>4, <1>6, RestLists
  <1>7b. Lists(rt, T \ HT) /\ HT \subseteq T
    BY <1>4, <1>6, RestLists
  <1>7. Lists(rf, S \ HF) /\ HF \subseteq S /\ Lists(rt, T \ HT) /\ HT \subseteq T
    BY <1>7a, <1>7b
  <1>8. PlanOK(b, moves) /\ Ats(moves) = HF /\ Tos(moves) = HT
    <2>1. Own(side, S) /\ Free(side, b, T)
      BY <1>1, <1>2 DEF Own, Free
    <2> QED  BY <1>4, <1>6, <2>1, MovesPlan
  <1>9. PlanOK(b, creates) /\ Tos(creates) = T \ HT /\ Ats(creates) = {}
    <2>1. T \ HT \in SUBSET Levels /\ \A i \in T \ HT : InRail(side, b, i) /\ placed[i] = "no"
      BY <1>2
    <2> HIDE DEF HT, rt
    <2> QED  BY <1>7, <2>1, CreatesPlan
  <1>10. PlanOK(b, cancels) /\ Tos(cancels) = {} /\ Ats(cancels) = S \ HF
    <2>1. S \ HF \in SUBSET Levels /\ \A i \in S \ HF : placed[i] # "no"
      BY <1>1
    <2> HIDE DEF HF, rf
    <2> QED  BY <1>7, <2>1, CancelsPlan
  <1> HIDE DEF moves, creates, cancels, HF, HT
  <1>11. /\ PlanOK(b, moves \o creates) /\ Tos(moves \o creates) = T
         /\ Ats(moves \o creates) = HF
    <2>1. Separate(moves, creates)
      BY <1>8, <1>9 DEF Separate
    <2>2. Joined(b, moves, creates, moves \o creates)
      BY <1>8, <1>9, <2>1, ConcatPlan
    <2> QED  BY <1>7, <1>8, <1>9, <2>2 DEF Joined
  <1> DEFINE mc == moves \o creates
  <1> HIDE DEF mc
  <1>12. PlanOK(b, mc \o cancels) /\ Tos(mc \o cancels) = T /\ Ats(mc \o cancels) = S
    <2>0. PlanOK(b, mc) /\ Tos(mc) = T /\ Ats(mc) = HF
      BY <1>11 DEF mc
    <2>1. Separate(mc, cancels)
      BY <1>10, <2>0 DEF Separate
    <2>2. Joined(b, mc, cancels, mc \o cancels)
      BY <1>10, <2>0, <2>1, ConcatPlan
    <2> QED  BY <1>7, <1>10, <2>0, <2>2 DEF Joined
  <1> QED  BY <1>0, <1>12 DEF mc, S, T

\* The plan that leads to boundary b, and the orders it takes from their slots: the
\* mismatched ones and the surplus.
LEMMA ReconcilePlan ==
    ASSUME GridOK(type, placed), NEW b \in Int
    PROVE  PlanOK(b, Reconcile(b)) /\ Mismatched(b) \subseteq Ats(Reconcile(b))
  <1> DEFINE rt == Retyped(b)
             bs == PairRotations("buy", b)
             ss == PairRotations("sell", b)
             M == Mismatched(b)
  <1>1. PlanOK(b, rt) /\ Ats(rt) = M /\ Tos(rt) \subseteq M
    BY RetypedPlan
  <1>2. PlanOK(b, bs) /\ Tos(bs) = Holes("buy", b) /\ Ats(bs) = Surplus("buy", b)
    BY RotationsPlan DEF Sides
  <1>3. PlanOK(b, ss) /\ Tos(ss) = Holes("sell", b) /\ Ats(ss) = Surplus("sell", b)
    BY RotationsPlan DEF Sides
  <1>4. /\ M \cap Holes("buy", b) = {} /\ M \cap Holes("sell", b) = {}
        /\ Holes("buy", b) \cap Holes("sell", b) = {}
    BY WindowsApart DEF Mismatched, Holes
  <1>5. /\ M \cap Surplus("buy", b) = {} /\ M \cap Surplus("sell", b) = {}
        /\ Surplus("buy", b) \cap Surplus("sell", b) = {}
    BY DEF Mismatched, Surplus
  <1> HIDE DEF rt, bs, ss, M
  <1>6. Joined(b, rt, bs, rt \o bs)
    <2>1. Separate(rt, bs)
      BY <1>1, <1>2, <1>4, <1>5 DEF Separate
    <2> QED  BY <1>1, <1>2, <2>1, ConcatPlan
  <1> DEFINE rb == rt \o bs
  <1> HIDE DEF rb
  <1>7. Joined(b, rb, ss, rb \o ss)
    <2>0. PlanOK(b, rb) /\ Tos(rb) = Tos(rt) \cup Tos(bs) /\ Ats(rb) = Ats(rt) \cup Ats(bs)
      BY <1>6 DEF rb, Joined
    <2>1. Separate(rb, ss)
      BY <1>1, <1>2, <1>3, <1>4, <1>5, <2>0 DEF Separate
    <2> QED  BY <1>3, <2>0, <2>1, ConcatPlan
  <1>8. Reconcile(b) = rb \o ss
    BY DEF Reconcile, rb, rt, bs, ss
  <1>9. M \subseteq Ats(rb \o ss)
    BY <1>1, <1>6, <1>7 DEF rb, Joined
  <1> QED  BY <1>7, <1>8, <1>9 DEF M, Joined

-----------------------------------------------------------------------------
\* Plans made of parts of plans.

\* What holds of 0 and passes from k - 1 to k holds up to n.
LEMMA UpTo ==
    ASSUME NEW n \in Nat, NEW S, 0 \in S, \A k \in 1 .. n : k - 1 \in S => k \in S
    PROVE  \A k \in 0 .. n : k \in S
  <1> DEFINE B == {k \in 0 .. n : k \notin S}
  <1> SUFFICES ASSUME B # {} PROVE FALSE
    OBVIOUS
  <1>1. B \in SUBSET Nat
    OBVIOUS
  <1>2. PICK m \in B : \A k \in B : m <= k
    BY <1>1, LeastIsIn
  <1>3. m \in 0 .. n /\ m \notin S /\ m # 0
    BY <1>2
  <1>4. m - 1 \in 0 .. n /\ m \in 1 .. n /\ ~(m <= m - 1)
    BY <1>3
  <1>5. m - 1 \notin B
    BY <1>2, <1>4
  <1> QED  BY <1>3, <1>4, <1>5

-----------------------------------------------------------------------------
\* An action that touches new slots may join a plan.
Joins(a, p) == (Places(a) => a.to \notin Tos(p)) /\ (Removes(a) => a.at \notin Ats(p))
\* The plan r is p and the action a.
Appended(b, p, a, r) ==
    /\ PlanOK(b, r)
    /\ \A x : x \in Tos(r) <=> x \in Tos(p) \/ (Places(a) /\ x = a.to)
    /\ \A x : x \in Ats(r) <=> x \in Ats(p) \/ (Removes(a) /\ x = a.at)

\* A slot is among the destinations of a plan when an action places there.
LEMMA InTos == ASSUME NEW p PROVE \A x : x \in Tos(p) <=> \E k \in DOMAIN p : Places(p[k]) /\ p[k].to = x
  BY DEF Tos
\* A slot is among the origins of a plan when an action takes its order.
LEMMA InAts == ASSUME NEW p PROVE \A x : x \in Ats(p) <=> \E k \in DOMAIN p : Removes(p[k]) /\ p[k].at = x
  BY DEF Ats

\* A plan with one more action on slots of its own is a plan.
LEMMA AppendPlan ==
    ASSUME NEW b, NEW p, NEW a, PlanOK(b, p), Sound(b, a), Joins(a, p)
    PROVE  Appended(b, p, a, Append(p, a))
  <1> DEFINE r == Append(p, a)
             n == Len(p)
  <1>1. p \in Seq(Action) /\ a \in Action
    BY DEF PlanOK, Sound
  <1>2. n \in Nat /\ DOMAIN p = 1 .. n
    BY <1>1
  <1>3. /\ r \in Seq(Action) /\ Len(r) = n + 1 /\ r[n + 1] = a
        /\ \A k \in 1 .. n : r[k] = p[k]
    BY <1>1, AppendProperties
  <1>4. DOMAIN r = 1 .. (n + 1)
    BY <1>3
  <1> HIDE DEF r, n
  <1>5. \A k \in 1 .. (n + 1) : k \in 1 .. n \/ k = n + 1
    BY <1>2
  <1>6. n + 1 \in 1 .. (n + 1) /\ \A k \in 1 .. n : k \in 1 .. (n + 1) /\ k # n + 1
    BY <1>2
  <1>7. (\A k \in 1 .. n : Sound(b, p[k])) /\ Distinct(p)
    BY <1>2 DEF PlanOK
  <1>8. /\ \A k \in 1 .. n : Places(p[k]) /\ Places(a) => p[k].to # a.to
        /\ \A k \in 1 .. n : Removes(p[k]) /\ Removes(a) => p[k].at # a.at
    BY <1>2, InTos, InAts DEF Joins
  <1>9. \A k \in 1 .. (n + 1) : Sound(b, r[k])
    BY <1>3, <1>5, <1>7
  <1>10. Distinct(r)
    <2>1. ASSUME NEW k \in 1 .. (n + 1), NEW l \in 1 .. (n + 1), Places(r[k]), Places(r[l]), r[k].to = r[l].to
          PROVE  k = l
      BY <1>2, <1>3, <1>5, <1>7, <1>8, <2>1 DEF Distinct
    <2>2. ASSUME NEW k \in 1 .. (n + 1), NEW l \in 1 .. (n + 1), Removes(r[k]), Removes(r[l]), r[k].at = r[l].at
          PROVE  k = l
      BY <1>2, <1>3, <1>5, <1>7, <1>8, <2>2 DEF Distinct
    <2> QED  BY <1>4, <2>1, <2>2 DEF Distinct
  <1>11. \A x : x \in Tos(r) <=> x \in Tos(p) \/ (Places(a) /\ x = a.to)
    BY <1>2, <1>3, <1>4, <1>5, <1>6, InTos
  <1>12. \A x : x \in Ats(r) <=> x \in Ats(p) \/ (Removes(a) /\ x = a.at)
    BY <1>2, <1>3, <1>4, <1>5, <1>6, InAts
  <1>13. PlanOK(b, r)
    BY <1>3, <1>4, <1>9, <1>10 DEF PlanOK
  <1> QED  BY <1>11, <1>12, <1>13 DEF Appended, r

\* A list of creates.
AllCreates(p) == \A k \in DOMAIN p : p[k].kind = "create"

\* Without one of its creates a list of creates is a plan that leaves that slot free.
LEMMA RemovePlan ==
    ASSUME NEW b, NEW p, PlanOK(b, p), AllCreates(p), NEW i \in DOMAIN p
    PROVE  /\ PlanOK(b, RemoveAt(p, i)) /\ AllCreates(RemoveAt(p, i))
           /\ \A x : x \in Tos(RemoveAt(p, i)) => x \in Tos(p) /\ x # p[i].to
  <1> DEFINE r == RemoveAt(p, i)
             n == Len(p)
             from(k) == IF k < i THEN k ELSE k + 1
  <1>1. p \in Seq(Action) /\ n \in Nat /\ DOMAIN p = 1 .. n /\ i \in 1 .. n
    BY DEF PlanOK
  <1>2. r = Without(p, i)
    BY DEF RemoveAt, Without
  <1>3. /\ r \in Seq(Action) /\ Len(r) = n - 1
        /\ \A k \in 1 .. (n - 1) : r[k] = IF k < i THEN p[k] ELSE p[k + 1]
    BY <1>1, <1>2, RemoveOne
  <1>4. DOMAIN r = 1 .. (n - 1)
    BY <1>3
  <1>5. \A k \in 1 .. (n - 1) : from(k) \in 1 .. n /\ from(k) # i /\ r[k] = p[from(k)]
    BY <1>1, <1>3
  <1>6. \A k, l \in 1 .. (n - 1) : from(k) = from(l) => k = l
    BY <1>1
  <1> HIDE DEF r, n, from
  <1>7. (\A k \in 1 .. n : Sound(b, p[k]) /\ p[k].kind = "create" /\ Places(p[k])) /\ Distinct(p)
    BY <1>1 DEF PlanOK, AllCreates, Places
  <1>8. \A k \in 1 .. (n - 1) : Sound(b, r[k]) /\ r[k].kind = "create"
    BY <1>5, <1>7
  <1>9. Distinct(r)
    <2>1. ASSUME NEW k \in 1 .. (n - 1), NEW l \in 1 .. (n - 1), Places(r[k]), Places(r[l]), r[k].to = r[l].to
          PROVE  k = l
      <3>1. from(k) = from(l)
        BY <1>1, <1>5, <1>7, <2>1 DEF Distinct
      <3> QED  BY <1>6, <3>1
    <2>2. \A k \in 1 .. (n - 1) : ~Removes(r[k])
      BY <1>8 DEF Removes
    <2> QED  BY <1>4, <2>1, <2>2 DEF Distinct
  <1>10. ASSUME NEW x \in Tos(r) PROVE x \in Tos(p) /\ x # p[i].to
    <2>1. PICK k \in 1 .. (n - 1) : Places(r[k]) /\ r[k].to = x
      BY <1>4, InTos
    <2>2. p[from(k)].to = x /\ from(k) \in 1 .. n /\ from(k) # i
      BY <1>5, <2>1
    <2>3. x \in Tos(p)
      BY <1>1, <1>7, <2>2, InTos
    <2>4. p[i].to # x
      BY <1>1, <1>7, <2>2 DEF Distinct
    <2> QED  BY <2>3, <2>4
  <1>11. PlanOK(b, r) /\ AllCreates(r)
    BY <1>3, <1>4, <1>8, <1>9 DEF PlanOK, AllCreates
  <1> QED  BY <1>10, <1>11 DEF r

\* The actions of one kind.
LEMMA OfKindPlan ==
    ASSUME NEW b, NEW p, PlanOK(b, p), NEW kind
    PROVE  LET r == OfKind(p, kind)
           IN /\ PlanOK(b, r)
              /\ \A k \in DOMAIN r : r[k].kind = kind /\ \E l \in DOMAIN p : r[k] = p[l]
              /\ \A l \in DOMAIN p : p[l].kind = kind => \E k \in DOMAIN r : r[k] = p[l]
  <1> DEFINE K == {k \in DOMAIN p : p[k].kind = kind}
             r == OfKind(p, kind)
             n == Len(p)
  <1>1. p \in Seq(Action) /\ n \in Nat /\ DOMAIN p = 1 .. n
    BY DEF PlanOK
  <1>2. K \in SUBSET (1 .. n) /\ IsFiniteSet(1 .. n)
    BY <1>1, FS_Interval
  <1>3. K \in SUBSET Nat /\ IsFiniteSet(K)
    BY <1>2, FS_Subset
  <1>4. PICK at : /\ Lists(at, K) /\ DOMAIN r = DOMAIN at /\ Len(r) = Len(at) /\ Len(at) \in Nat
                  /\ DOMAIN at = 1 .. Len(at)
                  /\ \A k \in DOMAIN at : at[k] \in K /\ r[k] = p[at[k]]
    <2>1. r = Picked(p, K)
      BY DEF OfKind
    <2> HIDE DEF r, K
    <2> QED  BY <1>3, <2>1, PickedElements
  <1> DEFINE m == Len(at)
  <1>5. m \in Nat /\ DOMAIN r = 1 .. m /\ Len(r) = m /\ DOMAIN at = 1 .. m
    BY <1>4
  <1>6. \A k \in 1 .. m : at[k] \in DOMAIN p /\ p[at[k]].kind = kind /\ r[k] = p[at[k]]
    BY <1>4, <1>5
  <1>7. (\A k, l \in 1 .. m : at[k] = at[l] => k = l) /\ \A i \in K : \E k \in 1 .. m : at[k] = i
    BY <1>4, <1>5 DEF Lists
  <1>8. \A k \in 1 .. m : p[at[k]] \in Action /\ Sound(b, p[at[k]])
    BY <1>1, <1>6 DEF PlanOK
  <1>9. r \in Seq(Action)
    <2>1. r = [k \in 1 .. m |-> r[k]]
      <3>1. r = [k \in DOMAIN Rising(K) |-> p[Rising(K)[k]]]
        BY DEF OfKind, Picked
      <3> QED  BY <1>5, <3>1
    <2>2. r \in [1 .. m -> Action]
      BY <1>6, <1>8, <2>1
    <2> QED  BY <1>5, <2>2
  <1> HIDE DEF r, m
  <1>10. Distinct(r)
    <2>1. Distinct(p)
      BY DEF PlanOK
    <2>2. ASSUME NEW k \in 1 .. m, NEW l \in 1 .. m, Places(r[k]), Places(r[l]), r[k].to = r[l].to
          PROVE  k = l
      <3>1. at[k] = at[l]
        BY <1>6, <2>1, <2>2 DEF Distinct
      <3> QED  BY <1>7, <3>1
    <2>3. ASSUME NEW k \in 1 .. m, NEW l \in 1 .. m, Removes(r[k]), Removes(r[l]), r[k].at = r[l].at
          PROVE  k = l
      <3>1. at[k] = at[l]
        BY <1>6, <2>1, <2>3 DEF Distinct
      <3> QED  BY <1>7, <3>1
    <2> QED  BY <1>5, <2>2, <2>3 DEF Distinct
  <1>11. PlanOK(b, r)
    BY <1>5, <1>6, <1>8, <1>9, <1>10 DEF PlanOK
  <1>12. \A k \in DOMAIN r : r[k].kind = kind /\ \E l \in DOMAIN p : r[k] = p[l]
    BY <1>5, <1>6
  <1>13. \A l \in DOMAIN p : p[l].kind = kind => \E k \in DOMAIN r : r[k] = p[l]
    <2> SUFFICES ASSUME NEW l \in DOMAIN p, p[l].kind = kind PROVE \E k \in 1 .. m : r[k] = p[l]
      BY <1>5
    <2>1. PICK k \in 1 .. m : at[k] = l
      BY <1>7
    <2> QED  BY <1>6, <2>1
  <1> QED  BY <1>11, <1>12, <1>13 DEF r

-----------------------------------------------------------------------------
\* The pairing of cancels and creates into moves.

\* The cancels, the moves and the creates of a plan are plans that touch different slots.
LEMMA PlanParts ==
    ASSUME NEW b, NEW p, PlanOK(b, p)
    PROVE  LET X == OfKind(p, "cancel")
               M == OfKind(p, "move")
               C == OfKind(p, "create")
           IN /\ PlanOK(b, X) /\ PlanOK(b, M) /\ PlanOK(b, C) /\ AllCreates(C)
              /\ \A k \in DOMAIN X : X[k].kind = "cancel"
              /\ \A x : x \in Ats(p) <=> x \in Ats(M) \/ x \in Ats(X)
              /\ \A x : ~(x \in Ats(M) /\ x \in Ats(X)) /\ ~(x \in Tos(M) /\ x \in Tos(C))
              /\ \A x : x \notin Ats(C)
  <1> DEFINE X == OfKind(p, "cancel")
             M == OfKind(p, "move")
             C == OfKind(p, "create")
  <1>1. /\ PlanOK(b, X) /\ \A k \in DOMAIN X : X[k].kind = "cancel" /\ \E l \in DOMAIN p : X[k] = p[l]
        /\ \A l \in DOMAIN p : p[l].kind = "cancel" => \E k \in DOMAIN X : X[k] = p[l]
    BY OfKindPlan
  <1>2. /\ PlanOK(b, M) /\ \A k \in DOMAIN M : M[k].kind = "move" /\ \E l \in DOMAIN p : M[k] = p[l]
        /\ \A l \in DOMAIN p : p[l].kind = "move" => \E k \in DOMAIN M : M[k] = p[l]
    BY OfKindPlan
  <1>3. PlanOK(b, C) /\ \A k \in DOMAIN C : C[k].kind = "create" /\ \E l \in DOMAIN p : C[k] = p[l]
    BY OfKindPlan
  <1> HIDE DEF X, M, C
  <1>4. \A l \in DOMAIN p : p[l].kind \in Kinds
    BY DEF PlanOK, Sound, Action
  <1>5. Distinct(p)
    BY DEF PlanOK
  <1>6. ASSUME NEW x, x \in Ats(M), x \in Ats(X) PROVE FALSE
    <2>1. PICK k \in DOMAIN M : Removes(M[k]) /\ M[k].at = x
      BY <1>6, InAts
    <2>2. PICK l \in DOMAIN X : Removes(X[l]) /\ X[l].at = x
      BY <1>6, InAts
    <2>3. PICK i \in DOMAIN p : M[k] = p[i]
      BY <1>2
    <2>4. PICK j \in DOMAIN p : X[l] = p[j]
      BY <1>1
    <2>5. i = j
      BY <1>5, <2>1, <2>2, <2>3, <2>4 DEF Distinct
    <2>6. M[k].kind = "move" /\ X[l].kind = "cancel"
      BY <1>1, <1>2
    <2> QED  BY <2>3, <2>4, <2>5, <2>6
  <1>7. ASSUME NEW x, x \in Tos(M), x \in Tos(C) PROVE FALSE
    <2>1. PICK k \in DOMAIN M : Places(M[k]) /\ M[k].to = x
      BY <1>7, InTos
    <2>2. PICK l \in DOMAIN C : Places(C[l]) /\ C[l].to = x
      BY <1>7, InTos
    <2>3. PICK i \in DOMAIN p : M[k] = p[i]
      BY <1>2
    <2>4. PICK j \in DOMAIN p : C[l] = p[j]
      BY <1>3
    <2>5. i = j
      BY <1>5, <2>1, <2>2, <2>3, <2>4 DEF Distinct
    <2>6. M[k].kind = "move" /\ C[l].kind = "create"
      BY <1>2, <1>3
    <2> QED  BY <2>3, <2>4, <2>5, <2>6
  <1>8. ASSUME NEW x, x \in Ats(p) PROVE x \in Ats(M) \/ x \in Ats(X)
    <2>1. PICK l \in DOMAIN p : Removes(p[l]) /\ p[l].at = x
      BY <1>8, InAts
    <2>2. p[l].kind = "cancel" \/ p[l].kind = "move"
      BY <1>4, <2>1 DEF Removes, Kinds
    <2>3. CASE p[l].kind = "cancel"
      <3>1. PICK k \in DOMAIN X : X[k] = p[l]
        BY <1>1, <2>3
      <3> QED  BY <2>1, <3>1, InAts
    <2>4. CASE p[l].kind = "move"
      <3>1. PICK k \in DOMAIN M : M[k] = p[l]
        BY <1>2, <2>4
      <3> QED  BY <2>1, <3>1, InAts
    <2> QED  BY <2>2, <2>3, <2>4
  <1>9. ASSUME NEW x, x \in Ats(M) \/ x \in Ats(X) PROVE x \in Ats(p)
    <2>1. CASE x \in Ats(M)
      <3>1. PICK k \in DOMAIN M : Removes(M[k]) /\ M[k].at = x
        BY <2>1, InAts
      <3> QED  BY <1>2, <3>1, InAts
    <2>2. CASE x \in Ats(X)
      <3>1. PICK k \in DOMAIN X : Removes(X[k]) /\ X[k].at = x
        BY <2>2, InAts
      <3> QED  BY <1>1, <3>1, InAts
    <2> QED  BY <1>9, <2>1, <2>2
  <1>10. AllCreates(C) /\ \A k \in DOMAIN C : ~Removes(C[k])
    BY <1>3 DEF AllCreates, Removes
  <1>11. \A x : x \notin Ats(C)
    BY <1>10, InAts
  <1>12. \A k \in DOMAIN X : X[k].kind = "cancel"
    BY <1>1
  <1> QED  BY <1>1, <1>2, <1>3, <1>6, <1>7, <1>8, <1>9, <1>10, <1>11, <1>12 DEF X, M, C

-----------------------------------------------------------------------------
\* The steps of the pairing up to the cancel n, by the number of cancels taken.
PairWalk(f, n, X, s) == f[0] = s /\ \A k \in 1 .. n : f[k] = Pair(f[k - 1], X[k])

\* The pairing can be computed up to any number of cancels.
LEMMA PairWalks ==
    ASSUME NEW N \in Nat, NEW X, NEW s
    PROVE  \A n \in 0 .. N : \E f : PairWalk(f, n, X, s)
  <1> DEFINE S == {n \in 0 .. N : \E f : PairWalk(f, n, X, s)}
  <1>1. 0 \in S
    <2> DEFINE f == [k \in 0 .. 0 |-> s]
    <2>1. PairWalk(f, 0, X, s)
      BY DEF PairWalk
    <2> HIDE DEF f
    <2> QED  BY <2>1
  <1>2. ASSUME NEW n \in 1 .. N, n - 1 \in S PROVE n \in S
    <2>1. PICK f : PairWalk(f, n - 1, X, s)
      BY <1>2
    <2> DEFINE g == [k \in 0 .. n |-> IF k = n THEN Pair(f[n - 1], X[n]) ELSE f[k]]
    <2>2. g[0] = s
      BY <2>1 DEF PairWalk
    <2>3. ASSUME NEW k \in 1 .. n PROVE g[k] = Pair(g[k - 1], X[k])
      <3>1. g[k - 1] = f[k - 1]
        OBVIOUS
      <3>2. CASE k = n
        BY <3>1, <3>2
      <3>3. CASE k # n
        <4>1. k \in 1 .. (n - 1)
          BY <3>3
        <4>2. f[k] = Pair(f[k - 1], X[k])
          BY <2>1, <4>1 DEF PairWalk
        <4> QED  BY <3>1, <3>3, <4>2
      <3> QED  BY <3>2, <3>3
    <2>4. PairWalk(g, n, X, s)
      BY <2>2, <2>3 DEF PairWalk
    <2> HIDE DEF g
    <2>5. n \in 0 .. N
      OBVIOUS
    <2> QED  BY <2>4, <2>5
  <1> HIDE DEF S
  <1>3. \A n \in 0 .. N : n \in S
    BY <1>1, <1>2, UpTo
  <1> QED  BY <1>3 DEF S

\* What the pairing computes is the last state of such a computation.
LEMMA PairingWalk ==
    ASSUME NEW X, NEW M, NEW C, Len(X) \in Nat
    PROVE  \E f : PairWalk(f, Len(X), X, [done |-> M, creates |-> C]) /\ Pairing(X, M, C) = f[Len(X)]
  <1> DEFINE s == [done |-> M, creates |-> C]
             N == Len(X)
             g == CHOOSE f : f = [k \in 0 .. N |-> IF k = 0 THEN s ELSE Pair(f[k - 1], X[k])]
  <1>1. PICK f : PairWalk(f, N, X, s)
    <2>1. N \in 0 .. N /\ N \in Nat
      OBVIOUS
    <2> HIDE DEF s, N
    <2> QED  BY <2>1, PairWalks
  <1> DEFINE h == [k \in 0 .. N |-> f[k]]
  <1> HIDE DEF s
  <1>2. h = [k \in 0 .. N |-> IF k = 0 THEN s ELSE Pair(h[k - 1], X[k])]
    <2>1. ASSUME NEW k \in 0 .. N PROVE f[k] = IF k = 0 THEN s ELSE Pair(h[k - 1], X[k])
      <3>1. CASE k = 0
        BY <1>1, <3>1 DEF PairWalk
      <3>2. CASE k # 0
        <4>1. k \in 1 .. N /\ k - 1 \in 0 .. N
          BY <3>2
        <4>2. h[k - 1] = f[k - 1]
          BY <4>1
        <4> QED  BY <1>1, <3>2, <4>1, <4>2 DEF PairWalk
      <3> QED  BY <3>1, <3>2
    <2> QED  BY <2>1
  <1>3. \E e : e = [k \in 0 .. N |-> IF k = 0 THEN s ELSE Pair(e[k - 1], X[k])]
    BY <1>2
  <1>4. g = [k \in 0 .. N |-> IF k = 0 THEN s ELSE Pair(g[k - 1], X[k])]
    BY <1>3
  <1>5. Pairing(X, M, C) = g[N]
    BY DEF Pairing, s
  <1> HIDE DEF g
  <1>6. PairWalk(g, N, X, s)
    <2>1. g[0] = s
      BY <1>4
    <2>2. ASSUME NEW k \in 1 .. N PROVE g[k] = Pair(g[k - 1], X[k])
      <3>1. k \in 0 .. N /\ k # 0
        OBVIOUS
      <3> QED  BY <1>4, <3>1
    <2> QED  BY <2>1, <2>2 DEF PairWalk
  <1> QED  BY <1>5, <1>6 DEF s

-----------------------------------------------------------------------------
\* What the pairing has made of a plan when it has taken k cancels.
Paired(b, acc, k, X, M) ==
    /\ acc \in [done : Seq(Action), creates : Seq(Action)]
    /\ PlanOK(b, acc.done) /\ PlanOK(b, acc.creates) /\ AllCreates(acc.creates)
    /\ \A x : ~(x \in Tos(acc.done) /\ x \in Tos(acc.creates))
    /\ \A x : x \in Ats(acc.done) <=> x \in Ats(M) \/ \E l \in 1 .. k : X[l].at = x

\* Cancels of different orders, none of which a move takes.
CancelList(b, X, n, M) ==
    /\ \A l \in 1 .. n : X[l].kind = "cancel" /\ X[l].at \notin Ats(M) /\ Sound(b, X[l])
    /\ \A l, m \in 1 .. n : X[l].at = X[m].at => l = m

\* Pairing one cancel with a create keeps what is listed a plan.
LEMMA PairStep ==
    ASSUME NEW b, NEW acc, NEW X, NEW M, NEW n \in Nat, NEW k \in 1 .. n, Paired(b, acc, k - 1, X, M),
           CancelList(b, X, n, M)
    PROVE  Paired(b, Pair(acc, X[k]), k, X, M)
  <1> DEFINE a == X[k]
             new == Pair(acc, a)
             near == NearestCreate(acc.creates, a)
  <1>1. a.kind = "cancel" /\ a.at \notin Ats(M) /\ Sound(b, a) /\ Removes(a) /\ ~Places(a)
    BY DEF Removes, Places, CancelList
  <1>2. /\ acc \in [done : Seq(Action), creates : Seq(Action)]
        /\ PlanOK(b, acc.done) /\ PlanOK(b, acc.creates) /\ AllCreates(acc.creates)
        /\ \A x : ~(x \in Tos(acc.done) /\ x \in Tos(acc.creates))
        /\ \A x : x \in Ats(acc.done) <=> x \in Ats(M) \/ \E l \in 1 .. (k - 1) : X[l].at = x
    BY DEF Paired
  <1>3. \A l \in 1 .. k : l \in 1 .. (k - 1) \/ l = k
    OBVIOUS
  <1>4. \A l \in 1 .. (k - 1) : l \in 1 .. k /\ l \in 1 .. n /\ l # k
    OBVIOUS
  <1>5. a.at \notin Ats(acc.done)
    BY <1>1, <1>2, <1>4 DEF CancelList
  <1>6. k \in 1 .. k
    OBVIOUS
  <1>7. CASE near = {}
    <2>1. new = [acc EXCEPT !.done = Append(@, a)]
      BY <1>7 DEF Pair
    <2>2. new.done = Append(acc.done, a) /\ new.creates = acc.creates
      BY <1>2, <2>1
    <2>3. Joins(a, acc.done)
      BY <1>1, <1>5 DEF Joins
    <2>4. Appended(b, acc.done, a, new.done)
      BY <1>1, <1>2, <2>2, <2>3, AppendPlan
    <2>5. new.done \in Seq(Action) /\ new.creates \in Seq(Action)
      BY <1>2, <2>2, <2>4 DEF Appended, PlanOK
    <2>6. new \in [done : Seq(Action), creates : Seq(Action)]
      BY <1>2, <2>1, <2>2, <2>5
    <2>7. \A x : x \in Tos(new.done) <=> x \in Tos(acc.done)
      BY <1>1, <2>4 DEF Appended
    <2>8. \A x : x \in Ats(new.done) <=> x \in Ats(acc.done) \/ x = a.at
      BY <1>1, <2>4 DEF Appended
    <2>9. \A x : x \in Ats(new.done) <=> x \in Ats(M) \/ \E l \in 1 .. k : X[l].at = x
      BY <1>2, <1>3, <1>4, <1>6, <2>8
    <2>10. PlanOK(b, new.done)
      BY <2>4 DEF Appended
    <2> HIDE DEF new
    <2>11. Paired(b, new, k, X, M)
      BY <1>2, <2>2, <2>6, <2>7, <2>9, <2>10 DEF Paired
    <2> QED  BY <2>11 DEF new
  <1>8. CASE near # {}
    <2> DEFINE i == CHOOSE j \in near : TRUE
               c == acc.creates[i]
               m == MoveAct(a.side, a.at, c.at)
    <2>1. new = [done |-> Append(acc.done, m), creates |-> RemoveAt(acc.creates, i)]
      BY <1>8 DEF Pair
    <2>2. i \in near
      BY <1>8
    <2>3. i \in DOMAIN acc.creates /\ c.side = a.side
      BY <2>2 DEF NearestCreate
    <2>4. c.kind = "create" /\ Sound(b, c) /\ Places(c)
      BY <1>2, <2>3 DEF AllCreates, PlanOK, Places
    <2>5. c.to = c.at /\ c.at \in Levels /\ a.at \in Levels /\ a.side \in Sides
      BY <1>1, <2>4 DEF Sound, Action
    <2>6. m \in Action /\ m.kind = "move" /\ m.side = a.side /\ m.at = a.at /\ m.to = c.to
      BY <2>5 DEF MoveAct, Act, Action, Kinds
    <2>7. Removes(m) /\ Places(m)
      BY <2>6 DEF Removes, Places
    <2>8. c.to \in Tos(acc.creates)
      BY <2>3, <2>4, InTos
    <2> HIDE DEF new, m, c, i
    <2>9. Sound(b, m)
      BY <1>1, <2>3, <2>4, <2>6, <2>7 DEF Sound, Removable, Placeable
    <2>10. Joins(m, acc.done)
      BY <1>2, <1>5, <2>6, <2>7, <2>8 DEF Joins
    <2>11. new.done = Append(acc.done, m) /\ new.creates = RemoveAt(acc.creates, i)
      BY <2>1
    <2>12. Appended(b, acc.done, m, new.done)
      BY <1>2, <2>9, <2>10, <2>11, AppendPlan
    <2>13. /\ PlanOK(b, new.creates) /\ AllCreates(new.creates)
           /\ \A x : x \in Tos(new.creates) => x \in Tos(acc.creates) /\ x # c.to
      BY <1>2, <2>3, <2>11, RemovePlan DEF c
    <2>14. PlanOK(b, new.done)
      BY <2>12 DEF Appended
    <2>15. new \in [done : Seq(Action), creates : Seq(Action)]
      <3>1. new.done \in Seq(Action) /\ new.creates \in Seq(Action)
        BY <2>13, <2>14 DEF PlanOK
      <3> QED  BY <2>1, <2>11, <3>1
    <2>16. \A x : x \in Tos(new.done) <=> x \in Tos(acc.done) \/ x = c.to
      BY <2>6, <2>7, <2>12 DEF Appended
    <2>17. \A x : ~(x \in Tos(new.done) /\ x \in Tos(new.creates))
      BY <1>2, <2>13, <2>16
    <2>18. \A x : x \in Ats(new.done) <=> x \in Ats(acc.done) \/ x = a.at
      BY <2>6, <2>7, <2>12 DEF Appended
    <2>19. \A x : x \in Ats(new.done) <=> x \in Ats(M) \/ \E l \in 1 .. k : X[l].at = x
      BY <1>2, <1>3, <1>4, <1>6, <2>18
    <2>20. Paired(b, new, k, X, M)
      BY <2>13, <2>14, <2>15, <2>17, <2>19 DEF Paired
    <2> QED  BY <2>20 DEF new
  <1> QED  BY <1>7, <1>8

\* Pairing keeps a plan a plan, and the orders it takes from their slots.
LEMMA OptimizePlan ==
    ASSUME NEW b, NEW p, PlanOK(b, p)
    PROVE  PlanOK(b, Optimize(p)) /\ \A x : x \in Ats(Optimize(p)) <=> x \in Ats(p)
  <1> DEFINE X == OfKind(p, "cancel")
             M == OfKind(p, "move")
             C == OfKind(p, "create")
             n == Len(X)
             s == [done |-> M, creates |-> C]
             last == Pairing(X, M, C)
  <1>1. CASE C = <<>> \/ X = <<>>
    BY <1>1 DEF Optimize
  <1>2. CASE ~(C = <<>> \/ X = <<>>)
    <2>1. Optimize(p) = last.done \o last.creates
      BY <1>2 DEF Optimize
    <2>2. /\ PlanOK(b, X) /\ PlanOK(b, M) /\ PlanOK(b, C) /\ AllCreates(C)
          /\ \A k \in DOMAIN X : X[k].kind = "cancel"
          /\ \A x : x \in Ats(p) <=> x \in Ats(M) \/ x \in Ats(X)
          /\ \A x : ~(x \in Ats(M) /\ x \in Ats(X)) /\ ~(x \in Tos(M) /\ x \in Tos(C))
          /\ \A x : x \notin Ats(C)
      BY PlanParts
    <2> HIDE DEF X, M, C
    <2>3. n \in Nat /\ DOMAIN X = 1 .. n
      BY <2>2 DEF PlanOK
    <2>4. /\ \A l \in 1 .. n : X[l].kind = "cancel" /\ X[l].at \notin Ats(M) /\ Sound(b, X[l])
          /\ \A l, m \in 1 .. n : X[l].at = X[m].at => l = m
      <3>1. \A l \in 1 .. n : X[l].kind = "cancel" /\ Sound(b, X[l]) /\ Removes(X[l])
        BY <2>2, <2>3 DEF PlanOK, Removes
      <3>2. \A l \in 1 .. n : X[l].at \in Ats(X)
        BY <2>3, <3>1, InAts
      <3>3. \A l, m \in 1 .. n : X[l].at = X[m].at => l = m
        BY <2>2, <2>3, <3>1 DEF PlanOK, Distinct
      <3> QED  BY <2>2, <3>1, <3>2, <3>3
    <2>4a. CancelList(b, X, n, M)
      BY <2>4 DEF CancelList
    <2>5. PICK f : PairWalk(f, n, X, s) /\ last = f[n]
      BY <2>3, PairingWalk
    <2>6. Paired(b, s, 0, X, M)
      <3>1. M \in Seq(Action) /\ C \in Seq(Action)
        BY <2>2 DEF PlanOK
      <3>2. s \in [done : Seq(Action), creates : Seq(Action)] /\ s.done = M /\ s.creates = C
        BY <3>1
      <3> HIDE DEF s
      <3> QED  BY <2>2, <3>2 DEF Paired
    <2> HIDE DEF s, n, last
    <2> DEFINE S == {k \in 0 .. n : Paired(b, f[k], k, X, M)}
    <2>7. 0 \in S
      BY <2>3, <2>5, <2>6 DEF PairWalk
    <2>8. ASSUME NEW k \in 1 .. n, k - 1 \in S PROVE k \in S
      <3>1. f[k] = Pair(f[k - 1], X[k]) /\ Paired(b, f[k - 1], k - 1, X, M)
        BY <2>5, <2>8 DEF PairWalk
      <3>2. Paired(b, f[k], k, X, M)
        BY <2>3, <2>4a, <3>1, PairStep
      <3> QED  BY <2>3, <3>2
    <2> HIDE DEF S
    <2>9. n \in S
      BY <2>3, <2>7, <2>8, UpTo
    <2>10. Paired(b, last, n, X, M)
      BY <2>5, <2>9 DEF S
    <2>11. /\ PlanOK(b, last.done) /\ PlanOK(b, last.creates) /\ AllCreates(last.creates)
           /\ \A x : ~(x \in Tos(last.done) /\ x \in Tos(last.creates))
           /\ \A x : x \in Ats(last.done) <=> x \in Ats(M) \/ \E l \in 1 .. n : X[l].at = x
      BY <2>10 DEF Paired
    <2>12. \A x : x \notin Ats(last.creates)
      BY <2>11, InAts DEF AllCreates, Removes
    <2>13. Separate(last.done, last.creates)
      BY <2>11, <2>12 DEF Separate
    <2>14. Joined(b, last.done, last.creates, last.done \o last.creates)
      BY <2>11, <2>13, ConcatPlan
    <2>15. \A x : x \in Ats(X) <=> \E l \in 1 .. n : X[l].at = x
      BY <2>3, <2>4, InAts DEF Removes
    <2>16. \A x : x \in Ats(Optimize(p)) <=> x \in Ats(p)
      BY <2>1, <2>2, <2>11, <2>12, <2>14, <2>15 DEF Joined
    <2> QED  BY <2>1, <2>14, <2>16 DEF Joined
  <1> QED  BY <1>1, <1>2

-----------------------------------------------------------------------------
\* The plans of chunks of fills and of corrections, and the grids they lead to.

\* The working grid keeps the orders that a plan does not take.
Keeps(w, p) ==
    \A i \in Levels : placed[i] # "no" /\ i \notin Ats(p) => w.type[i] = type[i] /\ w.placed[i] = placed[i]

\* The role of a slot that holds an order is a side.
LEMMA RoleTypes ==
    ASSUME GridOK(type, placed), NEW b \in Int, NEW i \in Levels
    PROVE  Role(b, i) \in SlotTypes /\ RoleOf(b, i) \in SlotTypes /\ (placed[i] # "no" => RoleOf(b, i) \in Sides)
  BY DEF Role, RoleOf, GridOK, SlotTypes, Sides

\* The plan of a chunk of fills and the grid it leads to.
LEMMA ChunkPlan ==
    ASSUME GridOK(type, placed), NEW b \in Int
    PROVE  /\ PlanOK(b, Optimize(Reconcile(b)))
           /\ Keeps(Projected(b), Optimize(Reconcile(b)))
           /\ GridOK(Projected(b).type, Projected(b).placed)
  <1>1. PlanOK(b, Reconcile(b)) /\ Mismatched(b) \subseteq Ats(Reconcile(b))
    BY ReconcilePlan
  <1>2. /\ PlanOK(b, Optimize(Reconcile(b)))
        /\ \A x : x \in Ats(Optimize(Reconcile(b))) <=> x \in Ats(Reconcile(b))
    BY <1>1, OptimizePlan
  <1> DEFINE w == Projected(b)
  <1>3. /\ w.type = [i \in Levels |-> RoleOf(b, i)]
        /\ w.placed = [i \in Levels |-> IF type[i] = RoleOf(b, i) THEN placed[i] ELSE "no"]
    BY DEF Projected, Roles
  <1> HIDE DEF w
  <1>4. Keeps(w, Optimize(Reconcile(b)))
    <2>1. ASSUME NEW i \in Levels, placed[i] # "no", i \notin Mismatched(b)
          PROVE  w.type[i] = type[i] /\ w.placed[i] = placed[i]
      <3>1. type[i] = RoleOf(b, i)
        BY <2>1 DEF Mismatched
      <3> QED  BY <1>3, <3>1
    <2> QED  BY <1>1, <1>2, <2>1 DEF Keeps
  <1>5. GridOK(w.type, w.placed)
    <2>1. w.type \in [Levels -> SlotTypes]
      BY <1>3, RoleTypes
    <2>2. w.placed \in [Levels -> Holdings]
      BY <1>3 DEF GridOK, Holdings
    <2>3. ASSUME NEW i \in Levels, w.placed[i] # "no" PROVE w.type[i] \in Sides
      <3>1. type[i] = RoleOf(b, i) /\ placed[i] # "no"
        BY <1>3, <2>3
      <3> QED  BY <1>3, <3>1 DEF GridOK
    <2> QED  BY <2>1, <2>2, <2>3 DEF GridOK
  <1> QED  BY <1>2, <1>4, <1>5 DEF w

-----------------------------------------------------------------------------
\* A correction gives a slot that holds an order a side.
LEMMA TypingTypes ==
    ASSUME GridOK(type, placed), NEW b \in Int, NEW i \in Levels
    PROVE  Typing(b)[i] \in SlotTypes /\ (placed[i] # "no" => Typing(b)[i] \in Sides)
  BY RoleTypes DEF Typing, Roles, GridOK

\* The slots a correction wants filled are of the side and in its rail.
LEMMA DesiredSlots ==
    ASSUME NEW b \in Int, NEW side \in Sides
    PROVE  Desired(side, b) \subseteq {i \in Levels : Typing(b)[i] = side /\ InRail(side, b, i)}
  <1> DEFINE rail == {i \in Levels : Typing(b)[i] = side /\ InRail(side, b, i)}
             ranked == Outward(side, rail)
             n == AtMost(Window, Len(ranked))
  <1>1. rail \in SUBSET Nat /\ IsFiniteSet(rail)
    BY Constants, FS_Subset
  <1> HIDE DEF rail
  <1>2. Lists(ranked, rail)
    BY <1>1, OutwardLists
  <1> HIDE DEF ranked
  <1>3. Len(ranked) \in Nat /\ DOMAIN ranked = 1 .. Len(ranked) /\ ranked \in Seq(rail)
    BY <1>2 DEF Lists
  <1>4. \A k \in 1 .. n : k \in 1 .. Len(ranked)
    BY <1>3, Constants DEF AtMost
  <1>5. \A k \in 1 .. n : ranked[k] \in rail
    BY <1>3, <1>4
  <1>6. Desired(side, b) = {ranked[k] : k \in 1 .. n}
    BY DEF Desired, ranked, rail
  <1> HIDE DEF n
  <1>7. Desired(side, b) \subseteq rail
    BY <1>5, <1>6
  <1> QED  BY <1>7 DEF rail

\* The actions of one side of a correction to the funds.
LEMMA SidePlan ==
    ASSUME GridOK(type, placed), NEW b \in Int, NEW side \in Sides
    PROVE  /\ PlanOK(b, SideActions(side, b))
           /\ \A x : x \in Ats(SideActions(side, b)) <=> x \in Excess(side, b)
           /\ \A x : x \in Tos(SideActions(side, b)) => x \in Levels /\ Typing(b)[x] = side
  <1> DEFINE E == Excess(side, b)
             D == Desired(side, b) \ OnChain(side, b)
             qd == Outward(side, D)
             cancels == Each(CancelAct, Rising(E))
             creates == Creates(side, qd)
  <1>1. E \in SUBSET Levels /\ \A i \in E : placed[i] # "no"
    BY DEF Excess, OnChain
  <1>2. D \in SUBSET Levels /\ \A i \in D : InRail(side, b, i) /\ Typing(b)[i] = side /\ placed[i] = "no"
    BY DesiredSlots DEF OnChain
  <1> HIDE DEF E, D
  <1>3. E \in SUBSET Nat /\ IsFiniteSet(E) /\ D \in SUBSET Nat /\ IsFiniteSet(D)
    BY <1>1, <1>2, Constants, FS_Subset
  <1>4. Lists(Rising(E), E) /\ Lists(qd, D)
    BY <1>3, RisingLists, OutwardLists
  <1> HIDE DEF qd
  <1>5. PlanOK(b, cancels) /\ Tos(cancels) = {} /\ Ats(cancels) = E
    BY <1>1, <1>4, CancelsPlan
  <1>6. PlanOK(b, creates) /\ Tos(creates) = D /\ Ats(creates) = {}
    BY <1>2, <1>4, CreatesPlan
  <1>7. SideActions(side, b) = cancels \o creates
    BY DEF SideActions, Each, Creates, qd, D, E
  <1> HIDE DEF cancels, creates
  <1>8. Separate(cancels, creates)
    BY <1>5, <1>6 DEF Separate
  <1>9. Joined(b, cancels, creates, cancels \o creates)
    BY <1>5, <1>6, <1>8, ConcatPlan
  <1>10. PlanOK(b, cancels \o creates) /\ Ats(cancels \o creates) = E /\ Tos(cancels \o creates) = D
    BY <1>5, <1>6, <1>9 DEF Joined
  <1> QED  BY <1>2, <1>7, <1>10 DEF E

\* The actions of a correction are a plan that takes exactly the excess orders of the corrected sides.
LEMMA FundPlan ==
    ASSUME GridOK(type, placed), NEW b \in Int, NEW sides, NEW acted
    PROVE  /\ PlanOK(b, FundActions(sides, acted, b))
           /\ \A x : x \in Ats(FundActions(sides, acted, b))
                     <=> \E side \in Sides : side \in acted /\ x \in Excess(side, b)
  <1> DEFINE of(side) == IF side \in acted THEN SideActions(side, b) ELSE <<>>
             buys == of("buy")
             sells == of("sell")
             p == IF sides = {"sell"} THEN sells \o buys ELSE buys \o sells
  <1>1. ASSUME NEW side \in Sides
        PROVE  /\ PlanOK(b, of(side))
               /\ \A x : x \in Ats(of(side)) <=> side \in acted /\ x \in Excess(side, b)
               /\ \A x : x \in Tos(of(side)) => Typing(b)[x] = side
    <2>1. CASE side \in acted
      BY <2>1, SidePlan
    <2>2. CASE side \notin acted
      BY <2>2, EmptyPlan
    <2> QED  BY <2>1, <2>2
  <1>2. /\ PlanOK(b, buys) /\ \A x : x \in Tos(buys) => Typing(b)[x] = "buy"
        /\ \A x : x \in Ats(buys) <=> "buy" \in acted /\ x \in Excess("buy", b)
    BY <1>1 DEF Sides
  <1>3. /\ PlanOK(b, sells) /\ \A x : x \in Tos(sells) => Typing(b)[x] = "sell"
        /\ \A x : x \in Ats(sells) <=> "sell" \in acted /\ x \in Excess("sell", b)
    BY <1>1 DEF Sides
  <1>4. \A x : ~(x \in Excess("buy", b) /\ x \in Excess("sell", b))
    BY DEF Excess, OnChain
  <1>5. FundActions(sides, acted, b) = Optimize(p)
    BY DEF FundActions
  <1> HIDE DEF buys, sells
  <1>6. Separate(buys, sells) /\ Separate(sells, buys)
    BY <1>2, <1>3, <1>4 DEF Separate
  <1>7. Joined(b, buys, sells, buys \o sells)
    BY <1>2, <1>3, <1>6, ConcatPlan
  <1>8. Joined(b, sells, buys, sells \o buys)
    BY <1>2, <1>3, <1>6, ConcatPlan
  <1>9. PlanOK(b, p) /\ \A x : x \in Ats(p) <=> x \in Ats(buys) \/ x \in Ats(sells)
    BY <1>7, <1>8 DEF Joined
  <1> HIDE DEF p
  <1>10. PlanOK(b, Optimize(p)) /\ \A x : x \in Ats(Optimize(p)) <=> x \in Ats(p)
    BY <1>9, OptimizePlan
  <1>11. \A x : x \in Ats(p) <=> \E side \in Sides : side \in acted /\ x \in Excess(side, b)
    BY <1>2, <1>3, <1>9 DEF Sides
  <1> QED  BY <1>5, <1>10, <1>11

\* A boundary that the funds ask for leaves the placed orders their sides.
LEMMA FundTypes ==
    ASSUME GridOK(type, placed), boundaryIdx \in 0 .. Ceiling, NEW x \in 0 .. Ceiling,
           NEW i \in Levels, placed[i] # "no"
    PROVE  FundBoundary(x) \in Int /\ Typing(FundBoundary(x))[i] = type[i]
  <1> DEFINE b == FundBoundary(x)
  <1>1. i \in Nat /\ i <= Top /\ Gap \in Nat /\ Top \in Nat /\ Ceiling \in Nat
    BY Constants DEF Levels
  <1>2. Typed("buy") \in SUBSET Nat /\ Typed("sell") \in SUBSET Nat /\ \A s : \A j \in Typed(s) : j <= Top
    BY Constants DEF Typed, Levels
  <1>3. LowerBound \in Nat /\ \A j \in Typed("buy") : j < LowerBound
    <2>1. CASE Typed("buy") = {}
      BY <2>1 DEF LowerBound
    <2>2. CASE Typed("buy") # {}
      <3>1. Max(Typed("buy")) \in Typed("buy") /\ \A j \in Typed("buy") : j <= Max(Typed("buy"))
        BY <1>1, <1>2, <2>2, MaxOf
      <3>2. Max(Typed("buy")) \in Nat
        BY <1>2, <3>1
      <3>3. LowerBound = 1 + Max(Typed("buy"))
        BY <2>2 DEF LowerBound
      <3> QED  BY <1>2, <3>1, <3>2, <3>3
    <2> QED  BY <2>1, <2>2
  <1>4. UpperBound \in Int /\ \A j \in Typed("sell") : UpperBound < j
    <2>1. CASE Typed("sell") = {}
      BY <1>1, <2>1 DEF UpperBound
    <2>2. CASE Typed("sell") # {}
      <3>1. Min(Typed("sell")) \in Typed("sell") /\ \A j \in Typed("sell") : Min(Typed("sell")) <= j
        BY <1>2, <2>2, MinOf
      <3>2. Min(Typed("sell")) \in Nat
        BY <1>2, <3>1
      <3>3. UpperBound = Min(Typed("sell")) - 1
        BY <2>2 DEF UpperBound
      <3> QED  BY <1>2, <3>1, <3>2, <3>3
    <2> QED  BY <2>1, <2>2
  <1>5. b \in Int /\ (b = boundaryIdx \/ (LowerBound <= b /\ b <= UpperBound))
    <2>1. boundaryIdx \in Int /\ x \in Int
      BY <1>1
    <2>2. CASE LowerBound > UpperBound
      BY <2>1, <2>2 DEF FundBoundary
    <2>3. CASE ~(LowerBound > UpperBound)
      <3>1. b = Clamp(LowerBound, x, UpperBound)
        BY <2>3 DEF FundBoundary
      <3>2. Clamp(LowerBound, x, UpperBound) \in Int /\ LowerBound <= Clamp(LowerBound, x, UpperBound)
            /\ Clamp(LowerBound, x, UpperBound) <= UpperBound
        BY <1>3, <1>4, <2>1, <2>3 DEF Clamp, AtLeast, AtMost
      <3> QED  BY <3>1, <3>2
    <2> QED  BY <2>2, <2>3
  <1> HIDE DEF b
  <1>6. ASSUME b = boundaryIdx PROVE Typing(b)[i] = type[i]
    BY <1>6 DEF Typing
  <1>7. ASSUME b # boundaryIdx PROVE Typing(b)[i] = type[i]
    <2>1. Typing(b)[i] = RoleOf(b, i)
      BY <1>7 DEF Typing, Roles
    <2>2. type[i] \in Sides
      BY DEF GridOK
    <2>3. CASE type[i] = "buy"
      <3>1. i < b
        BY <1>1, <1>3, <1>5, <1>7, <2>3 DEF Typed
      <3>2. Role(b, i) = "buy"
        BY <1>1, <1>5, <3>1 DEF Role, InRail
      <3> QED  BY <2>1, <2>3, <3>2 DEF RoleOf
    <2>4. CASE type[i] = "sell"
      <3>1. b < i
        BY <1>1, <1>4, <1>5, <1>7, <2>4 DEF Typed
      <3>2. Role(b, i) \in {"sell", "spread"}
        BY <1>1, <1>5, <3>1 DEF Role, InRail
      <3> QED  BY <2>1, <2>4, <3>2 DEF RoleOf
    <2> QED  BY <2>2, <2>3, <2>4 DEF Sides
  <1>8. b \in Int /\ Typing(b)[i] = type[i]
    BY <1>5, <1>6, <1>7
  <1> QED  BY <1>8 DEF b

\* The working grid of a correction.
LEMMA FundKeeps ==
    ASSUME GridOK(type, placed), boundaryIdx \in 0 .. Ceiling, NEW x \in 0 .. Ceiling,
           NEW sides, NEW acted \in SUBSET Sides
    PROVE  LET b == FundBoundary(x)
           IN /\ b \in Int
              /\ Keeps(FundGrid(acted, b), FundActions(sides, acted, b))
              /\ GridOK(FundGrid(acted, b).type, FundGrid(acted, b).placed)
  <1> DEFINE b == FundBoundary(x)
             out == UNION {Excess(side, b) : side \in acted}
             w == FundGrid(acted, b)
  <1>0. b \in Int
    <2>1. Ceiling \in Nat /\ Top \in Nat /\ boundaryIdx \in Int /\ x \in Int
      BY Constants
    <2>2. CASE LowerBound > UpperBound
      BY <2>1, <2>2 DEF FundBoundary
    <2>3. CASE ~(LowerBound > UpperBound)
      <3>1. Typed("buy") \in SUBSET Nat /\ Typed("sell") \in SUBSET Nat /\ \A s : \A j \in Typed(s) : j <= Top
        BY Constants DEF Typed, Levels
      <3>2. LowerBound \in Int
        <4>1. CASE Typed("buy") = {}
          BY <4>1 DEF LowerBound
        <4>2. CASE Typed("buy") # {}
          <5>1. Max(Typed("buy")) \in Typed("buy")
            BY <2>1, <3>1, <4>2, MaxOf
          <5>2. Max(Typed("buy")) \in Nat
            BY <3>1, <5>1
          <5> QED  BY <4>2, <5>2 DEF LowerBound
        <4> QED  BY <4>1, <4>2
      <3>3. UpperBound \in Int
        <4>1. CASE Typed("sell") = {}
          BY <2>1, <4>1 DEF UpperBound
        <4>2. CASE Typed("sell") # {}
          <5>1. Min(Typed("sell")) \in Typed("sell")
            BY <3>1, <4>2, MinOf
          <5>2. Min(Typed("sell")) \in Nat
            BY <3>1, <5>1
          <5> QED  BY <4>2, <5>2 DEF UpperBound
        <4> QED  BY <4>1, <4>2
      <3>4. b = Clamp(LowerBound, x, UpperBound)
        BY <2>3 DEF FundBoundary
      <3>5. Clamp(LowerBound, x, UpperBound) \in Int
        BY <2>1, <2>3, <3>2, <3>3 DEF Clamp, AtLeast, AtMost
      <3> QED  BY <3>4, <3>5
    <2> QED  BY <2>2, <2>3
  <1>1. \A i \in Levels : placed[i] # "no" => Typing(b)[i] = type[i]
    BY FundTypes
  <1>2. \A i \in Levels : Typing(b)[i] \in SlotTypes
    BY <1>0, TypingTypes
  <1>3. /\ PlanOK(b, FundActions(sides, acted, b))
        /\ \A i : i \in Ats(FundActions(sides, acted, b))
                  <=> \E side \in Sides : side \in acted /\ i \in Excess(side, b)
    BY <1>0, FundPlan
  <1> HIDE DEF b
  <1>4. /\ w.type = [i \in Levels |-> IF i \in out THEN "spread" ELSE Typing(b)[i]]
        /\ w.placed = [i \in Levels |-> IF i \in out THEN "no" ELSE placed[i]]
    BY DEF FundGrid
  <1>5. \A i : i \in out <=> \E side \in acted : i \in Excess(side, b)
    OBVIOUS
  <1> HIDE DEF w, out
  <1>6. \A i : i \in out <=> i \in Ats(FundActions(sides, acted, b))
    BY <1>3, <1>5
  <1>7. Keeps(w, FundActions(sides, acted, b))
    BY <1>1, <1>4, <1>6 DEF Keeps
  <1>8. GridOK(w.type, w.placed)
    <2>1. w.type \in [Levels -> SlotTypes]
      BY <1>2, <1>4 DEF SlotTypes
    <2>2. w.placed \in [Levels -> Holdings]
      BY <1>4 DEF GridOK, Holdings
    <2>3. \A i \in Levels : w.placed[i] # "no" => w.type[i] \in Sides
      BY <1>1, <1>4 DEF GridOK
    <2> QED  BY <2>1, <2>2, <2>3 DEF GridOK
  <1> QED  BY <1>0, <1>7, <1>8 DEF b, w

-----------------------------------------------------------------------------
\* The operations built from a plan.

\* Orders that operations place on the two sides do not meet.
Apart(ops) ==
    \A k, l \in DOMAIN ops : /\ Places(ops[k]) /\ ops[k].side = "buy"
                             /\ Places(ops[l]) /\ ops[l].side = "sell"
                             => ops[k].to < ops[l].to
\* An order is placed beyond one of the other side only when that one is cancelled before.
Uncrossed(ty, pl, ops) ==
    \A k \in DOMAIN ops, i \in Levels :
        Places(ops[k]) /\ pl[i] # "no" /\ ty[i] # ops[k].side /\ Beyond(ops[k].side, ops[k].to, i)
        => \E l \in 1 .. (k - 1) : ops[l].kind = "cancel" /\ ops[l].at = i
\* Operations that can be sent: each takes an order the grid has and places one where it has none, and none meets another.
ActionOK(a) == a \in Action /\ (a.kind # "move" => a.to = a.at)
OpsOK(ty, pl, ops) ==
    /\ ops \in Seq(Action)
    /\ \A k \in DOMAIN ops : ActionOK(ops[k]) /\ Removable(ty, pl, ops[k]) /\ Placeable(ty, pl, ops[k])
    /\ Distinct(ops) /\ Apart(ops) /\ Uncrossed(ty, pl, ops)

\* The operations built from the first k actions of the plan p.
Listed(ops, cancelled) ==
    \A i \in cancelled : \E l \in DOMAIN ops : ops[l].kind = "cancel" /\ ops[l].at = i
OpsBuilt(b, p, k, ops, cancelled) ==
    /\ PlanOK(b, ops)
    /\ \A x : x \in Tos(ops) => \E l \in 1 .. k : Places(p[l]) /\ p[l].to = x
    /\ \A x : x \in Ats(ops) => \E l \in 1 .. k : Removes(p[l]) /\ p[l].at = x
    /\ Listed(ops, cancelled) /\ Uncrossed(type, placed, ops)
\* An order that an action takes is taken by an operation, is kept or is gone.
Settles(p, k, ops, skipped) ==
    \A l \in 1 .. k : Removes(p[l]) => p[l].at \in Ats(ops) \/ p[l].at \in skipped \/ Gone(p[l].at)
Shaped(acc) ==
    acc = [ops |-> acc.ops, cancelled |-> acc.cancelled, made |-> acc.made, skipped |-> acc.skipped]
Built(b, p, k, acc) ==
    Shaped(acc) /\ OpsBuilt(b, p, k, acc.ops, acc.cancelled) /\ Settles(p, k, acc.ops, acc.skipped)

\* The operation x that the action k of the plan becomes.
Becomes(b, x, a) ==
    /\ Sound(b, x)
    /\ Places(x) => Places(a) /\ x.to = a.to
    /\ Removes(x) => Removes(a) /\ x.at = a.at

\* The operations after x, and the slots C whose cancel comes before.
Fits(acc, x, C) ==
    /\ Places(x) => ~CrossesGrid(acc, x.side, x.to)
    /\ \A i \in C : i \in acc.cancelled \/ (x.kind = "cancel" /\ i = x.at)
Grown(b, p, k, ops, x, r, C) ==
    /\ OpsBuilt(b, p, k, r, C)
    /\ \A i : i \in Ats(r) <=> i \in Ats(ops) \/ (Removes(x) /\ i = x.at)

\* One more operation, built from the next action of the plan, leaves the list well built.
LEMMA OpsGrow ==
    ASSUME NEW b, NEW p, PlanOK(b, p), NEW k \in DOMAIN p, NEW acc, NEW x, NEW C,
           OpsBuilt(b, p, k - 1, acc.ops, acc.cancelled), Becomes(b, x, p[k]), Fits(acc, x, C)
    PROVE  Grown(b, p, k, acc.ops, x, Append(acc.ops, x), C)
  <1> DEFINE q == acc.ops
             r == Append(q, x)
             n == Len(q)
  <1>1. Len(p) \in Nat /\ DOMAIN p = 1 .. Len(p) /\ k \in Nat
    BY DEF PlanOK
  <1>2. \A l \in 1 .. (k - 1) : l \in DOMAIN p /\ l # k /\ l \in 1 .. k
    BY <1>1
  <1>3. k \in 1 .. k
    BY <1>1
  <1>4. Joins(x, q)
    <2>1. ASSUME Places(x), x.to \in Tos(q) PROVE FALSE
      <3>1. PICK l \in 1 .. (k - 1) : Places(p[l]) /\ p[l].to = x.to
        BY <2>1 DEF OpsBuilt
      <3> QED  BY <1>2, <2>1, <3>1 DEF Becomes, PlanOK, Distinct
    <2>2. ASSUME Removes(x), x.at \in Ats(q) PROVE FALSE
      <3>1. PICK l \in 1 .. (k - 1) : Removes(p[l]) /\ p[l].at = x.at
        BY <2>2 DEF OpsBuilt
      <3> QED  BY <1>2, <2>2, <3>1 DEF Becomes, PlanOK, Distinct
    <2> QED  BY <2>1, <2>2 DEF Joins
  <1>5. Appended(b, q, x, r)
    BY <1>4, AppendPlan DEF OpsBuilt, Becomes
  <1>6. q \in Seq(Action) /\ x \in Action
    BY DEF OpsBuilt, PlanOK, Becomes, Sound
  <1>7. /\ n \in Nat /\ DOMAIN q = 1 .. n /\ DOMAIN r = 1 .. (n + 1)
        /\ r[n + 1] = x /\ \A l \in 1 .. n : r[l] = q[l]
    <2>1. n \in Nat /\ DOMAIN q = 1 .. n
      BY <1>6
    <2>2. r \in Seq(Action) /\ Len(r) = n + 1 /\ r[n + 1] = x /\ \A l \in 1 .. n : r[l] = q[l]
      BY <1>6, AppendProperties
    <2> QED  BY <2>1, <2>2
  <1> HIDE DEF r, n
  <1>8. \A i : i \in Tos(r) => \E l \in 1 .. k : Places(p[l]) /\ p[l].to = i
    <2> SUFFICES ASSUME NEW i, i \in Tos(r) PROVE \E l \in 1 .. k : Places(p[l]) /\ p[l].to = i
      OBVIOUS
    <2>1. CASE i \in Tos(q)
      BY <1>2, <2>1 DEF OpsBuilt
    <2>2. CASE Places(x) /\ i = x.to
      BY <1>3, <2>2 DEF Becomes
    <2> QED  BY <1>5, <2>1, <2>2 DEF Appended
  <1>9. \A i : i \in Ats(r) => \E l \in 1 .. k : Removes(p[l]) /\ p[l].at = i
    <2> SUFFICES ASSUME NEW i, i \in Ats(r) PROVE \E l \in 1 .. k : Removes(p[l]) /\ p[l].at = i
      OBVIOUS
    <2>1. CASE i \in Ats(q)
      BY <1>2, <2>1 DEF OpsBuilt
    <2>2. CASE Removes(x) /\ i = x.at
      BY <1>3, <2>2 DEF Becomes
    <2> QED  BY <1>5, <2>1, <2>2 DEF Appended
  <1>10. Listed(r, C)
    <2> SUFFICES ASSUME NEW i \in C PROVE \E l \in 1 .. (n + 1) : r[l].kind = "cancel" /\ r[l].at = i
      BY <1>7 DEF Listed
    <2>0. i \in acc.cancelled \/ (x.kind = "cancel" /\ i = x.at)
      BY DEF Fits
    <2>1. CASE i \in acc.cancelled
      <3>1. PICK l \in 1 .. n : q[l].kind = "cancel" /\ q[l].at = i
        BY <1>7, <2>1 DEF OpsBuilt, Listed
      <3>2. l \in 1 .. (n + 1) /\ r[l] = q[l]
        BY <1>7
      <3> QED  BY <3>1, <3>2
    <2>2. CASE x.kind = "cancel" /\ i = x.at
      <3>1. n + 1 \in 1 .. (n + 1)
        BY <1>7
      <3> QED  BY <1>7, <2>2, <3>1
    <2> QED  BY <2>0, <2>1, <2>2
  <1>11. Uncrossed(type, placed, r)
    <2> SUFFICES ASSUME NEW m \in 1 .. (n + 1), NEW i \in Levels, Places(r[m]), placed[i] # "no",
                        type[i] # r[m].side, Beyond(r[m].side, r[m].to, i)
                 PROVE  \E l \in 1 .. (m - 1) : r[l].kind = "cancel" /\ r[l].at = i
      BY <1>7 DEF Uncrossed
    <2>1. CASE m \in 1 .. n
      <3>1. r[m] = q[m]
        BY <1>7, <2>1
      <3>2. PICK l \in 1 .. (m - 1) : q[l].kind = "cancel" /\ q[l].at = i
        BY <1>7, <2>1, <3>1 DEF OpsBuilt, Uncrossed
      <3>3. l \in 1 .. n
        BY <1>7, <2>1
      <3> QED  BY <1>7, <3>2, <3>3
    <2>2. CASE m = n + 1
      <3>1. r[m] = x /\ m - 1 = n
        BY <1>7, <2>2
      <3>2. i \in acc.cancelled
        BY <3>1 DEF CrossesGrid, Fits
      <3>3. PICK l \in 1 .. n : q[l].kind = "cancel" /\ q[l].at = i
        BY <1>7, <3>2 DEF OpsBuilt, Listed
      <3> QED  BY <1>7, <3>1, <3>3
    <2>3. m \in 1 .. n \/ m = n + 1
      BY <1>7
    <2> QED  BY <2>1, <2>2, <2>3
  <1>12. OpsBuilt(b, p, k, r, C)
    BY <1>5, <1>8, <1>9, <1>10, <1>11 DEF OpsBuilt, Appended
  <1>13. \A i : i \in Ats(r) <=> i \in Ats(q) \/ (Removes(x) /\ i = x.at)
    BY <1>5 DEF Appended
  <1> QED  BY <1>12, <1>13 DEF r, Grown

\* An action that adds no operation.
LEMMA OpsStay ==
    ASSUME NEW b, NEW p, PlanOK(b, p), NEW k \in DOMAIN p, NEW ops, NEW C, OpsBuilt(b, p, k - 1, ops, C)
    PROVE  OpsBuilt(b, p, k, ops, C)
  <1>1. \A l \in 1 .. (k - 1) : l \in 1 .. k
    BY DEF PlanOK
  <1>2. \A i : i \in Tos(ops) => \E l \in 1 .. k : Places(p[l]) /\ p[l].to = i
    BY <1>1 DEF OpsBuilt
  <1>3. \A i : i \in Ats(ops) => \E l \in 1 .. k : Removes(p[l]) /\ p[l].at = i
    BY <1>1 DEF OpsBuilt
  <1> QED  BY <1>2, <1>3 DEF OpsBuilt

\* What was settled stays settled with more operations and more skipped slots.
LEMMA SettlesGrow ==
    ASSUME NEW p, NEW k \in Nat \ {0}, NEW ops, NEW skipped, NEW r, NEW more,
           Settles(p, k - 1, ops, skipped),
           \A x : x \in Ats(ops) => x \in Ats(r),
           \A x : x \in skipped => x \in more,
           Removes(p[k]) => p[k].at \in Ats(r) \/ p[k].at \in more \/ Gone(p[k].at)
    PROVE  Settles(p, k, r, more)
  <1>1. \A l \in 1 .. k : l \in 1 .. (k - 1) \/ l = k
    OBVIOUS
  <1> QED  BY <1>1 DEF Settles

\* Building the operation of the next action leaves the list well built, whatever guard it meets.
LEMMA BuildStep ==
    ASSUME NEW b, NEW p, PlanOK(b, p), NEW k \in DOMAIN p, NEW acc, NEW grows, Built(b, p, k - 1, acc)
    PROVE  Built(b, p, k, BuildOp(acc, p[k], grows))
  <1> DEFINE a == p[k]
  <1>1. k \in Nat \ {0} /\ Sound(b, a)
    BY DEF PlanOK
  <1>2. Becomes(b, a, a)
    BY <1>1 DEF Becomes
  <1>3. a \in Action /\ a.kind \in Kinds /\ (a.kind # "move" => a.to = a.at)
    BY <1>1 DEF Sound, Action
  <1>4. Shaped(acc) /\ OpsBuilt(b, p, k - 1, acc.ops, acc.cancelled) /\ Settles(p, k - 1, acc.ops, acc.skipped)
    BY DEF Built
  <1>5. OpsBuilt(b, p, k, acc.ops, acc.cancelled)
    BY <1>4, OpsStay
  <1> HIDE DEF a
  <1>6. CASE a.kind = "cancel"
    <2> DEFINE r == Append(acc.ops, a)
               C == acc.cancelled \cup {a.at}
    <2>1. BuildOp(acc, a, grows) = [ops |-> r, cancelled |-> C, made |-> acc.made, skipped |-> acc.skipped]
      BY <1>4, <1>6 DEF BuildOp, BuildCancel, Shaped
    <2>2. ~Places(a) /\ Removes(a) /\ \A i \in C : i \in acc.cancelled \/ (a.kind = "cancel" /\ i = a.at)
      BY <1>6 DEF Places, Removes
    <2>3. Fits(acc, a, C)
      BY <2>2 DEF Fits
    <2> HIDE DEF C
    <2>4. Grown(b, p, k, acc.ops, a, r, C)
      BY <1>2, <1>4, <2>3, OpsGrow DEF a
    <2>5. OpsBuilt(b, p, k, r, C) /\ \A i : i \in Ats(r) <=> i \in Ats(acc.ops) \/ (Removes(a) /\ i = a.at)
      BY <2>4 DEF Grown
    <2> HIDE DEF r
    <2>6. Settles(p, k, r, acc.skipped)
      BY <1>1, <1>4, <2>2, <2>5, SettlesGrow DEF a
    <2>7. Built(b, p, k, BuildOp(acc, a, grows))
      BY <2>1, <2>5, <2>6 DEF Built, Shaped
    <2> QED  BY <2>7 DEF a
  <1>7. CASE a.kind = "create"
    <2>1. ~Removes(a)
      BY <1>7 DEF Removes
    <2>2. Settles(p, k, acc.ops, acc.skipped)
      BY <1>1, <1>4, <2>1, SettlesGrow DEF a
    <2>3. CASE BuildOp(acc, a, grows) = acc
      <3>1. Built(b, p, k, acc)
        BY <1>4, <1>5, <2>2 DEF Built
      <3> QED  BY <2>3, <3>1 DEF a
    <2>4. CASE BuildOp(acc, a, grows) = Placing(acc, a, a.at) /\ ~CrossesGrid(acc, a.side, a.at)
      <3> DEFINE r == Append(acc.ops, a)
                 m == acc.made \cup {[kind |-> a.kind, side |-> a.side, at |-> a.at]}
      <3>1. BuildOp(acc, a, grows)
            = [ops |-> r, cancelled |-> acc.cancelled, made |-> m, skipped |-> acc.skipped]
        BY <1>4, <2>4 DEF Placing, Shaped
      <3>2. OpsBuilt(b, p, k, r, acc.cancelled)
            /\ \A i : i \in Ats(r) <=> i \in Ats(acc.ops) \/ (Removes(a) /\ i = a.at)
        <4>1. Fits(acc, a, acc.cancelled)
          BY <1>3, <1>7, <2>4 DEF Fits
        <4>2. Grown(b, p, k, acc.ops, a, r, acc.cancelled)
          BY <1>4, <1>2, <4>1, OpsGrow DEF a
        <4> QED  BY <4>2 DEF Grown
      <3> HIDE DEF r, m
      <3>3. Settles(p, k, r, acc.skipped)
        BY <1>1, <1>4, <2>1, <3>2, SettlesGrow DEF a
      <3>4. Built(b, p, k, BuildOp(acc, a, grows))
        BY <3>1, <3>2, <3>3 DEF Built, Shaped
      <3> QED  BY <3>4 DEF a
    <2>5. BuildOp(acc, a, grows) = BuildCreate(acc, a)
      BY <1>7 DEF BuildOp
    <2> QED  BY <2>3, <2>4, <2>5 DEF BuildCreate
  <1>8. CASE a.kind = "move"
    <2>0. Places(a) /\ Removes(a)
      BY <1>8 DEF Removes, Places
    <2>1. BuildOp(acc, a, grows) = BuildMove(acc, a, grows)
      BY <1>8 DEF BuildOp
    <2>2. CASE BuildOp(acc, a, grows) = Skipping(acc, a)
      <3> DEFINE s == acc.skipped \cup {a.at, a.to}
      <3>1. BuildOp(acc, a, grows)
            = [ops |-> acc.ops, cancelled |-> acc.cancelled, made |-> acc.made, skipped |-> s]
        BY <1>4, <2>2 DEF Skipping, Shaped
      <3>2. a.at \in s /\ \A x : x \in acc.skipped => x \in s
        OBVIOUS
      <3> HIDE DEF s
      <3>3. Settles(p, k, acc.ops, s)
        BY <1>1, <1>4, <3>2, SettlesGrow DEF a
      <3>4. Built(b, p, k, BuildOp(acc, a, grows))
        BY <1>5, <3>1, <3>3 DEF Built, Shaped
      <3> QED  BY <3>4 DEF a
    <2>3. CASE BuildOp(acc, a, grows) = acc /\ Gone(a.at)
      <3>1. Settles(p, k, acc.ops, acc.skipped)
        BY <1>1, <1>4, <2>3, SettlesGrow DEF a
      <3>2. Built(b, p, k, acc)
        BY <1>4, <1>5, <3>1 DEF Built
      <3> QED  BY <2>3, <3>2 DEF a
    <2>4. CASE /\ BuildOp(acc, a, grows) = [acc EXCEPT !.ops = Append(@, CreateAct(a.side, a.to))]
               /\ Gone(a.at) /\ ~CrossesGrid(acc, a.side, a.to)
      <3> DEFINE x == CreateAct(a.side, a.to)
                 r == Append(acc.ops, x)
      <3>1. BuildOp(acc, a, grows)
            = [ops |-> r, cancelled |-> acc.cancelled, made |-> acc.made, skipped |-> acc.skipped]
        BY <1>4, <2>4 DEF Shaped
      <3>2. x \in Action /\ x.kind = "create" /\ x.to = a.to /\ x.at = a.to /\ x.side = a.side
        BY <1>3 DEF CreateAct, Act, Action, Kinds
      <3> HIDE DEF x
      <3>3. ~Removes(x) /\ Places(x)
        BY <3>2 DEF Removes, Places
      <3>4. Becomes(b, x, a)
        BY <1>1, <2>0, <3>2, <3>3 DEF Becomes, Sound, Removable, Placeable
      <3>5. OpsBuilt(b, p, k, r, acc.cancelled)
            /\ \A i : i \in Ats(r) <=> i \in Ats(acc.ops) \/ (Removes(x) /\ i = x.at)
        <4>1. Fits(acc, x, acc.cancelled)
          BY <2>4, <3>2 DEF Fits
        <4>2. Grown(b, p, k, acc.ops, x, r, acc.cancelled)
          BY <1>4, <3>4, <4>1, OpsGrow DEF a
        <4> QED  BY <4>2 DEF Grown
      <3> HIDE DEF r
      <3>6. Settles(p, k, r, acc.skipped)
        BY <1>1, <1>4, <2>4, <3>5, SettlesGrow DEF a
      <3>7. Built(b, p, k, BuildOp(acc, a, grows))
        BY <3>1, <3>5, <3>6 DEF Built, Shaped
      <3> QED  BY <3>7 DEF a
    <2>5. CASE BuildOp(acc, a, grows) = Placing(acc, a, a.to) /\ ~CrossesGrid(acc, a.side, a.to)
      <3> DEFINE r == Append(acc.ops, a)
                 m == acc.made \cup {[kind |-> a.kind, side |-> a.side, at |-> a.to]}
      <3>1. BuildOp(acc, a, grows)
            = [ops |-> r, cancelled |-> acc.cancelled, made |-> m, skipped |-> acc.skipped]
        BY <1>4, <2>5 DEF Placing, Shaped
      <3>2. OpsBuilt(b, p, k, r, acc.cancelled)
            /\ \A i : i \in Ats(r) <=> i \in Ats(acc.ops) \/ (Removes(a) /\ i = a.at)
        <4>1. Fits(acc, a, acc.cancelled)
          BY <2>5 DEF Fits
        <4>2. Grown(b, p, k, acc.ops, a, r, acc.cancelled)
          BY <1>4, <1>2, <4>1, OpsGrow DEF a
        <4> QED  BY <4>2 DEF Grown
      <3> HIDE DEF r, m
      <3>3. Settles(p, k, r, acc.skipped)
        BY <1>1, <1>4, <2>0, <3>2, SettlesGrow DEF a
      <3>4. Built(b, p, k, BuildOp(acc, a, grows))
        BY <3>1, <3>2, <3>3 DEF Built, Shaped
      <3> QED  BY <3>4 DEF a
    <2> QED  BY <2>1, <2>2, <2>3, <2>4, <2>5 DEF BuildMove, BuildFallback
  <1> QED  BY <1>3, <1>6, <1>7, <1>8 DEF Kinds

-----------------------------------------------------------------------------
\* All the operations of a plan, and the batch that begins with them.

\* A computation of the operations of the first n actions of p.
BuildWalk(f, n, p, grows) == f[0] = NoOps /\ \A k \in 1 .. n : f[k] = BuildOp(f[k - 1], p[k], grows)

\* The operations can be built up to any number of actions.
LEMMA BuildWalks ==
    ASSUME NEW N \in Nat, NEW p, NEW grows
    PROVE  \A n \in 0 .. N : \E f : BuildWalk(f, n, p, grows)
  <1> DEFINE S == {n \in 0 .. N : \E f : BuildWalk(f, n, p, grows)}
  <1>1. 0 \in S
    <2> DEFINE f == [k \in 0 .. 0 |-> NoOps]
    <2>1. BuildWalk(f, 0, p, grows)
      BY DEF BuildWalk
    <2> HIDE DEF f
    <2> QED  BY <2>1
  <1>2. ASSUME NEW n \in 1 .. N, n - 1 \in S PROVE n \in S
    <2>1. PICK f : BuildWalk(f, n - 1, p, grows)
      BY <1>2
    <2> DEFINE g == [k \in 0 .. n |-> IF k = n THEN BuildOp(f[n - 1], p[n], grows) ELSE f[k]]
    <2>2. g[0] = NoOps
      BY <2>1 DEF BuildWalk
    <2>3. ASSUME NEW k \in 1 .. n PROVE g[k] = BuildOp(g[k - 1], p[k], grows)
      <3>1. g[k - 1] = f[k - 1]
        OBVIOUS
      <3>2. CASE k = n
        BY <3>1, <3>2
      <3>3. CASE k # n
        <4>1. k \in 1 .. (n - 1)
          BY <3>3
        <4>2. f[k] = BuildOp(f[k - 1], p[k], grows)
          BY <2>1, <4>1 DEF BuildWalk
        <4> QED  BY <3>1, <3>3, <4>2
      <3> QED  BY <3>2, <3>3
    <2>4. BuildWalk(g, n, p, grows)
      BY <2>2, <2>3 DEF BuildWalk
    <2> HIDE DEF g
    <2>5. n \in 0 .. N
      OBVIOUS
    <2> QED  BY <2>4, <2>5
  <1> HIDE DEF S
  <1>3. \A n \in 0 .. N : n \in S
    BY <1>1, <1>2, UpTo
  <1> QED  BY <1>3 DEF S

\* What the executor builds is the last state of such a computation.
LEMMA BuildOpsWalk ==
    ASSUME NEW p, Len(p) \in Nat, NEW grows
    PROVE  \E f : BuildWalk(f, Len(p), p, grows) /\ BuildOps(p, grows) = f[Len(p)]
  <1> DEFINE N == Len(p)
             g == CHOOSE f : f = [k \in 0 .. N |-> IF k = 0 THEN NoOps ELSE BuildOp(f[k - 1], p[k], grows)]
  <1>1. PICK f : BuildWalk(f, N, p, grows)
    <2>1. N \in 0 .. N /\ N \in Nat
      OBVIOUS
    <2> HIDE DEF N
    <2> QED  BY <2>1, BuildWalks
  <1> DEFINE h == [k \in 0 .. N |-> f[k]]
  <1>2. h = [k \in 0 .. N |-> IF k = 0 THEN NoOps ELSE BuildOp(h[k - 1], p[k], grows)]
    <2>1. ASSUME NEW k \in 0 .. N PROVE f[k] = IF k = 0 THEN NoOps ELSE BuildOp(h[k - 1], p[k], grows)
      <3>1. CASE k = 0
        BY <1>1, <3>1 DEF BuildWalk
      <3>2. CASE k # 0
        <4>1. k \in 1 .. N /\ k - 1 \in 0 .. N
          BY <3>2
        <4>2. h[k - 1] = f[k - 1]
          BY <4>1
        <4> QED  BY <1>1, <3>2, <4>1, <4>2 DEF BuildWalk
      <3> QED  BY <3>1, <3>2
    <2> QED  BY <2>1
  <1>3. \E e : e = [k \in 0 .. N |-> IF k = 0 THEN NoOps ELSE BuildOp(e[k - 1], p[k], grows)]
    BY <1>2
  <1>4. g = [k \in 0 .. N |-> IF k = 0 THEN NoOps ELSE BuildOp(g[k - 1], p[k], grows)]
    BY <1>3
  <1>5. BuildOps(p, grows) = g[N]
    BY DEF BuildOps
  <1> HIDE DEF g
  <1>6. BuildWalk(g, N, p, grows)
    <2>1. g[0] = NoOps
      BY <1>4
    <2>2. ASSUME NEW k \in 1 .. N PROVE g[k] = BuildOp(g[k - 1], p[k], grows)
      <3>1. k \in 0 .. N /\ k # 0
        OBVIOUS
      <3> QED  BY <1>4, <3>1
    <2> QED  BY <2>1, <2>2 DEF BuildWalk
  <1> QED  BY <1>5, <1>6

\* All the operations of a plan.
LEMMA BuildOpsBuilt ==
    ASSUME NEW b, NEW p, PlanOK(b, p), NEW grows
    PROVE  Built(b, p, Len(p), BuildOps(p, grows))
  <1>1. Len(p) \in Nat /\ DOMAIN p = 1 .. Len(p)
    BY DEF PlanOK
  <1> DEFINE N == Len(p)
  <1>2. PICK f : BuildWalk(f, N, p, grows) /\ BuildOps(p, grows) = f[N]
    BY <1>1, BuildOpsWalk
  <1> DEFINE S == {k \in 0 .. N : Built(b, p, k, f[k])}
  <1>3. 0 \in S
    <2>1. Built(b, p, 0, NoOps)
      <3>1. Shaped(NoOps) /\ NoOps.ops = <<>> /\ NoOps.cancelled = {} /\ NoOps.skipped = {}
        BY DEF Shaped, NoOps
      <3>2. Settles(p, 0, <<>>, {})
        BY DEF Settles
      <3>3. Listed(<<>>, {}) /\ Uncrossed(type, placed, <<>>)
        BY DEF Listed, Uncrossed
      <3>4. OpsBuilt(b, p, 0, <<>>, {})
        BY <3>3, EmptyPlan DEF OpsBuilt
      <3> QED  BY <3>1, <3>2, <3>4 DEF Built
    <2> QED  BY <1>1, <1>2, <2>1 DEF BuildWalk
  <1>4. ASSUME NEW k \in 1 .. N, k - 1 \in S PROVE k \in S
    <2>1. Built(b, p, k - 1, f[k - 1]) /\ k \in DOMAIN p /\ k \in 0 .. N
      BY <1>1, <1>4
    <2>2. f[k] = BuildOp(f[k - 1], p[k], grows)
      BY <1>2 DEF BuildWalk
    <2>3. Built(b, p, k, f[k])
      BY <2>1, <2>2, BuildStep
    <2> QED  BY <2>1, <2>3
  <1> HIDE DEF S
  <1>5. \A k \in 0 .. N : k \in S
    BY <1>1, <1>3, <1>4, UpTo
  <1>6. N \in S
    BY <1>1, <1>5
  <1> QED  BY <1>2, <1>6 DEF S

\* Operations that are a plan and meet nothing of the grid can be sent.
LEMMA PlanOps ==
    ASSUME NEW b \in Int, NEW ops, PlanOK(b, ops), Uncrossed(type, placed, ops)
    PROVE  OpsOK(type, placed, ops)
  <1>1. \A k \in DOMAIN ops : Sound(b, ops[k])
    BY DEF PlanOK
  <1>2. Apart(ops)
    <2> SUFFICES ASSUME NEW k \in DOMAIN ops, NEW l \in DOMAIN ops, Places(ops[k]), ops[k].side = "buy",
                        Places(ops[l]), ops[l].side = "sell"
                 PROVE  ops[k].to < ops[l].to
      BY DEF Apart
    <2>1. InRail("buy", b, ops[k].to) /\ InRail("sell", b, ops[l].to)
      BY <1>1 DEF Sound
    <2>2. ops[k].to \in Levels /\ ops[l].to \in Levels
      BY <1>1 DEF Sound, Action
    <2> QED  BY <2>1, <2>2, RailsApart
  <1> QED  BY <1>1, <1>2 DEF OpsOK, PlanOK, Sound, ActionOK

-----------------------------------------------------------------------------
\* What a batch leaves on chain without an operation stays in its working grid.
Removed(ops, n, i) == \E k \in 1 .. n : Removes(ops[k]) /\ ops[k].at = i
KeepOK(ty, pl, lv, b) ==
    \A i \in Levels : pl[i] # "no" /\ lv[ty[i]][i] = 1 /\ ~Removed(b.ops, Len(b.ops), i)
                      => b.type[i] = ty[i] /\ b.placed[i] # "no"

\* The fields of a batch.
BatchRecord(b) ==
    b = [ops |-> b.ops, pos |-> b.pos, type |-> b.type, placed |-> b.placed, target |-> b.target,
         chunk |-> b.chunk]

\* A batch that has just been made.
Fresh(new, target, chunk) ==
    /\ BatchRecord(new) /\ new.ops # <<>> /\ new.pos = 0 /\ new.target = target /\ new.chunk = chunk
    /\ GridOK(new.type, new.placed) /\ OpsOK(type, placed, new.ops)

\* While no operations of failed batches are on chain every order is where its slot is.
LEMMA NotMoved == ASSUME landed = <<>> PROVE \A i : Where(i) = i
  BY DEF Where, MovesFrom

\* A batch that begins has sent nothing, and its grid keeps the orders that its operations
\* leave, unless an earlier batch has moved them.
LEMMA FreshBatch ==
    ASSUME GridOK(type, placed), NEW b \in Int, NEW p, PlanOK(b, p), NEW w, Keeps(w, p),
           GridOK(w.type, w.placed), NEW target, NEW chunk, Send(p, w, target, chunk)
    PROVE  \/ batch' = NoBatch
           \/ /\ Fresh(batch', target, chunk) /\ batch' # NoBatch
              /\ landed = <<>> => KeepOK(type, placed, live, batch')
  <1>1. PICK grows \in SUBSET {i \in Levels : placed[i] = "part"} :
           batch' = IF Refused(p) \/ BuildOps(p, grows).ops = <<>> THEN NoBatch
                    ELSE Batch(BuildOps(p, grows), w, target, chunk)
    BY DEF Send
  <1> DEFINE built == BuildOps(p, grows)
             new == Batch(built, w, target, chunk)
  <1>2. Built(b, p, Len(p), built)
    BY BuildOpsBuilt
  <1> HIDE DEF built
  <1> SUFFICES ASSUME batch' = new, built.ops # <<>>
               PROVE  /\ Fresh(new, target, chunk) /\ new # NoBatch
                      /\ landed = <<>> => KeepOK(type, placed, live, new)
    BY <1>1 DEF built
  <1>3. /\ new.ops = built.ops /\ new.pos = 0 /\ new.target = target /\ new.chunk = chunk
        /\ new.type = [i \in Levels |-> IF i \in built.skipped THEN type[i] ELSE w.type[i]]
        /\ new.placed = [i \in Levels |-> IF i \in built.skipped THEN placed[i] ELSE w.placed[i]]
    BY DEF Batch, Kept
  <1>9. BatchRecord(new)
    BY DEF Batch, BatchRecord
  <1> HIDE DEF new
  <1>4. PlanOK(b, built.ops) /\ Uncrossed(type, placed, built.ops) /\ Settles(p, Len(p), built.ops, built.skipped)
    BY <1>2 DEF Built, OpsBuilt
  <1>5. OpsOK(type, placed, new.ops)
    BY <1>3, <1>4, PlanOps
  <1>6. GridOK(new.type, new.placed)
    <2>1. new.type \in [Levels -> SlotTypes]
      BY <1>3 DEF GridOK
    <2>2. new.placed \in [Levels -> Holdings]
      BY <1>3 DEF GridOK
    <2>3. ASSUME NEW i \in Levels, new.placed[i] # "no" PROVE new.type[i] \in Sides
      BY <1>3, <2>3 DEF GridOK
    <2> QED  BY <2>1, <2>2, <2>3 DEF GridOK
  <1>7. ASSUME landed = <<>> PROVE KeepOK(type, placed, live, new)
    <2> SUFFICES ASSUME NEW i \in Levels, placed[i] # "no", live[type[i]][i] = 1,
                        ~Removed(new.ops, Len(new.ops), i)
                 PROVE  new.type[i] = type[i] /\ new.placed[i] # "no"
      BY DEF KeepOK
    <2>1. CASE i \in built.skipped
      BY <1>3, <2>1
    <2>2. CASE i \notin built.skipped
      <3>1. i \notin Ats(built.ops)
        <4>1. DOMAIN new.ops = 1 .. Len(new.ops)
          BY <1>5 DEF OpsOK
        <4> QED  BY <1>3, <4>1, InAts DEF Removed
      <3>2. ~Gone(i)
        BY <1>7, NotMoved DEF Gone
      <3>3. i \notin Ats(p)
        <4>1. DOMAIN p = 1 .. Len(p)
          BY DEF PlanOK
        <4> QED  BY <1>4, <2>2, <3>1, <3>2, <4>1, InAts DEF Settles
      <3> QED  BY <1>3, <2>2, <3>3 DEF Keeps
    <2> QED  BY <2>1, <2>2
  <1>8. new # NoBatch
    <2>1. NoBatch.ops = <<>>
      BY DEF NoBatch
    <2> QED  BY <1>3, <2>1
  <1> QED  BY <1>3, <1>5, <1>6, <1>7, <1>8, <1>9 DEF Fresh

-----------------------------------------------------------------------------
\* The budget of a burst.

\* The budget a burst has left and the shifts it has made are what its plans were given.
SpentOf(b, start, left, again) == Distance(b, start) + left <= BaseBudget * (1 + again)
\* The budget of the burst under way.
Spent(b) == SpentOf(b, burstStart, shiftBudget, replans)
BurstOK ==
    /\ boundaryIdx \in 0 .. Ceiling /\ burstStart \in 0 .. Ceiling
    /\ shiftBudget \in 0 .. BaseBudget /\ replans \in Nat
    /\ BatchRecord(batch) /\ (batch.chunk # <<>> => Busy)
    /\ Spent(boundaryIdx)
    /\ batch.chunk # <<>> => Spent(Gated(batch.target))

\* No batch is a batch without operations and without fills.
LEMMA NoBatchRecord == BatchRecord(NoBatch) /\ NoBatch.chunk = <<>> /\ NoBatch.ops = <<>>
  BY DEF NoBatch, BatchRecord

\* The shift of a plan is within its budget, and the target no further than the shift.
LEMMA Shifts ==
    ASSUME BurstOK, NEW chunk, NetShift(chunk) \in Int, NEW budget \in 0 .. BaseBudget
    PROVE  LET t == Gated(Target(chunk, budget))
               left == BudgetAfter(chunk, budget)
           IN /\ t \in 0 .. Ceiling /\ left \in 0 .. BaseBudget
              /\ Distance(t, burstStart) + left <= Distance(boundaryIdx, burstStart) + budget
  <1> DEFINE s == Shift(chunk, budget)
             x == Target(chunk, budget)
             left == BudgetAfter(chunk, budget)
  <1>1. BaseBudget \in Nat /\ Ceiling \in Nat /\ boundaryIdx \in 0 .. Ceiling /\ burstStart \in 0 .. Ceiling
    BY Constants DEF BurstOK
  <1>2. s \in Int /\ -budget <= s /\ s <= budget
    BY <1>1 DEF Shift, Clamp, AtLeast, AtMost
  <1>3. x = Clamp(0, boundaryIdx + s, Ceiling) /\ left = budget - Distance(s, 0)
    BY DEF Target, BudgetAfter
  <1> HIDE DEF s, x, left
  <1>4. x \in 0 .. Ceiling /\ Distance(x, boundaryIdx) <= Distance(s, 0)
    BY <1>1, <1>2, <1>3 DEF Clamp, AtLeast, AtMost, Distance
  <1>5. left \in 0 .. BaseBudget
    BY <1>1, <1>2, <1>3 DEF Distance, AtLeast
  <1>6. Gated(x) = x
    BY <1>4 DEF Gated
  <1>7. Distance(x, burstStart) <= Distance(x, boundaryIdx) + Distance(boundaryIdx, burstStart)
    BY <1>1, <1>4 DEF Distance, AtLeast
  <1>8. /\ Distance(x, burstStart) \in Int /\ Distance(x, boundaryIdx) \in Int /\ Distance(s, 0) \in Int
        /\ Distance(boundaryIdx, burstStart) \in Int
    BY <1>1, <1>2, <1>4 DEF Distance, AtLeast
  <1>9. Distance(x, burstStart) + left <= Distance(boundaryIdx, burstStart) + budget
    BY <1>3, <1>4, <1>7, <1>8
  <1> QED  BY <1>4, <1>5, <1>6, <1>9 DEF x, left

\* The net shift of a chunk of fills is a number.
LEMMA Nets ==
    ASSUME NEW chunk, DOMAIN chunk = 1 .. Len(chunk), Len(chunk) \in Nat
    PROVE  NetShift(chunk) \in Int
  <1> DEFINE filled(side) == {k \in DOMAIN chunk : chunk[k].side = side}
  <1>1. \A side : IsFiniteSet(filled(side))
    <2>1. IsFiniteSet(DOMAIN chunk)
      BY FS_Interval
    <2> QED  BY <2>1, FS_Subset
  <1>2. \A side : Cardinality(filled(side)) \in Nat
    BY <1>1, FS_CardinalityType
  <1>3. NetShift(chunk) = Cardinality(filled("sell")) - Cardinality(filled("buy"))
    BY DEF NetShift
  <1> HIDE DEF filled
  <1> QED  BY <1>2, <1>3

\* The budget a batch starts from is renewed, or that of the burst.
LEMMA SpentRenews ==
    ASSUME NEW d \in Nat, NEW r \in Nat
    PROVE  /\ BaseBudget <= BaseBudget * (1 + r)
           /\ BaseBudget * (1 + (r + 1)) = BaseBudget * (1 + r) + BaseBudget
           /\ BaseBudget * (1 + r) \in Nat
  BY Constants

\* A burst that starts anew has all of its budget.
LEMMA Restarts ==
    ASSUME NEW b \in 0 .. Ceiling, NEW left \in 0 .. BaseBudget, NEW r \in Nat
    PROVE  SpentOf(b, b, left, r)
  <1>1. BaseBudget \in Nat /\ BaseBudget * (1 + r) \in Nat /\ BaseBudget <= BaseBudget * (1 + r) /\ Ceiling \in Nat
    BY Constants, SpentRenews
  <1>2. Distance(b, b) = 0
    BY <1>1 DEF Distance, AtLeast
  <1> QED  BY <1>1, <1>2 DEF SpentOf

\* A gated boundary is a boundary of the grid.
LEMMA GatedType ==
    ASSUME boundaryIdx \in 0 .. Ceiling, NEW x PROVE Gated(x) \in 0 .. Ceiling
  BY DEF Gated

\* What a step that makes a plan does with the batch.
LEMMA BegunChunk ==
    ASSUME NEW p, NEW w, NEW target, NEW chunk, Begin(p, w, target, chunk)
    PROVE  /\ BatchRecord(batch')
           /\ batch' = NoBatch \/ (batch'.target = target /\ batch'.chunk = chunk /\ batch' # NoBatch)
  <1> SUFFICES ASSUME Send(p, w, target, chunk)
               PROVE  /\ BatchRecord(batch')
                      /\ \/ batch' = NoBatch
                         \/ batch'.target = target /\ batch'.chunk = chunk /\ batch' # NoBatch
    BY NoBatchRecord DEF Begin, TurnAway
  <1>1. PICK grows \in SUBSET {i \in Levels : placed[i] = "part"} :
           batch' = IF Refused(p) \/ BuildOps(p, grows).ops = <<>> THEN NoBatch
                    ELSE Batch(BuildOps(p, grows), w, target, chunk)
    BY DEF Send
  <1> DEFINE built == BuildOps(p, grows)
             new == Batch(built, w, target, chunk)
  <1>2. BatchRecord(new) /\ new.ops = built.ops /\ new.target = target /\ new.chunk = chunk
    BY DEF Batch, BatchRecord
  <1> HIDE DEF built, new
  <1>3. batch' = NoBatch \/ (batch' = new /\ built.ops # <<>>)
    BY <1>1 DEF built, new
  <1> QED  BY <1>2, <1>3, NoBatchRecord

\* A plan pays its shift out of the budget of the burst.
LEMMA RebalancingSpends ==
    ASSUME BurstOK, NEW chunk, DOMAIN chunk = 1 .. Len(chunk), Len(chunk) \in Nat,
           NEW budget \in 0 .. BaseBudget, Rebalancing(chunk, budget),
           UNCHANGED <<boundaryIdx, burstStart>>, replans' \in Nat,
           SpentOf(boundaryIdx, burstStart, budget, replans')
    PROVE  BurstOK'
  <1>1. NetShift(chunk) \in Int
    BY Nets
  <1> DEFINE t == Target(chunk, budget)
             left == BudgetAfter(chunk, budget)
  <1>2. /\ Gated(t) \in 0 .. Ceiling /\ left \in 0 .. BaseBudget
        /\ Distance(Gated(t), burstStart) + left <= Distance(boundaryIdx, burstStart) + budget
    BY <1>1, Shifts
  <1>3. /\ BatchRecord(batch')
        /\ batch' = NoBatch \/ (batch'.target = t /\ batch'.chunk = chunk /\ batch' # NoBatch)
    BY BegunChunk DEF Rebalancing
  <1>4. shiftBudget' = left
    BY DEF Rebalancing
  <1>5. left <= budget
    <2>1. Shift(chunk, budget) \in Int /\ BaseBudget \in Nat
      BY <1>1, Constants DEF Shift, Clamp, AtLeast, AtMost
    <2> QED  BY <2>1 DEF BudgetAfter, Distance, AtLeast
  <1> HIDE DEF t, left
  <1>6. Ceiling \in Nat /\ BaseBudget \in Nat /\ boundaryIdx \in 0 .. Ceiling /\ burstStart \in 0 .. Ceiling
    BY Constants DEF BurstOK
  <1> DEFINE d == Distance(Gated(t), burstStart)
             e == Distance(boundaryIdx, burstStart)
             m == BaseBudget * (1 + replans')
  <1>7. d \in Int /\ e \in Int /\ m \in Int
    <2>1. Gated(t) \in Int /\ burstStart \in Int /\ boundaryIdx \in Int
      BY <1>2, <1>6
    <2>2. m \in Int
      BY SpentRenews
    <2> HIDE DEF m
    <2> QED  BY <2>1, <2>2 DEF Distance, AtLeast
  <1>8. e + budget <= m
    BY DEF SpentOf
  <1>9. SpentOf(Gated(t), burstStart, left, replans') /\ SpentOf(boundaryIdx, burstStart, left, replans')
    <2>1. d + left <= e + budget /\ left \in Int /\ budget \in Int
      BY <1>2, <1>6
    <2> HIDE DEF d, e, m
    <2>2. d + left <= m /\ e + left <= m
      BY <1>5, <1>7, <1>8, <2>1
    <2> QED  BY <2>2 DEF SpentOf, d, e, m
  <1>10. batch'.chunk # <<>> => batch' # NoBatch /\ batch'.target = t
    BY <1>3, NoBatchRecord
  <1>11. Gated(t) = IF t \in 0 .. Ceiling THEN t ELSE boundaryIdx
    BY DEF Gated
  <1>12. batch'.chunk # <<>> => Spent(Gated(batch.target))'
    BY <1>4, <1>9, <1>10, <1>11 DEF Gated, Spent
  <1>13. Spent(boundaryIdx)'
    BY <1>4, <1>9 DEF Spent
  <1>14. (batch.chunk # <<>> => Busy)'
    BY <1>10 DEF Busy
  <1> QED  BY <1>2, <1>3, <1>4, <1>6, <1>12, <1>13, <1>14 DEF BurstOK

\* The start of a burst keeps the accounts of the budget.
LEMMA StartsBurst ==
    ASSUME BurstOK, NEW list, StartBurst(list), UNCHANGED boundaryIdx, batch' = NoBatch
    PROVE  BurstOK'
  <1>1. BatchRecord(batch') /\ batch'.chunk = <<>>
    BY NoBatchRecord
  <1>2. CASE list = <<>>
    BY <1>1, <1>2 DEF StartBurst, BurstOK, burstVars, Spent
  <1>3. CASE list # <<>>
    <2>1. shiftBudget' = BaseBudget /\ burstStart' = boundaryIdx /\ replans' = 0
      BY <1>3 DEF StartBurst
    <2>2. BaseBudget \in 0 .. BaseBudget /\ boundaryIdx \in 0 .. Ceiling
      BY Constants DEF BurstOK
    <2>3. SpentOf(boundaryIdx, boundaryIdx, BaseBudget, 0)
      BY <2>2, Restarts
    <2> QED  BY <1>1, <2>1, <2>2, <2>3 DEF BurstOK, Spent
  <1> QED  BY <1>2, <1>3

\* A grid that is installed outside a burst starts at its boundary.
LEMMA Relocates ==
    ASSUME BurstOK, NEW x, boundaryIdx' = Gated(x), burstStart' = Gated(x), UNCHANGED <<shiftBudget, replans>>,
           batch' = NoBatch
    PROVE  BurstOK'
  <1>1. BatchRecord(batch') /\ batch'.chunk = <<>>
    BY NoBatchRecord
  <1>2. Gated(x) \in 0 .. Ceiling
    BY GatedType DEF BurstOK
  <1>3. SpentOf(Gated(x), Gated(x), shiftBudget, replans)
    BY <1>2, Restarts DEF BurstOK
  <1> QED  BY <1>1, <1>2, <1>3 DEF BurstOK, Spent

-----------------------------------------------------------------------------
\* The invariant: what the book, the grid, the batch and the landed operations have to do with
\* each other.

\* A fill names the side and the slot of the order.
Fill == [side : Sides, at : Levels]

\* The orders that the first n operations have placed, those they have taken away, and those
\* the grid still has or a move can give back.
Made(ops, n, s, i) == \E k \in 1 .. n : Places(ops[k]) /\ ops[k].side = s /\ ops[k].to = i
MovedOff(ops, n, i) == \E k \in 1 .. n : ops[k].kind = "move" /\ ops[k].at = i
Home(ty, pl, lv, ops, n, s, i) ==
    pl[i] # "no" /\ ty[i] = s /\ ((lv[s][i] = 1 /\ ~Removed(ops, n, i)) \/ MovedOff(ops, n, i))

\* Every order on chain is one the operations placed, or one of the grid they left alone.
LiveOK(ty, pl, lv, ops, n) ==
    \A s \in Sides, i \in Levels : lv[s][i] = 1 =>
        Made(ops, n, s, i) \/ (pl[i] # "no" /\ ty[i] = s /\ ~Removed(ops, n, i))
\* No buy at or above a sell.
NoCross(lv) == \A i, j \in Levels : lv["buy"][i] = 1 /\ lv["sell"][j] = 1 => i < j
HomeOK(ty, pl, lv, ops, n) ==
    \A i, j \in Levels : Home(ty, pl, lv, ops, n, "buy", i) /\ Home(ty, pl, lv, ops, n, "sell", j) => i < j
\* The orders of the book beside n operations sent of ops.
BookOK(ty, pl, lv, ops, n) ==
    OpsOK(ty, pl, ops) /\ LiveOK(ty, pl, lv, ops, n) /\ NoCross(lv) /\ HomeOK(ty, pl, lv, ops, n)

\* What holds of the grid, of the fills, of the batch and of what failed batches have left,
\* whatever the bot has lost sight of.
FillsOK == unseen \in Seq(Fill) /\ fills \in Seq(Fill) /\ batch.chunk \in Seq(Fill)
FailureOK == journal \in SUBSET Action /\ adrift \in Nat
BatchOK ==
    Busy => /\ GridOK(batch.type, batch.placed) /\ OpsOK(type, placed, batch.ops)
            /\ batch.ops # <<>> /\ batch.pos \in 0 .. Len(batch.ops)
ShapeOK == GridOK(type, placed) /\ FillsOK /\ BurstOK /\ FailureOK /\ BatchOK

\* What holds of the book until the bot plans on beside orders the grid does not know.
Book == [Sides -> [Levels -> 0 .. 1]]
FillsGone == \A k \in DOMAIN unseen : live[unseen[k].side][unseen[k].at] = 0
SentOK ==
    Busy => /\ KeepOK(type, placed, live, batch) /\ landed = <<>>
            /\ BookOK(type, placed, live, batch.ops, batch.pos)
LandedOK == ~Busy => BookOK(type, placed, live, landed, Len(landed))
Steady == live \in Book /\ FillsGone /\ SentOK /\ LandedOK
RebalanceInv == ShapeOK /\ (adrift = 0 => Steady)

-----------------------------------------------------------------------------
\* Operations that have not been sent change nothing.
LEMMA UnsentBook ==
    ASSUME NEW ty, NEW pl, NEW lv, NEW ops, OpsOK(ty, pl, ops), NoCross(lv),
           \A s \in Sides, i \in Levels : lv[s][i] = 1 => pl[i] # "no" /\ ty[i] = s
    PROVE  BookOK(ty, pl, lv, ops, 0)
  <1>1. \A i : ~Removed(ops, 0, i) /\ ~MovedOff(ops, 0, i)
    BY DEF Removed, MovedOff
  <1>2. LiveOK(ty, pl, lv, ops, 0)
    BY <1>1 DEF LiveOK
  <1>3. HomeOK(ty, pl, lv, ops, 0)
    BY <1>1 DEF HomeOK, Home, NoCross
  <1> QED  BY <1>2, <1>3 DEF BookOK

\* The empty list of operations can be sent.
LEMMA NoOpsOK == ASSUME NEW ty, NEW pl PROVE OpsOK(ty, pl, <<>>)
  BY DEF OpsOK, Distinct, Apart, Uncrossed

\* While nothing is sent every order on chain is one of the grid, and none meet.
LEMMA UnsentOrders ==
    ASSUME NEW ty, NEW pl, NEW lv, NEW ops, BookOK(ty, pl, lv, ops, 0)
    PROVE  /\ NoCross(lv)
           /\ \A s \in Sides, i \in Levels : lv[s][i] = 1 => pl[i] # "no" /\ ty[i] = s
  BY DEF BookOK, LiveOK, Made

\* Orders that leave the book disturb nothing.
LEMMA FewerOrders ==
    ASSUME NEW ty, NEW pl, NEW lv, NEW ops, NEW n, BookOK(ty, pl, lv, ops, n), NEW new,
           \A s \in Sides, i \in Levels : new[s][i] = 1 => lv[s][i] = 1
    PROVE  BookOK(ty, pl, new, ops, n)
  <1>1. LiveOK(ty, pl, new, ops, n)
    BY DEF BookOK, LiveOK
  <1>2. NoCross(new)
    BY DEF BookOK, NoCross, Sides
  <1>3. \A s \in Sides, i \in Levels : Home(ty, pl, new, ops, n, s, i) => Home(ty, pl, lv, ops, n, s, i)
    BY DEF Home
  <1>4. HomeOK(ty, pl, new, ops, n)
    BY <1>3 DEF BookOK, HomeOK, Sides
  <1> QED  BY <1>1, <1>2, <1>4 DEF BookOK

\* Another grid with the same orders.
SameOrders(ty, pl, other, owned) ==
    \A i \in Levels : (owned[i] = "no" <=> pl[i] = "no") /\ (pl[i] # "no" => other[i] = ty[i])

\* Slots without an order may change their type, and orders how much of them is left.
LEMMA SameBook ==
    ASSUME NEW ty, NEW pl, NEW lv, NEW ops, NEW n, BookOK(ty, pl, lv, ops, n),
           NEW other, NEW owned, SameOrders(ty, pl, other, owned)
    PROVE  BookOK(other, owned, lv, ops, n)
  <1>1. \A k \in DOMAIN ops : ops[k].at \in Levels /\ ops[k].to \in Levels
    BY DEF BookOK, OpsOK, ActionOK, Action
  <1>2. OpsOK(other, owned, ops)
    <2>1. \A k \in DOMAIN ops : Removable(other, owned, ops[k]) /\ Placeable(other, owned, ops[k])
      BY <1>1 DEF BookOK, OpsOK, Removable, Placeable, SameOrders
    <2>2. Uncrossed(other, owned, ops)
      BY DEF BookOK, OpsOK, Uncrossed, SameOrders
    <2> QED  BY <2>1, <2>2 DEF BookOK, OpsOK
  <1>3. LiveOK(other, owned, lv, ops, n)
    BY DEF BookOK, LiveOK, SameOrders
  <1>4. HomeOK(other, owned, lv, ops, n)
    <2>1. \A s \in Sides, i \in Levels : Home(other, owned, lv, ops, n, s, i) => Home(ty, pl, lv, ops, n, s, i)
      BY DEF Home, SameOrders
    <2> QED  BY <2>1 DEF BookOK, HomeOK, Sides
  <1> QED  BY <1>2, <1>3, <1>4 DEF BookOK

\* What a step that ends without a batch has to show, and one that ends within one.
LEMMA ShapeEnd ==
    ASSUME GridOK(type', placed'), FillsOK', BurstOK', FailureOK', batch' = NoBatch PROVE ShapeOK'
  BY DEF ShapeOK, BatchOK, Busy

\* What a step that ends without a batch has to show of the book.
LEMMA IdleEnd ==
    ASSUME live' \in Book, FillsGone', batch' = NoBatch, BookOK(type', placed', live', landed', Len(landed'))
    PROVE  Steady'
  BY DEF Steady, SentOK, LandedOK, Busy

\* A step that ends without a batch, with every order held by the grid.
LEMMA EmptyEnd ==
    ASSUME live' \in Book, FillsGone', batch' = NoBatch, landed' = <<>>, NoCross(live'),
           \A s \in Sides, i \in Levels : live'[s][i] = 1 => placed'[i] # "no" /\ type'[i] = s
    PROVE  Steady'
  <1>1. BookOK(type', placed', live', <<>>, 0)
    BY NoOpsOK, UnsentBook
  <1>2. Len(landed') = 0
    OBVIOUS
  <1> QED  BY <1>1, <1>2, IdleEnd

\* A step that ends within a batch, with the orders of its operations.
LEMMA BusyEnd ==
    ASSUME live' \in Book, FillsGone', batch' # NoBatch, landed' = <<>>,
           KeepOK(type', placed', live', batch'), BookOK(type', placed', live', batch'.ops, batch'.pos)
    PROVE  Steady'
  BY DEF Steady, SentOK, LandedOK, Busy

\* The orders of a state in which nothing of a batch is on chain.
LEMMA NothingSent ==
    ASSUME Steady, (~Busy /\ landed = <<>>) \/ (Busy /\ batch.pos = 0)
    PROVE  /\ NoCross(live)
           /\ \A s \in Sides, i \in Levels : live[s][i] = 1 => placed[i] # "no" /\ type[i] = s
  <1>1. CASE ~Busy /\ landed = <<>>
    <2>1. Len(landed) = 0
      BY <1>1
    <2> QED  BY <1>1, <2>1, UnsentOrders DEF Steady, LandedOK
  <1>2. CASE Busy /\ batch.pos = 0
    BY <1>2, UnsentOrders DEF Steady, SentOK
  <1> QED  BY <1>1, <1>2

-----------------------------------------------------------------------------
\* The start of a batch.

\* A batch that is turned away leaves a grid, with the same orders unless it loses one of them.
LEMMA TurnedAwayGrid ==
    ASSUME GridOK(type, placed), FailureOK, TurnAway
    PROVE  /\ GridOK(type', placed') /\ FailureOK' /\ batch' = NoBatch
           /\ adrift' = 0 => SameOrders(type, placed, type', placed')
  <1> SUFFICES ASSUME batch' = NoBatch, journal' = {}, \E lost \in {NotFound, {}} : Restored(lost)
               PROVE  /\ GridOK(type', placed') /\ FailureOK'
                      /\ adrift' = 0 => SameOrders(type, placed, type', placed')
    <2>1. CASE UNCHANGED <<type, placed, journal, adrift>>
      BY <2>1 DEF TurnAway, FailureOK, SameOrders
    <2> QED  BY <2>1 DEF TurnAway
  <1>1. PICK lost \in {NotFound, {}} :
           /\ type' = [i \in Levels |-> IF {o \in lost : o.to = i} = {} THEN type[i]
                                        ELSE (CHOOSE o \in {o \in lost : o.to = i} : TRUE).side]
           /\ placed' = [i \in Levels |-> IF {o \in lost : o.to = i} = {} THEN placed[i] ELSE "no"]
           /\ Drifting(\E o \in lost : placed[o.to] # "no")
    BY DEF Restored
  <1>2. batch' = NoBatch /\ journal' = {}
    OBVIOUS
  <1>3. lost \in SUBSET Action
    BY DEF NotFound, FailureOK
  <1>4. adrift' \in Nat /\ (adrift' = 0 => ~\E o \in lost : placed[o.to] # "no")
    BY <1>1 DEF Drifting, FailureOK
  <1> DEFINE at(i) == {o \in lost : o.to = i}
  <1>5. ASSUME NEW i \in Levels, at(i) # {} PROVE (CHOOSE o \in at(i) : TRUE).side \in Sides
    <2>1. (CHOOSE o \in at(i) : TRUE) \in at(i)
      BY <1>5
    <2> QED  BY <1>3, <2>1 DEF Action
  <1>6. ASSUME NEW i \in Levels, at(i) # {}, adrift' = 0 PROVE placed[i] = "no"
    BY <1>4, <1>6
  <1>7. \A i \in Levels : /\ at(i) = {} => type'[i] = type[i] /\ placed'[i] = placed[i]
                          /\ at(i) # {} => type'[i] \in Sides /\ placed'[i] = "no"
    BY <1>1, <1>5
  <1>8. DOMAIN type' = Levels /\ DOMAIN placed' = Levels /\ type' = [i \in Levels |-> type'[i]]
        /\ placed' = [i \in Levels |-> placed'[i]]
    BY <1>1
  <1> HIDE DEF at
  <1>9. GridOK(type', placed')
    <2>1. \A i \in Levels : type'[i] \in SlotTypes /\ placed'[i] \in Holdings
                            /\ (placed'[i] # "no" => type'[i] \in Sides)
      BY <1>7 DEF GridOK, SlotTypes, Holdings, Sides
    <2>2. type' \in [Levels -> SlotTypes] /\ placed' \in [Levels -> Holdings]
      BY <1>8, <2>1
    <2> QED  BY <2>1, <2>2 DEF GridOK
  <1>10. adrift' = 0 => SameOrders(type, placed, type', placed')
    BY <1>6, <1>7 DEF SameOrders
  <1> QED  BY <1>2, <1>4, <1>9, <1>10 DEF FailureOK

\* The start of a batch keeps the shape.
LEMMA BeginShape ==
    ASSUME ShapeOK, NEW b \in Int, NEW p, PlanOK(b, p), NEW w, Keeps(w, p), GridOK(w.type, w.placed),
           NEW target, NEW chunk, Begin(p, w, target, chunk), FillsOK', BurstOK'
    PROVE  ShapeOK'
  <1>1. GridOK(type, placed) /\ FailureOK
    BY DEF ShapeOK
  <1>2. CASE TurnAway
    BY <1>1, <1>2, TurnedAwayGrid, ShapeEnd
  <1>3. CASE Send(p, w, target, chunk)
    <2>1. UNCHANGED <<type, placed, journal>> /\ adrift' \in Nat
      BY <1>1, <1>3 DEF Send, Drifting, FailureOK
    <2>2. GridOK(type', placed') /\ FailureOK'
      BY <1>1, <2>1 DEF FailureOK
    <2>3. CASE batch' = NoBatch
      BY <2>2, <2>3, ShapeEnd
    <2>4. CASE Fresh(batch', target, chunk) /\ batch' # NoBatch
      <3>1. 0 \in 0 .. Len(batch'.ops)
        BY <2>4 DEF Fresh, OpsOK
      <3>2. BatchOK'
        BY <2>1, <2>4, <3>1 DEF BatchOK, Fresh
      <3> QED  BY <2>2, <3>2 DEF ShapeOK
    <2> QED  BY <1>1, <1>3, <2>3, <2>4, FreshBatch
  <1> QED  BY <1>2, <1>3 DEF Begin

\* The start of a batch keeps the book.  Beside operations of failed batches none begins.
LEMMA BeginSteady ==
    ASSUME ShapeOK, Steady, adrift' = 0, ~Busy \/ (Busy /\ batch.pos = 0),
           NEW b \in Int, NEW p, PlanOK(b, p), NEW w, Keeps(w, p), GridOK(w.type, w.placed),
           NEW target, NEW chunk, Begin(p, w, target, chunk), UNCHANGED <<live, unseen, landed>>
    PROVE  Steady'
  <1>1. GridOK(type, placed) /\ FailureOK /\ live' \in Book /\ FillsGone'
    BY DEF ShapeOK, Steady, FillsGone
  <1>2. CASE TurnAway
    <2>1. batch' = NoBatch /\ SameOrders(type, placed, type', placed')
      BY <1>1, <1>2, TurnedAwayGrid
    <2>2. CASE ~Busy
      <3>1. BookOK(type', placed', live, landed, Len(landed))
        BY <2>1, <2>2, SameBook DEF Steady, LandedOK
      <3> QED  BY <1>1, <2>1, <3>1, IdleEnd
    <2>3. CASE Busy /\ batch.pos = 0
      <3>1. landed = <<>>
        BY <2>3 DEF Steady, SentOK
      <3>2. /\ NoCross(live)
            /\ \A s \in Sides, i \in Levels : live[s][i] = 1 => placed[i] # "no" /\ type[i] = s
        BY <2>3, NothingSent
      <3>3. \A s \in Sides, i \in Levels : live'[s][i] = 1 => placed'[i] # "no" /\ type'[i] = s
        BY <2>1, <3>2 DEF SameOrders
      <3> QED  BY <1>1, <2>1, <3>1, <3>2, <3>3, EmptyEnd
    <2> QED  BY <2>2, <2>3
  <1>3. CASE Send(p, w, target, chunk)
    <2>1. UNCHANGED <<type, placed>> /\ (landed # <<>> => batch' = NoBatch)
      BY <1>1, <1>3 DEF Send, Drifting, FailureOK
    <2>2. CASE landed # <<>>
      <3>1. ~Busy
        BY <2>2 DEF Steady, SentOK
      <3>2. BookOK(type, placed, live, landed, Len(landed))
        BY <3>1 DEF Steady, LandedOK
      <3> QED  BY <1>1, <2>1, <2>2, <3>2, IdleEnd
    <2>3. CASE landed = <<>>
      <3>1. /\ NoCross(live)
            /\ \A s \in Sides, i \in Levels : live[s][i] = 1 => placed[i] # "no" /\ type[i] = s
        BY <2>3, NothingSent
      <3>2. CASE batch' = NoBatch
        BY <1>1, <2>1, <2>3, <3>1, <3>2, EmptyEnd
      <3>3. CASE Fresh(batch', target, chunk) /\ batch' # NoBatch /\ KeepOK(type, placed, live, batch')
        <4>1. BookOK(type, placed, live, batch'.ops, 0)
          BY <3>1, <3>3, UnsentBook DEF Fresh
        <4> QED  BY <1>1, <2>1, <2>3, <3>3, <4>1, BusyEnd DEF Fresh
      <3> QED  BY <1>1, <1>3, <2>3, <3>2, <3>3, FreshBatch
    <2> QED  BY <2>2, <2>3
  <1> QED  BY <1>2, <1>3 DEF Begin

-----------------------------------------------------------------------------
\* Fills on the market.

\* An order that is filled and leaves the book keeps the shape.
LEMMA MarketFillShape == ASSUME ShapeOK, MarketFill PROVE ShapeOK'
  <1>1. PICK side \in Sides, i \in Levels : unseen' = Append(unseen, FillOf(side, i))
    BY DEF MarketFill
  <1>2. UNCHANGED <<type, placed, boundaryIdx, fills, shiftBudget, burstStart, replans, batch, journal, adrift>>
    BY DEF MarketFill, levelVars, burstVars, failureVars
  <1>3. unseen \in Seq(Fill) /\ FillOf(side, i) \in Fill
    BY DEF ShapeOK, FillsOK, FillOf, Fill
  <1>4. unseen' \in Seq(Fill)
    BY <1>1, <1>3, AppendProperties
  <1>5. FillsOK' /\ FailureOK' /\ BurstOK' /\ BatchOK'
    BY <1>2, <1>4 DEF ShapeOK, FillsOK, FailureOK, BatchOK, BurstOK, Spent, Gated, Busy
  <1> QED  BY <1>2, <1>5 DEF ShapeOK

\* An order that is filled and leaves the book disturbs no other.
LEMMA MarketFillSteady == ASSUME ShapeOK, Steady, MarketFill PROVE Steady'
  <1>1. PICK side \in Sides, i \in Levels :
           /\ live[side][i] > 0
           /\ live' = [live EXCEPT ![side][i] = @ - 1]
           /\ unseen' = Append(unseen, FillOf(side, i))
    BY DEF MarketFill
  <1>2. UNCHANGED <<type, placed, batch, landed>>
    BY DEF MarketFill, levelVars, failureVars
  <1>3. live \in Book /\ live[side][i] = 1
    BY <1>1 DEF Steady, Book
  <1>4. /\ live' \in Book /\ live'[side][i] = 0
        /\ \A s \in Sides, j \in Levels : live'[s][j] = live[s][j] \/ live'[s][j] = 0
    <2>1. live' = [live EXCEPT ![side] = [live[side] EXCEPT ![i] = 0]]
      BY <1>1, <1>3
    <2> QED  BY <1>3, <2>1 DEF Book
  <1>5. \A s \in Sides, j \in Levels : live'[s][j] = 1 => live[s][j] = 1
    BY <1>4
  <1>6. FillsGone'
    <2>1. unseen \in Seq(Fill) /\ FillOf(side, i) \in Fill /\ FillOf(side, i).side = side /\ FillOf(side, i).at = i
      BY DEF ShapeOK, FillsOK, FillOf, Fill
    <2>2. /\ unseen' \in Seq(Fill) /\ Len(unseen') = Len(unseen) + 1 /\ unseen'[Len(unseen) + 1] = FillOf(side, i)
          /\ \A k \in 1 .. Len(unseen) : unseen'[k] = unseen[k]
      BY <1>1, <2>1, AppendProperties
    <2>3. Len(unseen) \in Nat /\ DOMAIN unseen = 1 .. Len(unseen) /\ DOMAIN unseen' = 1 .. (Len(unseen) + 1)
      BY <2>1, <2>2
    <2>4. ASSUME NEW k \in DOMAIN unseen' PROVE live'[unseen'[k].side][unseen'[k].at] = 0
      <3>1. CASE k = Len(unseen) + 1
        BY <1>4, <2>1, <2>2, <3>1
      <3>2. CASE k \in 1 .. Len(unseen)
        <4>1. unseen'[k] = unseen[k] /\ live[unseen[k].side][unseen[k].at] = 0
          BY <2>2, <2>3, <3>2 DEF Steady, FillsGone
        <4>2. unseen[k] \in Fill
          BY <2>1, <2>3, <3>2
        <4>3. unseen[k].side \in Sides /\ unseen[k].at \in Levels
          BY <4>2 DEF Fill
        <4> QED  BY <1>4, <4>1, <4>3
      <3> QED  BY <2>3, <3>1, <3>2
    <2> QED  BY <2>4 DEF FillsGone
  <1>7. SentOK'
    <2>1. KeepOK(type, placed, live, batch) => KeepOK(type, placed, live', batch)
      <3>1. \A j \in Levels : placed[j] # "no" => type[j] \in Sides
        BY DEF ShapeOK, GridOK
      <3> QED  BY <1>5, <3>1 DEF KeepOK
    <2>2. BookOK(type, placed, live, batch.ops, batch.pos) => BookOK(type, placed, live', batch.ops, batch.pos)
      BY <1>5, FewerOrders
    <2> QED  BY <1>2, <2>1, <2>2 DEF Steady, SentOK, Busy
  <1>8. LandedOK'
    BY <1>2, <1>5, FewerOrders DEF Steady, LandedOK, Busy
  <1> QED  BY <1>4, <1>6, <1>7, <1>8 DEF Steady

\* A partial fill leaves the grid the same orders.
LEMMA PartialFillGrid ==
    ASSUME GridOK(type, placed), PartialFill
    PROVE  GridOK(type', placed') /\ SameOrders(type, placed, type', placed')
  <1>1. PICK i \in Levels : placed[i] = "whole" /\ placed' = [placed EXCEPT ![i] = "part"]
    BY DEF PartialFill
  <1>2. type' = type
    BY DEF PartialFill
  <1>3. placed' \in [Levels -> Holdings] /\ \A j \in Levels : placed'[j] = "no" <=> placed[j] = "no"
    BY <1>1 DEF GridOK, Holdings
  <1> QED  BY <1>2, <1>3 DEF GridOK, SameOrders

\* A partial fill keeps the shape.
LEMMA PartialFillShape == ASSUME ShapeOK, PartialFill PROVE ShapeOK'
  <1>1. UNCHANGED <<boundaryIdx, unseen, fills, shiftBudget, burstStart, replans, batch, journal, adrift>>
    BY DEF PartialFill, marketVars, burstVars, failureVars
  <1>2. batch' = NoBatch
    BY <1>1 DEF PartialFill, Idle, Busy
  <1>3. GridOK(type', placed')
    BY PartialFillGrid DEF ShapeOK
  <1>4. FillsOK' /\ BurstOK' /\ FailureOK'
    BY <1>1 DEF ShapeOK, FillsOK, BurstOK, FailureOK, Spent, Gated, Busy
  <1> QED  BY <1>2, <1>3, <1>4, ShapeEnd

\* A partial fill keeps the book.
LEMMA PartialFillSteady == ASSUME ShapeOK, Steady, PartialFill PROVE Steady'
  <1>1. UNCHANGED <<live, unseen, batch, landed>>
    BY DEF PartialFill, marketVars, failureVars
  <1>2. ~Busy /\ batch' = NoBatch
    BY <1>1 DEF PartialFill, Idle, Busy
  <1>3. SameOrders(type, placed, type', placed')
    BY PartialFillGrid DEF ShapeOK
  <1>4. BookOK(type', placed', live, landed, Len(landed))
    BY <1>2, <1>3, SameBook DEF Steady, LandedOK
  <1>5. live' \in Book /\ FillsGone'
    BY <1>1 DEF Steady, FillsGone
  <1> QED  BY <1>1, <1>2, <1>4, <1>5, IdleEnd

-----------------------------------------------------------------------------
\* The fills taken.

\* r has the elements of q at the positions K, in the order of q; at gives their positions.
InOrder(r, q, K, at) ==
    /\ Len(r) \in Nat /\ DOMAIN r = 1 .. Len(r)
    /\ \A k \in DOMAIN r : at[k] \in K /\ r[k] = q[at[k]]
    /\ \A k, l \in DOMAIN r : at[k] < at[l] => k < l
    /\ \A k, l \in DOMAIN r : at[k] = at[l] => k = l
    /\ \A x \in K : \E k \in DOMAIN r : at[k] = x

\* A selection from a sequence keeps the order.
LEMMA PickedOrder ==
    ASSUME NEW S, NEW q \in Seq(S), NEW K \in SUBSET (DOMAIN q)
    PROVE  /\ Picked(q, K) \in Seq(S)
           /\ \E at : InOrder(Picked(q, K), q, K, at)
           /\ K = {} => Picked(q, K) = <<>>
  <1> DEFINE at == Rising(K)
             n == Len(at)
  <1>1. K \in SUBSET Nat /\ IsFiniteSet(K)
    <2>1. DOMAIN q = 1 .. Len(q) /\ Len(q) \in Nat
      OBVIOUS
    <2>2. IsFiniteSet(1 .. Len(q)) /\ K \in SUBSET (1 .. Len(q))
      BY <2>1, FS_Interval
    <2> QED  BY <2>1, <2>2, FS_Subset
  <1>2. Lists(at, K) /\ Mounts(at)
    BY <1>1, RisingOrder
  <1>3. n \in Nat /\ DOMAIN at = 1 .. n /\ at \in Seq(K)
    BY <1>2 DEF Lists
  <1>4. Picked(q, K) = [k \in 1 .. n |-> q[at[k]]]
    BY <1>3 DEF Picked
  <1> HIDE DEF at, n
  <1>5. \A k \in 1 .. n : at[k] \in K /\ q[at[k]] \in S
    BY <1>2, <1>3 DEF Lists
  <1>6. Picked(q, K) \in [1 .. n -> S]
    BY <1>4, <1>5
  <1>7. Picked(q, K) \in Seq(S) /\ Len(Picked(q, K)) = n /\ DOMAIN Picked(q, K) = 1 .. n
    BY <1>3, <1>4, <1>6
  <1>8. \A k \in 1 .. n : Picked(q, K)[k] = q[at[k]]
    BY <1>4
  <1>9. InOrder(Picked(q, K), q, K, at)
    BY <1>2, <1>3, <1>5, <1>7, <1>8 DEF InOrder, Lists, Mounts
  <1>10. K = {} => Picked(q, K) = <<>>
    <2> SUFFICES ASSUME K = {} PROVE Picked(q, K) = <<>>
      OBVIOUS
    <2>1. n = 0
      BY <1>3, <1>5
    <2> QED  BY <1>7, <2>1
  <1> QED  BY <1>7, <1>9, <1>10

\* A selection from a sequence is a sequence of its elements.
LEMMA PickedSeq ==
    ASSUME NEW S, NEW q \in Seq(S), NEW K \in SUBSET (DOMAIN q)
    PROVE  /\ Picked(q, K) \in Seq(S)
           /\ \A k \in DOMAIN Picked(q, K) : \E l \in K : Picked(q, K)[k] = q[l]
  <1> DEFINE r == Picked(q, K)
  <1>1. K \in SUBSET Nat /\ IsFiniteSet(K)
    <2>1. DOMAIN q = 1 .. Len(q) /\ Len(q) \in Nat
      OBVIOUS
    <2>2. IsFiniteSet(1 .. Len(q)) /\ K \in SUBSET (1 .. Len(q))
      BY <2>1, FS_Interval
    <2> QED  BY <2>1, <2>2, FS_Subset
  <1>2. PICK at : /\ DOMAIN r = DOMAIN at /\ Len(at) \in Nat /\ DOMAIN at = 1 .. Len(at)
                  /\ \A k \in DOMAIN at : at[k] \in K /\ r[k] = q[at[k]]
    <2> HIDE DEF r
    <2>1. \E at : /\ Lists(at, K) /\ DOMAIN Picked(q, K) = DOMAIN at
                  /\ Len(Picked(q, K)) = Len(at) /\ Len(at) \in Nat
                  /\ DOMAIN at = 1 .. Len(at)
                  /\ \A k \in DOMAIN at : at[k] \in K /\ Picked(q, K)[k] = q[at[k]]
      BY <1>1, PickedElements
    <2> QED  BY <2>1 DEF r
  <1>3. r = [k \in DOMAIN r |-> r[k]]
    BY DEF Picked
  <1> HIDE DEF r
  <1>4. \A k \in 1 .. Len(at) : r[k] \in S
    BY <1>2
  <1>5. r \in [1 .. Len(at) -> S]
    BY <1>2, <1>3, <1>4
  <1>6. r \in Seq(S)
    BY <1>2, <1>5
  <1>7. \A k \in DOMAIN r : \E l \in K : r[k] = q[l]
    BY <1>2
  <1> QED  BY <1>6, <1>7 DEF r

\* Without operations of failed batches there are none to forget.
LEMMA NoneLanded == ASSUME landed = <<>>, NEW slots PROVE LandedBut(slots) = <<>>
  <1> DEFINE K == {k \in DOMAIN landed : ~(Removes(landed[k]) /\ landed[k].at \in slots)}
  <1>1. landed \in Seq(Action) /\ K \in SUBSET (DOMAIN landed) /\ K = {}
    OBVIOUS
  <1>2. LandedBut(slots) = Picked(landed, K)
    BY DEF LandedBut
  <1> HIDE DEF K
  <1> QED  BY <1>1, <1>2, PickedOrder

\* Where an order is that an operation of a failed batch has moved.
LEMMA MovedTo ==
    ASSUME Distinct(landed), NEW k \in DOMAIN landed, landed[k].kind = "move"
    PROVE  Where(landed[k].at) = landed[k].to /\ MovesFrom(landed[k].at) = {k}
  <1> DEFINE i == landed[k].at
  <1>1. \A l \in MovesFrom(i) : l \in DOMAIN landed /\ Removes(landed[l]) /\ landed[l].at = i
    BY DEF MovesFrom, Removes
  <1>2. k \in MovesFrom(i)
    BY DEF MovesFrom
  <1>3. \A l \in MovesFrom(i) : l = k
    BY <1>1, <1>2 DEF Distinct
  <1>4. MovesFrom(i) = {k}
    BY <1>2, <1>3
  <1>5. (CHOOSE l \in {k} : TRUE) = k
    OBVIOUS
  <1> QED  BY <1>4, <1>5 DEF Where

\* An order that no operation has moved is where its slot is.
LEMMA NotMovedOff ==
    ASSUME DOMAIN landed = 1 .. Len(landed), NEW i, ~MovedOff(landed, Len(landed), i)
    PROVE  Where(i) = i
  BY DEF MovedOff, Where, MovesFrom

\* Clearing the slots of orders that are gone, and forgetting what was done to them, leaves
\* the book as it is beside the operations that are left.
LEMMA ClearedBook ==
    ASSUME BookOK(type, placed, live, landed, Len(landed)), live \in Book, NEW D \in SUBSET Levels,
           \A i \in D : placed[i] # "no" /\ live[type[i]][Where(i)] = 0,
           NEW ty, NEW pl,
           ty = [i \in Levels |-> IF i \in D THEN "spread" ELSE type[i]],
           pl = [i \in Levels |-> IF i \in D THEN "no" ELSE placed[i]]
    PROVE  BookOK(ty, pl, live, LandedBut(D), Len(LandedBut(D)))
  <1> DEFINE N == Len(landed)
             K == {k \in DOMAIN landed : ~(Removes(landed[k]) /\ landed[k].at \in D)}
             q == LandedBut(D)
             n == Len(q)
  <1>1. OpsOK(type, placed, landed) /\ landed \in Seq(Action) /\ N \in Nat /\ DOMAIN landed = 1 .. N
        /\ Distinct(landed)
    BY DEF BookOK, OpsOK
  <1>2. K \in SUBSET (DOMAIN landed) /\ q = Picked(landed, K)
    BY DEF LandedBut
  <1>3. \A k \in K : k \in 1 .. N /\ ~(Removes(landed[k]) /\ landed[k].at \in D)
    BY <1>1
  <1>4. \A k \in 1 .. N : k \notin K => Removes(landed[k]) /\ landed[k].at \in D
    BY <1>1
  <1> HIDE DEF K, q
  <1>5. q \in Seq(Action) /\ \E at : InOrder(q, landed, K, at)
    BY <1>1, <1>2, PickedOrder
  <1>6. PICK at : InOrder(q, landed, K, at)
    BY <1>5
  <1>7. /\ n \in Nat /\ DOMAIN q = 1 .. n
        /\ \A k \in 1 .. n : at[k] \in K /\ q[k] = landed[at[k]] /\ at[k] \in 1 .. N
        /\ \A k, l \in 1 .. n : at[k] < at[l] => k < l
        /\ \A k, l \in 1 .. n : at[k] = at[l] => k = l
        /\ \A x \in K : \E k \in 1 .. n : at[k] = x
    BY <1>3, <1>6 DEF InOrder
  <1> HIDE DEF n, N
  <1>8. \A i \in Levels : /\ pl[i] # "no" => i \notin D /\ placed[i] # "no" /\ ty[i] = type[i]
                          /\ i \notin D => pl[i] = placed[i] /\ ty[i] = type[i]
    OBVIOUS
  <1>9. OpsOK(ty, pl, q)
    <2>1. ASSUME NEW k \in 1 .. n
          PROVE  ActionOK(q[k]) /\ Removable(ty, pl, q[k]) /\ Placeable(ty, pl, q[k])
      <3> DEFINE a == landed[at[k]]
      <3>1. ActionOK(a) /\ Removable(type, placed, a) /\ Placeable(type, placed, a)
        BY <1>1, <1>7 DEF OpsOK
      <3>2. q[k] = a /\ a.at \in Levels /\ a.to \in Levels /\ ~(Removes(a) /\ a.at \in D)
        BY <1>3, <1>7, <3>1 DEF ActionOK, Action
      <3> HIDE DEF a
      <3>3. Removable(ty, pl, a)
        BY <1>8, <3>1, <3>2 DEF Removable
      <3>4. Placeable(ty, pl, a)
        BY <1>8, <3>1, <3>2 DEF Placeable
      <3> QED  BY <3>1, <3>2, <3>3, <3>4
    <2>2. Distinct(q)
      <3> SUFFICES ASSUME NEW k \in 1 .. n, NEW l \in 1 .. n,
                          \/ Places(q[k]) /\ Places(q[l]) /\ q[k].to = q[l].to
                          \/ Removes(q[k]) /\ Removes(q[l]) /\ q[k].at = q[l].at
                   PROVE  k = l
        BY <1>7 DEF Distinct
      <3>1. q[k] = landed[at[k]] /\ q[l] = landed[at[l]] /\ at[k] \in 1 .. N /\ at[l] \in 1 .. N
        BY <1>7
      <3>2. at[k] = at[l]
        BY <1>1, <3>1 DEF Distinct
      <3> QED  BY <1>7, <3>2
    <2>3. Apart(q)
      BY <1>1, <1>7 DEF OpsOK, Apart
    <2>4. Uncrossed(ty, pl, q)
      <3> SUFFICES ASSUME NEW k \in 1 .. n, NEW i \in Levels, Places(q[k]), pl[i] # "no",
                          ty[i] # q[k].side, Beyond(q[k].side, q[k].to, i)
                   PROVE  \E l \in 1 .. (k - 1) : q[l].kind = "cancel" /\ q[l].at = i
        BY <1>7 DEF Uncrossed
      <3>1. i \notin D /\ placed[i] # "no" /\ type[i] = ty[i] /\ q[k] = landed[at[k]] /\ at[k] \in 1 .. N
        BY <1>7, <1>8
      <3>2. PICK x \in 1 .. (at[k] - 1) : landed[x].kind = "cancel" /\ landed[x].at = i
        BY <1>1, <3>1 DEF OpsOK, Uncrossed
      <3>3. x \in 1 .. N /\ x < at[k]
        BY <1>1, <3>1, <3>2
      <3>4. x \in K
        BY <1>4, <3>1, <3>2, <3>3
      <3>5. PICK l \in 1 .. n : at[l] = x
        BY <1>7, <3>4
      <3>6. l < k /\ q[l] = landed[x]
        BY <1>7, <3>3, <3>5
      <3>7. l \in 1 .. (k - 1)
        BY <1>7, <3>6
      <3> QED  BY <3>2, <3>6, <3>7
    <2> QED  BY <1>5, <1>7, <2>1, <2>2, <2>3, <2>4 DEF OpsOK
  <1>10. \A i \in Levels : i \notin D => (Removed(q, n, i) <=> Removed(landed, N, i))
    <2> SUFFICES ASSUME NEW i \in Levels, i \notin D PROVE Removed(q, n, i) <=> Removed(landed, N, i)
      OBVIOUS
    <2>1. Removed(q, n, i) => Removed(landed, N, i)
      BY <1>7 DEF Removed
    <2>2. ASSUME NEW x \in 1 .. N, Removes(landed[x]), landed[x].at = i PROVE Removed(q, n, i)
      <3>1. x \in K
        BY <1>4, <2>2
      <3>2. PICK l \in 1 .. n : at[l] = x
        BY <1>7, <3>1
      <3> QED  BY <1>7, <2>2, <3>2 DEF Removed
    <2> QED  BY <2>1, <2>2 DEF Removed
  <1>11. ASSUME NEW s \in Sides, NEW i \in Levels, live[s][i] = 1, Made(landed, N, s, i)
         PROVE  Made(q, n, s, i)
    <2>1. PICK x \in 1 .. N : Places(landed[x]) /\ landed[x].side = s /\ landed[x].to = i
      BY <1>11 DEF Made
    <2>2. x \in K
      <3> SUFFICES ASSUME x \notin K PROVE FALSE
        OBVIOUS
      <3>1. Removes(landed[x]) /\ landed[x].at \in D
        BY <1>4
      <3>2. landed[x].kind = "move"
        <4>1. landed[x].kind \in Kinds
          BY <1>1 DEF OpsOK, ActionOK, Action
        <4> QED  BY <2>1, <3>1, <4>1 DEF Places, Removes, Kinds
      <3>3. Where(landed[x].at) = i
        BY <1>1, <2>1, <3>2, MovedTo
      <3>4. type[landed[x].at] = s
        BY <1>1, <2>1, <3>1 DEF OpsOK, Removable
      <3> QED  BY <1>11, <3>1, <3>3, <3>4
    <2>3. PICK l \in 1 .. n : at[l] = x
      BY <1>7, <2>2
    <2> QED  BY <1>7, <2>1, <2>3 DEF Made
  <1>12. LiveOK(ty, pl, live, q, n)
    <2> SUFFICES ASSUME NEW s \in Sides, NEW i \in Levels, live[s][i] = 1, ~Made(q, n, s, i)
                 PROVE  pl[i] # "no" /\ ty[i] = s /\ ~Removed(q, n, i)
      BY DEF LiveOK
    <2>1. placed[i] # "no" /\ type[i] = s /\ ~Removed(landed, N, i)
      BY <1>11 DEF BookOK, LiveOK, N
    <2>2. i \notin D
      <3>1. ~MovedOff(landed, N, i)
        BY <2>1 DEF Removed, MovedOff, Removes
      <3>2. Where(i) = i
        BY <1>1, <3>1, NotMovedOff DEF N
      <3> QED  BY <2>1, <3>2
    <2> QED  BY <1>8, <1>10, <2>1, <2>2
  <1>13. HomeOK(ty, pl, live, q, n)
    <2>1. ASSUME NEW s \in Sides, NEW i \in Levels, Home(ty, pl, live, q, n, s, i)
          PROVE  Home(type, placed, live, landed, N, s, i)
      <3>1. i \notin D /\ placed[i] # "no" /\ type[i] = s
        BY <1>8, <2>1 DEF Home
      <3>2. MovedOff(q, n, i) => MovedOff(landed, N, i)
        BY <1>7 DEF MovedOff
      <3> QED  BY <1>10, <2>1, <3>1, <3>2 DEF Home
    <2> QED  BY <2>1 DEF BookOK, HomeOK, Sides, N
  <1> QED  BY <1>9, <1>12, <1>13 DEF BookOK, n, q

\* What the consumer does: the slots it frees held orders of fills that it has read.
FreesFor(known, freed) ==
    /\ known \in Seq(Fill) /\ freed \in SUBSET Levels
    /\ Cleared(freed) /\ landed' = LandedBut(freed) /\ StartBurst(known)
    /\ \A i \in freed : placed[i] # "no" /\ \E l \in DOMAIN unseen : type[i] = unseen[l].side
                                                                   /\ Where(i) = unseen[l].at

\* The consumer frees slots for the fills it knows.
LEMMA ConsumedFills == ASSUME FillsOK, ConsumeFills PROVE \E known, freed : FreesFor(known, freed)
  <1> DEFINE K == {k \in DOMAIN unseen : Known(unseen[k])}
             known == Picked(unseen, K)
  <1>1. PICK freed \in SUBSET UNION {Holders(known[k]) : k \in DOMAIN known} :
           Cleared(freed) /\ landed' = LandedBut(freed) /\ StartBurst(known)
    BY DEF ConsumeFills
  <1>2. unseen \in Seq(Fill) /\ K \in SUBSET (DOMAIN unseen)
    BY DEF FillsOK
  <1> HIDE DEF K
  <1>3. known \in Seq(Fill) /\ \A k \in DOMAIN known : \E l \in K : known[k] = unseen[l]
    BY <1>2, PickedSeq
  <1> HIDE DEF known
  <1>4. ASSUME NEW i \in freed
        PROVE  /\ i \in Levels /\ placed[i] # "no"
               /\ \E l \in DOMAIN unseen : type[i] = unseen[l].side /\ Where(i) = unseen[l].at
    <2>1. PICK k \in DOMAIN known : i \in Holders(known[k])
      OBVIOUS
    <2>2. PICK l \in K : known[k] = unseen[l]
      BY <1>3, <2>1
    <2> QED  BY <1>2, <2>1, <2>2 DEF Holders
  <1> QED  BY <1>1, <1>3, <1>4 DEF FreesFor

\* Taking the fills of the queue, which frees their slots, keeps the shape.
LEMMA ConsumeFillsShape == ASSUME ShapeOK, ConsumeFills PROVE ShapeOK'
  <1>1. PICK known, freed : FreesFor(known, freed)
    BY ConsumedFills DEF ShapeOK
  <1>2. unseen' = <<>> /\ UNCHANGED <<boundaryIdx, batch, journal, adrift>>
    BY DEF ConsumeFills
  <1>3. batch = NoBatch
    BY DEF ConsumeFills, Idle, Busy
  <1>4. GridOK(type, placed)
    BY DEF ShapeOK
  <1>5. /\ type' = [i \in Levels |-> IF i \in freed THEN "spread" ELSE type[i]]
        /\ placed' = [i \in Levels |-> IF i \in freed THEN "no" ELSE placed[i]]
    BY <1>1 DEF FreesFor, Cleared
  <1>6. GridOK(type', placed')
    <2>1. type' \in [Levels -> SlotTypes] /\ placed' \in [Levels -> Holdings]
      BY <1>4, <1>5 DEF GridOK, SlotTypes, Holdings
    <2>2. \A i \in Levels : placed'[i] # "no" => type'[i] \in Sides
      BY <1>4, <1>5 DEF GridOK
    <2> QED  BY <2>1, <2>2 DEF GridOK
  <1>7. BurstOK'
    BY <1>1, <1>2, <1>3, StartsBurst DEF ShapeOK, FreesFor
  <1>8. FillsOK'
    <2>1. fills' \in Seq(Fill) /\ <<>> \in Seq(Fill)
      BY <1>1 DEF FreesFor, StartBurst, ShapeOK, FillsOK, burstVars
    <2> QED  BY <1>2, <2>1 DEF ShapeOK, FillsOK
  <1>9. FailureOK'
    BY <1>2 DEF ShapeOK, FailureOK
  <1> QED  BY <1>2, <1>3, <1>6, <1>7, <1>8, <1>9, ShapeEnd

\* Taking the fills of the queue, which frees their slots, keeps the book.
LEMMA ConsumeFillsSteady == ASSUME ShapeOK, Steady, ConsumeFills PROVE Steady'
  <1>1. PICK known, freed : FreesFor(known, freed)
    BY ConsumedFills DEF ShapeOK
  <1>2. unseen' = <<>> /\ UNCHANGED <<live, batch>>
    BY DEF ConsumeFills
  <1>3. ~Busy /\ batch = NoBatch
    BY DEF ConsumeFills, Idle, Busy
  <1>4. \A i \in freed : placed[i] # "no" /\ live[type[i]][Where(i)] = 0
    BY <1>1 DEF FreesFor, Steady, FillsGone
  <1>5. /\ type' = [i \in Levels |-> IF i \in freed THEN "spread" ELSE type[i]]
        /\ placed' = [i \in Levels |-> IF i \in freed THEN "no" ELSE placed[i]]
        /\ landed' = LandedBut(freed) /\ freed \in SUBSET Levels
    BY <1>1 DEF FreesFor, Cleared
  <1>6. BookOK(type, placed, live, landed, Len(landed)) /\ live \in Book
    BY <1>3 DEF Steady, LandedOK
  <1>7. BookOK(type', placed', live, LandedBut(freed), Len(LandedBut(freed)))
    BY <1>4, <1>5, <1>6, ClearedBook
  <1>8. FillsGone'
    BY <1>2 DEF FillsGone
  <1> QED  BY <1>2, <1>3, <1>5, <1>6, <1>7, <1>8, IdleEnd

-----------------------------------------------------------------------------
\* The target of a chunk is a number.
LEMMA TargetInt ==
    ASSUME boundaryIdx \in 0 .. Ceiling, NEW chunk \in Seq(Fill), NEW budget \in 0 .. BaseBudget
    PROVE  Target(chunk, budget) \in Int
  <1>1. DOMAIN chunk = 1 .. Len(chunk) /\ Len(chunk) \in Nat
    OBVIOUS
  <1>2. NetShift(chunk) \in Int
    BY <1>1, Nets
  <1>3. BaseBudget \in Int /\ boundaryIdx \in Int /\ Ceiling \in Int /\ budget \in Int
    BY Constants
  <1>4. Shift(chunk, budget) \in Int
    BY <1>2, <1>3 DEF Shift, Clamp, AtLeast, AtMost
  <1> QED  BY <1>3, <1>4 DEF Target, Clamp, AtLeast, AtMost

\* The plan of a chunk can be begun.
LEMMA PlanOfChunk ==
    ASSUME ShapeOK, NEW chunk \in Seq(Fill), NEW budget \in 0 .. BaseBudget
    PROVE  LET b == Target(chunk, budget)
               p == Optimize(Reconcile(b))
           IN b \in Int /\ PlanOK(b, p) /\ Keeps(Projected(b), p)
              /\ GridOK(Projected(b).type, Projected(b).placed)
  <1>1. GridOK(type, placed) /\ boundaryIdx \in 0 .. Ceiling
    BY DEF ShapeOK, BurstOK
  <1> DEFINE b == Target(chunk, budget)
  <1>2. b \in Int
    BY <1>1, TargetInt
  <1> HIDE DEF b
  <1>3. /\ PlanOK(b, Optimize(Reconcile(b))) /\ Keeps(Projected(b), Optimize(Reconcile(b)))
        /\ GridOK(Projected(b).type, Projected(b).placed)
    BY <1>1, <1>2, ChunkPlan
  <1> QED  BY <1>2, <1>3 DEF b

\* The plan of a chunk keeps the shape.
LEMMA RebalancingShape ==
    ASSUME ShapeOK, NEW chunk \in Seq(Fill), NEW budget \in 0 .. BaseBudget, Rebalancing(chunk, budget),
           UNCHANGED <<boundaryIdx, unseen, burstStart>>, replans' \in Nat, fills' \in Seq(Fill),
           SpentOf(boundaryIdx, burstStart, budget, replans')
    PROVE  ShapeOK'
  <1> DEFINE b == Target(chunk, budget)
             p == Optimize(Reconcile(b))
             w == Projected(b)
  <1>1. BurstOK
    BY DEF ShapeOK
  <1>2. b \in Int /\ PlanOK(b, p) /\ Keeps(w, p) /\ GridOK(w.type, w.placed)
    BY PlanOfChunk
  <1>3. Begin(p, w, b, chunk)
    BY DEF Rebalancing
  <1>4. DOMAIN chunk = 1 .. Len(chunk) /\ Len(chunk) \in Nat
    OBVIOUS
  <1>5. BurstOK'
    BY <1>1, <1>4, RebalancingSpends
  <1> HIDE DEF b, p, w
  <1>6. batch' = NoBatch \/ batch'.chunk = chunk
    BY <1>3, BegunChunk
  <1>7. FillsOK'
    <2>1. <<>> \in Seq(Fill)
      OBVIOUS
    <2>2. batch'.chunk \in Seq(Fill)
      BY <1>6, <2>1, NoBatchRecord
    <2> QED  BY <2>2 DEF ShapeOK, FillsOK
  <1> QED  BY <1>2, <1>3, <1>5, <1>7, BeginShape

\* The plan of a chunk keeps the book.
LEMMA RebalancingSteady ==
    ASSUME ShapeOK, Steady, adrift' = 0, ~Busy \/ (Busy /\ batch.pos = 0),
           NEW chunk \in Seq(Fill), NEW budget \in 0 .. BaseBudget, Rebalancing(chunk, budget),
           UNCHANGED <<live, unseen, landed>>
    PROVE  Steady'
  <1> DEFINE b == Target(chunk, budget)
             p == Optimize(Reconcile(b))
             w == Projected(b)
  <1>1. b \in Int /\ PlanOK(b, p) /\ Keeps(w, p) /\ GridOK(w.type, w.placed)
    BY PlanOfChunk
  <1>2. Begin(p, w, b, chunk)
    BY DEF Rebalancing
  <1> HIDE DEF b, p, w
  <1> QED  BY <1>1, <1>2, BeginSteady

\* The next fills to plan for.
LEMMA NextChunk ==
    ASSUME ShapeOK, PlanChunk
    PROVE  \E chunk \in Seq(Fill) :
              /\ fills' \in Seq(Fill) /\ (Rebalancing(chunk, shiftBudget) \/ Uncovered(chunk))
              /\ ~Busy /\ UNCHANGED <<boundaryIdx, live, unseen, lastFilled, burstStart, replans, landed>>
  <1> DEFINE n == AtMost(MaxBatch, Len(fills))
             chunk == SubSeq(fills, 1, n)
             rest == SubSeq(fills, n + 1, Len(fills))
  <1>1. /\ ~Busy /\ fills' = rest /\ (Rebalancing(chunk, shiftBudget) \/ Uncovered(chunk))
        /\ UNCHANGED <<boundaryIdx, live, unseen, lastFilled, burstStart, replans, landed>>
    BY DEF PlanChunk, marketVars
  <1>2. fills \in Seq(Fill) /\ Len(fills) \in Nat
    BY DEF ShapeOK, FillsOK
  <1>3. n \in Nat /\ n <= Len(fills)
    BY <1>2, RebalanceAssumption DEF AtMost
  <1> HIDE DEF n
  <1>4. chunk \in Seq(Fill) /\ rest \in Seq(Fill)
    BY <1>2, <1>3, SubSeqProperties
  <1> HIDE DEF chunk, rest
  <1> QED  BY <1>1, <1>4

\* The budget after a plan that comes to nothing is no more than before.
LEMMA UncoveredSpends ==
    ASSUME BurstOK, NEW chunk \in Seq(Fill), Uncovered(chunk), batch = NoBatch,
           UNCHANGED <<boundaryIdx, burstStart, replans>>
    PROVE  BurstOK'
  <1>1. UNCHANGED batch /\ shiftBudget' = BudgetAfter(chunk, shiftBudget)
    BY DEF Uncovered
  <1>2. shiftBudget \in 0 .. BaseBudget /\ replans \in Nat /\ SpentOf(boundaryIdx, burstStart, shiftBudget, replans)
    BY DEF BurstOK, Spent
  <1>3. BudgetAfter(chunk, shiftBudget) \in 0 .. BaseBudget /\ BudgetAfter(chunk, shiftBudget) <= shiftBudget
    <2>1. DOMAIN chunk = 1 .. Len(chunk) /\ Len(chunk) \in Nat
      OBVIOUS
    <2>2. NetShift(chunk) \in Int
      BY <2>1, Nets
    <2>3. BaseBudget \in Nat
      BY Constants
    <2>4. Shift(chunk, shiftBudget) \in Int /\ -shiftBudget <= Shift(chunk, shiftBudget)
          /\ Shift(chunk, shiftBudget) <= shiftBudget
      BY <1>2, <2>2, <2>3 DEF Shift, Clamp, AtLeast, AtMost
    <2> QED  BY <1>2, <2>3, <2>4 DEF BudgetAfter, Distance, AtLeast
  <1>4. SpentOf(boundaryIdx, burstStart, shiftBudget', replans)
    <2>1. boundaryIdx \in Int /\ burstStart \in Int /\ BaseBudget * (1 + replans) \in Int
      BY <1>2, SpentRenews, Constants DEF BurstOK
    <2>2. Distance(boundaryIdx, burstStart) \in Int
      BY <2>1 DEF Distance, AtLeast
    <2>3. shiftBudget' <= shiftBudget /\ shiftBudget' \in Int /\ shiftBudget \in Int
      BY <1>1, <1>2, <1>3
    <2> DEFINE d == Distance(boundaryIdx, burstStart)
               m == BaseBudget * (1 + replans)
    <2>4. d + shiftBudget <= m
      BY <1>2 DEF SpentOf
    <2> HIDE DEF d, m
    <2>5. d + shiftBudget' <= m
      BY <2>1, <2>2, <2>3, <2>4 DEF d, m
    <2> QED  BY <2>5 DEF SpentOf, d, m
  <1> QED  BY <1>1, <1>3, <1>4, NoBatchRecord DEF BurstOK, Spent

\* Planning the rebalance of a chunk keeps the shape.
LEMMA PlanChunkShape == ASSUME ShapeOK, PlanChunk PROVE ShapeOK'
  <1>1. PICK chunk \in Seq(Fill) :
           /\ fills' \in Seq(Fill) /\ (Rebalancing(chunk, shiftBudget) \/ Uncovered(chunk))
           /\ ~Busy /\ UNCHANGED <<boundaryIdx, live, unseen, lastFilled, burstStart, replans, landed>>
    BY NextChunk
  <1>2. BurstOK
    BY DEF ShapeOK
  <1>3. CASE Rebalancing(chunk, shiftBudget)
    <2>1. shiftBudget \in 0 .. BaseBudget /\ replans' \in Nat
          /\ SpentOf(boundaryIdx, burstStart, shiftBudget, replans')
      BY <1>1, <1>2 DEF BurstOK, Spent
    <2> QED  BY <1>1, <1>3, <2>1, RebalancingShape
  <1>4. CASE Uncovered(chunk)
    <2>1. batch = NoBatch /\ UNCHANGED <<batch, type, placed, journal, adrift>>
      BY <1>1, <1>4 DEF Uncovered, Busy
    <2>2. BurstOK'
      BY <1>1, <1>2, <1>4, <2>1, UncoveredSpends
    <2>3. GridOK(type', placed') /\ FillsOK' /\ FailureOK'
      BY <1>1, <2>1 DEF ShapeOK, FillsOK, FailureOK
    <2> QED  BY <2>1, <2>2, <2>3, ShapeEnd
  <1> QED  BY <1>1, <1>3, <1>4

\* Planning the rebalance of a chunk keeps the book.
LEMMA PlanChunkSteady == ASSUME ShapeOK, Steady, adrift' = 0, PlanChunk PROVE Steady'
  <1>1. PICK chunk \in Seq(Fill) :
           /\ fills' \in Seq(Fill) /\ (Rebalancing(chunk, shiftBudget) \/ Uncovered(chunk))
           /\ ~Busy /\ UNCHANGED <<boundaryIdx, live, unseen, lastFilled, burstStart, replans, landed>>
    BY NextChunk
  <1>2. CASE Rebalancing(chunk, shiftBudget)
    <2>1. shiftBudget \in 0 .. BaseBudget
      BY DEF ShapeOK, BurstOK
    <2> QED  BY <1>1, <1>2, <2>1, RebalancingSteady
  <1>3. CASE Uncovered(chunk)
    BY <1>1, <1>3 DEF Uncovered, Steady, FillsGone, SentOK, LandedOK, Busy
  <1> QED  BY <1>1, <1>2, <1>3

\* Planning again on a grid that changed keeps the shape.
LEMMA PlanAgainShape == ASSUME ShapeOK, PlanAgain PROVE ShapeOK'
  <1>1. /\ Busy /\ batch.pos = 0 /\ replans' = replans + 1 /\ Rebalancing(batch.chunk, BaseBudget)
        /\ UNCHANGED <<boundaryIdx, live, unseen, fills, lastFilled, burstStart, landed>>
    BY DEF PlanAgain, marketVars
  <1>2. fills \in Seq(Fill) /\ batch.chunk \in Seq(Fill) /\ BurstOK
    BY DEF ShapeOK, FillsOK
  <1>3. BaseBudget \in Nat /\ BaseBudget \in 0 .. BaseBudget /\ replans \in Nat
    BY <1>2, Constants DEF BurstOK
  <1>4. SpentOf(boundaryIdx, burstStart, BaseBudget, replans + 1)
    <2> DEFINE d == Distance(boundaryIdx, burstStart)
               m == BaseBudget * (1 + replans)
               next == BaseBudget * (1 + (replans + 1))
    <2>1. m \in Int /\ next = m + BaseBudget
      BY <1>3, SpentRenews
    <2>2. d \in Int
      <3>1. boundaryIdx \in Int /\ burstStart \in Int
        BY <1>2, Constants DEF BurstOK
      <3> QED  BY <3>1 DEF Distance, AtLeast
    <2>3. d + shiftBudget <= m /\ shiftBudget \in Nat
      BY <1>2, <1>3 DEF BurstOK, Spent, SpentOf
    <2> HIDE DEF d, m, next
    <2>4. d + BaseBudget <= next
      BY <1>3, <2>1, <2>2, <2>3
    <2> QED  BY <2>4 DEF SpentOf, d, next
  <1>5. replans' \in Nat /\ SpentOf(boundaryIdx, burstStart, BaseBudget, replans')
    BY <1>1, <1>3, <1>4
  <1> QED  BY <1>1, <1>2, <1>3, <1>5, RebalancingShape

\* Planning again on a grid that changed keeps the book.
LEMMA PlanAgainSteady == ASSUME ShapeOK, Steady, adrift' = 0, PlanAgain PROVE Steady'
  <1>1. /\ Busy /\ batch.pos = 0 /\ Rebalancing(batch.chunk, BaseBudget)
        /\ UNCHANGED <<live, unseen, landed>>
    BY DEF PlanAgain, marketVars
  <1>2. batch.chunk \in Seq(Fill) /\ BaseBudget \in 0 .. BaseBudget
    BY Constants DEF ShapeOK, FillsOK
  <1> QED  BY <1>1, <1>2, RebalancingSteady

-----------------------------------------------------------------------------
\* Corrections and commits.

\* What a correction does with the plan p, the working grid w and the boundary b.
Correction(p, w, b) ==
    IF p = <<>>
    THEN /\ Install(w, b) /\ burstStart' = Gated(b) /\ Drifting(adrift > 0 \/ landed # <<>>)
         /\ UNCHANGED <<batch, journal>>
    ELSE Begin(p, w, b, <<>>) /\ UNCHANGED <<boundaryIdx, burstStart>>

\* A divergence correction, with or without a boundary shift, is such a step.
LEMMA FundShiftIs ==
    ASSUME ShapeOK, FundShift
    PROVE  \E b \in Int : \E p, w : PlanOK(b, p) /\ Keeps(w, p) /\ GridOK(w.type, w.placed) /\ Correction(p, w, b)
  <1>1. PICK sides \in (SUBSET Sides) \ {{}}, x \in 0 .. Ceiling : CorrectGrid(sides, FundBoundary(x))
    BY DEF FundShift
  <1> DEFINE b == FundBoundary(x)
             acted == IF b = boundaryIdx THEN sides ELSE Sides
             p == FundActions(sides, acted, b)
             w == FundGrid(acted, b)
  <1>2. GridOK(type, placed) /\ boundaryIdx \in 0 .. Ceiling
    BY DEF ShapeOK, BurstOK
  <1>3. acted \in SUBSET Sides
    OBVIOUS
  <1> HIDE DEF acted
  <1>4. b \in Int /\ Keeps(w, p) /\ GridOK(w.type, w.placed)
    BY <1>2, <1>3, FundKeeps
  <1>5. PlanOK(b, p)
    BY <1>2, <1>4, FundPlan
  <1>6. Correction(p, w, b)
    BY <1>1 DEF CorrectGrid, Correction, acted
  <1> HIDE DEF b, p, w
  <1> QED  BY <1>4, <1>5, <1>6

\* A divergence correction keeps the shape.
LEMMA FundShiftShape == ASSUME ShapeOK, FundShift PROVE ShapeOK'
  <1>1. PICK b \in Int : \E p, w :
           PlanOK(b, p) /\ Keeps(w, p) /\ GridOK(w.type, w.placed) /\ Correction(p, w, b)
    BY FundShiftIs
  <1>2. PICK p, w : PlanOK(b, p) /\ Keeps(w, p) /\ GridOK(w.type, w.placed) /\ Correction(p, w, b)
    BY <1>1
  <1>3. Idle /\ UNCHANGED <<unseen, fills, lastFilled, shiftBudget, replans>> /\ batch = NoBatch
    BY DEF FundShift, marketVars, Idle, Busy
  <1>4. <<>> \in Seq(Fill) /\ FillsOK /\ BurstOK /\ FailureOK
    BY DEF ShapeOK
  <1>5. CASE p = <<>>
    <2>1. /\ type' = w.type /\ placed' = w.placed /\ boundaryIdx' = Gated(b) /\ burstStart' = Gated(b)
          /\ UNCHANGED <<batch, journal>> /\ adrift' \in Nat
      BY <1>2, <1>4, <1>5 DEF Correction, Install, Drifting, FailureOK
    <2>2. GridOK(type', placed') /\ FailureOK'
      BY <1>2, <1>4, <2>1 DEF FailureOK
    <2>3. BurstOK'
      BY <1>3, <1>4, <2>1, Relocates
    <2>4. FillsOK'
      BY <1>3, <1>4, <2>1 DEF FillsOK
    <2> QED  BY <1>3, <2>1, <2>2, <2>3, <2>4, ShapeEnd
  <1>6. CASE p # <<>>
    <2>1. Begin(p, w, b, <<>>) /\ UNCHANGED <<boundaryIdx, burstStart>>
      BY <1>2, <1>6 DEF Correction
    <2>2. BatchRecord(batch') /\ batch'.chunk = <<>>
      BY <2>1, BegunChunk, NoBatchRecord
    <2>3. BurstOK'
      BY <1>3, <1>4, <2>1, <2>2 DEF BurstOK, Spent
    <2>4. FillsOK'
      BY <1>3, <1>4, <2>2 DEF FillsOK
    <2> QED  BY <1>2, <2>1, <2>3, <2>4, BeginShape
  <1> QED  BY <1>5, <1>6

\* A divergence correction keeps the book.
LEMMA FundShiftSteady == ASSUME ShapeOK, Steady, adrift' = 0, FundShift PROVE Steady'
  <1>1. PICK b \in Int : \E p, w :
           PlanOK(b, p) /\ Keeps(w, p) /\ GridOK(w.type, w.placed) /\ Correction(p, w, b)
    BY FundShiftIs
  <1>2. PICK p, w : PlanOK(b, p) /\ Keeps(w, p) /\ GridOK(w.type, w.placed) /\ Correction(p, w, b)
    BY <1>1
  <1>3. ~Busy /\ UNCHANGED <<live, unseen, landed>> /\ batch = NoBatch
    BY DEF FundShift, marketVars, Idle, Busy
  <1>4. CASE p = <<>>
    <2>1. type' = w.type /\ placed' = w.placed /\ landed = <<>> /\ UNCHANGED batch
      BY <1>2, <1>4 DEF Correction, Install, Drifting, ShapeOK, FailureOK
    <2>2. /\ NoCross(live)
          /\ \A s \in Sides, i \in Levels : live[s][i] = 1 => placed[i] # "no" /\ type[i] = s
      BY <1>3, <2>1, NothingSent
    <2>3. Ats(<<>>) = {}
      BY EmptyPlan
    <2>4. \A s \in Sides, i \in Levels : live'[s][i] = 1 => placed'[i] # "no" /\ type'[i] = s
      BY <1>2, <1>3, <1>4, <2>1, <2>2, <2>3 DEF Keeps
    <2>5. live' \in Book /\ FillsGone'
      BY <1>3 DEF Steady, FillsGone
    <2> QED  BY <1>3, <2>1, <2>2, <2>4, <2>5, EmptyEnd
  <1>5. CASE p # <<>>
    <2>1. Begin(p, w, b, <<>>)
      BY <1>2, <1>5 DEF Correction
    <2> QED  BY <1>2, <1>3, <2>1, BeginSteady
  <1> QED  BY <1>4, <1>5

-----------------------------------------------------------------------------
\* What all the operations of a batch make of a slot.
LEMMA CommitSlots ==
    ASSUME GridOK(type, placed), NEW w, GridOK(w.type, w.placed), NEW ops, OpsOK(type, placed, ops)
    PROVE  GridOK(Settled(w, ops).type, Settled(w, ops).placed)
  <1> DEFINE N == Len(ops)
             reached(i) == {k \in DOMAIN ops : Reaches(ops[k], i)}
             left(i) == {k \in DOMAIN ops : Leaves(ops[k], i)}
             new == Settled(w, ops)
  <1>1. ops \in Seq(Action) /\ N \in Nat /\ DOMAIN ops = 1 .. N
    BY DEF OpsOK
  <1>2. /\ new.type = [i \in Levels |-> IF reached(i) = {} THEN w.type[i] ELSE ops[Max(reached(i))].side]
        /\ new.placed = [i \in Levels |->
             IF reached(i) \cup left(i) = {} THEN w.placed[i]
             ELSE IF Max(reached(i) \cup left(i)) \in left(i) THEN "no" ELSE "whole"]
    BY DEF Settled
  <1> HIDE DEF new
  <1>3. \A i : reached(i) \in SUBSET (1 .. N) /\ left(i) \in SUBSET (1 .. N)
    BY <1>1
  <1> HIDE DEF reached, left
  <1>4. ASSUME NEW K \in SUBSET (1 .. N), K # {} PROVE Max(K) \in K
    <2>1. K \in SUBSET Nat /\ \A k \in K : k <= N
      BY <1>1
    <2> QED  BY <1>1, <1>4, <2>1, MaxOf
  <1>5. ASSUME NEW i \in Levels, reached(i) # {} PROVE ops[Max(reached(i))].side \in Sides
    <2>1. Max(reached(i)) \in 1 .. N
      BY <1>3, <1>4, <1>5
    <2>2. ops[Max(reached(i))] \in Action
      BY <1>1, <2>1
    <2> QED  BY <2>2 DEF Action
  <1>6. new.type \in [Levels -> SlotTypes]
    <2>1. \A i \in Levels : new.type[i] \in SlotTypes
      BY <1>2, <1>5 DEF GridOK, SlotTypes, Sides
    <2> QED  BY <1>2, <2>1
  <1>7. new.placed \in [Levels -> Holdings]
    <2>1. \A i \in Levels : new.placed[i] \in Holdings
      BY <1>2 DEF GridOK, Holdings
    <2> QED  BY <1>2, <2>1
  <1>8. ASSUME NEW i \in Levels, new.placed[i] # "no" PROVE new.type[i] \in Sides
    <2>1. CASE reached(i) \cup left(i) = {}
      BY <1>2, <1>8, <2>1 DEF GridOK
    <2>2. CASE reached(i) \cup left(i) # {}
      <3>1. Max(reached(i) \cup left(i)) \notin left(i)
        BY <1>2, <1>8, <2>2
      <3>2. reached(i) \cup left(i) \in SUBSET (1 .. N)
        BY <1>3
      <3>3. Max(reached(i) \cup left(i)) \in reached(i) \cup left(i)
        BY <1>4, <2>2, <3>2
      <3>4. reached(i) # {}
        BY <3>1, <3>3
      <3> QED  BY <1>2, <1>5, <3>4
    <2> QED  BY <2>1, <2>2
  <1> QED  BY <1>6, <1>7, <1>8 DEF GridOK, new

\* An operation never places an order at a slot whose order stays: it would meet it.
LEMMA NoMeeting ==
    ASSUME NEW ops, OpsOK(type, placed, ops), NEW k \in DOMAIN ops, Places(ops[k]),
           NEW i \in Levels, ops[k].to = i, placed[i] # "no"
    PROVE  \E l \in DOMAIN ops : ops[l].kind = "cancel" /\ ops[l].at = i
  <1>1. Len(ops) \in Nat /\ DOMAIN ops = 1 .. Len(ops)
    BY DEF OpsOK
  <1>2. type[i] # ops[k].side
    BY DEF OpsOK, Placeable
  <1>3. Beyond(ops[k].side, ops[k].to, i)
    <2>1. i \in Nat
      BY Constants
    <2> QED  BY <2>1 DEF Beyond
  <1>4. PICK l \in 1 .. (k - 1) : ops[l].kind = "cancel" /\ ops[l].at = i
    BY <1>2, <1>3 DEF OpsOK, Uncrossed
  <1>5. l \in DOMAIN ops
    BY <1>1
  <1> QED  BY <1>4, <1>5

\* Every order on chain at the end of a batch has its slot in the grid that is committed.
LEMMA CommitHolds ==
    ASSUME ShapeOK, Steady, Busy, batch.pos = Len(batch.ops), NEW s \in Sides, NEW i \in Levels, live[s][i] = 1
    PROVE  LET new == Settled(batch, batch.ops) IN new.placed[i] # "no" /\ new.type[i] = s
  <1> DEFINE ops == batch.ops
             N == Len(ops)
             reached == {k \in DOMAIN ops : Reaches(ops[k], i)}
             left == {k \in DOMAIN ops : Leaves(ops[k], i)}
             new == Settled(batch, ops)
  <1>1. /\ OpsOK(type, placed, ops) /\ LiveOK(type, placed, live, ops, N)
        /\ KeepOK(type, placed, live, batch)
    BY DEF Steady, SentOK, BookOK
  <1>2. N \in Nat /\ DOMAIN ops = 1 .. N /\ Distinct(ops)
    BY <1>1 DEF OpsOK
  <1>3. /\ new.type[i] = IF reached = {} THEN batch.type[i] ELSE ops[Max(reached)].side
        /\ new.placed[i] = IF reached \cup left = {} THEN batch.placed[i]
                           ELSE IF Max(reached \cup left) \in left THEN "no" ELSE "whole"
    BY DEF Settled
  <1> HIDE DEF new, ops, N
  <1>4. CASE Made(ops, N, s, i)
    <2>1. PICK k \in 1 .. N : Places(ops[k]) /\ ops[k].side = s /\ ops[k].to = i
      BY <1>4 DEF Made
    <2>2. left = {}
      <3> SUFFICES ASSUME NEW m \in 1 .. N, ops[m].kind = "move", ops[m].at = i PROVE FALSE
        BY <1>2 DEF Leaves
      <3>1. Removes(ops[m])
        BY DEF Removes
      <3>2. placed[i] # "no"
        BY <1>1, <1>2, <3>1 DEF OpsOK, Removable
      <3>3. PICK l \in DOMAIN ops : ops[l].kind = "cancel" /\ ops[l].at = i
        BY <1>1, <1>2, <2>1, <3>2, NoMeeting
      <3>4. Removes(ops[l])
        BY <3>3 DEF Removes
      <3>5. l = m
        BY <1>2, <3>1, <3>3, <3>4 DEF Distinct
      <3> QED  BY <3>3, <3>5
    <2>3. \A x : x \in reached <=> x = k
      BY <1>2, <2>1 DEF Reaches, Distinct
    <2>4. reached = {k}
      BY <2>3
    <2> HIDE DEF reached, left
    <2>5. Max({k}) = k
      <3>1. {k} \in SUBSET Nat /\ {k} # {} /\ \A x \in {k} : x <= N
        BY <1>2
      <3>2. Max({k}) \in {k}
        BY <1>2, <3>1, MaxOf
      <3> QED  BY <3>2
    <2>6. reached \cup left = {k} /\ k \notin left /\ {k} # {}
      BY <2>2, <2>4
    <2>7. new.placed[i] = "whole"
      BY <1>3, <2>5, <2>6
    <2>8. new.type[i] = ops[k].side
      BY <1>3, <2>4, <2>5
    <2> QED  BY <2>1, <2>7, <2>8 DEF new, ops
  <1>5. CASE placed[i] # "no" /\ type[i] = s /\ ~Removed(ops, N, i)
    <2>1. left = {}
      BY <1>2, <1>5 DEF Leaves, Removed, Removes
    <2>2. reached = {}
      <3> SUFFICES ASSUME NEW k \in 1 .. N, Places(ops[k]), ops[k].to = i PROVE FALSE
        BY <1>2 DEF Reaches
      <3>1. PICK l \in DOMAIN ops : ops[l].kind = "cancel" /\ ops[l].at = i
        BY <1>1, <1>2, <1>5, NoMeeting
      <3> QED  BY <1>2, <1>5, <3>1 DEF Removed, Removes
    <2>3. batch.type[i] = s /\ batch.placed[i] # "no"
      BY <1>1, <1>5 DEF KeepOK, ops, N
    <2> QED  BY <1>3, <2>1, <2>2, <2>3 DEF new, ops
  <1> QED  BY <1>1, <1>4, <1>5 DEF LiveOK

\* The commit of a batch keeps the shape.
LEMMA CommitBatchShape == ASSUME ShapeOK, CommitBatch PROVE ShapeOK'
  <1>1. /\ Busy /\ Install(Settled(batch, batch.ops), batch.target) /\ batch' = NoBatch
        /\ burstStart' = IF batch.chunk = <<>> THEN Gated(batch.target) ELSE burstStart
        /\ journal' = {} /\ UNCHANGED <<unseen, fills, lastFilled, shiftBudget, replans, adrift>>
    BY DEF CommitBatch, marketVars
  <1> DEFINE new == Settled(batch, batch.ops)
  <1>2. GridOK(batch.type, batch.placed) /\ OpsOK(type, placed, batch.ops) /\ GridOK(type, placed) /\ BurstOK
    BY <1>1 DEF ShapeOK, BatchOK
  <1>3. type' = new.type /\ placed' = new.placed /\ boundaryIdx' = Gated(batch.target)
    BY <1>1 DEF Install
  <1>4. GridOK(new.type, new.placed)
    BY <1>2, CommitSlots
  <1> HIDE DEF new
  <1>5. GridOK(type', placed') /\ FailureOK'
    BY <1>1, <1>3, <1>4 DEF ShapeOK, FailureOK
  <1>6. FillsOK'
    <2>1. <<>> \in Seq(Fill)
      OBVIOUS
    <2> QED  BY <1>1, <2>1, NoBatchRecord DEF ShapeOK, FillsOK
  <1>7. BurstOK'
    <2>1. CASE batch.chunk = <<>>
      BY <1>1, <1>2, <1>3, <2>1, Relocates
    <2>2. CASE batch.chunk # <<>>
      <3>1. Spent(Gated(batch.target)) /\ burstStart' = burstStart
        BY <1>1, <1>2, <2>2 DEF BurstOK
      <3>2. Gated(batch.target) \in 0 .. Ceiling
        BY <1>2, GatedType DEF BurstOK
      <3>3. Spent(boundaryIdx)'
        BY <1>1, <1>3, <3>1 DEF Spent
      <3> QED  BY <1>1, <1>2, <1>3, <3>1, <3>2, <3>3, NoBatchRecord DEF BurstOK
    <2> QED  BY <2>1, <2>2
  <1> QED  BY <1>1, <1>5, <1>6, <1>7, ShapeEnd

\* The commit of a batch keeps the book.
LEMMA CommitBatchSteady == ASSUME ShapeOK, Steady, CommitBatch PROVE Steady'
  <1>1. /\ Busy /\ ~MoreToSend /\ Install(Settled(batch, batch.ops), batch.target) /\ batch' = NoBatch
        /\ UNCHANGED <<live, unseen>> /\ \E slots : landed' = LandedBut(slots)
    BY DEF CommitBatch, marketVars
  <1> DEFINE new == Settled(batch, batch.ops)
  <1>2. batch.pos \in 0 .. Len(batch.ops) /\ OpsOK(type, placed, batch.ops) /\ NoCross(live) /\ landed = <<>>
    BY <1>1 DEF ShapeOK, BatchOK, Steady, SentOK, BookOK
  <1>3. batch.pos = Len(batch.ops)
    <2>1. Len(batch.ops) \in Nat
      BY <1>2 DEF OpsOK
    <2> QED  BY <1>1, <1>2, <2>1 DEF MoreToSend
  <1>4. type' = new.type /\ placed' = new.placed
    BY <1>1 DEF Install
  <1>5. \A s \in Sides, i \in Levels : live[s][i] = 1 => new.placed[i] # "no" /\ new.type[i] = s
    BY <1>1, <1>3, CommitHolds
  <1> HIDE DEF new
  <1>6. landed' = <<>>
    BY <1>1, <1>2, NoneLanded
  <1>7. live' \in Book /\ FillsGone'
    BY <1>1 DEF Steady, FillsGone
  <1> QED  BY <1>1, <1>2, <1>4, <1>5, <1>6, <1>7, EmptyEnd

-----------------------------------------------------------------------------
\* Refused chunks.

\* The operations of a batch that has been given up, when the slots of some orders that are
\* gone have been cleared.
LEMMA LandedBook ==
    ASSUME NEW ops, NEW n \in Nat, n <= Len(ops), BookOK(type, placed, live, ops, n),
           NEW ty, NEW pl, NEW D \in SUBSET Levels,
           ty = [i \in Levels |-> IF i \in D THEN "spread" ELSE type[i]],
           pl = [i \in Levels |-> IF i \in D THEN "no" ELSE placed[i]],
           \A i \in D : live[type[i]][i] = 0 /\ ~Removed(ops, n, i)
    PROVE  BookOK(ty, pl, live, SubSeq(ops, 1, n), Len(SubSeq(ops, 1, n)))
  <1> DEFINE q == SubSeq(ops, 1, n)
  <1>1. ops \in Seq(Action) /\ OpsOK(type, placed, ops)
    BY DEF BookOK, OpsOK
  <1>2. /\ q \in Seq(Action) /\ Len(q) = n /\ DOMAIN q = 1 .. n
        /\ \A k \in 1 .. n : q[k] = ops[k] /\ k \in DOMAIN ops
    <2>1. Len(ops) \in Nat /\ DOMAIN ops = 1 .. Len(ops)
      BY <1>1
    <2>2. q \in Seq(Action) /\ Len(q) = n /\ \A k \in 1 .. n : q[k] = ops[k]
      BY <1>1, <2>1, SubSeqProperties
    <2> QED  BY <2>1, <2>2
  <1> HIDE DEF q
  <1>3. \A i \in Levels : /\ pl[i] # "no" => i \notin D /\ placed[i] # "no" /\ ty[i] = type[i]
                          /\ i \notin D => pl[i] = placed[i] /\ ty[i] = type[i]
    OBVIOUS
  <1>4. \A i : /\ Removed(q, n, i) <=> Removed(ops, n, i)
               /\ MovedOff(q, n, i) <=> MovedOff(ops, n, i)
    BY <1>2 DEF Removed, MovedOff
  <1>5. \A s, i : Made(q, n, s, i) <=> Made(ops, n, s, i)
    BY <1>2 DEF Made
  <1>6. OpsOK(ty, pl, q)
    <2>1. ASSUME NEW k \in 1 .. n
          PROVE  ActionOK(q[k]) /\ Removable(ty, pl, q[k]) /\ Placeable(ty, pl, q[k])
      <3>1. ActionOK(ops[k]) /\ Removable(type, placed, ops[k]) /\ Placeable(type, placed, ops[k])
        BY <1>1, <1>2 DEF OpsOK
      <3>2. q[k] = ops[k] /\ ops[k].at \in Levels /\ ops[k].to \in Levels
        BY <1>2, <3>1 DEF ActionOK, Action
      <3>3. Removable(ty, pl, ops[k])
        <4> SUFFICES ASSUME Removes(ops[k]) PROVE pl[ops[k].at] # "no" /\ ty[ops[k].at] = ops[k].side
          BY DEF Removable
        <4>1. ops[k].at \notin D
          BY DEF Removed
        <4> QED  BY <1>3, <3>1, <3>2, <4>1 DEF Removable
      <3>4. Placeable(ty, pl, ops[k])
        BY <1>3, <3>1, <3>2 DEF Placeable
      <3> QED  BY <3>1, <3>2, <3>3, <3>4
    <2>2. Distinct(q)
      BY <1>1, <1>2 DEF OpsOK, Distinct
    <2>3. Apart(q)
      BY <1>1, <1>2 DEF OpsOK, Apart
    <2>4. Uncrossed(ty, pl, q)
      <3> SUFFICES ASSUME NEW k \in 1 .. n, NEW i \in Levels, Places(q[k]), pl[i] # "no",
                          ty[i] # q[k].side, Beyond(q[k].side, q[k].to, i)
                   PROVE  \E l \in 1 .. (k - 1) : q[l].kind = "cancel" /\ q[l].at = i
        BY <1>2 DEF Uncrossed
      <3>1. placed[i] # "no" /\ type[i] = ty[i] /\ q[k] = ops[k] /\ k \in DOMAIN ops
        BY <1>2, <1>3
      <3>2. PICK l \in 1 .. (k - 1) : ops[l].kind = "cancel" /\ ops[l].at = i
        BY <1>1, <3>1 DEF OpsOK, Uncrossed
      <3>3. l \in 1 .. n
        OBVIOUS
      <3> QED  BY <1>2, <3>2, <3>3
    <2> QED  BY <1>2, <2>1, <2>2, <2>3, <2>4 DEF OpsOK
  <1>7. LiveOK(ty, pl, live, q, n)
    <2> SUFFICES ASSUME NEW s \in Sides, NEW i \in Levels, live[s][i] = 1
                 PROVE  Made(q, n, s, i) \/ (pl[i] # "no" /\ ty[i] = s /\ ~Removed(q, n, i))
      BY DEF LiveOK
    <2>1. Made(ops, n, s, i) \/ (placed[i] # "no" /\ type[i] = s /\ ~Removed(ops, n, i))
      BY DEF BookOK, LiveOK
    <2>2. type[i] = s => i \notin D
      OBVIOUS
    <2> QED  BY <1>3, <1>4, <1>5, <2>1, <2>2
  <1>8. HomeOK(ty, pl, live, q, n)
    <2>1. \A s \in Sides, i \in Levels : Home(ty, pl, live, q, n, s, i) => Home(type, placed, live, ops, n, s, i)
      BY <1>3, <1>4 DEF Home
    <2> QED  BY <2>1 DEF BookOK, HomeOK, Sides
  <1> QED  BY <1>2, <1>6, <1>7, <1>8 DEF BookOK, q

\* The position of an operation of the next transaction.
LEMMA NextOpsAre ==
    ASSUME ShapeOK, MoreToSend
    PROVE  LET ops == batch.ops
               n == batch.pos
               m == n + Len(NextOps)
           IN /\ n \in Nat /\ m \in Nat /\ Len(NextOps) \in Nat /\ n <= m /\ m <= Len(ops) /\ Len(ops) \in Nat
              /\ ops \in Seq(Action) /\ DOMAIN ops = 1 .. Len(ops) /\ DOMAIN NextOps = 1 .. Len(NextOps)
              /\ \A k \in DOMAIN NextOps : n + k \in (n + 1) .. m /\ n + k \in DOMAIN ops
                                           /\ NextOps[k] = ops[n + k]
  <1> DEFINE ops == batch.ops
             n == batch.pos
             N == Len(ops)
             e == AtMost(n + MaxOps, N)
             q == NextOps
  <1>1. Busy /\ n < N
    BY DEF MoreToSend
  <1>2. ops \in Seq(Action) /\ n \in 0 .. N
    BY <1>1 DEF ShapeOK, BatchOK, OpsOK
  <1>3. N \in Nat /\ DOMAIN ops = 1 .. N /\ n \in Nat
    BY <1>2
  <1>4. e \in Nat /\ n <= e /\ e <= N
    BY <1>1, <1>3, RebalanceAssumption DEF AtMost
  <1>5. q = SubSeq(ops, n + 1, e)
    BY DEF NextOps
  <1> HIDE DEF ops, n, N, e, q
  <1>6. n + 1 \in Nat /\ n + 1 \in 1 .. (N + 1) /\ e \in n .. N
    BY <1>3, <1>4
  <1>7. /\ q \in Seq(Action) /\ Len(q) = IF n + 1 <= e THEN e - (n + 1) + 1 ELSE 0
        /\ \A k \in 1 .. (e - (n + 1) + 1) : q[k] = ops[(n + 1) + k - 1]
    BY <1>2, <1>3, <1>4, <1>5, <1>6, SubSeqProperties DEF N
  <1>8. Len(q) = e - n
    BY <1>3, <1>4, <1>7
  <1>9. DOMAIN q = 1 .. Len(q) /\ Len(q) \in Nat
    BY <1>7
  <1>10. ASSUME NEW k \in 1 .. (e - n)
         PROVE  n + k \in (n + 1) .. e /\ n + k \in 1 .. N /\ q[k] = ops[n + k]
    <2>1. k \in 1 .. (e - (n + 1) + 1) /\ (n + 1) + k - 1 = n + k
      BY <1>3, <1>4
    <2>2. q[k] = ops[n + k]
      BY <1>7, <2>1
    <2> QED  BY <1>3, <1>4, <2>2
  <1>11. n + Len(q) = e
    BY <1>3, <1>4, <1>8
  <1>12. /\ n \in Nat /\ n + Len(q) \in Nat /\ Len(q) \in Nat /\ n <= n + Len(q) /\ n + Len(q) <= N /\ N \in Nat
         /\ ops \in Seq(Action) /\ DOMAIN ops = 1 .. N /\ DOMAIN q = 1 .. Len(q)
    BY <1>2, <1>3, <1>4, <1>9, <1>11
  <1>13. \A k \in DOMAIN q : n + k \in (n + 1) .. (n + Len(q)) /\ n + k \in DOMAIN ops /\ q[k] = ops[n + k]
    BY <1>3, <1>8, <1>9, <1>10, <1>11
  <1> QED  BY <1>12, <1>13 DEF ops, n, N, q

\* The fills that are left when some of them are dropped.
LEMMA UnlessFills ==
    ASSUME unseen \in Seq(Fill), NEW slots
    PROVE  /\ Unless(slots) \in Seq(Fill)
           /\ \A k \in DOMAIN Unless(slots) :
                 \E l \in DOMAIN unseen : Unless(slots)[k] = unseen[l] /\ unseen[l].at \notin slots
  <1> DEFINE K == {k \in DOMAIN unseen : unseen[k].at \notin slots}
  <1>1. K \in SUBSET (DOMAIN unseen) /\ Unless(slots) = Picked(unseen, K)
    BY DEF Unless
  <1>2. \A l \in K : l \in DOMAIN unseen /\ unseen[l].at \notin slots
    OBVIOUS
  <1> HIDE DEF K
  <1>3. /\ Picked(unseen, K) \in Seq(Fill)
        /\ \A k \in DOMAIN Picked(unseen, K) : \E l \in K : Picked(unseen, K)[k] = unseen[l]
    BY <1>1, PickedSeq
  <1> QED  BY <1>1, <1>2, <1>3

\* A batch that is given up leaves the shape.
LEMMA AbandonShape ==
    ASSUME ShapeOK, MoreToSend, NEW rest \in Seq(Fill), NEW cleared, Abandon(rest, cleared),
           unseen' \in Seq(Fill), GridOK(type', placed')
    PROVE  ShapeOK'
  <1>1. /\ batch' = NoBatch /\ fills' = rest /\ journal' = journal \cup CreatesIn(batch.ops)
        /\ UNCHANGED <<boundaryIdx, lastFilled, shiftBudget, burstStart, replans, adrift>>
    BY DEF Abandon
  <1>2. OpsOK(type, placed, batch.ops)
    BY DEF ShapeOK, BatchOK, MoreToSend
  <1>3. \A k \in DOMAIN batch.ops : batch.ops[k] \in Action
    BY <1>2 DEF OpsOK, ActionOK
  <1>4. CreatesIn(batch.ops) \in SUBSET Action
    BY <1>3 DEF CreatesIn
  <1>5. FailureOK'
    BY <1>1, <1>4 DEF ShapeOK, FailureOK
  <1>6. FillsOK'
    <2>1. <<>> \in Seq(Fill)
      OBVIOUS
    <2> QED  BY <1>1, <2>1, NoBatchRecord DEF FillsOK
  <1>7. BurstOK'
    BY <1>1, NoBatchRecord DEF ShapeOK, BurstOK, Spent
  <1> QED  BY <1>1, <1>5, <1>6, <1>7, ShapeEnd

\* A batch that is given up leaves the book beside what it had sent; slots of orders that are
\* gone and were not yet taken are cleared.
LEMMA AbandonSteady ==
    ASSUME ShapeOK, Steady, MoreToSend, NEW D \in SUBSET Levels, UNCHANGED live,
           type' = [i \in Levels |-> IF i \in D THEN "spread" ELSE type[i]],
           placed' = [i \in Levels |-> IF i \in D THEN "no" ELSE placed[i]],
           \A i \in D : live[type[i]][i] = 0 /\ ~Removed(batch.ops, batch.pos, i),
           NEW rest, NEW cleared, Abandon(rest, cleared),
           \A k \in DOMAIN unseen' : live[unseen'[k].side][unseen'[k].at] = 0
    PROVE  Steady'
  <1> DEFINE sent == SubSeq(batch.ops, 1, batch.pos)
  <1>1. batch' = NoBatch /\ \E slots : landed' = LandedBut(slots) \o sent
    BY DEF Abandon
  <1>2. Busy /\ landed = <<>> /\ live \in Book /\ BookOK(type, placed, live, batch.ops, batch.pos)
    BY DEF Steady, SentOK, MoreToSend
  <1>3. batch.pos \in Nat /\ batch.pos <= Len(batch.ops) /\ batch.ops \in Seq(Action)
    BY NextOpsAre DEF MoreToSend
  <1>4. BookOK(type', placed', live, sent, Len(sent))
    BY <1>2, <1>3, LandedBook
  <1>5. sent \in Seq(Action)
    BY <1>4 DEF BookOK, OpsOK
  <1> HIDE DEF sent
  <1>6. landed' = sent
    <2>1. PICK slots : landed' = LandedBut(slots) \o sent
      BY <1>1
    <2>2. LandedBut(slots) = <<>>
      BY <1>2, NoneLanded
    <2> QED  BY <1>5, <2>1, <2>2
  <1>7. live' \in Book /\ FillsGone'
    BY <1>2 DEF FillsGone
  <1> QED  BY <1>1, <1>4, <1>6, <1>7, IdleEnd

\* A refused chunk, which leaves the batch half sent, keeps the shape.
LEMMA ChunkFailsShape == ASSUME ShapeOK, ChunkFails PROVE ShapeOK'
  <1>1. PICK rest \in {fills, <<>>} : Abandon(rest, {})
    BY DEF ChunkFails
  <1>2. MoreToSend /\ UNCHANGED <<type, placed, live, unseen>>
    BY DEF ChunkFails, marketVars
  <1>3. rest \in Seq(Fill) /\ unseen' \in Seq(Fill)
    <2>1. <<>> \in Seq(Fill)
      OBVIOUS
    <2> QED  BY <1>2, <2>1 DEF ShapeOK, FillsOK
  <1>4. GridOK(type', placed')
    BY <1>2 DEF ShapeOK
  <1> QED  BY <1>1, <1>2, <1>3, <1>4, AbandonShape

\* A refused chunk, which leaves the batch half sent, keeps the book.
LEMMA ChunkFailsSteady == ASSUME ShapeOK, Steady, ChunkFails PROVE Steady'
  <1>1. PICK rest \in {fills, <<>>} : Abandon(rest, {})
    BY DEF ChunkFails
  <1>2. MoreToSend /\ UNCHANGED <<type, placed, live, unseen>>
    BY DEF ChunkFails, marketVars
  <1>3. /\ type' = [i \in Levels |-> IF i \in {} THEN "spread" ELSE type[i]]
        /\ placed' = [i \in Levels |-> IF i \in {} THEN "no" ELSE placed[i]]
    BY <1>2 DEF ShapeOK, GridOK
  <1>4. {} \in SUBSET Levels
    OBVIOUS
  <1>5. \A k \in DOMAIN unseen' : live[unseen'[k].side][unseen'[k].at] = 0
    BY <1>2 DEF Steady, FillsGone
  <1>6. \A i \in {} : live[type[i]][i] = 0 /\ ~Removed(batch.ops, batch.pos, i)
    OBVIOUS
  <1> QED  BY <1>1, <1>2, <1>3, <1>4, <1>5, <1>6, AbandonSteady

\* The operation that names an order that is gone, and its slot.
LEMMA StaleSlot ==
    ASSUME ShapeOK, MoreToSend, NEW k \in DOMAIN NextOps, Removes(NextOps[k])
    PROVE  LET x == NextOps[k]
           IN x.at \in Levels /\ type[x.at] = x.side /\ ~Removed(batch.ops, batch.pos, x.at)
  <1> DEFINE ops == batch.ops
             n == batch.pos
             x == NextOps[k]
  <1>1. n + k \in DOMAIN ops /\ x = ops[n + k] /\ n + k \in (n + 1) .. (n + Len(NextOps)) /\ n \in Nat
        /\ Len(ops) \in Nat /\ DOMAIN ops = 1 .. Len(ops) /\ n <= Len(ops)
    BY NextOpsAre
  <1>2. OpsOK(type, placed, ops)
    BY DEF MoreToSend, ShapeOK, BatchOK
  <1> HIDE DEF ops, n, x
  <1>3. x \in Action /\ type[x.at] = x.side /\ Removes(x)
    BY <1>1, <1>2 DEF OpsOK, ActionOK, Removable, x
  <1>4. ~Removed(ops, n, x.at)
    <2> SUFFICES ASSUME NEW l \in 1 .. n, Removes(ops[l]), ops[l].at = x.at PROVE FALSE
      BY DEF Removed
    <2>1. l \in DOMAIN ops /\ l # n + k
      BY <1>1
    <2> QED  BY <1>1, <1>2, <1>3, <2>1 DEF OpsOK, Distinct
  <1> QED  BY <1>3, <1>4 DEF Action, x, ops, n

\* The clean-up after an operation on an order that is gone keeps the shape.
LEMMA StaleOrderShape == ASSUME ShapeOK, StaleOrder PROVE ShapeOK'
  <1>1. PICK k \in DeadOps : /\ Cleared({NextOps[k].at}) /\ unseen' = Unless({Where(NextOps[k].at)})
                             /\ Abandon(fills, {NextOps[k].at})
    BY DEF StaleOrder
  <1>2. MoreToSend /\ GridOK(type, placed) /\ unseen \in Seq(Fill) /\ fills \in Seq(Fill)
    BY DEF StaleOrder, ShapeOK, FillsOK
  <1>3. unseen' \in Seq(Fill)
    BY <1>1, <1>2, UnlessFills
  <1>4. GridOK(type', placed')
    <2>1. type' \in [Levels -> SlotTypes] /\ placed' \in [Levels -> Holdings]
      BY <1>1, <1>2 DEF Cleared, GridOK, SlotTypes, Holdings
    <2>2. \A i \in Levels : placed'[i] # "no" => type'[i] \in Sides
      BY <1>1, <1>2 DEF Cleared, GridOK
    <2> QED  BY <2>1, <2>2 DEF GridOK
  <1> QED  BY <1>1, <1>2, <1>3, <1>4, AbandonShape

\* The clean-up after an operation on an order that is gone keeps the book.
LEMMA StaleOrderSteady == ASSUME ShapeOK, Steady, StaleOrder PROVE Steady'
  <1>1. PICK k \in DeadOps : /\ Cleared({NextOps[k].at}) /\ unseen' = Unless({Where(NextOps[k].at)})
                             /\ Abandon(fills, {NextOps[k].at})
    BY DEF StaleOrder
  <1>2. MoreToSend /\ UNCHANGED live
    BY DEF StaleOrder
  <1>3. \A i : Where(i) = i
    BY <1>2, NotMoved DEF Steady, SentOK, MoreToSend
  <1> DEFINE x == NextOps[k]
             D == {x.at}
             slots == {Where(x.at)}
  <1>4. k \in DOMAIN NextOps /\ Removes(x) /\ live[x.side][x.at] = 0
    BY <1>3 DEF DeadOps, Removes
  <1>5. x.at \in Levels /\ type[x.at] = x.side /\ ~Removed(batch.ops, batch.pos, x.at)
    BY <1>2, <1>4, StaleSlot
  <1> HIDE DEF x
  <1>6. D \in SUBSET Levels /\ \A i \in D : live[type[i]][i] = 0 /\ ~Removed(batch.ops, batch.pos, i)
    BY <1>4, <1>5
  <1>7. Cleared(D) /\ unseen' = Unless(slots) /\ Abandon(fills, D)
    BY <1>1 DEF x
  <1>8. unseen \in Seq(Fill) /\ \A l \in DOMAIN unseen : live[unseen[l].side][unseen[l].at] = 0
    BY DEF ShapeOK, FillsOK, Steady, FillsGone
  <1> HIDE DEF D, slots
  <1>9. \A j \in DOMAIN unseen' : live[unseen'[j].side][unseen'[j].at] = 0
    <2>1. \A j \in DOMAIN Unless(slots) :
             \E l \in DOMAIN unseen : Unless(slots)[j] = unseen[l] /\ unseen[l].at \notin slots
      BY <1>8, UnlessFills
    <2> QED  BY <1>7, <1>8, <2>1
  <1> QED  BY <1>2, <1>6, <1>7, <1>9, AbandonSteady DEF Cleared

-----------------------------------------------------------------------------
\* What a stretch of operations does to the book.

\* A set with at most one element.
LEMMA AtMostOne ==
    ASSUME NEW S, IsFiniteSet(S), \A x, y \in S : x = y
    PROVE  Cardinality(S) = IF S = {} THEN 0 ELSE 1
  <1>1. CASE S = {}
    BY <1>1, FS_EmptySet
  <1>2. CASE S # {}
    <2>1. PICK x : S = {x}
      BY <1>2
    <2> QED  BY <1>2, <2>1, FS_Singleton
  <1> QED  BY <1>1, <1>2

\* The operations of the next transaction, by their positions in the batch.
Sent(ops, n, m, s, i) == \E k \in (n + 1) .. m : Places(ops[k]) /\ ops[k].side = s /\ ops[k].to = i
Gave(ops, n, m, s, i) == \E k \in (n + 1) .. m : Removes(ops[k]) /\ ops[k].side = s /\ ops[k].at = i
\* None of them names an order that is gone.
Alive(lv, ops, n, m) == \A k \in (n + 1) .. m : Removes(ops[k]) => lv[ops[k].side][ops[k].at] = 1
\* The book after them.
After(lv, ops, n, m, new) ==
    \A s \in Sides, i \in Levels :
        new[s][i] = IF Sent(ops, n, m, s, i) THEN 1 ELSE IF Gave(ops, n, m, s, i) THEN 0 ELSE lv[s][i]

\* No order of its side is at a level where an operation places one, neither is one taken there.
LEMMA FreeLevel ==
    ASSUME NEW ty, NEW pl, NEW lv, NEW ops, NEW n \in Nat, BookOK(ty, pl, lv, ops, n),
           NEW k \in DOMAIN ops, n < k, Places(ops[k])
    PROVE  /\ lv[ops[k].side][ops[k].to] # 1
           /\ \A l \in DOMAIN ops : ~(Removes(ops[l]) /\ ops[l].side = ops[k].side /\ ops[l].at = ops[k].to)
  <1>1. OpsOK(ty, pl, ops) /\ DOMAIN ops = 1 .. Len(ops) /\ Len(ops) \in Nat
    BY DEF BookOK, OpsOK
  <1>2. ops[k].side \in Sides /\ ops[k].to \in Levels
    BY <1>1 DEF OpsOK, ActionOK, Action
  <1>3. ~(pl[ops[k].to] # "no" /\ ty[ops[k].to] = ops[k].side)
    BY <1>1 DEF OpsOK, Placeable
  <1>4. ~Made(ops, n, ops[k].side, ops[k].to)
    <2> SUFFICES ASSUME NEW l \in 1 .. n, Places(ops[l]), ops[l].to = ops[k].to PROVE FALSE
      BY DEF Made
    <2>1. l \in DOMAIN ops /\ l # k
      BY <1>1
    <2> QED  BY <1>1, <2>1 DEF OpsOK, Distinct
  <1>5. lv[ops[k].side][ops[k].to] # 1
    BY <1>2, <1>3, <1>4 DEF BookOK, LiveOK
  <1>6. \A l \in DOMAIN ops : ~(Removes(ops[l]) /\ ops[l].side = ops[k].side /\ ops[l].at = ops[k].to)
    BY <1>1, <1>3 DEF OpsOK, Removable
  <1> QED  BY <1>5, <1>6

\* A stretch of operations that are carried out leaves the orders of the operations and of the grid.
LEMMA SentBook ==
    ASSUME NEW ty, NEW pl, NEW lv \in Book, NEW ops, NEW n \in Nat, NEW m \in Nat, n <= m, m <= Len(ops),
           BookOK(ty, pl, lv, ops, n), Alive(lv, ops, n, m), NEW new \in Book, After(lv, ops, n, m, new)
    PROVE  BookOK(ty, pl, new, ops, m)
  <1>1. OpsOK(ty, pl, ops) /\ DOMAIN ops = 1 .. Len(ops) /\ Len(ops) \in Nat
    BY DEF BookOK, OpsOK
  <1>2. \A k \in 1 .. m : k \in DOMAIN ops /\ (k \in 1 .. n \/ k \in (n + 1) .. m)
    BY <1>1
  <1>3. /\ \A k \in 1 .. n : k \in 1 .. m /\ k \in DOMAIN ops
        /\ \A k \in (n + 1) .. m : k \in 1 .. m /\ k \in DOMAIN ops /\ n < k
    BY <1>1
  <1>4. \A k \in DOMAIN ops : ActionOK(ops[k]) /\ Removable(ty, pl, ops[k]) /\ Placeable(ty, pl, ops[k])
    BY <1>1 DEF OpsOK
  <1>5. ASSUME NEW s \in Sides, NEW i \in Levels, pl[i] # "no", ty[i] = s
        PROVE  ~Made(ops, m, s, i) /\ ~Sent(ops, n, m, s, i)
    BY <1>2, <1>3, <1>4, <1>5 DEF Made, Sent, Placeable
  <1>6. ASSUME NEW s \in Sides, NEW i \in Levels, new[s][i] = 1, ~Sent(ops, n, m, s, i)
        PROVE  lv[s][i] = 1 /\ ~Gave(ops, n, m, s, i)
    BY <1>6 DEF After
  <1>7. ASSUME NEW i, ty[i] \in Sides, ~Removed(ops, n, i), ~Gave(ops, n, m, ty[i], i)
        PROVE  ~Removed(ops, m, i)
    <2> SUFFICES ASSUME NEW k \in 1 .. m, Removes(ops[k]), ops[k].at = i PROVE FALSE
      BY DEF Removed
    <2>1. ops[k].side = ty[i]
      BY <1>2, <1>4 DEF Removable
    <2> QED  BY <1>2, <1>7, <2>1 DEF Removed, Gave
  <1>8. \A i : Removed(ops, n, i) => Removed(ops, m, i)
    BY <1>3 DEF Removed
  <1>9. LiveOK(ty, pl, new, ops, m)
    <2> SUFFICES ASSUME NEW s \in Sides, NEW i \in Levels, new[s][i] = 1, ~Made(ops, m, s, i)
                 PROVE  pl[i] # "no" /\ ty[i] = s /\ ~Removed(ops, m, i)
      BY DEF LiveOK
    <2>1. ~Sent(ops, n, m, s, i) /\ ~Made(ops, n, s, i)
      BY <1>3 DEF Made, Sent
    <2>2. lv[s][i] = 1 /\ ~Gave(ops, n, m, s, i)
      BY <1>6, <2>1
    <2>3. pl[i] # "no" /\ ty[i] = s /\ ~Removed(ops, n, i)
      BY <2>1, <2>2 DEF BookOK, LiveOK
    <2> QED  BY <1>7, <2>2, <2>3
  <1>10. NoCross(new)
    <2> SUFFICES ASSUME NEW i \in Levels, NEW j \in Levels, new["buy"][i] = 1, new["sell"][j] = 1
                 PROVE  i < j
      BY DEF NoCross
    <2>0. i \in Nat /\ j \in Nat /\ "buy" \in Sides /\ "sell" \in Sides
      BY Constants DEF Sides
    <2>1. CASE Made(ops, m, "buy", i) /\ Made(ops, m, "sell", j)
      BY <1>1, <1>2, <2>1 DEF OpsOK, Apart, Made
    <2>2. CASE Made(ops, m, "buy", i) /\ ~Made(ops, m, "sell", j)
      <3>1. PICK k \in 1 .. m : Places(ops[k]) /\ ops[k].side = "buy" /\ ops[k].to = i
        BY <2>2 DEF Made
      <3>2. pl[j] # "no" /\ ty[j] = "sell" /\ ~Removed(ops, m, j)
        BY <1>9, <2>0, <2>2 DEF LiveOK
      <3> SUFFICES ASSUME ~(i < j) PROVE FALSE
        OBVIOUS
      <3>3. Beyond("buy", i, j)
        BY <2>0 DEF Beyond
      <3>4. PICK l \in 1 .. (k - 1) : ops[l].kind = "cancel" /\ ops[l].at = j
        BY <1>1, <1>2, <3>1, <3>2, <3>3 DEF OpsOK, Uncrossed
      <3>5. l \in 1 .. m
        OBVIOUS
      <3> QED  BY <3>2, <3>4, <3>5 DEF Removed, Removes
    <2>3. CASE ~Made(ops, m, "buy", i) /\ Made(ops, m, "sell", j)
      <3>1. PICK k \in 1 .. m : Places(ops[k]) /\ ops[k].side = "sell" /\ ops[k].to = j
        BY <2>3 DEF Made
      <3>2. pl[i] # "no" /\ ty[i] = "buy" /\ ~Removed(ops, m, i)
        BY <1>9, <2>0, <2>3 DEF LiveOK
      <3> SUFFICES ASSUME ~(i < j) PROVE FALSE
        OBVIOUS
      <3>3. Beyond("sell", j, i)
        BY <2>0 DEF Beyond
      <3>4. PICK l \in 1 .. (k - 1) : ops[l].kind = "cancel" /\ ops[l].at = i
        BY <1>1, <1>2, <3>1, <3>2, <3>3 DEF OpsOK, Uncrossed
      <3>5. l \in 1 .. m
        OBVIOUS
      <3> QED  BY <3>2, <3>4, <3>5 DEF Removed, Removes
    <2>4. CASE ~Made(ops, m, "buy", i) /\ ~Made(ops, m, "sell", j)
      <3>1. ~Sent(ops, n, m, "buy", i) /\ ~Sent(ops, n, m, "sell", j)
        BY <1>3, <2>4 DEF Made, Sent
      <3>2. lv["buy"][i] = 1 /\ lv["sell"][j] = 1
        BY <1>6, <2>0, <3>1
      <3> QED  BY <3>2 DEF BookOK, NoCross
    <2> QED  BY <2>1, <2>2, <2>3, <2>4
  <1>11. ASSUME NEW s \in Sides, NEW i \in Levels, Home(ty, pl, new, ops, m, s, i)
         PROVE  Home(ty, pl, lv, ops, n, s, i)
    <2>1. pl[i] # "no" /\ ty[i] = s
      BY <1>11 DEF Home
    <2>2. CASE new[s][i] = 1 /\ ~Removed(ops, m, i)
      <3>1. lv[s][i] = 1 /\ ~Removed(ops, n, i)
        BY <1>5, <1>6, <1>8, <2>1, <2>2
      <3> QED  BY <2>1, <3>1 DEF Home
    <2>3. CASE MovedOff(ops, m, i)
      <3>1. PICK k \in 1 .. m : ops[k].kind = "move" /\ ops[k].at = i
        BY <2>3 DEF MovedOff
      <3>2. CASE k \in 1 .. n
        BY <2>1, <3>1, <3>2 DEF Home, MovedOff
      <3>3. CASE k \in (n + 1) .. m
        <4>1. Removes(ops[k]) /\ ops[k].side = s
          BY <1>2, <1>4, <2>1, <3>1 DEF Removes, Removable
        <4>2. lv[s][i] = 1
          BY <3>1, <3>3, <4>1 DEF Alive
        <4>3. ~Removed(ops, n, i)
          <5> SUFFICES ASSUME NEW l \in 1 .. n, Removes(ops[l]), ops[l].at = i PROVE FALSE
            BY DEF Removed
          <5>1. l \in DOMAIN ops /\ k \in DOMAIN ops /\ l # k
            BY <1>3, <3>3
          <5> QED  BY <1>1, <3>1, <4>1, <5>1 DEF OpsOK, Distinct
        <4> QED  BY <2>1, <4>2, <4>3 DEF Home
      <3> QED  BY <1>2, <3>2, <3>3
    <2> QED  BY <1>11, <2>2, <2>3 DEF Home
  <1>12. HomeOK(ty, pl, new, ops, m)
    BY <1>11 DEF BookOK, HomeOK, Sides
  <1> QED  BY <1>1, <1>9, <1>10, <1>12 DEF BookOK

-----------------------------------------------------------------------------
\* Broadcasts.

\* A chunk whose orders are all there is carried out as such a stretch.
LEMMA BroadcastBook ==
    ASSUME ShapeOK, Steady, MoreToSend, DeadOps = {}
    PROVE  LET ops == batch.ops
               n == batch.pos
               m == n + Len(NextOps)
           IN /\ Alive(live, ops, n, m) /\ After(live, ops, n, m, BookAfter(NextOps))
              /\ BookAfter(NextOps) \in Book
  <1> DEFINE ops == batch.ops
             n == batch.pos
             q == NextOps
             m == n + Len(q)
             new == BookAfter(q)
             put(s, i) == {k \in DOMAIN q : Places(q[k]) /\ q[k].side = s /\ q[k].to = i}
             took(s, i) == {k \in DOMAIN q : Removes(q[k]) /\ q[k].side = s /\ q[k].at = i}
  <1>0. \A i : Where(i) = i
    BY NotMoved DEF Steady, SentOK, MoreToSend
  <1>1. /\ n \in Nat /\ m \in Nat /\ Len(q) \in Nat /\ n <= m /\ m <= Len(ops) /\ Len(ops) \in Nat
        /\ DOMAIN ops = 1 .. Len(ops) /\ DOMAIN q = 1 .. Len(q)
        /\ \A k \in DOMAIN q : n + k \in (n + 1) .. m /\ n + k \in DOMAIN ops /\ q[k] = ops[n + k]
    BY NextOpsAre
  <1>2. BookOK(type, placed, live, ops, n) /\ live \in Book
    BY DEF MoreToSend, Steady, SentOK
  <1>3. \A k \in DOMAIN q : Removes(q[k]) => live[q[k].side][q[k].at] # 0
    BY <1>0 DEF DeadOps, Removes
  <1>4. \A s \in Sides, i \in Levels :
            new[s][i] = live[s][i] + Cardinality(put(s, i)) - Cardinality(took(s, i))
    BY <1>0 DEF BookAfter
  <1>5. new = [s \in Sides |-> [i \in Levels |-> new[s][i]]]
    BY DEF BookAfter
  <1> HIDE DEF new
  <1>6. \A k \in (n + 1) .. m : k - n \in DOMAIN q /\ q[k - n] = ops[k] /\ k \in DOMAIN ops /\ n < k
    <2> SUFFICES ASSUME NEW k \in (n + 1) .. m
                 PROVE  k - n \in DOMAIN q /\ q[k - n] = ops[k] /\ k \in DOMAIN ops /\ n < k
      OBVIOUS
    <2>1. k - n \in 1 .. Len(q) /\ n + (k - n) = k /\ n < k
      BY <1>1
    <2> QED  BY <1>1, <2>1
  <1> HIDE DEF ops, n, q, m
  <1>7. OpsOK(type, placed, ops) /\ Distinct(ops)
    BY <1>2 DEF BookOK, OpsOK
  <1>8. \A k \in DOMAIN ops : ops[k].side \in Sides /\ ops[k].at \in Levels /\ ops[k].to \in Levels
    BY <1>7 DEF OpsOK, ActionOK, Action
  <1>9. Alive(live, ops, n, m)
    <2> SUFFICES ASSUME NEW k \in (n + 1) .. m, Removes(ops[k]) PROVE live[ops[k].side][ops[k].at] = 1
      BY DEF Alive
    <2>1. live[ops[k].side][ops[k].at] # 0
      BY <1>3, <1>6
    <2>2. live[ops[k].side][ops[k].at] \in 0 .. 1
      BY <1>2, <1>6, <1>8 DEF Book
    <2> QED  BY <2>1, <2>2
  <1>10. ASSUME NEW s \in Sides, NEW i \in Levels
         PROVE  /\ Cardinality(put(s, i)) = IF Sent(ops, n, m, s, i) THEN 1 ELSE 0
                /\ Cardinality(took(s, i)) = IF Gave(ops, n, m, s, i) THEN 1 ELSE 0
    <2>1. IsFiniteSet(put(s, i)) /\ IsFiniteSet(took(s, i))
      <3>1. IsFiniteSet(DOMAIN q)
        BY <1>1, FS_Interval
      <3> QED  BY <3>1, FS_Subset
    <2>2. \A x, y \in DOMAIN q : n + x = n + y => x = y
      BY <1>1
    <2>3. \A x, y \in put(s, i) : x = y
      BY <1>1, <1>7, <2>2 DEF Distinct
    <2>4. \A x, y \in took(s, i) : x = y
      BY <1>1, <1>7, <2>2 DEF Distinct
    <2>5. (put(s, i) = {}) <=> ~Sent(ops, n, m, s, i)
      <3>1. ASSUME NEW k \in put(s, i) PROVE Sent(ops, n, m, s, i)
        BY <1>1, <3>1 DEF Sent
      <3>2. ASSUME NEW k \in (n + 1) .. m, Places(ops[k]), ops[k].side = s, ops[k].to = i
            PROVE  k - n \in put(s, i)
        BY <1>6, <3>2
      <3> QED  BY <3>1, <3>2 DEF Sent
    <2>6. (took(s, i) = {}) <=> ~Gave(ops, n, m, s, i)
      <3>1. ASSUME NEW k \in took(s, i) PROVE Gave(ops, n, m, s, i)
        BY <1>1, <3>1 DEF Gave
      <3>2. ASSUME NEW k \in (n + 1) .. m, Removes(ops[k]), ops[k].side = s, ops[k].at = i
            PROVE  k - n \in took(s, i)
        BY <1>6, <3>2
      <3> QED  BY <3>1, <3>2 DEF Gave
    <2> HIDE DEF put, took
    <2>7. /\ Cardinality(put(s, i)) = IF put(s, i) = {} THEN 0 ELSE 1
          /\ Cardinality(took(s, i)) = IF took(s, i) = {} THEN 0 ELSE 1
      BY <2>1, <2>3, <2>4, AtMostOne
    <2> QED  BY <2>5, <2>6, <2>7
  <1> HIDE DEF put, took
  <1>11. ASSUME NEW s \in Sides, NEW i \in Levels
         PROVE  /\ new[s][i] = IF Sent(ops, n, m, s, i) THEN 1 ELSE IF Gave(ops, n, m, s, i) THEN 0 ELSE live[s][i]
                /\ new[s][i] \in 0 .. 1
    <2>1. live[s][i] \in 0 .. 1
      BY <1>2 DEF Book
    <2>2. CASE Sent(ops, n, m, s, i)
      <3>1. PICK k \in (n + 1) .. m : Places(ops[k]) /\ ops[k].side = s /\ ops[k].to = i
        BY <2>2 DEF Sent
      <3>2. k \in DOMAIN ops /\ n < k
        BY <1>6
      <3>3. /\ live[s][i] # 1
            /\ \A l \in DOMAIN ops : ~(Removes(ops[l]) /\ ops[l].side = s /\ ops[l].at = i)
        BY <1>1, <1>2, <3>1, <3>2, FreeLevel
      <3>4. ~Gave(ops, n, m, s, i)
        BY <1>6, <3>3 DEF Gave
      <3>5. new[s][i] = live[s][i] + 1 - 0
        BY <1>4, <1>10, <2>2, <3>4
      <3> QED  BY <2>1, <2>2, <3>3, <3>5
    <2>3. CASE ~Sent(ops, n, m, s, i) /\ Gave(ops, n, m, s, i)
      <3>1. PICK k \in (n + 1) .. m : Removes(ops[k]) /\ ops[k].side = s /\ ops[k].at = i
        BY <2>3 DEF Gave
      <3>2. live[s][i] = 1
        BY <1>9, <3>1 DEF Alive
      <3>3. new[s][i] = live[s][i] + 0 - 1
        BY <1>4, <1>10, <2>3
      <3> QED  BY <2>3, <3>2, <3>3
    <2>4. CASE ~Sent(ops, n, m, s, i) /\ ~Gave(ops, n, m, s, i)
      <3>1. new[s][i] = live[s][i] + 0 - 0
        BY <1>4, <1>10, <2>4
      <3> QED  BY <2>1, <2>4, <3>1
    <2> QED  BY <2>2, <2>3, <2>4
  <1>12. After(live, ops, n, m, new)
    BY <1>11 DEF After
  <1>13. new \in Book
    BY <1>5, <1>11 DEF Book
  <1> QED  BY <1>9, <1>12, <1>13 DEF ops, n, m, q, new

\* The broadcast of a chunk keeps the invariant.

\* The broadcast of a chunk keeps the shape.
LEMMA BroadcastChunkShape == ASSUME ShapeOK, BroadcastChunk PROVE ShapeOK'
  <1>1. /\ MoreToSend /\ \E slots : unseen' = Unless(slots)
        /\ batch' = [batch EXCEPT !.pos = @ + Len(NextOps)]
        /\ UNCHANGED <<type, placed, boundaryIdx, fills, lastFilled, shiftBudget, burstStart, replans,
                       journal, adrift>>
    BY DEF BroadcastChunk, levelVars, burstVars, failureVars
  <1>2. /\ Busy /\ BatchRecord(batch) /\ GridOK(batch.type, batch.placed) /\ batch.ops # <<>>
        /\ OpsOK(type, placed, batch.ops)
    BY <1>1 DEF MoreToSend, ShapeOK, BatchOK, BurstOK
  <1>3. batch.pos + Len(NextOps) \in 0 .. Len(batch.ops)
    BY <1>1, NextOpsAre
  <1>4. /\ batch'.ops = batch.ops /\ batch'.pos = batch.pos + Len(NextOps) /\ batch'.type = batch.type
        /\ batch'.placed = batch.placed /\ batch'.target = batch.target /\ batch'.chunk = batch.chunk
        /\ BatchRecord(batch')
    BY <1>1, <1>2 DEF BatchRecord
  <1>5. batch' # NoBatch
    BY <1>2, <1>4, NoBatchRecord
  <1>6. BatchOK'
    BY <1>1, <1>2, <1>3, <1>4 DEF BatchOK
  <1>7. FillsOK'
    <2>1. unseen' \in Seq(Fill)
      BY <1>1, UnlessFills DEF ShapeOK, FillsOK
    <2> QED  BY <1>1, <1>4, <2>1 DEF ShapeOK, FillsOK
  <1>8. BurstOK'
    <2>1. batch'.chunk # <<>> => Spent(Gated(batch.target)) /\ batch'.target = batch.target
      BY <1>4 DEF ShapeOK, BurstOK
    <2>2. (batch.chunk # <<>> => Spent(Gated(batch.target)))'
      BY <1>1, <1>4, <2>1 DEF Spent, Gated
    <2>3. (batch.chunk # <<>> => Busy)'
      BY <1>5 DEF Busy
    <2> QED  BY <1>1, <1>4, <2>2, <2>3 DEF ShapeOK, BurstOK, Spent
  <1>9. GridOK(type', placed') /\ FailureOK'
    BY <1>1 DEF ShapeOK, FailureOK
  <1> QED  BY <1>6, <1>7, <1>8, <1>9 DEF ShapeOK

\* The broadcast of a chunk keeps the book.
LEMMA BroadcastChunkSteady == ASSUME ShapeOK, Steady, BroadcastChunk PROVE Steady'
  <1> DEFINE ops == batch.ops
             n == batch.pos
             m == n + Len(NextOps)
             slots == {NextOps[k].to : k \in {k \in DOMAIN NextOps : Places(NextOps[k])}}
  <1>1. /\ MoreToSend /\ DeadOps = {} /\ live' = BookAfter(NextOps) /\ unseen' = Unless(slots)
        /\ batch' = [batch EXCEPT !.pos = @ + Len(NextOps)] /\ UNCHANGED <<type, placed, landed>>
    BY DEF BroadcastChunk, levelVars, failureVars
  <1>2. /\ GridOK(type, placed) /\ live \in Book /\ landed = <<>> /\ BatchRecord(batch)
        /\ KeepOK(type, placed, live, batch) /\ ops # <<>> /\ BookOK(type, placed, live, ops, n)
    BY <1>1 DEF MoreToSend, ShapeOK, Steady, SentOK, BatchOK, BurstOK
  <1>3. /\ n \in Nat /\ m \in Nat /\ Len(NextOps) \in Nat /\ n <= m /\ m <= Len(ops) /\ Len(ops) \in Nat
        /\ DOMAIN ops = 1 .. Len(ops) /\ DOMAIN NextOps = 1 .. Len(NextOps)
        /\ \A k \in DOMAIN NextOps : n + k \in (n + 1) .. m /\ n + k \in DOMAIN ops /\ NextOps[k] = ops[n + k]
    BY <1>1, NextOpsAre
  <1>4. Alive(live, ops, n, m) /\ After(live, ops, n, m, live') /\ live' \in Book
    BY <1>1, BroadcastBook
  <1>5. BookOK(type, placed, live', ops, m)
    BY <1>2, <1>3, <1>4, SentBook
  <1>6. /\ batch'.ops = ops /\ batch'.pos = m /\ batch'.type = batch.type /\ batch'.placed = batch.placed
    BY <1>1, <1>2 DEF BatchRecord
  <1>7. ASSUME NEW s \in Sides, NEW i \in Levels, live'[s][i] = 1, ~Sent(ops, n, m, s, i)
        PROVE  live[s][i] = 1
    BY <1>4, <1>7 DEF After
  <1>8. KeepOK(type, placed, live', batch')
    <2> SUFFICES ASSUME NEW i \in Levels, placed[i] # "no", live'[type[i]][i] = 1, ~Removed(ops, Len(ops), i)
                 PROVE  batch.type[i] = type[i] /\ batch.placed[i] # "no"
      BY <1>6 DEF KeepOK
    <2>1. type[i] \in Sides
      BY <1>2 DEF GridOK
    <2>2. ~Sent(ops, n, m, type[i], i)
      <3> SUFFICES ASSUME NEW k \in (n + 1) .. m, Places(ops[k]), ops[k].side = type[i], ops[k].to = i
                   PROVE  FALSE
        BY DEF Sent
      <3>1. k \in DOMAIN ops
        BY <1>3
      <3> QED  BY <1>2, <3>1 DEF BookOK, OpsOK, Placeable
    <2>3. live[type[i]][i] = 1
      BY <1>7, <2>1, <2>2
    <2> QED  BY <1>2, <2>3 DEF KeepOK
  <1>9. unseen \in Seq(Fill) /\ \A l \in DOMAIN unseen : live[unseen[l].side][unseen[l].at] = 0
    BY DEF ShapeOK, FillsOK, Steady, FillsGone
  <1>10. \A s, i : Sent(ops, n, m, s, i) => i \in slots
    <2> SUFFICES ASSUME NEW k \in (n + 1) .. m, Places(ops[k]) PROVE ops[k].to \in slots
      BY DEF Sent
    <2>1. k - n \in 1 .. Len(NextOps) /\ n + (k - n) = k
      BY <1>3
    <2>2. NextOps[k - n] = ops[k] /\ k - n \in DOMAIN NextOps
      BY <1>3, <2>1
    <2> QED  BY <2>2
  <1> HIDE DEF slots, ops, n, m
  <1>11. \A k \in DOMAIN unseen' : \E l \in DOMAIN unseen : unseen'[k] = unseen[l] /\ unseen[l].at \notin slots
    BY <1>1, <1>9, UnlessFills
  <1>12. ASSUME NEW k \in DOMAIN unseen' PROVE live'[unseen'[k].side][unseen'[k].at] = 0
    <2>1. PICK l \in DOMAIN unseen : unseen'[k] = unseen[l] /\ unseen[l].at \notin slots
      BY <1>11
    <2>2. unseen[l] \in Fill
      BY <1>9
    <2>3. unseen[l].side \in Sides /\ unseen[l].at \in Levels
      BY <2>2 DEF Fill
    <2>4. live'[unseen[l].side][unseen[l].at] # 1
      BY <1>7, <1>9, <1>10, <2>1, <2>3
    <2>5. live'[unseen[l].side][unseen[l].at] \in 0 .. 1
      BY <1>4, <2>3 DEF Book
    <2> QED  BY <2>1, <2>4, <2>5
  <1>13. FillsGone' /\ batch' # NoBatch
    BY <1>2, <1>6, <1>12, NoBatchRecord DEF FillsGone
  <1> QED  BY <1>1, <1>2, <1>4, <1>5, <1>6, <1>8, <1>13, BusyEnd DEF ops

-----------------------------------------------------------------------------
\* What a sync takes back and corrects.

\* The orders a move gave back, and the levels they were at.
CameFrom(s, i) == \E m \in Back : m.side = s /\ m.at = i
WentTo(s, i) == \E m \in Back : m.side = s /\ m.to = i

\* An order that the grid holds and that is on chain, where it is or where it was moved to, has
\* its slot.
LEMMA HeldHome ==
    ASSUME ShapeOK, Steady, ~Busy, NEW i \in Levels, placed[i] # "no", ~Gone(i)
    PROVE  Home(type, placed, live, landed, Len(landed), type[i], i)
  <1> DEFINE N == Len(landed)
  <1>1. BookOK(type, placed, live, landed, N) /\ live \in Book /\ type[i] \in Sides
    BY DEF Steady, LandedOK, ShapeOK, GridOK
  <1>2. OpsOK(type, placed, landed) /\ DOMAIN landed = 1 .. N
    BY <1>1 DEF BookOK, OpsOK
  <1> SUFFICES ASSUME ~MovedOff(landed, N, i) PROVE live[type[i]][i] = 1 /\ ~Removed(landed, N, i)
    BY DEF Home
  <1>3. Where(i) = i
    BY <1>2, NotMovedOff
  <1>4. live[type[i]][i] \in 0 .. 1 /\ live[type[i]][i] # 0
    BY <1>1, <1>3 DEF Book, Gone
  <1>5. live[type[i]][i] = 1
    BY <1>4
  <1>6. ~Made(landed, N, type[i], i)
    BY <1>2 DEF Made, OpsOK, Placeable
  <1> QED  BY <1>1, <1>5, <1>6 DEF BookOK, LiveOK

\* Every moved order can go back to its slot.
LEMMA BackAll == ASSUME ShapeOK, Steady, ~Busy PROVE Back = MovedAway
  <1> DEFINE N == Len(landed)
  <1>1. BookOK(type, placed, live, landed, N)
    BY DEF Steady, LandedOK
  <1>2. OpsOK(type, placed, landed) /\ DOMAIN landed = 1 .. N
    BY <1>1 DEF BookOK, OpsOK
  <1>3. ASSUME NEW m \in MovedAway PROVE ~InTheWay(m)
    <2> SUFFICES ASSUME NEW i \in Levels, placed[i] # "no", ~Gone(i), type[i] # m.side, Beyond(m.side, m.at, i)
                 PROVE  FALSE
      BY DEF InTheWay
    <2>1. PICK k \in DOMAIN landed : m = landed[k] /\ landed[k].kind = "move"
      BY DEF MovedAway
    <2>2. m \in Action /\ Removable(type, placed, m) /\ Removes(m)
      BY <1>2, <2>1 DEF OpsOK, ActionOK, Removes
    <2>3. m.at \in Levels /\ m.side \in Sides /\ placed[m.at] # "no" /\ type[m.at] = m.side
      BY <2>2 DEF Action, Removable
    <2>4. Home(type, placed, live, landed, N, m.side, m.at)
      BY <1>2, <2>1, <2>3 DEF Home, MovedOff
    <2>5. Home(type, placed, live, landed, N, type[i], i) /\ type[i] \in Sides
      BY HeldHome DEF ShapeOK, GridOK
    <2>6. i \in Nat /\ m.at \in Nat
      BY <2>3, Constants
    <2>7. CASE m.side = "buy"
      <3>1. type[i] = "sell"
        BY <2>5, <2>7 DEF Sides
      <3>2. m.at < i
        BY <1>1, <2>3, <2>4, <2>5, <2>7, <3>1 DEF BookOK, HomeOK
      <3> QED  BY <2>6, <2>7, <3>2 DEF Beyond
    <2>8. CASE m.side = "sell"
      <3>1. type[i] = "buy"
        BY <2>5, <2>8 DEF Sides
      <3>2. i < m.at
        BY <1>1, <2>3, <2>4, <2>5, <2>8, <3>1 DEF BookOK, HomeOK
      <3> QED  BY <2>6, <2>8, <3>2 DEF Beyond
    <2> QED  BY <2>3, <2>7, <2>8 DEF Sides
  <1> QED  BY <1>3 DEF Back

\* The moves a sync takes back are those that landed, one for a slot.
LEMMA BackMoves ==
    ASSUME ShapeOK, Steady, ~Busy
    PROVE  /\ IsFiniteSet(Back)
           /\ \A m \in Back : \E k \in DOMAIN landed : m = landed[k] /\ landed[k].kind = "move"
                                                       /\ live[m.side][m.to] > 0
           /\ \A x, y \in Back : x.at = y.at \/ x.to = y.to => x = y
  <1>1. OpsOK(type, placed, landed)
    BY DEF Steady, LandedOK, BookOK
  <1>2. landed \in Seq(Action) /\ DOMAIN landed = 1 .. Len(landed) /\ Len(landed) \in Nat /\ Distinct(landed)
    BY <1>1 DEF OpsOK
  <1>3. \A m \in Back : \E k \in DOMAIN landed : m = landed[k] /\ landed[k].kind = "move"
                                                 /\ live[m.side][m.to] > 0
    BY DEF Back, MovedAway
  <1>4. ASSUME NEW x \in Back, NEW y \in Back, x.at = y.at \/ x.to = y.to PROVE x = y
    <2>1. PICK k \in DOMAIN landed : x = landed[k] /\ landed[k].kind = "move"
      BY <1>3
    <2>2. PICK l \in DOMAIN landed : y = landed[l] /\ landed[l].kind = "move"
      BY <1>3
    <2>3. Places(x) /\ Places(y) /\ Removes(x) /\ Removes(y)
      BY <2>1, <2>2 DEF Places, Removes
    <2>4. k = l
      BY <1>2, <1>4, <2>1, <2>2, <2>3 DEF Distinct
    <2> QED  BY <2>1, <2>2, <2>4
  <1>5. IsFiniteSet(Back)
    <2> DEFINE L == {landed[k] : k \in 1 .. Len(landed)}
    <2>1. IsFiniteSet(L)
      <3>1. IsFiniteSet(1 .. Len(landed))
        BY <1>2, FS_Interval
      <3> DEFINE f == [k \in 1 .. Len(landed) |-> landed[k]]
      <3>2. f \in Surjection(1 .. Len(landed), L)
        BY DEF Surjection
      <3> QED  BY <3>1, <3>2, FS_Surjection
    <2>2. Back \in SUBSET L
      BY <1>2 DEF Back, MovedAway
    <2> QED  BY <2>1, <2>2, FS_Subset
  <1> QED  BY <1>3, <1>4, <1>5

\* The book a price correction leaves.
LEMMA CorrectedBook ==
    ASSUME ShapeOK, Steady, ~Busy
    PROVE  /\ \A s \in Sides, i \in Levels :
                 Corrected[s][i] = IF CameFrom(s, i) THEN 1 ELSE IF WentTo(s, i) THEN 0 ELSE live[s][i]
           /\ Corrected \in Book
           /\ \A s \in Sides, i \in Levels :
                 CameFrom(s, i) => placed[i] # "no" /\ type[i] = s /\ MovedOff(landed, Len(landed), i)
  <1> DEFINE N == Len(landed)
  <1>1. BookOK(type, placed, live, landed, N) /\ live \in Book
    BY DEF Steady, LandedOK
  <1>2. OpsOK(type, placed, landed) /\ landed \in Seq(Action) /\ DOMAIN landed = 1 .. N /\ N \in Nat
    BY <1>1 DEF BookOK, OpsOK
  <1>3. /\ IsFiniteSet(Back)
        /\ \A m \in Back : \E k \in DOMAIN landed : m = landed[k] /\ landed[k].kind = "move"
                                                    /\ live[m.side][m.to] > 0
        /\ \A x, y \in Back : x.at = y.at \/ x.to = y.to => x = y
    BY BackMoves
  <1>4. ASSUME NEW m \in Back
        PROVE  /\ m.side \in Sides /\ m.at \in Levels /\ m.to \in Levels
               /\ placed[m.at] # "no" /\ type[m.at] = m.side /\ MovedOff(landed, N, m.at)
               /\ placed[m.to] = "no" \/ type[m.to] # m.side
               /\ live[m.side][m.to] = 1 /\ live[m.side][m.at] = 0
    <2>1. PICK k \in DOMAIN landed : m = landed[k] /\ landed[k].kind = "move" /\ live[m.side][m.to] > 0
      BY <1>3
    <2>2. m \in Action /\ Removable(type, placed, m) /\ Placeable(type, placed, m) /\ Removes(m) /\ Places(m)
      BY <1>2, <2>1 DEF OpsOK, ActionOK, Removes, Places
    <2>3. m.side \in Sides /\ m.at \in Levels /\ m.to \in Levels
      BY <2>2 DEF Action
    <2>4. live[m.side][m.to] \in 0 .. 1 /\ live[m.side][m.at] \in 0 .. 1
      BY <1>1, <2>3 DEF Book
    <2>5. live[m.side][m.to] = 1
      BY <2>1, <2>4
    <2>6. ~Made(landed, N, m.side, m.at)
      <3> SUFFICES ASSUME NEW l \in 1 .. N, Places(landed[l]), landed[l].side = m.side, landed[l].to = m.at
                   PROVE  FALSE
        BY DEF Made
      <3> QED  BY <1>2, <2>2 DEF OpsOK, Placeable, Removable
    <2>7. Removed(landed, N, m.at)
      BY <1>2, <2>1, <2>2 DEF Removed
    <2>8. live[m.side][m.at] # 1
      BY <1>1, <2>3, <2>6, <2>7 DEF BookOK, LiveOK
    <2>9. MovedOff(landed, N, m.at)
      BY <1>2, <2>1 DEF MovedOff
    <2> QED  BY <2>2, <2>3, <2>4, <2>5, <2>8, <2>9 DEF Removable, Placeable
  <1>5. \A s, i : ~(CameFrom(s, i) /\ WentTo(s, i))
    BY <1>4 DEF CameFrom, WentTo
  <1> DEFINE from(s, i) == {m \in Back : m.side = s /\ m.at = i}
             to(s, i) == {m \in Back : m.side = s /\ m.to = i}
  <1>6. \A s \in Sides, i \in Levels :
            Corrected[s][i] = live[s][i] + Cardinality(from(s, i)) - Cardinality(to(s, i))
    BY DEF Corrected
  <1>7. ASSUME NEW s \in Sides, NEW i \in Levels
        PROVE  /\ Cardinality(from(s, i)) = IF CameFrom(s, i) THEN 1 ELSE 0
               /\ Cardinality(to(s, i)) = IF WentTo(s, i) THEN 1 ELSE 0
    <2>1. IsFiniteSet(from(s, i)) /\ IsFiniteSet(to(s, i))
      BY <1>3, FS_Subset
    <2>2. (\A x, y \in from(s, i) : x = y) /\ \A x, y \in to(s, i) : x = y
      BY <1>3
    <2>3. ((from(s, i) = {}) <=> ~CameFrom(s, i)) /\ ((to(s, i) = {}) <=> ~WentTo(s, i))
      BY DEF CameFrom, WentTo
    <2> HIDE DEF from, to
    <2>4. /\ Cardinality(from(s, i)) = IF from(s, i) = {} THEN 0 ELSE 1
          /\ Cardinality(to(s, i)) = IF to(s, i) = {} THEN 0 ELSE 1
      BY <2>1, <2>2, AtMostOne
    <2> QED  BY <2>3, <2>4
  <1> HIDE DEF from, to
  <1>8. ASSUME NEW s \in Sides, NEW i \in Levels
        PROVE  /\ Corrected[s][i] = IF CameFrom(s, i) THEN 1 ELSE IF WentTo(s, i) THEN 0 ELSE live[s][i]
               /\ Corrected[s][i] \in 0 .. 1
    <2>1. live[s][i] \in 0 .. 1
      BY <1>1 DEF Book
    <2>2. CASE CameFrom(s, i)
      <3>1. live[s][i] = 0 /\ ~WentTo(s, i)
        BY <1>4, <1>5, <2>2 DEF CameFrom
      <3>2. Corrected[s][i] = 0 + 1 - 0
        BY <1>6, <1>7, <2>2, <3>1
      <3> QED  BY <2>2, <3>2
    <2>3. CASE ~CameFrom(s, i) /\ WentTo(s, i)
      <3>1. live[s][i] = 1
        BY <1>4, <2>3 DEF WentTo
      <3>2. Corrected[s][i] = 1 + 0 - 1
        BY <1>6, <1>7, <2>3, <3>1
      <3> QED  BY <2>3, <3>2
    <2>4. CASE ~CameFrom(s, i) /\ ~WentTo(s, i)
      <3>1. Corrected[s][i] = live[s][i] + 0 - 0
        BY <1>6, <1>7, <2>4
      <3> QED  BY <2>1, <2>4, <3>1
    <2> QED  BY <2>2, <2>3, <2>4
  <1>9. Corrected \in Book
    <2>1. Corrected = [s \in Sides |-> [i \in Levels |-> Corrected[s][i]]]
      BY DEF Corrected
    <2> QED  BY <1>8, <2>1 DEF Book
  <1>10. \A s \in Sides, i \in Levels :
            CameFrom(s, i) => placed[i] # "no" /\ type[i] = s /\ MovedOff(landed, N, i)
    BY <1>4 DEF CameFrom
  <1> QED  BY <1>8, <1>9, <1>10

\* After a read of the open orders the two sides do not meet.
LEMMA CorrectedApart ==
    ASSUME ShapeOK, Steady, ~Busy
    PROVE  NoCross(Corrected)
  <1> DEFINE N == Len(landed)
             home(s, i) == Home(type, placed, live, landed, N, s, i)
             born(s, i) == \E k \in 1 .. N : landed[k].kind = "create" /\ landed[k].side = s /\ landed[k].to = i
  <1>1. BookOK(type, placed, live, landed, N) /\ live \in Book
    BY DEF Steady, LandedOK
  <1>2. OpsOK(type, placed, landed) /\ DOMAIN landed = 1 .. N /\ N \in Nat
    BY <1>1 DEF BookOK, OpsOK
  <1>3. ASSUME NEW s \in Sides, NEW i \in Levels, Corrected[s][i] = 1
        PROVE  home(s, i) \/ born(s, i)
    <2>1. CASE CameFrom(s, i)
      BY <2>1, CorrectedBook DEF Home
    <2>2. CASE ~CameFrom(s, i)
      <3>1. live[s][i] = 1 /\ ~WentTo(s, i)
        BY <1>3, <2>2, CorrectedBook
      <3>2. CASE Made(landed, N, s, i)
        <4>1. PICK k \in 1 .. N : Places(landed[k]) /\ landed[k].side = s /\ landed[k].to = i
          BY <3>2 DEF Made
        <4>2. landed[k].kind \in Kinds
          BY <1>2 DEF OpsOK, ActionOK, Action
        <4>3. landed[k].kind # "move"
          <5> SUFFICES ASSUME landed[k].kind = "move" PROVE FALSE
            OBVIOUS
          <5>1. landed[k] \in Back
            BY <1>2, <3>1, <4>1, BackAll DEF MovedAway
          <5> QED  BY <3>1, <4>1, <5>1 DEF WentTo
        <4>4. landed[k].kind = "create"
          BY <4>1, <4>2, <4>3 DEF Places, Kinds
        <4> QED  BY <4>1, <4>4
      <3>3. CASE placed[i] # "no" /\ type[i] = s /\ ~Removed(landed, N, i)
        BY <3>1, <3>3 DEF Home
      <3> QED  BY <1>1, <3>1, <3>2, <3>3 DEF BookOK, LiveOK
    <2> QED  BY <2>1, <2>2
  <1>4. ASSUME NEW s \in Sides, NEW i \in Levels, home(s, i), NEW k \in 1 .. N, Places(landed[k]),
               landed[k].side # s, landed[k].to \in Levels
        PROVE  ~Beyond(landed[k].side, landed[k].to, i)
    <2> SUFFICES ASSUME Beyond(landed[k].side, landed[k].to, i) PROVE FALSE
      OBVIOUS
    <2>1. placed[i] # "no" /\ type[i] = s
      BY <1>4 DEF Home
    <2>2. PICK l \in 1 .. (k - 1) : landed[l].kind = "cancel" /\ landed[l].at = i
      BY <1>2, <1>4, <2>1 DEF OpsOK, Uncrossed
    <2>3. l \in 1 .. N /\ Removes(landed[l])
      BY <1>2, <2>2 DEF Removes
    <2>4. Removed(landed, N, i)
      BY <2>2, <2>3 DEF Removed
    <2>5. PICK m \in 1 .. N : landed[m].kind = "move" /\ landed[m].at = i
      BY <1>4, <2>4 DEF Home, MovedOff
    <2>6. Removes(landed[m])
      BY <2>5 DEF Removes
    <2>7. l = m
      BY <1>2, <2>2, <2>3, <2>5, <2>6 DEF OpsOK, Distinct
    <2> QED  BY <2>2, <2>5, <2>7
  <1> SUFFICES ASSUME NEW i \in Levels, NEW j \in Levels, Corrected["buy"][i] = 1, Corrected["sell"][j] = 1
               PROVE  i < j
    BY DEF NoCross
  <1>5. i \in Nat /\ j \in Nat /\ "buy" \in Sides /\ "sell" \in Sides
    BY Constants DEF Sides
  <1>6. (home("buy", i) \/ born("buy", i)) /\ (home("sell", j) \/ born("sell", j))
    BY <1>3, <1>5
  <1>7. CASE home("buy", i) /\ home("sell", j)
    BY <1>1, <1>7 DEF BookOK, HomeOK
  <1>8. CASE born("buy", i) /\ born("sell", j)
    <2>1. PICK k \in 1 .. N : landed[k].kind = "create" /\ landed[k].side = "buy" /\ landed[k].to = i
      BY <1>8
    <2>2. PICK l \in 1 .. N : landed[l].kind = "create" /\ landed[l].side = "sell" /\ landed[l].to = j
      BY <1>8
    <2>3. Places(landed[k]) /\ Places(landed[l])
      BY <2>1, <2>2 DEF Places
    <2> QED  BY <1>2, <2>1, <2>2, <2>3 DEF OpsOK, Apart
  <1>9. CASE born("buy", i) /\ home("sell", j)
    <2>1. PICK k \in 1 .. N : landed[k].kind = "create" /\ landed[k].side = "buy" /\ landed[k].to = i
      BY <1>9
    <2>2. Places(landed[k])
      BY <2>1 DEF Places
    <2>3. ~Beyond("buy", i, j)
      BY <1>4, <1>5, <1>9, <2>1, <2>2
    <2> QED  BY <1>5, <2>3 DEF Beyond
  <1>10. CASE home("buy", i) /\ born("sell", j)
    <2>1. PICK k \in 1 .. N : landed[k].kind = "create" /\ landed[k].side = "sell" /\ landed[k].to = j
      BY <1>10
    <2>2. Places(landed[k])
      BY <2>1 DEF Places
    <2>3. ~Beyond("sell", j, i)
      BY <1>4, <1>5, <1>10, <2>1, <2>2
    <2> QED  BY <1>5, <2>3 DEF Beyond
  <1> QED  BY <1>6, <1>7, <1>8, <1>9, <1>10

\* An order that the sync finds gone is one that is not in the corrected book.
LEMMA MissingIs ==
    ASSUME ShapeOK, Steady, ~Busy, NEW i \in Levels, placed[i] # "no"
    PROVE  Gone(i) <=> Corrected[type[i]][i] = 0
  <1> DEFINE N == Len(landed)
             s == type[i]
  <1>1. BookOK(type, placed, live, landed, N) /\ live \in Book /\ s \in Sides
    BY DEF Steady, LandedOK, ShapeOK, GridOK
  <1>2. OpsOK(type, placed, landed) /\ DOMAIN landed = 1 .. N /\ Distinct(landed)
    BY <1>1 DEF BookOK, OpsOK
  <1>3. Corrected[s][i] = IF CameFrom(s, i) THEN 1 ELSE IF WentTo(s, i) THEN 0 ELSE live[s][i]
    BY <1>1, CorrectedBook
  <1>4. ~Made(landed, N, s, i)
    BY <1>2 DEF Made, OpsOK, Placeable
  <1>5. live[s][i] \in 0 .. 1
    BY <1>1 DEF Book
  <1>6. \A m \in Back : \E k \in DOMAIN landed : m = landed[k] /\ landed[k].kind = "move" /\ live[m.side][m.to] > 0
    BY BackMoves
  <1>7. ~WentTo(s, i)
    <2> SUFFICES ASSUME NEW m \in Back, m.side = s, m.to = i PROVE FALSE
      BY DEF WentTo
    <2>1. PICK k \in 1 .. N : m = landed[k] /\ landed[k].kind = "move"
      BY <1>2, <1>6
    <2> QED  BY <1>4, <2>1 DEF Made, Places
  <1>8. CASE MovedOff(landed, N, i)
    <2>1. PICK k \in DOMAIN landed : landed[k].kind = "move" /\ landed[k].at = i
      BY <1>2, <1>8 DEF MovedOff
    <2>2. landed[k].side = s /\ landed[k] \in Action
      BY <1>2, <2>1 DEF OpsOK, ActionOK, Removable, Removes
    <2>3. Where(i) = landed[k].to
      BY <1>2, <2>1, MovedTo
    <2>4. live[s][landed[k].to] \in 0 .. 1
      BY <1>1, <2>2 DEF Book, Action
    <2>5. CASE Gone(i)
      <3>1. ~CameFrom(s, i)
        <4> SUFFICES ASSUME NEW m \in Back, m.at = i PROVE FALSE
          BY DEF CameFrom
        <4>1. PICK l \in DOMAIN landed : m = landed[l] /\ landed[l].kind = "move" /\ live[m.side][m.to] > 0
          BY <1>6
        <4>2. l = k
          BY <1>2, <2>1, <4>1 DEF Distinct, Removes
        <4> QED  BY <2>2, <2>3, <2>5, <4>1, <4>2 DEF Gone
      <3>2. Removed(landed, N, i)
        BY <1>2, <2>1 DEF Removed, Removes
      <3>3. live[s][i] # 1
        BY <1>1, <1>4, <3>2 DEF BookOK, LiveOK
      <3> QED  BY <1>3, <1>5, <1>7, <2>5, <3>1, <3>3
    <2>6. CASE ~Gone(i)
      <3>1. live[s][landed[k].to] > 0
        BY <2>3, <2>4, <2>6 DEF Gone
      <3>2. landed[k] \in Back
        BY <2>1, <2>2, <3>1, BackAll DEF MovedAway
      <3>3. CameFrom(s, i)
        BY <2>1, <2>2, <3>2 DEF CameFrom
      <3> QED  BY <1>3, <2>6, <3>3
    <2> QED  BY <2>5, <2>6
  <1>9. CASE ~MovedOff(landed, N, i)
    <2>1. Where(i) = i
      BY <1>2, <1>9, NotMovedOff
    <2>2. ~CameFrom(s, i)
      BY <1>1, <1>9, CorrectedBook
    <2> QED  BY <1>3, <1>7, <2>1, <2>2 DEF Gone
  <1> QED  BY <1>8, <1>9

\* What the sync adopts is what its corrected book has at the free slots.
LEMMA AdoptableIs ==
    ASSUME ShapeOK, Steady, ~Busy, NEW s \in Sides, NEW i \in Levels
    PROVE  Adoptable(s, i) <=> Corrected[s][i] = 1 /\ (placed[i] = "no" \/ i \in Missing)
  <1>1. Corrected[s][i] \in 0 .. 1
    BY CorrectedBook DEF Book
  <1>2. MovedAway \ Back = {}
    BY BackAll
  <1> QED  BY <1>1, <1>2 DEF Adoptable

\* After the sync no operation of a failed batch is unknown to the grid.
LEMMA NothingRemains ==
    ASSUME ShapeOK, Steady, ~Busy PROVE Picked(landed, {k \in DOMAIN landed : Remains(landed[k])}) = <<>>
  <1> DEFINE N == Len(landed)
             K == {k \in DOMAIN landed : Remains(landed[k])}
  <1>1. BookOK(type, placed, live, landed, N) /\ live \in Book
    BY DEF Steady, LandedOK
  <1>2. OpsOK(type, placed, landed) /\ DOMAIN landed = 1 .. N /\ Distinct(landed) /\ landed \in Seq(Action)
    BY <1>1 DEF BookOK, OpsOK
  <1>3. ASSUME NEW k \in DOMAIN landed, Remains(landed[k]) PROVE FALSE
    <2> DEFINE s == landed[k].side
               i == landed[k].to
    <2>1. landed[k].kind = "create" /\ live[s][i] > 0 /\ ~Adoptable(s, i)
      BY <1>3, BackAll DEF Remains
    <2>2. s \in Sides /\ i \in Levels /\ Placeable(type, placed, landed[k]) /\ Places(landed[k])
      BY <1>2, <2>1 DEF OpsOK, ActionOK, Action, Places
    <2>3. live[s][i] \in 0 .. 1
      BY <1>1, <2>2 DEF Book
    <2>4. ~WentTo(s, i)
      <3> SUFFICES ASSUME NEW m \in Back, m.to = i PROVE FALSE
        BY DEF WentTo
      <3>1. PICK l \in DOMAIN landed : m = landed[l] /\ landed[l].kind = "move"
        BY BackMoves
      <3>2. l = k
        BY <1>2, <2>2, <3>1 DEF Distinct, Places
      <3> QED  BY <2>1, <3>1, <3>2
    <2>5. Corrected[s][i] = 1
      BY <2>1, <2>2, <2>3, <2>4, CorrectedBook
    <2>6. placed[i] = "no" \/ i \in Missing
      <3> SUFFICES ASSUME placed[i] # "no" PROVE i \in Missing
        OBVIOUS
      <3>1. type[i] # s /\ type[i] \in Sides
        BY <2>2 DEF Placeable, ShapeOK, GridOK
      <3>2. Corrected[type[i]][i] \in 0 .. 1
        BY <2>2, <3>1, CorrectedBook DEF Book
      <3>3. Corrected[type[i]][i] # 1
        <4>1. NoCross(Corrected) /\ ~(i < i)
          BY <2>2, CorrectedApart, Constants
        <4> QED  BY <2>2, <2>5, <3>1, <4>1 DEF NoCross, Sides
      <3>4. Gone(i)
        BY <2>2, <3>2, <3>3, MissingIs
      <3> QED  BY <2>2, <3>4 DEF Missing
    <2> QED  BY <2>1, <2>2, <2>5, <2>6, AdoptableIs
  <1>4. K = {}
    BY <1>3
  <1> HIDE DEF K
  <1> QED  BY <1>2, <1>4, PickedOrder DEF K

-----------------------------------------------------------------------------
\* The sync, the initial state, and the theorems.

\* The fills a sync finds are those of missing orders of the grid.
MissingFills == [k \in 1 .. Cardinality(Missing) |-> FillOf(type[Rising(Missing)[k]], Rising(Missing)[k])]

\* They are fills.
LEMMA MissingFillsSeq == ASSUME GridOK(type, placed) PROVE MissingFills \in Seq(Fill)
  <1> DEFINE r == Rising(Missing)
             n == Cardinality(Missing)
  <1>1. Missing \in SUBSET Levels /\ \A i \in Missing : type[i] \in Sides
    BY DEF Missing, GridOK
  <1>2. Missing \in SUBSET Nat /\ IsFiniteSet(Missing)
    BY <1>1, Constants, FS_Subset
  <1>3. Lists(r, Missing) /\ DOMAIN r = 1 .. n /\ n \in Nat
    BY <1>2, RisingLists, FS_CardinalityType DEF Rising
  <1>4. \A k \in 1 .. n : r[k] \in Missing
    BY <1>3 DEF Lists
  <1> HIDE DEF r, n
  <1>5. \A k \in 1 .. n : FillOf(type[r[k]], r[k]) \in Fill
    BY <1>1, <1>4 DEF FillOf, Fill
  <1>6. [k \in 1 .. n |-> FillOf(type[r[k]], r[k])] \in [1 .. n -> Fill]
    BY <1>5
  <1> QED  BY <1>3, <1>6 DEF MissingFills, r, n

\* The open-orders sync, with its corrections, adoptions and missing orders, keeps the shape.
LEMMA OpenOrdersSyncShape == ASSUME ShapeOK, OpenOrdersSync PROVE ShapeOK'
  <1>1. /\ ~Busy
        /\ type' = [i \in Levels |->
               IF Adoptable("buy", i) THEN "buy" ELSE IF Adoptable("sell", i) THEN "sell"
               ELSE IF i \in Missing THEN "spread" ELSE type[i]]
        /\ placed' = [i \in Levels |->
               IF \E s \in Sides : Adoptable(s, i) THEN "whole"
               ELSE IF i \in Missing THEN "no" ELSE placed[i]]
        /\ StartBurst(MissingFills) /\ unseen' = <<>>
        /\ UNCHANGED <<boundaryIdx, batch, journal, adrift>>
    BY DEF OpenOrdersSync, MissingFills
  <1>2. GridOK(type, placed) /\ FillsOK /\ BurstOK /\ FailureOK
    BY DEF ShapeOK
  <1>3. batch = NoBatch /\ batch' = NoBatch
    BY <1>1 DEF Busy
  <1>4. BurstOK'
    BY <1>1, <1>2, <1>3, StartsBurst
  <1>5. FillsOK'
    <2>1. <<>> \in Seq(Fill)
      OBVIOUS
    <2>2. fills' \in Seq(Fill)
      BY <1>1, <1>2, MissingFillsSeq DEF StartBurst, FillsOK, burstVars
    <2> QED  BY <1>1, <1>3, <2>1, <2>2, NoBatchRecord DEF FillsOK
  <1>6. GridOK(type', placed')
    <2>1. type' \in [Levels -> SlotTypes]
      <3>1. \A i \in Levels : type'[i] \in SlotTypes
        BY <1>1, <1>2 DEF GridOK, SlotTypes
      <3> QED  BY <1>1, <3>1
    <2>2. placed' \in [Levels -> Holdings]
      <3>1. \A i \in Levels : placed'[i] \in Holdings
        BY <1>1, <1>2 DEF GridOK, Holdings
      <3> QED  BY <1>1, <3>1
    <2>3. ASSUME NEW i \in Levels, placed'[i] # "no" PROVE type'[i] \in Sides
      <3>1. CASE \E s \in Sides : Adoptable(s, i)
        BY <1>1, <3>1 DEF Sides
      <3>2. CASE ~(\E s \in Sides : Adoptable(s, i))
        <4>1. i \notin Missing /\ placed[i] # "no"
          BY <1>1, <2>3, <3>2
        <4>2. type'[i] = type[i]
          BY <1>1, <3>2, <4>1 DEF Sides
        <4> QED  BY <1>2, <4>1, <4>2 DEF GridOK
      <3> QED  BY <3>1, <3>2
    <2> QED  BY <2>1, <2>2, <2>3 DEF GridOK
  <1>7. FailureOK'
    BY <1>1, <1>2 DEF FailureOK
  <1> QED  BY <1>3, <1>4, <1>5, <1>6, <1>7, ShapeEnd

\* The open-orders sync, with its corrections, adoptions and missing orders, keeps the book and
\* leaves nothing of failed batches.
LEMMA OpenOrdersSyncSteady == ASSUME ShapeOK, Steady, OpenOrdersSync PROVE Steady'
  <1>1. /\ ~Busy /\ live' = Corrected /\ unseen' = <<>> /\ UNCHANGED batch
        /\ type' = [i \in Levels |->
               IF Adoptable("buy", i) THEN "buy" ELSE IF Adoptable("sell", i) THEN "sell"
               ELSE IF i \in Missing THEN "spread" ELSE type[i]]
        /\ placed' = [i \in Levels |->
               IF \E s \in Sides : Adoptable(s, i) THEN "whole"
               ELSE IF i \in Missing THEN "no" ELSE placed[i]]
        /\ landed' = Picked(landed, {k \in DOMAIN landed : Remains(landed[k])})
    BY DEF OpenOrdersSync
  <1>2. batch' = NoBatch /\ landed' = <<>> /\ GridOK(type, placed)
    BY <1>1, NothingRemains DEF Busy, ShapeOK
  <1>3. Corrected \in Book /\ NoCross(Corrected)
    BY <1>1, CorrectedBook, CorrectedApart
  <1>4. \A s \in Sides, i \in Levels :
            Adoptable(s, i) <=> Corrected[s][i] = 1 /\ (placed[i] = "no" \/ i \in Missing)
    BY <1>1, AdoptableIs
  <1>5. \A i \in Levels : ~(Corrected["buy"][i] = 1 /\ Corrected["sell"][i] = 1)
    <2>1. \A i \in Levels : ~(i < i)
      BY Constants
    <2> QED  BY <1>3, <2>1 DEF NoCross
  <1>6. ASSUME NEW s \in Sides, NEW i \in Levels, Corrected[s][i] = 1
        PROVE  placed'[i] # "no" /\ type'[i] = s
    <2>1. \A t \in Sides : Corrected[t][i] = 1 => t = s
      BY <1>5, <1>6 DEF Sides
    <2>2. CASE placed[i] = "no" \/ i \in Missing
      <3>1. Adoptable(s, i) /\ \A t \in Sides : Adoptable(t, i) => t = s
        BY <1>4, <1>6, <2>1, <2>2
      <3>2. type'[i] = s
        BY <1>1, <3>1 DEF Sides
      <3>3. placed'[i] = "whole"
        BY <1>1, <3>1
      <3> QED  BY <3>2, <3>3
    <2>3. CASE placed[i] # "no" /\ i \notin Missing
      <3>1. type[i] \in Sides /\ Corrected[type[i]][i] # 0
        BY <1>1, <1>2, <2>3, MissingIs DEF GridOK, Missing
      <3>2. Corrected[type[i]][i] = 1
        BY <1>3, <3>1 DEF Book
      <3>3. type[i] = s
        BY <2>1, <3>1, <3>2
      <3>4. \A t \in Sides : ~Adoptable(t, i)
        BY <1>4, <2>3
      <3>5. type'[i] = type[i] /\ placed'[i] = placed[i]
        BY <1>1, <2>3, <3>4 DEF Sides
      <3> QED  BY <2>3, <3>3, <3>5
    <2> QED  BY <2>2, <2>3
  <1>7. FillsGone'
    BY <1>1 DEF FillsGone
  <1> QED  BY <1>1, <1>2, <1>3, <1>6, <1>7, EmptyEnd

\* The invariant holds of a grid with its orders on chain and no batch.
LEMMA RebalanceInitInv == RebalanceInit => RebalanceInv
  <1> SUFFICES ASSUME RebalanceInit PROVE RebalanceInv
    OBVIOUS
  <1> DEFINE b == boundaryIdx
  <1>1. /\ b \in 0 .. Ceiling /\ type = [i \in Levels |-> Role(b, i)]
        /\ placed = [i \in Levels |-> IF i \in WindowSlots(b) THEN "whole" ELSE "no"]
        /\ live = [s \in Sides |-> [i \in Levels |-> IF i \in WindowOf(s, b) THEN 1 ELSE 0]]
        /\ unseen = <<>> /\ fills = <<>> /\ shiftBudget = 0 /\ burstStart = b /\ replans = 0
        /\ batch = NoBatch /\ landed = <<>> /\ journal = {} /\ adrift = 0
    BY DEF RebalanceInit
  <1>2. b \in Int /\ BaseBudget \in Nat
    BY <1>1, Constants
  <1>3. \A s \in Sides : \A i \in WindowOf(s, b) : i \in Levels /\ InRail(s, b, i) /\ Role(b, i) = s
    BY <1>2, WindowRoles
  <1>4. \A i \in WindowSlots(b) : Role(b, i) \in Sides
    BY <1>3 DEF WindowSlots, Sides
  <1>5. \A i \in Levels : Role(b, i) \in SlotTypes
    BY DEF Role, SlotTypes
  <1> HIDE DEF b
  <1>6. GridOK(type, placed) /\ live \in Book
    <2>1. type \in [Levels -> SlotTypes] /\ placed \in [Levels -> Holdings]
      BY <1>1, <1>5 DEF Holdings
    <2>2. \A i \in Levels : placed[i] # "no" => type[i] \in Sides
      BY <1>1, <1>4
    <2>3. live \in Book
      BY <1>1 DEF Book
    <2> QED  BY <2>1, <2>2, <2>3 DEF GridOK
  <1>7. FillsOK /\ FillsGone /\ FailureOK
    <2>1. <<>> \in Seq(Fill) /\ batch.chunk = <<>>
      BY <1>1, NoBatchRecord
    <2> QED  BY <1>1, <2>1 DEF FillsOK, FillsGone, FailureOK
  <1>8. BurstOK
    <2>1. 0 \in 0 .. BaseBudget
      BY <1>2
    <2>2. SpentOf(b, b, 0, 0)
      BY <1>1, <2>1, Restarts
    <2> QED  BY <1>1, <2>1, <2>2, NoBatchRecord DEF BurstOK, Spent, b
  <1>9. ASSUME NEW s \in Sides, NEW i \in Levels, live[s][i] = 1
        PROVE  i \in WindowOf(s, b) /\ placed[i] # "no" /\ type[i] = s
    <2>1. i \in WindowOf(s, b)
      BY <1>1, <1>9
    <2>2. i \in WindowSlots(b)
      BY <2>1 DEF WindowSlots, Sides
    <2> QED  BY <1>1, <1>3, <2>1, <2>2
  <1>10. NoCross(live)
    <2> SUFFICES ASSUME NEW i \in Levels, NEW j \in Levels, live["buy"][i] = 1, live["sell"][j] = 1
                 PROVE  i < j
      BY DEF NoCross
    <2>1. InRail("buy", b, i) /\ InRail("sell", b, j)
      BY <1>3, <1>9 DEF Sides
    <2> QED  BY <1>2, <2>1, RailsApart
  <1>11. BookOK(type, placed, live, <<>>, 0)
    BY <1>9, <1>10, NoOpsOK, UnsentBook
  <1>12. BatchOK /\ SentOK /\ LandedOK
    BY <1>1, <1>11 DEF BatchOK, SentOK, LandedOK, Busy
  <1> QED  BY <1>6, <1>7, <1>8, <1>12 DEF RebalanceInv, ShapeOK, Steady

\* Sight of an order that is lost is not found again.
LEMMA AdriftStays == ASSUME FailureOK, RebalanceNext, adrift' = 0 PROVE adrift = 0
  <1>1. adrift \in Nat
    BY DEF FailureOK
  <1>2. CASE UNCHANGED adrift
    BY <1>2
  <1>3. CASE \E cond : Drifting(cond)
    BY <1>1, <1>3 DEF Drifting
  <1>4. \A p, w, target, chunk : Begin(p, w, target, chunk) =>
            UNCHANGED adrift \/ \E cond : Drifting(cond)
    BY DEF Begin, Send, TurnAway, Restored
  <1>5. CASE PlanChunk
    BY <1>2, <1>3, <1>4, <1>5 DEF PlanChunk, Rebalancing, Uncovered
  <1>6. CASE PlanAgain
    BY <1>2, <1>3, <1>4, <1>6 DEF PlanAgain, Rebalancing
  <1>7. CASE FundShift
    BY <1>2, <1>3, <1>4, <1>7 DEF FundShift, CorrectGrid
  <1>8. CASE StaleOrder \/ ChunkFails
    BY <1>2, <1>8 DEF StaleOrder, ChunkFails, Abandon
  <1>9. CASE MarketFill \/ PartialFill \/ ConsumeFills \/ BroadcastChunk \/ CommitBatch \/ OpenOrdersSync
    BY <1>2, <1>9 DEF MarketFill, PartialFill, ConsumeFills, BroadcastChunk, CommitBatch, OpenOrdersSync, failureVars
  <1> QED  BY <1>5, <1>6, <1>7, <1>8, <1>9 DEF RebalanceNext

\* Every step of the planning keeps the shape.
LEMMA ShapeStep == ShapeOK /\ [RebalanceNext]_rebalanceVars => ShapeOK'
  <1> SUFFICES ASSUME ShapeOK, [RebalanceNext]_rebalanceVars PROVE ShapeOK'
    OBVIOUS
  <1>1. CASE MarketFill
    BY <1>1, MarketFillShape
  <1>2. CASE PartialFill
    BY <1>2, PartialFillShape
  <1>3. CASE ConsumeFills
    BY <1>3, ConsumeFillsShape
  <1>4. CASE PlanChunk
    BY <1>4, PlanChunkShape
  <1>5. CASE PlanAgain
    BY <1>5, PlanAgainShape
  <1>6. CASE BroadcastChunk
    BY <1>6, BroadcastChunkShape
  <1>7. CASE StaleOrder
    BY <1>7, StaleOrderShape
  <1>8. CASE ChunkFails
    BY <1>8, ChunkFailsShape
  <1>9. CASE CommitBatch
    BY <1>9, CommitBatchShape
  <1>10. CASE OpenOrdersSync
    BY <1>10, OpenOrdersSyncShape
  <1>11. CASE FundShift
    BY <1>11, FundShiftShape
  <1>12. CASE UNCHANGED rebalanceVars
    BY <1>12 DEF rebalanceVars, levelVars, marketVars, burstVars, failureVars, ShapeOK, FillsOK, BurstOK,
                 FailureOK, BatchOK, Busy, Spent, Gated
  <1> QED  BY <1>1, <1>2, <1>3, <1>4, <1>5, <1>6, <1>7, <1>8, <1>9, <1>10, <1>11, <1>12 DEF RebalanceNext

\* Every step that keeps sight of the orders keeps the book.
LEMMA SteadyStep == ASSUME ShapeOK, Steady, RebalanceNext, adrift' = 0 PROVE Steady'
  <1>1. CASE MarketFill
    BY <1>1, MarketFillSteady
  <1>2. CASE PartialFill
    BY <1>2, PartialFillSteady
  <1>3. CASE ConsumeFills
    BY <1>3, ConsumeFillsSteady
  <1>4. CASE PlanChunk
    BY <1>4, PlanChunkSteady
  <1>5. CASE PlanAgain
    BY <1>5, PlanAgainSteady
  <1>6. CASE BroadcastChunk
    BY <1>6, BroadcastChunkSteady
  <1>7. CASE StaleOrder
    BY <1>7, StaleOrderSteady
  <1>8. CASE ChunkFails
    BY <1>8, ChunkFailsSteady
  <1>9. CASE CommitBatch
    BY <1>9, CommitBatchSteady
  <1>10. CASE OpenOrdersSync
    BY <1>10, OpenOrdersSyncSteady
  <1>11. CASE FundShift
    BY <1>11, FundShiftSteady
  <1> QED  BY <1>1, <1>2, <1>3, <1>4, <1>5, <1>6, <1>7, <1>8, <1>9, <1>10, <1>11 DEF RebalanceNext

\* Every step of the planning keeps the inductive invariant.
LEMMA RebalanceStep == RebalanceInv /\ [RebalanceNext]_rebalanceVars => RebalanceInv'
  <1> SUFFICES ASSUME RebalanceInv, [RebalanceNext]_rebalanceVars PROVE RebalanceInv'
    OBVIOUS
  <1>1. ShapeOK /\ ShapeOK'
    BY ShapeStep DEF RebalanceInv
  <1>2. ASSUME adrift' = 0 PROVE Steady'
    <2>1. CASE RebalanceNext
      <3>1. adrift = 0
        BY <1>1, <1>2, <2>1, AdriftStays DEF ShapeOK
      <3> QED  BY <1>1, <1>2, <2>1, <3>1, SteadyStep DEF RebalanceInv
    <2>2. CASE UNCHANGED rebalanceVars
      BY <1>2, <2>2 DEF rebalanceVars, levelVars, marketVars, burstVars, failureVars, RebalanceInv, Steady,
                        FillsGone, SentOK, LandedOK, Busy
    <2> QED  BY <2>1, <2>2
  <1> QED  BY <1>1, <1>2 DEF RebalanceInv

\* What the operations of a batch may do to each other and to the grid holds in every state of
\* the planning and its execution (reconcileGrid(), the executor, processBatchResults(), the
\* open-orders sync), and until the bot plans on beside orders its grid does not know, so does
\* where every order on chain comes from.
THEOREM RebalanceInvariant == RebalanceSpec => []RebalanceInv
  BY RebalanceInitInv, RebalanceStep, PTL DEF RebalanceSpec

\* A slot has at most one order of a side.
LEMMA LiveNumbers ==
    ASSUME RebalanceInv, adrift = 0, NEW s \in Sides, NEW i \in Levels
    PROVE  live[s][i] \in 0 .. 1 /\ NoCross(live)
  BY DEF RebalanceInv, Steady, Book, LandedOK, SentOK, BookOK

\* At no moment of a broadcast, whatever is filled, refused or left of an earlier batch, is one
\* of the bot's buys at or above one of its sells, unless it has planned on beside orders that
\* its grid does not know.
THEOREM NeverCrossesItself == RebalanceSpec => []NoSelfCross
  <1>1. RebalanceInv => NoSelfCross
    <2> SUFFICES ASSUME RebalanceInv, adrift = 0, NEW i \in Levels, live["buy"][i] > 0,
                        NEW j \in Levels, live["sell"][j] > 0
                 PROVE  i < j
      BY DEF NoSelfCross
    <2>1. live["buy"][i] \in 0 .. 1 /\ live["sell"][j] \in 0 .. 1 /\ NoCross(live)
      BY LiveNumbers DEF Sides
    <2>2. live["buy"][i] = 1 /\ live["sell"][j] = 1
      BY <2>1
    <2> QED  BY <2>1, <2>2 DEF NoCross
  <1> QED  BY <1>1, RebalanceInvariant, PTL

\* No price level ever holds two orders of the bot, in the same states.
THEOREM NeverTwoOrdersAtALevel == RebalanceSpec => []OneOrderPerLevel
  <1>1. RebalanceInv => OneOrderPerLevel
    <2> SUFFICES ASSUME RebalanceInv, adrift = 0, NEW i \in Levels PROVE live["buy"][i] + live["sell"][i] <= 1
      BY DEF OneOrderPerLevel
    <2>1. live["buy"][i] \in 0 .. 1 /\ live["sell"][i] \in 0 .. 1 /\ NoCross(live)
      BY LiveNumbers DEF Sides
    <2>2. ~(live["buy"][i] = 1 /\ live["sell"][i] = 1)
      <3>1. i \in Nat
        BY Constants
      <3> QED  BY <2>1, <3>1 DEF NoCross
    <2> QED  BY <2>1, <2>2
  <1> QED  BY <1>1, RebalanceInvariant, PTL

\* Between two batches every order on chain is held by its slot or was put there by a failed
\* batch, in the same states.
THEOREM OrdersStayTracked == RebalanceSpec => []Tracked
  <1>1. RebalanceInv => Tracked
    <2> SUFFICES ASSUME RebalanceInv, ~Busy, adrift = 0, NEW s \in Sides, NEW i \in Levels, live[s][i] > 0
                 PROVE  \/ placed[i] # "no" /\ type[i] = s
                        \/ \E k \in DOMAIN landed : Places(landed[k]) /\ landed[k].side = s /\ landed[k].to = i
      BY DEF Tracked
    <2>1. live[s][i] \in 0 .. 1
      BY LiveNumbers
    <2>2. live[s][i] = 1
      BY <2>1
    <2>3. OpsOK(type, placed, landed) /\ LiveOK(type, placed, live, landed, Len(landed))
      BY DEF RebalanceInv, Steady, LandedOK, BookOK
    <2>4. DOMAIN landed = 1 .. Len(landed)
      BY <2>3 DEF OpsOK
    <2> QED  BY <2>2, <2>3, <2>4 DEF LiveOK, Made
  <1> QED  BY <1>1, RebalanceInvariant, PTL

\* The plans of one burst of fills move the boundary no further than the budget of the burst,
\* which every plan that is made again renews.
THEOREM BurstsBounded == RebalanceSpec => []BurstBounded
  <1>1. RebalanceInv => BurstBounded
    <2> SUFFICES ASSUME RebalanceInv PROVE Distance(boundaryIdx, burstStart) <= BaseBudget * (1 + replans)
      BY DEF BurstBounded
    <2>1. /\ boundaryIdx \in Int /\ burstStart \in Int /\ shiftBudget \in Nat /\ replans \in Nat
          /\ SpentOf(boundaryIdx, burstStart, shiftBudget, replans)
      BY Constants DEF RebalanceInv, ShapeOK, BurstOK, Spent
    <2> DEFINE d == Distance(boundaryIdx, burstStart)
               m == BaseBudget * (1 + replans)
    <2>2. d \in Int
      BY <2>1 DEF Distance, AtLeast
    <2>3. m \in Int
      BY <2>1, SpentRenews
    <2>4. d + shiftBudget <= m
      BY <2>1 DEF SpentOf
    <2> HIDE DEF d, m
    <2> QED  BY <2>1, <2>2, <2>3, <2>4 DEF d, m
  <1> QED  BY <1>1, RebalanceInvariant, PTL
=============================================================================
