------------------------------ MODULE Rebalance ------------------------------
(***************************************************************************)
(* Fills move the boundary of the grid, a plan moves the orders after it.  *)
(* calculateTargetGrid() gives every slot its role, reconcileGrid() and    *)
(* optimizeRebalanceActions() turn the difference into cancels, creates    *)
(* and moves, updateOrdersOnChainBatchCOW() drops the operations that      *)
(* would cross the book and broadcasts the rest in chunks.  Between two    *)
(* chunks the market goes on filling orders.  A correction of the grid to  *)
(* the funds (applyGridDivergenceCorrections) runs the same executor.      *)
(*                                                                         *)
(* A batch whose later chunk is refused leaves the grid as it was before,  *)
(* and the bot plans on from it: an order that such a batch has moved is   *)
(* known by its id at the slot it left.                                    *)
(*                                                                         *)
(* Slot i is at price level i, and an order is known by its slot; sizes    *)
(* are positive.  Uncertain broadcasts and the cancelling of unmatched     *)
(* orders are those of UncertainBroadcast and ChainSync; a plan that stays *)
(* stale is CowBatch's.                                                    *)
(***************************************************************************)
EXTENDS Integers, Sequences, FiniteSets, SequencesExt

CONSTANTS
    Top,          \* the highest slot
    Gap,          \* _gapSlots
    Window,       \* activeOrders of each side
    MaxBatch,     \* MAX_FILL_BATCH_SIZE
    MaxOps,       \* MAX_OPS_PER_BROADCAST
    MaxUnseen,    \* fills the bot has not read yet
    MaxReplans,   \* plans of one burst that are made again
    MaxLanded,    \* operations of failed batches that no sync has dealt with
    MaxAdrift,    \* plans carried out after the grid has lost sight of an order
    MaxParts      \* partly filled orders at a time

ASSUME RebalanceAssumption ==
    /\ Top \in Nat /\ Gap \in 0 .. Top /\ Window \in Nat \ {0}
    /\ MaxBatch \in Nat \ {0} /\ MaxOps \in Nat \ {0}
    /\ {MaxUnseen, MaxReplans, MaxLanded, MaxAdrift, MaxParts} \subseteq Nat

Levels == 0 .. Top
Sides == {"buy", "sell"}

VARIABLES
    type,          \* "buy", "sell" or "spread", by slot
    placed,        \* "no", "whole" or "part": the order a slot holds
    boundaryIdx,   \* the last slot of the buy rail
    live,          \* orders on chain, by side and level
    unseen,        \* fills the bot has not read
    fills,         \* those of the burst that are still to be planned for
    lastFilled,    \* _lastFilledPrice, -1 before the first fill
    shiftBudget,   \* _boundaryShiftBudget
    burstStart,    \* boundaryIdx when the burst began
    replans,       \* plans of this burst made again
    batch,         \* the batch being broadcast
    landed,        \* what failed batches have done and the grid does not know
    journal,       \* _pendingBroadcasts of failed batches
    adrift         \* history: plans carried out since the first one beside landed
                   \* operations, or since a slot lost its order as a batch was turned away

levelVars == <<type, placed, boundaryIdx>>
marketVars == <<live, unseen>>
burstVars == <<fills, lastFilled, shiftBudget, burstStart, replans>>
failureVars == <<landed, journal, adrift>>
rebalanceVars == <<levelVars, marketVars, burstVars, batch, failureVars>>

NoBatch == [ops |-> <<>>, pos |-> 0, type |-> <<>>, placed |-> <<>>, target |-> 0, chunk |-> <<>>]
Busy == batch # NoBatch
Idle == ~Busy /\ fills = <<>>

AtLeast(x, y) == IF x >= y THEN x ELSE y
AtMost(x, y) == IF x <= y THEN x ELSE y
Clamp(lo, x, hi) == AtLeast(lo, AtMost(x, hi))
Distance(i, j) == AtLeast(i - j, j - i)
\* The numbers of a set, the lowest first.
Rising(S) == [k \in 1 .. Cardinality(S) |-> CHOOSE i \in S : Cardinality({j \in S : j < i}) = k - 1]
Falling(S) == Reverse(Rising(S))
\* The elements of q at the positions K.
Picked(q, K) == LET at == Rising(K) IN [k \in DOMAIN at |-> q[at[k]]]
\* Nearest to the boundary first.
Outward(side, S) == IF side = "buy" THEN Falling(S) ELSE Rising(S)

-----------------------------------------------------------------------------
\* The geometry of a boundary.
SellStart(b) == b + Gap + 1
\* A boundary the sell rail has room above.
Ceiling == Top - Gap
InRail(side, b, i) == IF side = "buy" THEN i <= b ELSE i >= SellStart(b)
Role(b, i) == IF InRail("buy", b, i) THEN "buy" ELSE IF InRail("sell", b, i) THEN "sell" ELSE "spread"

\* assignGridRoles(): an order on chain is never in the spread, its slot keeps its side.
RoleOf(b, i) ==
    IF Role(b, i) = "spread" /\ placed[i] # "no" THEN type[i] ELSE Role(b, i)
Roles(b) == [i \in Levels |-> RoleOf(b, i)]

\* The slots of a rail that hold an order when all is well.
WindowOf(side, b) ==
    IF side = "buy" THEN {i \in Levels : b - Window < i /\ i <= b}
                    ELSE {i \in Levels : SellStart(b) <= i /\ i < SellStart(b) + Window}
WindowSlots(b) == WindowOf("buy", b) \cup WindowOf("sell", b)

\* How far one burst of fills may move the boundary.
BaseBudget == AtLeast(Window \div 2, 1)

\* deriveTargetBoundary(): a filled sell moves it up, a filled buy down.
NetShift(chunk) ==
    LET filled(side) == Cardinality({k \in DOMAIN chunk : chunk[k].side = side})
    IN filled("sell") - filled("buy")
\* Mutation: the shift of a plan is not capped by what the burst has left.
Uncapped(chunk, budget) == NetShift(chunk)
Shift(chunk, budget) ==
    LET cap == AtMost(budget, BaseBudget) IN Clamp(-cap, NetShift(chunk), cap)
Target(chunk, budget) == Clamp(0, boundaryIdx + Shift(chunk, budget), Ceiling)
BudgetAfter(chunk, budget) == budget - Distance(Shift(chunk, budget), 0)

-----------------------------------------------------------------------------
\* reconcileGrid(): the actions that lead from the grid to the roles of boundary b.
Act(kind, side, at, to) == [kind |-> kind, side |-> side, at |-> at, to |-> to]
CancelAct(i) == Act("cancel", type[i], i, i)
CreateAct(side, i) == Act("create", side, i, i)
MoveAct(side, i, j) == Act("move", side, i, j)
Each(Op(_), slots) == [k \in DOMAIN slots |-> Op(slots[k])]

Mismatched(b) == {i \in Levels : placed[i] # "no" /\ type[i] # RoleOf(b, i)}
\* A cancel and a create of every slot.
Again(b, slots) ==
    [k \in 1 .. 2 * Len(slots) |->
        LET i == slots[(k + 1) \div 2]
        IN IF k % 2 = 1 THEN CancelAct(i) ELSE CreateAct(RoleOf(b, i), i)]
Retyped(b) ==
    LET inWindow(side) == Outward(side, Mismatched(b) \cap WindowOf(side, b))
    IN Again(b, inWindow("buy") \o inWindow("sell"))
         \o Each(CancelAct, Rising(Mismatched(b) \ WindowSlots(b)))

Holes(side, b) == {i \in WindowOf(side, b) : placed[i] = "no"}
Surplus(side, b) ==
    {i \in Levels \ WindowSlots(b) : placed[i] # "no" /\ type[i] = side /\ RoleOf(b, i) = side}

\* pairRotations(): the orders that are over move to the holes, in the order of the slots.
PairRotations(side, b) ==
    LET from == Rising(Surplus(side, b))
        to == IF from = <<>> THEN Outward(side, Holes(side, b)) ELSE Rising(Holes(side, b))
        n == AtMost(Len(from), Len(to))
        rest(s) == SubSeq(s, n + 1, Len(s))
        create(i) == CreateAct(side, i)
    IN [k \in 1 .. n |-> MoveAct(side, from[k], to[k])]
         \o Each(create, rest(to)) \o Each(CancelAct, rest(from))

Reconcile(b) == Retyped(b) \o PairRotations("buy", b) \o PairRotations("sell", b)

\* optimizeRebalanceActions(): a cancel takes the nearest create of its side.
OfKind(actions, kind) == Picked(actions, {k \in DOMAIN actions : actions[k].kind = kind})
NearestCreate(creates, a) ==
    LET fit == {k \in DOMAIN creates : creates[k].side = a.side}
        d(k) == Distance(creates[k].at, a.at)
    IN {k \in fit : \A l \in fit : d(k) < d(l) \/ (d(k) = d(l) /\ k <= l)}
Pair(acc, a) ==
    IF NearestCreate(acc.creates, a) = {}
    THEN [acc EXCEPT !.done = Append(@, a)]
    ELSE LET k == CHOOSE k \in NearestCreate(acc.creates, a) : TRUE
         IN [done |-> Append(acc.done, MoveAct(a.side, a.at, acc.creates[k].at)),
             creates |-> RemoveAt(acc.creates, k)]
Pairing(cancels, moves, creates) ==
    LET acc[k \in 0 .. Len(cancels)] ==
          IF k = 0 THEN [done |-> moves, creates |-> creates] ELSE Pair(acc[k - 1], cancels[k])
    IN acc[Len(cancels)]
Optimize(actions) ==
    LET cancels == OfKind(actions, "cancel")
        creates == OfKind(actions, "create")
        paired == Pairing(cancels, OfKind(actions, "move"), creates)
    IN IF creates = <<>> \/ cancels = <<>> THEN actions ELSE paired.done \o paired.creates

Places(op) == op.kind # "cancel"
Removes(op) == op.kind # "create"

-----------------------------------------------------------------------------
\* The checks of the whole batch.  A create may not name a slot that keeps its order.
Released(actions) == {actions[k].at : k \in {k \in DOMAIN actions : actions[k].kind # "create"}}
SlotOccupied(actions) ==
    \E k \in DOMAIN actions : /\ actions[k].kind = "create"
                              /\ placed[actions[k].at] # "no"
                              /\ actions[k].at \notin Released(actions)

\* detectCrossedBookPlan(): the book as it is when all the actions are done.
Overlay(book, a) ==
    LET without == [book EXCEPT ![a.at] = "none"]
    IN CASE a.kind = "cancel" -> without
         [] a.kind = "move"   -> [without EXCEPT ![a.to] = a.side]
         [] OTHER             -> [book EXCEPT ![a.at] = a.side]
PlannedBook(actions) ==
    FoldLeft(Overlay, [i \in Levels |-> IF placed[i] = "no" THEN "none" ELSE type[i]], actions)
CrossedBook(actions) ==
    LET book == PlannedBook(actions)
    IN \E i \in Levels : book[i] = "buy" /\ \E j \in 0 .. i : book[j] = "sell"

\* The executor builds one operation after the other; acc holds the operations, the slots
\* whose cancel comes before, the orders placed so far and the slots of skipped moves.
NoOps == [ops |-> <<>>, cancelled |-> {}, made |-> {}, skipped |-> {}]

\* findCrossedOrder(): an order of the other side at or beyond the level.
Beyond(side, at, other) == IF side = "buy" THEN other <= at ELSE other >= at
CrossesGrid(acc, side, at) ==
    \E i \in Levels \ acc.cancelled :
        placed[i] # "no" /\ type[i] # side /\ Beyond(side, at, i)
CrossesMade(made, side, at) == \E o \in made : o.side # side /\ Beyond(side, at, o.at)
\* Only the orders that were moved have an id yet, and the guard of a move asks for one.
Moved(acc) == {o \in acc.made : o.kind = "move"}

\* isLastFillGuardBlocked(): no buy at or above the price of the last fill, no sell below.
LastFillBlocks(side, at) == lastFilled >= 0 /\ Beyond(side, at, lastFilled)

Placing(acc, a, at) ==
    [acc EXCEPT !.ops = Append(@, a), !.made = @ \cup {[kind |-> a.kind, side |-> a.side, at |-> at]}]
Skipping(acc, a) == [acc EXCEPT !.skipped = @ \cup {a.at, a.to}]

\* Mutation: a create is not compared with the orders of the grid.
CreateUnseen(acc, a) ==
    IF CrossesMade(acc.made, a.side, a.at) \/ LastFillBlocks(a.side, a.at)
    THEN acc ELSE Placing(acc, a, a.at)
BuildCreate(acc, a) ==
    IF \/ CrossesGrid(acc, a.side, a.at) \/ CrossesMade(acc.made, a.side, a.at)
       \/ LastFillBlocks(a.side, a.at)
    THEN acc ELSE Placing(acc, a, a.at)

\* An order that a failed batch has moved is where it went, though its slot is the old one.
MovesFrom(i) == {k \in DOMAIN landed : landed[k].kind = "move" /\ landed[k].at = i}
Where(i) == IF MovesFrom(i) = {} THEN i ELSE landed[CHOOSE k \in MovesFrom(i) : TRUE].to
\* The order is not on chain any more: the move becomes a create of its destination.
Gone(i) == live[type[i]][Where(i)] = 0
BuildFallback(acc, a) ==
    IF CrossesGrid(acc, a.side, a.to)
    THEN acc ELSE [acc EXCEPT !.ops = Append(@, CreateAct(a.side, a.to))]

\* A partly filled order is not moved to a slot where it would grow.
BuildMove(acc, a, grows) ==
    IF \/ placed[a.at] = "part" /\ a.at \in grows
       \/ CrossesGrid(acc, a.side, a.to) \/ CrossesMade(Moved(acc), a.side, a.to)
       \/ LastFillBlocks(a.side, a.to)
    THEN Skipping(acc, a)
    ELSE IF Gone(a.at) THEN BuildFallback(acc, a) ELSE Placing(acc, a, a.to)

BuildCancel(acc, a) ==
    [acc EXCEPT !.ops = Append(@, a), !.cancelled = @ \cup {a.at}]

BuildOp(acc, a, grows) ==
    CASE a.kind = "cancel" -> BuildCancel(acc, a)
      [] a.kind = "create" -> BuildCreate(acc, a)
      [] OTHER             -> BuildMove(acc, a, grows)
BuildOps(actions, grows) ==
    LET acc[k \in 0 .. Len(actions)] ==
          IF k = 0 THEN NoOps ELSE BuildOp(acc[k - 1], actions[k], grows)
    IN acc[Len(actions)]
-----------------------------------------------------------------------------
\* The grid is what the fills left, every rail holds its window.
RebalanceInit ==
    /\ boundaryIdx \in 0 .. Ceiling
    /\ type = [i \in Levels |-> Role(boundaryIdx, i)]
    /\ placed = [i \in Levels |-> IF i \in WindowSlots(boundaryIdx) THEN "whole" ELSE "no"]
    /\ live = [s \in Sides |-> [i \in Levels |-> IF i \in WindowOf(s, boundaryIdx) THEN 1 ELSE 0]]
    /\ unseen = <<>> /\ fills = <<>> /\ lastFilled = -1
    /\ shiftBudget = 0 /\ burstStart = boundaryIdx /\ replans = 0
    /\ batch = NoBatch /\ landed = <<>> /\ journal = {} /\ adrift = 0

\* The market takes the best order of a side.
FillOf(side, i) == [side |-> side, at |-> i]
MarketFill ==
    /\ Len(unseen) < MaxUnseen
    /\ \E side \in Sides, i \in Levels :
         /\ live[side][i] > 0
         /\ \A j \in Levels : live[side][j] > 0 => Beyond(side, i, j)
         /\ live' = [live EXCEPT ![side][i] = @ - 1]
         /\ unseen' = Append(unseen, FillOf(side, i))
    /\ UNCHANGED <<levelVars, burstVars, batch, failureVars>>

\* A fill of a part of an order is booked; it moves no boundary.
PartialFill ==
    /\ Idle /\ Cardinality({i \in Levels : placed[i] = "part"}) < MaxParts
    /\ \E i \in Levels :
         /\ placed[i] = "whole" /\ ~Gone(i)
         /\ placed' = [placed EXCEPT ![i] = "part"]
    /\ UNCHANGED <<type, boundaryIdx, marketVars, burstVars, batch, failureVars>>

\* convertToSpreadPlaceholder()
Cleared(slots) ==
    /\ type' = [i \in Levels |-> IF i \in slots THEN "spread" ELSE type[i]]
    /\ placed' = [i \in Levels |-> IF i \in slots THEN "no" ELSE placed[i]]

\* _processFillsWithBatching(): the last fill and the budget are those of the whole list.
StartBurst(list) ==
    IF list = <<>> THEN UNCHANGED burstVars
    ELSE /\ fills' = list /\ lastFilled' = Last(list).at
         /\ shiftBudget' = BaseBudget
         /\ burstStart' = boundaryIdx /\ replans' = 0

\* The ids of orders that leave a slot for good: nothing was moved from it any more.
LandedBut(slots) == Picked(landed, {k \in DOMAIN landed : ~(Removes(landed[k]) /\ landed[k].at \in slots)})

\* The consumer reads the fills and frees the slots that hold their ids; it passes over the
\* fills it does not know.
Holders(f) == {i \in Levels : placed[i] # "no" /\ type[i] = f.side /\ Where(i) = f.at}
Known(f) == Holders(f) # {}
ConsumeFills ==
    /\ Idle /\ unseen # <<>>
    /\ LET known == Picked(unseen, {k \in DOMAIN unseen : Known(unseen[k])})
       IN \E freed \in SUBSET UNION {Holders(known[k]) : k \in DOMAIN known} :
            /\ Cardinality(freed) <= Len(known)
            /\ \A k \in DOMAIN known : Holders(known[k]) \cap freed # {}
            /\ Cleared(freed) /\ landed' = LandedBut(freed) /\ StartBurst(known)
    /\ unseen' = <<>>
    /\ UNCHANGED <<boundaryIdx, live, batch, journal, adrift>>

-----------------------------------------------------------------------------
\* A batch is broadcast from a working grid w when its checks pass and an operation is left.
\* Skipped moves keep what the grid holds.
Kept(w, skipped) ==
    [type   |-> [i \in Levels |-> IF i \in skipped THEN type[i] ELSE w.type[i]],
     placed |-> [i \in Levels |-> IF i \in skipped THEN placed[i] ELSE w.placed[i]]]
Refused(actions) == SlotOccupied(actions) \/ CrossedBook(actions)
Batch(built, w, target, chunk) ==
    [ops |-> built.ops, pos |-> 0, type |-> Kept(w, built.skipped).type,
     placed |-> Kept(w, built.skipped).placed, target |-> target, chunk |-> chunk]
\* One more plan goes on beside orders the grid has no sight of, if the condition holds.
Drifting(cond) == adrift' = (IF cond THEN adrift + 1 ELSE adrift) /\ adrift' <= MaxAdrift
Send(actions, w, target, chunk) ==
    /\ \E grows \in SUBSET {i \in Levels : placed[i] = "part"} :
         LET built == BuildOps(actions, grows)
         IN batch' = IF Refused(actions) \/ built.ops = <<>> THEN NoBatch
                     ELSE Batch(built, w, target, chunk)
    /\ Drifting(batch' # NoBatch /\ (adrift > 0 \/ landed # <<>>))
    /\ UNCHANGED <<type, placed, journal>>

\* While the journal has entries a batch with creates is turned away and the chain is read.
\* Without the contexts of its operations nothing is adopted; the slots of the entries that
\* are not on chain become those of the orders planned.  A failed read drops the entries
\* alone, an empty or cut-off one keeps them.
CreatesIn(actions) == {actions[k] : k \in {k \in DOMAIN actions : actions[k].kind = "create"}}
TurnedAway(actions) == CreatesIn(actions) # {} /\ journal # {} /\ ~SlotOccupied(actions)
NotFound == {o \in journal : live[o.side][o.to] = 0}
Restored(lost) ==
    LET at(i) == {o \in lost : o.to = i}
    IN /\ type' = [i \in Levels |-> IF at(i) = {} THEN type[i] ELSE (CHOOSE o \in at(i) : TRUE).side]
       /\ placed' = [i \in Levels |-> IF at(i) = {} THEN placed[i] ELSE "no"]
       /\ Drifting(\E o \in lost : placed[o.to] # "no")
TurnAway ==
    /\ batch' = NoBatch
    /\ \/ journal' = {} /\ \E lost \in {NotFound, {}} : Restored(lost)
       \/ UNCHANGED <<type, placed, journal, adrift>>

Begin(actions, w, target, chunk) ==
    IF TurnedAway(actions) THEN TurnAway ELSE Send(actions, w, target, chunk)

\* projectTargetToWorkingGrid(): a slot that keeps its side keeps its order.
Projected(b) ==
    [type |-> Roles(b), placed |-> [i \in Levels |-> IF type[i] = RoleOf(b, i) THEN placed[i] ELSE "no"]]

\* performSafeRebalance() and the executor up to the broadcast, for one chunk of the burst.
\* The budget is spent whatever comes of the plan.
Rebalancing(chunk, budget) ==
    LET b == Target(chunk, budget)
    IN /\ Begin(Optimize(Reconcile(b)), Projected(b), b, chunk)
       /\ shiftBudget' = BudgetAfter(chunk, budget)

\* The funds do not cover the working grid.
Uncovered(chunk) ==
    /\ shiftBudget' = BudgetAfter(chunk, shiftBudget)
    /\ UNCHANGED <<batch, type, placed, journal, adrift>>
PlanChunk ==
    /\ ~Busy /\ fills # <<>>
    /\ LET n == AtMost(MaxBatch, Len(fills))
           chunk == SubSeq(fills, 1, n)
       IN /\ fills' = SubSeq(fills, n + 1, Len(fills))
          /\ Rebalancing(chunk, shiftBudget) \/ Uncovered(chunk)
    /\ UNCHANGED <<boundaryIdx, marketVars, lastFilled, burstStart, replans, landed>>

\* replanStaleBatch(): the grid has a new version, the fills are planned for again with the
\* budget the burst began with.
PlanAgain ==
    /\ Busy /\ batch.pos = 0 /\ batch.chunk # <<>> /\ replans < MaxReplans
    /\ replans' = replans + 1
    /\ Rebalancing(batch.chunk, BaseBudget)
    /\ UNCHANGED <<boundaryIdx, marketVars, fills, lastFilled, burstStart, landed>>

-----------------------------------------------------------------------------
\* One chunk of operations is one transaction.
NextOps == SubSeq(batch.ops, batch.pos + 1, AtMost(batch.pos + MaxOps, Len(batch.ops)))
DeadOps == {k \in DOMAIN NextOps : Removes(NextOps[k]) /\ live[NextOps[k].side][Where(NextOps[k].at)] = 0}
\* The order book when all the operations are done.
BookAfter(ops) ==
    [s \in Sides |-> [i \in Levels |->
        live[s][i] + Cardinality({k \in DOMAIN ops : Places(ops[k]) /\ ops[k].side = s /\ ops[k].to = i})
                   - Cardinality({k \in DOMAIN ops : Removes(ops[k]) /\ ops[k].side = s /\ Where(ops[k].at) = i})]]
MoreToSend == Busy /\ batch.pos < Len(batch.ops)
\* A fill that is still to be read names an order the grid will not know at that slot.
Unless(slots) == Picked(unseen, {k \in DOMAIN unseen : unseen[k].at \notin slots})

BroadcastChunk ==
    /\ MoreToSend /\ DeadOps = {}
    /\ live' = BookAfter(NextOps)
    /\ unseen' = Unless({NextOps[k].to : k \in {k \in DOMAIN NextOps : Places(NextOps[k])}})
    /\ batch' = [batch EXCEPT !.pos = @ + Len(NextOps)]
    /\ UNCHANGED <<levelVars, burstVars, failureVars>>

\* The working grid is dropped, what earlier chunks did stays on chain and the creates stay
\* in the journal, those never sent as well.  The burst goes on with the fills of rest.
Abandon(rest, cleared) ==
    LET sent == SubSeq(batch.ops, 1, batch.pos)
        taken == {sent[k].at : k \in {k \in DOMAIN sent : Removes(sent[k])}}
    IN /\ Len(landed) + batch.pos <= MaxLanded
       /\ batch' = NoBatch /\ fills' = rest
       /\ landed' = LandedBut(taken \cup cleared) \o sent
       /\ journal' = journal \cup CreatesIn(batch.ops)
       /\ UNCHANGED <<boundaryIdx, lastFilled, shiftBudget, burstStart, replans, adrift>>

\* An operation names an order that is gone: its slot is cleared, the burst goes on.
StaleOrder ==
    /\ MoreToSend
    /\ \E k \in DeadOps :
         /\ Cleared({NextOps[k].at})
         /\ unseen' = Unless({Where(NextOps[k].at)})
         /\ Abandon(fills, {NextOps[k].at})
    /\ UNCHANGED live

\* Any other refusal throws out of the burst, but for an order of another size than expected.
ChunkFails ==
    /\ MoreToSend /\ UNCHANGED <<type, placed, marketVars>>
    /\ \E rest \in {fills, <<>>} : Abandon(rest, {})

\* validateBoundaryCommit(): a boundary without room for the sell rail is not taken over.
Gated(b) == IF b \in 0 .. Ceiling THEN b ELSE boundaryIdx

\* Mutation: a move does not reach the slot it went to.
OnlyCreates(op, i) == op.kind = "create" /\ op.to = i
Reaches(op, i) == Places(op) /\ op.to = i
Leaves(op, i) == op.kind = "move" /\ op.at = i
\* processBatchResults(): a slot is what the last operation on it made it; the slot of a
\* cancel keeps what the working grid says.
Settled(w, ops) ==
    LET reached(i) == {k \in DOMAIN ops : Reaches(ops[k], i)}
        left(i) == {k \in DOMAIN ops : Leaves(ops[k], i)}
    IN [type   |-> [i \in Levels |-> IF reached(i) = {} THEN w.type[i] ELSE ops[Max(reached(i))].side],
        placed |-> [i \in Levels |->
            IF reached(i) \cup left(i) = {} THEN w.placed[i]
            ELSE IF Max(reached(i) \cup left(i)) \in left(i) THEN "no" ELSE "whole"]]
Install(w, b) ==
    /\ type' = w.type /\ placed' = w.placed
    /\ boundaryIdx' = Gated(b)

CommitBatch ==
    /\ Busy /\ ~MoreToSend
    /\ Install(Settled(batch, batch.ops), batch.target)
    /\ burstStart' = IF batch.chunk = <<>> THEN Gated(batch.target) ELSE burstStart
    /\ batch' = NoBatch /\ journal' = {}
    /\ landed' = LandedBut({batch.ops[k].at : k \in DOMAIN batch.ops} \cup {batch.ops[k].to : k \in DOMAIN batch.ops})
    /\ UNCHANGED <<marketVars, fills, lastFilled, shiftBudget, replans, adrift>>

-----------------------------------------------------------------------------
\* A read of the open orders.  Orders the grid misses are fills; a moved order goes back to
\* its slot, since a price correction knows it by its id, unless an order of the other side is
\* in the way; what the grid does not know is adopted where its slot is free.
InTheWay(m) ==
    \E i \in Levels : placed[i] # "no" /\ ~Gone(i) /\ type[i] # m.side /\ Beyond(m.side, m.at, i)
MovedAway == {m \in {landed[k] : k \in DOMAIN landed} : m.kind = "move" /\ live[m.side][m.to] > 0}
Back == {m \in MovedAway : ~InTheWay(m)}
Corrected == [s \in Sides |-> [i \in Levels |->
    live[s][i] + Cardinality({m \in Back : m.side = s /\ m.at = i})
               - Cardinality({m \in Back : m.side = s /\ m.to = i})]]
Missing == {i \in Levels : placed[i] # "no" /\ Gone(i)}
Adoptable(s, i) ==
    /\ Corrected[s][i] > 0 /\ (placed[i] = "no" \/ i \in Missing)
    /\ ~\E m \in MovedAway \ Back : m.side = s /\ m.to = i
\* The moved orders that could not go back, and the new ones that were not adopted.
Remains(m) ==
    IF m.kind = "create" THEN live[m.side][m.to] > 0 /\ ~Adoptable(m.side, m.to)
    ELSE m \in MovedAway \ Back
OpenOrdersSync ==
    /\ ~Busy /\ fills = <<>>
    /\ live' = Corrected
    /\ type' = [i \in Levels |->
           IF Adoptable("buy", i) THEN "buy" ELSE IF Adoptable("sell", i) THEN "sell"
           ELSE IF i \in Missing THEN "spread" ELSE type[i]]
    /\ placed' = [i \in Levels |->
           IF \E s \in Sides : Adoptable(s, i) THEN "whole"
           ELSE IF i \in Missing THEN "no" ELSE placed[i]]
    /\ StartBurst([k \in 1 .. Cardinality(Missing) |->
           FillOf(type[Rising(Missing)[k]], Rising(Missing)[k])])
    /\ unseen' = <<>>
    /\ landed' = Picked(landed, {k \in DOMAIN landed : Remains(landed[k])})
    /\ UNCHANGED <<boundaryIdx, batch, journal, adrift>>

-----------------------------------------------------------------------------
\* syncBoundaryToFunds(): the boundary the funds ask for, between the typed slots.
Typed(side) == {i \in Levels : type[i] = side}
LowerBound == IF Typed("buy") = {} THEN 0 ELSE 1 + Max(Typed("buy"))
UpperBound == IF Typed("sell") = {} THEN Top ELSE Min(Typed("sell")) - 1
FundBoundary(ideal) ==
    IF LowerBound > UpperBound THEN boundaryIdx ELSE Clamp(LowerBound, ideal, UpperBound)

\* applyGridDivergenceCorrections(): the types follow a boundary that changes, then each side
\* cancels what is not among its first slots and fills those that are empty.
Typing(b) == IF b = boundaryIdx THEN type ELSE Roles(b)
OnChain(side, b) == {i \in Levels : placed[i] # "no" /\ Typing(b)[i] = side}
Desired(side, b) ==
    LET rail == {i \in Levels : Typing(b)[i] = side /\ InRail(side, b, i)}
        ranked == Outward(side, rail)
    IN {ranked[k] : k \in 1 .. AtMost(Window, Len(ranked))}
Excess(side, b) == OnChain(side, b) \ Desired(side, b)
SideActions(side, b) ==
    LET create(i) == CreateAct(side, i)
    IN Each(CancelAct, Rising(Excess(side, b)))
         \o Each(create, Outward(side, Desired(side, b) \ OnChain(side, b)))
\* The side that asked acts first, the buys before the sells.
FundActions(sides, acted, b) ==
    LET of(side) == IF side \in acted THEN SideActions(side, b) ELSE <<>>
    IN Optimize(IF sides = {"sell"} THEN of("sell") \o of("buy") ELSE of("buy") \o of("sell"))
FundGrid(sides, b) ==
    LET out == UNION {Excess(side, b) : side \in sides}
    IN [type   |-> [i \in Levels |-> IF i \in out THEN "spread" ELSE Typing(b)[i]],
        placed |-> [i \in Levels |-> IF i \in out THEN "no" ELSE placed[i]]]

\* A boundary that changes adds the other side behind the one that asked.  Without an action
\* the working grid is committed as it is.
CorrectGrid(sides, b) ==
    LET acted == IF b = boundaryIdx THEN sides ELSE Sides
        actions == FundActions(sides, acted, b)
    IN IF actions = <<>>
       THEN /\ Install(FundGrid(acted, b), b) /\ burstStart' = Gated(b)
            /\ Drifting(adrift > 0 \/ landed # <<>>) /\ UNCHANGED <<batch, journal>>
       ELSE Begin(actions, FundGrid(acted, b), b, <<>>) /\ UNCHANGED <<boundaryIdx, burstStart>>
FundShift ==
    /\ Idle
    /\ \E sides \in (SUBSET Sides) \ {{}}, b \in {FundBoundary(x) : x \in 0 .. Ceiling} :
          CorrectGrid(sides, b)
    /\ UNCHANGED <<marketVars, fills, lastFilled, shiftBudget, replans, landed>>

RebalanceNext ==
    \/ MarketFill \/ PartialFill \/ ConsumeFills \/ PlanChunk \/ PlanAgain
    \/ BroadcastChunk \/ StaleOrder \/ ChunkFails \/ CommitBatch \/ OpenOrdersSync
    \/ FundShift

RebalanceSpec == RebalanceInit /\ [][RebalanceNext]_rebalanceVars
-----------------------------------------------------------------------------
\* At no moment of a broadcast, whatever is filled or refused, nor between a refused chunk and
\* the next plan, nor in the sync that repairs it, is one of the bot's buys at or above one of
\* its sells: it does not trade with itself.  Once it has planned on beside the operations of
\* a failed batch nothing keeps it from doing so.
NoSelfCross ==
    adrift = 0 => \A i \in Levels : live["buy"][i] > 0 => \A j \in Levels : live["sell"][j] > 0 => i < j

\* No level has two orders of the bot, in the same states.
OneOrderPerLevel == adrift = 0 => \A i \in Levels : live["buy"][i] + live["sell"][i] <= 1

\* Between two batches every order on chain is held by its slot, whatever was filled, refused
\* or turned from a move into a create meanwhile, or is one that a failed batch put there and
\* the next sync can tell by its id or adopt, in the same states.
Tracked ==
    ~Busy /\ adrift = 0 =>
        \A s \in Sides, i \in Levels : live[s][i] > 0 =>
            \/ placed[i] # "no" /\ type[i] = s
            \/ \E k \in DOMAIN landed : Places(landed[k]) /\ landed[k].side = s /\ landed[k].to = i

\* The plans of one burst move the boundary no further than the budget of the burst, which
\* every plan that is made again renews.
BurstBounded == Distance(boundaryIdx, burstStart) <= BaseBudget * (1 + replans)

=============================================================================
