----------------------------- MODULE ChainSync ------------------------------
(***************************************************************************)
(* The grid against the chain (modules/order/sync_engine.ts): the          *)
(* reconciliation with a read of the open orders, the handling of fill     *)
(* events, the queue of corrections and the commit of a batch, for a grid  *)
(* whose price levels are frozen (manager._genesis).                       *)
(*                                                                         *)
(* All of them run inside _fillProcessingLock, one after the other; the    *)
(* chain fills orders at any time between two of their steps.  A price is  *)
(* the index of its level, a size a number of units with a value on the    *)
(* other side.                                                             *)
(***************************************************************************)
EXTENDS Integers, Sequences, FiniteSets

CONSTANTS
    Slots,         \* number of slots, the indices are 0 .. Slots-1
    Gap,           \* slots of the spread gap
    Orders,        \* chain ids
    MaxSize,       \* planned size of an order
    MaxShift,      \* cap of a boundary move
    EmptyLimit,    \* SYNC_SUSPECT_EMPTY_READ_LIMIT
    MaxEvents      \* bound on the fill events under way

None == "none"

ASSUME ChainSyncAssumption ==
    /\ None \notin Orders
    /\ Slots \in Nat /\ Gap \in Nat /\ Slots > Gap /\ MaxShift \in Nat
    /\ MaxSize \in Nat \ {0} /\ EmptyLimit \in Nat \ {0} /\ MaxEvents \in Nat

VARIABLES
    slot,        \* manager.orders
    boundary,    \* manager.boundaryIdx
    chain,       \* the orders of the account on the chain
    events,      \* fill events on their way to the bot
    suspect,     \* _suspectEmptyReads.count
    committed,   \* _committedOrderIds
    unmatched,   \* _lastUnmatchedChainOrders
    queue,       \* ordersNeedingPriceCorrection, by chain id
    residual     \* residualCancels

grid == <<slot, boundary>>
network == <<chain, events>>
guards == <<suspect, committed>>
vars == <<grid, network, guards, unmatched, queue, residual>>

Index == 0 .. Slots - 1
Boundaries == 0 .. Slots - Gap - 1
NoOrder == [level |-> 0, side |-> None, left |-> 0, new |-> TRUE]
Dead == [NoOrder EXCEPT !.side = "over"]
NoEntry == -2
CancelOnly == -1

Live(book, o) == book[o].left > 0
Born(o) == chain[o].side # None

\* getSellStartIdx() and isSlotInRail()
InRail(b, side, s) == IF side = "buy" THEN s <= b ELSE s >= b + Gap + 1
RailOf(b, s) ==
    IF InRail(b, "buy", s) THEN "buy" ELSE IF InRail(b, "sell", s) THEN "sell" ELSE "spread"

\* convertToSpreadPlaceholder(): also drops the size and the raw order
Placeholder == [type |-> "spread", state |-> "virtual", oid |-> None, size |-> 0, raw |-> -1]

\* isOrderPlaced()
Placed(q) == q.state \in {"active", "partial"} /\ q.oid # None

\* validateOrder(): a spread slot with an order on the chain is refused (ILLEGAL_SPREAD_STATE)
Applied(old, new) == IF new.type = "spread" /\ new.state # "virtual" THEN old ELSE new

Init ==
    /\ boundary \in Boundaries
    /\ slot = [s \in Index |-> [Placeholder EXCEPT !.type = RailOf(boundary, s)]]
    /\ chain = [o \in Orders |-> NoOrder] /\ events = <<>>
    /\ suspect = 0 /\ committed = {}
    /\ unmatched = {} /\ queue = [o \in Orders |-> NoEntry] /\ residual = {}

-----------------------------------------------------------------------------
\* The chain and its node, modelled from how the bot uses them.
\* Someone takes n units of an order; an order without any left is removed.
ChainFill(o, n) ==
    /\ Live(chain, o) /\ n \in 1 .. chain[o].left /\ Len(events) < MaxEvents
    /\ chain' = [chain EXCEPT ![o] = IF chain[o].left = n THEN Dead
                                     ELSE [chain[o] EXCEPT !.left = @ - n, !.new = FALSE]]
    /\ events' = Append(events, [oid |-> o, amount |-> n])
    /\ UNCHANGED <<grid, guards, unmatched, queue, residual>>

\* A create of the bot whose answer was lost lands on its level after all.
Land(o, s, side) ==
    /\ ~Born(o) /\ InRail(boundary, side, s)
    /\ chain' = [chain EXCEPT ![o] = [level |-> s, side |-> side, left |-> MaxSize, new |-> TRUE]]
    /\ UNCHANGED <<grid, events, guards, unmatched, queue, residual>>

\* A gap in the subscription: the oldest event never comes.
LoseEvent ==
    /\ events # <<>> /\ events' = Tail(events)
    /\ UNCHANGED <<grid, chain, guards, unmatched, queue, residual>>

\* readOpenOrders(): the orders of the chain, or an empty answer that is wrong.
Nothing == [o \in Orders |-> NoOrder]
Books == {chain, Nothing}

-----------------------------------------------------------------------------
\* Mutation: a twin on any level will do.
TwinAnyLevel(book, s) == {o \in Orders :
    /\ o # slot[s].oid /\ Live(book, o)
    /\ book[o].side = book[slot[s].oid].side
    /\ slot[s].size > 0 /\ book[o].left = slot[s].size}

\* Pass 1 of _performSyncFromOpenOrders(): one slot against the read.
\* An order of the same level and side whose size is the booked one: the slot was
\* bound to a duplicate.
Twin(book, s) == {o \in Orders :
    /\ o # slot[s].oid /\ Live(book, o)
    /\ o \notin {slot[t].oid : t \in {t \in Index : t < s}}
    /\ book[o].level = s /\ book[o].side = book[slot[s].oid].side
    /\ slot[s].size > 0 /\ book[o].left = slot[s].size}

OnRead(book, s) == slot[s].oid # None /\ Live(book, slot[s].oid)
Mismatched(book, s) == OnRead(book, s) /\ slot[s].type # book[slot[s].oid].side
Resized(book, s) == OnRead(book, s) /\ ~Mismatched(book, s) /\ book[slot[s].oid].left # slot[s].size

\* The grid holds an order the read does not: unless a young commit protects it, it is gone.
Gone(book, s, young) ==
    /\ ~OnRead(book, s) /\ slot[s].state \in {"active", "partial"}
    /\ ~(young /\ slot[s].oid \in committed /\ ~(slot[s].size = 0 /\ slot[s].state = "partial"))

\* The rebound slot of the size tiebreak; a deferred fee of 0 tells a partial fill.
Rebound(book, s, o) == [slot[s] EXCEPT
    !.oid = o, !.raw = book[o].left,
    !.state = IF book[o].new THEN @ ELSE "partial"]

\* The slot that takes over the size the chain shows.
Adjusted(book, s) ==
    LET left == book[slot[s].oid].left IN
    [slot[s] EXCEPT !.size = left, !.raw = left,
                    !.state = IF left < slot[s].size THEN "partial" ELSE @]

\* The loops take the orders of a level in the order of the read: pick[S] is the first of S.
Groups(book) == {S \in (SUBSET {o \in Orders : Live(book, o)}) \ {{}} :
                    \A o, p \in S : book[o].level = book[p].level}
Picks(book) == {f \in [Groups(book) -> Orders] : \A S \in DOMAIN f : f[S] \in S}

Pass1(book, pick, young) == [s \in Index |->
    IF Gone(book, s, young) THEN Placeholder
    ELSE IF ~Resized(book, s) THEN slot[s]
    ELSE IF Twin(book, s) # {} THEN Rebound(book, s, pick[Twin(book, s)]) ELSE Adjusted(book, s)]

-----------------------------------------------------------------------------
\* Pass 2: the orders of the read that no slot of g holds, level by level.
Rest(book, g) == {o \in Orders : Live(book, o)} \ {g[s].oid : s \in Index}
Duplicate(book, g, o) == Placed(g[book[o].level]) /\ g[book[o].level].type = book[o].side
Stray(book, o) == ~InRail(boundary, book[o].side, book[o].level)

\* Orders of the rest that their slot may adopt.
Adoptable(book, g, rest, s) == {o \in rest :
    /\ book[o].level = s /\ ~Duplicate(book, g, o) /\ ~Stray(book, o)
    /\ g[s].oid = None /\ g[s].type \in {book[o].side, "spread"}}

\* adoptChainOrderIntoSlot(): the type of the slot is kept.
Adopt(book, q, o) == Applied(q, [q EXCEPT
    !.oid = o, !.size = book[o].left, !.raw = book[o].left,
    !.state = IF book[o].new \/ book[o].left > q.size THEN "active" ELSE "partial"])

Pass2(book, g, rest, pick) == [s \in Index |->
    LET these == Adoptable(book, g, rest, s)
    IN IF these = {} THEN g[s] ELSE Adopt(book, g[s], pick[these])]

\* Orders that stay without a slot, and those of them that are queued to be cancelled.
Unmatched(book, g, rest, pick) ==
    rest \ {pick[these] : these \in {Adoptable(book, g, rest, s) : s \in Index} \ {{}}}
Surplus(book, h, left) == {o \in left : Duplicate(book, h, o) \/ Stray(book, o)}

\* Mutation: only the orders without a slot are queued.
QueuedSurplus(book, h, left) == [o \in Orders |->
    IF o \in Surplus(book, h, left) THEN CancelOnly ELSE queue[o]]

\* queueCorrection(): entries for one order are merged and stay cancel-only.
Queued(book, h, left) == [o \in Orders |->
    IF o \in Surplus(book, h, left) THEN CancelOnly
    ELSE IF \E s \in Index : Mismatched(book, s) /\ slot[s].oid = o
         THEN IF queue[o] = CancelOnly THEN CancelOnly
              ELSE CHOOSE s \in Index : Mismatched(book, s) /\ slot[s].oid = o
    ELSE queue[o]]

Holds(s) == slot[s].oid # None

\* Mutation: the limit is reached one read too early.
SuspectLess(book) ==
    /\ \A o \in Orders : ~Live(book, o)
    /\ \E s \in Index : Holds(s)
    /\ suspect + 2 < EmptyLimit

\* The guard on an empty read: the first ones are refused while the grid holds orders.
Suspect(book) ==
    /\ \A o \in Orders : ~Live(book, o)
    /\ \E s \in Index : Holds(s)
    /\ suspect + 1 < EmptyLimit

RefuseEmpty ==
    /\ \E book \in Books : Suspect(book)
    /\ suspect' = suspect + 1 /\ unmatched' = {}
    /\ UNCHANGED <<grid, network, committed, queue, residual>>

\* syncFromOpenOrders() with a read made under the lock; young: the last commit is younger
\* than SYNC_LOCK_TIMEOUT_MS, which matters to a committed order the read does not have.
Sync(book, young, pick) ==
    /\ young => \E s \in Index : ~OnRead(book, s) /\ slot[s].oid \in committed
    /\ ~Suspect(book) /\ suspect' = 0
    /\ UNCHANGED <<boundary, network, committed, residual>>
    /\ LET g == Pass1(book, pick, young)
           rest == Rest(book, g)
           h == Pass2(book, g, rest, pick)
           left == Unmatched(book, g, rest, pick) IN
        /\ slot' = h
        /\ unmatched' = left
        /\ queue' = Queued(book, h, left)

-----------------------------------------------------------------------------
\* syncFromFillHistoryBatch() with the k oldest events, which the record of
\* processed fills has not seen.
Batch(k) == {events[i].oid : i \in 1 .. k}

Amount(k, o) ==
    LET Sum[i \in 0 .. k] == IF i = 0 THEN 0
                             ELSE Sum[i-1] + IF events[i].oid = o THEN events[i].amount ELSE 0
    IN Sum[k]

Max0(n) == IF n > 0 THEN n ELSE 0

\* _findMatchingGridOrder()
Matched(k) == {s \in Index : Placed(slot[s]) /\ slot[s].oid \in Batch(k)}

\* The size a fill is taken from: the raw order when there is one, read again when it
\* is below the booked size (driftSignal), unless that read fails.
Drifts(s) == slot[s].raw # -1 /\ slot[s].raw < slot[s].size
Baseline(s, answers) ==
    IF slot[s].raw = -1 THEN slot[s].size
    ELSE IF Drifts(s) /\ answers THEN chain[slot[s].oid].left ELSE slot[s].raw

\* _computeFillTransitionResult(): what is left, and whether the slot counts as filled.
Remains(s, k, answers) == Max0(Baseline(s, answers) - Amount(k, slot[s].oid))
Full(s, k, answers) ==
    \/ Drifts(s) /\ answers /\ ~Live(chain, slot[s].oid)
    \/ slot[s].size = 0
    \/ Remains(s, k, answers) = 0

\* Slots that count as filled although the chain still shows a rest of their order.
Leftover(s, k, answers) ==
    /\ Full(s, k, answers) /\ slot[s].size > 0
    /\ answers /\ Live(chain, slot[s].oid)

AfterFill(s, k, answers) ==
    IF Full(s, k, answers) THEN Placeholder
    ELSE [slot[s] EXCEPT !.state = "partial", !.size = Remains(s, k, answers),
                         !.raw = IF @ = -1 THEN @ ELSE Remains(s, k, answers)]

HandleFills(k, answers) ==
    /\ k \in 1 .. Len(events)
    /\ slot' = [s \in Index |-> IF s \in Matched(k) THEN AfterFill(s, k, answers) ELSE slot[s]]
    /\ residual' = residual \cup {slot[s].oid : s \in {s \in Matched(k) : Leftover(s, k, answers)}}
    /\ events' = SubSeq(events, k + 1, Len(events))
    /\ UNCHANGED <<boundary, chain, guards, unmatched, queue>>

-----------------------------------------------------------------------------
\* Cancels by the bot.
Removed(o) == chain' = [chain EXCEPT ![o] = Dead]

\* cancelResidualOrders(): tried once.
CancelResidual(o, done) ==
    /\ o \in residual /\ residual' = residual \ {o}
    /\ IF done THEN Removed(o) ELSE UNCHANGED chain
    /\ UNCHANGED <<grid, events, guards, unmatched, queue>>

\* correctAllPriceMismatches(): the order is cancelled or found gone, and its entry dropped.
\* An entry for the wrong side clears the slot it was queued for, whatever that holds by
\* now: after a cancel always, for a gone order only when several entries go out together
\* (_resolveCancelledCorrection).  A failed cancel leaves the entry to the next drain.
Correct(o, batched) ==
    /\ queue[o] # NoEntry
    /\ batched => \E p \in Orders \ {o} : queue[p] # NoEntry
    /\ Removed(o)
    /\ queue' = [queue EXCEPT ![o] = NoEntry]
    /\ unmatched' = unmatched \ {o}
    /\ slot' = IF queue[o] = CancelOnly \/ ~(Live(chain, o) \/ batched) THEN slot
               ELSE [slot EXCEPT ![queue[o]] = Placeholder]
    /\ UNCHANGED <<boundary, events, guards, residual>>

-----------------------------------------------------------------------------
\* assignGridRoles() with assignOnChain: only a placed order keeps its side in the gap.
Retyped(q, b, s) ==
    IF RailOf(b, s) = "spread" /\ Placed(q) THEN q ELSE [q EXCEPT !.type = RailOf(b, s)]

\* deriveTargetBoundary(): the fills of the cycle move the boundary by MaxShift slots at most.
Targets == {b \in Boundaries : b - boundary \in -MaxShift .. MaxShift}

\* A batch plans with the reported fills, places at most one order and commits; a create
\* waits until no order of the chain is unmatched.  The corrections drained before it are
\* steps of Correct; a drain that fails leaves its entries and stops no batch.
\* _committedOrderIds is rebuilt from the grid before synchronizeWithChain('createOrder')
\* stamps the new id.
Commit(creates) ==
    /\ boundary' \in Targets
    /\ LET g == [s \in Index |-> Retyped(slot[s], boundary', s)] IN
       IF creates = {} THEN slot' = g /\ UNCHANGED chain
       ELSE unmatched = {} /\ \E s \in Index, o \in creates :
             /\ ~Born(o)
             /\ g[s].type # "spread" /\ g[s].oid = None
             /\ slot' = [g EXCEPT ![s] = [@ EXCEPT !.state = "active", !.oid = o, !.size = MaxSize]]
             /\ chain' = [chain EXCEPT ![o] =
                   [level |-> s, side |-> g[s].type, left |-> MaxSize, new |-> TRUE]]
    /\ committed' = {slot[s].oid : s \in Index} \ {None}
    /\ UNCHANGED <<events, suspect, unmatched, queue, residual>>

-----------------------------------------------------------------------------
Chain ==
    \/ \E o \in Orders : \E n \in 1 .. MaxSize : ChainFill(o, n)
    \/ \E o \in Orders, s \in Index, side \in {"buy", "sell"} : Land(o, s, side)
    \/ LoseEvent

Bot ==
    \/ RefuseEmpty
    \/ \E book \in Books : \E pick \in Picks(book), young \in BOOLEAN : Sync(book, young, pick)
    \/ \E k \in 1 .. MaxEvents, answers \in BOOLEAN : HandleFills(k, answers)
    \/ \E o \in Orders, done \in BOOLEAN : CancelResidual(o, done)
    \/ \E o \in Orders, batched \in BOOLEAN : Correct(o, batched)
    \/ \E creates \in {{}} \cup {{o} : o \in Orders} : Commit(creates)

Next == Chain \/ Bot

Spec == Init /\ [][Next]_vars

-----------------------------------------------------------------------------
\* No chain order is bound to two slots, whatever is adopted, rebound and placed.
OneSlotPerOrder == \A s, t \in Index : slot[s].oid # None /\ slot[s].oid = slot[t].oid => s = t

\* Reads that come back empty, lost and late events, boundary moves and failed drains never
\* take an order away from its slot while the chain has it and nobody has filled any of it,
\* but in two ways: EmptyLimit empty reads in a row are believed, and a correction that was
\* queued for another order clears the slot the order has come to since.
Believed == ~(suspect + 1 < EmptyLimit) /\ suspect' = 0
Overtaken(s, o) == \E p \in Orders \ {o} : queue[p] = s /\ queue'[p] = NoEntry
LiveOrdersKeepTheirSlot == [][\A s \in Index : \A o \in Orders :
    slot[s].oid = o /\ Live(chain', o) /\ chain'[o].new /\ slot'[s].oid = None
        => Believed \/ Overtaken(s, o)]_vars

\* A true read after the commit window leaves every slot with the size the chain shows or
\* queued for correction, and every order of the chain held, listed as unmatched, or on
\* a level of the gap.
Agrees(s) == slot[s].oid # None =>
    \/ Live(chain, slot[s].oid) /\ chain[slot[s].oid].left = slot[s].size
    \/ queue[slot[s].oid] # NoEntry
Accounted(o) == Live(chain, o) =>
    \/ o \in unmatched
    \/ \E s \in Index : slot[s].oid = o
    \/ slot[chain[o].level].type = "spread"
InAccord == (\A s \in Index : Agrees(s)) /\ (\A o \in Orders : Accounted(o))

SyncSettles == [][~InAccord' => ~\E pick \in Picks(chain) : Sync(chain, FALSE, pick)]_vars

=============================================================================
