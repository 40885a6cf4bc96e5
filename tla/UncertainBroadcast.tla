------------------------- MODULE UncertainBroadcast -------------------------
(***************************************************************************)
(* Create batches whose answer never comes, and the journal of pending     *)
(* broadcasts that is to keep them from being sent twice                   *)
(* (modules/dexbot_cow_runtime.ts: recordPendingBroadcast(),               *)
(* executeWithRetryOnUncertain(), pollChainForConfirmation(),              *)
(* reconcileAfterUncertainBroadcast(), adoptPlacedBatchFromChain(); the    *)
(* open-orders sync of modules/order/sync_engine.ts).                      *)
(*                                                                         *)
(* The chain is the sequence of the slots whose create orders landed, in   *)
(* the order they landed; an order's id is its place in that sequence.  A  *)
(* transaction without an answer stays in flight and lands or expires at   *)
(* any later time (it is valid for 300 s, the bot waits 30 s).  A read     *)
(* fails, is truncated, or shows the live orders up to some id: a node may *)
(* lag, and it is the newest orders it misses.                             *)
(*                                                                         *)
(* One batch runs at a time, and syncs and fills are applied between       *)
(* batches: how batches interleave, and whether a commit is refused, is    *)
(* the matter of CowBatch.  An order stands for its slot: sizes, and       *)
(* batches cut into chunks, are abstracted; Near says which slots' orders  *)
(* findChainOrderForSlot() cannot tell apart.                              *)
(***************************************************************************)
EXTENDS Integers, SequencesExt, FiniteSetsExt

CONSTANTS
    Slots,
    Near,       \* pairs of slots: the first, planned, is matched by the second's order
    MaxOrders   \* bound on the orders sent, landed or in flight

ASSUME BroadcastAssumption ==
    /\ IsFiniteSet(Slots)
    /\ Near \subseteq Slots \X Slots
    /\ MaxOrders \in Nat

VARIABLES
    log,        \* slots of the orders that landed; the id of an order is its index
    filled,     \* ids of the orders that are filled
    inFlight,   \* sets of creates sent and neither landed nor expired
    order,      \* per slot the orderId of the master grid, 0 for none
    pending,    \* _pendingBroadcasts: slots with an entry in the journal
    blocked,    \* _lastUnmatchedChainOrders is not empty
    pc,
    planned,    \* the creates of the batch are actions of its plan
    creates,    \* slots of its create contexts
    placed,     \* ids its broadcast result names
    view,       \* the first read of a reconcile
    misled,     \* history: loose slots whose entry went as reads did not show the order
    exposed     \* history: loose slots whose entry went without one, or in spite of one

chainVars == <<log, filled, inFlight>>
gridVars == <<order, blocked>>
batchVars == <<planned, creates, placed, view>>
history == <<misled, exposed>>
vars == <<chainVars, gridVars, pending, pc, batchVars, history>>

-----------------------------------------------------------------------------
Ids == 1..Len(log)
Live == Ids \ filled
IdsIn(o) == {o[s] : s \in DOMAIN o} \ {0}
Owned == IdsIn(order)
Free == {s \in Slots : order[s] = 0}
Flying == UNION ToSet(inFlight)
OrdersOf(s) == {id \in Live : log[id] = s}

\* Slots with an order that is on the chain, or may yet be, and that the slot
\* of grid o does not hold.
LooseIn(o) == {log[id] : id \in {i \in Live : o[log[i]] # i}} \cup Flying
Loose == LooseIn(order)

\* What a read that is neither failed nor truncated may show.
Views == {{id \in Live : id <= k} : k \in 0..Len(log)}

\* findChainOrderForSlot(): the order of the slot, else one that looks alike.
MatchFor(s, v) ==
    LET exact == {id \in v : log[id] = s}
        near == {id \in v : <<s, log[id]>> \in Near}
    IN  IF exact # {} THEN Min(exact) ELSE IF near # {} THEN Min(near) ELSE 0

Matched(ss, v) == {s \in ss : MatchFor(s, v) # 0}

\* Orders sent so far: the bound MaxOrders is on these.
Sent == Len(log) + FoldSeq(LAMBDA c, n : n + Cardinality(c), 0, inFlight)

\* The operations of a transaction, in some order.
Orderings(ss) == {q \in [1..Cardinality(ss) -> ss] : ToSet(q) = ss}

Init ==
    /\ \E ss \in SUBSET Slots :
          /\ log \in Orderings(ss)
          /\ order = [s \in Slots |-> IF s \in ss THEN CHOOSE id \in 1..Len(log) : log[id] = s
                                                  ELSE 0]
    /\ filled = {} /\ inFlight = <<>>
    /\ pending = {} /\ blocked = FALSE
    /\ pc = "idle" /\ planned = FALSE /\ creates = {} /\ placed = {} /\ view = {}
    /\ misled = {} /\ exposed = {}

Goto(l) == pc' = l
Enter(p, ss) == planned' = p /\ creates' = ss /\ placed' = {} /\ view' = {}

Settle == Goto("idle") /\ Enter(FALSE, {})

\* It ends with its journal kept.  Creates without an entry are on their own.
Defer ==
    /\ Settle
    /\ exposed' = exposed \cup ((creates \ pending) \cap Loose)
    /\ UNCHANGED <<chainVars, gridVars, pending, misled>>

\* The journal is cleared, the grid becomes o, and the last read showed v.
ClearAfter(o, v) ==
    LET left == (pending \cup creates) \cap LooseIn(o)
        seen == {log[id] : id \in v}
    IN  /\ pending' = {}
        /\ order' = o
        /\ misled' = (misled \cap LooseIn(o)) \cup (left \ seen)
        /\ exposed' = (exposed \cap LooseIn(o)) \cup (left \cap seen) \cup (LooseIn(o) \ Loose)

-----------------------------------------------------------------------------
(* Building a batch. *)

\* Mutation: the batch is turned away and nothing follows.
RejectOnly ==
    /\ pc = "idle" /\ Free # {} /\ pending # {}
    /\ UNCHANGED vars

\* A CREATE batch that meets entries of the journal is not built: it leads to
\* a reconcile that has no create contexts.
Reject ==
    /\ pc = "idle" /\ Free # {} /\ pending # {}
    /\ Enter(FALSE, {}) /\ Goto("reconcile")
    /\ UNCHANGED <<chainVars, gridVars, pending, history>>

\* Otherwise each create is journalled as its operation is built; while orders
\* are unmatched the batch is turned away.
BuildPlan ==
    /\ pc = "idle" /\ pending = {} /\ ~blocked
    /\ \E ss \in (SUBSET Free) \ {{}} : Enter(TRUE, ss) /\ pending' = ss
    /\ Goto("built")
    /\ UNCHANGED <<chainVars, gridVars, history>>

\* A batch without creates passes whatever the journal holds.
BuildUpdate ==
    /\ pc = "idle"
    /\ Enter(FALSE, {}) /\ Goto("built")
    /\ UNCHANGED <<chainVars, gridVars, pending, history>>

\* An update whose order is gone is converted to a create for its target slot,
\* behind the guard.
BuildFallback ==
    /\ pc = "idle"
    /\ \E u \in Slots, t \in Slots :
          /\ order[u] \in filled
          /\ t = u \/ t \in Free
          /\ Enter(FALSE, {t})
          /\ pending' = pending \cup {t}
          /\ exposed' = exposed \cup ({t} \cap Loose)
    /\ Goto("built")
    /\ UNCHANGED <<chainVars, gridVars, misled>>

\* Missing funds, a shutdown, an error before anything is sent, or a node that
\* refuses: the entries stay.
NotSent ==
    /\ pc \in {"built", "retry"}
    /\ Defer

\* A stale plan is dropped with the entries of its own creates.
Replan ==
    /\ pc = "built"
    /\ pending' = IF planned THEN pending \ creates ELSE pending
    /\ Settle
    /\ UNCHANGED <<chainVars, gridVars, history>>

-----------------------------------------------------------------------------
(* Sending it: the node answers, or its answer does not come. *)

MaySend == pc \in {"built", "retry"} /\ Sent + Cardinality(creates) <= MaxOrders

SendSucceeds ==
    /\ MaySend
    /\ \E q \in Orderings(creates) : log' = log \o q
    /\ placed' = (Len(log) + 1)..(Len(log) + Cardinality(creates))
    /\ Goto("commit")
    /\ UNCHANGED <<filled, inFlight, gridVars, pending, planned, creates, view, history>>

\* A second attempt is not verified again.
SendUncertain ==
    /\ MaySend
    /\ inFlight' = IF creates = {} THEN inFlight ELSE Append(inFlight, creates)
    /\ Goto(IF pc = "built" THEN "verify" ELSE "poll")
    /\ UNCHANGED <<log, filled, gridVars, pending, batchVars, history>>

\* Groups of creates are sent one by one: the first land, the next one has no
\* answer or is refused, the others are never sent.  No retry and no poll.
SendPartial ==
    /\ MaySend
    /\ \E got \in (SUBSET creates) \ {{}} : \E unknown \in SUBSET (creates \ got) :
          /\ \E q \in Orderings(got) : log' = log \o q
          /\ inFlight' = IF unknown = {} THEN inFlight ELSE Append(inFlight, unknown)
          /\ IF unknown # {} THEN Goto("reconcile") /\ UNCHANGED <<batchVars, exposed>>
             ELSE Settle /\ exposed' = exposed \cup (got \ pending)
    /\ UNCHANGED <<filled, gridVars, pending, misled>>

-----------------------------------------------------------------------------
(* No answer: a read before the batch is sent again. *)

\* A complete read shows none of the creates: their entries are dropped and the
\* batch is sent once more.  Nothing journals it again.
VerifyAbsent ==
    /\ pc = "verify"
    /\ \E v \in Views : v # {} /\ Matched(creates, v) = {}
    /\ pending' = pending \ creates
    /\ misled' = misled \cup (creates \cap Loose)
    /\ Goto("retry")
    /\ UNCHANGED <<chainVars, gridVars, batchVars, exposed>>

\* An operation is found, or the read is empty, truncated or failed.
VerifyDefers ==
    /\ pc = "verify"
    /\ Goto("poll")
    /\ UNCHANGED <<chainVars, gridVars, pending, batchVars, history>>

\* All creates are found within four reads, here one: the grid is committed,
\* unless the commit is refused, and the orders are adopted from the chain.
PollConfirmed ==
    /\ pc = "poll" /\ creates # {}
    /\ \E v \in Views : Matched(creates, v) = creates
    /\ Goto("adopt")
    /\ UNCHANGED <<chainVars, gridVars, pending, batchVars, history>>

PollGivesUp ==
    /\ pc = "poll"
    /\ Goto("reconcile")
    /\ UNCHANGED <<chainVars, gridVars, pending, batchVars, history>>

-----------------------------------------------------------------------------
(* The open-orders sync. *)

\* Slots whose order the read does not show are freed, but for the ids that a
\* commit of the last 20 s found in the grid (keep); then a free slot in the
\* rail of its side takes the first unknown order at its price.
Synced(v, keep, rail) ==
    LET unknown(s) == {id \in v \ Owned : log[id] = s}
    IN  [s \in Slots |->
            IF order[s] \in v \cup keep THEN order[s]
            ELSE IF s \in rail /\ unknown(s) # {} THEN Min(unknown(s)) ELSE 0]

Unmatched(v, o) == v \ IdsIn(o) # {}

\* From the open-orders loop, or from a batch that unmatched orders turn away.
\* An empty read leaves the grid alone, but the third in a row counts.
Sync(v, keep, rail) ==
    /\ pc = "idle"
    /\ \E o \in {Synced(v, keep, rail)} \cup {q \in {order} : v = {}} :
          /\ order' = o
          /\ blocked' = Unmatched(v, o)
          /\ misled' = (misled \cap LooseIn(o)) \cup (LooseIn(o) \ Loose)
          /\ exposed' = exposed \cap LooseIn(o)
    /\ UNCHANGED <<chainVars, pending, pc, batchVars>>

\* The batch's orders are adopted by a sync with the open orders; then the
\* whole journal is cleared.
AdoptWindow ==
    /\ pc = "adopt"
    /\ \E v \in Views \ {{}}, keep \in SUBSET Owned, rail \in SUBSET Slots :
          LET o == Synced(v, keep, rail)
          IN  ClearAfter(o, v) /\ blocked' = Unmatched(v, o)
    /\ Settle
    /\ UNCHANGED chainVars

\* Mutation: the journal goes although the orders could not be adopted.
AdoptFailsCleared ==
    /\ pc \in {"adopt", "byId"}
    /\ Settle /\ pending' = {}
    /\ UNCHANGED <<chainVars, gridVars, history>>

\* The read failed, or was empty or truncated; a placed order was not shown.
AdoptFails ==
    /\ pc \in {"adopt", "byId"}
    /\ Defer

-----------------------------------------------------------------------------
(* An answer: the working grid is committed, or refused. *)

\* The ids the result does not name are looked up; a create that is not found
\* becomes an empty slot.  The whole journal is cleared.
CommitOk ==
    /\ pc = "commit"
    /\ \E missing \in SUBSET creates, v \in Views :
          LET named == {id \in placed : log[id] \notin missing}
              found == [s \in Slots |-> IF s \in missing THEN MatchFor(s, v)
                                        ELSE IF s \in creates THEN 0 ELSE order[s]]
              o == [s \in Slots |-> IF s \in creates \ missing
                                    THEN CHOOSE id \in named : log[id] = s
                                    ELSE IF found[s] \in named THEN 0 ELSE found[s]]
          IN  ClearAfter(o, v)
    /\ Settle
    /\ UNCHANGED <<chainVars, blocked>>

\* The orders the result names are read by their ids, else the window is read.
CommitRefused ==
    /\ pc = "commit"
    /\ \E named \in SUBSET placed :
          placed' = named /\ Goto(IF named = {} THEN "adopt" ELSE "byId")
    /\ UNCHANGED <<chainVars, gridVars, pending, planned, creates, view, history>>

\* All placed orders are there: a sync that is given them and no others (the
\* list of the grid's own ids is always empty); then the journal is cleared.
AdoptById ==
    /\ pc = "byId" /\ placed \subseteq Live
    /\ \E keep \in SUBSET Owned, rail \in SUBSET Slots :
          LET o == Synced(placed, keep, rail)
          IN  ClearAfter(o, placed) /\ blocked' = Unmatched(placed, o)
    /\ Settle
    /\ UNCHANGED chainVars

-----------------------------------------------------------------------------
(* The reconcile. *)

\* The first read fails: the journal is cleared at once.
ReconcileReadFails ==
    /\ pc = "reconcile"
    /\ pending' = {}
    /\ exposed' = exposed \cup ((pending \cup creates) \cap Loose)
    /\ Settle
    /\ UNCHANGED <<chainVars, gridVars, misled>>

\* Mutation: a read that shows nothing, or not all, clears the journal.
ReconcileDefersCleared ==
    /\ pc \in {"reconcile", "reread"} /\ pending # {}
    /\ Settle /\ pending' = {}
    /\ UNCHANGED <<chainVars, gridVars, history>>

\* A read, the first or the second, is empty or truncated, or the second fails.
ReconcileDefers ==
    /\ pc \in {"reconcile", "reread"} /\ pending # {}
    /\ Defer

\* v1 is the first read, v2 the read for the creates it did not show.  A create
\* of this batch that is found is adopted, unless that throws (fail); any other
\* entry that is found is dropped as it is; what is not found gives its slot up.
\* Of two entries with the same match the later (win) takes it.
Decide(v1, v2) ==
    LET late == (pending \ Matched(pending, v1)) \cap creates
        hit == [s \in pending |-> IF s \in late THEN MatchFor(s, v2) ELSE MatchFor(s, v1)]
        hits == {s \in pending : hit[s] # 0}
    IN  \E fail \in SUBSET (hits \cap creates), win \in SUBSET (hits \cap creates) :
          LET adopt == (hits \cap creates) \ fail
              taken == {hit[s] : s \in adopt}
          IN  /\ win \subseteq adopt
              /\ {hit[s] : s \in win} = taken /\ Cardinality(win) = Cardinality(taken)
              /\ ClearAfter([s \in Slots |->
                               IF s \in win THEN hit[s]
                               ELSE IF s \in pending \ hits \/ order[s] \in taken THEN 0
                               ELSE order[s]], v1 \cup v2)
              /\ Settle
              /\ UNCHANGED <<chainVars, blocked>>

ReconcileReads ==
    /\ pc = "reconcile"
    /\ \E v \in Views :
          /\ v # {} \/ pending = {}
          /\ IF (pending \ Matched(pending, v)) \cap creates = {} THEN Decide(v, v)
             ELSE /\ view' = v /\ Goto("reread")
                  /\ UNCHANGED <<chainVars, gridVars, pending, planned, creates, placed, history>>

ReconcileReadsAgain ==
    /\ pc = "reread"
    /\ \E v \in Views \ {{}} : Decide(view, v)

-----------------------------------------------------------------------------
(* The chain, and the fills the bot is told of. *)

Prune == misled' = misled \cap Loose' /\ exposed' = exposed \cap Loose'

Land(i) ==
    /\ \E q \in Orderings(inFlight[i]) : log' = log \o q
    /\ inFlight' = RemoveAt(inFlight, i)
    /\ UNCHANGED <<filled, gridVars, pending, pc, batchVars, history>>

Expire(i) ==
    /\ inFlight' = RemoveAt(inFlight, i)
    /\ UNCHANGED <<log, filled, gridVars, pending, pc, batchVars>>
    /\ Prune

FillOnChain(id) ==
    /\ filled' = filled \cup {id}
    /\ UNCHANGED <<log, inFlight, gridVars, pending, pc, batchVars>>
    /\ Prune

FillSeen(s) ==
    /\ pc = "idle" /\ order[s] \in filled
    /\ order' = [order EXCEPT ![s] = 0]
    /\ UNCHANGED <<chainVars, blocked, pending, pc, batchVars, history>>

-----------------------------------------------------------------------------
BatchStep ==
    \/ NotSent \/ Replan \/ SendSucceeds \/ SendUncertain \/ SendPartial
    \/ VerifyAbsent \/ VerifyDefers \/ PollConfirmed \/ PollGivesUp
    \/ CommitOk \/ CommitRefused \/ AdoptById \/ AdoptWindow \/ AdoptFails
    \/ ReconcileReadFails \/ ReconcileDefers \/ ReconcileReads \/ ReconcileReadsAgain

Next ==
    \/ Reject \/ BuildPlan \/ BuildUpdate \/ BuildFallback
    \/ BatchStep
    \/ \E v \in Views, keep \in SUBSET Owned, rail \in SUBSET Slots : Sync(v, keep, rail)
    \/ \E i \in DOMAIN inFlight : Land(i) \/ Expire(i)
    \/ \E id \in Live : FillOnChain(id)
    \/ \E s \in Slots : FillSeen(s)

\* A batch runs on; batches with creates are planned again and again while
\* slots are free, and not every read of a reconcile fails.
Fairness ==
    /\ WF_vars(BatchStep) /\ SF_vars(Reject)
    /\ SF_vars(ReconcileReads) /\ SF_vars(ReconcileReadsAgain)

Spec == Init /\ [][Next]_vars
LiveSpec == Spec /\ Fairness

-----------------------------------------------------------------------------
TypeOK ==
    /\ log \in Seq(Slots)
    /\ filled \subseteq Ids /\ placed \subseteq Ids
    /\ view \subseteq Ids
    /\ inFlight \in Seq(SUBSET Slots)
    /\ order \in [Slots -> 0..Len(log)]
    /\ pending \subseteq Slots /\ creates \subseteq Slots
    /\ misled \subseteq Slots /\ exposed \subseteq Slots
    /\ blocked \in BOOLEAN /\ planned \in BOOLEAN
    /\ pc \in {"idle", "built", "verify", "retry", "poll", "commit", "byId", "adopt",
               "reconcile", "reread"}

\* An order that is or may get on the chain without its slot holding it stays in
\* the journal until a complete read was looked at or one of the named holes of
\* the code gave it up: no deferral, replan or failed adoption loses it.
ProtectedUntilDecided ==
    Loose \subseteq pending \cup misled \cup exposed \cup creates

\* Two orders of one slot are live only where an entry went too early.
NoSecondOrder ==
    \A s \in Slots : Cardinality(OrdersOf(s)) > 1 => s \in misled \cup exposed

\* With reads that sometimes succeed, the journal empties again and again while
\* there is an order to be read and a slot to be filled.
JournalDrains == <>[](Live # {} /\ Free # {}) => []<>(pending = {})

=============================================================================
