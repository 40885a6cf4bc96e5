---------------------------- MODULE CreditRuntime ----------------------------
(***************************************************************************)
(* The renewal of credit deals (modules/credit_runtime.ts).  A pass of the *)
(* watchdog refreshes its view of the chain, splits the deals that are too *)
(* large, repays the deals about to expire and borrows the same amount     *)
(* again, then works off the reborrows that earlier passes put off.        *)
(*                                                                         *)
(* A renewal is one transaction [repay, accept] when an offer takes it;    *)
(* otherwise the debt is repaid and the reborrow becomes a request, kept   *)
(* in the state file.  The process can die, and the answer of a broadcast  *)
(* can be lost, at every await.                                            *)
(***************************************************************************)
EXTENDS Naturals, Sequences, FiniteSets, FiniteSetsExt, Functions

CONSTANTS
    Offers,       \* credit offers
    Kinds,        \* the configurations of the lending item
    Loans,        \* the deals that exist at the start
    MaxId,        \* bound on deal ids
    MaxMishaps,   \* bound on crashes, shutdowns in a pass and lost answers
    MaxRefusals,  \* bound on broadcasts the chain refuses
    NoDeals       \* a cache that holds nothing

\* The ids the chain gives are consecutive; the loans are the first.
ASSUME CreditAssumption ==
    /\ MaxId \in Nat
    /\ IsFiniteSet(Loans) /\ Loans = 1 .. Cardinality(Loans) /\ Cardinality(Loans) <= MaxId
    /\ {"none", "later"} \cap Offers = {}
    /\ Kinds \subseteq {"plain", "renew", "limit", "repay", "percent"}
    /\ MaxMishaps \in Nat /\ MaxRefusals \in Nat

VARIABLES
    policy,    \* the lending item of the bot's debt policy
    deals,     \* on the chain: id |-> [offer, debt, root], root the loan it goes back to
    top,       \* the last id given
    open,      \* offers that accept a borrow now
    queue,     \* state.pendingReborrows
    saved,     \* the same in the state file
    known,     \* positions[..].creditDeals: the deals of the last refresh
    cache,     \* _borrowerDealsCache
    pc,        \* where the pass is
    todo,      \* deals the loop of a phase has not looked at
    hand,      \* the renewal under way: a singleton, or empty
    view,      \* onChainDeals of processPendingReborrows()
    rest,      \* requests its loop has not looked at
    nextQueue, \* those that stay
    strayed,   \* history: the loans for which a request was served from another offer
    mishaps, refusals

chainVars == <<deals, top>>
fileVars == <<queue, saved>>
viewVars == <<known, cache>>
loopVars == <<view, rest, nextQueue>>
boundVars == <<mishaps, refusals>>
creditVars == <<policy, chainVars, open, fileVars, viewVars, pc, todo, hand, loopVars, strayed, boundVars>>

\* The loan 1 is twice the per-operation limit.
Lent(r) == IF r = 1 THEN 2 ELSE 1

\* A plain policy; one that only renews; one that limits what an operation borrows; one
\* that does not reborrow; one whose cap is a percentage of the collateral.
Plain == [renewOnly |-> FALSE, limit |-> 0, reborrow |-> TRUE, percent |-> FALSE]
Policy(kind) ==
    CASE kind = "plain"   -> Plain
      [] kind = "renew"   -> [Plain EXCEPT !.renewOnly = TRUE]
      [] kind = "limit"   -> [Plain EXCEPT !.limit = 1]
      [] kind = "repay"   -> [Plain EXCEPT !.reborrow = FALSE]
      [] kind = "percent" -> [Plain EXCEPT !.percent = TRUE]

CreditInit ==
    /\ \E kind \in Kinds : policy = Policy(kind)
    /\ \E f \in [Loans -> Offers] :
          deals = [i \in Loans |-> [offer |-> f[i], debt |-> Lent(i), root |-> i]]
    /\ top = Cardinality(Loans) /\ open = Offers
    /\ queue = <<>> /\ saved = <<>> /\ known = << >> /\ cache = NoDeals
    /\ pc = "idle" /\ todo = {} /\ hand = {}
    /\ view = << >> /\ rest = <<>> /\ nextQueue = <<>> /\ strayed = {}
    /\ mishaps = 0 /\ refusals = 0

-----------------------------------------------------------------------------
\* The chain.
Repaid(ds, i, amount) ==
    IF ds[i].debt = amount THEN Restrict(ds, DOMAIN ds \ {i})
    ELSE [ds EXCEPT ![i].debt = @ - amount]
Lend(ds, o, amount, r) ==
    [i \in DOMAIN ds \cup {top + 1} |->
        IF i = top + 1 THEN [offer |-> o, debt |-> amount, root |-> r] ELSE ds[i]]

Room == top < MaxId
Refuse == refusals < MaxRefusals /\ refusals' = refusals + 1
Mishap == mishaps < MaxMishaps /\ mishaps' = mishaps + 1

\* The chain takes a borrow from o; the build refuses an offer that is not open.
Takes(o) == o \in open /\ Room

\* The offers open to whoever looks for another than o, under any policy.
Others(o) == open \ {o}

\* _fetchBorrowerDeals(): the cache, filled by the first who asks.
Fetched == IF cache = NoDeals THEN deals ELSE cache

\* refreshState(): the view is new, the cache is empty, the queue is in the file.
\* (The chain is read after what the action does to it.)
Refresh == known' = deals' /\ cache' = NoDeals /\ saved' = queue'

\* The build of an accept operation: a cap in percent reads the borrower's deals.
Build(tried) ==
    cache' = IF policy.percent /\ tried THEN Fetched ELSE cache

-----------------------------------------------------------------------------
\* runMaintenance() and runCreditWatchdog().
StartPass ==
    /\ pc = "idle"
    /\ UNCHANGED <<chainVars, queue>> /\ Refresh
    /\ pc' = "mpa"
    /\ UNCHANGED <<policy, strayed, open, todo, hand, loopVars, boundVars>>

\* _runMpaMaintenance() of an item ahead of the credit item: an update that fails for
\* another reason than the debt balance ends the pass.
Mpa ==
    /\ pc = "mpa"
    /\ \/ /\ pc' = "split"
          /\ todo' = IF policy.limit = 0 THEN {} ELSE {i \in DOMAIN known : known[i].debt > policy.limit}
          /\ UNCHANGED refusals
       \/ pc' = "idle" /\ Refuse /\ UNCHANGED todo
    /\ UNCHANGED <<policy, strayed, chainVars, open, fileVars, viewVars, hand, loopVars, mishaps>>

\* repayCreditDeal() up to its broadcast: the operations are built.  The reborrow is
\* inline when the deal's offer, or another, takes it; put off otherwise.
Renew(i, amount, phase) ==
    /\ \E via \in (IF ~policy.reborrow THEN {"none"}
                   ELSE IF known[i].offer \in open THEN {known[i].offer}
                   ELSE IF Others(known[i].offer) # {} THEN Others(known[i].offer)
                   ELSE {"later"}) :
          hand' = {[source |-> i, offer |-> known[i].offer, amount |-> amount, root |-> known[i].root,
                    via |-> via, phase |-> phase, paid |-> FALSE]}
    /\ Build(policy.reborrow)
    /\ todo' = todo \ {i} /\ pc' = "broadcast"
    /\ UNCHANGED <<policy, strayed, chainVars, open, fileVars, known, loopVars, boundVars>>

\* _doSplitOversizedCreditDeals(): a piece of the deal, which keeps the rest.
SplitPiece ==
    /\ pc = "split" /\ todo # {}
    /\ Renew(Min(todo), policy.limit, "split")

\* Its end reads the deals once more, and leaves them in the cache.
SplitEnd ==
    /\ pc = "split" /\ todo = {}
    /\ pc' = "renew"
    /\ IF policy.limit = 0 THEN UNCHANGED viewVars ELSE known' = Fetched /\ cache' = Fetched
    /\ todo' = DOMAIN known'
    /\ UNCHANGED <<policy, strayed, chainVars, open, fileVars, hand, loopVars, boundVars>>

\* _runCreditMaintenance(), phase 1: a deal that is about to expire, or is not, or that
\* the refresh of a renewal before it no longer holds.  A bound: what is borrowed here
\* does not come up for renewal again.
RenewDeal ==
    /\ pc = "renew" /\ todo # {}
    /\ LET i == Min(todo) IN i \in DOMAIN known /\ i \in Loans /\ Renew(i, known[i].debt, "renew")
SkipDeal ==
    /\ pc = "renew" /\ todo # {}
    /\ todo' = todo \ {Min(todo)}
    /\ UNCHANGED <<policy, strayed, chainVars, open, fileVars, viewVars, pc, hand, loopVars, boundVars>>

\* The transaction of a renewal: the chain takes it whole or not at all.
Fits(h) ==
    /\ h.source \in DOMAIN deals /\ h.amount <= deals[h.source].debt
    /\ h.via \in Offers => Takes(h.via)
Execute(h) ==
    LET paid == Repaid(deals, h.source, h.amount)
    IN  IF h.via \in Offers
        THEN deals' = Lend(paid, h.via, h.amount, h.root) /\ top' = top + 1
        ELSE deals' = paid /\ top' = top

Broadcast(h) ==
    /\ pc = "broadcast" /\ h \in hand /\ Fits(h) /\ Execute(h)
    /\ hand' = {[h EXCEPT !.paid = TRUE]} /\ pc' = "read"
    /\ UNCHANGED <<policy, strayed, open, fileVars, viewVars, todo, loopVars, boundVars>>

\* A failure, of the chain or of the answer alone, is caught by the phase: it ends the
\* split, and the loop over the expiring deals goes on with the next.
BroadcastFails(h) ==
    /\ pc = "broadcast" /\ h \in hand
    /\ \/ Fits(h) /\ Execute(h) /\ Mishap /\ UNCHANGED refusals
       \/ Fits(h) /\ Refuse /\ UNCHANGED <<chainVars, mishaps>>
       \/ ~Fits(h) /\ UNCHANGED <<chainVars, boundVars>>
    /\ hand' = {} /\ pc' = "renew"
    /\ todo' = IF h.phase = "split" THEN DOMAIN known ELSE todo
    /\ UNCHANGED <<policy, strayed, open, fileVars, viewVars, loopVars>>

\* repayCreditDeal() after the broadcast: is the deal it repaid still there, by the
\* cache; then the refresh.  A reborrow put off is tried, or dropped when the deal
\* seems to live on.
ReadBack(h) ==
    /\ pc = "read" /\ h \in hand
    /\ UNCHANGED <<chainVars, queue>> /\ Refresh
    /\ pc' = IF h.via = "later" /\ h.source \notin DOMAIN Fetched THEN "retry" ELSE "persist"
    /\ hand' = IF pc' = "retry" THEN hand ELSE {[h EXCEPT !.paid = FALSE]}
    /\ UNCHANGED <<policy, strayed, open, todo, loopVars, boundVars>>

Request(h) == [source |-> h.source, offer |-> h.offer, amount |-> h.amount, root |-> h.root]

\* Mutation: the request is queued whatever came of the retry.
QueuedAnyway(h, done) == queue' = Append(queue, Request(h))

\* queueReborrow(), unless the retry was done.
Queued(h, done) == queue' = IF done THEN queue ELSE Append(queue, Request(h))

\* The deal's own offer once more, and the request if that fails.
Retry(h) ==
    /\ pc = "retry" /\ h \in hand
    /\ \E done \in BOOLEAN :
          /\ \/ /\ Takes(h.offer)
                /\ deals' = Lend(deals, h.offer, h.amount, h.root) /\ top' = top + 1
                /\ IF done THEN UNCHANGED boundVars ELSE Mishap /\ UNCHANGED refusals
             \/ /\ ~done /\ Takes(h.offer) /\ Refuse /\ UNCHANGED <<chainVars, mishaps>>
             \/ /\ ~done /\ ~Takes(h.offer) /\ UNCHANGED <<chainVars, boundVars>>
          /\ Queued(h, done)
          /\ IF done THEN Refresh ELSE Build(h.offer \in open) /\ UNCHANGED <<known, saved>>
    /\ pc' = "persist" /\ hand' = {[h EXCEPT !.paid = FALSE]}
    /\ UNCHANGED <<policy, strayed, open, todo, loopVars>>

\* The grid is looked after under the fill lock, then the state is written.
Persist(h) ==
    /\ pc = "persist" /\ h \in hand
    /\ saved' = queue /\ pc' = h.phase /\ hand' = {}
    /\ UNCHANGED <<policy, strayed, chainVars, open, queue, viewVars, todo, loopVars, boundVars>>

\* Phase 3: more debt for collateral that lies idle (bounded to one more deal, root 0);
\* a refusal ends the pass.
Increase ==
    /\ pc = "renew" /\ todo = {}
    /\ \/ pc' = "requests" /\ UNCHANGED <<chainVars, viewVars, boundVars>>
       \/ /\ ~policy.renewOnly /\ \A i \in DOMAIN deals : deals[i].root # 0
          /\ \E o \in open : Takes(o) /\ deals' = Lend(deals, o, 1, 0)
          /\ top' = top + 1 /\ pc' = "requests"
          /\ cache' = IF policy.percent \/ cache # NoDeals THEN Fetched ELSE deals'
          /\ known' = cache' /\ UNCHANGED boundVars
       \/ /\ ~policy.renewOnly /\ pc' = "idle" /\ Refuse /\ UNCHANGED <<chainVars, viewVars, mishaps>>
    /\ UNCHANGED <<policy, strayed, open, fileVars, todo, hand, loopVars>>

-----------------------------------------------------------------------------
\* processPendingReborrows().
StartRequests ==
    /\ pc = "requests"
    /\ IF queue = <<>>
       THEN pc' = "idle" /\ saved' = queue /\ UNCHANGED <<cache, view, rest>>
       ELSE pc' = "request" /\ cache' = Fetched /\ view' = Fetched /\ rest' = queue /\ UNCHANGED saved
    /\ UNCHANGED <<policy, strayed, chainVars, open, queue, known, todo, hand, nextQueue, boundVars>>

\* Mutation: no look for a replacement.
NeverReplaced(r) == FALSE

\* A renew-only request is stale when its offer has lent again since.
Replaced(r) ==
    policy.renewOnly /\ \E i \in DOMAIN view : view[i].offer = r.offer /\ i > r.source

\* Mutation: no request is kept.
NeverKept(r, done) == nextQueue' = nextQueue

\* A request that came to nothing stays.
Kept(r, done) == nextQueue' = IF done THEN nextQueue ELSE Append(nextQueue, r)

Serve ==
    /\ pc = "request" /\ rest # <<>>
    /\ LET r == Head(rest)
           offers == IF r.offer \in open THEN {r.offer} ELSE Others(r.offer)
       IN  \E done \in BOOLEAN :
              /\ IF r.source \in DOMAIN view THEN ~done /\ UNCHANGED <<chainVars, boundVars>>
                 ELSE IF Replaced(r) THEN done /\ UNCHANGED <<chainVars, boundVars>>
                 ELSE \/ /\ \E o \in offers :
                               Takes(o) /\ deals' = Lend(deals, o, r.amount, r.root)
                         /\ top' = top + 1
                         /\ IF done THEN UNCHANGED boundVars ELSE Mishap /\ UNCHANGED refusals
                      \/ /\ ~done /\ offers # {} /\ Room /\ Refuse /\ UNCHANGED <<chainVars, mishaps>>
                      \/ /\ ~done /\ (offers = {} \/ ~Room) /\ UNCHANGED <<chainVars, boundVars>>
              /\ Kept(r, done)
              /\ strayed' = strayed \cup IF deals' = deals \/ r.offer \in open THEN {} ELSE {r.root}
    /\ rest' = Tail(rest)
    /\ UNCHANGED <<policy, open, fileVars, viewVars, pc, todo, hand, view>>

\* Mutation: the queue keeps what it held.
QueueAsBefore == queue

LeftOver == nextQueue

FinishRequests ==
    /\ pc = "request" /\ rest = <<>>
    /\ queue' = LeftOver /\ UNCHANGED chainVars /\ Refresh
    /\ pc' = "idle" /\ view' = << >> /\ nextQueue' = <<>>
    /\ UNCHANGED <<policy, strayed, open, todo, hand, rest, boundVars>>

-----------------------------------------------------------------------------
\* The process dies in a pass, or is stopped: shutdown() writes the queue as it is.
Stop ==
    /\ pc # "idle" /\ Mishap
    /\ \/ queue' = saved /\ UNCHANGED saved
       \/ saved' = queue /\ UNCHANGED queue
    /\ known' = << >> /\ cache' = NoDeals /\ pc' = "idle" /\ todo' = {} /\ hand' = {}
    /\ view' = << >> /\ rest' = <<>> /\ nextQueue' = <<>>
    /\ UNCHANGED <<policy, strayed, chainVars, open, refusals>>

\* Offers come and go.
Toggle(o) ==
    /\ open' = IF o \in open THEN open \ {o} ELSE open \cup {o}
    /\ UNCHANGED <<policy, strayed, chainVars, fileVars, viewVars, pc, todo, hand, loopVars, boundVars>>

Step ==
    \/ Mpa \/ SplitPiece \/ SplitEnd \/ RenewDeal \/ SkipDeal \/ Increase
    \/ StartRequests \/ Serve \/ FinishRequests
    \/ \E h \in hand : Broadcast(h) \/ BroadcastFails(h) \/ ReadBack(h) \/ Retry(h) \/ Persist(h)

CreditNext == StartPass \/ Step \/ Stop \/ \E o \in Offers : Toggle(o)

CreditSpec == CreditInit /\ [][CreditNext]_creditVars

\* The interval of the watchdog goes on, and a pass that runs goes on.
CreditFairness == WF_creditVars(StartPass) /\ WF_creditVars(Step)

-----------------------------------------------------------------------------
\* f summed over S, unit by unit.
Units(S, f) == UNION {{i} \X (1 .. f[i]) : i \in S}
Total(S, f) == Cardinality(Units(S, f))

\* What there is of a loan: its deals, the requests that wait, the reborrow put off
\* that the pass holds.
Owed(r, ds) == Total({i \in DOMAIN ds : ds[i].root = r}, [i \in DOMAIN ds |-> ds[i].debt])
OnChain(r) == Owed(r, deals)
Asked(r, q) == Total({k \in DOMAIN q : q[k].root = r}, [k \in DOMAIN q |-> q[k].amount])
Waiting(r) == IF pc = "request" THEN Asked(r, nextQueue) + Asked(r, rest) ELSE Asked(r, queue)
Held(r) == Total({h \in hand : h.via = "later" /\ h.paid /\ h.root = r}, [h \in hand |-> h.amount])
There(r) == OnChain(r) + Waiting(r) + Held(r)

\* As long as nothing dies and no answer is lost, a loan is never renewed twice: its
\* deals and what waits to be borrowed never exceed what was lent.
NotTwice == mishaps = 0 => \A r \in Loans : There(r) <= Lent(r)

\* Neither is it lost: whatever is repaid is borrowed again or waits.  That leaves out
\* the policies under which the code drops a request it put off: a piece of a split whose
\* deal lives on, and a cap in percent, whose read of the deals is stale.
RepaidIsRenewed ==
    mishaps = 0 /\ policy = Plain => \A r \in Loans : There(r) >= Lent(r)

\* With renewOnly a request is not served twice, though the process dies after the
\* broadcast or its answer is lost: the replacement is found on the chain.  That leaves
\* out a request served from another offer than its own, since the code looks for the
\* replacement among the deals of the request's own offer.
RenewOnlyOnce == policy.renewOnly => \A r \in Loans \ strayed : OnChain(r) <= Lent(r)

\* Requests do not wait for ever once the offers stay open: the queue empties again
\* and again.
RequestsAreServed == <>[](open = Offers /\ Room) => []<>(queue = <<>>)
=============================================================================
