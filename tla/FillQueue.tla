----------------------------- MODULE FillQueue -----------------------------
(***************************************************************************)
(* The queue of incoming fills and who wakes its consumer                  *)
(* (createFillCallback(), consumeFillQueue(), scheduleFillConsumerRestart()*)
(* of modules/dexbot_fill_runtime.ts).                                     *)
(*                                                                         *)
(* A call of the consumer returns at once while a batch or a recovery is   *)
(* under way, while others wait for _fillProcessingLock, and when the      *)
(* bootstrap it waited for is over.  It does not schedule itself again on  *)
(* those paths: whoever closed the door has to.  Calls are anonymous and   *)
(* counted; a restart scheduled by work that runs inside the lock inherits *)
(* the lock's context, so it enters beside the holder.                     *)
(***************************************************************************)
EXTENDS Naturals, SequencesExt, FiniteSets

CONSTANTS
    Fills,
    Others,      \* other users of the fill lock: syncs, maintenance, trigger resets
    MaxQueue,    \* MAX_INCOMING_FILL_QUEUE
    MaxEvents    \* bound on lock uses by others, batches, recoveries, regions, resets

\* How a call came about: from the event loop, or from inside the lock's context.
Contexts == {"plain", "nested"}
Consumers == {"fills", "boot"}
\* What a batch belongs to: the lock's holder, a nested consumer, the recovery timer.
BatchKinds == {"holder", "nested", "timer"}

ASSUME QueueAssumption ==
    /\ Others \cap (Consumers \cup {"free", "skip"}) = {}
    /\ MaxQueue \in Nat /\ MaxEvents \in Nat

VARIABLES
    queue,       \* _incomingFillQueue
    seen,        \* fills the subscription has delivered
    calls,       \* scheduled consumer calls per context
    holder,      \* who runs under _fillProcessingLock
    waiters,     \* who waits for it
    nested,      \* consumers that entered from inside the lock's context
    ending,      \* consumers that threw and have not reached their last line
    batches,     \* _batchInFlight
    resets,      \* requestGridReset() without the lock
    syncs,       \* state recovery syncs, reloads of the persisted grid
    regions,     \* placement phases of reconcileGrid()
    flag,        \* _broadcastingFlag
    rebuilding,  \* the holder runs performGridResync() or the startup
    down,        \* _shuttingDown
    lapse,       \* history: a path left fills behind with nobody to come back
    events

lockVars == <<holder, waiters, rebuilding>>
windows == <<batches, resets, syncs, regions, flag>>
consumers == <<calls, nested, ending>>
vars == <<queue, seen, calls, holder, waiters, nested, ending, batches, resets, syncs,
          regions, flag, rebuilding, down, lapse, events>>

Init ==
    /\ queue = {} /\ seen = {}
    /\ calls = [c \in Contexts |-> 0]
    /\ holder = "free" /\ waiters = <<>> /\ rebuilding = FALSE
    /\ nested = [k \in Consumers |-> 0] /\ ending = [c \in Contexts |-> 0]
    /\ batches = [b \in BatchKinds |-> 0]
    /\ resets = 0 /\ syncs = 0 /\ regions = 0 /\ flag = 0
    /\ down = FALSE /\ lapse = FALSE /\ events = 0

-----------------------------------------------------------------------------
BatchInFlight == \E b \in BatchKinds : batches[b] > 0
RecoveryInFlight == resets > 0 \/ syncs > 0
Bootstrapping == rebuilding \/ resets > 0
Mode == IF Bootstrapping THEN "boot" ELSE "fills"
Schedule(c) == calls' = [calls EXCEPT ![c] = @ + 1]

\* Somebody will look at the queue: a consumer that loops or waits, a call that is
\* scheduled or about to be, or a window that closes.
Waiting == \E i \in DOMAIN waiters : waiters[i] \in Consumers
Followed ==
    \/ holder \in {"fills", "skip"} \/ nested["fills"] > 0 \/ Waiting
    \/ \E c \in Contexts : calls[c] > 0 \/ ending[c] > 0
    \/ BatchInFlight \/ RecoveryInFlight \/ regions > 0
\* The code schedules nobody here; and once the queue is empty, all is well again.
LapseIfLeft == lapse' = (queue' # {} /\ (lapse \/ ~Followed'))
Settles == lapse' = (queue' # {} /\ lapse)

\* consumeFillQueue() up to its first await, by a call of context c with queue q.
Returns(q) ==
    /\ q = {} \/ down \/ BatchInFlight \/ RecoveryInFlight
    /\ queue' = q
    /\ UNCHANGED <<holder, waiters, nested, lapse>>
Yields(q) ==
    /\ ~Bootstrapping /\ waiters # <<>>
    /\ queue' = q
    /\ UNCHANGED <<holder, waiters, nested>>
    /\ LapseIfLeft
EntersNested(c) ==
    /\ c = "nested"
    /\ queue' = {} /\ nested' = [nested EXCEPT ![Mode] = @ + 1]
    /\ UNCHANGED <<holder, waiters>> /\ Settles
EntersFree(c) ==
    /\ c = "plain" /\ holder = "free"
    /\ queue' = {} /\ holder' = Mode
    /\ UNCHANGED <<waiters, nested>> /\ Settles
Waits(c, q) ==
    /\ c = "plain" /\ holder # "free"
    /\ queue' = q /\ waiters' = Append(waiters, Mode)
    /\ UNCHANGED <<holder, nested, lapse>>
Consume(c, q) ==
    \/ Returns(q)
    \/ /\ q # {} /\ ~down /\ ~BatchInFlight /\ ~RecoveryInFlight
       /\ \/ Yields(q)
          \/ /\ Bootstrapping \/ waiters = <<>>
             /\ EntersNested(c) \/ EntersFree(c) \/ Waits(c, q)

\* The lock's holder leaves, and a rebuild goes on or not.  The next consumer takes the
\* queue as it is then; a bootstrap consumer that comes too late does nothing.
PassLock(bootActive) ==
    IF waiters = <<>>
      THEN holder' = "free" /\ UNCHANGED <<waiters, queue>>
      ELSE LET h == Head(waiters) IN
           /\ waiters' = Tail(waiters)
           /\ IF h \in Others \/ (h = "boot" /\ ~bootActive)
                THEN /\ holder' = (IF h = "boot" THEN "skip" ELSE h)
                     /\ UNCHANGED queue
                ELSE holder' = h /\ queue' = {}

-----------------------------------------------------------------------------
\* The fill callback; above the limit it throws and the subscription keeps the fill.
Arrive(f) ==
    /\ f \notin seen /\ ~down
    /\ Cardinality(queue) < MaxQueue
    /\ seen' = seen \cup {f}
    /\ UNCHANGED <<calls, ending, windows, rebuilding, down, events>>
    /\ Consume("plain", queue \cup {f})

\* A scheduled restart: setImmediate, or the timer after repeated failures.
RunCall(c) ==
    /\ calls[c] > 0
    /\ calls' = [calls EXCEPT ![c] = @ - 1]
    /\ UNCHANGED <<seen, ending, windows, rebuilding, down, events>>
    /\ Consume(c, queue)

\* The consumer has worked off what it took and looks at the queue again.
FinishCycle ==
    /\ holder = "fills" /\ batches["holder"] = 0
    /\ IF queue # {} THEN queue' = {} /\ UNCHANGED <<holder, waiters>>
                     ELSE PassLock(Bootstrapping)
    /\ Settles
    /\ UNCHANGED <<seen, consumers, windows, rebuilding, down, events>>

FinishNested ==
    /\ nested["fills"] > 0 /\ batches["nested"] = 0
    /\ queue' = {}
    /\ Settles
    /\ nested' = IF queue # {} THEN nested ELSE [nested EXCEPT !["fills"] = @ - 1]
    /\ UNCHANGED <<seen, calls, ending, lockVars, windows, down, events>>

\* A bootstrap consumer takes the queue once; one that came too late just leaves.
FinishBootstrap ==
    /\ holder \in {"boot", "skip"} /\ batches["holder"] = 0
    /\ PassLock(Bootstrapping)
    /\ UNCHANGED <<seen, consumers, windows, rebuilding, down, events>>
    /\ LapseIfLeft

FinishNestedBootstrap ==
    /\ nested["boot"] > 0 /\ batches["nested"] = 0
    /\ nested' = [nested EXCEPT !["boot"] = @ - 1]
    /\ UNCHANGED <<queue, seen, calls, ending, lockVars, windows, down, lapse, events>>

\* An error leaves the lock first; what the consumer had taken is gone.
CycleFails ==
    /\ holder \in Consumers /\ batches["holder"] = 0
    /\ PassLock(Bootstrapping) /\ Settles
    /\ ending' = [ending EXCEPT !["plain"] = @ + 1]
    /\ UNCHANGED <<seen, calls, nested, windows, rebuilding, down, events>>

NestedFails(k) ==
    /\ nested[k] > 0 /\ batches["nested"] = 0
    /\ nested' = [nested EXCEPT ![k] = @ - 1]
    /\ ending' = [ending EXCEPT !["nested"] = @ + 1]
    /\ UNCHANGED <<queue, seen, calls, lockVars, windows, down, lapse, events>>

\* The last lines of consumeFillQueue(), after the keys were flushed.
Ends(c) ==
    /\ ending[c] > 0
    /\ ending' = [ending EXCEPT ![c] = @ - 1]
    /\ IF queue # {} /\ ~down THEN Schedule(c) ELSE UNCHANGED calls
    /\ UNCHANGED <<queue, seen, nested, lockVars, windows, down, lapse, events>>

\* The lock's acquire timeout: a consumer ends with an error.
WaiterTimesOut(i) ==
    /\ waiters' = RemoveAt(waiters, i)
    /\ ending' = IF waiters[i] \in Consumers THEN [ending EXCEPT !["plain"] = @ + 1] ELSE ending
    /\ UNCHANGED <<queue, seen, calls, holder, nested, windows, rebuilding, down, lapse, events>>

-----------------------------------------------------------------------------
Begins == ~down /\ events < MaxEvents /\ events' = events + 1

\* A sync, maintenance or a trigger reset asks for the lock; rebuilds raise bootstrap mode.
OtherStarts(o) ==
    /\ Begins
    /\ holder # o /\ ~Contains(waiters, o)
    /\ IF holder = "free" THEN holder' = o /\ rebuilding' \in BOOLEAN /\ UNCHANGED waiters
                          ELSE waiters' = Append(waiters, o) /\ UNCHANGED <<holder, rebuilding>>
    /\ UNCHANGED <<queue, seen, consumers, windows, down, lapse>>

RebuildStarts ==
    /\ Begins
    /\ holder \in Others /\ ~rebuilding /\ rebuilding' = TRUE
    /\ UNCHANGED <<queue, seen, consumers, holder, waiters, windows, down, lapse>>

\* The startup and the post-reset pass take the queue themselves.
RebuildDrains ==
    /\ holder \in Others /\ rebuilding /\ queue # {}
    /\ queue' = {} /\ Settles
    /\ UNCHANGED <<seen, consumers, lockVars, windows, down, events>>

OtherEnds ==
    /\ holder \in Others /\ batches["holder"] = 0
    /\ rebuilding' = FALSE
    /\ PassLock(resets > 0) /\ Settles
    /\ UNCHANGED <<seen, consumers, windows, down, events>>

\* updateOrdersOnChainBatchCOW() by the holder, a nested consumer, or the recovery
\* timer, which waits until the pipeline has settled.
BatchBegins(b) ==
    /\ Begins /\ batches[b] = 0
    /\ \/ b = "holder" /\ holder \notin {"free", "skip"}
       \/ b = "nested" /\ \E k \in Consumers : nested[k] > 0
       \/ b = "timer" /\ ~BatchInFlight /\ ~RecoveryInFlight
    /\ batches' = [batches EXCEPT ![b] = @ + 1]
    /\ flag' = flag + 1
    /\ UNCHANGED <<queue, seen, consumers, lockVars, resets, syncs, regions, down, lapse>>

\* Mutation: the finally block restarts nobody.
NoRestart(c) == UNCHANGED calls
\* What runs at the end of a batch and of an unlocked reset.
Restart(c) == IF queue # {} /\ ~down THEN Schedule(c) ELSE UNCHANGED calls

\* stopBroadcasting()
Lowered == IF flag > 0 THEN flag - 1 ELSE 0

\* Its finally block.  Some early returns leave the broadcasting flag up; the hook that
\* fires when the flag comes down does nothing while the batch counts as in flight.
BatchEnds(b) ==
    /\ batches[b] > 0
    /\ batches' = [batches EXCEPT ![b] = @ - 1]
    /\ flag' \in {flag, Lowered}
    /\ \E c \in IF b = "timer" THEN Contexts ELSE {"nested"} : Restart(c)
    /\ UNCHANGED <<queue, seen, nested, ending, lockVars, resets, syncs, regions, down, lapse,
                   events>>

\* triggerStateRecoverySync(), or the reload of the persisted grid: no restart at the end.
SyncBegins ==
    /\ Begins /\ ~RecoveryInFlight
    /\ syncs' = syncs + 1
    /\ UNCHANGED <<queue, seen, consumers, lockVars, batches, resets, regions, flag, down, lapse>>
SyncEnds ==
    /\ syncs > 0 /\ syncs' = syncs - 1
    /\ UNCHANGED <<queue, seen, consumers, lockVars, batches, resets, regions, flag, down, events>>
    /\ LapseIfLeft

\* requestGridReset() without the lock; at the end drainFillQueueAfterPipelineClear().
ResetBegins ==
    /\ Begins /\ resets = 0
    /\ resets' = resets + 1
    /\ UNCHANGED <<queue, seen, consumers, lockVars, batches, syncs, regions, flag, down, lapse>>
ResetEnds ==
    /\ resets > 0 /\ resets' = resets - 1
    /\ UNCHANGED <<queue, seen, nested, ending, lockVars, batches, syncs, regions, flag, down,
                   events>>
    /\ IF ~RecoveryInFlight' /\ ~BatchInFlight /\ flag = 0
         THEN (\E c \in Contexts : Restart(c)) /\ UNCHANGED lapse
         ELSE UNCHANGED calls /\ LapseIfLeft

\* The placement phase of reconcileGrid(); when the flag comes down the hook restarts
\* the consumer unless a recovery or a batch is under way.
RegionBegins ==
    /\ Begins /\ regions = 0
    /\ regions' = regions + 1
    /\ flag' = flag + 1
    /\ UNCHANGED <<queue, seen, consumers, lockVars, batches, resets, syncs, down, lapse>>
RegionEnds ==
    /\ regions > 0 /\ regions' = regions - 1
    /\ flag' = Lowered
    /\ UNCHANGED <<queue, seen, nested, ending, lockVars, batches, resets, syncs, down, events>>
    /\ IF flag <= 1 /\ ~RecoveryInFlight /\ ~BatchInFlight
         THEN (\E c \in Contexts : Restart(c)) /\ UNCHANGED lapse
         ELSE UNCHANGED calls /\ LapseIfLeft

\* _clearStaleBroadcastFlag() fires no hook.
Watchdog ==
    /\ Begins /\ flag > 0 /\ flag' = 0
    /\ UNCHANGED <<queue, seen, consumers, lockVars, batches, resets, syncs, regions, down, lapse>>

Shutdown ==
    /\ ~down /\ down' = TRUE
    /\ UNCHANGED <<queue, seen, consumers, lockVars, windows, lapse, events>>

\* Steps that finish what is under way.
Finishes ==
    \/ FinishCycle \/ FinishNested \/ FinishBootstrap \/ FinishNestedBootstrap \/ OtherEnds
    \/ \E b \in BatchKinds : BatchEnds(b)
    \/ SyncEnds \/ ResetEnds \/ RegionEnds

Next ==
    \/ \E f \in Fills : Arrive(f)
    \/ \E c \in Contexts : RunCall(c) \/ Ends(c)
    \/ Finishes
    \/ CycleFails \/ \E k \in Consumers : NestedFails(k)
    \/ \E i \in DOMAIN waiters : WaiterTimesOut(i)
    \/ \E o \in Others : OtherStarts(o)
    \/ RebuildStarts \/ RebuildDrains
    \/ \E b \in BatchKinds : BatchBegins(b)
    \/ SyncBegins \/ ResetBegins \/ RegionBegins \/ Watchdog \/ Shutdown

Spec == Init /\ [][Next]_vars

\* Scheduled calls run, and whatever is under way has a time limit and ends.
QueueFairness ==
    /\ \A c \in Contexts : WF_vars(RunCall(c)) /\ WF_vars(Ends(c))
    /\ WF_vars(FinishCycle) /\ WF_vars(FinishNested) /\ WF_vars(FinishBootstrap)
    /\ WF_vars(FinishNestedBootstrap) /\ WF_vars(OtherEnds)
    /\ \A b \in BatchKinds : WF_vars(BatchEnds(b))
    /\ WF_vars(SyncEnds) /\ WF_vars(ResetEnds) /\ WF_vars(RegionEnds)
FairSpec == Spec /\ QueueFairness

-----------------------------------------------------------------------------
TypeOK ==
    /\ queue \subseteq seen /\ seen \subseteq Fills
    /\ calls \in [Contexts -> Nat] /\ ending \in [Contexts -> Nat]
    /\ holder \in {"free", "skip"} \cup Consumers \cup Others
    /\ waiters \in Seq(Consumers \cup Others) /\ (holder = "free" => waiters = <<>>)
    /\ nested \in [Consumers -> Nat] /\ batches \in [BatchKinds -> Nat]
    /\ resets \in Nat /\ syncs \in Nat /\ regions \in Nat /\ flag \in Nat /\ events \in Nat
    /\ rebuilding \in BOOLEAN /\ down \in BOOLEAN /\ lapse \in BOOLEAN
    /\ (rebuilding => holder \in Others)

\* Whatever defers the consumer, somebody comes back to a queue that holds fills, unless
\* it was left behind by one of the paths that schedule nobody: a recovery sync or
\* reload ends, a call yields to other waiters, a bootstrap consumer came too late, a
\* leaked broadcasting flag stops a drain.
FillsFollowedUp == queue # {} /\ ~down => Followed \/ lapse

\* Then the fills are taken.
FillsTaken == queue # {} ~> (queue = {} \/ down \/ lapse)

=============================================================================
