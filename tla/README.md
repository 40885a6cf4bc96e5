# DEXBot2 in TLA+

DEXBot2 is a market-making bot for the BitShares exchange.  It keeps a *grid* of
limit orders around a market price in memory, mirrors that grid on the chain, and
reacts to *fills* pushed by a chain node.  Everything runs in one Node.js process,
so there is no parallelism inside a synchronous stretch of code, but every `await`
is a point where another callback (a fill, a timer, a sync, a maintenance cycle)
may run.  Money is at stake at each of those points: a fill credited twice, a
batch broadcast twice or a plan committed over a grid that has changed since are
all the same kind of mistake, made by two stretches of code in an order that
nobody wrote a test for.  Those orders are what this directory checks.

The modules are translated from the TypeScript source under `src/modules` (and
`src/market_adapter/utils/file_lock.ts`); the line ranges are in `PROJECT.json` under
`map`.  TLC checks small instances, TLAPS
proves theorems for every value of the constants.

How to run, from this directory:

    tlc -config MCAsyncLock.cfg MCAsyncLock.tla      # one run, see "Runs"
    tlapm AsyncLockProofs.tla                             # one proof module

Definitions marked "Mutation:" are plausible bugs.  Each stands beside the
definition it would replace; with it in place TLC finds the property named in
`PROJECT.json` (`mutants`) violated, which shows that the property can tell the
code from the bug.  No specification uses them.

## The system

### Components

| part | source (`src/modules/...`) | state it keeps | operations | made correct by |
|---|---|---|---|---|
| Async lock | `order/async_lock.ts` | queue, `_locked`, `_holding`, `_orphaned`, generation | acquire (queued or re-entrant), timeout, cancel, forceRelease | one callback at a time; an open lock has no waiters; FIFO; waiters settle |
| Sync guard | `order/sync_engine.ts` (`syncFromOpenOrders`) | `_syncGeneration`, timeout and force-release timers | run a sync under the lock with a time limit | only the sync that timed out is force-released; a discarded sync leaves no side effects |
| Working grid | `order/working_grid.ts` | copy-on-write copy of the orders, stale flag, base version | sync from master, mark stale, build delta | a stale copy never becomes current again |
| Order manager, COW engine | `order/manager.ts`, `order/utils/validate.ts` | master orders, grid version, stack of working grids, rebalance state, broadcast refcount | plan, push/pop, commit, single-order update, broadcast region | no commit over orders changed since the plan; each pushed grid leaves the stack once |
| COW broadcast | `dexbot_cow_runtime.ts` | single-flight slot, pending-broadcast journal, correction queue | validate, broadcast, verify, retry, reconcile, commit, persist | an operation lands at most once per plan; nothing is retried before it was verified absent |
| Fill consumer | `dexbot_fill_runtime.ts`, `dexbot_class.ts` | incoming queue, dedupe window, failure budget, timers | push, consume, process, restart | no fill lost, none processed twice at once, the queue drains |
| Fill accounting | `order/accounting.ts` (`processFillAccounting`) | processed-fill tracker, account totals | credit a fill, roll back | a fill key is recorded iff its balance effect was applied |
| Processed-fill store | `order/processed_fill_store.ts`, `account_orders.ts` | pending writes, persist timer, flush chain | persist (3 modes), flush, flushKeys, discard, load | an accepted key reaches the file or is still pending; newer timestamps win |
| Accounting | `order/accounting.ts` | account totals, commitments, fees | recalculate, deduct, release, re-anchor | free + committed funds match the chain |
| Sync engine | `order/sync_engine.ts` | correction list, unmatched orders | match chain orders to slots, apply fills | one chain order per slot, one slot per chain order |
| Grid and strategy | `order/grid.ts`, `grid_reconcile*.ts`, `strategy.ts`, `order/utils/*` | slots, boundary | size, shift, rotate, reconcile | budgets respected, boundary shifts bounded |
| State recovery | `dexbot_state_recovery.ts`, `order/accounting.ts` | recovery record, attempt counters, flags | verify funds, recover, resync, rebalance afterwards | one recovery writes the grid; what is requested happens; an owed rebalance has a timer |
| Maintenance, startup | `dexbot_maintenance_runtime.ts`, `dexbot_startup_runtime.ts` | timers, idle gate, resync flags | periodic checks, structural resync | no structural change while the pipeline is busy; a requested resync happens |
| Credit runtime | `credit_runtime.ts`, `cr_planner.ts` | cached deals, reborrow requests and their file | split, repay, borrow, put off, retry | what is repaid is borrowed again exactly once |
| Fund registry | `fund_registry.ts` | reservations per account | reserve, release | reservations of the bots of one account never exceed the balance |
| Node manager | `node_manager.ts`, `node_failure_ledger.ts`, `node_health_cache.ts` | node states, ban windows | probe, fail over, ban | some node stays selectable |
| Fill feed | `bitshares-native/subscriptions.ts`, `transport.ts` | cursor, gap flag, scans, retry timer | notices, polls, history scans, resubscribe | every fill is given to the bot |
| Chain client | `bitshares-native/*`, `chain_orders.ts` | sockets, request table | connect, sign, broadcast | each request settles once |
| Launcher, supervisors | `launcher/*` | app states, children, restart counters, timers | start, restart, stop, bulk commands, shutdown | an app runs once at most and no child is lost sight of |
| Credentials | `credential_policy.ts`, `credential_session_cache.ts`, `credential_daemon`, `chain_keys.ts`, `key_store.ts` | sessions, unlocked keys | unlock, expire, sign | |
| Shutdown | `graceful_shutdown.ts` | handlers, deadline | run the cleanups | each cleanup runs once |
| Shared lock files | `market_adapter/utils/file_lock.ts`, `bots_file_lock.ts` | lock file, its age, heartbeats | create, judge stale, take over, release | one holder; a left file is cleared |
| Settings | `account_bots.ts`, configuration modules | | menus, files | |
| Market adapter, research, AI bridge, scripts | `src/market_adapter`, `src/analysis`, `src/claw`, `src/scripts` | | signals, reports, tooling | |

### How they interact

* A chain node pushes a fill to the subscription, whose callback pushes it on the
  fill consumer's queue and calls the consumer.
* The consumer takes `_fillProcessingLock`, credits each fill (accounting and the
  processed-fill store), and plans a rebalance with the COW engine.
* The plan is a working grid pushed on the manager's stack.  The COW broadcast
  turns its delta into chain operations, sends them inside a *broadcast region*
  (a reference count that makes the consumer defer), and commits the working grid
  or pops it.
* Meanwhile syncs, maintenance and other fills may change the master orders; each
  change marks the working grid stale.
* An answer that never comes (timeout, closed socket) leaves the operation
  *uncertain*: the runtime looks at the chain before it sends anything again.
* Timers restart the consumer, flush the processed-fill store, clear hung broadcast
  regions and force-release a stuck sync.

### Behaviours that are hard to test

`PROJECT.json` (`hazards`) lists them by line.  In short: timers and promises that
inherit the async context of the lock they were started under; a force-released
callback that finishes late; a plan that outlives the orders it was made from; a
fill taken from the queue and not processed; a write that fails between two steps
of a two-step record; a restart between crediting a fill and persisting its key;
an uncertain broadcast that did land.

## The modules

| module | models | uses |
|---|---|---|
| `FifoMutex` | what a lock promises: one owner, first come first served, waiters may give up | |
| `AsyncLock` | the re-entrant lock; implements `FifoMutex` | `FifoMutex` (refinement) |
| `SyncGuard` | the time limit around an open-orders sync, two locks and the consumer | locks as FIFO mutexes |
| `CowBatch` | working grids, the stack, the broadcasting flag, the single-flight slot, the executor | |
| `FillQueue` | the queue of fills, the gates of its consumer and who restarts it | fill lock as a FIFO mutex |
| `FillStore` | crediting fills and the record of processed fills, with failing writes and restarts | |
| `UncertainBroadcast` | the journal of pending creates, retries, polls, adoption and reconcile | |
| `Rebalance` | boundary, roles, plans and their chunked broadcast beside a market that fills | |
| `ChainSync` | the grid against reads of the chain, fill events, corrections, commits | |
| `FundRecovery` | attempts to repair the funds and the structural resync they ask for | |
| `StateRecovery` | recovery syncs, the deferred rebalance, outages of the credential daemon | |
| `CreditRuntime` | renewal of credit deals with requests that outlive a pass or the process | |
| `FillFeed` | how fills reach the bot: notices, scans, one cursor | |
| `FileLock` | lock files between processes | |
| `Supervisor` | the apps, their processes and who starts them | |
| `SeqLemmas`, `*Proofs` | lemmas about sequences, and the proofs: `FillStoreProofs` also holds those of the feed, `PlanningProofs` those of `CowBatch` and `Rebalance`, `ProcessProofs` those of `SyncGuard`, `Supervisor` and `CreditRuntime`, `RepairProofs` those of `ChainSync`, `FundRecovery` and `StateRecovery` | |
| `MC*` | instances for TLC | |

`MCSyncGuard`, `MCRecovery`, `MCFillStore` and `MCPlanning` each hold two or three
modules side by side: a variable `part`, chosen in the initial state, says which one a
behaviour is of, so the state graphs are added and not multiplied.  The properties of
one part hold of the others because their variables keep their initial values.

The locks of `SyncGuard` and `FillQueue` are the mutex that `AsyncLock` is shown to
implement, with what `forceRelease()` adds to it (waiters dropped, the owner left in
place).  The other modules take "runs under the fill lock" as a guard: frames of one
kind in `CowBatch`, one job in `FillStore`, a batch at a time in `UncertainBroadcast`.

### AsyncLock (`order/async_lock.ts`)

A caller is one async call chain.  A step is a stretch of code without an `await`:
`acquire()` up to its return (`Acquire`, `NestedCall`), the `finally` block of a
callback with the `_processQueue()` it calls (`Finish`, `FinishNested`), a timer
(`Timeout`), a set cancel token (`Cancel`), `forceRelease()` (`ForceRelease`).
`context` is the set that `AsyncLocalStorage` hands on; `Detach` hands it to a timer
or promise that outlives the callback, which is how work gets into a lock it does not
hold.  Left out: what callbacks do, error objects, the warning after repeated
timeouts.

### SyncGuard (`syncFromOpenOrders()` of `order/sync_engine.ts`)

A call takes `_fillProcessingLock`, unless its caller has it, and races the sync,
under `_syncLock`, against a timer.  A lost race leaves the sync behind as an orphan
and arms the force-release timer.  `corrections` holds, for each queued price
correction, the sync that queued it, which is all that the roll-back of a discarded
sync can get wrong.  `isReentrant()` asks for the async context, so work that was
started inside a lock and outlives it skips the queue of that lock: `inherited` says of
each call which locks it skips ("fill", or "both" when a fund recovery that nobody awaits
was started in a sync), and such calls race beside the holder's own.  What a sync does to
the grid is not modelled here.

### CowBatch (`order/manager.ts`, `order/working_grid.ts`, `dexbot_cow_runtime.ts`)

A frame is one call of the batch executor with the plan it carries.  The content of a
slot is the version of the master that last wrote it, so "an update was overwritten"
is visible as a number that goes back.  `pc` follows the `await`s of
`updateOrdersOnChainBatchCOW()`: entry, build, the checks for staleness, the wait for
the single-flight slot, the claim, the broadcast, the poll after an answer that did
not come, the commit and its outcome.  Every early return is a step of its own with
the clean-up it does and only that.  Between any two of these steps an order update,
a grid reset, a reconcile region or the flag's watchdog may run.

### FillQueue (`dexbot_fill_runtime.ts`)

Calls of the consumer are anonymous and counted by context: `plain` ones come from
the event loop, `nested` ones were scheduled by work inside the lock and inherit its
context, so they enter at once.  `batches`, `resets`, `syncs`, `regions` and `flag`
are the windows in which the consumer returns at once; their ends are the places
where it may be restarted, and whether the code does so is what is checked.  `lapse`
is a history variable: it is set by the named paths that schedule nobody, so that
`FillsFollowedUp` says there are no others.

### FillStore (`order/processed_fill_store.ts`, `processFillAccounting()`)

A call records the key, credits the fill and waits for its flush.  Writes are chained
on `_flushPromise`; a batch is taken when it is chained and written when it is the
head; a failed one is queued again.  Restart loads the disk and reads the balances
from the chain, so credits count per life.

### UncertainBroadcast (`dexbot_cow_runtime.ts`, `chain_orders.ts`, sync of `order/sync_engine.ts`)

The chain is the sequence of the slots whose orders landed.  A read fails, is
truncated, or shows the live orders up to some id, as a node that lags does.  A
transaction without an answer lands or expires at any later moment.  `Near` says
which slots' orders `findChainOrderForSlot()` cannot tell apart within its tolerance.
`misled` and `exposed` are history: slots whose entry left the journal because a read
did not show the order, or without a read or in spite of one; both keep only slots
whose order is still on its way or unclaimed.  The chain is outside the repository:
what the model lets it do is taken from what the code says of it (expiry, truncation,
lag, partial success of split batches).

### ChainSync (`order/sync_engine.ts`, `order/utils/order.ts`)

For grids with frozen price levels, so that a price is the index of its level.  A
read of the open orders (`Sync`) is the two passes of `_performSyncFromOpenOrders()`
in the order of the code: slots against orders, then the orders left against slots.
`HandleFills` takes the oldest fill events, `Correct` drains the correction queue,
`Commit` stands for a batch: it moves the boundary, gives the slots their sides and
rebuilds `_committedOrderIds` before its own create is stamped.  Corrections are drained
before a batch, and a drain that fails stops no batch: each drained entry is a step of
`Correct` that may be missing or come late, so `Commit` asks nothing of the queue.  `raw` is the raw order
a slot keeps from its last read and from which fills are subtracted.  Pass 1 leaves the
slots it does not free to their own orders, so the steps of its loop do not see each
other but for `Twin`, which looks at the slots before it.

### Rebalance (`order/strategy.ts`, `order/utils/*`, the build and broadcast of `dexbot_cow_runtime.ts`)

What a batch does, where `CowBatch` is about how batches get in each other's way.  A
burst of fills shifts the boundary within its budget, the slots get their roles, and
the difference is paired into cancels, creates and moves; the guards of the batch and of
each operation drop what would cross the book, and the rest is sent `MaxOps` at a time
with the market filling in between.  A chunk that is refused, a plan that has become
stale and a clean-up of orders that are gone take the paths of the code.  Sizes are
positive and otherwise left out, so updates of an order's size in place are too;
uncertain chunks are those of `UncertainBroadcast`.

A batch that fails after some of its chunks have landed leaves the grid as it was, and
nothing waits for a sync: the burst goes on with its next fills (`StaleOrder`, and
`ChunkFails` for an order of another size), or it throws and the next fills start a new
one.  `landed` holds what such batches did and the grid does not know.  An order they moved
is known by its id at the slot it left (`Where`), so its fill is booked there and a later
move or cancel reaches it; one they created is known to nobody.  `journal` holds their
creates: while it has entries a batch with creates is turned away (`TurnAway`), which
adopts nothing and, unless the read is empty or cut off, ends the journal.  The sync puts
moved orders back, by a price correction, unless its crossing guard objects, and adopts
new ones where the slot is free.  `adrift` is a history variable: it counts the plans that
are carried out since the first one beside landed operations, or since a discarded entry
took the slot of an order; the properties say what holds until then.

### FundRecovery and StateRecovery (`order/accounting.ts`, `dexbot_maintenance_runtime.ts`, `dexbot_state_recovery.ts`, `dexbot_class.ts`)

`manager._recoveryState` is one record that others replace by changed copies while an
attempt keeps the object it started with: the model has the current record and, per
attempt, whether its own is still the current one.  The structural resync is asked for
by attempts and by failed commits, put off while batches are in flight and forced after
`MaxDefers`.  `StateRecovery` has the recovery sync with its single flight and the timer of
the rebalance that follows it.  The sync may throw at any point, also behind its writes
(`EndSync`), and so may the targeted repairs that batches make (`Repair`, `EndRepair`):
the history variable `owed` is raised by the write, and the timer is armed by a later step
or by none; `abandoned` marks the changes whose writer threw.  Beside them is the outage of
the credential daemon: a refused write, probes, suspended persistence, the recovery that
waits for batches.

### CreditRuntime (`credit_runtime.ts`)

A pass reads the chain and goes item by item through split, renewal, increase and
queue, with the caches as the code fills and drops them: `_borrowerDealsCache` is the
reason why "is the deal gone?" may be answered from before the repay.  The queue of
requests is in memory and in the file, written where the code writes it.  A request whose
offer is closed is served from another one under every policy (`Others`); `strayed` holds
the loans this happened to.  A crash, a shutdown or a lost answer may come at every await.

### FillFeed (`bitshares-native/subscriptions.ts`, `transport.ts`)

Operations of the account are numbered.  A notice says that operations happened and may
leave out fills of a block; scans start at the cursor they read, or below it when the
gap flag asks for that, may end early (`Fetched`), and deliver what they find to a callback
that may refuse (`Refuses`) when the bot's queue is full.  Two history variables hold the
fills that are lost in this way: `cutOff` those a scan left out that ended early,
`turnedAway` those below the cursor when the bot refused a scan from there, which has
lowered the gap flag by then.  The properties are about all other fills; see Observations.

### FileLock (`market_adapter/utils/file_lock.ts`)

Each call of the file system is a step, since processes interleave there.  A process
dies at any point; a file it leaves behind names an owner that is gone, or no owner if
it died before writing.  The age of the file is one bit.  The asynchronous variant is
not modelled.

### Supervisor (`launcher/bot_supervisor.ts`)

An app's record is the code's, with its process slots: a process is launching, up,
failed or sent SIGKILL until its `close` event.  The model gives each app a second slot,
so that a start beside a live child would be seen and not be made impossible.

## Runs

Each run is `tlc -config <cfg> <module>.tla`; properties are in the `.cfg`.

| run | cfg | instance | states | shows |
|---|---|---|---|---|
| `lock` | `MCAsyncLock.cfg` | 3 callers, generation up to 6 | 38,374 | the lock, its refinement of `FifoMutex`, waiters settle |
| `sync` | `MCSyncGuard.cfg` | 3 syncs, 2 of which may inherit a context, 1 correction; 3 processes, 2 deaths; a bot and a job | 179,729 | one sync at a time, fresh results, calls settle; a left lock file is cleared; no stray process |
| `cow` | `MCCowBatch.cfg` | fill and recovery frame, or plan frame with region and watchdog; 1 slot, version up to 2 | 155,008 | slot and count return to rest, no lost update, batches end |
| `cow_locked` | `MCPlanning.cfg` | fill and plan frame, 2 slots, 1 region, 1 watchdog; plans on 4 levels, 2 operations a chunk, 2 operations of failed batches, 1 plan beside them | 566,093 | the stack is exact, the flag is up; no self-cross, no second order on a level, no order lost until a plan goes on beside orders the grid does not know; bursts bounded |
| `fill_queue` | `MCFillQueue.cfg` | 2 fills, 1 other user, queue of 2, 4 events | 269,424 | fills are followed up and taken |
| `fill_store` | `MCFillStore.cfg` | 2 keys, both modes, 3 failures, 1 restart; 3 operations, 2 refusals, 1 broken scan or connection | 297,514 | no other fill skipped, every other fill given, nothing forgotten or credited twice, exit |
| `uncertain` | `MCUncertainBroadcast.cfg` | 2 slots, one near pair, 3 orders | 208,992 | the journal protects until a read decides, no second order, it drains |
| `chain` | `MCChainSync.cfg` | 4 slots, gap 1, 2 orders of size 2, 1 event | 547,649 | no order bound twice, live orders leave their slot in two ways only, a true read settles all |
| `recovery` | `MCRecovery.cfg` | 2 attempts, 2 batches, 1 deferral | 510,664 | one writer, requests are scheduled and settle, a grid a recovery changed has a rebalance ahead unless the recovery threw, a needed recovery runs |
| `credit` | `MCCreditRuntime.cfg` | 2 loans, 2 offers, 5 policies, 1 mishap, 1 refusal | 1,562,192 | a repaid loan is renewed once or waits, requests are served |
| `recovery_suspended` | `MCRecovery_suspended.cfg` | 1 attempt, 1 batch | violated | a missed probe suspends persistence for good |
| `lock_stolen` | `MCFileLock_stolen.cfg` | 3 processes, no death | violated | a live holder's lock file is removed |

### Bounds

* *lock*: three chains are the fewest in which one runs, one is re-entrant or
  orphaned and one waits; `MaxGeneration` bounds the forced releases and resets.
* *sync*: an orphan, the sync that is on time and one that waits behind it; two calls may
  carry a context of work that is over, so that both race beside the third.  Three
  processes are the fewest in which one looks, one leaves and one comes; two may die,
  so that a file is left and its finder dies too.  One app with a restart budget and one
  with a schedule cover every branch of the close handler; the budget is two.
* *cow*: each pair of batches that may overlap is a fill batch (under the lock) with
  a recovery batch (without); two frames under the lock never overlap.  Two versions
  are enough for one update before and one after a clone.  The plan frame is checked
  with a region and the watchdog in behaviours of its own.  There is no cap on the wait
  for the slot, which makes `BatchesEnd` stronger.
* *cow_locked*: two slots and, for the refcount, a region and a watchdog.  Four levels
  with a gap of one and a window of two leave the boundary room to move, and a plan of more
  than two operations is cut into chunks.  `MaxLanded = 2` lets the first chunk of a batch
  land before the second fails, or two batches fail one after the other; one plan may be
  carried out beside what they left, which is where the properties but `BurstBounded` end.
* *fill_queue*: two fills, so that one arrives while another is processed; a queue of
  two, so that it may be full; four events are enough for two windows to overlap with
  a use of the lock.
* *fill_store*: two keys, so that batches overlap and a flush takes another call's
  key; three failures, so that both retries of a batch fail; one restart.  Three
  operations, of which any are fills: one below a notice's cursor, the notice's own and
  one above it; two refusals, so that a scan is refused and the one that repeats it too.
* *uncertain*: three orders, so that an unanswered order may have two successors;
  two slots of which one is matched by the other's order.
* *chain*: two orders, so that one may be the other's duplicate; four slots, so that
  the boundary may move over an order, by one slot at a time (`MaxShift = 1`);
  `EmptyLimit = 2`, where the code has 3, so that one empty read is refused and the second
  believed.  Wrong empty reads may follow each other and corrections may stay undrained
  through any number of batches.
* *recovery*: two attempts, the one in force and one whose record was replaced; two
  batches, so that one is in flight when the other ends.
* *credit*: two loans, so that a pass that stops at one leaves the other; ids up to
  five are a renewal of each and one more; the second mishap would only repeat the first.

`CHECK_DEADLOCK FALSE` in all runs but `credit`: the bounds on updates, events,
failures and orders stop the environment, and a process that has exited, or a grid with
nothing to do, really stops.  The symmetry sets are used only where no liveness
property is checked.

### Fairness

Nothing makes a fill, a timeout, a failure, a shutdown, an order update or a plan
happen.  Fair are only:

* the steps of a callback that runs (`Finish`, `BatchStep`, `FinishCycle`, ...): every
  `await` in them has a time limit in the code;
* timers that are armed and calls that `setImmediate` or a promise has scheduled;
* in `SyncGuard` not the sync itself, which may hang: that is what its timer is for;
* in `FillStore` the disk: in the end a write succeeds;
* in `UncertainBroadcast`, strongly, that a create batch is tried while slots are free
  (`Reject`), as every maintenance cycle does, and that not every read of a reconcile
  fails.  Without the last the journal may defer for ever, as the code intends;
* in `FundRecovery` and `StateRecovery` timers, probes and reads with a time limit; that
  a daemon stays up or batches stop is a hypothesis of `NeededIsServed`, not fairness;
* in `FillFeed` timers, and that a lost connection is tried again until one stands;
* in `CreditRuntime` the watchdog's interval and the steps of a pass;
* in `FileLock` a call that runs, the release of a lock that is held, and the ageing of a
  file nobody touches; that some process keeps asking is a hypothesis of
  `LeftoverIsCleared`.

### Findings

`PROJECT.json` (`findings`) quotes the lines.

1. `recovery_suspended`: a watchdog probe that fails once suspends the persistence of
   the grid, and the probe that succeeds later returns before it would resume it; only an
   outage that a write met leads there.
2. `lock_stolen`: a lock file whose `stat` fails counts as stale.  A contender that found
   the file, and looks at it when its holder has just released it, unlinks whatever is
   there next: the lock of a third process that is alive and goes on.

## Proofs

`tlapm <module>.tla` checks every obligation of `AsyncLockProofs`, `FillQueueProofs`,
`FillStoreProofs`, `PlanningProofs`, `ProcessProofs`, `RepairProofs`,
`UncertainBroadcastProofs` and `SeqLemmas`.  The theorems
hold for every value of the constants under the assumption each module names
(`LockAssumption`, `SyncAssumption`, ...), which are about types and disjointness
only.  Each proof has a lemma per action or group of actions, a lemma that `Next`
preserves the invariant, and the theorems.

* **AsyncLock**: `TypeOK`, `OneRunner`, `LockedIffRunning`, `NoLostWakeup`,
  `OneUnlocker`.  None is inductive alone.  That a stale `finally` block does not open
  the lock over a running callback needs `OneUnlocker` (which generation opens), that
  needs the runner to be unique, and that a queue item is not run twice needs the
  queue to hold exactly the waiting callers.  `_processQueue()` with its cancelled
  heads has one lemma (`ProcessQueueOpensOrRuns`) that all actions cite.
  The refinement, `ImplementsFifoMutex`, is proved step by step: the owner of the mutex
  is the one runner, its waiters are the queue, and every action is a `Request`, a
  `DropOut`, a `Release` or a stutter.  The cancelled heads that `_processQueue()` drops
  are why `Release` may pass over waiters, and `forceRelease()` is why all of them may be
  sent away at once; that the owner stays in place through both is what the theorem says.
* **SyncGuard**: `OneSyncRuns`, `FreshResult`.  The invariant: a running sync that has
  queued for `_syncLock` owns it, orphaned or not (`RunningOwns`), and a racing call that
  inherited no lock is inside the fill lock, its own or the consumer's, and alone there
  among its kind (`RacingInside`); any number of calls with an inherited context may race
  beside it.
* **CowBatch**: `TypeOK`, `NoLostUpdate` and `SettledReleases` with all frames;
  `StackExact` and `InsideMeansFlag` without recovery frames.  `NoLostUpdate` rests
  on `GridsHonest`: an unmarked, unrefreshed clone whose base is the current version
  *is* the master.  `SettledReleases` rests on `CallsCounted`, that `batchInFlight` is
  the number of executor calls under way (the set of them is finite, a leaving frame
  ends one or two), and on `SlotHasHolder`: two frames may claim the slot one after
  the other, and whichever leaves first opens it, but a taken slot has a holder that has
  not left.  The other two rest on `Alone`: the frames under the lock are active
  one at a time, so what is on the stack is the active frame's.  With recovery frames
  neither is true of the code: `_popWorkingGridRef()` takes whatever is on top.
* **FillQueue**: `TypeOK` with `FillsFollowedUp` is inductive.  The proof goes over
  every way a window or a lock use ends and shows who comes back.
* **FillStore**: the running call's key is recorded and credited exactly between its
  adjustments and its flush (`JobKeyOK`), a key not processed and not in work has no
  credit (`IdleUncredited`); from these `CreditedOnce` and `NothingForgotten`.
  `RetryArmed`, that a key whose flush was asked for has a timer, is inductive beside
  them; it is what the runs' `WrittenInTheEnd` hangs on.  `ExitKeepsCredits` needs that the final
  flush still waits for every credit that is not on disk (`FinalFlushCovers`).
* **UncertainBroadcast**: `ProtectedUntilDecided`, `NoSecondOrder`, `TypeOK`.  The count
  of live orders says too little, since an order in flight may land later:
  `DoubledGivenUp` speaks of slots with two orders live or in flight.  It is kept
  because, until a batch is sent, whatever its slots have loose was given up and the
  orders the grid holds for them are gone (`BeforeSend`); and because a doubled slot
  is loose whatever the grid is (`DoubledIsLoose`), so clearing the journal keeps
  account of it.  That a create batch is turned away while the journal holds entries
  is what makes `BeforeSend` true of a new plan.

* **FillFeed**: `NothingSkipped`, for any number of operations, faults, scans that end
  early and refusals.  It is not inductive: a scan that is
  under way moves the cursor when its answer comes, whatever happened meanwhile.
  `ScansCover` says that a scan which starts at the cursor was begun when nothing below
  was missing, and that later fills are above its start.  That the window below the
  cursor covers the gap is the assumption `MaxOp <= Lookback`.

* **Supervisor**: `NoStrayProcess`, by an invariant that ties every running process to
  the record of its app and every restart timer to an app without a process.  It needs
  that the names in `AppOrder` are unique, which `assertNoDuplicateBotKeys()` makes sure
  of.
* **ChainSync**: `OneSlotPerOrder` is inductive only with `SlotsOK`: an order that a slot
  holds has been on the chain, and if it still lives it stands on the slot's own level.
  That is why a twin found on the level, an order adopted there and a create that
  takes a new id cannot be held elsewhere.  `SyncSettles` follows from the same
  invariant, pass by pass: the first leaves each slot with the size of the read or on
  the wrong side, and the second adopts an order, refuses it in a gap slot, or lists it.
  `LiveOrdersKeepTheirSlot` is proved without a hypothesis on the surroundings; the property
  itself names the two steps that may take a live order from its slot, and the proof is that
  no other does.  The invariant adds that an order with a fill event under way is not
  untouched (`EventsOK`).
* **FundRecovery**: `OneWriter` with `RequestedMeansScheduled` is inductive; most of the
  proof shows what `Replace` does to the calls under way.
* **StateRecovery**: `OwedMeansArmed`, inductive with the shape of `rebalance` and
  `ChangesFly`: a grid is changed by the sync that runs and by batches that fly, and a plan,
  which takes over what is owed, starts when there are none.

* **CreditRuntime**: `NotTwice`, `RepaidIsRenewed`, `RenewOnlyOnce`, over
  `CreditTypesInvariant`.  Debt is a fold over a set of deals; the lemmas say what the sum
  is when one deal is added, taken away or reduced, by the library's facts on finite sets,
  and the steps use nothing else of it.  `NotTwice` counts, per loan, the debt on
  chain, what the requests in memory and file ask for and what the pass has in hand.
  `RepaidIsRenewed` needs `PlainOK`: under the plain policy what a pass has read of a
  debt is what it is, so a renewal repays its deal whole and finds it gone.
  `RenewOnlyOnce` needs `RenewOK`: every loan that was not served from another offer has one
  offer and at most one deal on the chain; a request is for a loan whose first deal is gone,
  no two requests are for the same one, and a deal that was borrowed for a request the loop
  has still to look at is in the view in which the loop will look for it.
* **Rebalance**: `NoSelfCross`, `OneOrderPerLevel`, `Tracked`, `BurstBounded`, all from
  the one invariant `RebalanceInv`:
  1. A plan is *sound* for the boundary it aims at (it takes orders the grid has and
     places orders in the rail of their side, on slots that are free or freed by it) and
     *distinct* (it touches no slot twice): `PlanOK`.  A lemma each says that retyping,
     rotations, the pairing of cancels and creates and the corrections keep it so.
     The pairing and the build are recursive functions over the plan; a computation of
     `n` steps exists (`PairWalks`, `BuildWalks`), by the induction over naturals that the
     least-number principle gives, and each step keeps the invariant of the walk.
  2. The operations that are built are `Apart` (none meets another of the batch) and
     `Uncrossed` (one placed beyond an order of the other side comes after the cancel of
     that order).  The second is the work of the executor's guards.
  3. While the batch is sent, every order on chain was placed by the first `pos`
     operations or is one of the grid they have left alone (`LiveOK`), and what a move
     took away can be put back without meeting anything (`HomeOK`), which the sync after a
     failed batch does.  `LandedOK` says the same of the operations that failed batches
     have landed.
  4. The commit keeps every order on chain (`KeepOK`), because the working grid holds
     whatever the operations leave.
  5. Distance from the start of the burst plus the budget left is within what the burst
     was given, a re-plan adding one budget (`Spent`).

  The invariant has two halves.  `ShapeOK` (types, a sound batch, a burst that pays) holds
  always, also when the bot plans on beside what failed batches left.  `Steady` (points 3
  and 4) holds while `adrift = 0`, and no longer: two orders on a level are reachable then.
  Each action has a lemma for either half, and `AdriftStays` says that the way back is
  closed.

Every safety and action property of a passing run is stated by a theorem.  Only
model-checked are the liveness properties (`WaitersSettle`, `CallsSettle`,
`LeftoverIsCleared`, `BatchesEnd`, `FillsTaken`, `EveryFillIsGiven`, `WrittenInTheEnd`,
`JournalDrains`, `RequestSettles`, `NeededIsServed`, `RequestsAreServed`): liveness and
`ENABLED` are out of the prover's reach.  `FileLock` has no theorem, because its one safety
claim is refuted, and with two contenders already: no part of mutual exclusion is left
once a contender may unlink a file it has judged stale while another replaces it.
## Plan

The order was by what is at stake: first the locks that everything relies on, then the
places where money is counted or sent, then what feeds them, then the processes around.

1. *(done)* `AsyncLock`, `SyncGuard`, `CowBatch`, `FillQueue`, `FillStore`,
   `UncertainBroadcast`, with their proofs.
2. *(done)* `ChainSync`, `Rebalance`: the grid against the chain and the plans that move it.
3. *(done)* `FundRecovery`, `StateRecovery`: the repairs.
4. *(done)* `FillFeed` with its proof, `CreditRuntime`, `FileLock`, `Supervisor`.
5. *(done)* Proofs for `ChainSync`, `FundRecovery`, `StateRecovery`, `Supervisor`,
   `CreditRuntime` and `Rebalance`, the steps of `ImplementsFifoMutex`, and
   `SettledReleases` with recovery batches.
6. *(open)* A composition of consumer, executor and journal over one lock; the feed with an
   abstract "delivered at least once" that the open-orders sync restores.

## Not modelled

Part by part in `PROJECT.json` (`components`).  For good: cryptography and serialisation
(functions of bytes), the numerical pipelines of the market adapter and of the research
tools, menus and settings; and the sizing of orders and funds, which is arithmetic on
reals without states of its own.  These are most of the repository's lines: `grid.ts`,
`accounting.ts` and `math.ts` hold mostly formulas, `src/market_adapter` and
`src/analysis` nothing else.  Code that runs before
the others start or beside them without sharing their state (the start-up reconcile, the
fund registry, the choice of a node) is left to its unit tests.

## Observations

Behaviour met while modelling that no property rules out, because the code allows it.
Lines are of the file named in the heading or beside them.

**Sync guard**
* A sync that lost its race goes on changing the grid after its call has left the
  fill lock, beside the consumer that enters next.
* The roll-back truncates the correction queue to its length at the start
  (`sync_engine.ts:450`).  If the consumer has taken entries meanwhile, entries of the
  discarded sync stay.

* The force-release timer of a sync that lost its race (`sync_engine.ts:494`) is not
  cleared when the orphan ends: the branch for a timeout returns at 462, before the
  `clearTimeout` at 464.  It then discards a later sync that was on time, although the
  comment at 491 ties it to "the inner operation".
* A fund recovery that nobody awaits, started inside a sync, inherits the contexts of both
  locks: its own sync does not queue for `_syncLock` (`sync_engine.ts:394`, `async_lock.ts`
  runs re-entrant calls at once) and may run beside another sync.
* Without `AsyncLocalStorage` a nested `acquire()` waits for the lock its own caller
  holds until its timeout (`async_lock.ts:166`).

**Batches**
* The broadcasting flag is raised at `dexbot_cow_runtime.ts:2716`; the returns at 3202,
  3211, 3228 and 3243 do not lower it.  It stays up until the 120 s watchdog, and the
  consumer defers meanwhile, although `manager.ts:668` calls it "Whether a broadcast is
  currently active".
* An error while results are processed lowers the refcount twice (3445 and 3459) and
  takes a region's share.
* The check of the single-flight slot (3241) and its claim (3246) are separated by an
  `await`.
* A recovery batch may push its grid above the grid of a fill batch.
* `syncFromMaster()` for a few slots (2023, 3187) renews `baseVersion` of the whole clone,
  so a stale clone passes the guard and overwrites other slots, against 3215 "a
  master-grid change during planning (fills, syncs) makes the working grid invalid".

**Rebalance**
* A divergence correction moves the boundary up at least one slot whenever the slot below
  it is a buy: the search begins at `maxBuyIdx + 1` (`order/utils/system.ts:1192-1208`),
  although 1172-1176 says that balanced funds leave the boundary where it is.
* A surplus cancel of an engine plan (`order/utils/validate.ts:439-447`) leaves the slot
  with the id of the cancelled order until a sync takes it for a fill.
* The budget of a boundary shift is consumed whichever way the fills pull, and by plans
  that fail; a re-plan restores all of it (`dexbot_cow_runtime.ts:2102-2104`), against
  `order/utils/order.ts:1608-1612`.
* The guard on the last fill keeps the last filled slot empty after mixed fills until the
  market moves.  A partly filled surplus order paired with a hole is skipped by the growth
  guard at every plan.
* `isCreateHealthy`, `stalePlacementDropReason` and the clamps change nothing in plans of
  the engine; the `crossed_book_geometry` check of `validateBoundaryCommit()` compares
  indices in an order that cannot occur.
* Uncertain chunks are followed by the next chunks (1330-1342), against 2684-2689.
* After a batch that failed behind a landed chunk the next fills are planned from a grid
  that does not know what landed: a definitive failure reconciles nothing
  (`dexbot_cow_runtime.ts:3540-3600`), an order of another size or one that is gone lets even
  the burst go on (`dexbot_fill_runtime.ts`, `dexbot_class.ts:1136-1148`).  A move that landed
  leaves no entry in the journal, so the next plan may put a second order on its level (ten
  steps in the model), or one beyond an order of the other side, which is a trade with
  itself (22 steps).  1247-1250 speak of "letting the caller's recovery machinery adopt the
  landed chunks' orders from the chain", 3455 of "next sync/reconcile will converge state".
* A create batch that is turned away because the journal has entries reconciles them without
  contexts (2530-2543): an order that is found on chain leaves the journal and is not adopted
  (718-743), one that is not found rewrites its slot even if that holds a live order by then
  (751-831).

**Start-up reconcile** (not modelled)
* `_adoptPossiblyLandedCreate()` takes one clean read without the order for authoritative
  absence (`order/grid_reconcile_internal.ts:1007-1053`): a create that lands later, or that
  was filled in between, is broadcast again.

**Fill queue**
* A restart scheduled inside the lock inherits its context and enters beside the
  holder; `async_lock.ts` promises at most one callback.
* A consumer that waited for the lock does not look at the gates again
  (`dexbot_fill_runtime.ts:662`).
* `grid_reconcile.ts:394` says "the fill consumer gates on it" of the broadcasting
  flag; the consumer's entry does not check it.
* A recovery sync and a reload of the persisted grid end without waking the consumer they
  deferred (`dexbot_state_recovery.ts:101`, `dexbot_maintenance_runtime.ts:2363`), against
  "The consumer NEVER permanently stops re-scheduling" (`dexbot_fill_runtime.ts:454`):
  the fills wait for the next fill or batch.
* Fills deferred around `dexbot_fill_runtime.ts:816` are not queued again and stay in
  the dedupe window; the fills of later blocks are lost when a cycle throws (1053).

**Fill feed**
* `_gapRecovery` is lowered as soon as the history is there (`subscriptions.ts:597`).  When
  a callback then throws, because the bot's queue is full (`dexbot_fill_runtime.ts:411-417`),
  the fills below the cursor are not asked for again, against 662-663 "The next
  notice-triggered scan or reconnect will re-fetch these fills" and
  `constants.ts:1697-1698`.
* A scan that ends at its page limit or deadline moves the cursor over entries it did not
  read.  The open-orders sync still finds such fills.
* The cursor may move backwards, which only repeats deliveries.
* A subscription that fails in `resubscribeAll()` is not retried: pushes stay off until
  the next reconnect, polls go on.

**Fill record**
* A key queued before its credit (`accounting.ts:1503`) may be written by another flush;
  if the credit then throws, the fill counts as processed and was never credited, against
  1498 and 1525.
* A crash between the credit and the write lets the fill be credited again after the
  restart (1513); the balances are read from the chain then.
* An immediate call succeeds without its key on disk if a timer's flush took the key
  and failed (`accounting.ts:1423`).
* Keys of orphan fills and of aborted cycles are queued with no flush and no timer.
* Adjustments applied before one throws are not taken back.
* `updateProcessedFillsBatch()` may overwrite newer timestamps.
* The record relies on one call at a time, which the nested consumers above break.

**Uncertain broadcasts**
* `collectKnownOnChainOrderIds()` reads `mgr.grid`, which does not exist (3656), so an
  adoption by id syncs with the new orders alone and frees every other slot, against 3641
  and 3646.
* A batch is sent again after a read that does not show it
  (`dexbot_cow_runtime.ts:1006`, "provably never transmitted"), while the first
  transaction stays valid for 300 s and the wait is 30 s.
* The retry drops the batch's entries (1166) and nothing records them again; the guard
  that the comment at 1153 relies on stands only at 2514.
* The commit of any batch clears the whole journal (3433).
* An update whose order is gone becomes a create behind the guard (3053).
* A reconcile without contexts drops entries it matched without adopting the order
  (719); an error while adopting does the same.
* A failed first read clears the journal (554, 578); a truncated or empty one defers.
  With an account that has no order left the entries stay (592).
* Entries of a batch that was never sent stay (3211).
* A create whose id the result does not name and no read shows becomes an empty slot
  (3318), and a near match may give two slots one id (3313).  The near match does not
  exclude orders that other slots hold (488).
* A refused empty read clears `_lastUnmatchedChainOrders` and so lifts the create
  block (`sync_engine.ts:468`).
* `_committedOrderIds` is built before the commit's own creates get their ids
  (`manager.ts:2113`), so it does not hold what `sync_engine.ts:930` says it protects.
* `executeBatch()` never returns `success: false`; 3436 to 3440 are never reached.

**Sync and corrections**
* Since `_committedOrderIds` lacks the newest orders, `SYNC_SUSPECT_EMPTY_READ_LIMIT` empty
  reads of a lagging node take live orders for filled; the counter counts reads of an
  account that is really empty too.
* A cancel-only entry may hit a slot that the size tiebreak has bound meanwhile; with
  corrections left over from a failed drain a correction clears a slot that holds another
  order by then (`order/utils/order.ts:545`).
* A sync that adopts the reduced size before the fill's event leads to the fill being
  counted twice.
* An order adopted into a slot of type spread is refused by `_applyOrderUpdate` and is then
  neither tracked nor unmatched.

**Recovery**
* Exhausted attempts are lifted by the periodic fetch alone
  (`dexbot_maintenance_runtime.ts:1265`), not by fills, against `constants.ts:857`, 871.
* A deferred first attempt sets the count back to 0 and so skips the cooldown; one whose
  record was copied meanwhile uses up an attempt (`accounting.ts:836-842`), and the copy
  keeps `inFlight` until the periodic reset.
* A recovery sync that throws behind its writes (`dexbot_state_recovery.ts:85-98`, for
  instance in `persistGrid()` at 87) leaves a changed grid without the rebalance that 94
  would have scheduled, though 97 says "Preserving current state"; so does a targeted
  repair of drifted orders that fails half way.
* The structural reload is not kept out by holders of the fill lock (2356-2361); the
  consumer's gates are not looked at again either (`dexbot_fill_runtime.ts:662`).
* A recovery sync requested while one is in flight is dropped.
* The end of a credential recovery lowers `_credentialRecoveryNeeded` even if it was raised
  again meanwhile.  `persistGrid()` while suspended reports success, and
  `persistGridAndClearPendingBroadcasts()` then clears the journal.

**Credit**
* A reborrow that cannot be made at once for a piece of a split is dropped with a warning
  (`credit_runtime.ts:2134-2137`), against `docs/MPA_CREDIT_USAGE.md:266`; so is that of a
  whole deal when the cap is a percentage, since the cache was filled before the repay.
* A lost answer at the retry is borrowed twice when the policy is not renew-only.
* A request that is served from a fallback offer (2238-2281), whose answer is lost or whose
  process dies before the loop ends, is served twice under renew-only: 2645-2665 looks among
  the deals of the request's own offer.
* Under renew-only an unrelated newer deal of the same offer counts as the replacement
  (2645-2665); a replacement that expires before its request is looked at is not seen.
* A collateral switch leaves a request that can never be built.  An MPA update that keeps
  throwing ends every pass before its credit items.  A request in memory reaches the file
  only after the pass.

**Processes**
* Two contenders at a file a crash has left may both judge it stale; the second unlinks the
  lock of the first.  Releasing a file that cannot be read unlinks it, whoever's it is.
* `acquirePathLockSync()` returns a lock without its heartbeat (`file_lock.ts:288`), so the
  interval is never cleared: it touches the path as long as the process lives, and a lock
  that another process leaves there never goes stale (this variant does not check pids).
* A bot stopped by command that exits uncleanly is restarted; so is one that a memory check
  meets while it stops.  Restart timers outlive a stop of all bots.  A shutdown while an
  app waits for its restart timer waits for its own time limit.  A crashed app cannot be
  restarted by command (`bot_supervisor.ts:687`).
* A second call of `shutdown()` overwrites `shutdownResolve`; the first promise then waits
  for its timers.
* A second SIGTERM or SIGINT makes `executeCleanup()` return at once
  (`graceful_shutdown.ts:133-136`), and the handler exits the process while the first
  cleanup is still running.
