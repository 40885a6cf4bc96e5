------------------------------ MODULE SyncGuard ------------------------------
(***************************************************************************)
(* The time limit around an open-orders sync: syncFromOpenOrders() of      *)
(* modules/order/sync_engine.ts.  A call takes _fillProcessingLock (unless *)
(* its caller holds it), then races the sync proper, run under _syncLock,  *)
(* against a timer.  A call that loses the race returns an error and       *)
(* leaves _fillProcessingLock while its sync runs on as an orphan, and     *)
(* starts a second timer that force-releases _syncLock.                    *)
(*                                                                         *)
(* Both locks are the FIFO mutexes that AsyncLock implements; forceRelease *)
(* drops the waiters and leaves the owner in place.  The other user of     *)
(* _fillProcessingLock is the fill consumer.                               *)
(*                                                                         *)
(* isReentrant() asks for the async context, not for the lock: work that   *)
(* was started inside a lock and runs on after it (a consumer restarted by *)
(* setImmediate, a fund recovery nobody awaits) still passes.  Such a call *)
(* skips the queue of each lock whose context it carries.                  *)
(***************************************************************************)
EXTENDS Naturals, SequencesExt, FiniteSets

CONSTANTS
    Syncs,           \* calls of syncFromOpenOrders(), one each
    Leftovers,       \* those that work which outlived a lock may make
    Consumer,        \* the fill consumer
    Nobody,
    MaxCorrections   \* bound on queued price corrections

ASSUME SyncAssumption ==
    /\ Consumer \notin Syncs /\ Nobody \notin Syncs /\ Consumer # Nobody
    /\ Leftovers \subseteq Syncs /\ MaxCorrections \in Nat

VARIABLES
    fillOwner,       \* owner of _fillProcessingLock
    fillWaiters,     \* its queue
    syncOwner,       \* owner of _syncLock, an orphan included
    syncWaiters,     \* its queue
    syncGeneration,  \* _syncGeneration
    call,            \* "idle", "fillwait", "racing" or "settled"
    result,          \* what the caller got: "none", "ok", "empty", "timeout", "rejected"
    inner,           \* the sync itself: "none", "waiting", "running", "ended", "dropped"
    captured,        \* captureGeneration
    preLen,          \* preSyncCorrectionLen
    releaseTimer,    \* forceReleaseHandle is armed
    inherited,       \* the locks whose context a call carries unowned: "none", "fill", "both"
    corrections      \* entries of ordersNeedingPriceCorrection

locks == <<fillOwner, fillWaiters, syncOwner, syncWaiters>>
vars == <<fillOwner, fillWaiters, syncOwner, syncWaiters, syncGeneration, call,
          result, inner, captured, preLen, releaseTimer, inherited, corrections>>

Init ==
    /\ fillOwner = Nobody /\ fillWaiters = <<>>
    /\ syncOwner = Nobody /\ syncWaiters = <<>>
    /\ syncGeneration = 0
    /\ call = [s \in Syncs |-> "idle"]
    /\ result = [s \in Syncs |-> "none"]
    /\ inner = [s \in Syncs |-> "none"]
    /\ captured = [s \in Syncs |-> 0]
    /\ preLen = [s \in Syncs |-> 0]
    /\ releaseTimer = [s \in Syncs |-> FALSE]
    /\ inherited = [s \in Syncs |-> "none"]
    /\ corrections = 0

-----------------------------------------------------------------------------
NextOf(q) == IF q = <<>> THEN Nobody ELSE Head(q)
RestOf(q) == IF q = <<>> THEN <<>> ELSE Tail(q)

\* The calls in S settle with outcome r; one of them may have owned the fill lock.
SettleCalls(S, r) ==
    /\ call' = [s \in Syncs |-> IF s \in S THEN "settled" ELSE call[s]]
    /\ result' = [s \in Syncs |-> IF s \in S THEN r ELSE result[s]]
    /\ IF fillOwner \in S
         THEN fillOwner' = NextOf(fillWaiters) /\ fillWaiters' = RestOf(fillWaiters)
         ELSE UNCHANGED <<fillOwner, fillWaiters>>

\* The end of the callback of _syncLock.acquire(): a nested one held nothing.
ReleaseSyncLock(s) == IF inherited[s] = "both" THEN UNCHANGED <<syncOwner, syncWaiters>> ELSE
    /\ syncOwner' = NextOf(syncWaiters)
    /\ syncWaiters' = RestOf(syncWaiters)

\* From outside the fill lock: queue for it.
Call(s) ==
    /\ call[s] = "idle"
    /\ call' = [call EXCEPT ![s] = "fillwait"]
    /\ IF fillOwner = Nobody
         THEN fillOwner' = s /\ UNCHANGED fillWaiters
         ELSE fillWaiters' = Append(fillWaiters, s) /\ UNCHANGED fillOwner
    /\ UNCHANGED <<syncOwner, syncWaiters, syncGeneration, result, inner, captured,
                   preLen, releaseTimer, inherited, corrections>>

\* Serial calls hold the fill lock themselves or are awaited by the consumer that does.
Racing == {s \in Syncs : call[s] = "racing"}
Serial == {s \in Syncs : inherited[s] = "none"}

\* The consumer awaits a sync it called itself; otherwise it goes on.
ConsumerFree == fillOwner = Consumer /\ Racing \cap Serial = {}

\* isReentrant(): the lock is one's own or the caller's, or its context is inherited
\* from a pass that may have left the lock long ago.
StartRace(s) ==
    /\ \/ call[s] = "fillwait" /\ fillOwner = s /\ UNCHANGED inherited
       \/ call[s] = "idle" /\ ConsumerFree /\ UNCHANGED inherited
       \/ /\ call[s] = "idle" /\ s \in Leftovers
          /\ inherited' = [inherited EXCEPT ![s] = "fill"]
    /\ call' = [call EXCEPT ![s] = "racing"]
    /\ captured' = [captured EXCEPT ![s] = syncGeneration]
    /\ inner' = [inner EXCEPT ![s] = "waiting"]
    /\ IF syncOwner = Nobody
         THEN syncOwner' = s /\ UNCHANGED syncWaiters
         ELSE syncWaiters' = Append(syncWaiters, s) /\ UNCHANGED syncOwner
    /\ UNCHANGED <<fillOwner, fillWaiters, syncGeneration, result, preLen,
                   releaseTimer, corrections>>

\* A recovery that a sync, this or an earlier one, set off and did not await: _syncLock
\* lets it in at once.
StartNested(s) ==
    /\ call[s] = "idle" /\ s \in Leftovers
    /\ inherited' = [inherited EXCEPT ![s] = "both"]
    /\ call' = [call EXCEPT ![s] = "racing"]
    /\ captured' = [captured EXCEPT ![s] = syncGeneration]
    /\ inner' = [inner EXCEPT ![s] = "running"]
    /\ preLen' = [preLen EXCEPT ![s] = corrections]
    /\ UNCHANGED <<locks, syncGeneration, result, releaseTimer, corrections>>

\* What the callback of _syncLock.acquire() had captured goes with it.
CallbackEnds(s) ==
    /\ inner' = [inner EXCEPT ![s] = "ended"]
    /\ captured' = [captured EXCEPT ![s] = 0]
    /\ preLen' = [preLen EXCEPT ![s] = 0]
    /\ ReleaseSyncLock(s)

\* The callback of _syncLock.acquire() starts: a changed generation abandons it.
EnterSync(s) ==
    /\ syncOwner = s
    /\ inner[s] = "waiting"
    /\ IF syncGeneration = captured[s]
         THEN /\ inner' = [inner EXCEPT ![s] = "running"]
              /\ preLen' = [preLen EXCEPT ![s] = corrections]
              /\ UNCHANGED <<locks, call, result, captured>>
         ELSE /\ CallbackEnds(s)
              /\ IF call[s] = "racing"
                   THEN SettleCalls({s}, "empty")
                   ELSE UNCHANGED <<fillOwner, fillWaiters, call, result>>
    /\ UNCHANGED <<syncGeneration, releaseTimer, inherited, corrections>>

\* The reconciliation flags a mispriced order.
PushCorrection(s) ==
    /\ inner[s] = "running"
    /\ corrections < MaxCorrections
    /\ corrections' = corrections + 1
    /\ UNCHANGED <<locks, syncGeneration, call, result, inner, captured, preLen,
                   releaseTimer, inherited>>

\* Mutation: the generation is not looked at again after the sync.
KeepAlways(s) == TRUE
KeepResult(s) == syncGeneration = captured[s]

\* The sync returns: a changed generation discards its result and truncates the
\* correction queue; a call that is still racing gets the result.
FinishSync(s) ==
    /\ inner[s] = "running"
    /\ CallbackEnds(s)
    /\ IF KeepResult(s)
         THEN UNCHANGED corrections
         ELSE corrections' = Min({corrections, preLen[s]})
    /\ IF call[s] = "racing"
         THEN SettleCalls({s}, IF KeepResult(s) THEN "ok" ELSE "empty")
         ELSE UNCHANGED <<fillOwner, fillWaiters, call, result>>
    /\ UNCHANGED <<syncGeneration, releaseTimer, inherited>>

\* Mutation: the timer starts once _syncLock is granted.
TimeoutOfRunning(s) ==
    /\ call[s] = "racing" /\ inner[s] = "running"
    /\ SettleCalls({s}, "timeout")
    /\ releaseTimer' = [releaseTimer EXCEPT ![s] = TRUE]
    /\ UNCHANGED <<syncOwner, syncWaiters, syncGeneration, inner, captured, preLen,
                   inherited, corrections>>

\* The race timer fires first.
RaceTimeout(s) ==
    /\ call[s] = "racing"
    /\ SettleCalls({s}, "timeout")
    /\ releaseTimer' = [releaseTimer EXCEPT ![s] = TRUE]
    /\ UNCHANGED <<syncOwner, syncWaiters, syncGeneration, inner, captured, preLen,
                   inherited, corrections>>

\* A call gives up waiting for the fill lock (its acquire timeout).
FillWaitTimeout(s) ==
    /\ \E i \in 1 .. Len(fillWaiters) :
          fillWaiters[i] = s /\ fillWaiters' = RemoveAt(fillWaiters, i)
    /\ call' = [call EXCEPT ![s] = "settled"]
    /\ result' = [result EXCEPT ![s] = "timeout"]
    /\ UNCHANGED <<fillOwner, syncOwner, syncWaiters, syncGeneration, inner, captured,
                   preLen, releaseTimer, inherited, corrections>>

\* Mutation: the owner is cleared along with the queue.
OwnerDropped == Nobody
OwnerAfterForceRelease == syncOwner

\* The force-release timer of s fires, whoever holds _syncLock by then.
ForceRelease(s) ==
    /\ releaseTimer[s]
    /\ releaseTimer' = [releaseTimer EXCEPT ![s] = FALSE]
    /\ IF syncOwner = Nobody
         THEN UNCHANGED <<locks, syncGeneration, call, result, inner, captured>>
         ELSE LET waiting == {t \in Syncs : \E i \in 1 .. Len(syncWaiters) : syncWaiters[i] = t}
              IN /\ syncGeneration' = syncGeneration + 1
                 /\ syncOwner' = OwnerAfterForceRelease
                 /\ syncWaiters' = <<>>
                 /\ inner' = [t \in Syncs |-> IF t \in waiting THEN "dropped" ELSE inner[t]]
                 /\ captured' = [t \in Syncs |-> IF t \in waiting THEN 0 ELSE captured[t]]
                 /\ SettleCalls({t \in waiting : call[t] = "racing"}, "rejected")
    /\ UNCHANGED <<preLen, inherited, corrections>>

-----------------------------------------------------------------------------
\* The fill consumer: takes the fill lock, corrects orders, leaves it.
ConsumerEnters ==
    /\ fillOwner # Consumer
    /\ \A i \in 1 .. Len(fillWaiters) : fillWaiters[i] # Consumer
    /\ IF fillOwner = Nobody
         THEN fillOwner' = Consumer /\ UNCHANGED fillWaiters
         ELSE fillWaiters' = Append(fillWaiters, Consumer) /\ UNCHANGED fillOwner
    /\ UNCHANGED <<syncOwner, syncWaiters, syncGeneration, call, result, inner,
                   captured, preLen, releaseTimer, inherited, corrections>>

\* Restarted by setImmediate inside the lock, a consumer works on without it.
ConsumerCorrects ==
    /\ corrections > 0
    /\ corrections' = corrections - 1
    /\ UNCHANGED <<locks, syncGeneration, call, result, inner, captured, preLen,
                   releaseTimer, inherited>>

ConsumerLeaves ==
    /\ ConsumerFree
    /\ fillOwner' = NextOf(fillWaiters)
    /\ fillWaiters' = RestOf(fillWaiters)
    /\ UNCHANGED <<syncOwner, syncWaiters, syncGeneration, call, result, inner,
                   captured, preLen, releaseTimer, inherited, corrections>>

Next ==
    \/ \E s \in Syncs : \/ Call(s) \/ StartRace(s) \/ StartNested(s) \/ EnterSync(s)
                        \/ PushCorrection(s) \/ FinishSync(s) \/ RaceTimeout(s)
                        \/ FillWaitTimeout(s) \/ ForceRelease(s)
    \/ ConsumerEnters \/ ConsumerCorrects \/ ConsumerLeaves

Spec == Init /\ [][Next]_vars

\* Timers fire, callbacks that were granted a lock start, and the consumer does
\* not keep the lock forever.  A sync itself may hang: no fairness on FinishSync.
SyncFairness ==
    /\ \A s \in Syncs : /\ WF_vars(StartRace(s) /\ call[s] = "fillwait")
                        /\ WF_vars(RaceTimeout(s))
                        /\ WF_vars(FillWaitTimeout(s))
    /\ SF_vars(ConsumerLeaves)

-----------------------------------------------------------------------------
TypeOK ==
    /\ fillOwner \in Syncs \cup {Consumer, Nobody}
    /\ fillWaiters \in Seq(Syncs \cup {Consumer})
    /\ syncOwner \in Syncs \cup {Nobody}
    /\ syncWaiters \in Seq(Syncs)
    /\ syncGeneration \in Nat
    /\ call \in [Syncs -> {"idle", "fillwait", "racing", "settled"}]
    /\ result \in [Syncs -> {"none", "ok", "empty", "timeout", "rejected"}]
    /\ inner \in [Syncs -> {"none", "waiting", "running", "ended", "dropped"}]
    /\ captured \in [Syncs -> Nat]
    /\ preLen \in [Syncs -> Nat]
    /\ releaseTimer \in [Syncs -> BOOLEAN]
    /\ inherited \in [Syncs -> {"none", "fill", "both"}]
    /\ corrections \in 0 .. MaxCorrections

(***************************************************************************)
(* Of the syncs that queue for _syncLock one runs at a time, orphans and   *)
(* those that slip past _fillProcessingLock included, across forced        *)
(* releases: a sync that lost its race keeps _syncLock until it really     *)
(* ends.  (A recovery nested in a sync does not queue, and may run beside  *)
(* another sync.)                                                          *)
(***************************************************************************)
OneSyncRuns ==
    \A s, t \in Syncs : (/\ inner[s] = "running" /\ inherited[s] # "both"
                         /\ inner[t] = "running" /\ inherited[t] # "both") => s = t

(***************************************************************************)
(* A caller is given a result only if no forced release happened between   *)
(* its call and the end of its sync; and while a call that holds the fill  *)
(* lock, or that its holder awaits, gets its result, no other such call is *)
(* racing, whatever calls race beside it with an inherited context.        *)
(***************************************************************************)
FreshResult ==
    [][\A s \in Syncs : (result[s] = "none" /\ result'[s] = "ok")
          => /\ syncGeneration = captured[s]
             /\ s \in Serial => Racing \cap Serial = {s}]_vars

\* Every call settles although syncs may hang forever.
CallsSettle == \A s \in Syncs : (call[s] # "idle") ~> (call[s] = "settled")
=============================================================================
