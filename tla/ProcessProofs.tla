---------------------------- MODULE ProcessProofs ----------------------------
(***************************************************************************)
(* Proofs about SyncGuard for any set of sync calls: syncs run one at a    *)
(* time, and a result that is handed to a caller is fresh.  Proofs about   *)
(* Supervisor for any apps: no process is lost sight of.  Proofs about     *)
(* CreditRuntime for any offers and loans: a loan is renewed once.         *)
(***************************************************************************)
EXTENDS SyncGuard, Supervisor, CreditRuntime, FiniteSetTheorems, WellFoundedInduction, TLAPS

CallStates == {"idle", "fillwait", "racing", "settled"}
InnerStates == {"none", "waiting", "running", "ended", "dropped"}

Shapes ==
    /\ call \in [Syncs -> CallStates]
    /\ inner \in [Syncs -> InnerStates]
    /\ inherited \in [Syncs -> {"none", "fill", "both"}]
    /\ DOMAIN result = Syncs

\* A running sync that has queued for _syncLock owns it, orphan or not.
RunningOwns ==
    \A s \in Syncs : inner[s] = "running" /\ inherited[s] # "both" => syncOwner = s

\* A racing call that inherited no lock is inside the fill lock, its own or the
\* consumer's, and alone there.
RacingInside ==
    \A s \in Racing \cap Serial :
        fillOwner \in {s, Consumer} /\ Racing \cap Serial = {s}

IInv == Shapes /\ RunningOwns /\ RacingInside

-----------------------------------------------------------------------------
LEMMA InitIInv == Init => IInv
  BY SyncAssumption DEF Init, IInv, Shapes, RunningOwns, RacingInside, Racing, Serial,
     CallStates, InnerStates

\* Settling calls keeps the racing ones inside the fill lock.
LEMMA SettleKeeps ==
    ASSUME IInv, NEW S \in SUBSET Syncs, NEW r, SettleCalls(S, r), inherited' = inherited
    PROVE  /\ call' \in [Syncs -> CallStates] /\ DOMAIN result' = Syncs
           /\ RacingInside'
  <1>1. call' \in [Syncs -> CallStates] /\ DOMAIN result' = Syncs
    BY DEF IInv, Shapes, CallStates, SettleCalls
  <1>2. \A t \in Syncs : call'[t] = "racing" => call[t] = "racing" /\ t \notin S
    BY DEF IInv, Shapes, SettleCalls
  <1>3. (Racing \cap Serial)' \subseteq (Racing \cap Serial) \ S
    BY <1>2 DEF Racing, Serial
  <1>4. SUFFICES ASSUME NEW s \in (Racing \cap Serial)'
                 PROVE  fillOwner' \in {s, Consumer} /\ (Racing \cap Serial)' = {s}
    BY <1>1 DEF RacingInside
  <1>5. s \in Syncs /\ s \notin S /\ fillOwner \in {s, Consumer} /\ Racing \cap Serial = {s}
    BY <1>3, <1>4 DEF IInv, RacingInside, Racing
  <1>6. fillOwner' = fillOwner
    BY <1>5, SyncAssumption DEF SettleCalls
  <1> QED BY <1>3, <1>4, <1>5, <1>6

\* The end of a callback of _syncLock leaves every other one its lock.
LEMMA EndKeeps ==
    ASSUME IInv, NEW s \in Syncs, CallbackEnds(s), inherited' = inherited,
           syncOwner = s \/ inherited[s] = "both"
    PROVE  inner' \in [Syncs -> InnerStates] /\ RunningOwns'
  <1>1. inner' = [inner EXCEPT ![s] = "ended"]
    BY DEF CallbackEnds
  <1>2. inner' \in [Syncs -> InnerStates]
    BY <1>1 DEF IInv, Shapes, InnerStates
  <1>3. CASE inherited[s] = "both"
    BY <1>1, <1>2, <1>3 DEF CallbackEnds, ReleaseSyncLock, IInv, Shapes, RunningOwns
  <1>4. CASE syncOwner = s
    BY <1>1, <1>2, <1>4 DEF IInv, Shapes, RunningOwns
  <1> QED BY <1>2, <1>3, <1>4

\* A step that leaves the calls, the fill lock and the contexts alone.
LEMMA RacingKeeps ==
    ASSUME IInv, UNCHANGED <<call, inherited, fillOwner>>
    PROVE  RacingInside'
  BY DEF IInv, RacingInside, Racing, Serial

\* Every step preserves the invariant.
LEMMA NextIInv == IInv /\ [Next]_vars => IInv'
  <1> SUFFICES ASSUME IInv, [Next]_vars PROVE IInv'
    OBVIOUS
  <1> USE SyncAssumption
  <1>1. ASSUME NEW s \in Syncs, Call(s) PROVE IInv'
    <2>1. call' \in [Syncs -> CallStates] /\ Shapes' /\ RunningOwns'
      BY <1>1 DEF IInv, Shapes, RunningOwns, CallStates, Call
    <2>2. (Racing \cap Serial)' = Racing \cap Serial
      BY <1>1 DEF IInv, Shapes, Call, Racing, Serial
    <2>3. fillOwner' = fillOwner \/ fillOwner = Nobody
      BY <1>1 DEF Call
    <2>4. Racing \cap Serial # {} => fillOwner # Nobody
      BY DEF IInv, RacingInside, Racing
    <2>5. RacingInside'
      BY <2>2, <2>3, <2>4 DEF IInv, RacingInside
    <2> QED BY <2>1, <2>5 DEF IInv
  <1>2. ASSUME NEW s \in Syncs, StartRace(s) PROVE IInv'
    <2>1. Shapes'
      BY <1>2 DEF IInv, Shapes, CallStates, InnerStates, StartRace
    <2>2. RunningOwns'
      BY <1>2 DEF IInv, Shapes, RunningOwns, StartRace
    <2>3. fillOwner' = fillOwner /\ call' = [call EXCEPT ![s] = "racing"]
      BY <1>2 DEF StartRace
    <2>4. CASE inherited' = [inherited EXCEPT ![s] = "fill"] /\ call[s] = "idle"
      <3>1. (Racing \cap Serial)' = Racing \cap Serial
        BY <2>3, <2>4 DEF IInv, Shapes, Racing, Serial
      <3>2. RacingInside'
        BY <2>3, <3>1 DEF IInv, RacingInside
      <3> QED BY <2>1, <2>2, <3>2 DEF IInv
    <2>5. CASE inherited' = inherited /\ fillOwner \in {s, Consumer} /\ Racing \cap Serial = {}
      <3>1. (Racing \cap Serial)' \subseteq (Racing \cap Serial) \cup {s}
        BY <2>3, <2>5 DEF IInv, Shapes, Racing, Serial
      <3>2. RacingInside'
        BY <2>3, <2>5, <3>1 DEF RacingInside
      <3> QED BY <2>1, <2>2, <3>2 DEF IInv
    <2>6. (call[s] = "fillwait" /\ fillOwner = s) => Racing \cap Serial = {}
      BY DEF IInv, RacingInside, Racing
    <2> QED BY <1>2, <2>4, <2>5, <2>6 DEF StartRace, ConsumerFree
  <1>2a. ASSUME NEW s \in Syncs, StartNested(s) PROVE IInv'
    <2>1. Shapes' /\ RunningOwns'
      BY <1>2a DEF IInv, Shapes, RunningOwns, CallStates, InnerStates, StartNested, locks
    <2>2. (Racing \cap Serial)' = Racing \cap Serial
      BY <1>2a DEF IInv, Shapes, StartNested, Racing, Serial
    <2>3. RacingInside'
      BY <1>2a, <2>2 DEF StartNested, locks, IInv, RacingInside
    <2> QED BY <2>1, <2>3 DEF IInv
  <1>3. ASSUME NEW s \in Syncs, EnterSync(s) PROVE IInv'
    <2>1. CASE syncGeneration = captured[s]
      <3>1. Shapes' /\ RunningOwns'
        BY <1>3, <2>1 DEF IInv, Shapes, RunningOwns, InnerStates, EnterSync, locks
      <3>2. RacingInside'
        BY <1>3, <2>1, RacingKeeps DEF EnterSync, locks
      <3> QED BY <3>1, <3>2 DEF IInv
    <2>2. CASE syncGeneration # captured[s]
      <3>1. CallbackEnds(s) /\ syncOwner = s /\ inherited' = inherited
        BY <1>3, <2>2 DEF EnterSync
      <3>2. inner' \in [Syncs -> InnerStates] /\ RunningOwns'
        BY <3>1, EndKeeps
      <3>3. CASE call[s] = "racing"
        <4>1. SettleCalls({s}, "empty")
          BY <1>3, <2>2, <3>3 DEF EnterSync
        <4> QED BY <3>1, <3>2, <4>1, SettleKeeps DEF IInv, Shapes
      <3>4. CASE call[s] # "racing"
        <4>1. UNCHANGED <<call, fillOwner, result>>
          BY <1>3, <2>2, <3>4 DEF EnterSync
        <4> QED BY <3>1, <3>2, <4>1, RacingKeeps DEF IInv, Shapes
      <3> QED BY <3>3, <3>4
    <2> QED BY <2>1, <2>2
  <1>4. ASSUME NEW s \in Syncs, PushCorrection(s) PROVE IInv'
    BY <1>4, RacingKeeps DEF IInv, Shapes, RunningOwns, PushCorrection, locks
  <1>5. ASSUME NEW s \in Syncs, FinishSync(s) PROVE IInv'
    <2>1. CallbackEnds(s) /\ inherited' = inherited /\ (syncOwner = s \/ inherited[s] = "both")
      BY <1>5 DEF FinishSync, IInv, RunningOwns
    <2>2. inner' \in [Syncs -> InnerStates] /\ RunningOwns'
      BY <2>1, EndKeeps
    <2>3. CASE call[s] = "racing"
      <3>1. PICK r : SettleCalls({s}, r)
        BY <1>5, <2>3 DEF FinishSync
      <3> QED BY <2>1, <2>2, <3>1, SettleKeeps DEF IInv, Shapes
    <2>4. CASE call[s] # "racing"
      <3>1. UNCHANGED <<call, fillOwner, result>>
        BY <1>5, <2>4 DEF FinishSync
      <3> QED BY <2>1, <2>2, <3>1, RacingKeeps DEF IInv, Shapes
    <2> QED BY <2>3, <2>4
  <1>6. ASSUME NEW s \in Syncs, RaceTimeout(s) PROVE IInv'
    <2>1. SettleCalls({s}, "timeout") /\ UNCHANGED <<inner, syncOwner, inherited>>
      BY <1>6 DEF RaceTimeout
    <2> QED BY <2>1, SettleKeeps DEF IInv, Shapes, RunningOwns
  <1>7. ASSUME NEW s \in Syncs, FillWaitTimeout(s) PROVE IInv'
    <2>1. Shapes' /\ RunningOwns'
      BY <1>7 DEF IInv, Shapes, RunningOwns, CallStates, FillWaitTimeout
    <2>2. (Racing \cap Serial)' \subseteq Racing \cap Serial /\ fillOwner' = fillOwner
      BY <1>7 DEF IInv, Shapes, FillWaitTimeout, Racing, Serial
    <2>3. RacingInside'
      BY <2>2 DEF IInv, RacingInside
    <2> QED BY <2>1, <2>3 DEF IInv
  <1>8. ASSUME NEW s \in Syncs, ForceRelease(s) PROVE IInv'
    <2>1. CASE syncOwner = Nobody
      BY <1>8, <2>1, RacingKeeps DEF ForceRelease, IInv, Shapes, RunningOwns, locks
    <2>2. CASE syncOwner # Nobody
      <3> DEFINE W == {t \in Syncs : \E i \in 1 .. Len(syncWaiters) : syncWaiters[i] = t}
                 S == {t \in W : call[t] = "racing"}
      <3>1. /\ syncOwner' = syncOwner /\ inherited' = inherited
            /\ inner' = [t \in Syncs |-> IF t \in W THEN "dropped" ELSE inner[t]]
            /\ SettleCalls(S, "rejected")
        BY <1>8, <2>2 DEF ForceRelease, OwnerAfterForceRelease
      <3>0. S \in SUBSET Syncs
        OBVIOUS
      <3> HIDE DEF W
      <3>2. inner' \in [Syncs -> InnerStates] /\ RunningOwns'
        BY <3>1 DEF IInv, Shapes, RunningOwns, InnerStates
      <3> HIDE DEF S
      <3> QED BY <3>0, <3>1, <3>2, SettleKeeps DEF IInv, Shapes
    <2> QED BY <2>1, <2>2
  <1>9. ASSUME ConsumerEnters PROVE IInv'
    <2>1. UNCHANGED <<call, inherited, inner, syncOwner, result>>
      BY <1>9 DEF ConsumerEnters
    <2>2. fillOwner' = fillOwner \/ (fillOwner = Nobody /\ fillOwner' = Consumer)
      BY <1>9 DEF ConsumerEnters
    <2>3. RacingInside'
      BY <2>1, <2>2 DEF IInv, RacingInside, Racing, Serial
    <2> QED BY <2>1, <2>3 DEF IInv, Shapes, RunningOwns
  <1>10. ASSUME ConsumerCorrects PROVE IInv'
    BY <1>10, RacingKeeps DEF ConsumerCorrects, IInv, Shapes, RunningOwns, locks
  <1>11. ASSUME ConsumerLeaves PROVE IInv'
    <2>1. UNCHANGED <<call, inherited, inner, syncOwner, result>> /\ Racing \cap Serial = {}
      BY <1>11 DEF ConsumerLeaves, ConsumerFree
    <2> QED BY <2>1 DEF IInv, Shapes, RunningOwns, RacingInside, Racing, Serial
  <1>12. CASE UNCHANGED vars
    BY <1>12, RacingKeeps DEF vars, IInv, Shapes, RunningOwns
  <1> QED BY <1>1, <1>2, <1>2a, <1>3, <1>4, <1>5, <1>6, <1>7, <1>8, <1>9, <1>10, <1>11,
             <1>12 DEF Next

(***************************************************************************)
(* Of the syncs that queue for _syncLock one runs at a time, orphans       *)
(* included: syncFromOpenOrders(), whatever forceRelease() did in between  *)
(* and whatever calls slip past _fillProcessingLock.                       *)
(***************************************************************************)
THEOREM SyncsExclusive == Spec => []OneSyncRuns
  <1>1. IInv => OneSyncRuns
    BY DEF IInv, RunningOwns, OneSyncRuns
  <1> QED BY <1>1, InitIInv, NextIInv, PTL DEF Spec

(***************************************************************************)
(* A result reaches its caller only if no forced release came between the  *)
(* call and the end of its sync; and of the calls that hold the fill lock  *)
(* or are awaited by its holder, only one races at a time.                 *)
(***************************************************************************)
THEOREM ResultsFresh == Spec => FreshResult
  <1> DEFINE A == \A s \in Syncs : (result[s] = "none" /\ result'[s] = "ok")
                     => /\ syncGeneration = captured[s]
                        /\ s \in Serial => Racing \cap Serial = {s}
  <1>1. IInv /\ [Next]_vars => [A]_vars
    <2> SUFFICES ASSUME IInv, Next,
                        NEW s \in Syncs, result[s] = "none", result'[s] = "ok"
                 PROVE  /\ syncGeneration = captured[s]
                        /\ s \in Serial => Racing \cap Serial = {s}
      OBVIOUS
    <2> USE SyncAssumption
    <2>1. \A S, r : SettleCalls(S, r) => (s \in S /\ r = "ok")
      BY DEF SettleCalls
    <2>2. \A t \in Syncs : FinishSync(t) => t = s /\ KeepResult(s) /\ call[s] = "racing"
      BY <2>1 DEF FinishSync
    <2>3. \A t \in Syncs : ~EnterSync(t) /\ ~RaceTimeout(t) /\ ~ForceRelease(t)
      BY <2>1 DEF EnterSync, RaceTimeout, ForceRelease, locks
    <2>4. \A t \in Syncs : ~Call(t) /\ ~StartRace(t) /\ ~StartNested(t) /\ ~PushCorrection(t)
      BY DEF Call, StartRace, StartNested, PushCorrection, locks
    <2>5. \A t \in Syncs : ~FillWaitTimeout(t)
      BY DEF FillWaitTimeout, IInv, Shapes
    <2>6. ~ConsumerEnters /\ ~ConsumerCorrects /\ ~ConsumerLeaves
      BY DEF ConsumerEnters, ConsumerCorrects, ConsumerLeaves
    <2>7. KeepResult(s) /\ call[s] = "racing"
      BY <2>2, <2>3, <2>4, <2>5, <2>6 DEF Next
    <2>8. s \in Serial => Racing \cap Serial = {s}
      BY <2>7 DEF IInv, RacingInside, Racing
    <2> QED BY <2>7, <2>8 DEF KeepResult
  <1>2. Spec => [][A]_vars
    BY <1>1, InitIInv, NextIInv, PTL DEF Spec
  <1> QED BY <1>2 DEF FreshResult
-----------------------------------------------------------------------------
\* The supervisor.
AppStatus == {"starting", "running", "stopped", "crashed", "restarting"}
ProcessStates == {"none", "launching", "up", "failed", "killed"}
AppStates ==
    [status : AppStatus, child : {0} \cup Slots, processes : [Slots -> ProcessStates],
     pendingRestart : BOOLEAN, stoppedByUser : BOOLEAN, restartCount : Nat,
     restartTimer : BOOLEAN, cronTimer : BOOLEAN, cronAwaits : BOOLEAN]

\* The loop of start() has ended and the jobs are scheduled.
Over == Len(AppOrder) + 2

\* The child that an app names has not been killed, and the status tells of it.
ChildKnown(s) ==
    s.child # 0 =>
        /\ s.processes[s.child] \in {"launching", "up", "failed"}
        /\ \/ s.status = "running"
           \/ s.status = "crashed" /\ s.processes[s.child] = "failed"

\* There is no other process but those a shutdown has killed.
OthersKilled(s, down) ==
    \A n \in Slots : s.processes[n] # "none" =>
        \/ n = s.child
        \/ s.processes[n] = "killed" /\ down /\ s.child = 0 /\ s.status = "stopped"

\* A restart timer belongs to a crashed bot, a cron timer to a job once start() is over.
TimersOwned(a, s, down, nx) ==
    /\ s.restartTimer => s.status = "restarting" /\ a \notin Jobs
    /\ s.cronTimer => a \in Jobs /\ ~down /\ nx = Over
    /\ s.cronAwaits => nx = Over

AppSound(a, s, down, nx) ==
    s \in AppStates /\ ChildKnown(s) /\ OthersKilled(s, down) /\ TimersOwned(a, s, down, nx)

LoopTypes ==
    /\ next \in 1 .. Over /\ starting \in BOOLEAN /\ shuttingDown \in BOOLEAN
    /\ starting => next <= Len(AppOrder)
    /\ DOMAIN app = Apps
    /\ ending = "pending" => shuttingDown

\* Nobody has started the apps the loop has not come to.
AheadUntouched ==
    \A i \in 1 .. Len(AppOrder) :
        (i > next \/ (i = next /\ ~starting)) => app[AppOrder[i]].status = "starting"

SupervisorIInv ==
    /\ LoopTypes /\ AheadUntouched
    /\ \A a \in Apps : AppSound(a, app[a], shuttingDown, next)
    /\ app = [a \in Apps |-> app[a]]

LEMMA OrderFacts ==
    /\ Len(AppOrder) \in Nat /\ Over \in Nat /\ Over > Len(AppOrder) + 1
    /\ \A i \in 1 .. Len(AppOrder) : AppOrder[i] \in Apps
  BY SupervisorAssumption DEF Apps, Over

LEMMA SupervisorStarts == SupervisorInit => SupervisorIInv
  <1> SUFFICES ASSUME SupervisorInit PROVE SupervisorIInv
    OBVIOUS
  <1>1. \A a \in Apps : app[a].status = "starting" /\ AppSound(a, app[a], shuttingDown, next)
    BY DEF SupervisorInit, AppSound, AppStates, AppStatus, ProcessStates, Slots, ChildKnown,
       OthersKilled, TimersOwned
  <1>2. LoopTypes
    <2>1. next = 1 /\ starting = FALSE /\ shuttingDown = FALSE /\ ending = "none"
      BY DEF SupervisorInit
    <2>2. DOMAIN app = Apps
      BY DEF SupervisorInit
    <2>3. 1 \in 1 .. Over
      BY OrderFacts
    <2> QED  BY <2>1, <2>2, <2>3 DEF LoopTypes
  <1>3. AheadUntouched
    BY <1>1, OrderFacts DEF AheadUntouched
  <1> QED
    BY <1>1, <1>2, <1>3 DEF SupervisorIInv, SupervisorInit

\* spawnApp() is safe on an app without a child and without a restart timer.
LEMMA SpawnSound ==
    ASSUME SupervisorIInv, NEW a, NEW nx,
           NEW s \in AppStates,
           AppSound(a, s, shuttingDown, nx), s.child = 0, ~s.restartTimer
    PROVE  /\ AppSound(a, Spawned(s), shuttingDown, nx)
           /\ ~Spawned(s).restartTimer /\ Spawned(s).cronTimer = s.cronTimer
           /\ Spawned(s).status # "starting"
  <1> USE DEF AppSound, Slots
  <1>1. shuttingDown \in BOOLEAN /\ s \in AppStates
    BY DEF SupervisorIInv, LoopTypes
  <1>2. CASE shuttingDown
    <2> DEFINE t == Spawned(s)
    <2>1. t = [s EXCEPT !.status = "stopped"]
      BY <1>2 DEF Spawned
    <2>2. t \in AppStates
      BY <2>1 DEF AppStates, AppStatus
    <2>3. /\ t.status = "stopped" /\ t.child = 0 /\ t.processes = s.processes
          /\ t.restartTimer = s.restartTimer /\ t.cronTimer = s.cronTimer
          /\ t.cronAwaits = s.cronAwaits
      BY <2>1 DEF AppStates
    <2> HIDE DEF t
    <2>4. ChildKnown(t) /\ OthersKilled(t, shuttingDown) /\ TimersOwned(a, t, shuttingDown, nx)
      BY <2>3 DEF ChildKnown, OthersKilled, TimersOwned
    <2> QED
      BY <2>2, <2>3, <2>4 DEF t
  <1>3. CASE ~shuttingDown
    <2> DEFINE n == CHOOSE m \in Slots : s.processes[m] = "none"
    <2>1. \A m \in Slots : s.processes[m] = "none"
      BY <1>1, <1>3 DEF AppStates, OthersKilled
    <2>2. n \in 1 .. 2
      BY <2>1
    <2>3. Spawned(s) = [s EXCEPT !.status = "running", !.child = n,
                                 !.processes[n] = "launching", !.stoppedByUser = FALSE]
      BY <1>3 DEF Spawned
    <2> HIDE DEF n
    <2> DEFINE t == Spawned(s)
    <2>4. /\ t.status = "running" /\ t.child = n
          /\ t.processes = [s.processes EXCEPT ![n] = "launching"]
          /\ t.restartTimer = s.restartTimer /\ t.cronTimer = s.cronTimer
          /\ t.cronAwaits = s.cronAwaits
      BY <2>3 DEF AppStates
    <2> DEFINE P == [s.processes EXCEPT ![n] = "launching"]
    <2>9. P \in [Slots -> ProcessStates]
      BY <2>2 DEF AppStates, ProcessStates
    <2>10. t = [s EXCEPT !.status = "running", !.child = n, !.processes = P,
                         !.stoppedByUser = FALSE]
      BY <2>3 DEF AppStates
    <2> HIDE DEF P
    <2>5. t \in AppStates
      BY <2>2, <2>9, <2>10 DEF AppStates, AppStatus
    <2> USE DEF P
    <2>6. \A m \in Slots : t.processes[m] = IF m = n THEN "launching" ELSE "none"
      BY <2>1, <2>4 DEF AppStates
    <2> HIDE DEF t
    <2>7. ChildKnown(t) /\ OthersKilled(t, shuttingDown)
      BY <2>2, <2>4, <2>6 DEF ChildKnown, OthersKilled
    <2>8. TimersOwned(a, t, shuttingDown, nx)
      BY <2>4 DEF TimersOwned
    <2> QED
      BY <2>4, <2>5, <2>7, <2>8 DEF t
  <1> QED BY <1>1, <1>2, <1>3

\* A step that changes one app.
LEMMA OneAppKeeps ==
    ASSUME SupervisorIInv, NEW a \in Apps, NEW s, AppSound(a, s, shuttingDown, next),
           app' = [app EXCEPT ![a] = s],
           next = Over \/ app[a].status # "starting" \/ s.status = "starting",
           UNCHANGED <<next, starting, shuttingDown>>,
           ending' = "pending" => ending = "pending"
    PROVE  SupervisorIInv'
  <1>1. /\ app' = [b \in Apps |-> app'[b]] /\ DOMAIN app' = Apps
        /\ app'[a] = s /\ \A b \in Apps \ {a} : app'[b] = app[b]
    BY DEF SupervisorIInv
  <1>2. AheadUntouched'
    BY <1>1, OrderFacts DEF AheadUntouched, SupervisorIInv
  <1> QED
    BY <1>1, <1>2 DEF SupervisorIInv, LoopTypes

\* The close handler of a child that was crashed.
LEMMA CrashSound ==
    ASSUME NEW a, NEW down \in BOOLEAN, NEW nx, NEW s \in AppStates,
           AppSound(a, s, down, nx), s.child = 0, \A n \in Slots : s.processes[n] = "none",
           ~s.restartTimer, NEW stable \in BOOLEAN
    PROVE  /\ AppSound(a, Crashed(a, s, stable), down, nx)
           /\ Crashed(a, s, stable).status # "starting"
  <1> DEFINE count == IF stable THEN 0 ELSE s.restartCount + 1
             t == Crashed(a, s, stable)
  <1>1. count \in Nat
    BY DEF AppStates
  <1> HIDE DEF count
  <1>2. /\ t \in AppStates
        /\ t.child = 0 /\ t.processes = s.processes
        /\ t.cronTimer = s.cronTimer /\ t.cronAwaits = s.cronAwaits
        /\ t.status \in {"crashed", "restarting"}
        /\ t.restartTimer => t.status = "restarting" /\ a \notin Jobs
    <2>1. CASE ~AutoRestart(a)
      <3>1. t = [s EXCEPT !.status = "crashed"]
        BY <2>1 DEF Crashed
      <3> QED  BY <3>1, <2>1 DEF AppStates, AppStatus, AppSound, TimersOwned, AutoRestart
    <2>2. CASE AutoRestart(a) /\ count >= MaxRestarts
      <3>1. t = [s EXCEPT !.status = "crashed", !.restartCount = count]
        BY <2>2 DEF Crashed, count
      <3> QED  BY <1>1, <3>1, <2>2 DEF AppStates, AppStatus, AppSound, TimersOwned, AutoRestart
    <2>3. CASE AutoRestart(a) /\ ~(count >= MaxRestarts)
      <3>1. t = [s EXCEPT !.status = "restarting", !.restartCount = count,
                          !.restartTimer = TRUE]
        BY <2>3 DEF Crashed, count
      <3> QED  BY <1>1, <3>1, <2>3 DEF AppStates, AppStatus, AutoRestart
    <2> QED  BY <2>1, <2>2, <2>3
  <1> HIDE DEF t
  <1> QED
    BY <1>2 DEF t, AppSound, ChildKnown, OthersKilled, TimersOwned

\* States that differ in what the invariant does not look at, or in a status.
Alike(s, t) ==
    /\ t.child = s.child /\ t.processes = s.processes
    /\ t.restartTimer = s.restartTimer /\ t.cronTimer = s.cronTimer
    /\ t.cronAwaits = s.cronAwaits

LEMMA AlikeSound ==
    ASSUME NEW a, NEW down, NEW nx, NEW s, NEW t \in AppStates,
           AppSound(a, s, down, nx), Alike(s, t),
           \/ t.status = s.status
           \/ t.status = "stopped" /\ s.child = 0 /\ ~s.restartTimer
    PROVE  AppSound(a, t, down, nx)
  BY DEF Alike, AppSound, ChildKnown, OthersKilled, TimersOwned

ChildGone(r, n) == [r EXCEPT !.processes[n] = "none", !.child = 0]

\* What the close handler finds: the child is gone, or one of those a shutdown killed.
LEMMA ChildClosed ==
    ASSUME NEW a, NEW down \in BOOLEAN, NEW nx, NEW r \in AppStates,
           AppSound(a, r, down, nx),
           NEW n \in Slots, r.processes[n] \in {"up", "failed", "killed"},
           NEW s, s = ChildGone(r, n)
    PROVE  /\ s \in AppStates /\ s.child = 0 /\ ~s.restartTimer
           /\ AppSound(a, s, down, nx)
           /\ r.status # "starting"
           /\ ~down => \A m \in Slots : s.processes[m] = "none"
  <1> DEFINE P == [r.processes EXCEPT ![n] = "none"]
  <1>1. P \in [Slots -> ProcessStates] /\ \A m \in Slots : P[m] = IF m = n THEN "none" ELSE r.processes[m]
    BY DEF AppStates, ProcessStates
  <1>2. s = [r EXCEPT !.processes = P, !.child = 0]
    BY DEF AppStates, ChildGone
  <1> HIDE DEF P
  <1>3. /\ s \in AppStates /\ s.child = 0 /\ s.processes = P /\ s.status = r.status
        /\ s.restartTimer = r.restartTimer /\ s.cronTimer = r.cronTimer
        /\ s.cronAwaits = r.cronAwaits
    BY <1>1, <1>2 DEF AppStates
  <1>4. /\ r.status # "starting" /\ ~r.restartTimer
        /\ \/ n = r.child
           \/ r.processes[n] = "killed" /\ down /\ r.child = 0 /\ r.status = "stopped"
    BY DEF AppSound, ChildKnown, OthersKilled, TimersOwned, AppStates, Slots
  <1>5. \A m \in Slots : s.processes[m] # "none" =>
            s.processes[m] = "killed" /\ down /\ s.status = "stopped"
    BY <1>1, <1>3, <1>4 DEF AppSound, OthersKilled, Slots
  <1>6. AppSound(a, s, down, nx)
    BY <1>3, <1>4, <1>5 DEF AppSound, ChildKnown, OthersKilled, TimersOwned
  <1> QED  BY <1>3, <1>4, <1>5, <1>6

LEMMA CloseKeeps ==
    ASSUME SupervisorIInv, NEW a \in Apps, NEW n \in Slots, NEW clean \in BOOLEAN,
           NEW stable \in BOOLEAN, Close(a, n, clean, stable)
    PROVE  SupervisorIInv'
  <1> DEFINE r == app[a]
             s == [app[a] EXCEPT !.processes[n] = "none", !.child = 0]
             t == IF shuttingDown
                       THEN [s EXCEPT !.status = "stopped"]
                       ELSE IF s.pendingRestart
                         THEN Spawned([s EXCEPT !.pendingRestart = FALSE])
                         ELSE IF clean
                           THEN [s EXCEPT !.status = "stopped"]
                           ELSE Crashed(a, s, stable)
  <1>1. AppSound(a, r, shuttingDown, next) /\ r \in AppStates /\ shuttingDown \in BOOLEAN
    BY DEF SupervisorIInv, AppSound, LoopTypes
  <1>2. /\ r.processes[n] \in {"up", "failed", "killed"}
        /\ app' = [app EXCEPT ![a] = t] /\ UNCHANGED <<next, starting, shuttingDown>>
        /\ ending' = "pending" => ending = "pending"
    BY DEF Close, Becomes, CheckAllStopped
  <1>9. s = ChildGone(r, n)
    BY DEF ChildGone
  <1> HIDE DEF r, s, t
  <1>3. /\ s \in AppStates /\ s.child = 0 /\ ~s.restartTimer
        /\ AppSound(a, s, shuttingDown, next)
        /\ r.status # "starting"
        /\ ~shuttingDown => \A m \in Slots : s.processes[m] = "none"
    BY <1>1, <1>2, <1>9, ChildClosed
  <1>4. AppSound(a, [s EXCEPT !.status = "stopped"], shuttingDown, next)
    <2>1. /\ [s EXCEPT !.status = "stopped"] \in AppStates
          /\ Alike(s, [s EXCEPT !.status = "stopped"])
          /\ [s EXCEPT !.status = "stopped"].status = "stopped"
      BY <1>3 DEF AppStates, AppStatus, Alike
    <2> QED  BY <1>3, <2>1, AlikeSound
  <1>5. AppSound(a, Spawned([s EXCEPT !.pendingRestart = FALSE]), shuttingDown, next)
    <2> DEFINE u == [s EXCEPT !.pendingRestart = FALSE]
    <2>1. u \in AppStates /\ Alike(s, u) /\ u.status = s.status
      BY <1>3 DEF AppStates, Alike
    <2> HIDE DEF u
    <2>2. AppSound(a, u, shuttingDown, next) /\ u.child = 0 /\ ~u.restartTimer
      BY <1>3, <2>1, AlikeSound DEF Alike
    <2>3. AppSound(a, Spawned(u), shuttingDown, next)
      BY <1>1, <2>1, <2>2, SpawnSound
    <2> QED  BY <2>3 DEF u
  <1>6. ~shuttingDown => AppSound(a, Crashed(a, s, stable), shuttingDown, next)
    BY <1>1, <1>3, CrashSound
  <1>7. AppSound(a, t, shuttingDown, next)
    BY <1>4, <1>5, <1>6 DEF t
  <1> QED
    BY <1>2, <1>3, <1>7, OneAppKeeps DEF r

LEMMA RestartTimerKeeps ==
    ASSUME SupervisorIInv, NEW a \in Apps, RestartTimer(a) PROVE SupervisorIInv'
  <1> DEFINE r == app[a]
             s == [r EXCEPT !.restartTimer = FALSE]
             t == IF shuttingDown THEN s ELSE Spawned(s)
  <1>1. /\ AppSound(a, r, shuttingDown, next) /\ r \in AppStates /\ r.restartTimer
        /\ app' = [app EXCEPT ![a] = t]
        /\ UNCHANGED <<next, starting, shuttingDown, ending>>
    BY DEF SupervisorIInv, AppSound, RestartTimer, AsLong
  <1> HIDE DEF r
  <1>2. /\ s \in AppStates /\ s.child = r.child /\ s.processes = r.processes
        /\ s.status = r.status /\ ~s.restartTimer /\ s.cronTimer = r.cronTimer
        /\ s.cronAwaits = r.cronAwaits
    BY <1>1 DEF AppStates
  <1> HIDE DEF s
  <1>3. r.status = "restarting" /\ s.child = 0 /\ AppSound(a, s, shuttingDown, next)
    BY <1>1, <1>2 DEF AppSound, ChildKnown, OthersKilled, TimersOwned
  <1>4. AppSound(a, Spawned(s), shuttingDown, next)
    BY <1>1, <1>2, <1>3, SpawnSound
  <1>5. AppSound(a, t, shuttingDown, next)
    BY <1>3, <1>4
  <1> HIDE DEF t
  <1> QED
    BY <1>1, <1>3, <1>5, OneAppKeeps DEF r

\* scheduleNextRun() once start() is over.
LEMMA ScheduledSound ==
    ASSUME NEW a, shuttingDown \in BOOLEAN, NEW s \in AppStates, NEW nx, nx = Over,
           AppSound(a, s, shuttingDown, nx)
    PROVE  /\ AppSound(a, Scheduled(a, s), shuttingDown, nx)
           /\ Scheduled(a, s).status = s.status
  <1> DEFINE t == Scheduled(a, s)
  <1>1. /\ t \in AppStates /\ t.child = s.child /\ t.processes = s.processes
        /\ t.status = s.status /\ t.restartTimer = s.restartTimer
        /\ t.cronTimer = (a \in Jobs /\ ~shuttingDown) /\ t.cronAwaits = s.cronAwaits
    BY DEF AppStates, Scheduled
  <1> HIDE DEF t
  <1> QED
    BY <1>1 DEF t, AppSound, ChildKnown, OthersKilled, TimersOwned

LEMMA CronTimerKeeps ==
    ASSUME SupervisorIInv, NEW a \in Apps, CronTimer(a) PROVE SupervisorIInv'
  <1> DEFINE r == app[a]
             s == [r EXCEPT !.cronTimer = FALSE]
             skips == s.status = "running" \/ s.pendingRestart
             t == IF skips THEN Scheduled(a, s) ELSE [Spawned(s) EXCEPT !.cronAwaits = TRUE]
  <1>1. /\ AppSound(a, r, shuttingDown, next) /\ r \in AppStates /\ r.cronTimer
        /\ \A n \in Slots : s.processes[n] # "failed"
        /\ app' = [app EXCEPT ![a] = t] /\ shuttingDown \in BOOLEAN
        /\ UNCHANGED <<next, starting, shuttingDown, ending>>
    BY DEF SupervisorIInv, LoopTypes, AppSound, CronTimer, AsLong
  <1>2. next = Over /\ a \in Jobs
    BY <1>1 DEF AppSound, TimersOwned
  <1> HIDE DEF r
  <1>3. /\ s \in AppStates /\ s.child = r.child /\ s.processes = r.processes
        /\ s.status = r.status /\ s.restartTimer = r.restartTimer /\ ~s.cronTimer
        /\ s.cronAwaits = r.cronAwaits
    BY <1>1 DEF AppStates
  <1> HIDE DEF s
  <1>4. AppSound(a, s, shuttingDown, next) /\ ~s.restartTimer
    BY <1>1, <1>2, <1>3 DEF AppSound, ChildKnown, OthersKilled, TimersOwned
  <1>5. CASE skips
    <2>0. t = Scheduled(a, s)
      BY <1>5
    <2> HIDE DEF t, skips
    <2>1. AppSound(a, Scheduled(a, s), shuttingDown, next)
      BY <1>1, <1>2, <1>3, <1>4, ScheduledSound
    <2> QED  BY <1>1, <1>2, <2>0, <2>1, OneAppKeeps DEF r
  <1>6. CASE ~skips
    <2>1. s.child = 0
      BY <1>1, <1>3, <1>4, <1>6 DEF AppSound, ChildKnown, AppStates
    <2> DEFINE u == Spawned(s)
    <2>2. AppSound(a, u, shuttingDown, next)
      BY <1>3, <1>4, <2>1, SpawnSound
    <2> HIDE DEF u
    <2>3. t = [u EXCEPT !.cronAwaits = TRUE]
      BY <1>6 DEF u
    <2>4. /\ t \in AppStates /\ t.child = u.child /\ t.processes = u.processes
          /\ t.status = u.status /\ t.restartTimer = u.restartTimer
          /\ t.cronTimer = u.cronTimer
      BY <2>2, <2>3 DEF AppSound, AppStates
    <2> HIDE DEF t
    <2>5. AppSound(a, t, shuttingDown, next)
      BY <1>2, <2>2, <2>4 DEF AppSound, ChildKnown, OthersKilled, TimersOwned
    <2> QED  BY <1>1, <1>2, <2>5, OneAppKeeps DEF r, t
  <1> QED  BY <1>5, <1>6

\* A step that only notes a wish: the invariant does not look at it.
LEMMA WishKeeps ==
    ASSUME SupervisorIInv, NEW a \in Apps, NEW t \in AppStates, Alike(app[a], t),
           t.status = app[a].status, app' = [app EXCEPT ![a] = t],
           UNCHANGED <<next, starting, shuttingDown, ending>>
    PROVE  SupervisorIInv'
  <1>1. AppSound(a, app[a], shuttingDown, next)
    BY DEF SupervisorIInv
  <1>2. AppSound(a, t, shuttingDown, next)
    BY <1>1, AlikeSound
  <1> QED  BY <1>2, OneAppKeeps

LEMMA CommandsKeep ==
    ASSUME SupervisorIInv, NEW a \in Apps,
           MemoryCheck(a) \/ StopCommand(a) \/ RestartCommand(a)
    PROVE  SupervisorIInv'
  <1> DEFINE r == app[a]
             u == [r EXCEPT !.pendingRestart = TRUE]
             v == [r EXCEPT !.pendingRestart = FALSE, !.stoppedByUser = TRUE]
  <1>1. AppSound(a, r, shuttingDown, next) /\ r \in AppStates
    BY DEF SupervisorIInv, AppSound
  <1>2. /\ u \in AppStates /\ Alike(r, u) /\ u.status = r.status
        /\ v \in AppStates /\ Alike(r, v) /\ v.status = r.status
    BY <1>1 DEF AppStates, Alike
  <1>3. CASE MemoryCheck(a)
    <2>1. app' = [app EXCEPT ![a] = u] /\ UNCHANGED <<next, starting, shuttingDown, ending>>
      BY <1>3 DEF MemoryCheck, AsLong, SupervisorIInv
    <2> HIDE DEF u
    <2> QED  BY <1>2, <2>1, WishKeeps
  <1>4. CASE StopCommand(a)
    <2>1. app' = [app EXCEPT ![a] = v] /\ UNCHANGED <<next, starting, shuttingDown, ending>>
      BY <1>4 DEF StopCommand, AsLong, SupervisorIInv
    <2> HIDE DEF v
    <2> QED  BY <1>2, <2>1, WishKeeps
  <1>5. CASE RestartCommand(a)
    <2>1. /\ ~shuttingDown /\ UNCHANGED <<next, starting, shuttingDown, ending>>
          /\ app' = [app EXCEPT ![a] = IF Running(a) THEN u ELSE IF MayRestart(a) THEN Spawned(r) ELSE r]
      BY <1>5 DEF RestartCommand, AsLong
    <2>2. CASE Running(a)
      <3>1. app' = [app EXCEPT ![a] = u]
        BY <2>1, <2>2
      <3> HIDE DEF u
      <3> QED  BY <1>2, <2>1, <3>1, WishKeeps
    <2>3. CASE ~Running(a) /\ MayRestart(a)
      <3>1. app' = [app EXCEPT ![a] = Spawned(r)] /\ r.status = "stopped"
        BY <2>1, <2>3 DEF MayRestart
      <3> HIDE DEF r
      <3>2. r.child = 0 /\ ~r.restartTimer
        BY <1>1, <3>1 DEF AppSound, ChildKnown, TimersOwned
      <3>3. (next = Over) \in BOOLEAN
        OBVIOUS
      <3>4. AppSound(a, Spawned(r), shuttingDown, next)
        BY <1>1, <3>2, <3>3, SpawnSound
      <3> QED  BY <2>1, <3>1, <3>4, OneAppKeeps DEF r
    <2>4. CASE ~Running(a) /\ ~MayRestart(a)
      <3>1. app' = [app EXCEPT ![a] = r] /\ Alike(r, r)
        BY <2>1, <2>4 DEF Alike
      <3> QED  BY <1>1, <2>1, <3>1, WishKeeps
    <2> QED  BY <2>2, <2>3, <2>4
  <1> QED  BY <1>3, <1>4, <1>5

\* Before start() is over it does not matter where its loop stands.
LEMMA LoopGoesOn ==
    ASSUME NEW a, NEW s, NEW down, NEW m, m # Over, NEW n, AppSound(a, s, down, m)
    PROVE  AppSound(a, s, down, n)
  BY DEF AppSound, TimersOwned

LEMMA LaunchedKeeps ==
    ASSUME SupervisorIInv, NEW a \in Apps, NEW fails \in BOOLEAN, Launched(a, fails)
    PROVE  SupervisorIInv'
  <1> DEFINE r == app[a]
             n == r.child
             awaited == starting /\ AppOrder[next] = a
             P == [r.processes EXCEPT ![n] = IF fails THEN "failed" ELSE "up"]
             st == IF fails /\ (awaited \/ r.cronAwaits) THEN "crashed" ELSE r.status
             s == [r EXCEPT !.processes = P, !.status = st, !.cronAwaits = FALSE]
             t == IF r.cronAwaits THEN Scheduled(a, s) ELSE s
  <1>1. /\ AppSound(a, r, shuttingDown, next) /\ r \in AppStates
        /\ shuttingDown \in BOOLEAN /\ starting \in BOOLEAN /\ next \in 1 .. Over
        /\ starting => next <= Len(AppOrder)
    BY DEF SupervisorIInv, AppSound, LoopTypes
  <1>2. /\ n # 0 /\ r.processes[n] = "launching"
        /\ starting' = (starting /\ ~awaited)
        /\ next' = IF awaited THEN next + 1 ELSE next
        /\ UNCHANGED <<shuttingDown, ending>>
    BY DEF Launched, AsLong
  <1>3. app' = [app EXCEPT ![a] = t]
    BY <1>1 DEF Launched, AsLong, AppStates
  <1>4. n \in Slots /\ P \in [Slots -> ProcessStates]
        /\ \A m \in Slots : P[m] = IF m = n THEN IF fails THEN "failed" ELSE "up"
                                            ELSE r.processes[m]
    BY <1>1, <1>2 DEF AppStates, ProcessStates
  <1>5. r.status = "running" /\ ~r.restartTimer /\ st \in {"running", "crashed"}
        /\ (st = "crashed" => fails)
    BY <1>1, <1>2 DEF AppSound, ChildKnown, TimersOwned
  <1> HIDE DEF n, P, st, awaited, r
  <1>6. /\ s \in AppStates /\ s.child = n /\ s.processes = P /\ s.status = st
        /\ s.restartTimer = r.restartTimer /\ s.cronTimer = r.cronTimer /\ ~s.cronAwaits
    BY <1>1, <1>4, <1>5 DEF AppStates, AppStatus, n
  <1> HIDE DEF s
  <1>7. AppSound(a, s, shuttingDown, next)
    <2>1. ChildKnown(s)
      BY <1>4, <1>5, <1>6 DEF ChildKnown
    <2>2. OthersKilled(s, shuttingDown)
      BY <1>1, <1>2, <1>4, <1>6 DEF AppSound, OthersKilled, n
    <2>3. TimersOwned(a, s, shuttingDown, next)
      BY <1>1, <1>5, <1>6 DEF AppSound, TimersOwned
    <2> QED  BY <1>6, <2>1, <2>2, <2>3 DEF AppSound
  <1>8. AppSound(a, t, shuttingDown, next) /\ t.status # "starting"
    <2>1. CASE r.cronAwaits
      <3>1. next = Over
        BY <1>1, <2>1 DEF AppSound, TimersOwned
      <3>2. AppSound(a, Scheduled(a, s), shuttingDown, next) /\ Scheduled(a, s).status = st
        BY <1>1, <1>6, <1>7, <3>1, ScheduledSound
      <3> QED  BY <1>5, <2>1, <3>1, <3>2
    <2>2. CASE ~r.cronAwaits
      BY <1>5, <1>6, <1>7, <2>2
    <2> QED  BY <2>1, <2>2
  <1> HIDE DEF t
  <1>9. CASE ~awaited
    <2>1. UNCHANGED <<next, starting, shuttingDown>>
      BY <1>1, <1>2, <1>9
    <2> QED  BY <1>2, <1>3, <1>5, <1>8, <2>1, OneAppKeeps DEF r
  <1>10. CASE awaited
    <2>1. /\ next <= Len(AppOrder) /\ next' = next + 1 /\ next \in Nat /\ starting' = FALSE
          /\ next # Over /\ next' # Over /\ next' \in 1 .. Over
      <3>1. starting /\ next \in Nat /\ next >= 1 /\ next <= Len(AppOrder)
        BY <1>1, <1>10, OrderFacts DEF awaited
      <3>2. starting' = FALSE /\ next' = next + 1
        BY <1>2, <1>10
      <3> QED  BY <3>1, <3>2, OrderFacts DEF Over
    <2>2. /\ app' = [b \in Apps |-> app'[b]] /\ DOMAIN app' = Apps
          /\ app'[a] = t /\ \A b \in Apps \ {a} : app'[b] = app[b]
      BY <1>3 DEF SupervisorIInv
    <2>3. LoopTypes'
      BY <1>1, <1>2, <2>1, <2>2 DEF SupervisorIInv, LoopTypes
    <2>4. AheadUntouched'
      <3> SUFFICES ASSUME NEW i \in 1 .. Len(AppOrder), i >= next'
                   PROVE  app'[AppOrder[i]].status = "starting"
        BY <2>1, OrderFacts DEF AheadUntouched
      <3>1. AppOrder[i] \in Apps /\ app[AppOrder[i]].status = "starting"
        BY <2>1, OrderFacts DEF SupervisorIInv, AheadUntouched
      <3> QED  BY <1>5, <2>2, <3>1 DEF r
    <2>5. \A b \in Apps : AppSound(b, app'[b], shuttingDown', next')
      <3>1. \A b \in Apps : AppSound(b, app'[b], shuttingDown, next)
        BY <1>8, <2>2 DEF SupervisorIInv
      <3> QED  BY <1>2, <2>1, <3>1, LoopGoesOn
    <2> QED  BY <2>2, <2>3, <2>4, <2>5 DEF SupervisorIInv
  <1> QED  BY <1>9, <1>10

LEMMA StartNextKeeps == ASSUME SupervisorIInv, StartNext PROVE SupervisorIInv'
  <1> DEFINE a == AppOrder[next]
             r == app[a]
             t == Spawned(r)
  <1>1. /\ next <= Len(AppOrder) /\ ~starting /\ next \in Nat /\ next >= 1
        /\ shuttingDown \in BOOLEAN /\ DOMAIN app = Apps
        /\ ending = "pending" => shuttingDown
    BY OrderFacts DEF StartNext, SupervisorIInv, LoopTypes
  <1>2. a \in Apps /\ r.status = "starting" /\ AppSound(a, r, shuttingDown, next)
    BY <1>1, OrderFacts DEF SupervisorIInv, AheadUntouched
  <1>3. r \in AppStates /\ r.child = 0 /\ ~r.restartTimer
    BY <1>2 DEF AppSound, ChildKnown, TimersOwned
  <1>4. /\ app' = [app EXCEPT ![a] = t]
        /\ starting' = ~shuttingDown /\ next' = IF shuttingDown THEN next + 1 ELSE next
        /\ UNCHANGED shuttingDown
        /\ ending' = "pending" => ending = "pending"
    BY DEF StartNext, Becomes, CheckAllStopped
  <1> HIDE DEF r
  <1>5. AppSound(a, t, shuttingDown, next)
    BY <1>2, <1>3, SpawnSound
  <1> HIDE DEF t
  <1>6. /\ next # Over /\ next' \in 1 .. Over /\ starting' \in BOOLEAN
        /\ starting' => next' <= Len(AppOrder)
    <2>0. next # Over /\ next \in 1 .. Over /\ next + 1 \in 1 .. Over
      BY <1>1, OrderFacts DEF Over
    <2>1. CASE shuttingDown
      <3>1. starting' = FALSE /\ next' = next + 1
        BY <1>4, <2>1
      <3> QED  BY <2>0, <3>1
    <2>2. CASE ~shuttingDown
      <3>1. starting' = TRUE /\ next' = next
        BY <1>4, <2>2
      <3> QED  BY <1>1, <2>0, <3>1
    <2> QED  BY <1>1, <2>1, <2>2
  <1>7. /\ app' = [b \in Apps |-> app'[b]] /\ DOMAIN app' = Apps
        /\ app'[a] = t /\ \A b \in Apps \ {a} : app'[b] = app[b]
    BY <1>2, <1>4 DEF SupervisorIInv
  <1>8. LoopTypes'
    BY <1>1, <1>4, <1>6, <1>7 DEF LoopTypes
  <1>9. AheadUntouched'
    <2> SUFFICES ASSUME NEW i \in 1 .. Len(AppOrder), i > next' \/ (i = next' /\ ~starting')
                 PROVE  app'[AppOrder[i]].status = "starting"
      BY DEF AheadUntouched
    <2>0. \/ starting' = FALSE /\ next' = next + 1
          \/ starting' = TRUE /\ next' = next
      BY <1>1, <1>4
    <2>1. i > next
      BY <1>1, <2>0, OrderFacts
    <2>2. AppOrder[i] \in Apps \ {a} /\ app[AppOrder[i]].status = "starting"
      BY <1>1, <2>1, OrderFacts, SupervisorAssumption DEF SupervisorIInv, AheadUntouched
    <2> QED  BY <1>7, <2>2
  <1>10. \A b \in Apps : AppSound(b, app'[b], shuttingDown', next')
    <2>1. \A b \in Apps : AppSound(b, app'[b], shuttingDown, next)
      BY <1>5, <1>7 DEF SupervisorIInv
    <2> QED  BY <1>4, <1>6, <2>1, LoopGoesOn
  <1> QED  BY <1>7, <1>8, <1>9, <1>10 DEF SupervisorIInv

LEMMA ScheduleKeeps == ASSUME SupervisorIInv, ScheduleJobs PROVE SupervisorIInv'
  <1>1. /\ next = Len(AppOrder) + 1 /\ next' = Over /\ next # Over
        /\ app' = [a \in Apps |-> Scheduled(a, app[a])]
        /\ UNCHANGED <<starting, shuttingDown, ending>>
        /\ shuttingDown \in BOOLEAN
    BY OrderFacts DEF ScheduleJobs, AsLong, Over, SupervisorIInv, LoopTypes
  <1>2. ~starting
    BY <1>1, OrderFacts DEF SupervisorIInv, LoopTypes
  <1>3. ASSUME NEW a \in Apps PROVE AppSound(a, app'[a], shuttingDown', next')
    <2>1. AppSound(a, app[a], shuttingDown, Over) /\ app[a] \in AppStates
      BY <1>1, LoopGoesOn DEF SupervisorIInv, AppSound
    <2>2. AppSound(a, Scheduled(a, app[a]), shuttingDown, Over)
      BY <1>1, <2>1, ScheduledSound
    <2> QED  BY <1>1, <2>2
  <1>4. LoopTypes' /\ AheadUntouched'
    BY <1>1, <1>2, OrderFacts DEF SupervisorIInv, LoopTypes, AheadUntouched
  <1> QED  BY <1>1, <1>3, <1>4 DEF SupervisorIInv

\* A step that changes apps each for itself and leaves the loop where it is.
LEMMA AllAppsKeep ==
    ASSUME SupervisorIInv, app' = [a \in Apps |-> app'[a]],
           \A a \in Apps : /\ AppSound(a, app'[a], shuttingDown', next)
                           /\ app[a].status = "starting" => app'[a].status = "starting",
           UNCHANGED <<next, starting>>, shuttingDown' \in BOOLEAN,
           ending' = "pending" => shuttingDown'
    PROVE  SupervisorIInv'
  <1>1. DOMAIN app' = Apps
    OBVIOUS
  <1>2. LoopTypes' /\ AheadUntouched'
    BY <1>1, OrderFacts DEF SupervisorIInv, LoopTypes, AheadUntouched
  <1> QED  BY <1>2 DEF SupervisorIInv

LEMMA StopAllKeeps == ASSUME SupervisorIInv, StopAll PROVE SupervisorIInv'
  <1> DEFINE t(a) == [app[a] EXCEPT !.pendingRestart = FALSE,
                                    !.stoppedByUser = @ \/ Running(a)]
  <1>1. /\ app' = [a \in Apps |-> IF a \in Jobs THEN app[a] ELSE t(a)]
        /\ UNCHANGED <<next, starting, shuttingDown, ending>>
        /\ shuttingDown \in BOOLEAN /\ (ending = "pending" => shuttingDown)
    BY DEF StopAll, AsLong, SupervisorIInv, LoopTypes
  <1>2. ASSUME NEW a \in Apps
        PROVE  /\ AppSound(a, app'[a], shuttingDown', next)
               /\ app[a].status = "starting" => app'[a].status = "starting"
    <2>1. AppSound(a, app[a], shuttingDown, next) /\ app[a] \in AppStates
      BY DEF SupervisorIInv, AppSound
    <2>2. t(a) \in AppStates /\ Alike(app[a], t(a)) /\ t(a).status = app[a].status
      BY <2>1 DEF AppStates, Alike
    <2> HIDE DEF t
    <2>3. AppSound(a, t(a), shuttingDown, next)
      BY <2>1, <2>2, AlikeSound
    <2> QED  BY <1>1, <2>1, <2>2, <2>3
  <1> HIDE DEF t
  <1> QED  BY <1>1, <1>2, AllAppsKeep

LEMMA BulkRestartKeeps ==
    ASSUME SupervisorIInv, NEW kind, BulkRestart(kind) PROVE SupervisorIInv'
  <1> DEFINE t(a) == [app[a] EXCEPT !.pendingRestart = @ \/ (a \notin Jobs /\ Running(a))]
  <1>1. /\ app' = [a \in Apps |-> t(a)]
        /\ UNCHANGED <<next, starting, shuttingDown, ending>>
        /\ shuttingDown \in BOOLEAN /\ (ending = "pending" => shuttingDown)
    BY DEF BulkRestart, AsLong, SupervisorIInv, LoopTypes
  <1>2. ASSUME NEW a \in Apps
        PROVE  /\ AppSound(a, app'[a], shuttingDown', next)
               /\ app[a].status = "starting" => app'[a].status = "starting"
    <2>1. AppSound(a, app[a], shuttingDown, next) /\ app[a] \in AppStates
      BY DEF SupervisorIInv, AppSound
    <2>2. t(a) \in AppStates /\ Alike(app[a], t(a)) /\ t(a).status = app[a].status
      BY <2>1 DEF AppStates, Alike
    <2> HIDE DEF t
    <2>3. AppSound(a, t(a), shuttingDown, next)
      BY <2>1, <2>2, AlikeSound
    <2> QED  BY <1>1, <2>1, <2>2, <2>3
  <1> HIDE DEF t
  <1> QED  BY <1>1, <1>2, AllAppsKeep

LEMMA BulkContinuesKeeps == ASSUME SupervisorIInv, BulkContinues PROVE SupervisorIInv'
  <1> DEFINE revived == {a \in Apps \ Jobs : /\ bulk = "all" /\ app[a].status = "stopped"
                                             /\ app[a].stoppedByUser}
  <1>1. /\ app' = [a \in Apps |-> IF a \in revived THEN Spawned(app[a]) ELSE app[a]]
        /\ \A a \in revived : app[a].status = "stopped"
    BY DEF BulkContinues
  <1> HIDE DEF revived
  <1>2. /\ UNCHANGED <<next, starting, shuttingDown>> /\ shuttingDown \in BOOLEAN
        /\ ending' = "pending" => shuttingDown
    BY DEF BulkContinues, CheckAllStopped, SupervisorIInv, LoopTypes
  <1>3. ASSUME NEW a \in Apps
        PROVE  /\ AppSound(a, app'[a], shuttingDown', next)
               /\ app[a].status = "starting" => app'[a].status = "starting"
    <2>1. AppSound(a, app[a], shuttingDown, next) /\ app[a] \in AppStates
      BY DEF SupervisorIInv, AppSound
    <2>2. CASE a \in revived
      <3>1. app[a].status = "stopped" /\ app'[a] = Spawned(app[a])
        BY <1>1, <2>2
      <3>2. app[a].child = 0 /\ ~app[a].restartTimer
        BY <2>1, <3>1 DEF AppSound, ChildKnown, TimersOwned
      <3>3. AppSound(a, Spawned(app[a]), shuttingDown, next)
        BY <2>1, <3>2, SpawnSound
      <3> QED  BY <1>2, <3>1, <3>3
    <2>3. CASE a \notin revived
      BY <1>1, <1>2, <2>1, <2>3
    <2> QED  BY <2>2, <2>3
  <1> QED  BY <1>1, <1>2, <1>3, AllAppsKeep

LEMMA ShutdownKeeps == ASSUME SupervisorIInv, Shutdown PROVE SupervisorIInv'
  <1> DEFINE t(a) == [app[a] EXCEPT !.cronTimer = FALSE]
  <1>1. /\ app' = [a \in Apps |-> t(a)] /\ shuttingDown' = TRUE
        /\ UNCHANGED <<next, starting>>
    BY DEF Shutdown
  <1>2. ASSUME NEW a \in Apps
        PROVE  /\ AppSound(a, t(a), TRUE, next)
               /\ app[a].status = "starting" => t(a).status = "starting"
    <2>1. AppSound(a, app[a], shuttingDown, next) /\ app[a] \in AppStates
      BY DEF SupervisorIInv, AppSound
    <2>2. /\ t(a) \in AppStates /\ t(a).child = app[a].child
          /\ t(a).processes = app[a].processes /\ t(a).status = app[a].status
          /\ t(a).restartTimer = app[a].restartTimer /\ ~t(a).cronTimer
          /\ t(a).cronAwaits = app[a].cronAwaits
      BY <2>1 DEF AppStates
    <2> HIDE DEF t
    <2> QED  BY <2>1, <2>2 DEF AppSound, ChildKnown, OthersKilled, TimersOwned
  <1> HIDE DEF t
  <1> QED  BY <1>1, <1>2, AllAppsKeep

LEMMA ForceKillKeeps == ASSUME SupervisorIInv, ForceKill PROVE SupervisorIInv'
  <1> DEFINE kills(a) == app[a].child # 0 /\ app[a].status # "stopped"
             t(a) == [app[a] EXCEPT !.processes[app[a].child] = "killed",
                                    !.status = "stopped", !.child = 0]
  <1>1. /\ app' = [a \in Apps |-> IF kills(a) THEN t(a) ELSE app[a]]
        /\ ending' = "resolved" /\ shuttingDown = TRUE
        /\ UNCHANGED <<next, starting, shuttingDown>>
    BY DEF ForceKill, SupervisorIInv, LoopTypes
  <1>2. ASSUME NEW a \in Apps
        PROVE  /\ AppSound(a, app'[a], shuttingDown', next)
               /\ app[a].status = "starting" => app'[a].status = "starting"
    <2>1. AppSound(a, app[a], shuttingDown, next) /\ app[a] \in AppStates
      BY DEF SupervisorIInv, AppSound
    <2>2. CASE kills(a)
      <3> DEFINE r == app[a]
                 n == r.child
                 P == [r.processes EXCEPT ![n] = "killed"]
                 u == [r EXCEPT !.processes = P, !.status = "stopped", !.child = 0]
      <3>1. n \in Slots /\ r.status # "starting" /\ ~r.restartTimer
            /\ \A m \in Slots : m # n => r.processes[m] = "none"
        BY <2>1, <2>2 DEF AppSound, ChildKnown, OthersKilled, TimersOwned, AppStates, Slots
      <3>2. /\ P \in [Slots -> ProcessStates]
            /\ \A m \in Slots : P[m] \in {"none", "killed"}
        BY <2>1, <3>1 DEF AppStates, ProcessStates
      <3>3. t(a) = u
        BY <2>1 DEF AppStates
      <3> HIDE DEF P, n
      <3>4. /\ u \in AppStates /\ u.child = 0 /\ u.processes = P /\ u.status = "stopped"
            /\ u.restartTimer = r.restartTimer /\ u.cronTimer = r.cronTimer
            /\ u.cronAwaits = r.cronAwaits
        BY <2>1, <3>2 DEF AppStates, AppStatus
      <3> HIDE DEF u, r
      <3>5. AppSound(a, u, shuttingDown, next)
        BY <1>1, <2>1, <3>1, <3>2, <3>4
        DEF r, AppSound, ChildKnown, OthersKilled, TimersOwned
      <3> QED  BY <1>1, <2>2, <3>1, <3>3, <3>5 DEF r
    <2>3. CASE ~kills(a)
      BY <1>1, <2>1, <2>3
    <2> QED  BY <2>2, <2>3
  <1> HIDE DEF t, kills
  <1> QED  BY <1>1, <1>2, AllAppsKeep

\* Every step preserves the invariant.
LEMMA SupervisorStep == SupervisorIInv /\ [SupervisorNext]_supervisorVars => SupervisorIInv'
  <1> SUFFICES ASSUME SupervisorIInv, [SupervisorNext]_supervisorVars PROVE SupervisorIInv'
    OBVIOUS
  <1>1. ASSUME NEW a \in Apps, NEW fails \in BOOLEAN, Launched(a, fails) PROVE SupervisorIInv'
    BY <1>1, LaunchedKeeps
  <1>2. ASSUME NEW a \in Apps, NEW n \in Slots, NEW clean \in BOOLEAN, NEW stable \in BOOLEAN,
               Close(a, n, clean, stable)
        PROVE  SupervisorIInv'
    BY <1>2, CloseKeeps
  <1>3. ASSUME NEW a \in Apps, RestartTimer(a) PROVE SupervisorIInv'
    BY <1>3, RestartTimerKeeps
  <1>4. ASSUME NEW a \in Apps, CronTimer(a) PROVE SupervisorIInv'
    BY <1>4, CronTimerKeeps
  <1>5. ASSUME NEW a \in Apps, MemoryCheck(a) \/ StopCommand(a) \/ RestartCommand(a)
        PROVE  SupervisorIInv'
    BY <1>5, CommandsKeep
  <1>6. ASSUME NEW kind, BulkRestart(kind) PROVE SupervisorIInv'
    BY <1>6, BulkRestartKeeps
  <1>7. CASE StartNext
    BY <1>7, StartNextKeeps
  <1>8. CASE ScheduleJobs
    BY <1>8, ScheduleKeeps
  <1>9. CASE StopAll
    BY <1>9, StopAllKeeps
  <1>10. CASE BulkContinues
    BY <1>10, BulkContinuesKeeps
  <1>11. CASE Shutdown
    BY <1>11, ShutdownKeeps
  <1>12. CASE ForceKill
    BY <1>12, ForceKillKeeps
  <1>13. CASE UNCHANGED supervisorVars
    BY <1>13 DEF supervisorVars, SupervisorIInv, LoopTypes, AheadUntouched
  <1> QED
    BY <1>1, <1>2, <1>3, <1>4, <1>5, <1>6, <1>7, <1>8, <1>9, <1>10, <1>11, <1>12, <1>13
    DEF SupervisorNext

(***************************************************************************)
(* Whatever timers, commands and exits come together, for any apps and     *)
(* jobs: a process that lives is the child its app's state names           *)
(* (createBotSupervisor()).                                                *)
(***************************************************************************)
THEOREM ChildrenKnown == SupervisorSpec => []NoStrayProcess
  <1>1. SupervisorIInv => NoStrayProcess
    <2> SUFFICES ASSUME SupervisorIInv, NEW a \in Apps, NEW n \in Slots,
                        app[a].processes[n] \in {"launching", "up"}
                 PROVE  app[a].child = n
      BY DEF NoStrayProcess
    <2>1. OthersKilled(app[a], shuttingDown)
      BY DEF SupervisorIInv, AppSound
    <2> QED  BY <2>1 DEF OthersKilled
  <1> QED  BY <1>1, SupervisorStarts, SupervisorStep, PTL DEF SupervisorSpec

-----------------------------------------------------------------------------
\* CreditRuntime.  What is left of a loan is a sum over its deals and requests; first what
\* those sums do when a deal or a request comes, goes or changes its place.

LEMMA OneColumn ==
    ASSUME NEW x, NEW n \in Nat
    PROVE  IsFiniteSet({x} \X (1 .. n)) /\ Cardinality({x} \X (1 .. n)) = n
  <1>1. IsFiniteSet(1 .. n) /\ Cardinality(1 .. n) = n
    BY FS_Interval
  <1> DEFINE m == [k \in 1 .. n |-> <<x, k>>]
  <1>2. m \in Bijection(1 .. n, {x} \X (1 .. n))
    BY DEF Bijection, Injection, Surjection, IsInjective
  <1>3. ExistsBijection(1 .. n, {x} \X (1 .. n))
    BY <1>2 DEF ExistsBijection
  <1> QED  BY <1>1, <1>3, FS_Bijection

\* A sum over a finite set is a natural number.
LEMMA TotalType ==
    ASSUME NEW S, NEW f, IsFiniteSet(S), \A i \in S : f[i] \in Nat
    PROVE  IsFiniteSet(Units(S, f)) /\ Total(S, f) \in Nat
  <1> DEFINE T == {{i} \X (1 .. f[i]) : i \in S}
             g == [i \in S |-> {i} \X (1 .. f[i])]
  <1>1. g \in Surjection(S, T)
    BY DEF Surjection
  <1>2. IsFiniteSet(T)
    BY <1>1, FS_Surjection
  <1>3. ASSUME NEW t \in T PROVE IsFiniteSet(t)
    <2>1. PICK i \in S : t = {i} \X (1 .. f[i])
      OBVIOUS
    <2> QED  BY <2>1, OneColumn
  <1> HIDE DEF T
  <1>4. IsFiniteSet(UNION T)
    BY <1>2, <1>3, FS_UNION
  <1>5. IsFiniteSet(Units(S, f))
    BY <1>4 DEF Units, T
  <1> QED  BY <1>5, FS_CardinalityType DEF Total

LEMMA TotalOfNone == \A f : Total({}, f) = 0
  <1>1. \A f : Units({}, f) = {}
    BY DEF Units
  <1> QED  BY <1>1, FS_EmptySet DEF Total

LEMMA TotalAdds ==
    ASSUME NEW S, NEW f, NEW x, IsFiniteSet(S), \A i \in S : f[i] \in Nat,
           x \notin S, f[x] \in Nat
    PROVE  Total(S \cup {x}, f) = Total(S, f) + f[x]
  <1> DEFINE A == Units(S, f)
             B == {x} \X (1 .. f[x])
  <1>1. Units(S \cup {x}, f) = A \cup B
    BY DEF Units
  <1>2. A \cap B = {}
    BY DEF Units
  <1>3. IsFiniteSet(B) /\ Cardinality(B) = f[x]
    BY OneColumn
  <1>4. IsFiniteSet(A) /\ Cardinality(A) \in Nat
    BY TotalType, FS_CardinalityType
  <1> HIDE DEF A, B
  <1>5. Cardinality(A \cap B) = 0
    BY <1>2, FS_EmptySet
  <1>6. Cardinality(A \cup B) = Cardinality(A) + Cardinality(B) - Cardinality(A \cap B)
    BY <1>3, <1>4, FS_Union
  <1>7. Cardinality(A \cup B) = Cardinality(A) + f[x]
    BY <1>3, <1>4, <1>5, <1>6
  <1>8. Total(S \cup {x}, f) = Cardinality(A \cup B)
    BY <1>1 DEF Total
  <1>9. Total(S, f) = Cardinality(A)
    BY DEF Total, A
  <1> QED  BY <1>7, <1>8, <1>9

LEMMA TotalSame ==
    ASSUME NEW S, NEW f, NEW g, \A i \in S : f[i] = g[i]
    PROVE  Total(S, f) = Total(S, g)
  <1>1. Units(S, f) = Units(S, g)
    BY DEF Units
  <1> QED  BY <1>1 DEF Total

\* A sum does not depend on how what is summed is numbered.
LEMMA TotalRenamed ==
    ASSUME NEW S, NEW T, NEW f, NEW g, IsFiniteSet(S), \A i \in S : f[i] \in Nat,
           NEW m \in [S -> T],
           \A i, j \in S : m[i] = m[j] => i = j,
           \A t \in T : \E i \in S : m[i] = t,
           \A i \in S : g[m[i]] = f[i]
    PROVE  Total(T, g) = Total(S, f)
  <1> DEFINE U == Units(S, f)
             V == Units(T, g)
             n == [u \in U |-> <<m[u[1]], u[2]>>]
  <1>1. \A u \in U : u[1] \in S /\ u[2] \in 1 .. f[u[1]] /\ u = <<u[1], u[2]>>
    BY DEF Units
  <1>2. \A v \in V : v[1] \in T /\ v[2] \in 1 .. g[v[1]] /\ v = <<v[1], v[2]>>
    BY DEF Units
  <1>3. \A i \in S : \A k \in 1 .. f[i] : <<i, k>> \in U
    BY DEF Units
  <1>4. \A t \in T : \A k \in 1 .. g[t] : <<t, k>> \in V
    BY DEF Units
  <1> HIDE DEF U, V
  <1>5. n \in [U -> V]
    BY <1>1, <1>4
  <1>6. \A u, v \in U : n[u] = n[v] => u = v
    BY <1>1
  <1>7. ASSUME NEW v \in V PROVE \E u \in U : n[u] = v
    <2>1. PICK i \in S : m[i] = v[1]
      BY <1>2
    <2>2. <<i, v[2]>> \in U
      BY <1>2, <1>3, <2>1
    <2>3. n[<<i, v[2]>>] = v
      BY <1>2, <2>1, <2>2
    <2> QED  BY <2>2, <2>3
  <1>8. n \in Bijection(U, V)
    BY <1>5, <1>6, <1>7 DEF Bijection, Injection, Surjection, IsInjective
  <1>9. ExistsBijection(U, V)
    BY <1>8 DEF ExistsBijection
  <1>10. IsFiniteSet(U)
    BY TotalType DEF U
  <1> QED  BY <1>9, <1>10, FS_Bijection DEF Total, U, V

-----------------------------------------------------------------------------
Roots == Loans \cup {0}
DealType == [offer : Offers, debt : Nat \ {0}, root : Roots]
RequestType == [source : Nat, offer : Offers, amount : Nat \ {0}, root : Roots]

\* A view of deals: ids up to n.
Deals(ds, n) ==
    /\ DOMAIN ds \subseteq 1 .. n /\ ds \in [DOMAIN ds -> DealType]

LEMMA DealsFinite ==
    ASSUME NEW ds, NEW n \in Nat, Deals(ds, n), NEW r
    PROVE  /\ IsFiniteSet({i \in DOMAIN ds : ds[i].root = r})
           /\ \A i \in DOMAIN ds : ds[i].debt \in Nat
           /\ Owed(r, ds) \in Nat
  <1> DEFINE S == {i \in DOMAIN ds : ds[i].root = r}
             f == [i \in DOMAIN ds |-> ds[i].debt]
  <1>1. IsFiniteSet(S)
    <2>1. IsFiniteSet(1 .. n)
      BY FS_Interval
    <2>2. S \in SUBSET (1 .. n)
      BY DEF Deals
    <2> QED  BY <2>1, <2>2, FS_Subset
  <1>2. \A i \in DOMAIN ds : ds[i].debt \in Nat
    BY DEF Deals, DealType
  <1>3. \A i \in S : f[i] \in Nat
    BY <1>2
  <1> HIDE DEF S, f
  <1>4. Total(S, f) \in Nat
    BY <1>1, <1>3, TotalType
  <1> QED  BY <1>1, <1>2, <1>4 DEF Owed, S, f

\* What is left of ds when the amount a of deal i is repaid.
Left(ds, i, a, left) ==
    /\ DOMAIN left = IF ds[i].debt = a THEN DOMAIN ds \ {i} ELSE DOMAIN ds
    /\ \A j \in DOMAIN left : /\ left[j].root = ds[j].root /\ left[j].offer = ds[j].offer
                              /\ j # i => left[j] = ds[j]
                              /\ j = i => left[j].debt = ds[j].debt - a

LEMMA RepaidDeals ==
    ASSUME NEW ds, NEW n \in Nat, Deals(ds, n),
           NEW i \in DOMAIN ds, NEW a \in Nat, a <= ds[i].debt
    PROVE  Deals(Repaid(ds, i, a), n) /\ Left(ds, i, a, Repaid(ds, i, a))
  <1> DEFINE left == Repaid(ds, i, a)
  <1>1. CASE ds[i].debt = a
    <2>1. left = [j \in DOMAIN ds \ {i} |-> ds[j]]
      BY <1>1 DEF Repaid, Restrict
    <2> QED  BY <1>1, <2>1 DEF Deals, Left
  <1>2. CASE ds[i].debt # a
    <2>1. left = [ds EXCEPT ![i] = [ds[i] EXCEPT !.debt = @ - a]]
      BY <1>2 DEF Repaid
    <2>2. [ds[i] EXCEPT !.debt = @ - a] \in DealType
      BY <1>2 DEF Deals, DealType
    <2>3. /\ [ds[i] EXCEPT !.debt = @ - a].root = ds[i].root
          /\ [ds[i] EXCEPT !.debt = @ - a].offer = ds[i].offer
          /\ [ds[i] EXCEPT !.debt = @ - a].debt = ds[i].debt - a
      BY DEF Deals, DealType
    <2> QED  BY <1>2, <2>1, <2>2, <2>3 DEF Deals, Left
  <1> QED  BY <1>1, <1>2

LEMMA OwedRepaid ==
    ASSUME NEW ds, NEW n \in Nat, Deals(ds, n), NEW r,
           NEW i \in DOMAIN ds, NEW a \in Nat, a <= ds[i].debt
    PROVE  Owed(r, Repaid(ds, i, a)) = Owed(r, ds) - IF ds[i].root = r THEN a ELSE 0
  <1> DEFINE left == Repaid(ds, i, a)
  <1>0. Left(ds, i, a, left)
    BY RepaidDeals
  <1>1. /\ DOMAIN left = IF ds[i].debt = a THEN DOMAIN ds \ {i} ELSE DOMAIN ds
        /\ \A j \in DOMAIN left : /\ left[j].root = ds[j].root
                                  /\ j # i => left[j] = ds[j]
                                  /\ j = i => left[j].debt = ds[j].debt - a
    BY <1>0 DEF Left
  <1> HIDE DEF left
  <1> DEFINE S == {j \in DOMAIN ds : ds[j].root = r}
             T == S \ {i}
             L == {j \in DOMAIN left : left[j].root = r}
             f == [j \in DOMAIN ds |-> ds[j].debt]
             g == [j \in DOMAIN left |-> left[j].debt]
  <1>2. IsFiniteSet(T) /\ \A j \in DOMAIN ds : f[j] \in Nat
    <2>1. IsFiniteSet(S) /\ \A j \in DOMAIN ds : ds[j].debt \in Nat
      BY DealsFinite
    <2>2. T \in SUBSET S
      OBVIOUS
    <2> QED  BY <2>1, <2>2, FS_Subset
  <1>3. \A j \in T : g[j] = f[j]
    BY <1>1
  <1>4. Total(T, g) = Total(T, f) /\ Total(T, f) \in Nat
    BY <1>2, <1>3, TotalSame, TotalType
  <1>5. CASE ds[i].root # r
    <2>1. S = T /\ L = T
      BY <1>1, <1>5
    <2>2. Total(L, g) = Total(S, f) /\ Total(S, f) \in Nat
      BY <1>4, <2>1
    <2> QED  BY <1>5, <2>2 DEF Owed, left
  <1>6. CASE ds[i].root = r
    <2>1. S = T \cup {i} /\ i \notin T /\ f[i] = ds[i].debt
      BY <1>6
    <2>2. Total(S, f) = Total(T, f) + ds[i].debt
      <3>1. \A j \in T : f[j] \in Nat
        BY <1>2
      <3>2. f[i] \in Nat
        BY <1>2
      <3> HIDE DEF T, f, S
      <3> QED  BY <1>2, <2>1, <3>1, <3>2, TotalAdds
    <2>3. CASE ds[i].debt = a
      <3>1. L = T
        BY <1>1, <2>3
      <3>2. Total(L, g) = Total(S, f) - a
        <4> HIDE DEF S, T, L, f, g
        <4> QED  BY <1>4, <2>2, <2>3, <3>1
      <3> QED  BY <1>6, <3>2 DEF Owed, left
    <2>4. CASE ds[i].debt # a
      <3>1. L = T \cup {i} /\ g[i] = ds[i].debt - a /\ g[i] \in Nat
        BY <1>1, <1>2, <1>6, <2>4
      <3>2. \A j \in T : g[j] \in Nat
        BY <1>2, <1>3
      <3>3. Total(T \cup {i}, g) = Total(T, g) + g[i]
        <4>1. i \notin T /\ g[i] \in Nat /\ IsFiniteSet(T)
          BY <1>2, <3>1
        <4> HIDE DEF T, g
        <4> QED  BY <3>2, <4>1, TotalAdds
      <3>4. ds[i].debt \in Nat
        BY <1>2
      <3>5. Total(L, g) = Total(S, f) - a
        <4> HIDE DEF S, T, L, f, g
        <4> QED  BY <1>4, <2>2, <3>1, <3>3, <3>4
      <3> QED  BY <1>6, <3>5 DEF Owed, left
    <2> QED  BY <2>3, <2>4
  <1> QED  BY <1>5, <1>6

\* The deal a borrow adds to ds under the next id.
Added(ds, n, o, a, r, more) ==
    /\ DOMAIN more = DOMAIN ds \cup {n + 1}
    /\ \A j \in DOMAIN ds : j # n + 1 => more[j] = ds[j]
    /\ more[n + 1] = [offer |-> o, debt |-> a, root |-> r]

LEMMA LentDeals ==
    ASSUME top \in Nat, NEW ds, Deals(ds, top),
           NEW o \in Offers, NEW a \in Nat \ {0}, NEW r \in Roots
    PROVE  Deals(Lend(ds, o, a, r), top + 1) /\ Added(ds, top, o, a, r, Lend(ds, o, a, r))
  <1>1. Lend(ds, o, a, r) = [i \in DOMAIN ds \cup {top + 1} |->
            IF i = top + 1 THEN [offer |-> o, debt |-> a, root |-> r] ELSE ds[i]]
    BY DEF Lend
  <1>2. [offer |-> o, debt |-> a, root |-> r] \in DealType
    BY DEF DealType
  <1>3. DOMAIN ds \subseteq 1 .. top /\ \A j \in DOMAIN ds : ds[j] \in DealType
    BY DEF Deals
  <1> QED  BY <1>1, <1>2, <1>3 DEF Deals, Added

LEMMA OwedLent ==
    ASSUME top \in Nat, NEW ds, Deals(ds, top),
           NEW o \in Offers, NEW a \in Nat \ {0}, NEW x \in Roots, NEW r
    PROVE  Owed(r, Lend(ds, o, a, x)) = Owed(r, ds) + IF x = r THEN a ELSE 0
  <1> DEFINE more == Lend(ds, o, a, x)
  <1>0. Added(ds, top, o, a, x, more)
    BY LentDeals
  <1> HIDE DEF more
  <1>1. /\ DOMAIN more = DOMAIN ds \cup {top + 1}
        /\ \A j \in DOMAIN ds : j # top + 1 => more[j] = ds[j]
        /\ more[top + 1].debt = a /\ more[top + 1].root = x
    BY <1>0 DEF Added
  <1>2. top + 1 \notin DOMAIN ds
    BY DEF Deals
  <1> DEFINE S == {j \in DOMAIN ds : ds[j].root = r}
             M == {j \in DOMAIN more : more[j].root = r}
             f == [j \in DOMAIN ds |-> ds[j].debt]
             g == [j \in DOMAIN more |-> more[j].debt]
  <1>3. IsFiniteSet(S) /\ (\A j \in S : f[j] \in Nat)
    BY DealsFinite
  <1>4. (\A j \in S : g[j] = f[j]) /\ g[top + 1] = a /\ top + 1 \notin S
    BY <1>1, <1>2
  <1>5. M = IF x = r THEN S \cup {top + 1} ELSE S
    BY <1>1, <1>2
  <1>6. Total(S, g) = Total(S, f) /\ Total(S, f) \in Nat
    <2> HIDE DEF S, f, g
    <2> QED  BY <1>3, <1>4, TotalSame, TotalType
  <1>7. Total(S \cup {top + 1}, g) = Total(S, g) + a
    <2>1. \A j \in S : g[j] \in Nat
      BY <1>3, <1>4
    <2> HIDE DEF S, f, g
    <2> QED  BY <1>3, <1>4, <2>1, TotalAdds
  <1>8. Total(M, g) = Total(S, f) + IF x = r THEN a ELSE 0
    <2> HIDE DEF S, M, f, g
    <2> QED  BY <1>5, <1>6, <1>7
  <1> QED  BY <1>8 DEF Owed, more

LEMMA AskedType ==
    ASSUME NEW q \in Seq(RequestType), NEW r
    PROVE  /\ IsFiniteSet({k \in DOMAIN q : q[k].root = r})
           /\ \A k \in DOMAIN q : q[k].amount \in Nat
           /\ Asked(r, q) \in Nat
  <1> DEFINE S == {k \in DOMAIN q : q[k].root = r}
             f == [k \in DOMAIN q |-> q[k].amount]
  <1>1. IsFiniteSet(S)
    <2>1. IsFiniteSet(1 .. Len(q))
      BY FS_Interval
    <2>2. S \in SUBSET (1 .. Len(q))
      OBVIOUS
    <2> QED  BY <2>1, <2>2, FS_Subset
  <1>2. ASSUME NEW k \in DOMAIN q PROVE q[k].amount \in Nat
    <2>1. q[k] \in RequestType
      OBVIOUS
    <2> QED  BY <2>1 DEF RequestType
  <1>3. \A k \in S : f[k] \in Nat
    BY <1>2
  <1> HIDE DEF S, f
  <1>4. Total(S, f) \in Nat
    BY <1>1, <1>3, TotalType
  <1> QED  BY <1>1, <1>2, <1>4 DEF Asked, S, f

LEMMA AskedNone == \A r : Asked(r, <<>>) = 0
  <1>1. \A r : {k \in DOMAIN <<>> : <<>>[k].root = r} = {}
    OBVIOUS
  <1> QED  BY <1>1, TotalOfNone DEF Asked

LEMMA AskedAppend ==
    ASSUME NEW q \in Seq(RequestType), NEW x \in RequestType, NEW r
    PROVE  Asked(r, Append(q, x)) = Asked(r, q) + IF x.root = r THEN x.amount ELSE 0
  <1> DEFINE p == Append(q, x)
             n == Len(q) + 1
  <1>1. /\ DOMAIN p = DOMAIN q \cup {n} /\ n \notin DOMAIN q
        /\ \A k \in DOMAIN q : p[k] = q[k]
        /\ p[n] = x /\ x.amount \in Nat
    BY DEF RequestType
  <1> HIDE DEF p, n
  <1> DEFINE S == {k \in DOMAIN q : q[k].root = r}
             M == {k \in DOMAIN p : p[k].root = r}
             f == [k \in DOMAIN q |-> q[k].amount]
             g == [k \in DOMAIN p |-> p[k].amount]
  <1>3. IsFiniteSet(S) /\ (\A k \in S : f[k] \in Nat)
    BY AskedType
  <1>4. (\A k \in S : g[k] = f[k]) /\ g[n] = x.amount /\ n \notin S
    BY <1>1
  <1>5. M = IF x.root = r THEN S \cup {n} ELSE S
    BY <1>1
  <1>6. Total(S, g) = Total(S, f) /\ Total(S, f) \in Nat
    <2> HIDE DEF S, f, g
    <2> QED  BY <1>3, <1>4, TotalSame, TotalType
  <1>7. Total(S \cup {n}, g) = Total(S, g) + x.amount
    <2>1. \A k \in S : g[k] \in Nat
      BY <1>3, <1>4
    <2>2. g[n] \in Nat
      BY <1>1, <1>4
    <2>3. IsFiniteSet(S) /\ n \notin S
      BY <1>3, <1>4
    <2> HIDE DEF S, M, f, g
    <2>4. Total(S \cup {n}, g) = Total(S, g) + g[n]
      BY <2>1, <2>2, <2>3, TotalAdds
    <2> QED  BY <1>4, <2>4
  <1>8. Total(M, g) = Total(S, f) + IF x.root = r THEN x.amount ELSE 0
    <2> HIDE DEF S, M, f, g
    <2> QED  BY <1>5, <1>6, <1>7
  <1> QED  BY <1>8 DEF Asked, p

\* The first request leaves; the others change their places, not their amounts.
LEMMA AskedTail ==
    ASSUME NEW q \in Seq(RequestType), q # <<>>, NEW r
    PROVE  Asked(r, q) = Asked(r, Tail(q)) + IF Head(q).root = r THEN Head(q).amount ELSE 0
  <1> DEFINE p == Tail(q)
  <1>1. /\ 1 \in DOMAIN q /\ Head(q) = q[1] /\ p \in Seq(RequestType)
        /\ \A k \in DOMAIN p : k + 1 \in DOMAIN q \ {1} /\ p[k] = q[k + 1]
        /\ \A k \in DOMAIN q \ {1} : k - 1 \in DOMAIN p /\ (k - 1) + 1 = k
        /\ DOMAIN p \subseteq Nat
    OBVIOUS
  <1> HIDE DEF p
  <1> DEFINE S == {k \in DOMAIN p : p[k].root = r}
             T == {k \in DOMAIN q : q[k].root = r} \ {1}
             f == [k \in DOMAIN p |-> p[k].amount]
             g == [k \in DOMAIN q |-> q[k].amount]
             m == [k \in S |-> k + 1]
  <1>2. IsFiniteSet(S) /\ (\A k \in S : f[k] \in Nat)
    <2>1. p \in Seq(RequestType)
      BY <1>1
    <2>2. IsFiniteSet(S) /\ \A k \in DOMAIN p : p[k].amount \in Nat
      BY <2>1, AskedType
    <2> QED  BY <2>2
  <1>3. /\ m \in [S -> T] /\ (\A j, k \in S : m[j] = m[k] => j = k)
        /\ \A k \in S : g[m[k]] = f[k]
    BY <1>1
  <1>4. ASSUME NEW t \in T PROVE \E k \in S : m[k] = t
    <2>1. t - 1 \in S
      BY <1>1
    <2> QED  BY <1>1, <2>1
  <1>5. Total(T, g) = Total(S, f)
    <2> HIDE DEF S, T, f, g, m
    <2> QED  BY <1>2, <1>3, <1>4, TotalRenamed
  <1> DEFINE Q == {k \in DOMAIN q : q[k].root = r}
  <1>6. Asked(r, q) = Total(Q, g) /\ Asked(r, Tail(q)) = Total(S, f)
    BY DEF Asked, p
  <1>7. CASE q[1].root # r
    <2>1. Q = T
      BY <1>7
    <2>2. Total(Q, g) = Total(S, f) /\ Total(S, f) \in Nat
      <3> HIDE DEF S, T, Q, f, g, m
      <3>1. Total(S, f) \in Nat
        BY <1>2, TotalType
      <3> QED  BY <1>5, <2>1, <3>1
    <2> HIDE DEF S, T, Q, f, g, m
    <2> QED  BY <1>1, <1>7, <1>6, <2>2
  <1>8. CASE q[1].root = r
    <2>1. Q = T \cup {1} /\ 1 \notin T
      BY <1>1, <1>8
    <2>2. IsFiniteSet(T) /\ (\A k \in T : g[k] \in Nat) /\ g[1] \in Nat /\ g[1] = q[1].amount
      <3>1. IsFiniteSet(Q) /\ \A k \in DOMAIN q : q[k].amount \in Nat
        BY AskedType
      <3>2. T \in SUBSET Q
        OBVIOUS
      <3> QED  BY <1>1, <3>1, <3>2, FS_Subset
    <2>3. Total(T \cup {1}, g) = Total(T, g) + g[1]
      <3> HIDE DEF S, Q, T, f, g, m
      <3>1. 1 \notin T /\ IsFiniteSet(T) /\ g[1] \in Nat
        BY <2>1, <2>2
      <3>2. \A k \in T : g[k] \in Nat
        BY <2>2
      <3> QED  BY <3>1, <3>2, TotalAdds
    <2>4. Total(Q, g) = Total(S, f) + q[1].amount
      <3> HIDE DEF Q, T, S, f, g
      <3> QED  BY <1>5, <2>1, <2>2, <2>3
    <2> HIDE DEF S, T, Q, f, g, m
    <2> QED  BY <1>1, <1>8, <1>6, <2>4
  <1> QED  BY <1>7, <1>8

-----------------------------------------------------------------------------
HandType ==
    [source : Nat, offer : Offers, amount : Nat \ {0}, root : Roots,
     via : Offers \cup {"none", "later"}, phase : {"split", "renew"}, paid : BOOLEAN]
Phases == {"idle", "mpa", "split", "renew", "broadcast", "read", "retry", "persist",
           "requests", "request"}
Policies == {Policy(kind) : kind \in {"plain", "renew", "limit", "repay", "percent"}}

\* What was read of the deals earlier agrees with the chain on the deals that are
\* still there: an id is never given twice.
Snapshot(m, ds, n) ==
    /\ Deals(m, n)
    /\ \A i \in Loans \cap DOMAIN m : m[i].root = i
    /\ \A i \in DOMAIN m \cap DOMAIN ds : m[i].offer = ds[i].offer /\ m[i].root = ds[i].root

ChainOK ==
    /\ top \in Nat /\ Cardinality(Loans) <= top /\ open \subseteq Offers
    /\ Snapshot(deals, deals, top)

ViewOK ==
    /\ Snapshot(known, deals, top)
    /\ cache # NoDeals => Snapshot(cache, deals, top)
    /\ Snapshot(view, deals, top)

RequestsOK ==
    /\ queue \in Seq(RequestType) /\ saved \in Seq(RequestType)
    /\ rest \in Seq(RequestType) /\ nextQueue \in Seq(RequestType)
    /\ pc # "request" => nextQueue = <<>>

\* The renewal under way, and the loan it belongs to.
HandOK ==
    /\ hand = {} \/ \E h \in HandType : hand = {h}
    /\ pc \in {"broadcast", "read", "retry", "persist"} \/ hand = {}
    /\ \A h \in hand :
         /\ h.source \in 1 .. top
         /\ h.source \in DOMAIN deals => deals[h.source].root = h.root /\ deals[h.source].offer = h.offer
         /\ h.paid <=> pc \in {"read", "retry"}
         /\ pc = "retry" => h.via = "later"

\* The deals to split stay on the chain until their piece is repaid.
TodoOK ==
    /\ todo \subseteq 1 .. top
    /\ pc = "mpa" => known = deals
    /\ pc = "split" => todo \subseteq DOMAIN known /\ todo \subseteq DOMAIN deals
    /\ \A h \in hand : h.phase = "split" =>
          todo \subseteq DOMAIN known /\ todo \subseteq DOMAIN deals /\ h.source \notin todo
    /\ policy.limit = 0 => (pc = "split" => todo = {}) /\ \A h \in hand : h.phase = "renew"

CreditTypes ==
    /\ policy \in Policies /\ pc \in Phases /\ mishaps \in Nat
    /\ ChainOK /\ ViewOK /\ RequestsOK /\ HandOK /\ TodoOK

-----------------------------------------------------------------------------
LEMMA LoansKnown ==
    /\ Cardinality(Loans) \in Nat /\ \A i \in Loans : i \in Nat /\ i <= Cardinality(Loans)
    /\ 0 \notin Loans
  <1>1. Cardinality(Loans) \in Nat
    BY CreditAssumption, FS_CardinalityType
  <1> QED  BY <1>1, CreditAssumption

LEMMA PolicyType ==
    ASSUME policy \in Policies
    PROVE  /\ policy.limit \in {0, 1} /\ policy.renewOnly \in BOOLEAN
           /\ policy.reborrow \in BOOLEAN /\ policy.percent \in BOOLEAN
           /\ policy.renewOnly => policy.limit = 0 /\ policy.reborrow /\ ~policy.percent
  <1>1. PICK kind \in {"plain", "renew", "limit", "repay", "percent"} : policy = Policy(kind)
    BY DEF Policies
  <1>2. CASE kind = "plain"
    BY <1>1, <1>2 DEF Policy, Plain
  <1>3. CASE kind = "renew"
    BY <1>1, <1>3 DEF Policy, Plain
  <1>4. CASE kind = "limit"
    BY <1>1, <1>4 DEF Policy, Plain
  <1>5. CASE kind = "repay"
    BY <1>1, <1>5 DEF Policy, Plain
  <1>6. CASE kind = "percent"
    BY <1>1, <1>6 DEF Policy, Plain
  <1> QED  BY <1>1, <1>2, <1>3, <1>4, <1>5, <1>6

\* The least of some natural numbers is one of them.
LEMMA MinIsIn ==
    ASSUME NEW S \in SUBSET Nat, S # {}
    PROVE  Min(S) \in S
  <1> DEFINE Less == OpToRel(<, Nat)
  <1>1. IsWellFoundedOn(Less, Nat)
    BY NatLessThanWellFounded, Zenon
  <1>2. \A x, y \in Nat : <<y, x>> \notin Less => x =< y
    BY DEF OpToRel
  <1> HIDE DEF Less
  <1>3. \E x \in S : \A y \in S : <<y, x>> \notin Less
    BY <1>1, WFMin, Zenon
  <1>4. \E x \in S : \A y \in S : x =< y
    BY <1>2, <1>3
  <1> QED BY <1>4 DEF Min

\* The chain moves on: new ids are new, old deals keep what they are.
Onward(ds, n, ds2, n2) ==
    /\ n2 \in Nat /\ n <= n2 /\ Deals(ds2, n2)
    /\ \A i \in DOMAIN ds2 : i <= n =>
          i \in DOMAIN ds /\ ds2[i].root = ds[i].root /\ ds2[i].offer = ds[i].offer

LEMMA SnapshotStays ==
    ASSUME NEW m, NEW ds, NEW n \in Nat, NEW ds2, NEW n2,
           Snapshot(m, ds, n), Onward(ds, n, ds2, n2)
    PROVE  Snapshot(m, ds2, n2)
  <1>1. \A i \in DOMAIN m : i \in Nat /\ i <= n /\ i <= n2
    BY DEF Snapshot, Deals, Onward
  <1>2. Deals(m, n2)
    BY <1>1 DEF Snapshot, Deals, Onward
  <1> QED  BY <1>1, <1>2 DEF Snapshot, Onward

LEMMA DealsAreASnapshot ==
    ASSUME NEW ds, NEW n \in Nat, NEW ds2, NEW n2, Cardinality(Loans) <= n,
           Snapshot(ds, ds, n), Onward(ds, n, ds2, n2)
    PROVE  Snapshot(ds2, ds2, n2)
  <1>1. \A i \in Loans \cap DOMAIN ds2 : i <= n
    BY LoansKnown
  <1>2. \A i \in Loans \cap DOMAIN ds2 : ds2[i].root = i
    BY <1>1 DEF Snapshot, Onward
  <1> QED  BY <1>2 DEF Snapshot, Onward

LEMMA OnwardStill ==
    ASSUME ChainOK PROVE Onward(deals, top, deals, top)
  BY DEF ChainOK, Snapshot, Onward

LEMMA OnwardLent ==
    ASSUME ChainOK, NEW o \in Offers, NEW a \in Nat \ {0}, NEW r \in Roots
    PROVE  Onward(deals, top, Lend(deals, o, a, r), top + 1)
  <1>1. Deals(deals, top) /\ top \in Nat
    BY DEF ChainOK, Snapshot
  <1>2. Deals(Lend(deals, o, a, r), top + 1) /\ Added(deals, top, o, a, r, Lend(deals, o, a, r))
    BY <1>1, LentDeals
  <1> QED  BY <1>1, <1>2 DEF Onward, Added

\* The transaction of a renewal, and what it takes from the chain.
LEMMA OnwardExecuted ==
    ASSUME ChainOK, NEW h \in HandType, Fits(h), Execute(h)
    PROVE  /\ Onward(deals, top, deals', top')
           /\ DOMAIN deals \ {h.source} \subseteq DOMAIN deals'
           /\ deals[h.source].debt # h.amount => DOMAIN deals \subseteq DOMAIN deals'
           /\ deals[h.source].debt = h.amount => h.source \notin DOMAIN deals'
  <1> DEFINE paid == Repaid(deals, h.source, h.amount)
  <1>1. Deals(deals, top) /\ top \in Nat /\ h.source \in DOMAIN deals
        /\ h.amount \in Nat \ {0} /\ h.amount <= deals[h.source].debt /\ h.root \in Roots
    BY DEF ChainOK, Snapshot, Fits, HandType
  <1>2. Deals(paid, top) /\ Left(deals, h.source, h.amount, paid)
    BY <1>1, RepaidDeals
  <1>3. Onward(deals, top, paid, top)
    BY <1>1, <1>2 DEF Onward, Left
  <1> HIDE DEF paid
  <1>4. CASE h.via \in Offers
    <2>1. deals' = Lend(paid, h.via, h.amount, h.root) /\ top' = top + 1
      BY <1>4 DEF Execute, paid
    <2>2. Deals(deals', top + 1) /\ Added(paid, top, h.via, h.amount, h.root, deals')
      BY <1>1, <1>2, <1>4, <2>1, LentDeals
    <2>3. h.source # top + 1
      BY <1>1 DEF Deals
    <2> QED  BY <1>1, <1>2, <1>3, <2>1, <2>2, <2>3 DEF Onward, Added, Left
  <1>5. CASE h.via \notin Offers
    <2>1. deals' = paid /\ top' = top
      BY <1>5 DEF Execute, paid
    <2> QED  BY <1>2, <1>3, <2>1 DEF Left
  <1> QED  BY <1>4, <1>5

-----------------------------------------------------------------------------
\* Five actions touch the chain, one the offers that are open.
LEMMA ChainSteps ==
    ASSUME CreditTypes, [CreditNext]_creditVars
    PROVE  Onward(deals, top, deals', top') /\ ChainOK'
  <1>0. ChainOK /\ RequestsOK /\ HandOK
    BY DEF CreditTypes
  <1>1. ASSUME UNCHANGED chainVars, open' \subseteq Offers PROVE Onward(deals, top, deals', top') /\ open' \subseteq Offers
    BY <1>0, <1>1, OnwardStill DEF chainVars
  <1>2. ASSUME NEW h \in hand, Broadcast(h) \/ BroadcastFails(h) PROVE Onward(deals, top, deals', top') /\ open' \subseteq Offers
    <2>1. h \in HandType
      BY <1>0 DEF HandOK
    <2>2. (Fits(h) /\ Execute(h)) \/ UNCHANGED chainVars
      BY <1>2 DEF Broadcast, BroadcastFails
    <2>3. open' \subseteq Offers
      BY <1>0, <1>2 DEF Broadcast, BroadcastFails, ChainOK
    <2> QED  BY <1>0, <1>1, <2>1, <2>2, <2>3, OnwardExecuted
  <1>3. ASSUME NEW h \in hand, Retry(h) PROVE Onward(deals, top, deals', top') /\ open' \subseteq Offers
    <2>1. h.offer \in Offers /\ h.amount \in Nat \ {0} /\ h.root \in Roots
      BY <1>0 DEF HandOK, HandType
    <2>2. \/ deals' = Lend(deals, h.offer, h.amount, h.root) /\ top' = top + 1
          \/ UNCHANGED chainVars
      BY <1>3 DEF Retry
    <2>3. open' \subseteq Offers
      BY <1>0, <1>3 DEF Retry, ChainOK
    <2> QED  BY <1>0, <1>1, <2>1, <2>2, <2>3, OnwardLent
  <1>4. ASSUME Increase PROVE Onward(deals, top, deals', top') /\ open' \subseteq Offers
    <2>1. \/ \E o \in Offers : deals' = Lend(deals, o, 1, 0) /\ top' = top + 1
          \/ UNCHANGED chainVars
      BY <1>0, <1>4 DEF Increase, ChainOK
    <2>2. open' \subseteq Offers /\ 1 \in Nat \ {0} /\ 0 \in Roots
      BY <1>0, <1>4 DEF Increase, ChainOK, Roots
    <2> QED  BY <1>0, <1>1, <2>1, <2>2, OnwardLent
  <1>5. ASSUME Serve PROVE Onward(deals, top, deals', top') /\ open' \subseteq Offers
    <2>1. rest # <<>> /\ Head(rest) \in RequestType
      BY <1>0, <1>5 DEF Serve, RequestsOK
    <2>2. Head(rest).amount \in Nat \ {0} /\ Head(rest).root \in Roots
      BY <2>1 DEF RequestType
    <2>3. \/ \E o \in Offers : /\ deals' = Lend(deals, o, Head(rest).amount, Head(rest).root)
                               /\ top' = top + 1
          \/ UNCHANGED chainVars
      BY <1>0, <1>5 DEF Serve, Takes, ChainOK
    <2>4. open' \subseteq Offers
      BY <1>0, <1>5 DEF Serve, ChainOK
    <2> QED  BY <1>0, <1>1, <2>2, <2>3, <2>4, OnwardLent
  <1>6. ASSUME NEW o \in Offers, Toggle(o) PROVE Onward(deals, top, deals', top') /\ open' \subseteq Offers
    BY <1>0, <1>1, <1>6 DEF Toggle, ChainOK
  <1>7. ASSUME StartPass \/ Mpa \/ SplitEnd \/ SkipDeal \/ StartRequests \/ FinishRequests \/ Stop
               \/ UNCHANGED creditVars
        PROVE  Onward(deals, top, deals', top') /\ open' \subseteq Offers
    BY <1>0, <1>1, <1>7 DEF StartPass, Mpa, SplitEnd, SkipDeal, StartRequests, FinishRequests,
                            Stop, creditVars, ChainOK
  <1>8. ASSUME SplitPiece \/ RenewDeal PROVE Onward(deals, top, deals', top') /\ open' \subseteq Offers
    BY <1>0, <1>1, <1>8 DEF SplitPiece, RenewDeal, Renew, ChainOK
  <1>9. ASSUME NEW h \in hand, ReadBack(h) \/ Persist(h) PROVE Onward(deals, top, deals', top') /\ open' \subseteq Offers
    BY <1>0, <1>1, <1>9 DEF ReadBack, Persist, ChainOK
  <1>10. Onward(deals, top, deals', top') /\ open' \subseteq Offers
    BY <1>2, <1>3, <1>4, <1>5, <1>6, <1>7, <1>8, <1>9 DEF CreditNext, Step
  <1>11. Onward(deals, top, deals', top') /\ open' \subseteq Offers
    BY <1>10
  <1>12. Snapshot(deals', deals', top') /\ top' \in Nat /\ Cardinality(Loans) <= top'
    BY <1>0, <1>11, DealsAreASnapshot, LoansKnown DEF ChainOK, Onward
  <1> QED  BY <1>11, <1>12 DEF ChainOK

\* What a pass reads of the deals, and keeps, stays a snapshot.
LEMMA ViewSteps ==
    ASSUME CreditTypes, [CreditNext]_creditVars
    PROVE  ViewOK'
  <1>0. ChainOK /\ ViewOK
    BY DEF CreditTypes
  <1>1. /\ Onward(deals, top, deals', top') /\ Snapshot(deals', deals', top')
        /\ top \in Nat
    BY <1>0, ChainSteps DEF ChainOK
  <1>2. /\ Snapshot(known, deals', top') /\ Snapshot(view, deals', top') /\ (cache # NoDeals => Snapshot(cache, deals', top')) /\ Snapshot(deals, deals', top')
    <2>1. Snapshot(deals, deals, top)
      BY <1>0 DEF ChainOK
    <2> QED  BY <1>0, <1>1, <2>1, SnapshotStays DEF ViewOK
  <1>3. Snapshot(<< >>, deals', top')
    BY <1>1 DEF Snapshot, Deals
  <1>4. Snapshot(deals', deals', top') /\ Snapshot(Fetched, deals', top')
    BY <1>1, <1>2 DEF Fetched
  <1>5. ASSUME UNCHANGED <<known, cache, view>> PROVE ViewOK'
    BY <1>2, <1>5 DEF ViewOK
  <1>6. ASSUME Refresh, UNCHANGED view PROVE ViewOK'
    BY <1>2, <1>4, <1>6 DEF Refresh, ViewOK
  <1>7. ASSUME NEW tried, Build(tried), UNCHANGED <<known, view>> PROVE ViewOK'
    BY <1>2, <1>4, <1>7 DEF Build, ViewOK
  <1>8. CASE StartPass
    BY <1>6, <1>8 DEF StartPass, loopVars
  <1>9. CASE SplitPiece \/ RenewDeal
    BY <1>7, <1>9 DEF SplitPiece, RenewDeal, Renew, loopVars
  <1>10. CASE SplitEnd
    BY <1>2, <1>4, <1>10 DEF SplitEnd, loopVars, viewVars, ViewOK
  <1>11. CASE Increase
    BY <1>2, <1>4, <1>11 DEF Increase, loopVars, viewVars, ViewOK
  <1>12. CASE StartRequests
    BY <1>2, <1>4, <1>12 DEF StartRequests, ViewOK
  <1>13. CASE FinishRequests
    BY <1>3, <1>4, <1>13 DEF FinishRequests, Refresh, ViewOK
  <1>14. CASE Stop
    BY <1>3, <1>14 DEF Stop, ViewOK
  <1>15. ASSUME NEW h \in hand, ReadBack(h) PROVE ViewOK'
    BY <1>6, <1>15 DEF ReadBack, loopVars
  <1>16. ASSUME NEW h \in hand, Retry(h) PROVE ViewOK'
    BY <1>6, <1>7, <1>16 DEF Retry, loopVars
  <1>17. ASSUME NEW h \in hand, Broadcast(h) \/ BroadcastFails(h) \/ Persist(h) PROVE ViewOK'
    BY <1>5, <1>17 DEF Broadcast, BroadcastFails, Persist, viewVars, loopVars
  <1>18. CASE Mpa \/ SkipDeal \/ Serve \/ UNCHANGED creditVars
    BY <1>5, <1>18 DEF Mpa, SkipDeal, Serve, creditVars, viewVars, loopVars
  <1>19. ASSUME NEW o \in Offers, Toggle(o) PROVE ViewOK'
    BY <1>5, <1>19 DEF Toggle, viewVars, loopVars
  <1> QED
    BY <1>8, <1>9, <1>10, <1>11, <1>12, <1>13, <1>14, <1>15, <1>16, <1>17, <1>18, <1>19
       DEF CreditNext, Step

\* The queue, its copy in the file and the loop over it hold requests.
LEMMA RequestSteps ==
    ASSUME CreditTypes, [CreditNext]_creditVars
    PROVE  RequestsOK'
  <1>0. RequestsOK /\ HandOK
    BY DEF CreditTypes
  <1>1. ASSUME NEW h \in hand PROVE Request(h) \in RequestType
    <2>1. h \in HandType /\ h.source \in Nat
      BY <1>0 DEF HandOK, HandType
    <2> QED  BY <2>1 DEF Request, RequestType, HandType
  <1>2. ASSUME UNCHANGED <<queue, rest, nextQueue>>, saved' \in {saved, queue},
               pc' = "request" => pc = "request", pc = "request" => pc' = "request" \/ nextQueue' = <<>>
        PROVE  RequestsOK'
    BY <1>0, <1>2 DEF RequestsOK
  <1>3. CASE StartPass \/ Mpa \/ SplitEnd \/ SkipDeal \/ Increase \/ UNCHANGED creditVars
    BY <1>2, <1>3 DEF StartPass, Mpa, SplitEnd, SkipDeal, Increase, Refresh, fileVars, loopVars, creditVars
  <1>4. CASE SplitPiece \/ RenewDeal
    BY <1>2, <1>4 DEF SplitPiece, RenewDeal, Renew, fileVars, loopVars
  <1>5. ASSUME NEW h \in hand, Broadcast(h) \/ BroadcastFails(h) \/ ReadBack(h)
        PROVE  RequestsOK'
    BY <1>2, <1>5 DEF Broadcast, BroadcastFails, ReadBack, Refresh, fileVars, loopVars
  <1>6. ASSUME NEW h \in hand, Persist(h) PROVE RequestsOK'
    <2>1. h.phase # "request"
      BY <1>0 DEF HandOK, HandType
    <2> QED  BY <1>2, <1>6, <2>1 DEF Persist, fileVars, loopVars
  <1>7. ASSUME NEW h \in hand, Retry(h) PROVE RequestsOK'
    <2>1. queue' \in {queue, Append(queue, Request(h))}
      BY <1>7 DEF Retry, Queued
    <2>2. queue' \in Seq(RequestType)
      <3>1. queue \in Seq(RequestType) /\ Request(h) \in RequestType
        BY <1>0, <1>1 DEF RequestsOK
      <3>2. Append(queue, Request(h)) \in Seq(RequestType)
        BY <3>1
      <3> QED  BY <2>1, <3>1, <3>2
    <2>3. saved' \in {saved, queue'} /\ UNCHANGED <<rest, nextQueue>> /\ pc = "retry" /\ pc' = "persist"
      BY <1>7 DEF Retry, Refresh, loopVars
    <2> QED  BY <1>0, <2>2, <2>3 DEF RequestsOK
  <1>8. CASE StartRequests
    BY <1>0, <1>8 DEF StartRequests, RequestsOK
  <1>9. CASE Serve
    <2>1. nextQueue' \in {nextQueue, Append(nextQueue, Head(rest))}
      BY <1>9 DEF Serve, Kept
    <2>2. rest # <<>> /\ rest' = Tail(rest) /\ UNCHANGED <<queue, saved, pc>> /\ pc = "request"
      BY <1>9 DEF Serve, fileVars
    <2>3. Head(rest) \in RequestType /\ Tail(rest) \in Seq(RequestType)
      BY <1>0, <2>2 DEF RequestsOK
    <2>4. nextQueue' \in Seq(RequestType)
      <3>1. nextQueue \in Seq(RequestType)
        BY <1>0 DEF RequestsOK
      <3>2. Append(nextQueue, Head(rest)) \in Seq(RequestType)
        BY <2>3, <3>1
      <3> QED  BY <2>1, <3>1, <3>2
    <2> QED  BY <1>0, <2>2, <2>3, <2>4 DEF RequestsOK
  <1>10. CASE FinishRequests
    BY <1>0, <1>10 DEF FinishRequests, LeftOver, Refresh, RequestsOK
  <1>11. CASE Stop
    BY <1>0, <1>11 DEF Stop, RequestsOK
  <1>12. ASSUME NEW o \in Offers, Toggle(o) PROVE RequestsOK'
    BY <1>2, <1>12 DEF Toggle, fileVars, loopVars
  <1> QED  BY <1>3, <1>4, <1>5, <1>6, <1>7, <1>8, <1>9, <1>10, <1>11, <1>12 DEF CreditNext, Step

LEMMA HandSteps ==
    ASSUME CreditTypes, [CreditNext]_creditVars
    PROVE  HandOK'
  <1>0. ChainOK /\ ViewOK /\ HandOK /\ TodoOK /\ policy \in Policies
    BY DEF CreditTypes
  <1>1. Onward(deals, top, deals', top') /\ top \in Nat /\ top' \in Nat
    BY ChainSteps, <1>0 DEF ChainOK
  <1>2. ASSUME NEW h, h.source \in 1 .. top,
               h.source \in DOMAIN deals => deals[h.source].root = h.root /\ deals[h.source].offer = h.offer
        PROVE  /\ h.source \in 1 .. top'
               /\ h.source \in DOMAIN deals' =>
                     deals'[h.source].root = h.root /\ deals'[h.source].offer = h.offer
    BY <1>1, <1>2 DEF Onward
  <1>3. ASSUME hand' = {} PROVE HandOK'
    BY <1>3 DEF HandOK
  <1>4. ASSUME NEW h \in hand, NEW b \in BOOLEAN, hand' = {[h EXCEPT !.paid = b]},
               pc' \in {"broadcast", "read", "retry", "persist"}, b <=> pc' \in {"read", "retry"},
               pc' = "retry" => h.via = "later"
        PROVE  HandOK'
    <2>1. h \in HandType /\ h.source \in 1 .. top
          /\ (h.source \in DOMAIN deals => deals[h.source].root = h.root /\ deals[h.source].offer = h.offer)
      BY <1>0 DEF HandOK
    <2>2. PICK g : g = [h EXCEPT !.paid = b]
      OBVIOUS
    <2>3. /\ g \in HandType /\ g.source = h.source /\ g.offer = h.offer /\ g.root = h.root
          /\ g.paid = b /\ g.via = h.via
      BY <2>1, <2>2 DEF HandType
    <2>4. /\ g.source \in 1 .. top'
          /\ g.source \in DOMAIN deals' => deals'[g.source].root = g.root /\ deals'[g.source].offer = g.offer
      BY <1>2, <2>1, <2>3
    <2>5. hand' = {g}
      BY <1>4, <2>2
    <2> QED  BY <1>4, <2>3, <2>4, <2>5 DEF HandOK
  <1>5. ASSUME UNCHANGED hand, UNCHANGED pc PROVE HandOK'
    BY <1>0, <1>2, <1>5 DEF HandOK
  <1>6. ASSUME pc \notin {"broadcast", "read", "retry", "persist"}, UNCHANGED hand PROVE HandOK'
    BY <1>0, <1>3, <1>6 DEF HandOK
  <1>7. ASSUME NEW i \in DOMAIN known, NEW a \in Nat \ {0}, NEW phase \in {"split", "renew"},
               Renew(i, a, phase)
        PROVE  HandOK'
    <2>1. known[i] \in DealType /\ i \in 1 .. top
      BY <1>0 DEF ViewOK, Snapshot, Deals
    <2>2. PICK via \in (IF ~policy.reborrow THEN {"none"}
                   ELSE IF known[i].offer \in open THEN {known[i].offer}
                   ELSE IF Others(known[i].offer) # {} THEN Others(known[i].offer)
                   ELSE {"later"}) :
             hand' = {[source |-> i, offer |-> known[i].offer, amount |-> a, root |-> known[i].root,
                       via |-> via, phase |-> phase, paid |-> FALSE]}
      BY <1>7 DEF Renew
    <2>3. via \in Offers \cup {"none", "later"}
      BY <1>0, <2>1, <2>2 DEF ChainOK, Others
    <2>4. PICK g : g = [source |-> i, offer |-> known[i].offer, amount |-> a, root |-> known[i].root,
                       via |-> via, phase |-> phase, paid |-> FALSE]
      OBVIOUS
    <2>5. /\ g \in HandType /\ g.source = i /\ g.offer = known[i].offer /\ g.root = known[i].root
          /\ g.paid = FALSE
      BY <1>1, <2>1, <2>3, <2>4 DEF HandType, DealType
    <2>6. pc' = "broadcast" /\ UNCHANGED chainVars /\ hand' = {g}
      BY <1>7, <2>2, <2>4 DEF Renew
    <2>7. g.source \in DOMAIN deals => deals[g.source].root = g.root /\ deals[g.source].offer = g.offer
      BY <1>0, <2>5 DEF ViewOK, Snapshot
    <2> QED  BY <2>1, <2>5, <2>6, <2>7 DEF HandOK, chainVars
  <1>8. CASE SplitPiece
    <2>1. Min(todo) \in DOMAIN known
      <3>1. todo # {} /\ todo \subseteq Nat /\ todo \subseteq DOMAIN known
        BY <1>0, <1>1, <1>8 DEF SplitPiece, TodoOK
      <3> QED  BY <3>1, MinIsIn
    <2>2. policy.limit \in Nat \ {0}
      <3>1. policy.limit \in {0, 1}
        BY <1>0, PolicyType
      <3>2. policy.limit # 0
        BY <1>0, <1>8 DEF SplitPiece, TodoOK
      <3> QED  BY <3>1, <3>2
    <2> QED  BY <1>7, <1>8, <2>1, <2>2 DEF SplitPiece
  <1>9. CASE RenewDeal
    <2>1. PICK i \in DOMAIN known : Renew(i, known[i].debt, "renew")
      BY <1>9 DEF RenewDeal
    <2>2. known[i].debt \in Nat \ {0}
      BY <1>0 DEF ViewOK, Snapshot, Deals, DealType
    <2> QED  BY <1>7, <2>1, <2>2
  <1>10. ASSUME NEW h \in hand, Broadcast(h) PROVE HandOK'
    BY <1>4, <1>10 DEF Broadcast
  <1>11. ASSUME NEW h \in hand, BroadcastFails(h) \/ Persist(h) PROVE HandOK'
    BY <1>3, <1>11 DEF BroadcastFails, Persist
  <1>12. ASSUME NEW h \in hand, ReadBack(h) PROVE HandOK'
    <2>1. h \in HandType /\ hand = {h} /\ h.paid
      BY <1>0, <1>12 DEF HandOK, ReadBack
    <2>2. h = [h EXCEPT !.paid = TRUE]
      BY <2>1 DEF HandType
    <2>3. CASE h.via = "later" /\ h.source \notin DOMAIN Fetched
      BY <1>4, <1>12, <2>1, <2>2, <2>3 DEF ReadBack
    <2>4. CASE ~(h.via = "later" /\ h.source \notin DOMAIN Fetched)
      BY <1>4, <1>12, <2>4 DEF ReadBack
    <2> QED  BY <2>3, <2>4
  <1>13. ASSUME NEW h \in hand, Retry(h) PROVE HandOK'
    BY <1>4, <1>13 DEF Retry
  <1>14. CASE StartPass \/ Mpa \/ SplitEnd \/ SkipDeal \/ Increase \/ StartRequests \/ Serve
    BY <1>6, <1>14 DEF StartPass, Mpa, SplitEnd, SkipDeal, Increase, StartRequests, Serve
  <1>15. CASE FinishRequests
    BY <1>6, <1>15 DEF FinishRequests
  <1>16. CASE Stop
    BY <1>3, <1>16 DEF Stop
  <1>17. ASSUME NEW o \in Offers, Toggle(o) PROVE HandOK'
    BY <1>5, <1>17 DEF Toggle
  <1>18. CASE UNCHANGED creditVars
    BY <1>5, <1>18 DEF creditVars
  <1> QED  BY <1>8, <1>9, <1>10, <1>11, <1>12, <1>13, <1>14, <1>15, <1>16, <1>17, <1>18
           DEF CreditNext, Step

LEMMA TodoSteps ==
    ASSUME CreditTypes, [CreditNext]_creditVars
    PROVE  TodoOK'
  <1>0. ChainOK /\ ViewOK /\ HandOK /\ TodoOK /\ policy \in Policies
    BY DEF CreditTypes
  <1>1. /\ Onward(deals, top, deals', top') /\ top \in Nat /\ top' \in Nat /\ top <= top'
        /\ DOMAIN known \subseteq 1 .. top'
    BY ChainSteps, <1>0 DEF ChainOK, Onward, ViewOK, Snapshot, Deals
  <1>2. DOMAIN known' \subseteq 1 .. top'
    BY ViewSteps DEF ViewOK, Snapshot, Deals
  <1>3. todo \subseteq 1 .. top'
    BY <1>0, <1>1 DEF TodoOK
  <1>4. ASSUME todo' \subseteq 1 .. top', hand' = {}, pc' \notin {"mpa", "split"} PROVE TodoOK'
    BY <1>4 DEF TodoOK
  <1>5. CASE StartPass
    <2>1. hand = {}
      BY <1>0, <1>5 DEF HandOK, StartPass
    <2> QED  BY <1>3, <1>5, <2>1 DEF StartPass, Refresh, TodoOK
  <1>6. CASE Mpa
    <2>1. hand = {}
      BY <1>0, <1>6 DEF HandOK, Mpa
    <2>2. UNCHANGED <<known, deals, hand, policy>> /\ known = deals
      BY <1>0, <1>6 DEF Mpa, TodoOK, viewVars, chainVars
    <2>3. /\ pc' # "mpa" /\ todo' \subseteq todo \cup DOMAIN known
          /\ pc' = "split" => todo' \subseteq DOMAIN known
          /\ pc' = "split" /\ policy.limit = 0 => todo' = {}
      BY <1>6 DEF Mpa
    <2> QED  BY <1>1, <1>3, <2>1, <2>2, <2>3 DEF TodoOK
  <1>7. CASE SplitPiece
    <2>1. todo # {} /\ todo \subseteq DOMAIN known /\ todo \subseteq DOMAIN deals /\ policy.limit # 0
      BY <1>0, <1>7 DEF SplitPiece, TodoOK
    <2>2. /\ todo' = todo \ {Min(todo)} /\ pc' = "broadcast" /\ UNCHANGED <<known, deals, policy>>
          /\ \A h \in hand' : h.source = Min(todo)
      BY <1>7 DEF SplitPiece, Renew, chainVars
    <2> QED  BY <1>3, <2>1, <2>2 DEF TodoOK
  <1>8. CASE RenewDeal
    <2>1. PICK i : Renew(i, known[i].debt, "renew")
      BY <1>8 DEF RenewDeal
    <2>2. todo' = todo \ {i} /\ pc' = "broadcast" /\ \A h \in hand' : h.phase = "renew"
      BY <2>1 DEF Renew
    <2> QED  BY <1>3, <2>2 DEF TodoOK
  <1>9. CASE SplitEnd \/ SkipDeal \/ Increase \/ StartRequests \/ Serve \/ FinishRequests
    <2>1. hand = {}
      BY <1>0, <1>9 DEF HandOK, SplitEnd, SkipDeal, Increase, StartRequests, Serve, FinishRequests
    <2>2. hand' = {} /\ pc' \notin {"mpa", "split"} /\ todo' \subseteq todo \cup DOMAIN known'
      BY <1>9, <2>1 DEF SplitEnd, SkipDeal, Increase, StartRequests, Serve, FinishRequests
    <2> QED  BY <1>2, <1>3, <1>4, <2>2
  <1>10. CASE Stop
    BY <1>4, <1>10 DEF Stop
  <1>11. ASSUME NEW h \in hand, BroadcastFails(h) PROVE TodoOK'
    BY <1>1, <1>3, <1>4, <1>11 DEF BroadcastFails
  <1>12. ASSUME NEW h \in hand, NEW b, hand' = {[h EXCEPT !.paid = b]},
                pc' \notin {"mpa", "split"}, UNCHANGED <<todo, policy>>,
                h.phase = "split" => todo \subseteq DOMAIN known' /\ todo \subseteq DOMAIN deals'
         PROVE  TodoOK'
    <2>1. h \in HandType
      BY <1>0 DEF HandOK
    <2>2. PICK g : g = [h EXCEPT !.paid = b]
      OBVIOUS
    <2>3. g.phase = h.phase /\ g.source = h.source /\ hand' = {g}
      BY <1>12, <2>1, <2>2 DEF HandType
    <2>4. h.phase = "split" => h.source \notin todo
      BY <1>0 DEF TodoOK
    <2>5. policy.limit = 0 => h.phase = "renew"
      BY <1>0 DEF TodoOK
    <2> QED  BY <1>3, <1>12, <2>3, <2>4, <2>5 DEF TodoOK
  <1>13. ASSUME NEW h \in hand PROVE h \in HandType /\ (h.phase = "split" =>
              todo \subseteq DOMAIN known /\ todo \subseteq DOMAIN deals /\ h.source \notin todo)
    BY <1>0 DEF HandOK, TodoOK
  <1>14. ASSUME NEW h \in hand, Broadcast(h) PROVE TodoOK'
    <2>1. DOMAIN deals \ {h.source} \subseteq DOMAIN deals'
      BY <1>0, <1>13, <1>14, OnwardExecuted DEF Broadcast
    <2> QED  BY <1>12, <1>13, <1>14, <2>1 DEF Broadcast, viewVars
  <1>15. ASSUME NEW h \in hand, ReadBack(h) PROVE TodoOK'
    <2>1. UNCHANGED deals /\ known' = deals'
      BY <1>15 DEF ReadBack, Refresh, chainVars
    <2>2. h = [h EXCEPT !.paid = TRUE]
      <3>1. h.paid /\ h \in HandType
        BY <1>0, <1>13, <1>15 DEF HandOK, ReadBack
      <3> QED  BY <3>1 DEF HandType
    <2>3. hand = {h}
      BY <1>0 DEF HandOK
    <2>4. PICK b \in BOOLEAN : hand' = {[h EXCEPT !.paid = b]}
      BY <1>15, <2>2, <2>3 DEF ReadBack
    <2> QED  BY <1>12, <1>13, <1>15, <2>1, <2>4 DEF ReadBack
  <1>16. ASSUME NEW h \in hand, Retry(h) PROVE TodoOK'
    <2>1. DOMAIN deals \subseteq DOMAIN deals' /\ (known' = deals' \/ UNCHANGED known)
      BY <1>16 DEF Retry, Refresh, Lend, chainVars
    <2> QED  BY <1>12, <1>13, <1>16, <2>1 DEF Retry
  <1>17. ASSUME NEW h \in hand, Persist(h) PROVE TodoOK'
    <2>1. /\ hand' = {} /\ pc' = h.phase /\ UNCHANGED <<todo, policy, known, deals>>
          /\ h.phase \in {"split", "renew"}
      BY <1>13, <1>17 DEF Persist, chainVars, viewVars, HandType
    <2>2. policy.limit = 0 => h.phase = "renew"
      BY <1>0 DEF TodoOK
    <2> QED  BY <1>3, <1>13, <2>1, <2>2 DEF TodoOK
  <1>18. ASSUME UNCHANGED <<policy, todo, pc, hand, known, deals>> PROVE TodoOK'
    BY <1>0, <1>3, <1>18 DEF TodoOK
  <1>19. ASSUME NEW o \in Offers, Toggle(o) PROVE TodoOK'
    BY <1>18, <1>19 DEF Toggle, chainVars, viewVars
  <1>20. CASE UNCHANGED creditVars
    BY <1>18, <1>20 DEF creditVars, chainVars, viewVars
  <1> QED  BY <1>5, <1>6, <1>7, <1>8, <1>9, <1>10, <1>11, <1>14, <1>15, <1>16, <1>17, <1>19, <1>20
           DEF CreditNext, Step

LEMMA CreditTypesInit == CreditInit => CreditTypes
  <1> SUFFICES ASSUME CreditInit PROVE CreditTypes
    OBVIOUS
  <1>1. policy \in Policies /\ pc \in Phases /\ top \in Nat /\ top = Cardinality(Loans)
    BY CreditAssumption, LoansKnown DEF CreditInit, Policies, Phases
  <1>0. mishaps \in Nat
    BY DEF CreditInit
  <1>2. PICK f \in [Loans -> Offers] :
            deals = [i \in Loans |-> [offer |-> f[i], debt |-> Lent(i), root |-> i]]
    BY DEF CreditInit
  <1>3. \A i \in Loans : Lent(i) \in Nat \ {0}
    BY DEF Lent
  <1>4. Deals(deals, top)
    <2>1. \A i \in Loans : [offer |-> f[i], debt |-> Lent(i), root |-> i] \in DealType
      BY <1>3 DEF DealType, Roots
    <2>2. Loans = 1 .. top
      BY <1>1, CreditAssumption
    <2> QED  BY <1>2, <2>1, <2>2 DEF Deals
  <1>5. ChainOK
    BY <1>1, <1>2, <1>4 DEF CreditInit, ChainOK, Snapshot
  <1>6. Snapshot(<< >>, deals, top)
    BY <1>1 DEF Snapshot, Deals
  <1>7. ViewOK /\ RequestsOK /\ HandOK /\ TodoOK
    BY <1>1, <1>6 DEF CreditInit, ViewOK, RequestsOK, HandOK, TodoOK
  <1> QED  BY <1>0, <1>1, <1>5, <1>7 DEF CreditTypes

LEMMA CreditTypesStep == CreditTypes /\ [CreditNext]_creditVars => CreditTypes'
  <1> SUFFICES ASSUME CreditTypes, [CreditNext]_creditVars PROVE CreditTypes'
    OBVIOUS
  <1>1. HandOK /\ pc \in Phases /\ policy \in Policies /\ mishaps \in Nat
    BY DEF CreditTypes
  <1>2. \A h \in hand : h.phase \in {"split", "renew"}
    BY <1>1 DEF HandOK, HandType
  <1>3. policy' = policy /\ pc' \in Phases
    BY <1>1, <1>2 DEF CreditNext, Step, StartPass, Mpa, SplitPiece, SplitEnd, RenewDeal, SkipDeal, Renew,
       Increase, StartRequests, Serve, FinishRequests, Broadcast, BroadcastFails, ReadBack, Retry,
       Persist, Stop, Toggle, creditVars, Phases
  <1>4. mishaps' = mishaps \/ Mishap
    BY DEF CreditNext, Step, StartPass, Mpa, SplitPiece, SplitEnd, RenewDeal, SkipDeal, Renew,
       Increase, StartRequests, Serve, FinishRequests, Broadcast, BroadcastFails, ReadBack, Retry,
       Persist, Stop, Toggle, creditVars, boundVars
  <1>5. mishaps' \in Nat
    BY <1>1, <1>4 DEF Mishap
  <1> QED  BY <1>1, <1>3, <1>5, ChainSteps, ViewSteps, RequestSteps, HandSteps, TodoSteps DEF CreditTypes

-----------------------------------------------------------------------------
\* The reborrow put off that the pass holds.
LEMMA HeldNone ==
    ASSUME NEW r
    PROVE  (hand = {} => Held(r) = 0) /\ (hand' = {} => Held(r)' = 0)
  <1>1. ASSUME hand = {} PROVE Held(r) = 0
    <2>1. {h \in hand : h.via = "later" /\ h.paid /\ h.root = r} = {}
      BY <1>1
    <2> QED  BY <2>1, TotalOfNone DEF Held
  <1>2. ASSUME hand' = {} PROVE Held(r)' = 0
    <2>1. {h \in hand' : h.via = "later" /\ h.paid /\ h.root = r} = {}
      BY <1>2
    <2> QED  BY <2>1, TotalOfNone DEF Held
  <1> QED  BY <1>1, <1>2

LEMMA HeldOne ==
    ASSUME NEW h \in HandType, NEW r
    PROVE  Total({g \in {h} : g.via = "later" /\ g.paid /\ g.root = r}, [g \in {h} |-> g.amount])
           = IF h.via = "later" /\ h.paid /\ h.root = r THEN h.amount ELSE 0
  <1> DEFINE S == {g \in {h} : g.via = "later" /\ g.paid /\ g.root = r}
             f == [g \in {h} |-> g.amount]
  <1>1. CASE h.via = "later" /\ h.paid /\ h.root = r
    <2>1. S = {} \cup {h} /\ f[h] = h.amount /\ f[h] \in Nat
      BY <1>1 DEF HandType
    <2>2. Total({} \cup {h}, f) = Total({}, f) + f[h]
      <3> HIDE DEF f
      <3>1. h \notin {} /\ (\A i \in {} : f[i] \in Nat) /\ IsFiniteSet({})
        BY FS_EmptySet
      <3>2. f[h] \in Nat
        BY <2>1
      <3> QED  BY <3>1, <3>2, TotalAdds
    <2>3. Total({}, f) = 0
      BY TotalOfNone
    <2> HIDE DEF S, f
    <2>4. Total(S, f) = h.amount
      BY <2>1, <2>2, <2>3
    <2> QED  BY <1>1, <2>4 DEF S, f
  <1>2. CASE ~(h.via = "later" /\ h.paid /\ h.root = r)
    <2>1. S = {}
      BY <1>2
    <2> QED  BY <1>2, <2>1, TotalOfNone
  <1> QED  BY <1>1, <1>2

LEMMA HeldIs ==
    ASSUME NEW h \in HandType, NEW r
    PROVE  /\ hand = {h} => Held(r) = IF h.via = "later" /\ h.paid /\ h.root = r THEN h.amount ELSE 0
           /\ hand' = {h} => Held(r)' = IF h.via = "later" /\ h.paid /\ h.root = r THEN h.amount ELSE 0
  BY HeldOne DEF Held

LEMMA SumsType ==
    CreditTypes => \A r :
        /\ OnChain(r) \in Nat /\ Waiting(r) \in Nat /\ Held(r) \in Nat
        /\ Asked(r, queue) \in Nat /\ Asked(r, rest) \in Nat /\ Asked(r, nextQueue) \in Nat
  <1> SUFFICES ASSUME CreditTypes, NEW r
               PROVE  /\ OnChain(r) \in Nat /\ Waiting(r) \in Nat /\ Held(r) \in Nat
                      /\ Asked(r, queue) \in Nat /\ Asked(r, rest) \in Nat /\ Asked(r, nextQueue) \in Nat
    OBVIOUS
  <1>1. OnChain(r) \in Nat
    BY DealsFinite DEF CreditTypes, ChainOK, Snapshot, OnChain
  <1>2. Asked(r, queue) \in Nat /\ Asked(r, rest) \in Nat /\ Asked(r, nextQueue) \in Nat
    BY AskedType DEF CreditTypes, RequestsOK
  <1>3. Held(r) \in Nat
    <2>1. CASE hand = {}
      BY <2>1, HeldNone
    <2>2. ASSUME NEW h \in HandType, hand = {h} PROVE Held(r) \in Nat
      BY <2>2, HeldIs DEF HandType
    <2> QED  BY <2>1, <2>2 DEF CreditTypes, HandOK
  <1> QED  BY <1>1, <1>2, <1>3 DEF Waiting

SumsOK == \A r : There(r) \in Nat

LEMMA TheresType == CreditTypes => SumsOK
  BY SumsType DEF There, SumsOK

\* The steps that drop what waits to be borrowed: a policy that does not reborrow, a
\* deal that seems to live on, a request whose replacement is found.
Drops ==
    \/ \E h \in hand : \/ Broadcast(h) /\ h.via = "none"
                       \/ ReadBack(h) /\ h.via = "later" /\ h.source \in DOMAIN Fetched
    \/ Serve /\ policy.renewOnly

\* Every step of a pass in which nothing goes wrong moves what is there of a loan between
\* the chain, the queue and the hand; it grows in none, and shrinks only in a drop.
LEMMA Accounts ==
    ASSUME CreditTypes, [CreditNext]_creditVars, mishaps' = mishaps, NEW r \in Loans
    PROVE  There(r)' <= There(r) /\ (~Drops => There(r)' = There(r))
  <1>0. /\ ChainOK /\ RequestsOK /\ HandOK /\ mishaps \in Nat /\ Deals(deals, top) /\ top \in Nat
        /\ r # 0
    BY LoansKnown DEF CreditTypes, ChainOK, Snapshot
  <1>1. OnChain(r) \in Nat /\ Waiting(r) \in Nat /\ Held(r) \in Nat
    BY SumsType
  <1>2. There(r) = OnChain(r) + Waiting(r) + Held(r) /\ There(r)' = OnChain(r)' + Waiting(r)' + Held(r)'
    BY DEF There
  <1>3. UNCHANGED deals => OnChain(r)' = OnChain(r)
    BY DEF OnChain
  <1>4. ASSUME UNCHANGED queue, pc # "request", pc' # "request" PROVE Waiting(r)' = Waiting(r)
    BY <1>4 DEF Waiting
  <1>5. (hand = {} => Held(r) = 0) /\ (hand' = {} => Held(r)' = 0)
    BY HeldNone
  <1>6. CASE StartPass \/ Mpa \/ SplitEnd \/ SkipDeal
    <2>1. UNCHANGED <<deals, queue>> /\ hand = {} /\ hand' = {} /\ pc # "request" /\ pc' # "request"
      BY <1>0, <1>6 DEF StartPass, Mpa, SplitEnd, SkipDeal, HandOK, chainVars, fileVars
    <2> QED  BY <1>1, <1>2, <1>3, <1>4, <1>5, <2>1
  <1>7. CASE SplitPiece \/ RenewDeal
    <2>1. UNCHANGED <<deals, queue>> /\ hand = {} /\ pc # "request" /\ pc' = "broadcast"
      BY <1>0, <1>7 DEF SplitPiece, RenewDeal, Renew, HandOK, chainVars, fileVars
    <2>2. PICK g \in HandType : hand' = {g} /\ ~g.paid
      <3>1. HandOK' /\ hand' # {}
        BY <1>7, HandSteps DEF SplitPiece, RenewDeal, Renew
      <3> QED  BY <2>1, <3>1 DEF HandOK
    <2>3. Held(r)' = 0
      BY <2>2, HeldIs
    <2> QED  BY <1>1, <1>2, <1>3, <1>4, <1>5, <2>1, <2>3
  <1>8. ASSUME NEW h \in hand
        PROVE  /\ h \in HandType /\ hand = {h} /\ h.amount \in Nat \ {0} /\ h.root \in Roots
               /\ Held(r) = IF h.via = "later" /\ h.paid /\ h.root = r THEN h.amount ELSE 0
    <2>1. h \in HandType /\ hand = {h}
      BY <1>0 DEF HandOK
    <2> QED  BY <2>1, HeldIs DEF HandType
  <1>9. ASSUME NEW h \in HandType, NEW b \in BOOLEAN, hand' = {[h EXCEPT !.paid = b]}
        PROVE  Held(r)' = IF h.via = "later" /\ b /\ h.root = r THEN h.amount ELSE 0
    <2>1. PICK g : g = [h EXCEPT !.paid = b]
      OBVIOUS
    <2>2. g \in HandType /\ g.via = h.via /\ g.paid = b /\ g.root = h.root /\ g.amount = h.amount
      BY <2>1 DEF HandType
    <2>3. hand' = {g}
      BY <1>9, <2>1
    <2> QED  BY <2>2, <2>3, HeldIs
  <1>10. ASSUME NEW h \in hand, Broadcast(h)
         PROVE  There(r)' <= There(r) /\ (h.via # "none" => There(r)' = There(r))
    <2>1. /\ pc = "broadcast" /\ pc' = "read" /\ UNCHANGED queue /\ hand' = {[h EXCEPT !.paid = TRUE]}
          /\ Fits(h) /\ Execute(h)
      BY <1>10 DEF Broadcast, fileVars
    <2>2. /\ h.source \in DOMAIN deals /\ h.amount <= deals[h.source].debt
          /\ deals[h.source].root = h.root /\ ~h.paid
      BY <1>0, <2>1 DEF Fits, HandOK
    <2>3. Held(r) = 0 /\ Held(r)' = IF h.via = "later" /\ h.root = r THEN h.amount ELSE 0
      BY <1>8, <1>9, <2>1, <2>2
    <2> DEFINE paid == Repaid(deals, h.source, h.amount)
    <2>4. /\ Owed(r, paid) = OnChain(r) - IF h.root = r THEN h.amount ELSE 0
          /\ Deals(paid, top)
      BY <1>0, <1>8, <2>2, OwedRepaid, RepaidDeals DEF OnChain
    <2>5. /\ h.via \in Offers => deals' = Lend(paid, h.via, h.amount, h.root)
          /\ h.via \notin Offers => deals' = paid
      BY <2>1 DEF Execute
    <2> HIDE DEF paid
    <2>6. CASE h.via \in Offers
      <3>1. Owed(r, deals') = Owed(r, paid) + IF h.root = r THEN h.amount ELSE 0
        BY <1>0, <1>8, <2>4, <2>5, <2>6, OwedLent
      <3>2. h.via # "later"
        BY <2>6, CreditAssumption
      <3>3. OnChain(r)' = OnChain(r)
        BY <1>1, <1>8, <2>4, <3>1 DEF OnChain
      <3> QED  BY <1>1, <1>2, <1>4, <2>1, <2>3, <3>2, <3>3
    <2>7. CASE h.via \notin Offers
      <3>1. h.via \in {"none", "later"}
        BY <1>8, <2>7 DEF HandType
      <3>2. OnChain(r)' = OnChain(r) - IF h.root = r THEN h.amount ELSE 0
        BY <2>4, <2>5, <2>7 DEF OnChain
      <3> QED  BY <1>1, <1>2, <1>4, <1>8, <2>1, <2>3, <3>1, <3>2
    <2> QED  BY <2>6, <2>7
  <1>11. ASSUME NEW h \in hand, BroadcastFails(h) PROVE There(r)' = There(r)
    <2>1. UNCHANGED <<deals, queue>> /\ hand' = {} /\ pc = "broadcast" /\ pc' = "renew"
      BY <1>0, <1>11 DEF BroadcastFails, Mishap, chainVars, fileVars
    <2>2. Held(r) = 0
      BY <1>0, <1>8, <2>1 DEF HandOK
    <2> QED  BY <1>1, <1>2, <1>3, <1>4, <1>5, <2>1, <2>2
  <1>12. ASSUME NEW h \in hand, ReadBack(h)
         PROVE  /\ There(r)' <= There(r)
                /\ ~(h.via = "later" /\ h.source \in DOMAIN Fetched) => There(r)' = There(r)
    <2>1. UNCHANGED <<deals, queue>> /\ pc = "read" /\ pc' \in {"retry", "persist"}
      BY <1>12 DEF ReadBack, chainVars
    <2>2. OnChain(r)' = OnChain(r) /\ Waiting(r)' = Waiting(r)
      BY <1>3, <1>4, <2>1
    <2>3. CASE h.via = "later" /\ h.source \notin DOMAIN Fetched
      <3>1. hand' = hand
        BY <1>12, <2>3 DEF ReadBack
      <3>2. Held(r)' = Held(r)
        BY <3>1 DEF Held
      <3> QED  BY <1>1, <1>2, <2>2, <3>2
    <2>4. CASE ~(h.via = "later" /\ h.source \notin DOMAIN Fetched)
      <3>1. hand' = {[h EXCEPT !.paid = FALSE]}
        BY <1>12, <2>4 DEF ReadBack
      <3>2. Held(r)' = 0
        BY <1>8, <1>9, <3>1
      <3>3. h.via # "later" => Held(r) = 0
        BY <1>8
      <3> QED  BY <1>1, <1>2, <2>2, <2>4, <3>2, <3>3
    <2> QED  BY <2>3, <2>4
  <1>13. ASSUME NEW h \in hand, Retry(h) PROVE There(r)' = There(r)
    <2>1. pc = "retry" /\ pc' = "persist" /\ hand' = {[h EXCEPT !.paid = FALSE]}
      BY <1>13 DEF Retry
    <2>2. Held(r)' = 0 /\ Held(r) = IF h.root = r THEN h.amount ELSE 0
      BY <1>0, <1>8, <1>9, <2>1 DEF HandOK
    <2>3. Waiting(r) = Asked(r, queue) /\ Waiting(r)' = Asked(r, queue')
      BY <2>1 DEF Waiting
    <2>4. \/ deals' = Lend(deals, h.offer, h.amount, h.root) /\ UNCHANGED queue
          \/ UNCHANGED deals /\ queue' = Append(queue, Request(h))
      BY <1>0, <1>13 DEF Retry, Queued, Mishap, chainVars
    <2>5. CASE deals' = Lend(deals, h.offer, h.amount, h.root) /\ UNCHANGED queue
      <3>1. h.offer \in Offers
        BY <1>8 DEF HandType
      <3>2. OnChain(r)' = OnChain(r) + IF h.root = r THEN h.amount ELSE 0
        BY <1>0, <1>8, <2>5, <3>1, OwedLent DEF OnChain
      <3> QED  BY <1>1, <1>2, <1>8, <2>2, <2>3, <2>5, <3>2
    <2>6. CASE UNCHANGED deals /\ queue' = Append(queue, Request(h))
      <3>1. /\ Request(h) \in RequestType /\ Request(h).root = h.root /\ Request(h).amount = h.amount
            /\ queue \in Seq(RequestType)
        BY <1>0, <1>8 DEF Request, RequestType, HandType, RequestsOK
      <3>2. Asked(r, queue') = Asked(r, queue) + IF h.root = r THEN h.amount ELSE 0
        BY <2>6, <3>1, AskedAppend
      <3> QED  BY <1>1, <1>2, <1>3, <1>8, <2>2, <2>3, <2>6, <3>2
    <2> QED  BY <2>4, <2>5, <2>6
  <1>14. ASSUME NEW h \in hand, Persist(h) PROVE There(r)' = There(r)
    <2>1. /\ UNCHANGED <<deals, queue>> /\ hand' = {} /\ pc = "persist" /\ pc' = h.phase
          /\ ~h.paid /\ h.phase # "request"
      BY <1>0, <1>8, <1>14 DEF Persist, chainVars, HandOK, HandType
    <2>2. Held(r) = 0
      BY <1>8, <2>1
    <2> QED  BY <1>1, <1>2, <1>3, <1>4, <1>5, <2>1, <2>2
  <1>15. CASE Increase
    <2>1. /\ hand = {} /\ hand' = {} /\ UNCHANGED queue /\ pc = "renew" /\ pc' # "request"
      BY <1>0, <1>15 DEF Increase, HandOK, fileVars
    <2>2. UNCHANGED deals \/ \E o \in Offers : deals' = Lend(deals, o, 1, 0)
      BY <1>0, <1>15 DEF Increase, chainVars, ChainOK
    <2>3. OnChain(r)' = OnChain(r)
      <3>1. ASSUME NEW o \in Offers, deals' = Lend(deals, o, 1, 0) PROVE OnChain(r)' = OnChain(r)
        <4>1. 0 \in Roots /\ 1 \in Nat \ {0}
          BY DEF Roots
        <4>2. Owed(r, Lend(deals, o, 1, 0)) = Owed(r, deals) + IF 0 = r THEN 1 ELSE 0
          BY <1>0, <4>1, OwedLent
        <4> QED  BY <1>0, <1>1, <3>1, <4>2 DEF OnChain
      <3> QED  BY <1>3, <2>2, <3>1
    <2> QED  BY <1>1, <1>2, <1>4, <1>5, <2>1, <2>3
  <1>16. CASE StartRequests
    <2>1. UNCHANGED deals /\ hand = {} /\ hand' = {} /\ nextQueue = <<>> /\ UNCHANGED nextQueue
          /\ pc = "requests" /\ UNCHANGED queue
      BY <1>0, <1>16 DEF StartRequests, HandOK, RequestsOK, chainVars
    <2>2. pc' = "idle" \/ (pc' = "request" /\ rest' = queue)
      BY <1>16 DEF StartRequests
    <2>3. Asked(r, <<>>) = 0 /\ Asked(r, queue) \in Nat
      BY AskedNone, SumsType
    <2>4. Waiting(r) = Asked(r, queue)
      BY <2>1 DEF Waiting
    <2>5. Waiting(r)' = Asked(r, queue)
      BY <2>1, <2>2, <2>3 DEF Waiting
    <2> QED  BY <1>1, <1>2, <1>3, <1>5, <2>1, <2>4, <2>5
  <1>17. CASE Serve
    <2>1. /\ pc = "request" /\ pc' = "request" /\ rest # <<>> /\ rest' = Tail(rest)
          /\ hand = {} /\ hand' = {}
      BY <1>0, <1>17 DEF Serve, HandOK
    <2> DEFINE x == Head(rest)
    <2>2. /\ rest \in Seq(RequestType) /\ nextQueue \in Seq(RequestType) /\ x \in RequestType
          /\ x.amount \in Nat \ {0} /\ x.root \in Roots
      <3>1. rest \in Seq(RequestType) /\ nextQueue \in Seq(RequestType)
        BY <1>0 DEF RequestsOK
      <3>2. x \in RequestType
        BY <2>1, <3>1
      <3> QED  BY <3>1, <3>2 DEF RequestType
    <2>3. \/ policy.renewOnly /\ UNCHANGED deals /\ UNCHANGED nextQueue
          \/ \E o \in Offers : deals' = Lend(deals, o, x.amount, x.root) /\ UNCHANGED nextQueue
          \/ UNCHANGED deals /\ nextQueue' = Append(nextQueue, x)
      BY <1>0, <1>17 DEF Serve, Kept, Replaced, Takes, Mishap, chainVars, ChainOK
    <2> HIDE DEF x
    <2>4. Asked(r, rest) = Asked(r, rest') + IF x.root = r THEN x.amount ELSE 0
      BY <2>1, <2>2, AskedTail DEF x
    <2>5. /\ Waiting(r) = Asked(r, nextQueue) + Asked(r, rest)
          /\ Waiting(r)' = Asked(r, nextQueue') + Asked(r, rest')
      BY <2>1 DEF Waiting
    <2>6. Asked(r, rest') \in Nat /\ Asked(r, rest) \in Nat /\ Asked(r, nextQueue) \in Nat
      <3>1. Tail(rest) \in Seq(RequestType)
        BY <2>1, <2>2
      <3> QED  BY <2>1, <2>2, <3>1, AskedType
    <2>7. CASE policy.renewOnly /\ UNCHANGED deals /\ UNCHANGED nextQueue
      <3>1. Waiting(r)' <= Waiting(r) /\ Waiting(r)' \in Nat
        BY <2>2, <2>4, <2>5, <2>6, <2>7
      <3> QED  BY <1>1, <1>2, <1>3, <1>5, <1>17, <2>1, <2>7, <3>1 DEF Drops
    <2>8. ASSUME NEW o \in Offers, deals' = Lend(deals, o, x.amount, x.root), UNCHANGED nextQueue
          PROVE  There(r)' = There(r)
      <3>1. OnChain(r)' = OnChain(r) + IF x.root = r THEN x.amount ELSE 0
        BY <1>0, <2>2, <2>8, OwedLent DEF OnChain
      <3>2. Waiting(r) = Waiting(r)' + (IF x.root = r THEN x.amount ELSE 0) /\ Waiting(r)' \in Nat
        BY <2>2, <2>4, <2>5, <2>6, <2>8
      <3>3. Held(r) = 0 /\ Held(r)' = 0
        BY <1>5, <2>1
      <3> QED  BY <1>1, <1>2, <2>2, <3>1, <3>2, <3>3
    <2>9. CASE UNCHANGED deals /\ nextQueue' = Append(nextQueue, x)
      <3>1. Asked(r, nextQueue') = Asked(r, nextQueue) + IF x.root = r THEN x.amount ELSE 0
        BY <2>2, <2>9, AskedAppend
      <3>2. Waiting(r)' = Waiting(r)
        BY <2>2, <2>4, <2>5, <2>6, <3>1
      <3> QED  BY <1>1, <1>2, <1>3, <1>5, <2>1, <2>9, <3>2
    <2>10. There(r) \in Nat
      BY <1>1, <1>2
    <2> QED  BY <2>3, <2>7, <2>8, <2>9, <2>10
  <1>18. CASE FinishRequests
    <2>1. /\ pc = "request" /\ pc' = "idle" /\ rest = <<>> /\ queue' = nextQueue /\ UNCHANGED deals
          /\ hand = {} /\ hand' = {}
      BY <1>0, <1>18 DEF FinishRequests, LeftOver, HandOK, chainVars
    <2>2. Asked(r, <<>>) = 0 /\ Asked(r, nextQueue) \in Nat
      BY AskedNone, SumsType
    <2>3. Waiting(r) = Asked(r, nextQueue) /\ Waiting(r)' = Asked(r, nextQueue)
      BY <2>1, <2>2 DEF Waiting
    <2> QED  BY <1>1, <1>2, <1>3, <1>5, <2>1, <2>3
  <1>19. CASE Stop
    BY <1>0, <1>19 DEF Stop, Mishap
  <1>20. ASSUME UNCHANGED <<deals, queue, rest, nextQueue, pc, hand>> PROVE There(r)' = There(r)
    <2>1. Waiting(r)' = Waiting(r) /\ OnChain(r)' = OnChain(r)
      BY <1>3, <1>20 DEF Waiting
    <2>2. Held(r)' = Held(r)
      BY <1>20 DEF Held
    <2> QED  BY <1>2, <2>1, <2>2
  <1>21. ASSUME NEW o \in Offers, Toggle(o) PROVE There(r)' = There(r)
    BY <1>20, <1>21 DEF Toggle, chainVars, fileVars, loopVars
  <1>22. ASSUME UNCHANGED creditVars PROVE There(r)' = There(r)
    BY <1>20, <1>22 DEF creditVars, chainVars, fileVars, loopVars
  <1>23. There(r) \in Nat
    BY <1>1, <1>2
  <1>24. ASSUME NEW h \in hand, Broadcast(h) \/ BroadcastFails(h) \/ ReadBack(h) \/ Retry(h) \/ Persist(h)
         PROVE  There(r)' <= There(r) /\ (~Drops => There(r)' = There(r))
    BY <1>10, <1>11, <1>12, <1>13, <1>14, <1>23, <1>24 DEF Drops
  <1> QED  BY <1>6, <1>7, <1>15, <1>16, <1>17, <1>18, <1>19, <1>21, <1>22, <1>23, <1>24
           DEF CreditNext, Step

\* At the start the deals are what was lent.
LEMMA FirstSums == CreditInit => \A r \in Loans : There(r) = Lent(r)
  <1> SUFFICES ASSUME CreditInit, NEW r \in Loans PROVE There(r) = Lent(r)
    OBVIOUS
  <1>1. Held(r) = 0 /\ Waiting(r) = 0
    BY HeldNone, AskedNone DEF CreditInit, Waiting
  <1>2. PICK f \in [Loans -> Offers] :
            deals = [i \in Loans |-> [offer |-> f[i], debt |-> Lent(i), root |-> i]]
    BY DEF CreditInit
  <1> DEFINE g == [i \in DOMAIN deals |-> deals[i].debt]
  <1>3. {i \in DOMAIN deals : deals[i].root = r} = {} \cup {r} /\ g[r] = Lent(r) /\ Lent(r) \in Nat
    BY <1>2 DEF Lent
  <1>4. OnChain(r) = Total({} \cup {r}, g)
    BY <1>3 DEF OnChain, Owed
  <1> HIDE DEF g
  <1>5. IsFiniteSet({}) /\ r \notin {} /\ (\A i \in {} : g[i] \in Nat) /\ g[r] \in Nat
    BY <1>3, FS_EmptySet
  <1>6. Total({} \cup {r}, g) = Total({}, g) + g[r]
    BY <1>5, TotalAdds
  <1>7. Total({}, g) = 0
    BY TotalOfNone
  <1>8. OnChain(r) = Lent(r)
    BY <1>3, <1>4, <1>6, <1>7
  <1> QED  BY <1>1, <1>3, <1>8 DEF There

LEMMA PolicyKept == [CreditNext]_creditVars => policy' = policy
  BY DEF CreditNext, Step, StartPass, Mpa, SplitPiece, SplitEnd, RenewDeal, SkipDeal, Renew,
     Increase, StartRequests, Serve, FinishRequests, Broadcast, BroadcastFails, ReadBack, Retry,
     Persist, Stop, Toggle, creditVars

LEMMA MishapsGrow == mishaps \in Nat /\ [CreditNext]_creditVars /\ mishaps' = 0 => mishaps = 0
  <1> SUFFICES ASSUME mishaps \in Nat, [CreditNext]_creditVars, mishaps' = 0 PROVE mishaps = 0
    OBVIOUS
  <1>1. mishaps' = mishaps \/ Mishap
    BY DEF CreditNext, Step, StartPass, Mpa, SplitPiece, SplitEnd, RenewDeal, SkipDeal, Renew,
       Increase, StartRequests, Serve, FinishRequests, Broadcast, BroadcastFails, ReadBack, Retry,
       Persist, Stop, Toggle, creditVars, boundVars
  <1> QED  BY <1>1 DEF Mishap

\* The state of a pass keeps its types, and what it has read of the deals agrees with the
\* chain on those still there.
THEOREM CreditTypesInvariant == CreditSpec => []CreditTypes
  BY CreditTypesInit, CreditTypesStep, PTL DEF CreditSpec

\* As long as nothing dies and no answer is lost, the renewal of repayCreditDeal() and the
\* queue of requests never borrow more of a loan than was lent.
THEOREM LoansNotRenewedTwice == CreditSpec => []NotTwice
  <1>1. CreditInit => NotTwice
    <2> SUFFICES ASSUME CreditInit PROVE \A r \in Loans : There(r) <= Lent(r)
      BY DEF NotTwice
    <2>1. \A r \in Loans : There(r) = Lent(r) /\ Lent(r) \in Nat
      BY FirstSums DEF Lent
    <2> QED  BY <2>1
  <1>2. CreditTypes /\ NotTwice /\ [CreditNext]_creditVars => NotTwice'
    <2> SUFFICES ASSUME CreditTypes, NotTwice, [CreditNext]_creditVars, mishaps' = 0, NEW r \in Loans
                 PROVE  There(r)' <= Lent(r)
      BY DEF NotTwice, Lent
    <2>1. mishaps = 0
      BY MishapsGrow DEF CreditTypes
    <2>2. There(r) <= Lent(r) /\ There(r)' <= There(r)
      BY <2>1, Accounts DEF NotTwice
    <2>3. There(r) \in Nat /\ There(r)' \in Nat /\ Lent(r) \in Nat
      <3>1. CreditTypes'
        BY CreditTypesStep
      <3>2. SumsOK'
        BY <3>1, TheresType, PTL
      <3> QED  BY <3>2, TheresType DEF SumsOK, Lent
    <2> QED  BY <2>2, <2>3
  <1> QED  BY <1>1, <1>2, CreditTypesInvariant, PTL DEF CreditSpec

-----------------------------------------------------------------------------
\* Under the plain policy nothing is dropped: what the pass has read of the debts is
\* what they are, so a renewal repays its deal whole and finds it gone.
PlainOK ==
    policy = Plain =>
        /\ \A i \in DOMAIN known \cap DOMAIN deals : known[i].debt = deals[i].debt
        /\ cache # NoDeals => pc \in {"requests", "request", "idle"}
        /\ pc = "split" => todo = {}
        /\ \A h \in hand :
              /\ h.via # "none" /\ h.phase = "renew"
              /\ h.source \in DOMAIN deals => deals[h.source].debt = h.amount
              /\ h.paid => h.source \notin DOMAIN deals

LEMMA PlainStep == CreditTypes /\ PlainOK /\ [CreditNext]_creditVars => PlainOK'
  <1> SUFFICES ASSUME CreditTypes, PlainOK, [CreditNext]_creditVars, policy' = Plain PROVE PlainOK'
    BY DEF PlainOK
  <1>0. /\ ChainOK /\ ViewOK /\ HandOK /\ TodoOK /\ policy = Plain
        /\ top \in Nat /\ Deals(deals, top) /\ DOMAIN known \subseteq 1 .. top
    <2>1. policy' = policy
      BY PolicyKept
    <2> QED  BY <2>1 DEF CreditTypes, ChainOK, ViewOK, Snapshot, Deals
  <1>1. policy.reborrow /\ policy.limit = 0 /\ ~policy.percent
    BY <1>0 DEF Plain
  <1>2. /\ \A i \in DOMAIN known \cap DOMAIN deals : known[i].debt = deals[i].debt
        /\ cache # NoDeals => pc \in {"requests", "request", "idle"}
        /\ pc = "split" => todo = {}
    BY <1>0 DEF PlainOK
  <1>3. ASSUME NEW h \in hand
        PROVE  /\ h \in HandType /\ hand = {h} /\ h.via # "none" /\ h.phase = "renew"
               /\ h.source \in DOMAIN deals => deals[h.source].debt = h.amount
               /\ h.paid => h.source \notin DOMAIN deals
               /\ h.source \in 1 .. top
    BY <1>0 DEF PlainOK, HandOK
  <1>4. /\ Onward(deals, top, deals', top')
        /\ \A h \in hand : h.source \in DOMAIN deals' => h.source \in DOMAIN deals
    <2>1. Onward(deals, top, deals', top')
      BY ChainSteps
    <2> QED  BY <1>3, <2>1 DEF Onward
  \* Only a renewal takes from a deal that is there, and all of it.
  <1>5. \A i \in DOMAIN deals \cap DOMAIN deals' : deals'[i].debt = deals[i].debt
    <2>1. ASSUME NEW o \in Offers, NEW a \in Nat \ {0}, NEW r \in Roots,
                 deals' = Lend(deals, o, a, r)
          PROVE  \A i \in DOMAIN deals \cap DOMAIN deals' : deals'[i].debt = deals[i].debt
      <3>1. Added(deals, top, o, a, r, deals') /\ top + 1 \notin DOMAIN deals
        BY <1>0, <2>1, LentDeals DEF Deals
      <3> QED  BY <3>1 DEF Added
    <2>2. ASSUME NEW h \in hand, Broadcast(h) \/ BroadcastFails(h)
          PROVE  \A i \in DOMAIN deals \cap DOMAIN deals' : deals'[i].debt = deals[i].debt
      <3>1. CASE UNCHANGED deals
        BY <3>1
      <3>2. CASE Fits(h) /\ Execute(h)
        <4>1. h.source \in DOMAIN deals /\ deals[h.source].debt = h.amount
          BY <1>3, <3>2 DEF Fits
        <4> DEFINE paid == Repaid(deals, h.source, h.amount)
        <4>2. paid = Restrict(deals, DOMAIN deals \ {h.source})
          BY <4>1 DEF Repaid
        <4>3. DOMAIN paid = DOMAIN deals \ {h.source} /\ \A i \in DOMAIN paid : paid[i] = deals[i]
          BY <4>2 DEF Restrict
        <4>4. h.via \in Offers => deals' = Lend(paid, h.via, h.amount, h.root)
          BY <3>2 DEF Execute
        <4>5. h.via \notin Offers => deals' = paid
          BY <3>2 DEF Execute
        <4>6. top + 1 \notin DOMAIN deals
          BY <1>0 DEF Deals
        <4> HIDE DEF paid
        <4> QED  BY <4>1, <4>3, <4>4, <4>5, <4>6 DEF Lend
      <3>3. UNCHANGED deals \/ (Fits(h) /\ Execute(h))
        BY <2>2 DEF Broadcast, BroadcastFails, chainVars
      <3> QED  BY <3>1, <3>2, <3>3
    <2>3. ASSUME NEW h \in hand, Retry(h)
          PROVE  \A i \in DOMAIN deals \cap DOMAIN deals' : deals'[i].debt = deals[i].debt
      <3>1. h.offer \in Offers /\ h.amount \in Nat \ {0} /\ h.root \in Roots
        BY <1>3 DEF HandType
      <3>2. UNCHANGED deals \/ deals' = Lend(deals, h.offer, h.amount, h.root)
        BY <2>3 DEF Retry, chainVars
      <3> QED  BY <2>1, <3>1, <3>2
    <2>4. CASE Increase
      <3>1. UNCHANGED deals \/ \E o \in Offers : deals' = Lend(deals, o, 1, 0)
        BY <1>0, <2>4 DEF Increase, chainVars, ChainOK
      <3>2. 0 \in Roots /\ 1 \in Nat \ {0}
        BY DEF Roots
      <3> QED  BY <2>1, <3>1, <3>2
    <2>5. CASE Serve
      <3>1. Head(rest) \in RequestType
        BY <2>5 DEF Serve, CreditTypes, RequestsOK
      <3>2. Head(rest).amount \in Nat \ {0} /\ Head(rest).root \in Roots
        BY <3>1 DEF RequestType
      <3>3. UNCHANGED deals \/ \E o \in Offers : deals' = Lend(deals, o, Head(rest).amount, Head(rest).root)
        BY <1>0, <2>5 DEF Serve, Takes, ChainOK, chainVars
      <3> QED  BY <2>1, <3>2, <3>3
    <2>6. ASSUME NEW h \in hand, ReadBack(h) \/ Persist(h)
          PROVE  \A i \in DOMAIN deals \cap DOMAIN deals' : deals'[i].debt = deals[i].debt
      BY <2>6 DEF ReadBack, Persist, chainVars
    <2>7. ASSUME NEW o \in Offers, Toggle(o)
          PROVE  \A i \in DOMAIN deals \cap DOMAIN deals' : deals'[i].debt = deals[i].debt
      BY <2>7 DEF Toggle, chainVars
    <2>8. CASE StartPass \/ Mpa \/ SplitPiece \/ SplitEnd \/ RenewDeal \/ SkipDeal \/ StartRequests
               \/ FinishRequests \/ Stop \/ UNCHANGED creditVars
      BY <2>8 DEF StartPass, Mpa, SplitPiece, SplitEnd, RenewDeal, SkipDeal, Renew, StartRequests,
         FinishRequests, Stop, creditVars, chainVars
    <2> QED  BY <2>2, <2>3, <2>4, <2>5, <2>6, <2>7, <2>8 DEF CreditNext, Step
  <1>6. \A i \in DOMAIN known \cap DOMAIN deals' : i \in DOMAIN deals
    BY <1>0, <1>4 DEF Onward
  <1>7. \A i \in DOMAIN known \cap DOMAIN deals' : known[i].debt = deals'[i].debt
    BY <1>2, <1>5, <1>6
  <1>8. known' \in {known, deals', << >>}
    <2>1. CASE Increase
      BY <1>1, <1>2, <2>1 DEF Increase, viewVars
    <2>2. ~Increase => known' \in {known, deals', << >>}
      BY <1>1 DEF CreditNext, Step, StartPass, Mpa, SplitPiece, SplitEnd, RenewDeal,
         SkipDeal, Renew, StartRequests, Serve, FinishRequests, Broadcast, BroadcastFails,
         ReadBack, Retry, Persist, Stop, Toggle, creditVars, viewVars, Refresh
    <2> QED  BY <2>1, <2>2
  <1>9. \A i \in DOMAIN known' \cap DOMAIN deals' : known'[i].debt = deals'[i].debt
    BY <1>7, <1>8
  <1>10. cache' # NoDeals => pc' \in {"requests", "request", "idle"}
    <2>1. CASE pc \in {"requests", "request", "idle"}
      <3>1. \A h \in hand : ~Broadcast(h) /\ ~BroadcastFails(h) /\ ~ReadBack(h) /\ ~Retry(h) /\ ~Persist(h)
        BY <2>1 DEF Broadcast, BroadcastFails, ReadBack, Retry, Persist
      <3> QED  BY <1>2, <2>1, <3>1 DEF CreditNext, Step, StartPass, Mpa, SplitPiece, SplitEnd, RenewDeal,
         SkipDeal, Renew, Increase, StartRequests, Serve, FinishRequests,
         Stop, Toggle, creditVars, viewVars, Refresh
    <2>2. CASE pc \notin {"requests", "request", "idle"}
      <3>1. cache = NoDeals
        BY <1>2, <2>2
      <3>2. \A tried : Build(tried) => cache' = NoDeals
        BY <1>1, <3>1 DEF Build
      <3>3. CASE Increase
        BY <3>3 DEF Increase
      <3>4. ~Increase => cache' = NoDeals
        BY <1>1, <2>2, <3>1, <3>2 DEF CreditNext, Step, StartPass, Mpa, SplitPiece, SplitEnd, RenewDeal,
         SkipDeal, Renew, StartRequests, Serve, FinishRequests, Broadcast, BroadcastFails,
         ReadBack, Retry, Persist, Stop, Toggle, creditVars, viewVars, Refresh
      <3> QED  BY <3>3, <3>4
    <2> QED  BY <2>1, <2>2
  <1>11. pc' = "split" => todo' = {}
    <2>1. \A h \in hand : h.phase # "split"
      BY <1>3
    <2> QED  BY <1>1, <1>2, <2>1 DEF CreditNext, Step, StartPass, Mpa, SplitPiece, SplitEnd, RenewDeal,
         SkipDeal, Renew, Increase, StartRequests, Serve, FinishRequests, Broadcast, BroadcastFails,
         ReadBack, Retry, Persist, Stop, Toggle, creditVars
  <1> DEFINE Good(h) ==
                /\ h.via # "none" /\ h.phase = "renew"
                /\ h.source \in DOMAIN deals' => deals'[h.source].debt = h.amount
                /\ h.paid => h.source \notin DOMAIN deals'
  <1>12. \A h \in hand' : Good(h)
    <2>1. ASSUME hand' = {} PROVE \A h \in hand' : Good(h)
      BY <2>1
    <2>2. ASSUME NEW h \in hand, NEW b, hand' = {[h EXCEPT !.paid = b]},
                 b => h.source \notin DOMAIN deals'
          PROVE  \A g \in hand' : Good(g)
      <3>1. PICK g : g = [h EXCEPT !.paid = b]
        OBVIOUS
      <3>2. /\ g.via = h.via /\ g.phase = h.phase /\ g.source = h.source /\ g.amount = h.amount
            /\ g.paid = b /\ hand' = {g}
        BY <1>3, <2>2, <3>1 DEF HandType
      <3>3. h.source \in DOMAIN deals' => deals'[h.source].debt = h.amount
        BY <1>3, <1>4, <1>5
      <3> QED  BY <1>3, <2>2, <3>2, <3>3
    <2>3. ASSUME UNCHANGED <<hand, deals>> PROVE \A h \in hand' : Good(h)
      BY <1>3, <2>3
    <2>4. CASE RenewDeal
      <3>1. PICK i \in DOMAIN known : Renew(i, known[i].debt, "renew")
        BY <2>4 DEF RenewDeal
      <3>2. known[i].offer \in Offers
        BY <1>0 DEF ViewOK, Snapshot, Deals, DealType
      <3>3. \A via \in Offers \cup {"later"} : via # "none"
        BY CreditAssumption
      <3>4. PICK via \in Offers \cup {"later"} :
               hand' = {[source |-> i, offer |-> known[i].offer, amount |-> known[i].debt,
                         root |-> known[i].root, via |-> via, phase |-> "renew", paid |-> FALSE]}
        BY <1>0, <1>1, <3>1, <3>2 DEF Renew, Others, ChainOK
      <3>5. UNCHANGED deals
        BY <3>1 DEF Renew, chainVars
      <3> QED  BY <1>2, <3>3, <3>4, <3>5
    <2>5. ASSUME NEW h \in hand, Broadcast(h) PROVE \A g \in hand' : Good(g)
      <3>1. h.source \notin DOMAIN deals'
        <4>1. Fits(h) /\ Execute(h) /\ h \in HandType
          BY <1>3, <2>5 DEF Broadcast
        <4>2. deals[h.source].debt = h.amount
          BY <1>3, <4>1 DEF Fits
        <4> QED  BY <1>0, <4>1, <4>2, OnwardExecuted
      <3> QED  BY <2>2, <2>5, <3>1 DEF Broadcast
    <2>6. ASSUME NEW h \in hand, ReadBack(h) PROVE \A g \in hand' : Good(g)
      <3>1. UNCHANGED deals /\ (hand' = hand \/ hand' = {[h EXCEPT !.paid = FALSE]})
        BY <2>6 DEF ReadBack, chainVars
      <3> QED  BY <2>2, <2>3, <3>1
    <2>7. ASSUME NEW h \in hand, Retry(h) PROVE \A g \in hand' : Good(g)
      BY <2>2, <2>7 DEF Retry
    <2>8. ASSUME NEW h \in hand, BroadcastFails(h) \/ Persist(h) PROVE \A g \in hand' : Good(g)
      BY <2>1, <2>8 DEF BroadcastFails, Persist
    <2>9. CASE SplitPiece
      BY <1>2, <2>9 DEF SplitPiece
    <2>10. CASE StartPass \/ Mpa \/ SplitEnd \/ SkipDeal \/ StartRequests
      BY <2>3, <2>10 DEF StartPass, Mpa, SplitEnd, SkipDeal, StartRequests, chainVars
    <2>11. CASE Increase \/ Serve \/ FinishRequests
      <3>1. hand = {}
        BY <1>0, <2>11 DEF Increase, Serve, FinishRequests, HandOK
      <3>2. UNCHANGED hand
        BY <2>11 DEF Increase, Serve, FinishRequests
      <3> QED  BY <2>1, <3>1, <3>2
    <2>12. CASE Stop
      BY <2>1, <2>12 DEF Stop
    <2>13. ASSUME NEW o \in Offers, Toggle(o) PROVE \A g \in hand' : Good(g)
      BY <2>3, <2>13 DEF Toggle, chainVars
    <2>14. CASE UNCHANGED creditVars
      BY <2>3, <2>14 DEF creditVars, chainVars
    <2> QED  BY <2>4, <2>5, <2>6, <2>7, <2>8, <2>9, <2>10, <2>11, <2>12, <2>13, <2>14
             DEF CreditNext, Step
  <1> QED  BY <1>9, <1>10, <1>11, <1>12 DEF PlainOK

\* Under the plain policy, as long as nothing dies and no answer is lost, whatever is repaid
\* is borrowed again or waits in the queue.
THEOREM LoansNotLost == CreditSpec => []RepaidIsRenewed
  <1>1. CreditInit => PlainOK /\ RepaidIsRenewed
    <2> SUFFICES ASSUME CreditInit PROVE PlainOK /\ \A r \in Loans : There(r) >= Lent(r)
      BY DEF RepaidIsRenewed
    <2>1. \A r \in Loans : There(r) = Lent(r) /\ Lent(r) \in Nat
      BY FirstSums DEF Lent
    <2> QED  BY <2>1 DEF PlainOK, CreditInit
  <1>2. CreditTypes /\ PlainOK /\ RepaidIsRenewed /\ [CreditNext]_creditVars => RepaidIsRenewed'
    <2> SUFFICES ASSUME CreditTypes, PlainOK, RepaidIsRenewed, [CreditNext]_creditVars,
                        mishaps' = 0, policy' = Plain, NEW r \in Loans
                 PROVE  There(r)' >= Lent(r)
      BY DEF RepaidIsRenewed, Lent
    <2>1. mishaps = 0
      BY MishapsGrow DEF CreditTypes
    <2>2. policy = Plain
      BY PolicyKept
    <2>3. ~Drops
      <3>1. \A h \in hand : h.via # "none" /\ (h.paid => h.source \notin DOMAIN deals)
        BY <2>2 DEF PlainOK
      <3>2. ASSUME NEW h \in hand, ReadBack(h) PROVE h.source \notin DOMAIN Fetched
        <4>1. h.paid /\ cache = NoDeals
          BY <2>2, <3>2 DEF ReadBack, PlainOK, CreditTypes, HandOK
        <4> QED  BY <3>1, <4>1 DEF Fetched
      <3>3. ~policy.renewOnly
        BY <2>2 DEF Plain
      <3> QED  BY <3>1, <3>2, <3>3 DEF Drops
    <2>4. There(r)' = There(r) /\ There(r) >= Lent(r)
      BY <2>1, <2>2, <2>3, Accounts DEF RepaidIsRenewed
    <2> QED  BY <2>4
  <1> QED  BY <1>1, <1>2, PlainStep, CreditTypesInvariant, PTL DEF CreditSpec

-----------------------------------------------------------------------------
\* A policy that only renews: every deal and every request goes back to a loan and is for
\* what was lent, a loan's first deal is of the offer F gives it, and a loan has one deal
\* unless it is in S.
OneEach(F, S, ds) ==
    /\ \A i \in DOMAIN ds : ds[i].root \in Loans /\ ds[i].debt = Lent(ds[i].root)
    /\ \A i \in Loans \cap DOMAIN ds : ds[i].offer = F[i]
    /\ \A i, j \in DOMAIN ds : ds[i].root \notin S /\ ds[i].root = ds[j].root => i = j

Lacks(r, ds) == \A i \in DOMAIN ds : ds[i].root # r

\* The request x can only be for a loan whose first deal is gone.
RequestOf(F, ds, x) ==
    /\ x.root \in Loans /\ x.source = x.root /\ x.offer = F[x.root] /\ x.amount = Lent(x.root)
    /\ x.root \notin DOMAIN ds
Distinct(F, ds, q) ==
    /\ \A k \in DOMAIN q : RequestOf(F, ds, q[k])
    /\ \A k, l \in DOMAIN q : q[k].root = q[l].root => k = l
Without(r, q) == \A k \in DOMAIN q : q[k].root # r

\* A request served from another offer had its first deal repaid.
Strays == \A r \in strayed : r \in Loans /\ r \notin DOMAIN deals

\* Where a request waits the chain has no deal of another offer, which the request would
\* not find as its replacement.
Unasked ==
    {r \in Loans : /\ Without(r, queue) /\ Without(r, saved)
                   /\ pc = "request" => Without(r, rest) /\ Without(r, nextQueue)}
OwnOffer(F) ==
    \A i \in DOMAIN deals : \/ deals[i].root \in strayed \/ deals[i].offer = F[deals[i].root]
                            \/ deals[i].root \in Unasked

\* What has been read of the deals, and what the pass does about them.
RenewViews(F) ==
    /\ OneEach(F, Loans, known)
    /\ cache # NoDeals => pc = "request"
    /\ pc = "split" => todo = {}
RenewHand(F) ==
    \A h \in hand :
        /\ h.phase = "renew" /\ h.via \in Offers \cup {"later"}
        /\ h.root \in Loans /\ h.source = h.root /\ h.offer = F[h.root] /\ h.amount = Lent(h.root)
        /\ h.paid /\ h.via = "later" =>
              Lacks(h.root, deals) /\ Without(h.root, queue) /\ Without(h.root, saved)

\* A deal borrowed for a request the loop has still to look at is in its view.
RenewRequests(F) ==
    /\ Distinct(F, deals, queue) /\ Distinct(F, deals, saved)
    /\ pc = "request" =>
          /\ Distinct(F, deals, rest) /\ Distinct(F, deals, nextQueue)
          /\ \A k \in DOMAIN rest : Without(rest[k].root, nextQueue)
          /\ \A k \in DOMAIN rest, i \in DOMAIN deals :
                deals[i].root = rest[k].root => i \in DOMAIN view

Renews(F) ==
    /\ OneEach(F, strayed, deals) /\ Strays /\ OwnOffer(F)
    /\ RenewViews(F) /\ RenewHand(F) /\ RenewRequests(F)
RenewOK == policy.renewOnly => \E F \in [Loans -> Offers] : Renews(F)

\* A borrow of a loan the chain lacks, and the repayment of one it has.
LEMMA OneMore ==
    ASSUME top \in Nat, Cardinality(Loans) <= top, NEW F, NEW S, NEW ds, Deals(ds, top), OneEach(F, S, ds),
           NEW r \in Loans, NEW o, r \in S \/ Lacks(r, ds)
    PROVE  OneEach(F, S, Lend(ds, o, Lent(r), r))
  <1> DEFINE more == Lend(ds, o, Lent(r), r)
  <1>1. /\ DOMAIN more = DOMAIN ds \cup {top + 1}
        /\ more[top + 1] = [offer |-> o, debt |-> Lent(r), root |-> r]
        /\ \A i \in DOMAIN ds : i # top + 1 => more[i] = ds[i]
    BY DEF Lend
  <1>2. top + 1 \notin DOMAIN ds /\ top + 1 \notin Loans
    BY LoansKnown DEF Deals
  <1> HIDE DEF more
  <1>3. OneEach(F, S, more)
    <2>1. \A i \in DOMAIN more : more[i].root \in Loans /\ more[i].debt = Lent(more[i].root)
      BY <1>1, <1>2 DEF OneEach
    <2>2. \A i \in Loans \cap DOMAIN more : more[i].offer = F[i]
      BY <1>1, <1>2 DEF OneEach
    <2>3. \A i, j \in DOMAIN more : more[i].root \notin S /\ more[i].root = more[j].root => i = j
      BY <1>1, <1>2 DEF OneEach, Lacks
    <2> QED  BY <2>1, <2>2, <2>3 DEF OneEach
  <1> QED  BY <1>3 DEF more

LEMMA OneLess ==
    ASSUME NEW F, NEW S, NEW ds, OneEach(F, S, ds), NEW i \in DOMAIN ds, ds[i].root \notin S
    PROVE  LET left == Repaid(ds, i, Lent(ds[i].root))
           IN  /\ OneEach(F, S, left) /\ Lacks(ds[i].root, left)
               /\ \A j \in DOMAIN left : j \in DOMAIN ds /\ left[j] = ds[j]
  <1> DEFINE left == Repaid(ds, i, Lent(ds[i].root))
  <1>1. ds[i].debt = Lent(ds[i].root)
    BY DEF OneEach
  <1>2. left = Restrict(ds, DOMAIN ds \ {i})
    BY <1>1 DEF Repaid
  <1>3. DOMAIN left = DOMAIN ds \ {i} /\ \A j \in DOMAIN left : left[j] = ds[j]
    BY <1>2 DEF Restrict
  <1> HIDE DEF left
  <1>4. OneEach(F, S, left) /\ Lacks(ds[i].root, left)
    BY <1>3 DEF OneEach, Lacks
  <1> QED  BY <1>3, <1>4 DEF left

\* The renewal of a hand, when the chain takes it: one deal for one, or none.
LEMMA RenewExecuted ==
    ASSUME CreditTypes, NEW F \in [Loans -> Offers], Renews(F), NEW h \in hand, ~h.paid, Fits(h), Execute(h)
    PROVE  /\ OneEach(F, strayed, deals') /\ h.source \in DOMAIN deals
           /\ \A i \in DOMAIN deals' : deals'[i].root = h.root \/ (i \in DOMAIN deals /\ deals'[i] = deals[i])
           /\ h.via = "later" => Lacks(h.root, deals')
  <1>0. ChainOK /\ HandOK /\ top \in Nat /\ Cardinality(Loans) <= top /\ Deals(deals, top)
        /\ OneEach(F, strayed, deals)
    BY DEF CreditTypes, ChainOK, Snapshot, Renews
  <1>1. /\ h \in HandType /\ h.source \in DOMAIN deals /\ deals[h.source].root = h.root
        /\ h.root \in Loans /\ h.amount = Lent(h.root) /\ h.source = h.root
        /\ h.via \in Offers \cup {"later"} /\ h.root \notin strayed
    BY <1>0 DEF Fits, HandOK, Renews, RenewHand, Strays
  <1>2. "later" \notin Offers
    BY CreditAssumption
  <1> DEFINE paid == Repaid(deals, h.source, h.amount)
  <1>3. /\ OneEach(F, strayed, paid) /\ Lacks(h.root, paid)
        /\ \A i \in DOMAIN paid : i \in DOMAIN deals /\ paid[i] = deals[i]
    <2>1. paid = Repaid(deals, h.source, Lent(deals[h.source].root))
      BY <1>1
    <2>2. deals[h.source].root \notin strayed
      BY <1>1
    <2> HIDE DEF paid
    <2>3. OneEach(F, strayed, paid) /\ Lacks(deals[h.source].root, paid)
      BY <1>0, <1>1, <2>1, <2>2, OneLess
    <2>4. \A i \in DOMAIN paid : i \in DOMAIN deals /\ paid[i] = deals[i]
      BY <1>0, <1>1, <2>1, <2>2, OneLess
    <2> QED  BY <1>1, <2>3, <2>4
  <1>4. Deals(paid, top)
    BY <1>0, <1>1, RepaidDeals DEF Fits, HandType
  <1>5. /\ h.via \in Offers => deals' = Lend(paid, h.via, h.amount, h.root)
        /\ h.via \notin Offers => deals' = paid
    BY DEF Execute
  <1> HIDE DEF paid
  <1>6. CASE h.via = "later"
    BY <1>1, <1>2, <1>3, <1>5, <1>6
  <1>7. CASE h.via \in Offers
    <2>1. deals' = Lend(paid, h.via, Lent(h.root), h.root)
      BY <1>1, <1>2, <1>5, <1>7
    <2>2. OneEach(F, strayed, deals')
      BY <1>0, <1>1, <1>3, <1>4, <2>1, OneMore
    <2>3. \A i \in DOMAIN deals' : deals'[i].root = h.root \/ (i \in DOMAIN paid /\ deals'[i] = paid[i])
      BY <2>1 DEF Lend
    <2> QED  BY <1>1, <1>2, <1>3, <1>7, <2>2, <2>3
  <1> QED  BY <1>1, <1>6, <1>7

\* A request whose deal is not in the view, and that no replacement makes stale, is of a
\* loan of which the chain holds nothing, unless one of its loan was served from another
\* offer.
LEMMA ServeLends ==
    ASSUME CreditTypes, NEW F \in [Loans -> Offers], Renews(F), policy.renewOnly, Serve,
           Head(rest).source \notin DOMAIN view, ~Replaced(Head(rest)), Head(rest).root \notin strayed
    PROVE  Lacks(Head(rest).root, deals)
  <1>1. pc = "request" /\ rest # <<>> /\ rest \in Seq(RequestType)
    BY DEF Serve, CreditTypes, RequestsOK
  <1>2. 1 \in DOMAIN rest /\ Head(rest) = rest[1]
    BY <1>1
  <1>3. /\ RequestOf(F, deals, rest[1])
        /\ \A i \in DOMAIN deals : deals[i].root = rest[1].root => i \in DOMAIN view
    BY <1>1, <1>2 DEF Renews, RenewRequests, Distinct
  <1>4. ASSUME NEW i \in DOMAIN deals, deals[i].root = rest[1].root PROVE FALSE
    <2>1. i \in DOMAIN view /\ view[i].offer = deals[i].offer /\ view[i].root = deals[i].root
      BY <1>3, <1>4 DEF CreditTypes, ViewOK, Snapshot
    <2>2. deals[i].offer = rest[1].offer
      <3>1. deals[i].root \notin Unasked
        BY <1>1, <1>2, <1>4 DEF Unasked, Without
      <3> QED  BY <1>2, <1>3, <1>4, <3>1 DEF Renews, OwnOffer, RequestOf
    <2>3. i \notin Loans
      <3>1. i \in Loans => deals[i].root = i
        BY DEF CreditTypes, ChainOK, Snapshot
      <3> QED  BY <1>3, <1>4, <3>1 DEF RequestOf
    <2>4. i > rest[1].source
      <3>1. rest[1].source \in Loans /\ i \in Nat \ {0}
        BY <1>3, <1>4 DEF RequestOf, CreditTypes, ChainOK, Snapshot, Deals
      <3>2. Cardinality(Loans) \in Nat /\ Loans = 1 .. Cardinality(Loans)
        BY LoansKnown, CreditAssumption
      <3> QED  BY <2>3, <3>1, <3>2
    <2> QED  BY <1>2, <2>1, <2>2, <2>4 DEF Replaced
  <1> QED  BY <1>2, <1>4 DEF Lacks

\* What a step does to the chain for a request: nothing, or a borrow of what it asks for,
\* from its own offer if that is open.
LEMMA ServeStep ==
    ASSUME CreditTypes, NEW F \in [Loans -> Offers], Renews(F), Serve
    PROVE  /\ RequestOf(F, deals, Head(rest)) /\ pc = "request" /\ rest # <<>> /\ Head(rest) = rest[1]
           /\ \/ UNCHANGED deals
              \/ /\ \E o \in Offers : /\ deals' = Lend(deals, o, Head(rest).amount, Head(rest).root)
                                      /\ (o = Head(rest).offer \/ Head(rest).root \in strayed')
                 /\ Head(rest).source \notin DOMAIN view /\ ~Replaced(Head(rest))
           /\ strayed' \in {strayed, strayed \cup {Head(rest).root}}
           /\ deals' = deals => strayed' = strayed
  <1> DEFINE r == Head(rest)
             offers == IF r.offer \in open THEN {r.offer} ELSE Others(r.offer)
  <1>1. rest # <<>> /\ pc = "request" /\ rest \in Seq(RequestType) /\ open \subseteq Offers
    BY DEF Serve, CreditTypes, RequestsOK, ChainOK
  <1>2. 1 \in DOMAIN rest /\ r = rest[1]
    BY <1>1
  <1>3. RequestOf(F, deals, r)
    BY <1>1, <1>2 DEF Renews, RenewRequests, Distinct
  <1>4. strayed' = strayed \cup IF deals' = deals \/ r.offer \in open THEN {} ELSE {r.root}
    BY DEF Serve
  <1>5. /\ \A o \in offers : o \in Offers
        /\ \/ UNCHANGED deals
           \/ /\ \E o \in offers : deals' = Lend(deals, o, r.amount, r.root)
              /\ r.source \notin DOMAIN view /\ ~Replaced(r)
    BY <1>1 DEF Serve, chainVars, Others
  <1>6. r.offer \in open => \A o \in offers : o = r.offer
    OBVIOUS
  <1> HIDE DEF r, offers
  <1>7. \/ UNCHANGED deals
        \/ /\ \E o \in Offers : deals' = Lend(deals, o, r.amount, r.root) /\ (o = r.offer \/ r.root \in strayed')
           /\ r.source \notin DOMAIN view /\ ~Replaced(r)
    BY <1>4, <1>5, <1>6
  <1>8. strayed' \in {strayed, strayed \cup {r.root}} /\ (deals' = deals => strayed' = strayed)
    BY <1>4
  <1> QED  BY <1>1, <1>2, <1>3, <1>7, <1>8 DEF r

\* Only a request that is served can stray.
LEMMA StrayStep ==
    ASSUME CreditTypes, [CreditNext]_creditVars, NEW F \in [Loans -> Offers], Renews(F)
    PROVE  strayed \subseteq strayed' /\ (~Serve => strayed' = strayed) /\ Strays'
  <1>1. ~Serve => strayed' = strayed
    BY DEF CreditNext, Step, StartPass, Mpa, SplitPiece, SplitEnd, RenewDeal, SkipDeal, Renew,
         Increase, StartRequests, FinishRequests, Broadcast, BroadcastFails, ReadBack, Retry,
         Persist, Stop, Toggle, creditVars
  <1>2. strayed \subseteq strayed'
    BY <1>1 DEF Serve
  <1>3. \A r \in strayed' : r \in Loans /\ r \notin DOMAIN deals
    BY <1>1, ServeStep DEF Renews, Strays, RequestOf
  <1>4. \A r \in Loans : r \notin DOMAIN deals => r \notin DOMAIN deals'
    BY ChainSteps, LoansKnown DEF Onward, CreditTypes, ChainOK
  <1> QED  BY <1>1, <1>2, <1>3, <1>4 DEF Strays

LEMMA RenewChainStep ==
    ASSUME CreditTypes, [CreditNext]_creditVars, NEW F \in [Loans -> Offers], Renews(F), policy.renewOnly
    PROVE  OneEach(F, strayed', deals')
  <1>0. /\ ChainOK /\ HandOK /\ RequestsOK /\ top \in Nat /\ Cardinality(Loans) <= top /\ Deals(deals, top)
        /\ OneEach(F, strayed, deals)
    BY DEF CreditTypes, ChainOK, Snapshot, Renews
  <1>1. \A ds : OneEach(F, strayed, ds) => OneEach(F, strayed', ds)
    BY StrayStep DEF OneEach
  <1>2. ASSUME NEW h \in hand, Broadcast(h) \/ BroadcastFails(h) PROVE OneEach(F, strayed', deals')
    <2>1. UNCHANGED deals \/ (Fits(h) /\ Execute(h))
      BY <1>2 DEF Broadcast, BroadcastFails, chainVars
    <2>2. ~h.paid
      BY <1>0, <1>2 DEF HandOK, Broadcast, BroadcastFails
    <2> QED  BY <1>0, <1>1, <2>1, <2>2, RenewExecuted
  <1>3. ASSUME NEW h \in hand, Retry(h) PROVE OneEach(F, strayed', deals')
    <2>1. h.paid /\ h.via = "later" /\ h.root \in Loans /\ h.amount = Lent(h.root) /\ Lacks(h.root, deals)
      BY <1>0, <1>3 DEF HandOK, Retry, Renews, RenewHand
    <2>2. UNCHANGED deals \/ deals' = Lend(deals, h.offer, Lent(h.root), h.root)
      BY <1>3, <2>1 DEF Retry, chainVars
    <2>3. OneEach(F, strayed, Lend(deals, h.offer, Lent(h.root), h.root))
      BY <1>0, <2>1, OneMore
    <2> QED  BY <1>0, <1>1, <2>2, <2>3
  <1>4. CASE Serve
    <2> DEFINE r == Head(rest)
    <2>1. RequestOf(F, deals, r)
      BY <1>4, ServeStep
    <2>2. CASE UNCHANGED deals
      BY <1>0, <1>1, <2>2
    <2>3. CASE deals' # deals
      <3>1. PICK o \in Offers : /\ deals' = Lend(deals, o, r.amount, r.root)
                               /\ r.source \notin DOMAIN view /\ ~Replaced(r)
        BY <1>4, <2>3, ServeStep
      <3>2. r.root \in strayed' \/ Lacks(r.root, deals)
        BY <1>4, <3>1, ServeLends, StrayStep
      <3>3. r.root \in Loans /\ deals' = Lend(deals, o, Lent(r.root), r.root)
        BY <2>1, <3>1 DEF RequestOf
      <3> HIDE DEF r
      <3> QED  BY <1>0, <1>1, <3>2, <3>3, OneMore
    <2> QED  BY <2>2, <2>3
  <1>5. CASE ~Serve /\ \A h \in hand : ~Broadcast(h) /\ ~BroadcastFails(h) /\ ~Retry(h)
    <2>1. UNCHANGED deals
      <3>1. policy.limit = 0
        BY PolicyType DEF CreditTypes
      <3> QED  BY <1>5 DEF CreditNext, Step, StartPass, Mpa, SplitPiece, SplitEnd, RenewDeal, SkipDeal, Renew,
         Increase, StartRequests, FinishRequests, ReadBack, Persist, Stop, Toggle, creditVars, chainVars
    <2> QED  BY <1>0, <1>1, <2>1
  <1> QED  BY <1>2, <1>3, <1>4, <1>5

\* A request joins the queue for a loan the chain lacks, and a deal of another offer
\* replaces one of a loan nobody has asked for.
LEMMA OwnOfferStep ==
    ASSUME CreditTypes, [CreditNext]_creditVars, NEW F \in [Loans -> Offers], Renews(F), policy.renewOnly
    PROVE  OwnOffer(F)'
  <1>0. /\ ChainOK /\ HandOK /\ RequestsOK /\ strayed \subseteq strayed' /\ OwnOffer(F)
        /\ Distinct(F, deals, queue) /\ Distinct(F, deals, saved)
        /\ pc = "request" => Distinct(F, deals, rest) /\ Distinct(F, deals, nextQueue)
    BY StrayStep DEF CreditTypes, Renews, RenewRequests
  <1> DEFINE Own(i) == deals'[i].root \in strayed' \/ deals'[i].offer = F[deals'[i].root]
                       \/ deals'[i].root \in Unasked'
  <1>1. ASSUME NEW r \in Unasked, \A h \in hand : Retry(h) => h.root # r PROVE r \in Unasked'
    <2>1. CASE \E h \in hand : Retry(h)
      <3>1. PICK h \in hand : Retry(h)
        BY <2>1
      <3>2. Without(r, queue) /\ Without(r, saved) /\ h.root # r /\ queue \in Seq(RequestType)
        BY <1>0, <1>1, <3>1 DEF Unasked, RequestsOK
      <3>3. queue' \in {queue, Append(queue, Request(h))} /\ saved' \in {saved, queue'} /\ pc' # "request"
        BY <3>1 DEF Retry, Queued, Refresh
      <3>4. Request(h).root = h.root
        BY DEF Request
      <3>5. Without(r, Append(queue, Request(h)))
        BY <3>2, <3>4 DEF Without
      <3> QED  BY <3>2, <3>3, <3>5 DEF Unasked
    <2>2. CASE Serve
      <3>1. /\ pc = "request" /\ pc' = "request" /\ rest # <<>> /\ rest' = Tail(rest)
            /\ UNCHANGED <<queue, saved>> /\ nextQueue' \in {nextQueue, Append(nextQueue, Head(rest))}
        BY <2>2 DEF Serve, fileVars, Kept
      <3>2. Without(r, rest) /\ Without(r, nextQueue) /\ rest \in Seq(RequestType) /\ nextQueue \in Seq(RequestType)
        BY <1>0, <1>1, <3>1 DEF Unasked, RequestsOK
      <3>3. Head(rest).root # r /\ Without(r, Tail(rest))
        BY <3>1, <3>2 DEF Without
      <3>4. Without(r, Append(nextQueue, Head(rest)))
        BY <3>2, <3>3 DEF Without
      <3> QED  BY <1>1, <3>1, <3>2, <3>3, <3>4 DEF Unasked
    <2>3. CASE StartRequests
      <3>1. UNCHANGED <<queue, nextQueue>> /\ pc = "requests" /\ saved' \in {saved, queue}
            /\ (pc' = "request" => rest' = queue)
        BY <2>3 DEF StartRequests
      <3>2. nextQueue = <<>>
        BY <1>0, <3>1 DEF RequestsOK
      <3> QED  BY <1>1, <3>1, <3>2 DEF Unasked, Without
    <2>4. CASE FinishRequests
      <3>1. pc = "request" /\ queue' = nextQueue /\ saved' = queue' /\ pc' = "idle"
        BY <2>4 DEF FinishRequests, LeftOver, Refresh
      <3> QED  BY <1>1, <3>1 DEF Unasked
    <2>5. CASE /\ ~(\E h \in hand : Retry(h)) /\ ~Serve /\ ~StartRequests /\ ~FinishRequests
      <3>1. \A h \in hand : h.phase = "renew"
        BY DEF Renews, RenewHand
      <3>2. /\ queue' \in {queue, saved} /\ saved' \in {queue, saved}
            /\ pc' = "request" => pc = "request" /\ UNCHANGED <<rest, nextQueue>>
        BY <2>5, <3>1 DEF CreditNext, Step, StartPass, Mpa, SplitPiece, SplitEnd, RenewDeal, SkipDeal, Renew,
         Increase, Broadcast, BroadcastFails, ReadBack, Persist, Stop, Toggle, creditVars, fileVars, loopVars, Refresh
      <3> QED  BY <1>1, <3>2 DEF Unasked
    <2> QED  BY <2>1, <2>2, <2>3, <2>4, <2>5
  <1>2. ASSUME NEW i \in DOMAIN deals, deals'[i] = deals[i] PROVE Own(i)
    <2>1. CASE \E h \in hand : Retry(h) /\ h.root = deals[i].root
      BY <1>0, <2>1 DEF Renews, RenewHand, Lacks, HandOK, Retry
    <2>2. CASE \A h \in hand : Retry(h) => h.root # deals[i].root
      BY <1>0, <1>1, <1>2, <2>2 DEF OwnOffer
    <2> QED  BY <2>1, <2>2
  <1>3. ASSUME UNCHANGED deals, NEW i \in DOMAIN deals' PROVE Own(i)
    BY <1>2, <1>3
  <1>4. ASSUME NEW h \in hand, Broadcast(h) \/ BroadcastFails(h), NEW i \in DOMAIN deals' PROVE Own(i)
    <2>1. UNCHANGED deals \/ (Fits(h) /\ Execute(h) /\ ~h.paid)
      BY <1>0, <1>4 DEF Broadcast, BroadcastFails, chainVars, HandOK
    <2>2. CASE UNCHANGED deals
      BY <1>3, <2>2
    <2>3. CASE Fits(h) /\ Execute(h) /\ ~h.paid
      <3>1. h.source \in DOMAIN deals /\ h.source = h.root
            /\ (deals'[i].root = h.root \/ (i \in DOMAIN deals /\ deals'[i] = deals[i]))
        BY <2>3, RenewExecuted DEF Renews, RenewHand
      <3>2. h.root \in Unasked
        <4>1. Without(h.root, queue) /\ Without(h.root, saved)
          BY <1>0, <3>1 DEF Distinct, RequestOf, Without
        <4>2. pc # "request" /\ h.root \in Loans
          BY <1>0 DEF HandOK, Renews, RenewHand
        <4> QED  BY <4>1, <4>2 DEF Unasked
      <3>3. \A g \in hand : ~Retry(g)
        BY <1>4 DEF Retry, Broadcast, BroadcastFails
      <3>4. h.root \in Unasked'
        BY <1>1, <3>2, <3>3
      <3> QED  BY <1>2, <3>1, <3>4
    <2> QED  BY <2>1, <2>2, <2>3
  <1>5. ASSUME NEW h \in hand, Retry(h), NEW i \in DOMAIN deals' PROVE Own(i)
    <2>1. h.offer = F[h.root]
      BY DEF Renews, RenewHand
    <2>2. UNCHANGED deals \/ deals' = Lend(deals, h.offer, h.amount, h.root)
      BY <1>5 DEF Retry, chainVars
    <2>3. CASE deals' = Lend(deals, h.offer, h.amount, h.root)
      <3>1. (i \in DOMAIN deals /\ deals'[i] = deals[i]) \/ (deals'[i].offer = h.offer /\ deals'[i].root = h.root)
        BY <2>3 DEF Lend
      <3> QED  BY <1>2, <2>1, <3>1
    <2> QED  BY <1>3, <2>2, <2>3
  <1>6. ASSUME Serve, NEW i \in DOMAIN deals' PROVE Own(i)
    <2> DEFINE r == Head(rest)
    <2>1. r.offer = F[r.root]
      BY <1>6, ServeStep DEF RequestOf
    <2>2. CASE deals' # deals
      <3>1. PICK o \in Offers : /\ deals' = Lend(deals, o, r.amount, r.root)
                               /\ (o = r.offer \/ r.root \in strayed')
        BY <1>6, <2>2, ServeStep
      <3> HIDE DEF r
      <3>2. (i \in DOMAIN deals /\ deals'[i] = deals[i]) \/ (deals'[i].offer = o /\ deals'[i].root = r.root)
        BY <3>1 DEF Lend
      <3> QED  BY <1>2, <2>1, <3>1, <3>2
    <2> QED  BY <1>3, <2>2
  <1>7. ASSUME ~Serve, \A h \in hand : ~Broadcast(h) /\ ~BroadcastFails(h) /\ ~Retry(h), NEW i \in DOMAIN deals'
        PROVE  Own(i)
    <2>1. UNCHANGED deals
      BY <1>7 DEF CreditNext, Step, StartPass, Mpa, SplitPiece, SplitEnd, RenewDeal, SkipDeal, Renew,
         Increase, StartRequests, FinishRequests, ReadBack, Persist, Stop, Toggle, creditVars, chainVars
    <2> QED  BY <1>3, <2>1
  <1>8. \A i \in DOMAIN deals' : Own(i)
    BY <1>4, <1>5, <1>6, <1>7
  <1> QED  BY <1>8 DEF OwnOffer

LEMMA RenewViewStep ==
    ASSUME CreditTypes, [CreditNext]_creditVars, NEW F \in [Loans -> Offers], Renews(F), policy.renewOnly
    PROVE  RenewViews(F)'
  <1>0. /\ HandOK /\ OneEach(F, strayed', deals') /\ policy.limit = 0 /\ policy.renewOnly /\ ~policy.percent
        /\ OneEach(F, Loans, known) /\ (cache # NoDeals => pc = "request") /\ (pc = "split" => todo = {})
        /\ \A h \in hand : h.phase = "renew" /\ pc # "request"
    BY PolicyType, RenewChainStep DEF CreditTypes, Renews, RenewViews, RenewHand, HandOK
  <1>1. known' \in {known, deals', << >>}
    BY <1>0 DEF CreditNext, Step, StartPass, Mpa, SplitPiece, SplitEnd, RenewDeal,
         SkipDeal, Renew, Increase, StartRequests, Serve, FinishRequests, Broadcast, BroadcastFails,
         ReadBack, Retry, Persist, Stop, Toggle, creditVars, viewVars, Refresh
  <1>2. OneEach(F, Loans, known')
    BY <1>0, <1>1 DEF OneEach
  <1>3. cache' # NoDeals => pc' = "request"
    <2>1. \A tried : Build(tried) => cache' = cache
      BY <1>0 DEF Build
    <2> QED  BY <1>0, <2>1 DEF CreditNext, Step, StartPass, Mpa, SplitPiece, SplitEnd, RenewDeal,
         SkipDeal, Renew, Increase, StartRequests, Serve, FinishRequests, Broadcast, BroadcastFails,
         ReadBack, Retry, Persist, Stop, Toggle, creditVars, viewVars, Refresh
  <1>4. pc' = "split" => todo' = {}
    BY <1>0 DEF CreditNext, Step, StartPass, Mpa, SplitPiece, SplitEnd, RenewDeal, SkipDeal, Renew,
         Increase, StartRequests, Serve, FinishRequests, Broadcast, BroadcastFails, ReadBack, Retry,
         Persist, Stop, Toggle, creditVars
  <1> QED  BY <1>2, <1>3, <1>4 DEF RenewViews

LEMMA RenewHandStep ==
    ASSUME CreditTypes, [CreditNext]_creditVars, NEW F \in [Loans -> Offers], Renews(F), policy.renewOnly
    PROVE  RenewHand(F)'
  <1>0. /\ ChainOK /\ HandOK /\ policy.reborrow
        /\ Distinct(F, deals, queue) /\ Distinct(F, deals, saved)
    BY PolicyType DEF CreditTypes, Renews, RenewRequests
  <1>1. ASSUME NEW h \in hand
        PROVE  /\ h \in HandType /\ hand = {h}
               /\ h.phase = "renew" /\ h.via \in Offers \cup {"later"}
               /\ h.root \in Loans /\ h.source = h.root /\ h.offer = F[h.root] /\ h.amount = Lent(h.root)
    BY <1>0 DEF HandOK, Renews, RenewHand
  <1>2. ASSUME hand' = {} PROVE RenewHand(F)'
    BY <1>2 DEF RenewHand
  <1>3. ASSUME NEW h \in hand, NEW b, hand' = {[h EXCEPT !.paid = b]},
               b /\ h.via = "later" =>
                  Lacks(h.root, deals') /\ Without(h.root, queue') /\ Without(h.root, saved')
        PROVE  RenewHand(F)'
    <2>1. PICK g : g = [h EXCEPT !.paid = b]
      OBVIOUS
    <2>2. /\ g.phase = h.phase /\ g.via = h.via /\ g.offer = h.offer /\ g.root = h.root
          /\ g.source = h.source /\ g.amount = h.amount /\ g.paid = b /\ hand' = {g}
      BY <1>1, <1>3, <2>1 DEF HandType
    <2> QED  BY <1>1, <1>3, <2>2 DEF RenewHand
  <1>4. ASSUME UNCHANGED <<hand, deals>>, \A q \in {queue', saved'} : q \in {queue, saved}
        PROVE  RenewHand(F)'
    BY <1>4 DEF RenewHand, Renews
  <1>5. CASE RenewDeal
    <2>1. PICK i \in DOMAIN known : i \in Loans /\ Renew(i, known[i].debt, "renew")
      BY <1>5 DEF RenewDeal
    <2>2. known[i].root = i /\ known[i].offer = F[i] /\ known[i].debt = Lent(i)
      BY <2>1 DEF CreditTypes, ViewOK, Snapshot, Renews, RenewViews, OneEach
    <2>3. PICK via \in Offers \cup {"later"} :
             hand' = {[source |-> i, offer |-> known[i].offer, amount |-> known[i].debt,
                       root |-> known[i].root, via |-> via, phase |-> "renew", paid |-> FALSE]}
      BY <1>0, <2>1 DEF Renew, Others, ChainOK
    <2> QED  BY <2>1, <2>2, <2>3 DEF RenewHand
  <1>6. ASSUME NEW h \in hand, Broadcast(h) PROVE RenewHand(F)'
    <2>1. ~h.paid /\ Fits(h) /\ Execute(h) /\ UNCHANGED <<queue, saved>>
      BY <1>0, <1>6 DEF Broadcast, HandOK, fileVars
    <2>2. h.source \in DOMAIN deals /\ (h.via = "later" => Lacks(h.root, deals'))
      BY <2>1, RenewExecuted
    <2>3. Without(h.root, queue) /\ Without(h.root, saved)
      BY <1>0, <1>1, <2>2 DEF Distinct, RequestOf, Without
    <2> QED  BY <1>3, <1>6, <2>1, <2>2, <2>3 DEF Broadcast
  <1>7. ASSUME NEW h \in hand, ReadBack(h) PROVE RenewHand(F)'
    <2>1. UNCHANGED <<deals, queue>> /\ saved' = queue'
      BY <1>7 DEF ReadBack, Refresh, chainVars
    <2>2. hand' = hand \/ hand' = {[h EXCEPT !.paid = FALSE]}
      BY <1>7 DEF ReadBack
    <2> QED  BY <1>3, <1>4, <2>1, <2>2
  <1>8. ASSUME NEW h \in hand, Retry(h) PROVE RenewHand(F)'
    BY <1>3, <1>8 DEF Retry
  <1>9. ASSUME NEW h \in hand, BroadcastFails(h) \/ Persist(h) PROVE RenewHand(F)'
    BY <1>2, <1>9 DEF BroadcastFails, Persist
  <1>10. CASE SplitPiece
    BY <1>10 DEF SplitPiece, Renews, RenewViews
  <1>11. CASE StartPass \/ Mpa \/ SplitEnd \/ SkipDeal \/ StartRequests
    <2>1. UNCHANGED <<hand, deals, queue>> /\ saved' \in {saved, queue}
      BY <1>11 DEF StartPass, Mpa, SplitEnd, SkipDeal, StartRequests, chainVars, fileVars, Refresh
    <2> QED  BY <1>4, <2>1
  <1>12. CASE Increase \/ Serve \/ FinishRequests
    <2>1. hand = {} /\ hand' = hand
      BY <1>0, <1>12 DEF Increase, Serve, FinishRequests, HandOK
    <2> QED  BY <1>2, <2>1
  <1>13. CASE Stop
    BY <1>2, <1>13 DEF Stop
  <1>14. ASSUME NEW o \in Offers, Toggle(o) PROVE RenewHand(F)'
    BY <1>4, <1>14 DEF Toggle, chainVars, fileVars
  <1>15. CASE UNCHANGED creditVars
    BY <1>4, <1>15 DEF creditVars, chainVars, fileVars
  <1> QED  BY <1>5, <1>6, <1>7, <1>8, <1>9, <1>10, <1>11, <1>12, <1>13, <1>14, <1>15 DEF CreditNext, Step

LEMMA RenewRequestStep ==
    ASSUME CreditTypes, [CreditNext]_creditVars, NEW F \in [Loans -> Offers], Renews(F), policy.renewOnly
    PROVE  RenewRequests(F)'
  <1>0. /\ ChainOK /\ ViewOK /\ HandOK /\ RequestsOK /\ top \in Nat
        /\ Distinct(F, deals, queue) /\ Distinct(F, deals, saved)
    BY PolicyType DEF CreditTypes, Renews, RenewRequests, ChainOK
  <1>1. Onward(deals, top, deals', top') /\ RequestsOK'
    BY ChainSteps, RequestSteps
  <1>2. \A i \in Loans : i \in Nat /\ i <= top /\ (i \notin DOMAIN deals => i \notin DOMAIN deals')
    BY <1>0, <1>1, LoansKnown DEF ChainOK, Onward
  <1>3. \A q : Distinct(F, deals, q) => Distinct(F, deals', q)
    BY <1>2 DEF Distinct, RequestOf
  <1>4. ASSUME queue' \in {queue, saved}, saved' \in {queue, saved},
               pc' = "request" => pc = "request" /\ UNCHANGED <<rest, nextQueue, view, deals>>
        PROVE  RenewRequests(F)'
    <2>1. Distinct(F, deals', queue') /\ Distinct(F, deals', saved')
      BY <1>0, <1>3, <1>4
    <2>2. pc' = "request" => pc = "request" /\ Distinct(F, deals', rest') /\ Distinct(F, deals', nextQueue')
      BY <1>3, <1>4 DEF Renews, RenewRequests
    <2> QED  BY <1>4, <2>1, <2>2 DEF RenewRequests, Renews
  <1>5. ASSUME NEW h \in hand, Broadcast(h) \/ BroadcastFails(h) \/ ReadBack(h) \/ Persist(h)
        PROVE  RenewRequests(F)'
    <2>1. h.phase = "renew"
      BY DEF Renews, RenewHand
    <2> QED  BY <1>4, <1>5, <2>1 DEF Broadcast, BroadcastFails, ReadBack, Persist, Refresh, fileVars
  <1>6. ASSUME NEW h \in hand, Retry(h) PROVE RenewRequests(F)'
    <2>1. /\ h.paid /\ h.via = "later" /\ h.root \in Loans /\ h.source = h.root /\ h.offer = F[h.root]
          /\ h.amount = Lent(h.root) /\ Lacks(h.root, deals) /\ Without(h.root, queue)
      BY <1>0, <1>6 DEF HandOK, Retry, Renews, RenewHand
    <2>2. h.root \notin DOMAIN deals
      <3>1. h.root \in DOMAIN deals => deals[h.root].root = h.root
        BY <1>0, <2>1 DEF ChainOK, Snapshot
      <3> QED  BY <2>1, <3>1 DEF Lacks
    <2> DEFINE x == Request(h)
    <2>3. RequestOf(F, deals, x) /\ Without(x.root, queue)
      BY <2>1, <2>2 DEF RequestOf, Request
    <2>4. queue' \in {queue, Append(queue, x)} /\ saved' \in {saved, queue'} /\ pc' # "request"
      BY <1>6 DEF Retry, Queued, Refresh
    <2> HIDE DEF x
    <2>5. Distinct(F, deals, Append(queue, x))
      <3>1. queue \in Seq(RequestType)
        BY <1>0 DEF RequestsOK
      <3> QED  BY <1>0, <2>3, <3>1 DEF Distinct, Without
    <2> QED  BY <1>0, <1>3, <2>4, <2>5 DEF RenewRequests
  <1>7. CASE StartRequests
    <2>1. UNCHANGED <<queue, deals, nextQueue>> /\ pc = "requests"
      BY <1>7 DEF StartRequests, chainVars
    <2>2. nextQueue = <<>> /\ cache = NoDeals
      BY <1>0, <2>1 DEF RequestsOK, Renews, RenewViews
    <2>3. CASE queue = <<>>
      <3>1. pc' = "idle" /\ saved' = queue
        BY <1>7, <2>1, <2>3 DEF StartRequests
      <3> QED  BY <1>4, <2>1, <3>1
    <2>4. CASE queue # <<>>
      <3>1. pc' = "request" /\ view' = deals /\ rest' = queue /\ saved' = saved
        BY <1>7, <2>2, <2>4 DEF StartRequests, Fetched
      <3>2. Distinct(F, deals', nextQueue') /\ nextQueue' = <<>>
        BY <2>1, <2>2 DEF Distinct
      <3> QED  BY <1>0, <1>3, <2>1, <3>1, <3>2 DEF RenewRequests, Without
    <2> QED  BY <2>3, <2>4
  <1>8. CASE Serve
    <2>1. /\ pc = "request" /\ pc' = "request" /\ rest # <<>> /\ rest' = Tail(rest)
          /\ UNCHANGED <<queue, saved, view>>
      BY <1>8 DEF Serve, fileVars
    <2> DEFINE x == Head(rest)
    <2>2. /\ 1 \in DOMAIN rest /\ x = rest[1] /\ rest \in Seq(RequestType) /\ nextQueue \in Seq(RequestType)
          /\ \A k \in DOMAIN rest' : k + 1 \in DOMAIN rest \ {1} /\ rest'[k] = rest[k + 1]
      <3>1. rest \in Seq(RequestType) /\ nextQueue \in Seq(RequestType)
        BY <1>0 DEF RequestsOK
      <3> QED  BY <2>1, <3>1
    <2>3. nextQueue' \in {nextQueue, Append(nextQueue, x)}
      BY <1>8 DEF Serve, Kept
    <2>4. UNCHANGED deals \/ \E o \in Offers : deals' = Lend(deals, o, x.amount, x.root)
      BY <1>8, ServeStep
    <2> HIDE DEF x
    <2>5. /\ Distinct(F, deals, rest) /\ Distinct(F, deals, nextQueue)
          /\ \A k \in DOMAIN rest : Without(rest[k].root, nextQueue)
          /\ \A k \in DOMAIN rest, i \in DOMAIN deals :
                deals[i].root = rest[k].root => i \in DOMAIN view
      BY <2>1 DEF Renews, RenewRequests
    <2>6. Distinct(F, deals, rest')
      <3>1. \A k \in DOMAIN rest' : RequestOf(F, deals, rest'[k])
        BY <2>2, <2>5 DEF Distinct
      <3>2. ASSUME NEW k \in DOMAIN rest', NEW l \in DOMAIN rest', rest'[k].root = rest'[l].root
            PROVE  k = l
        <4>1. k + 1 = l + 1
          BY <2>2, <2>5, <3>2 DEF Distinct
        <4>2. k \in Nat /\ l \in Nat
          BY <1>1, <2>1 DEF RequestsOK
        <4> QED  BY <4>1, <4>2
      <3> QED  BY <3>1, <3>2 DEF Distinct
    <2>7. Without(x.root, rest')
      <3>1. ASSUME NEW k \in DOMAIN rest', rest'[k].root = x.root PROVE FALSE
        BY <2>2, <2>5, <3>1 DEF Distinct
      <3> QED  BY <3>1 DEF Without
    <2>8. Distinct(F, deals, Append(nextQueue, x))
      <3>1. RequestOf(F, deals, x) /\ Without(x.root, nextQueue)
        BY <2>2, <2>5 DEF Distinct
      <3> QED  BY <2>2, <2>5, <3>1 DEF Distinct, Without
    <2>9. \A k \in DOMAIN rest' : Without(rest'[k].root, nextQueue')
      <3>1. ASSUME NEW k \in DOMAIN rest' PROVE Without(rest'[k].root, nextQueue')
        <4>1. Without(rest'[k].root, nextQueue) /\ rest'[k].root # x.root
          BY <2>2, <2>5, <2>7 DEF Without
        <4> QED  BY <2>2, <2>3, <4>1 DEF Without
      <3> QED  BY <3>1
    <2>10. \A k \in DOMAIN rest', i \in DOMAIN deals' :
                deals'[i].root = rest'[k].root => i \in DOMAIN view
      <3>1. ASSUME NEW k \in DOMAIN rest', NEW i \in DOMAIN deals', deals'[i].root = rest'[k].root
            PROVE  i \in DOMAIN view
        <4>1. rest'[k].root # x.root
          BY <2>7 DEF Without
        <4>2. i \in DOMAIN deals /\ deals'[i].root = deals[i].root
          BY <2>4, <3>1, <4>1 DEF Lend
        <4> QED  BY <2>2, <2>5, <3>1, <4>2
      <3> QED  BY <3>1
    <2> QED  BY <1>0, <1>3, <2>1, <2>3, <2>5, <2>6, <2>8, <2>9, <2>10 DEF RenewRequests
  <1>9. CASE FinishRequests
    <2>1. pc = "request" /\ queue' = nextQueue /\ saved' = queue' /\ pc' = "idle"
      BY <1>9 DEF FinishRequests, LeftOver, Refresh
    <2>2. Distinct(F, deals, nextQueue)
      BY <2>1 DEF Renews, RenewRequests
    <2> QED  BY <1>3, <2>1, <2>2 DEF RenewRequests
  <1>10. CASE StartPass \/ Mpa \/ SplitPiece \/ SplitEnd \/ RenewDeal \/ SkipDeal \/ Increase \/ Stop
    BY <1>4, <1>10 DEF StartPass, Mpa, SplitPiece, SplitEnd, RenewDeal, SkipDeal, Renew, Increase, Stop,
       Refresh, fileVars
  <1>11. ASSUME NEW o \in Offers, Toggle(o) PROVE RenewRequests(F)'
    BY <1>4, <1>11 DEF Toggle, chainVars, fileVars, loopVars
  <1>12. CASE UNCHANGED creditVars
    BY <1>4, <1>12 DEF creditVars, chainVars, fileVars, loopVars
  <1> QED  BY <1>5, <1>6, <1>7, <1>8, <1>9, <1>10, <1>11, <1>12 DEF CreditNext, Step

LEMMA RenewInit == CreditInit => RenewOK
  <1> SUFFICES ASSUME CreditInit, policy.renewOnly PROVE \E F \in [Loans -> Offers] : Renews(F)
    BY DEF RenewOK
  <1>1. PICK F \in [Loans -> Offers] :
            deals = [i \in Loans |-> [offer |-> F[i], debt |-> Lent(i), root |-> i]]
    BY DEF CreditInit
  <1>2. OneEach(F, strayed, deals) /\ OwnOffer(F) /\ Strays
    BY <1>1 DEF OneEach, OwnOffer, Strays, CreditInit
  <1>3. RenewViews(F) /\ RenewHand(F) /\ RenewRequests(F)
    BY DEF CreditInit, RenewViews, RenewHand, RenewRequests, OneEach, Distinct
  <1> QED  BY <1>2, <1>3 DEF Renews

LEMMA RenewStep == CreditTypes /\ RenewOK /\ [CreditNext]_creditVars => RenewOK'
  <1> SUFFICES ASSUME CreditTypes, RenewOK, [CreditNext]_creditVars, policy'.renewOnly
               PROVE  \E F \in [Loans -> Offers] : Renews(F)'
    BY DEF RenewOK
  <1>1. policy.renewOnly
    BY PolicyKept
  <1>2. PICK F \in [Loans -> Offers] : Renews(F)
    BY <1>1 DEF RenewOK
  <1>3. Renews(F)'
    BY <1>1, <1>2, RenewChainStep, StrayStep, OwnOfferStep, RenewViewStep, RenewHandStep,
       RenewRequestStep DEF Renews
  <1> QED  BY <1>3

\* With renewOnly a loan is on the chain once at most, whatever dies and whichever answers
\* are lost, unless a request for it was served from another offer than its own.
THEOREM LoansRenewedOnlyOnce == CreditSpec => []RenewOnlyOnce
  <1>1. CreditTypes /\ RenewOK => RenewOnlyOnce
    <2> SUFFICES ASSUME CreditTypes, RenewOK, policy.renewOnly, NEW r \in Loans \ strayed
                 PROVE  OnChain(r) <= Lent(r)
      BY DEF RenewOnlyOnce
    <2>1. PICK F \in [Loans -> Offers] : OneEach(F, strayed, deals)
      BY DEF RenewOK, Renews
    <2> DEFINE S == {i \in DOMAIN deals : deals[i].root = r}
               g == [i \in DOMAIN deals |-> deals[i].debt]
    <2>2. OnChain(r) = Total(S, g)
      BY DEF OnChain, Owed
    <2>3. CASE S = {}
      <3> HIDE DEF g
      <3>1. Total(S, g) = 0
        BY <2>3, TotalOfNone
      <3> QED  BY <2>2, <3>1 DEF Lent
    <2>4. CASE S # {}
      <3>1. PICK i \in S : TRUE
        BY <2>4
      <3>2. S = {} \cup {i} /\ g[i] = Lent(r) /\ Lent(r) \in Nat
        BY <2>1, <3>1 DEF OneEach, Lent
      <3> HIDE DEF S, g
      <3>3. IsFiniteSet({}) /\ i \notin {} /\ (\A j \in {} : g[j] \in Nat) /\ g[i] \in Nat
        BY <3>2, FS_EmptySet
      <3>4. Total({} \cup {i}, g) = Total({}, g) + g[i]
        BY <3>3, TotalAdds
      <3>5. Total({}, g) = 0
        BY TotalOfNone
      <3> QED  BY <2>2, <3>2, <3>4, <3>5
    <2> QED  BY <2>3, <2>4
  <1> QED  BY <1>1, RenewInit, RenewStep, CreditTypesInvariant, PTL DEF CreditSpec

=============================================================================
