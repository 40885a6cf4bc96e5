-------------------------- MODULE FillQueueProofs --------------------------
(***************************************************************************)
(* Proofs about FillQueue for any set of fills, any other users of the     *)
(* lock and any number of events: FillsFollowedUp is inductive with the    *)
(* types of the variables.                                                 *)
(***************************************************************************)
EXTENDS FillQueue, SeqLemmas, TLAPS

IInv == TypeOK /\ FillsFollowedUp

\* The parts of TypeOK about the lock and the queue.
LockOK ==
    /\ queue \subseteq seen
    /\ holder \in {"free", "skip"} \cup Consumers \cup Others
    /\ waiters \in Seq(Consumers \cup Others)
    /\ holder = "free" => waiters = <<>>
    /\ rebuilding \in BOOLEAN /\ (rebuilding => holder \in Others)

\* The parts about everything else.
CountsOK ==
    /\ seen \subseteq Fills
    /\ calls \in [Contexts -> Nat] /\ ending \in [Contexts -> Nat]
    /\ nested \in [Consumers -> Nat] /\ batches \in [BatchKinds -> Nat]
    /\ resets \in Nat /\ syncs \in Nat /\ regions \in Nat /\ flag \in Nat /\ events \in Nat
    /\ down \in BOOLEAN /\ lapse \in BOOLEAN

LEMMA TypeSplit == TypeOK <=> LockOK /\ CountsOK
  BY DEF TypeOK, LockOK, CountsOK

-----------------------------------------------------------------------------
\* Passing the lock on keeps a waiting consumer, or gives it the lock.
LEMMA PassLockKeeps ==
    ASSUME LockOK, NEW b \in BOOLEAN, PassLock(b)
    PROVE  /\ queue' \in {queue, {}}
           /\ holder' \in {"free", "skip"} \cup Consumers \cup Others
           /\ waiters' \in Seq(Consumers \cup Others)
           /\ holder' = "free" => waiters' = <<>>
           /\ Waiting => Waiting' \/ holder' = "skip" \/ queue' = {}
  <1>1. CASE waiters = <<>>
    <2>1. ~Waiting
      BY <1>1 DEF Waiting
    <2> QED BY <1>1, <2>1 DEF PassLock, LockOK
  <1>2. CASE waiters # <<>>
    <2>1. /\ Head(waiters) \in Consumers \cup Others /\ Tail(waiters) \in Seq(Consumers \cup Others)
          /\ waiters' = Tail(waiters)
      BY <1>2 DEF PassLock, LockOK
    <2>2. /\ queue' \in {queue, {}} /\ holder' # "free"
          /\ holder' \in {"free", "skip"} \cup Consumers \cup Others
      BY <1>2, <2>1, QueueAssumption DEF PassLock, Consumers
    <2>3. ASSUME Waiting PROVE Waiting' \/ holder' = "skip" \/ queue' = {}
      <3>1. PICK i \in DOMAIN waiters : waiters[i] \in Consumers
        BY <2>3 DEF Waiting
      <3>2. CASE i = 1
        <4>1. Head(waiters) \in Consumers /\ Head(waiters) \notin Others
          BY <3>1, <3>2, <1>2, QueueAssumption DEF LockOK
        <4> QED BY <1>2, <4>1 DEF PassLock
      <3>3. CASE i # 1
        <4>1. i - 1 \in DOMAIN Tail(waiters) /\ Tail(waiters)[i - 1] = waiters[i]
          BY <1>2, <3>1, <3>3 DEF LockOK
        <4>2. Waiting'
          BY <2>1, <3>1, <4>1 DEF Waiting
        <4> QED BY <4>2
      <3> QED BY <3>2, <3>3
    <2> QED BY <2>1, <2>2, <2>3
  <1> QED BY <1>1, <1>2

\* A consumer in the queue of waiters is still there when one joins.
LEMMA AppendKeeps ==
    ASSUME LockOK, NEW w \in Consumers \cup Others, waiters' = Append(waiters, w)
    PROVE  /\ waiters' \in Seq(Consumers \cup Others)
           /\ Waiting \/ w \in Consumers => Waiting'
  <1>1. waiters' \in Seq(Consumers \cup Others)
    BY DEF LockOK
  <1>2. ASSUME Waiting PROVE Waiting'
    <2>1. PICK i \in DOMAIN waiters : waiters[i] \in Consumers
      BY <1>2 DEF Waiting
    <2>2. i \in DOMAIN waiters' /\ waiters'[i] = waiters[i]
      BY <2>1 DEF LockOK
    <2> QED BY <2>1, <2>2 DEF Waiting
  <1>3. ASSUME w \in Consumers PROVE Waiting'
    <2>1. Len(waiters) + 1 \in DOMAIN waiters' /\ waiters'[Len(waiters) + 1] = w
      BY DEF LockOK
    <2> QED BY <1>3, <2>1 DEF Waiting
  <1> QED BY <1>1, <1>2, <1>3

\* A waiter that is not a consumer leaves the consumers among the waiters.
LEMMA RemoveKeeps ==
    ASSUME LockOK, NEW i \in DOMAIN waiters, waiters' = RemoveAt(waiters, i)
    PROVE  /\ waiters' \in Seq(Consumers \cup Others)
           /\ Waiting => Waiting' \/ waiters[i] \in Consumers
  <1>1. waiters' = Without(waiters, i)
    BY DEF RemoveAt, Without
  <1>2. i \in 1 .. Len(waiters) /\ Len(waiters) \in Nat
    BY DEF LockOK
  <1>3. /\ waiters' \in Seq(Consumers \cup Others) /\ Len(waiters') = Len(waiters) - 1
        /\ \A j \in 1 .. (Len(waiters) - 1) :
              waiters'[j] = IF j < i THEN waiters[j] ELSE waiters[j + 1]
    BY <1>1, <1>2, RemoveOne DEF LockOK
  <1>4. ASSUME Waiting, waiters[i] \notin Consumers PROVE Waiting'
    <2>1. PICK k \in DOMAIN waiters : waiters[k] \in Consumers
      BY <1>4 DEF Waiting
    <2>2. k \in 1 .. Len(waiters) /\ k # i
      BY <2>1, <1>4 DEF LockOK
    <2>3. DOMAIN waiters' = 1 .. (Len(waiters) - 1)
      BY <1>3
    <2>4. CASE k < i
      BY <1>2, <1>3, <2>1, <2>2, <2>3, <2>4 DEF Waiting
    <2>5. CASE k > i
      <3>1. k - 1 \in DOMAIN waiters' /\ ~(k - 1 < i) /\ (k - 1) + 1 = k
        BY <1>2, <2>2, <2>3, <2>5
      <3>2. waiters'[k - 1] = waiters[k]
        BY <1>3, <2>3, <3>1
      <3> QED BY <2>1, <3>1, <3>2 DEF Waiting
    <2> QED BY <1>2, <2>2, <2>4, <2>5
  <1> QED BY <1>3, <1>4

-----------------------------------------------------------------------------
\* A call of the consumer, with the fills of q in the queue.
LEMMA ConsumeKeeps ==
    ASSUME IInv, NEW c \in Contexts, NEW q \in SUBSET seen', Consume(c, q),
           UNCHANGED <<ending, windows, rebuilding, down, events>>
    PROVE  /\ LockOK'
           /\ nested' \in [Consumers -> Nat] /\ lapse' \in BOOLEAN
           /\ queue' # {} /\ ~down' => Followed' \/ lapse'
  <1> USE DEF windows
  <1>0. /\ holder \in {"free", "skip"} \cup Consumers \cup Others
        /\ waiters \in Seq(Consumers \cup Others) /\ (holder = "free" => waiters = <<>>)
        /\ rebuilding \in BOOLEAN /\ (rebuilding => holder \in Others)
        /\ nested \in [Consumers -> Nat] /\ lapse \in BOOLEAN /\ LockOK
    BY TypeSplit DEF IInv, LockOK, CountsOK
  <1>m. Mode \in Consumers
    BY DEF Mode, Consumers
  <1>n. \A n \in Nat : n + 1 \in Nat
    OBVIOUS
  <1>1. CASE Returns(q)
    <2>1. q = {} \/ down' \/ BatchInFlight' \/ RecoveryInFlight'
      BY <1>1 DEF Returns, BatchInFlight, RecoveryInFlight
    <2> QED BY <1>0, <1>1, <2>1 DEF Returns, LockOK, Followed
  <1>2. CASE Yields(q)
    <2>1. queue' # {} => Followed' \/ lapse'
      BY <1>2 DEF Yields, LapseIfLeft
    <2>2. lapse' \in BOOLEAN
      BY <1>2 DEF Yields, LapseIfLeft
    <2> QED BY <1>0, <1>2, <2>1, <2>2 DEF Yields, LockOK
  <1>3. CASE EntersNested(c)
    <2>1. nested' \in [Consumers -> Nat] /\ lapse' \in BOOLEAN
      BY <1>0, <1>3, <1>m, <1>n DEF EntersNested, Settles
    <2> QED BY <1>0, <1>3, <2>1 DEF EntersNested, LockOK
  <1>4. CASE EntersFree(c)
    <2>1. lapse' \in BOOLEAN /\ ~rebuilding'
      BY <1>0, <1>4, QueueAssumption DEF EntersFree, Settles
    <2>2. holder' # "free" /\ holder' \in Consumers
      BY <1>4, <1>m DEF EntersFree, Consumers
    <2> QED BY <1>0, <1>4, <2>1, <2>2 DEF EntersFree, LockOK
  <1>5. CASE Waits(c, q)
    <2>1. waiters' \in Seq(Consumers \cup Others) /\ Waiting'
      BY <1>0, <1>5, <1>m, AppendKeeps DEF Waits
    <2>2. Followed'
      BY <2>1 DEF Followed
    <2> QED BY <1>0, <1>5, <2>1, <2>2 DEF Waits, LockOK
  <1> QED BY <1>1, <1>2, <1>3, <1>4, <1>5 DEF Consume

\* Somebody still follows the queue when nothing Followed speaks of is taken away.
LEMMA FollowedStays ==
    ASSUME IInv,
           queue' \subseteq queue, down' = down, lapse' = lapse \/ queue' = {},
           holder \in {"fills", "skip"} => holder' = holder,
           nested["fills"] > 0 => nested'["fills"] > 0,
           Waiting => Waiting' \/ holder' = "skip" \/ queue' = {},
           \A c \in Contexts :
              calls[c] > 0 \/ ending[c] > 0 => calls'[c] > 0 \/ ending'[c] > 0,
           BatchInFlight => BatchInFlight', RecoveryInFlight => RecoveryInFlight',
           regions > 0 => regions' > 0
    PROVE  FillsFollowedUp'
  <1> SUFFICES ASSUME queue' # {}, ~down' PROVE Followed' \/ lapse'
    BY DEF FillsFollowedUp
  <1>1. Followed \/ lapse
    BY DEF IInv, FillsFollowedUp
  <1>2. CASE lapse
    BY <1>2
  <1>3. CASE Followed
    BY <1>3 DEF Followed
  <1> QED BY <1>1, <1>2, <1>3

\* Restarting the consumer leaves no fills without a follower.
LEMMA RestartFollows ==
    ASSUME calls \in [Contexts -> Nat], NEW c \in Contexts, Restart(c), queue' = queue,
           down' = down
    PROVE  calls' \in [Contexts -> Nat] /\ FillsFollowedUp'
  <1>1. CASE queue # {} /\ ~down
    <2>1. calls' = [calls EXCEPT ![c] = @ + 1] /\ calls[c] \in Nat
      BY <1>1 DEF Restart, Schedule
    <2>2. calls' \in [Contexts -> Nat] /\ calls'[c] > 0
      BY <2>1
    <2> QED BY <2>2 DEF FillsFollowedUp, Followed
  <1>2. CASE ~(queue # {} /\ ~down)
    BY <1>2 DEF Restart, FillsFollowedUp
  <1> QED BY <1>1, <1>2

-----------------------------------------------------------------------------
LEMMA InitIInv == Init => IInv
  <1>1. Init => LockOK
    <2>1. <<>> \in Seq(Consumers \cup Others)
      OBVIOUS
    <2> QED BY <2>1 DEF Init, LockOK
  <1>2. ASSUME Init PROVE CountsOK
    <2>1. calls \in [Contexts -> Nat] /\ ending \in [Contexts -> Nat]
      BY <1>2 DEF Init
    <2>2. nested \in [Consumers -> Nat] /\ batches \in [BatchKinds -> Nat]
      BY <1>2 DEF Init
    <2>3. down \in BOOLEAN /\ lapse \in BOOLEAN
      BY <1>2, Zenon DEF Init
    <2> QED BY <1>2, <2>1, <2>2, <2>3 DEF Init, CountsOK
  <1>3. Init => FillsFollowedUp
    BY DEF Init, FillsFollowedUp
  <1> QED BY <1>1, <1>2, <1>3, TypeSplit DEF IInv

\* The steps of consumers.
LEMMA ConsumerSteps ==
    ASSUME IInv
    PROVE  /\ \A f \in Fills : Arrive(f) => IInv'
           /\ \A c \in Contexts : RunCall(c) => IInv'
           /\ \A c \in Contexts : Ends(c) => IInv'
           /\ FinishCycle => IInv'
           /\ FinishNested => IInv'
           /\ FinishBootstrap => IInv'
           /\ FinishNestedBootstrap => IInv'
           /\ CycleFails => IInv'
           /\ \A k \in Consumers : NestedFails(k) => IInv'
           /\ \A i \in DOMAIN waiters : WaiterTimesOut(i) => IInv'
  <1> USE DEF windows, lockVars, consumers
  <1>t. LockOK /\ CountsOK
    BY TypeSplit DEF IInv
  <1>n. \A n \in Nat : n + 1 \in Nat /\ (n > 0 => n - 1 \in Nat)
    OBVIOUS
  <1>p. "plain" \in Contexts /\ "nested" \in Contexts /\ "boot" \in Consumers /\ "fills" \in Consumers
    BY DEF Contexts, Consumers
  <1>q. Bootstrapping \in BOOLEAN
    BY <1>t DEF Bootstrapping, LockOK, CountsOK
  <1>1. ASSUME NEW f \in Fills, Arrive(f) PROVE IInv'
    <2>1. /\ seen' \subseteq Fills /\ queue \cup {f} \in SUBSET seen'
          /\ Consume("plain", queue \cup {f})
          /\ UNCHANGED <<calls, ending, windows, rebuilding, down, events>>
      BY <1>1, <1>t DEF Arrive, LockOK, CountsOK
    <2>2. LockOK' /\ nested' \in [Consumers -> Nat] /\ lapse' \in BOOLEAN /\ FillsFollowedUp'
      BY <2>1, <1>p, ConsumeKeeps DEF FillsFollowedUp
    <2>3. CountsOK'
      BY <2>1, <2>2, <1>t DEF CountsOK
    <2> QED BY <2>2, <2>3, TypeSplit DEF IInv, TypeOK, LockOK, CountsOK
  <1>2. ASSUME NEW c \in Contexts, RunCall(c) PROVE IInv'
    <2>1. /\ calls' \in [Contexts -> Nat] /\ queue \in SUBSET seen' /\ Consume(c, queue)
          /\ UNCHANGED <<seen, ending, windows, rebuilding, down, events>>
      BY <1>2, <1>t, <1>n DEF RunCall, LockOK, CountsOK
    <2>2. LockOK' /\ nested' \in [Consumers -> Nat] /\ lapse' \in BOOLEAN /\ FillsFollowedUp'
      BY <2>1, ConsumeKeeps DEF FillsFollowedUp
    <2>3. CountsOK'
      BY <2>1, <2>2, <1>t DEF CountsOK
    <2> QED BY <2>2, <2>3 DEF IInv, TypeOK, LockOK, CountsOK
  <1>3. ASSUME NEW c \in Contexts, Ends(c) PROVE IInv'
    <2>1. ending' \in [Contexts -> Nat]
      BY <1>3, <1>t, <1>n DEF Ends, CountsOK
    <2>2. calls' \in [Contexts -> Nat] /\ FillsFollowedUp'
      <3>1. Restart(c)
        BY <1>3 DEF Ends, Restart
      <3> QED BY <1>3, <1>t, <3>1, RestartFollows DEF Ends, CountsOK
    <2> QED BY <1>3, <1>t, <2>1, <2>2 DEF Ends, IInv, TypeOK, LockOK, CountsOK
  <1>4. ASSUME FinishCycle PROVE IInv'
    <2>1. queue' = {} /\ LockOK'
      <3>1. CASE queue # {}
        BY <1>4, <1>t, <3>1 DEF FinishCycle, LockOK
      <3>2. CASE queue = {}
        <4>1. PassLock(Bootstrapping) /\ UNCHANGED <<seen, rebuilding>>
          BY <1>4, <3>2 DEF FinishCycle
        <4>2. ~rebuilding
          BY <1>4, <1>t, QueueAssumption DEF FinishCycle, LockOK, Consumers
        <4> QED BY <1>t, <1>q, <3>2, <4>1, <4>2, PassLockKeeps DEF LockOK
      <3> QED BY <3>1, <3>2
    <2>2. CountsOK'
      BY <1>4, <1>t DEF FinishCycle, Settles, CountsOK
    <2> QED BY <2>1, <2>2 DEF IInv, TypeOK, LockOK, CountsOK, FillsFollowedUp
  <1>5. ASSUME FinishNested PROVE IInv'
    <2>1. nested' \in [Consumers -> Nat]
      BY <1>5, <1>t, <1>n, <1>p DEF FinishNested, CountsOK
    <2> QED BY <1>5, <1>t, <2>1 DEF FinishNested, Settles, IInv, TypeOK, LockOK, CountsOK,
               FillsFollowedUp
  <1>6. ASSUME FinishBootstrap PROVE IInv'
    <2>1. PassLock(Bootstrapping) /\ UNCHANGED <<seen, rebuilding>> /\ ~rebuilding
      BY <1>6, <1>t, QueueAssumption DEF FinishBootstrap, LockOK, Consumers
    <2>2. LockOK'
      BY <1>t, <1>q, <2>1, PassLockKeeps DEF LockOK
    <2>3. queue' # {} => Followed' \/ lapse'
      BY <1>6 DEF FinishBootstrap, LapseIfLeft
    <2>4. CountsOK'
      BY <1>6, <1>t DEF FinishBootstrap, LapseIfLeft, CountsOK
    <2> QED BY <2>2, <2>3, <2>4 DEF IInv, TypeOK, LockOK, CountsOK, FillsFollowedUp
  <1>7. ASSUME FinishNestedBootstrap PROVE IInv'
    <2>1. nested' \in [Consumers -> Nat] /\ nested'["fills"] = nested["fills"]
      BY <1>7, <1>t, <1>n, <1>p DEF FinishNestedBootstrap, CountsOK
    <2>2. FillsFollowedUp'
      BY <1>7, <2>1, FollowedStays DEF FinishNestedBootstrap, BatchInFlight, RecoveryInFlight,
         Waiting
    <2> QED BY <1>7, <1>t, <2>1, <2>2 DEF FinishNestedBootstrap, IInv, TypeOK, LockOK, CountsOK
  <1>8. ASSUME CycleFails PROVE IInv'
    <2>1. PassLock(Bootstrapping) /\ UNCHANGED <<seen, rebuilding>> /\ ~rebuilding
      BY <1>8, <1>t, QueueAssumption DEF CycleFails, LockOK, Consumers
    <2>2. LockOK'
      BY <1>t, <1>q, <2>1, PassLockKeeps DEF LockOK
    <2>3. ending' \in [Contexts -> Nat] /\ ending'["plain"] > 0
      BY <1>8, <1>t, <1>n, <1>p DEF CycleFails, CountsOK
    <2>4. Followed'
      BY <2>3, <1>p DEF Followed
    <2> QED BY <1>8, <1>t, <2>2, <2>3, <2>4 DEF CycleFails, Settles, IInv, TypeOK, LockOK,
               CountsOK, FillsFollowedUp
  <1>9. ASSUME NEW k \in Consumers, NestedFails(k) PROVE IInv'
    <2>1. /\ ending' \in [Contexts -> Nat] /\ ending'["nested"] > 0
          /\ nested' \in [Consumers -> Nat]
      BY <1>9, <1>t, <1>n, <1>p DEF NestedFails, CountsOK
    <2>2. Followed'
      BY <2>1, <1>p DEF Followed
    <2> QED BY <1>9, <1>t, <2>1, <2>2 DEF NestedFails, IInv, TypeOK, LockOK, CountsOK,
               FillsFollowedUp
  <1>10. ASSUME NEW i \in DOMAIN waiters, WaiterTimesOut(i) PROVE IInv'
    <2>1. waiters' \in Seq(Consumers \cup Others) /\ (Waiting => Waiting' \/ waiters[i] \in Consumers)
      BY <1>10, <1>t, RemoveKeeps DEF WaiterTimesOut
    <2>2. holder # "free"
      BY <1>t DEF LockOK
    <2>3. LockOK'
      BY <1>10, <1>t, <2>1, <2>2 DEF WaiterTimesOut, LockOK
    <2>4. CASE waiters[i] \in Consumers
      <3>1. ending' \in [Contexts -> Nat] /\ ending'["plain"] > 0
        BY <1>10, <1>t, <1>n, <1>p, <2>4 DEF WaiterTimesOut, CountsOK
      <3>2. Followed'
        BY <3>1, <1>p DEF Followed
      <3> QED BY <1>10, <1>t, <2>3, <3>1, <3>2 DEF WaiterTimesOut, IInv, TypeOK, LockOK,
                 CountsOK, FillsFollowedUp
    <2>5. CASE waiters[i] \notin Consumers
      <3>1. UNCHANGED <<queue, seen, calls, ending, holder, nested, windows, rebuilding, down,
                        lapse, events>>
        BY <1>10, <2>5 DEF WaiterTimesOut
      <3>2. FillsFollowedUp'
        BY <2>1, <2>5, <3>1, FollowedStays DEF BatchInFlight, RecoveryInFlight
      <3> QED BY <1>t, <2>3, <3>1, <3>2 DEF IInv, TypeOK, LockOK, CountsOK
    <2> QED BY <2>4, <2>5
  <1> QED BY <1>1, <1>2, <1>3, <1>4, <1>5, <1>6, <1>7, <1>8, <1>9, <1>10

\* The steps of everybody else.
LEMMA OtherSteps ==
    ASSUME IInv
    PROVE  /\ \A o \in Others : OtherStarts(o) => IInv'
           /\ RebuildStarts => IInv'
           /\ RebuildDrains => IInv'
           /\ OtherEnds => IInv'
           /\ \A b \in BatchKinds : BatchBegins(b) => IInv'
           /\ \A b \in BatchKinds : BatchEnds(b) => IInv'
           /\ SyncBegins => IInv'
           /\ SyncEnds => IInv'
           /\ ResetBegins => IInv'
           /\ ResetEnds => IInv'
           /\ RegionBegins => IInv'
           /\ RegionEnds => IInv'
           /\ Watchdog => IInv'
           /\ Shutdown => IInv'
  <1> USE DEF windows, lockVars, consumers
  <1>t. LockOK /\ CountsOK
    BY TypeSplit DEF IInv
  <1>n. \A n \in Nat : n + 1 \in Nat /\ (n > 0 => n - 1 \in Nat)
    OBVIOUS
  <1>b. FALSE \in BOOLEAN /\ TRUE \in BOOLEAN
    OBVIOUS
  <1>f. Lowered \in Nat
    BY <1>t DEF Lowered, CountsOK
  <1>k. IInv' <=> LockOK' /\ CountsOK' /\ FillsFollowedUp'
    BY DEF IInv, TypeOK, LockOK, CountsOK
  <1>e. Begins => events' \in Nat
    BY <1>t, <1>n DEF Begins, CountsOK
  <1>1. ASSUME NEW o \in Others, OtherStarts(o) PROVE IInv'
    <2>1. CASE holder = "free"
      <3>1. /\ holder' = o /\ rebuilding' \in BOOLEAN /\ waiters' = waiters
            /\ UNCHANGED <<queue, seen, consumers, windows, down, lapse>> /\ events' \in Nat
        BY <1>1, <2>1, <1>e DEF OtherStarts
      <3>2. o # "free"
        BY QueueAssumption
      <3>3. LockOK'
        BY <1>t, <3>1, <3>2 DEF LockOK
      <3>4. CountsOK'
        BY <1>t, <3>1 DEF CountsOK
      <3>5. FillsFollowedUp'
        BY <2>1, <3>1, FollowedStays DEF BatchInFlight, RecoveryInFlight, Waiting
      <3> QED BY <1>k, <3>3, <3>4, <3>5
    <2>2. CASE holder # "free"
      <3>1. /\ waiters' = Append(waiters, o) /\ UNCHANGED <<holder, rebuilding>>
            /\ UNCHANGED <<queue, seen, consumers, windows, down, lapse>> /\ events' \in Nat
        BY <1>1, <2>2, <1>e DEF OtherStarts
      <3>2. waiters' \in Seq(Consumers \cup Others) /\ (Waiting => Waiting')
        BY <1>t, <3>1, AppendKeeps
      <3>3. LockOK'
        BY <1>t, <2>2, <3>1, <3>2 DEF LockOK
      <3>4. CountsOK'
        BY <1>t, <3>1 DEF CountsOK
      <3>5. FillsFollowedUp'
        BY <3>1, <3>2, FollowedStays DEF BatchInFlight, RecoveryInFlight
      <3> QED BY <1>k, <3>3, <3>4, <3>5
    <2> QED BY <2>1, <2>2
  <1>2. ASSUME RebuildStarts PROVE IInv'
    <2>1. LockOK'
      BY <1>2, <1>t, <1>b DEF RebuildStarts, LockOK
    <2>2. CountsOK'
      BY <1>2, <1>t, <1>e DEF RebuildStarts, CountsOK
    <2>3. FillsFollowedUp'
      BY <1>2, FollowedStays DEF RebuildStarts, BatchInFlight, RecoveryInFlight, Waiting
    <2> QED BY <1>k, <2>1, <2>2, <2>3
  <1>3. ASSUME RebuildDrains PROVE IInv'
    <2>1. CountsOK'
      BY <1>3, <1>t DEF RebuildDrains, Settles, CountsOK
    <2> QED BY <1>k, <1>3, <1>t, <2>1 DEF RebuildDrains, LockOK, FillsFollowedUp
  <1>4. ASSUME OtherEnds PROVE IInv'
    <2>1. /\ PassLock(resets > 0) /\ rebuilding' = FALSE /\ Settles /\ holder \in Others
          /\ UNCHANGED <<seen, consumers, windows, down, events>>
      BY <1>4 DEF OtherEnds
    <2>2. (resets > 0) \in BOOLEAN
      OBVIOUS
    <2>3. /\ queue' \in {queue, {}}
          /\ holder' \in {"free", "skip"} \cup Consumers \cup Others
          /\ waiters' \in Seq(Consumers \cup Others)
          /\ holder' = "free" => waiters' = <<>>
          /\ Waiting => Waiting' \/ holder' = "skip" \/ queue' = {}
      BY <1>t, <2>1, <2>2, PassLockKeeps
    <2>4. LockOK'
      BY <1>t, <2>1, <2>3 DEF LockOK
    <2>5. CountsOK'
      BY <1>t, <2>1 DEF Settles, CountsOK
    <2>6. holder \notin {"fills", "skip"}
      BY <2>1, QueueAssumption DEF Consumers
    <2>7. lapse' = lapse \/ queue' = {}
      BY <1>t, <2>1, Zenon DEF Settles, CountsOK
    <2>8. FillsFollowedUp'
      BY <2>1, <2>3, <2>6, <2>7, FollowedStays DEF BatchInFlight, RecoveryInFlight
    <2> QED BY <1>k, <2>4, <2>5, <2>8
  <1>5. ASSUME NEW b \in BatchKinds, BatchBegins(b) PROVE IInv'
    <2>1. batches' \in [BatchKinds -> Nat] /\ batches'[b] > 0
      BY <1>5, <1>t, <1>n DEF BatchBegins, CountsOK
    <2>2. flag' \in Nat
      BY <1>5, <1>t, <1>n DEF BatchBegins, CountsOK
    <2>3. CountsOK'
      BY <1>5, <1>t, <1>e, <2>1, <2>2 DEF BatchBegins, CountsOK
    <2>4. LockOK'
      BY <1>5, <1>t DEF BatchBegins, LockOK
    <2>5. Followed'
      BY <2>1 DEF Followed, BatchInFlight
    <2> QED BY <1>k, <2>3, <2>4, <2>5 DEF FillsFollowedUp
  <1>6. ASSUME NEW b \in BatchKinds, BatchEnds(b) PROVE IInv'
    <2>1. batches' \in [BatchKinds -> Nat]
      BY <1>6, <1>t, <1>n DEF BatchEnds, CountsOK
    <2>2. flag' \in Nat
      BY <1>6, <1>t, <1>f DEF BatchEnds, CountsOK
    <2>3. PICK c \in Contexts : Restart(c)
      BY <1>6 DEF BatchEnds, Contexts
    <2>4. calls' \in [Contexts -> Nat] /\ FillsFollowedUp'
      BY <1>6, <1>t, <2>3, RestartFollows DEF BatchEnds, CountsOK
    <2>5. LockOK'
      BY <1>6, <1>t DEF BatchEnds, LockOK
    <2>6. CountsOK'
      BY <1>6, <1>t, <2>1, <2>2, <2>4 DEF BatchEnds, CountsOK
    <2> QED BY <1>k, <2>4, <2>5, <2>6
  <1>7. ASSUME SyncBegins PROVE IInv'
    <2>1. syncs' \in Nat /\ syncs' > 0
      BY <1>7, <1>t DEF SyncBegins, CountsOK
    <2>2. CountsOK'
      BY <1>7, <1>t, <1>e, <2>1 DEF SyncBegins, CountsOK
    <2>3. LockOK'
      BY <1>7, <1>t DEF SyncBegins, LockOK
    <2>4. Followed'
      BY <2>1 DEF Followed, RecoveryInFlight
    <2> QED BY <1>k, <2>2, <2>3, <2>4 DEF FillsFollowedUp
  <1>8. ASSUME SyncEnds PROVE IInv'
    <2>1. syncs' \in Nat
      BY <1>8, <1>t DEF SyncEnds, CountsOK
    <2>2. lapse' \in BOOLEAN /\ (queue' # {} => Followed' \/ lapse')
      BY <1>8 DEF SyncEnds, LapseIfLeft
    <2>3. CountsOK'
      BY <1>8, <1>t, <2>1, <2>2 DEF SyncEnds, CountsOK
    <2>4. LockOK'
      BY <1>8, <1>t DEF SyncEnds, LockOK
    <2> QED BY <1>k, <2>2, <2>3, <2>4 DEF FillsFollowedUp
  <1>9. ASSUME ResetBegins PROVE IInv'
    <2>1. resets' \in Nat /\ resets' > 0
      BY <1>9, <1>t DEF ResetBegins, CountsOK
    <2>2. CountsOK'
      BY <1>9, <1>t, <1>e, <2>1 DEF ResetBegins, CountsOK
    <2>3. LockOK'
      BY <1>9, <1>t DEF ResetBegins, LockOK
    <2>4. Followed'
      BY <2>1 DEF Followed, RecoveryInFlight
    <2> QED BY <1>k, <2>2, <2>3, <2>4 DEF FillsFollowedUp
  <1>10. ASSUME ResetEnds PROVE IInv'
    <2>1. /\ resets' \in Nat
          /\ UNCHANGED <<queue, seen, nested, ending, lockVars, batches, syncs, regions, flag,
                         down, events>>
      BY <1>10, <1>t DEF ResetEnds, CountsOK
    <2>2. calls' \in [Contexts -> Nat] /\ lapse' \in BOOLEAN /\ FillsFollowedUp'
      <3>1. CASE \E c \in Contexts : Restart(c) /\ UNCHANGED lapse
        BY <1>t, <2>1, <3>1, RestartFollows DEF CountsOK
      <3>2. CASE UNCHANGED calls /\ LapseIfLeft
        BY <1>t, <3>2 DEF LapseIfLeft, CountsOK, FillsFollowedUp
      <3> QED BY <1>10, <3>1, <3>2 DEF ResetEnds
    <2>3. CountsOK'
      BY <1>t, <2>1, <2>2 DEF CountsOK
    <2>4. LockOK'
      BY <1>t, <2>1 DEF LockOK
    <2> QED BY <1>k, <2>2, <2>3, <2>4
  <1>11. ASSUME RegionBegins PROVE IInv'
    <2>1. regions' \in Nat /\ regions' > 0 /\ flag' \in Nat
      BY <1>11, <1>t DEF RegionBegins, CountsOK
    <2>2. CountsOK'
      BY <1>11, <1>t, <1>e, <2>1 DEF RegionBegins, CountsOK
    <2>3. LockOK'
      BY <1>11, <1>t DEF RegionBegins, LockOK
    <2>4. Followed'
      BY <2>1 DEF Followed
    <2> QED BY <1>k, <2>2, <2>3, <2>4 DEF FillsFollowedUp
  <1>12. ASSUME RegionEnds PROVE IInv'
    <2>1. /\ regions' \in Nat /\ flag' \in Nat
          /\ UNCHANGED <<queue, seen, nested, ending, lockVars, batches, resets, syncs, down,
                         events>>
      BY <1>12, <1>t, <1>f DEF RegionEnds, CountsOK
    <2>2. calls' \in [Contexts -> Nat] /\ lapse' \in BOOLEAN /\ FillsFollowedUp'
      <3>1. CASE \E c \in Contexts : Restart(c) /\ UNCHANGED lapse
        BY <1>t, <2>1, <3>1, RestartFollows DEF CountsOK
      <3>2. CASE UNCHANGED calls /\ LapseIfLeft
        BY <1>t, <3>2 DEF LapseIfLeft, CountsOK, FillsFollowedUp
      <3> QED BY <1>12, <3>1, <3>2 DEF RegionEnds
    <2>3. CountsOK'
      BY <1>t, <2>1, <2>2 DEF CountsOK
    <2>4. LockOK'
      BY <1>t, <2>1 DEF LockOK
    <2> QED BY <1>k, <2>2, <2>3, <2>4
  <1>13. ASSUME Watchdog PROVE IInv'
    <2>1. flag' \in Nat
      BY <1>13 DEF Watchdog
    <2>2. CountsOK'
      BY <1>13, <1>t, <1>e, <2>1 DEF Watchdog, CountsOK
    <2>3. LockOK'
      BY <1>13, <1>t DEF Watchdog, LockOK
    <2>4. FillsFollowedUp'
      BY <1>13, FollowedStays DEF Watchdog, BatchInFlight, RecoveryInFlight, Waiting
    <2> QED BY <1>k, <2>2, <2>3, <2>4
  <1>14. ASSUME Shutdown PROVE IInv'
    <2>1. CountsOK'
      BY <1>14, <1>t, <1>b DEF Shutdown, CountsOK
    <2> QED BY <1>k, <1>14, <1>t, <2>1 DEF Shutdown, LockOK, FillsFollowedUp
  <1> QED BY <1>1, <1>2, <1>3, <1>4, <1>5, <1>6, <1>7, <1>8, <1>9, <1>10, <1>11, <1>12, <1>13,
             <1>14

\* Every step preserves the invariant.
LEMMA NextIInv == IInv /\ [Next]_vars => IInv'
  <1>1. ASSUME IInv, UNCHANGED vars PROVE IInv'
    <2>1. FillsFollowedUp'
      BY <1>1, FollowedStays DEF vars, Waiting, BatchInFlight, RecoveryInFlight
    <2>2. TypeOK'
      BY <1>1 DEF vars, IInv, TypeOK
    <2> QED BY <2>1, <2>2 DEF IInv
  <1>2. ASSUME IInv, Next PROVE IInv'
    <2>1. CASE Finishes
      BY <1>2, <2>1, ConsumerSteps, OtherSteps, Zenon DEF Finishes
    <2>2. CASE \E f \in Fills : Arrive(f)
      BY <1>2, <2>2, ConsumerSteps, Zenon
    <2>3. CASE \E c \in Contexts : RunCall(c) \/ Ends(c)
      BY <1>2, <2>3, ConsumerSteps, Zenon
    <2>4. CASE CycleFails \/ \E k \in Consumers : NestedFails(k)
      BY <1>2, <2>4, ConsumerSteps, Zenon
    <2>5. CASE \E i \in DOMAIN waiters : WaiterTimesOut(i)
      BY <1>2, <2>5, ConsumerSteps, Zenon
    <2>6. CASE (\E o \in Others : OtherStarts(o)) \/ RebuildStarts \/ RebuildDrains
      BY <1>2, <2>6, OtherSteps, Zenon
    <2>7. CASE \E b \in BatchKinds : BatchBegins(b)
      BY <1>2, <2>7, OtherSteps, Zenon
    <2>8. CASE SyncBegins \/ ResetBegins \/ RegionBegins \/ Watchdog \/ Shutdown
      BY <1>2, <2>8, OtherSteps, Zenon
    <2> QED BY <1>2, <2>1, <2>2, <2>3, <2>4, <2>5, <2>6, <2>7, <2>8, Zenon DEF Next
  <1> QED BY <1>1, <1>2

\* For any fills, other users of the lock and bounds: a queue that holds fills has
\* somebody who will look at it, unless a path that schedules nobody left it behind
\* (consumeFillQueue() and the windows that make it return early).
THEOREM NoFillForgotten == Spec => []FillsFollowedUp
  <1>1. IInv => FillsFollowedUp
    BY DEF IInv
  <1> QED BY <1>1, InitIInv, NextIInv, PTL DEF Spec

\* For any constants: the lock is free only if nobody waits, only its users hold it and
\* no counter of calls, windows or broadcasts is ever negative.
THEOREM CountersStayNatural == Spec => []TypeOK
  <1>1. IInv => TypeOK
    BY DEF IInv
  <1> QED BY <1>1, InitIInv, NextIInv, PTL DEF Spec
=============================================================================
