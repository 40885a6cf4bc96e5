-------------------------- MODULE FillStoreProofs --------------------------
(***************************************************************************)
(* Proofs about the record of fills (FillStore), for any fills, modes,     *)
(* number of failing writes and of restarts, and about the feed that       *)
(* delivers them (FillFeed), for any number of operations, faults and      *)
(* refusals.                                                               *)
(***************************************************************************)
EXTENDS FillStore, FillFeed, SeqLemmas, TLAPS

Recorded == disk \cup pending \cup InChain

\* The key of the running call is recorded, not yet processed, and credited only after
\* the adjustments.
JobKeyOK ==
    /\ job.step # "none" => job.key \in Recorded /\ job.key \notin tracker
    /\ job.step = "apply" => credit[job.key] = 0
    /\ job.step = "flush" => credit[job.key] = 1

\* A key that is neither processed nor in work has no credit.
IdleUncredited ==
    \A k \in Keys : k \notin tracker /\ (job.step = "none" \/ job.key # k) => credit[k] = 0

\* The final flush still waits for every credit that is not on disk.
FinalFlushCovers ==
    phase \in {"flushing", "exited"} /\ failures = 0
        => \A k \in must : k \in disk \/ \E i \in 1 .. wait : k \in chain[i]

\* An exit means that the final flush waits no more.
ExitWaitsNot == phase = "exited" => wait = 0

Credits == JobKeyOK /\ IdleUncredited /\ CreditedOnce /\ NothingForgotten
Final == FinalFlushCovers /\ ExitWaitsNot

IInv == TypeOK /\ Credits /\ RetryArmed /\ Final

-----------------------------------------------------------------------------
Batches == (SUBSET Keys) \ {{}}

\* A batch is appended to the chain.
LEMMA Appended ==
    ASSUME chain \in Seq(Batches), NEW b \in Batches, chain' = Append(chain, b)
    PROVE  /\ chain' \in Seq(Batches) /\ Len(chain') = Len(chain) + 1
           /\ \A i \in 1 .. Len(chain) : chain'[i] = chain[i]
           /\ InChain' = InChain \cup b
  <1>1. /\ chain' \in Seq(Batches) /\ Len(chain') = Len(chain) + 1
        /\ \A i \in 1 .. Len(chain) : chain'[i] = chain[i]
        /\ chain'[Len(chain) + 1] = b
    OBVIOUS
  <1>2. DOMAIN chain' = 1 .. (Len(chain) + 1) /\ DOMAIN chain = 1 .. Len(chain) /\ Len(chain) \in Nat
    BY <1>1
  <1>3. ASSUME NEW k PROVE k \in InChain' <=> k \in InChain \cup b
    <2>1. k \in InChain' <=> \E i \in 1 .. (Len(chain) + 1) : k \in chain'[i]
      BY <1>2, Zenon DEF InChain
    <2>2. k \in InChain <=> \E i \in 1 .. Len(chain) : k \in chain[i]
      BY <1>2, Zenon DEF InChain
    <2>3. (\E i \in 1 .. (Len(chain) + 1) : k \in chain'[i])
            <=> (\E i \in 1 .. Len(chain) : k \in chain[i]) \/ k \in b
      BY <1>1, <1>2
    <2> QED BY <2>1, <2>2, <2>3
  <1> QED BY <1>1, <1>3

\* The head of the chain is settled.
LEMMA HeadSettled ==
    ASSUME chain \in Seq(Batches), chain # <<>>, chain' = Tail(chain)
    PROVE  /\ chain' \in Seq(Batches) /\ Len(chain') = Len(chain) - 1
           /\ Len(chain) \in Nat \ {0}
           /\ \A i \in 1 .. (Len(chain) - 1) : chain'[i] = chain[i + 1]
           /\ Head(chain) = chain[1] /\ Head(chain) \in Batches
           /\ InChain = Head(chain) \cup InChain'
  <1>1. /\ chain' \in Seq(Batches) /\ Len(chain') = Len(chain) - 1
        /\ Len(chain) \in Nat \ {0}
        /\ \A i \in 1 .. (Len(chain) - 1) : chain'[i] = chain[i + 1]
        /\ Head(chain) = chain[1] /\ Head(chain) \in Batches
    OBVIOUS
  <1>2. DOMAIN chain' = 1 .. (Len(chain) - 1) /\ DOMAIN chain = 1 .. Len(chain)
    BY <1>1
  <1>3. ASSUME NEW k PROVE k \in InChain <=> k \in Head(chain) \cup InChain'
    <2>1. k \in InChain' <=> \E i \in 1 .. (Len(chain) - 1) : k \in chain'[i]
      BY <1>2, Zenon DEF InChain
    <2>2. k \in InChain <=> \E i \in 1 .. Len(chain) : k \in chain[i]
      BY <1>2, Zenon DEF InChain
    <2>3. (\E i \in 1 .. Len(chain) : k \in chain[i])
            => k \in chain[1] \/ \E i \in 1 .. (Len(chain) - 1) : k \in chain'[i]
      <3>1. ASSUME NEW i \in 1 .. Len(chain), k \in chain[i], i # 1
            PROVE  i - 1 \in 1 .. (Len(chain) - 1) /\ k \in chain'[i - 1]
        <4>1. i - 1 \in 1 .. (Len(chain) - 1) /\ (i - 1) + 1 = i
          BY <3>1, <1>1
        <4> QED BY <4>1, <3>1, <1>1
      <3> QED BY <3>1
    <2>4. (\E i \in 1 .. (Len(chain) - 1) : k \in chain'[i])
            => \E i \in 1 .. Len(chain) : k \in chain[i]
      <3>1. ASSUME NEW i \in 1 .. (Len(chain) - 1), k \in chain'[i]
            PROVE  i + 1 \in 1 .. Len(chain) /\ k \in chain[i + 1]
        BY <3>1, <1>1
      <3> QED BY <3>1
    <2>5. k \in chain[1] => \E i \in 1 .. Len(chain) : k \in chain[i]
      BY <1>1
    <2> QED BY <1>1, <2>1, <2>2, <2>3, <2>4, <2>5
  <1> QED BY <1>1, <1>3

\* What a flush does to the chain: it takes some queued keys and appends them.
Took(taken) ==
    /\ pending' = pending \ taken
    /\ chain' \in Seq(Batches) /\ Len(chain') \in {Len(chain), Len(chain) + 1}
    /\ \A i \in 1 .. Len(chain) : chain'[i] = chain[i]
    /\ InChain' = InChain \cup taken

LEMMA TakeAllTakes ==
    ASSUME TypeOK, TakeAll
    PROVE  Took(pending) /\ pending' = {} /\ timer' = FALSE
  <1>1. chain \in Seq(Batches) /\ pending \subseteq Keys
    BY DEF TypeOK, Batches
  <1>2. CASE pending = {}
    <2>1. chain' = chain
      BY <1>2 DEF TakeAll
    <2>2. InChain' = InChain
      BY <2>1 DEF InChain
    <2> QED BY <1>1, <1>2, <2>1, <2>2 DEF TakeAll, Took
  <1>3. CASE pending # {}
    <2>1. pending \in Batches /\ chain' = Append(chain, pending)
      BY <1>1, <1>3 DEF TakeAll, Batches
    <2> QED BY <1>1, <2>1, Appended DEF TakeAll, Took
  <1> QED BY <1>2, <1>3

LEMMA TakeKeysTakes ==
    ASSUME TypeOK, NEW ks, TakeKeys(ks)
    PROVE  Took(ks \cap pending) /\ timer' = timer
  <1> DEFINE batch == ks \cap pending
  <1>1. chain \in Seq(Batches) /\ batch \subseteq Keys
    BY DEF TypeOK, Batches
  <1>2. CASE batch = {}
    <2>1. chain' = chain
      BY <1>2 DEF TakeKeys
    <2>2. InChain' = InChain
      BY <2>1 DEF InChain
    <2> QED BY <1>1, <1>2, <2>1, <2>2 DEF TakeKeys, Took
  <1>3. CASE batch # {}
    <2>1. batch \in Batches /\ chain' = Append(chain, batch)
      BY <1>1, <1>3 DEF TakeKeys, Batches
    <2> QED BY <1>1, <2>1, Appended DEF TakeKeys, Took
  <1> QED BY <1>2, <1>3

-----------------------------------------------------------------------------
Flushing == [step : {"flush"}, key : Keys, waits : Nat, own : BOOLEAN, failed : BOOLEAN]

LEMMA JobKinds ==
    ASSUME job \in Jobs
    PROVE  /\ job.step \in {"none", "apply", "flush"}
           /\ job.step = "none" => job = NoJob
           /\ job.step = "apply" => job \in [step : {"apply"}, key : Keys, mode : Modes]
           /\ job.step = "flush" => job \in Flushing
  <1>1. CASE job = NoJob
    BY <1>1 DEF NoJob
  <1>2. CASE job \in [step : {"apply"}, key : Keys, mode : Modes]
    BY <1>2
  <1>3. CASE job \in Flushing
    BY <1>3 DEF Flushing
  <1> QED BY <1>1, <1>2, <1>3 DEF Jobs, Flushing

\* A settled batch counts down the wait of a flushing call and changes nothing else of it.
LEMMA JobSettles ==
    ASSUME job \in Jobs, NEW f \in BOOLEAN, job' = JobSettled(f)
    PROVE  /\ job' \in Jobs /\ job'.step = job.step
           /\ job.step # "none" => job'.key = job.key
           /\ job.step = "flush" => job.waits \in Nat /\ job'.waits = Settled(job.waits)
  <1>1. CASE job.step # "flush"
    BY <1>1 DEF JobSettled
  <1>2. CASE job.step = "flush"
    <2>1. job \in Flushing
      BY <1>2, JobKinds
    <2>2. CASE job.waits = 0
      BY <1>2, <2>1, <2>2 DEF JobSettled, Settled, Flushing
    <2>3. CASE job.waits # 0
      <3> DEFINE b == f /\ job.own /\ job.waits = 1
      <3>1. b \in BOOLEAN
        BY Zenon
      <3>2. job' = [job EXCEPT !.waits = @ - 1, !.failed = b]
        BY <1>2, <2>3 DEF JobSettled
      <3> HIDE DEF b
      <3>3. job.waits - 1 \in Nat
        BY <2>1, <2>3 DEF Flushing
      <3>4. job' \in Flushing /\ job'.step = job.step /\ job'.key = job.key
            /\ job'.waits = job.waits - 1
        BY <2>1, <3>1, <3>2, <3>3 DEF Flushing
      <3> QED BY <1>2, <2>1, <2>3, <3>4 DEF Jobs, Flushing, Settled
    <2> QED BY <2>2, <2>3
  <1> QED BY <1>1, <1>2

\* The parts of TypeOK.
StoreType ==
    /\ tracker \subseteq Keys /\ pending \subseteq Keys /\ disk \subseteq Keys
    /\ chain \in Seq(Batches) /\ timer \in BOOLEAN
WaitType ==
    /\ job \in Jobs /\ (job.step = "flush" => job.waits =< Len(chain))
    /\ wait \in 0 .. Len(chain)
CycleType == cycle \subseteq tracker /\ closed \subseteq tracker
RestType ==
    /\ phase \in {"up", "stopping", "flushing", "exited"} /\ must \subseteq Keys
    /\ failures \in 0 .. MaxFailures /\ lives \in 0 .. MaxLives

LEMMA TypeParts ==
    TypeOK <=> /\ StoreType /\ WaitType /\ CycleType /\ RestType
               /\ credit \in [Keys -> Nat]
  BY DEF TypeOK, StoreType, WaitType, CycleType, RestType, Batches

\* A flush keeps the types, and can be waited for.
LEMMA FlushTypes ==
    ASSUME TypeOK, NEW ks, Took(ks)
    PROVE  /\ pending' \subseteq Keys /\ chain' \in Seq(Batches)
           /\ Len(chain) \in Nat /\ Len(chain') \in Nat /\ Len(chain) =< Len(chain')
  <1>1. chain \in Seq(Batches) /\ pending \subseteq Keys
    BY TypeParts DEF StoreType
  <1>2. Len(chain) \in Nat
    BY <1>1
  <1> QED BY <1>1, <1>2 DEF Took

\* A settled batch keeps the types of the waits.
LEMMA SettledTypes ==
    ASSUME TypeOK, chain # <<>>, chain' = Tail(chain), NEW f \in BOOLEAN,
           job' = JobSettled(f), wait' = Settled(wait)
    PROVE  WaitType' /\ chain' \in Seq(Batches)
  <1>1. /\ chain \in Seq(Batches) /\ job \in Jobs /\ wait \in 0 .. Len(chain)
        /\ job.step = "flush" => job.waits =< Len(chain)
    BY TypeParts DEF StoreType, WaitType
  <1>2. /\ chain' \in Seq(Batches) /\ Len(chain') = Len(chain) - 1 /\ Len(chain) \in Nat \ {0}
    BY <1>1, HeadSettled
  <1>3. /\ job' \in Jobs /\ job'.step = job.step
        /\ job.step = "flush" => job.waits \in Nat /\ job'.waits = Settled(job.waits)
    BY <1>1, JobSettles
  <1>4. wait' \in 0 .. Len(chain')
    BY <1>1, <1>2 DEF Settled
  <1>5. job'.step = "flush" => job'.waits =< Len(chain')
    BY <1>1, <1>2, <1>3 DEF Settled
  <1> QED BY <1>2, <1>3, <1>4, <1>5 DEF WaitType

-----------------------------------------------------------------------------
\* Every step keeps the types.
LEMMA TypeStep ==
    ASSUME TypeOK, JobKeyOK, Next
    PROVE  TypeOK'
  <1> USE StoreAssumption
  <1>0. /\ StoreType /\ WaitType /\ CycleType /\ RestType /\ credit \in [Keys -> Nat]
        /\ Len(chain) \in Nat
    <2>1. StoreType /\ WaitType /\ CycleType /\ RestType /\ credit \in [Keys -> Nat]
      BY TypeParts
    <2>2. chain \in Seq(Batches)
      BY <2>1 DEF StoreType
    <2> QED BY <2>1, <2>2
  <1> SUFFICES StoreType' /\ WaitType' /\ CycleType' /\ RestType' /\ credit' \in [Keys -> Nat]
    BY DEF TypeOK, StoreType, WaitType, CycleType, RestType, Batches
  <1>1. ASSUME NEW k \in Keys, NEW m \in Modes, Process(k, m) PROVE TypeOK'
    <2>1. job' \in Jobs /\ job'.step # "flush"
      BY <1>1 DEF Process, Jobs
    <2> QED BY <1>0, <1>1, <2>1
            DEF Process, TypeOK, StoreType, WaitType, CycleType, RestType, Batches, history
  <1>2. CASE Apply
    <2>1. job \in [step : {"apply"}, key : Keys, mode : Modes]
      BY <1>0, <1>2, JobKinds DEF Apply, WaitType
    <2>2. credit' \in [Keys -> Nat]
      BY <1>0, <1>2, <2>1 DEF Apply
    <2>3. CASE job.mode = "batched"
      <3>1. Succeeds(job.key) /\ UNCHANGED <<pending, chain, timer, disk, wait>>
        BY <1>2, <2>3 DEF Apply
      <3>2. StoreType' /\ CycleType'
        BY <1>0, <1>2, <2>1, <3>1 DEF Succeeds, StoreType, CycleType, Apply, history
      <3>3. WaitType'
        BY <1>0, <3>1 DEF Succeeds, WaitType, Jobs, NoJob
      <3>4. RestType'
        BY <1>0, <1>2 DEF Apply, RestType, history
      <3> QED BY <2>2, <3>2, <3>3, <3>4
    <2>4. CASE job.mode # "batched"
      <3>1. /\ TakeAll /\ UNCHANGED <<tracker, cycle, disk, wait>>
            /\ job' = [step |-> "flush", key |-> job.key, waits |-> Len(chain'),
                       own |-> pending # {}, failed |-> FALSE]
        BY <1>2, <2>4 DEF Apply
      <3>2. Took(pending) /\ timer' = FALSE
        BY <3>1, TakeAllTakes
      <3>3. /\ pending' \subseteq Keys /\ chain' \in Seq(Batches)
            /\ Len(chain') \in Nat /\ Len(chain) =< Len(chain')
        BY <3>2, FlushTypes
      <3>4. StoreType'
        BY <1>0, <3>1, <3>2, <3>3 DEF StoreType
      <3>5. job' \in Jobs /\ (job'.step = "flush" => job'.waits =< Len(chain'))
        <4>1. (pending # {}) \in BOOLEAN
          BY Zenon
        <4> DEFINE o == pending # {}
        <4> HIDE DEF o
        <4>2. o \in BOOLEAN /\ job' = [step |-> "flush", key |-> job.key, waits |-> Len(chain'),
                                       own |-> o, failed |-> FALSE]
          BY <3>1, <4>1 DEF o
        <4> QED BY <2>1, <3>3, <4>2 DEF Jobs
      <3>6. WaitType'
        BY <1>0, <3>1, <3>3, <3>5 DEF WaitType
      <3>7. CycleType' /\ RestType'
        BY <1>0, <1>2, <3>1 DEF Apply, CycleType, RestType, history
      <3> QED BY <2>2, <3>4, <3>6, <3>7
    <2> QED BY <2>3, <2>4
  <1>3. CASE ApplyFails
    BY <1>0, <1>3 DEF ApplyFails, StoreType, WaitType, CycleType, RestType, Jobs, store, history, NoJob
  <1>4. CASE FinishJob
    <2>1. job \in Flushing
      BY <1>0, <1>4, JobKinds DEF FinishJob, WaitType
    <2>2. job' = NoJob /\ job' \in Jobs /\ job'.step = "none"
      BY <1>4 DEF FinishJob, Succeeds, Jobs, NoJob
    <2>3. WaitType'
      BY <1>0, <1>4, <2>2 DEF FinishJob, WaitType
    <2>4. StoreType' /\ CycleType' /\ RestType' /\ credit' \in [Keys -> Nat]
      BY <1>0, <1>4, <2>1
         DEF FinishJob, Succeeds, Flushing, StoreType, CycleType, RestType, history
    <2> QED BY <2>3, <2>4
  <1>5. CASE Rollback
    <2>1. job \in Flushing
      BY <1>0, <1>5, JobKinds DEF Rollback, WaitType
    <2>2. credit[job.key] = 1 /\ job.key \in Keys
      BY <1>5, <2>1 DEF Rollback, JobKeyOK, Flushing
    <2>3. credit' \in [Keys -> Nat]
      BY <1>0, <1>5, <2>2 DEF Rollback, CreditTakenBack
    <2>4. WaitType'
      BY <1>0, <1>5 DEF Rollback, WaitType, Jobs, NoJob
    <2> QED BY <1>0, <1>5, <2>3, <2>4 DEF Rollback, StoreType, CycleType, RestType, history
  <1>6. CASE CycleFlush
    <2>1. \E ks : Took(ks) /\ timer' \in BOOLEAN
      <3>1. CASE TakeKeys(cycle)
        BY <1>0, <3>1, TakeKeysTakes DEF StoreType
      <3>2. CASE TakeAll
        BY <3>2, TakeAllTakes
      <3> QED BY <1>6, <3>1, <3>2 DEF CycleFlush
    <2>2. /\ pending' \subseteq Keys /\ chain' \in Seq(Batches)
          /\ Len(chain') \in Nat /\ Len(chain) =< Len(chain') /\ timer' \in BOOLEAN
      BY <2>1, FlushTypes
    <2>3. WaitType'
      <3>1. job' = NoJob /\ NoJob.step # "flush" /\ wait' = Len(chain')
        BY <1>6 DEF CycleFlush, NoJob
      <3> QED BY <1>0, <2>2, <3>1 DEF WaitType, Jobs
    <2>4. StoreType'
      BY <1>0, <1>6, <2>2 DEF CycleFlush, StoreType
    <2>5. CycleType' /\ RestType' /\ credit' \in [Keys -> Nat]
      BY <1>0, <1>6 DEF CycleFlush, CycleType, RestType
    <2> QED BY <2>3, <2>4, <2>5
  <1>7. CASE CycleAborts
    BY <1>0, <1>7 DEF CycleAborts, StoreType, WaitType, CycleType, RestType, store, history
  <1>8. CASE WriteTimerFires
    <2>1. Took(pending) /\ timer' = FALSE
      BY <1>8, TakeAllTakes DEF WriteTimerFires
    <2>2. /\ pending' \subseteq Keys /\ chain' \in Seq(Batches)
          /\ Len(chain') \in Nat /\ Len(chain) =< Len(chain')
      BY <2>1, FlushTypes
    <2>3. WaitType'
      <3>1. UNCHANGED <<job, wait>>
        BY <1>8 DEF WriteTimerFires
      <3>2. job.step = "flush" => job.waits \in Nat
        BY <1>0, JobKinds DEF WaitType, Flushing
      <3> QED BY <1>0, <2>2, <3>1, <3>2 DEF WaitType
    <2> QED BY <1>0, <1>8, <2>1, <2>2, <2>3 DEF WriteTimerFires, StoreType, CycleType, RestType, history
  <1>9. CASE WriteOk
    <2>1. WaitType' /\ chain' \in Seq(Batches) /\ Head(chain) \in Batches
      BY <1>0, <1>9, SettledTypes, HeadSettled DEF WriteOk, StoreType
    <2>2. StoreType'
      BY <1>0, <1>9, <2>1 DEF WriteOk, StoreType, Batches
    <2> QED BY <1>0, <1>9, <2>1, <2>2 DEF WriteOk, CycleType, RestType, history
  <1>10. CASE WriteFails
    <2>1. WaitType' /\ chain' \in Seq(Batches) /\ Head(chain) \in Batches
      BY <1>0, <1>10, SettledTypes, HeadSettled DEF WriteFails, StoreType
    <2>2. timer' \in BOOLEAN
      BY <1>10, Zenon DEF WriteFails, RetryTimer
    <2>3. StoreType'
      BY <1>0, <1>10, <2>1, <2>2 DEF WriteFails, Requeued, StoreType, Batches
    <2>4. failures' \in 0 .. MaxFailures
      BY <1>0, <1>10 DEF WriteFails, RestType
    <2> QED BY <1>0, <1>10, <2>1, <2>3, <2>4 DEF WriteFails, CycleType, RestType, history
  <1>11. CASE Shutdown
    BY <1>0, <1>11 DEF Shutdown, StoreType, WaitType, CycleType, RestType, store, history
  <1>12. CASE FinalFlush
    <2>1. Took(pending) /\ timer' = FALSE
      BY <1>12, TakeAllTakes DEF FinalFlush, FinalTake
    <2>2. /\ pending' \subseteq Keys /\ chain' \in Seq(Batches)
          /\ Len(chain') \in Nat /\ Len(chain) =< Len(chain')
      BY <2>1, FlushTypes
    <2>3. job.step = "flush" => job.waits \in Nat
      BY <1>0, JobKinds DEF WaitType, Flushing
    <2>4. WaitType'
      BY <1>0, <1>12, <2>2, <2>3 DEF FinalFlush, WaitType
    <2>5. StoreType'
      BY <1>0, <1>12, <2>1, <2>2 DEF FinalFlush, StoreType
    <2>6. CycleType' /\ credit' \in [Keys -> Nat]
      BY <1>0, <1>12 DEF FinalFlush, CycleType
    <2>7. RestType'
      BY <1>0, <1>12 DEF FinalFlush, RestType
    <2> QED BY <2>4, <2>5, <2>6, <2>7
  <1>13. CASE Exit
    BY <1>0, <1>13 DEF Exit, StoreType, WaitType, CycleType, RestType, store, history
  <1>14. CASE Restart
    <2>1. chain' \in Seq(Batches) /\ Len(chain') = 0
      BY <1>14 DEF Restart
    <2>2. WaitType'
      BY <1>14, <2>1 DEF Restart, WaitType, Jobs, NoJob
    <2>3. StoreType' /\ CycleType'
      BY <1>0, <1>14, <2>1 DEF Restart, StoreType, CycleType
    <2>4. RestType' /\ credit' \in [Keys -> Nat]
      BY <1>0, <1>14 DEF Restart, RestType
    <2> QED BY <2>2, <2>3, <2>4
  <1> QED
    BY <1>1, <1>2, <1>3, <1>4, <1>5, <1>6, <1>7, <1>8, <1>9, <1>10, <1>11, <1>12, <1>13, <1>14
       DEF Next, TypeOK, StoreType, WaitType, CycleType, RestType, Batches

-----------------------------------------------------------------------------
\* Only a rollback and a restart take a key out of the record.
LEMMA RecordedKept ==
    ASSUME TypeOK, Next
    PROVE  Recorded \subseteq Recorded' \/ Rollback \/ Restart
  <1>1. ASSUME UNCHANGED <<disk, pending, chain>> PROVE Recorded' = Recorded
    BY <1>1 DEF Recorded, InChain
  <1>2. ASSUME NEW ks, ks \subseteq pending, Took(ks), disk' = disk PROVE Recorded' = Recorded
    BY <1>2 DEF Took, Recorded
  <1>3. ASSUME TakeAll, disk' = disk PROVE Recorded' = Recorded
    BY <1>2, <1>3, TakeAllTakes
  <1>4. ASSUME chain # <<>>, chain' = Tail(chain) PROVE InChain = Head(chain) \cup InChain'
    BY <1>4, HeadSettled, TypeParts DEF StoreType
  <1>5. ASSUME NEW k \in Keys, NEW m \in Modes, Process(k, m) PROVE Recorded \subseteq Recorded'
    <2>1. InChain' = InChain
      BY <1>5 DEF Process, InChain
    <2> QED BY <1>5, <2>1 DEF Process, Recorded
  <1>6. CASE Apply
    <2>1. CASE job.mode = "batched"
      BY <1>1, <1>6, <2>1 DEF Apply
    <2>2. CASE job.mode # "batched"
      BY <1>3, <1>6, <2>2 DEF Apply
    <2> QED BY <2>1, <2>2
  <1>7. CASE ApplyFails \/ FinishJob \/ CycleAborts \/ Shutdown \/ Exit
    <2>1. UNCHANGED <<disk, pending, chain>>
      BY <1>7 DEF ApplyFails, FinishJob, CycleAborts, Shutdown, Exit, store
    <2> QED BY <1>1, <2>1
  <1>8. CASE CycleFlush
    <2>1. CASE TakeKeys(cycle)
      BY <1>2, <1>8, <2>1, TakeKeysTakes DEF CycleFlush
    <2>2. CASE TakeAll
      BY <1>3, <1>8, <2>2 DEF CycleFlush
    <2> QED BY <1>8, <2>1, <2>2 DEF CycleFlush
  <1>9. CASE WriteTimerFires \/ FinalFlush
    BY <1>3, <1>9 DEF WriteTimerFires, FinalFlush, FinalTake
  <1>10. CASE WriteOk
    BY <1>4, <1>10 DEF WriteOk, Recorded
  <1>11. CASE WriteFails
    BY <1>4, <1>11 DEF WriteFails, Requeued, Recorded
  <1> QED BY <1>5, <1>6, <1>7, <1>8, <1>9, <1>10, <1>11 DEF Next

\* The disk forgets nothing.
LEMMA DiskKept == ASSUME Next PROVE disk \subseteq disk'
  BY DEF Next, Process, Apply, ApplyFails, FinishJob, Rollback, CycleFlush, CycleAborts,
         WriteTimerFires, WriteOk, WriteFails, Shutdown, FinalFlush, Exit, Restart, store

\* Steps that leave the call (but for its wait), the credits and the processed keys alone.
BesideTheCall ==
    /\ job'.step = job.step /\ (job.step # "none" => job'.key = job.key)
    /\ credit' = credit /\ tracker' = tracker

LEMMA BesideSteps ==
    ASSUME TypeOK, \/ CycleFlush \/ CycleAborts \/ WriteTimerFires \/ WriteOk \/ WriteFails
                   \/ Shutdown \/ FinalFlush \/ Exit
    PROVE  BesideTheCall
  <1>1. CASE CycleFlush \/ CycleAborts \/ WriteTimerFires \/ Shutdown \/ FinalFlush \/ Exit
    BY <1>1 DEF BesideTheCall, CycleFlush, CycleAborts, WriteTimerFires, Shutdown, FinalFlush, Exit, store
  <1>2. CASE WriteOk \/ WriteFails
    <2>1. job \in Jobs /\ credit' = credit /\ tracker' = tracker
      BY <1>2, TypeParts DEF WaitType, WriteOk, WriteFails
    <2>2. job'.step = job.step /\ (job.step # "none" => job'.key = job.key)
      BY <1>2, <2>1, JobSettles DEF WriteOk, WriteFails
    <2> QED BY <2>1, <2>2 DEF BesideTheCall
  <1> QED BY <1>1, <1>2

\* Every step keeps what is known of the credits.
LEMMA CreditsStep ==
    ASSUME TypeOK, Credits, Next
    PROVE  Credits'
  <1>0. /\ JobKeyOK /\ IdleUncredited /\ CreditedOnce /\ NothingForgotten
        /\ job \in Jobs /\ credit \in [Keys -> Nat] /\ disk \subseteq disk'
        /\ Recorded \subseteq Recorded' \/ Rollback \/ Restart
    BY TypeParts, RecordedKept, DiskKept DEF Credits, WaitType
  <1>1. \A k \in Keys : credit[k] > 0 => k \in Recorded
    BY <1>0 DEF NothingForgotten, Recorded
  <1>2. ASSUME BesideTheCall, ~Rollback, ~Restart PROVE Credits'
    <2>1. Recorded \subseteq Recorded'
      BY <1>0, <1>2
    <2>2. job.step \in {"none", "apply", "flush"}
      BY <1>0, JobKinds
    <2>3. JobKeyOK'
      BY <1>0, <1>2, <2>1, <2>2 DEF BesideTheCall, JobKeyOK
    <2>4. IdleUncredited' /\ CreditedOnce'
      BY <1>0, <1>2, <2>2 DEF BesideTheCall, IdleUncredited, CreditedOnce
    <2>5. NothingForgotten'
      BY <1>1, <1>2, <2>1 DEF BesideTheCall, NothingForgotten, Recorded
    <2> QED BY <2>3, <2>4, <2>5 DEF Credits
  <1>3. ASSUME NEW k \in Keys, NEW m \in Modes, Process(k, m) PROVE Credits'
    <2>1. /\ job = NoJob /\ NoJob.step = "none" /\ k \notin tracker
          /\ job' = [step |-> "apply", key |-> k, mode |-> m]
          /\ credit' = credit /\ tracker' = tracker /\ pending' = pending \cup {k}
          /\ disk' = disk /\ chain' = chain
      BY <1>3 DEF Process, IsNew, NoJob
    <2>2. k \in Recorded' /\ Recorded \subseteq Recorded'
      BY <2>1 DEF Recorded, InChain
    <2>3. JobKeyOK'
      BY <1>0, <2>1, <2>2 DEF JobKeyOK, IdleUncredited
    <2>4. IdleUncredited' /\ CreditedOnce'
      BY <1>0, <2>1 DEF IdleUncredited, CreditedOnce
    <2>5. NothingForgotten'
      BY <1>1, <2>1, <2>2 DEF NothingForgotten, Recorded
    <2> QED BY <2>3, <2>4, <2>5 DEF Credits
  <1>4. CASE Apply
    <2>1. /\ job.step = "apply" /\ job.key \in Keys /\ job.key \notin tracker
          /\ credit[job.key] = 0 /\ job.key \in Recorded
          /\ credit' = [credit EXCEPT ![job.key] = 1]
      <3>1. job \in [step : {"apply"}, key : Keys, mode : Modes]
        BY <1>0, <1>4, JobKinds DEF Apply
      <3>2. /\ job.key \in Keys /\ job.key \notin tracker
            /\ credit[job.key] = 0 /\ job.key \in Recorded
        BY <1>0, <3>1 DEF JobKeyOK
      <3>3. credit' = [credit EXCEPT ![job.key] = credit[job.key] + 1]
        BY <1>4 DEF Apply
      <3> QED BY <3>1, <3>2, <3>3
    <2>2. Recorded \subseteq Recorded'
      BY <1>0, <1>4, <2>1 DEF Rollback, Restart, Apply
    <2>3. NothingForgotten'
      BY <1>0, <1>1, <2>1, <2>2 DEF NothingForgotten, Recorded
    <2>4. CASE job.mode = "batched"
      <3>1. tracker' = tracker \cup {job.key} /\ job' = NoJob /\ NoJob.step = "none"
        BY <1>4, <2>4 DEF Apply, Succeeds, NoJob
      <3>2. JobKeyOK' /\ IdleUncredited' /\ CreditedOnce'
        BY <1>0, <2>1, <3>1 DEF JobKeyOK, IdleUncredited, CreditedOnce
      <3> QED BY <2>3, <3>2 DEF Credits
    <2>5. CASE job.mode # "batched"
      <3>1. tracker' = tracker /\ job'.step = "flush" /\ job'.key = job.key
        BY <1>4, <2>5 DEF Apply
      <3>2. JobKeyOK'
        BY <1>0, <2>1, <2>2, <3>1 DEF JobKeyOK
      <3>3. IdleUncredited' /\ CreditedOnce'
        BY <1>0, <2>1, <3>1 DEF IdleUncredited, CreditedOnce
      <3> QED BY <2>3, <3>2, <3>3 DEF Credits
    <2> QED BY <2>4, <2>5
  <1>5. CASE ApplyFails
    <2>1. /\ job.step = "apply" /\ job' = NoJob /\ NoJob.step = "none"
          /\ UNCHANGED <<credit, tracker, disk, pending, chain>>
      BY <1>5 DEF ApplyFails, store, NoJob
    <2>2. Recorded' = Recorded
      BY <2>1 DEF Recorded, InChain
    <2>3. JobKeyOK' /\ IdleUncredited' /\ CreditedOnce'
      BY <1>0, <2>1 DEF JobKeyOK, IdleUncredited, CreditedOnce
    <2>4. NothingForgotten'
      BY <1>1, <2>1, <2>2 DEF NothingForgotten, Recorded
    <2> QED BY <2>3, <2>4 DEF Credits
  <1>6. CASE FinishJob
    <2>1. /\ job.step = "flush" /\ job' = NoJob /\ NoJob.step = "none"
          /\ tracker' = tracker \cup {job.key} /\ credit[job.key] = 1
          /\ UNCHANGED <<credit, disk, pending, chain>>
      BY <1>0, <1>6 DEF FinishJob, Succeeds, NoJob, JobKeyOK
    <2>2. Recorded' = Recorded
      BY <2>1 DEF Recorded, InChain
    <2>3. JobKeyOK' /\ IdleUncredited' /\ CreditedOnce'
      BY <1>0, <2>1 DEF JobKeyOK, IdleUncredited, CreditedOnce
    <2>4. NothingForgotten'
      BY <1>1, <2>1, <2>2 DEF NothingForgotten, Recorded
    <2> QED BY <2>3, <2>4 DEF Credits
  <1>7. CASE Rollback
    <2>1. job \in Flushing
      BY <1>0, <1>7, JobKinds DEF Rollback
    <2>2. /\ job.step = "flush" /\ job' = NoJob /\ NoJob.step = "none"
          /\ credit[job.key] = 1 /\ job.key \notin tracker /\ job.key \in Keys
          /\ credit' = [credit EXCEPT ![job.key] = 0]
          /\ tracker' = tracker /\ pending' = pending \ {job.key}
          /\ disk' = disk /\ chain' = chain
      <3>1. job.key \in Keys /\ job.step = "flush"
        BY <2>1 DEF Flushing
      <3>2. credit[job.key] = 1 /\ job.key \notin tracker
        BY <1>0, <3>1 DEF JobKeyOK
      <3>3. credit' = [credit EXCEPT ![job.key] = credit[job.key] - 1]
        BY <1>7 DEF Rollback, CreditTakenBack
      <3> QED BY <1>7, <3>1, <3>2, <3>3 DEF Rollback, NoJob
    <2>3. Recorded \ {job.key} \subseteq Recorded'
      BY <2>2 DEF Recorded, InChain
    <2>4. JobKeyOK' /\ IdleUncredited'
      BY <1>0, <2>2 DEF JobKeyOK, IdleUncredited
    <2>5. CreditedOnce'
      BY <1>0, <2>2 DEF CreditedOnce
    <2>6. NothingForgotten'
      BY <1>0, <1>1, <2>2, <2>3 DEF NothingForgotten, Recorded
    <2> QED BY <2>4, <2>5, <2>6 DEF Credits
  <1>8. CASE Restart
    <2>1. /\ job' = NoJob /\ NoJob.step = "none" /\ tracker' = disk /\ disk' = disk
          /\ \A k \in Keys : credit'[k] = 0
      BY <1>8 DEF Restart, NoJob
    <2>2. tracker' \subseteq Keys
      BY <2>1, TypeParts DEF StoreType
    <2> QED BY <2>1, <2>2 DEF Credits, JobKeyOK, IdleUncredited, CreditedOnce, NothingForgotten
  <1>9. CASE Rollback \/ Restart
    BY <1>7, <1>8, <1>9
  <1>10. CASE \/ CycleFlush \/ CycleAborts \/ WriteTimerFires \/ WriteOk \/ WriteFails
              \/ Shutdown \/ FinalFlush \/ Exit
    <2>1. BesideTheCall
      BY <1>10, BesideSteps
    <2> QED BY <1>2, <1>9, <2>1
  <1> QED BY <1>3, <1>4, <1>5, <1>6, <1>9, <1>10 DEF Next

-----------------------------------------------------------------------------
\* Every step keeps a timer for what a closed cycle has still queued.
LEMMA RetryStep ==
    ASSUME TypeOK, RetryArmed, Next
    PROVE  RetryArmed'
  <1>0. closed \subseteq tracker /\ cycle \subseteq tracker
    BY TypeParts DEF CycleType
  <1>1. ASSUME pending' = {} PROVE RetryArmed'
    BY <1>1 DEF RetryArmed
  <1>2. ASSUME NEW k \in Keys, NEW m \in Modes, Process(k, m) PROVE RetryArmed'
    BY <1>0, <1>2 DEF Process, IsNew, RetryArmed, down, history
  <1>3. CASE Apply
    <2>1. CASE job.mode = "batched"
      BY <1>3, <2>1 DEF Apply, RetryArmed, down, history
    <2>2. CASE job.mode # "batched"
      BY <1>1, <1>3, <2>2 DEF Apply, TakeAll
    <2> QED BY <2>1, <2>2
  <1>4. CASE ApplyFails \/ FinishJob \/ Rollback \/ CycleAborts
    BY <1>4 DEF ApplyFails, FinishJob, Rollback, CycleAborts, RetryArmed, down, store, history
  <1>5. CASE CycleFlush
    <2>1. CASE TakeKeys(cycle)
      BY <1>5, <2>1 DEF CycleFlush, TakeKeys, RetryArmed, down
    <2>2. CASE TakeAll
      BY <1>1, <2>2 DEF TakeAll
    <2> QED BY <1>5, <2>1, <2>2 DEF CycleFlush
  <1>6. CASE WriteTimerFires \/ FinalFlush
    BY <1>1, <1>6 DEF WriteTimerFires, FinalFlush, FinalTake, TakeAll
  <1>7. CASE WriteOk
    BY <1>7 DEF WriteOk, RetryArmed, down, history
  <1>8. CASE WriteFails
    <2>1. timer' \/ down'
      BY <1>8 DEF WriteFails, RetryTimer, down
    <2> QED BY <2>1 DEF RetryArmed
  <1>9. CASE Shutdown \/ Exit \/ Restart
    BY <1>9 DEF Shutdown, Exit, Restart, RetryArmed, down, store, history
  <1> QED BY <1>2, <1>3, <1>4, <1>5, <1>6, <1>7, <1>8, <1>9 DEF Next

\* What the final flush waits for is not touched by batches appended to the chain.
LEMMA CoversMore ==
    ASSUME TypeOK, Final, NEW ks, Took(ks),
           UNCHANGED <<disk, wait, phase, failures, must>>
    PROVE  Final'
  <1>1. wait \in Nat /\ Len(chain) \in Nat /\ wait =< Len(chain)
    <2>1. chain \in Seq(Batches) /\ wait \in 0 .. Len(chain)
      BY TypeParts DEF StoreType, WaitType
    <2> QED BY <2>1
  <1>2. \A i \in 1 .. wait : chain'[i] = chain[i]
    BY <1>1 DEF Took
  <1> QED BY <1>2 DEF Final, FinalFlushCovers, ExitWaitsNot

\* Every step keeps the cover of the final flush.
LEMMA FinalStep ==
    ASSUME TypeOK, Credits, Final, Next
    PROVE  Final'
  <1>0. /\ chain \in Seq(Batches) /\ Len(chain) \in Nat
        /\ wait \in Nat /\ wait =< Len(chain) /\ failures \in Nat
    <2>1. chain \in Seq(Batches) /\ wait \in 0 .. Len(chain) /\ failures \in 0 .. MaxFailures
      BY TypeParts DEF StoreType, WaitType, RestType
    <2> QED BY <2>1
  <1>1. ASSUME UNCHANGED <<disk, chain, wait, phase, failures, must>> PROVE Final'
    BY <1>1 DEF Final, FinalFlushCovers, ExitWaitsNot
  <1>2. ASSUME phase' \notin {"flushing", "exited"} PROVE Final'
    BY <1>2 DEF Final, FinalFlushCovers, ExitWaitsNot
  <1>3. ASSUME NEW k \in Keys, NEW m \in Modes, Process(k, m) PROVE Final'
    BY <1>1, <1>3 DEF Process, history
  <1>4. CASE Apply
    <2>1. CASE job.mode = "batched"
      BY <1>1, <1>4, <2>1 DEF Apply, history
    <2>2. CASE job.mode # "batched"
      BY <1>4, <2>2, TakeAllTakes, CoversMore DEF Apply, history
    <2> QED BY <2>1, <2>2
  <1>5. CASE ApplyFails \/ FinishJob \/ Rollback \/ CycleAborts
    BY <1>1, <1>5 DEF ApplyFails, FinishJob, Rollback, CycleAborts, store, history
  <1>6. CASE CycleFlush
    BY <1>2, <1>6 DEF CycleFlush, Running
  <1>7. CASE WriteTimerFires
    BY <1>7, TakeAllTakes, CoversMore DEF WriteTimerFires, history
  <1>8. CASE WriteOk
    <2>1. /\ Len(chain) # 0 /\ Head(chain) = chain[1]
          /\ \A i \in 1 .. (Len(chain) - 1) : chain'[i] = chain[i + 1]
      BY <1>0, <1>8, HeadSettled DEF WriteOk
    <2>2. /\ disk' = disk \cup chain[1] /\ wait' = Settled(wait)
          /\ phase' = phase /\ failures' = failures /\ must' = must
      BY <1>8, <2>1 DEF WriteOk, history
    <2>3. ASSUME NEW k, k \in disk \/ \E i \in 1 .. wait : k \in chain[i]
          PROVE  k \in disk' \/ \E i \in 1 .. wait' : k \in chain'[i]
      <3>1. CASE k \in disk
        BY <2>2, <3>1
      <3>2. ASSUME NEW i \in 1 .. wait, k \in chain[i]
            PROVE  k \in disk' \/ \E j \in 1 .. wait' : k \in chain'[j]
        <4>1. CASE i = 1
          BY <2>2, <3>2, <4>1
        <4>2. CASE i # 1
          <5>1. wait' = wait - 1 /\ i - 1 \in 1 .. (wait - 1) /\ i - 1 \in 1 .. (Len(chain) - 1)
                /\ (i - 1) + 1 = i
            BY <1>0, <2>2, <4>2 DEF Settled
          <5> QED BY <2>1, <3>2, <5>1
        <4> QED BY <4>1, <4>2
      <3> QED BY <2>3, <3>1, <3>2
    <2>4. FinalFlushCovers'
      BY <2>2, <2>3 DEF Final, FinalFlushCovers
    <2>5. ExitWaitsNot'
      BY <2>2, <1>8 DEF Final, ExitWaitsNot, WriteOk, Running
    <2> QED BY <2>4, <2>5 DEF Final
  <1>9. CASE WriteFails
    <2>1. failures' # 0 /\ phase' = phase /\ phase # "exited"
      BY <1>0, <1>9 DEF WriteFails, Running
    <2> QED BY <2>1 DEF Final, FinalFlushCovers, ExitWaitsNot
  <1>10. CASE Shutdown \/ Restart
    BY <1>2, <1>10 DEF Shutdown, Restart
  <1>11. CASE FinalFlush
    <2>1. /\ Took(pending) /\ pending' = {}
          /\ wait' = Len(chain') /\ must' = {k \in Keys : credit[k] > 0}
          /\ disk' = disk /\ phase' = "flushing"
      BY <1>11, TakeAllTakes DEF FinalFlush, FinalTake
    <2>2. DOMAIN chain' = 1 .. Len(chain')
      BY <2>1 DEF Took
    <2>3. \A k \in must' : k \in disk' \cup InChain'
      BY <2>1 DEF Took, Credits, NothingForgotten
    <2>4. FinalFlushCovers'
      BY <2>1, <2>2, <2>3 DEF FinalFlushCovers, InChain
    <2> QED BY <2>1, <2>4 DEF Final, ExitWaitsNot
  <1>12. CASE Exit
    <2>1. /\ phase = "flushing" /\ wait = 0
          /\ UNCHANGED <<disk, chain, wait, failures, must>>
      BY <1>12 DEF Exit, store, history
    <2> QED BY <2>1 DEF Final, FinalFlushCovers, ExitWaitsNot
  <1> QED
    BY <1>3, <1>4, <1>5, <1>6, <1>7, <1>8, <1>9, <1>10, <1>11, <1>12 DEF Next

-----------------------------------------------------------------------------
LEMMA Initially == Init => IInv
  <1> SUFFICES ASSUME Init PROVE IInv
    OBVIOUS
  <1> USE StoreAssumption
  <1>1. chain = <<>> /\ chain \in Seq((SUBSET Keys) \ {{}}) /\ Len(chain) = 0
    BY DEF Init
  <1>2. TypeOK
    <2>1. StoreType /\ CycleType
      BY <1>1 DEF Init, StoreType, CycleType, Batches
    <2>2. WaitType
      BY <1>1 DEF Init, WaitType, Jobs, NoJob
    <2>3. RestType /\ credit \in [Keys -> Nat]
      BY DEF Init, RestType
    <2> QED BY <2>1, <2>2, <2>3, TypeParts
  <1>3. Credits
    BY DEF Init, Credits, JobKeyOK, IdleUncredited, CreditedOnce, NothingForgotten, NoJob
  <1>4. RetryArmed /\ Final
    BY DEF Init, RetryArmed, Final, FinalFlushCovers, ExitWaitsNot
  <1> QED BY <1>2, <1>3, <1>4 DEF IInv

LEMMA Inductive == IInv /\ [Next]_vars => IInv'
  <1> SUFFICES ASSUME IInv, [Next]_vars PROVE IInv'
    OBVIOUS
  <1>1. CASE Next
    BY <1>1, TypeStep, CreditsStep, RetryStep, FinalStep DEF IInv, Credits
  <1>2. CASE UNCHANGED vars
    BY <1>2 DEF IInv, vars, store, history, TypeOK, Credits, JobKeyOK, IdleUncredited,
       CreditedOnce, NothingForgotten, Recorded, InChain, RetryArmed, down, Final,
       FinalFlushCovers, ExitWaitsNot
  <1> QED BY <1>1, <1>2

\* The conjunction of the parts is an invariant of every behaviour.
THEOREM RecordInvariant == Spec => []IInv
  BY Initially, Inductive, PTL DEF Spec

\* The types: in particular no credit is ever taken back twice, and no call waits for
\* more batches than are chained.
THEOREM RecordTypes == Spec => []TypeOK
  <1>1. IInv => TypeOK
    BY DEF IInv
  <1> QED BY <1>1, RecordInvariant, PTL

\* A credited fill is on disk, queued or being written, whatever writes failed.
THEOREM NoCreditForgotten == Spec => []NothingForgotten
  <1>1. IInv => NothingForgotten
    BY DEF IInv, Credits
  <1> QED BY <1>1, RecordInvariant, PTL

\* No fill is credited twice in a life.
THEOREM NoDoubleCredit == Spec => []CreditedOnce
  <1>1. IInv => CreditedOnce
    BY DEF IInv, Credits
  <1> QED BY <1>1, RecordInvariant, PTL

\* What a closed cycle left queued has a timer.
THEOREM RetryAlwaysArmed == Spec => []RetryArmed
  <1>1. IInv => RetryArmed
    BY DEF IInv
  <1> QED BY <1>1, RecordInvariant, PTL

\* A graceful exit whose last writes succeeded leaves every credit on disk.
THEOREM GracefulExitKeeps == Spec => []ExitKeepsCredits
  <1>1. IInv => ExitKeepsCredits
    BY DEF IInv, Final, FinalFlushCovers, ExitWaitsNot, ExitKeepsCredits
  <1> QED BY <1>1, RecordInvariant, PTL

-----------------------------------------------------------------------------
\* FillFeed.
Scans(h) == [on : BOOLEAN, from : 0 .. h, back : BOOLEAN, low : 0 .. h]

\* What is given was on chain, and neither the cursor nor a scan is ahead of the chain.
FeedTypes ==
    /\ head \in Ops /\ fills \subseteq 1 .. head /\ given \subseteq fills
    /\ cursor \in 0 .. head /\ gap \in BOOLEAN
    /\ scan \in [Callers -> Scans(head)]

\* The fills that must still come.
Unexcused == Missing \ (cutOff \cup turnedAway)

\* A scan that starts at the cursor was begun when none of them was below the cursor, and a
\* fill that gets on chain later is above it.
ScansCover ==
    \A c \in Callers : scan[c].on /\ ~scan[c].back =>
        \A i \in Unexcused : i > scan[c].from

\* What a step must do for no fill to be added to them.
Given == given \subseteq given' /\ cutOff \subseteq cutOff' /\ turnedAway \subseteq turnedAway'
LEMMA FewerMissing == ASSUME UNCHANGED chainVars, Given PROVE Unexcused' \subseteq Unexcused
  BY DEF Given, Unexcused, Missing, chainVars

\* A scan asks for the history when there is at least one operation.
ScansSee == \A c \in Callers : scan[c].on => 1 <= scan[c].low

FeedIInv == FeedTypes /\ ScansSee /\ ScansCover /\ NothingSkipped

\* A scan that has ended does not count.
LEMMA ScanEnds ==
    ASSUME NEW h \in Nat, scan \in [Callers -> Scans(h)], NEW c \in Callers,
           scan' = [scan EXCEPT ![c] = None]
    PROVE  /\ scan' \in [Callers -> Scans(h)]
           /\ \A d \in Callers : scan'[d].on => scan'[d] = scan[d]
  BY DEF Scans, None

\* All scans end with the connection.
LEMMA ScansEnd ==
    ASSUME NEW h \in Nat, scan' = [c \in Callers |-> None]
    PROVE  /\ scan' \in [Callers -> Scans(h)]
           /\ \A d \in Callers : scan'[d].on => scan'[d] = scan[d]
  BY DEF Scans, None

\* The record a scan begins with.
LEMMA ScanBegins ==
    ASSUME NEW h \in Nat, scan \in [Callers -> Scans(h)], NEW c \in Callers,
           NEW x \in 0 .. h, NEW b \in BOOLEAN,
           scan' = [scan EXCEPT ![c] = [on |-> TRUE, from |-> x, back |-> b, low |-> h]]
    PROVE  /\ scan' \in [Callers -> Scans(h)]
           /\ scan'[c] = [on |-> TRUE, from |-> x, back |-> b, low |-> h]
           /\ \A d \in Callers \ {c} : scan'[d] = scan[d]
  BY DEF Scans

\* The feed starts with its cursor below the only operation.
LEMMA FeedStarts == ASSUME FeedInit PROVE FeedIInv
  <1>1. scan \in [Callers -> Scans(head)] /\ \A c \in Callers : ~scan[c].on
    BY DEF FeedInit, Scans, None
  <1>2. head \in Ops /\ cursor \in 0 .. head /\ fills \subseteq 1 .. head /\ given \subseteq fills
    BY FeedAssumption DEF FeedInit, Ops
  <1>3. gap \in BOOLEAN
    BY DEF FeedInit
  <1>4. ScansSee /\ ScansCover /\ NothingSkipped
    BY <1>1 DEF FeedInit, ScansSee, ScansCover, NothingSkipped, Missing
  <1> QED
    BY <1>1, <1>2, <1>3, <1>4 DEF FeedIInv, FeedTypes

\* An operation that gets on chain is above the cursor and above every scan's start.
LEMMA OperationKeeps == ASSUME FeedIInv, Operation PROVE FeedIInv'
  <1> USE FeedAssumption DEF Ops
  <1>1. head' = head + 1 /\ head' \in Ops /\ fills \subseteq fills'
        /\ fills' \subseteq fills \cup {head + 1}
    BY DEF Operation, FeedIInv, FeedTypes
  <1>2. UNCHANGED <<given, cursor, gap, lossVars, scan>>
    BY DEF Operation, cursorVars, scanVars
  <1>3. FeedTypes'
    <2>1. Scans(head) \subseteq Scans(head')
      BY <1>1 DEF FeedIInv, FeedTypes, Scans
    <2>2. scan' \in [Callers -> Scans(head')]
      BY <1>2, <2>1 DEF FeedIInv, FeedTypes
    <2> QED
      BY <1>1, <1>2, <2>2 DEF FeedIInv, FeedTypes
  <1>4. Unexcused' \subseteq Unexcused \cup {head + 1}
    BY <1>1, <1>2 DEF Unexcused, Missing, lossVars
  <1>5. ScansSee' /\ ScansCover'
    BY <1>1, <1>2, <1>4 DEF FeedIInv, FeedTypes, Scans, ScansSee, ScansCover
  <1>6. NothingSkipped'
    BY <1>1, <1>2, <1>4 DEF FeedIInv, FeedTypes, NothingSkipped, Unexcused
  <1> QED
    BY <1>3, <1>5, <1>6 DEF FeedIInv

\* A step that begins no scan and leaves the chain alone keeps what the scans cover.
LEMMA SameScans ==
    ASSUME FeedIInv, UNCHANGED chainVars, Given, given' \subseteq fills,
           cursor' \in 0 .. head, gap' \in BOOLEAN, scan' \in [Callers -> Scans(head)],
           \A c \in Callers : scan'[c].on => scan'[c] = scan[c]
    PROVE  FeedTypes' /\ ScansSee' /\ ScansCover'
  BY FewerMissing DEF FeedIInv, FeedTypes, ScansSee, ScansCover, chainVars

\* A step that neither moves the cursor nor lowers the flag passes over nothing.
LEMMA SameCursor ==
    ASSUME FeedIInv, UNCHANGED chainVars, Given, cursor' = cursor, gap => gap'
    PROVE  NothingSkipped'
  BY FewerMissing DEF FeedIInv, NothingSkipped, Unexcused

\* A notice moves the cursor to its last fill, and asks for a scan when it may have left
\* one out.
LEMMA NoticeKeeps == ASSUME FeedIInv, Notice PROVE FeedIInv'
  <1>1. PICK last \in {i \in fills : i > noticed} :
          \/ Refuses /\ UNCHANGED <<gap, busy, scanDue>>
          \/ (\E with \in SUBSET {i \in fills : noticed < i /\ i < last} : Takes(with \cup {last}))
             /\ Told(last)
    BY DEF Notice
  <1>2. UNCHANGED chainVars /\ UNCHANGED scan /\ UNCHANGED <<cutOff, turnedAway>>
    BY DEF Notice, lossVars
  <1>3. CASE Refuses /\ UNCHANGED <<gap, busy, scanDue>>
    <2>1. UNCHANGED <<given, cursor, gap>>
      BY <1>3 DEF Refuses
    <2> QED
      BY <1>2, <2>1, SameScans, SameCursor DEF FeedIInv, FeedTypes, Given
  <1>4. ASSUME NEW with \in SUBSET {i \in fills : noticed < i /\ i < last},
               Takes(with \cup {last}), Told(last)
        PROVE  FeedIInv'
    <2>1. given' = given \cup with \cup {last} /\ given' \subseteq fills
      BY <1>4, <1>1 DEF Takes, FeedIInv, FeedTypes
    <2>2. last \in fills /\ last \in 1 .. head
      BY <1>1 DEF FeedIInv, FeedTypes
    <2>3. cursor' \in 0 .. head
      BY <1>4, <2>2 DEF Told, FeedIInv, FeedTypes
    <2>4. gap' = TRUE \/ gap' = gap
      BY <1>4 DEF Told
    <2>5. gap' \in BOOLEAN
      BY <2>4 DEF FeedIInv, FeedTypes
    <2>6. FeedTypes' /\ ScansSee' /\ ScansCover'
      BY <1>2, <2>1, <2>3, <2>5, SameScans DEF FeedIInv, FeedTypes, Given
    <2>7. NothingSkipped'
      BY <1>2, <1>4, <2>1, <2>2, FeedAssumption
      DEF Told, Newer, Arms, FeedIInv, FeedTypes, NothingSkipped, Missing, chainVars, Ops
    <2> QED
      BY <2>6, <2>7 DEF FeedIInv
  <1> QED
    BY <1>1, <1>3, <1>4

\* A scan that begins reads the flag: without it nothing is missing below the cursor.
LEMMA BeginKeeps ==
    ASSUME FeedIInv, UNCHANGED <<chainVars, given, cursor, lossVars>>,
           gap => gap', gap' \in BOOLEAN,
           NEW c \in Callers, NEW b \in BOOLEAN, gap => b,
           scan' = [scan EXCEPT ![c] = [on |-> TRUE, from |-> cursor, back |-> b, low |-> head]]
    PROVE  FeedIInv'
  <1>1. head \in Nat /\ 1 <= head /\ cursor \in 0 .. head /\ scan \in [Callers -> Scans(head)]
    BY FeedAssumption DEF FeedIInv, FeedTypes, Ops
  <1>2. /\ scan' \in [Callers -> Scans(head)]
        /\ scan'[c] = [on |-> TRUE, from |-> cursor, back |-> b, low |-> head]
        /\ \A d \in Callers \ {c} : scan'[d] = scan[d]
    BY <1>1, ScanBegins
  <1>3. FeedTypes'
    BY <1>2 DEF FeedIInv, FeedTypes, chainVars
  <1>4. ScansSee'
    BY <1>1, <1>2 DEF FeedIInv, ScansSee
  <1>5. ~b => \A i \in Unexcused : i > cursor
    BY DEF FeedIInv, NothingSkipped, Unexcused
  <1>0. Given /\ UNCHANGED chainVars
    BY DEF Given, lossVars
  <1>6. ScansCover'
    BY <1>0, <1>2, <1>5, FewerMissing DEF FeedIInv, ScansCover
  <1>7. NothingSkipped'
    BY <1>0, SameCursor
  <1> QED
    BY <1>3, <1>4, <1>6, <1>7 DEF FeedIInv

\* A step that ends scans, and raises the flag or leaves it.
LEMMA EndKeeps ==
    ASSUME FeedIInv, UNCHANGED <<chainVars, given, cursor, lossVars>>,
           gap => gap', gap' \in BOOLEAN,
           scan' \in [Callers -> Scans(head)],
           \A c \in Callers : scan'[c].on => scan'[c] = scan[c]
    PROVE  FeedIInv'
  <1>0. Given /\ UNCHANGED chainVars
    BY DEF Given, lossVars
  <1>1. FeedTypes' /\ ScansSee' /\ ScansCover'
    BY <1>0, SameScans DEF FeedIInv, FeedTypes
  <1>2. NothingSkipped'
    BY <1>0, SameCursor
  <1> QED
    BY <1>1, <1>2 DEF FeedIInv

\* The fills of an answer: a scan that starts at the cursor gives everything up to the
\* newest entry, since nothing is missing below its start; one that starts below gives
\* everything there is; what the pages left out is excused.
LEMMA AnswerGives ==
    ASSUME FeedIInv, NEW c \in Callers, scan[c].on, NEW top \in scan[c].low .. head,
           NEW cut \in 0 .. MaxOp, NEW i \in Unexcused, i \notin Entries(scan[c], cut, top),
           ~(i \in Window(scan[c]) /\ i <= cut)
    PROVE  i > top
  <1>0. head \in Ops /\ i \in 1 .. head /\ scan[c] \in Scans(head)
    BY DEF FeedIInv, FeedTypes, Unexcused, Missing
  <1>1. i \in Ops /\ scan[c].from \in 0 .. head /\ top \in Nat /\ head \in Ops /\ cut \in Nat
    BY <1>0, FeedAssumption DEF Scans, Ops
  <1>2. CASE scan[c].back
    BY <1>1, <1>2, FeedAssumption DEF Entries, Window, Ops
  <1>3. CASE ~scan[c].back
    <2>1. i > scan[c].from
      BY <1>3 DEF FeedIInv, ScansCover
    <2> QED
      BY <1>1, <1>3, <2>1 DEF Entries, Window, Ops
  <1> QED
    BY <1>2, <1>3

\* An answer lowers the flag only when it had everything below its newest entry, or when
\* what it did not have is excused.
LEMMA AnswerKeeps ==
    ASSUME FeedIInv, NEW c \in Callers, Answer(c)
    PROVE  FeedIInv'
  <1>1. scan[c].on /\ gap' = FlagAfter(scan[c]) /\ UNCHANGED chainVars
    BY DEF Answer
  <1>2. /\ head \in Nat /\ 1 <= head /\ gap \in BOOLEAN /\ scan \in [Callers -> Scans(head)]
        /\ scan[c] \in Scans(head) /\ 1 <= scan[c].low
    BY <1>1, FeedAssumption DEF FeedIInv, FeedTypes, ScansSee, Ops
  <1>3. /\ scan' \in [Callers -> Scans(head)]
        /\ \A d \in Callers : scan'[d].on => scan'[d] = scan[d]
    <2>1. scan' = [scan EXCEPT ![c] = None]
      BY DEF Answer, Over
    <2> QED
      BY <1>2, <2>1, ScanEnds
  <1>4. gap' \in BOOLEAN
    BY <1>1, <1>2 DEF FlagAfter, Scans
  <1>5. PICK top \in scan[c].low .. head, cut \in 0 .. MaxOp :
          /\ cut < top
          /\ Accepted(c, cut, top) \/ Rejected(c, cut, top)
    <2>1. \A top \in scan[c].low .. head, cut \in 0 .. MaxOp : Fetched(cut, top) => cut < top
      BY <1>2 DEF Fetched, Scans
    <2> QED
      BY <2>1 DEF Answer
  <1> DEFINE entries == Entries(scan[c], cut, top)
  <1>6. entries \subseteq 1 .. top /\ top \in 1 .. head /\ cut \in Nat
    BY <1>2, FeedAssumption DEF Entries, Window, Scans, Ops
  <1>7. CASE Accepted(c, cut, top)
    <2>1. /\ given' = given \cup (entries \cap fills)
          /\ cursor' = IF entries = {} THEN cursor ELSE top
          /\ cutOff' = cutOff \cup {i \in Missing \cap Window(scan[c]) : i <= cut}
          /\ turnedAway' = turnedAway
      BY <1>7 DEF Accepted, Takes
    <2>0. Given /\ given' \subseteq fills
      BY <2>1 DEF FeedIInv, FeedTypes, Given
    <2>2. cursor' \in 0 .. head
      BY <1>2, <1>6, <2>1 DEF FeedIInv, FeedTypes
    <2>3. FeedTypes' /\ ScansSee' /\ ScansCover'
      BY <1>1, <1>3, <1>4, <2>0, <2>2, SameScans
    <2>4. ASSUME NEW i \in Unexcused' PROVE i > top
      <3>1. i \in Unexcused
        BY <1>1, <2>0, FewerMissing
      <3>2. i \notin entries /\ ~(i \in Window(scan[c]) /\ i <= cut)
        BY <1>1, <2>1, <3>1 DEF Unexcused, Missing, chainVars
      <3> QED
        BY <1>1, <3>1, <3>2, AnswerGives
    <2>5. CASE entries # {}
      <3>1. NothingSkipped'
        BY <2>1, <2>4, <2>5 DEF NothingSkipped, Unexcused
      <3> QED
        BY <2>3, <3>1 DEF FeedIInv
    <2>6. CASE entries = {}
      <3>1. ~scan[c].back
        <4>1. scan[c].from \in 0 .. head /\ head <= MaxOp /\ 1 <= top /\ top \in Nat
          BY <1>2, <1>6 DEF FeedIInv, FeedTypes, Scans, Ops
        <4>2. scan[c].back => top \in entries
          BY <1>2, <1>5, <1>6, <4>1, FeedAssumption DEF Entries, Window, Ops
        <4> QED
          BY <2>6, <4>2
      <3>2. gap' = gap
        BY <1>1, <1>2, <3>1 DEF FlagAfter
      <3>3. cursor' = cursor
        BY <2>1, <2>6
      <3>4. NothingSkipped'
        BY <1>1, <2>0, <3>2, <3>3, SameCursor
      <3> QED
        BY <2>3, <3>4 DEF FeedIInv
    <2> QED
      BY <2>5, <2>6
  <1>8. CASE Rejected(c, cut, top)
    <2>1. UNCHANGED <<given, cursor>> /\ cutOff' = cutOff
      BY <1>8 DEF Rejected, Refuses
    <2>2. turnedAway' = IF scan[c].back
                         THEN turnedAway \cup {i \in Missing : i <= cursor} ELSE turnedAway
      BY <1>8 DEF Rejected
    <2>3. CASE scan[c].back
      <3>1. Given /\ given' \subseteq fills /\ cursor' \in 0 .. head
        BY <2>1, <2>2 DEF Given, FeedIInv, FeedTypes
      <3>2. FeedTypes' /\ ScansSee' /\ ScansCover'
        BY <1>1, <1>3, <1>4, <3>1, SameScans
      <3>3. \A i \in Unexcused' : i \in 1 .. head /\ ~(i <= cursor)
        BY <1>1, <2>1, <2>2, <2>3 DEF Unexcused, Missing, chainVars, FeedIInv, FeedTypes
      <3>4. NothingSkipped'
        BY <1>2, <2>1, <3>3 DEF NothingSkipped, Unexcused, FeedIInv, FeedTypes
      <3> QED
        BY <3>2, <3>4 DEF FeedIInv
    <2>4. CASE ~scan[c].back
      <3>1. gap' = gap
        BY <1>1, <1>2, <2>4 DEF FlagAfter
      <3> QED
        BY <1>1, <1>3, <1>4, <2>1, <2>2, <2>4, <3>1, EndKeeps DEF lossVars
    <2> QED
      BY <2>3, <2>4
  <1> HIDE DEF entries
  <1> QED
    BY <1>5, <1>7, <1>8

\* Every step keeps the invariant.
LEMMA FeedStep == ASSUME FeedIInv, [FeedNext]_feedVars PROVE FeedIInv'
  <1>1. /\ head \in Nat /\ gap \in BOOLEAN /\ scan \in [Callers -> Scans(head)]
        /\ cursor \in 0 .. head
    BY FeedAssumption DEF FeedIInv, FeedTypes, Ops
  <1>2. CASE Operation
    BY <1>2, OperationKeeps
  <1>3. CASE Notice
    BY <1>3, NoticeKeeps
  <1>4. ASSUME UNCHANGED <<chainVars, given, cursor, lossVars, scan>>, gap' \in {gap, TRUE}
        PROVE  FeedIInv'
    BY <1>1, <1>4, EndKeeps
  <1>5. CASE Nudge \/ Reconnected \/ Retry \/ UNCHANGED feedVars
    <2>1. UNCHANGED <<chainVars, given, cursor, lossVars, scan, gap>>
      BY <1>5 DEF Nudge, Reconnected, Retry, feedVars, cursorVars, scanVars
    <2> QED
      BY <1>4, <2>1
  <1>6. ASSUME NEW c \in Callers, Start(c), UNCHANGED <<chainVars, cursorVars>> PROVE FeedIInv'
    BY <1>1, <1>6, BeginKeeps DEF Start, cursorVars
  <1>7. CASE TimerFires
    <2>1. CASE link
      BY <1>6, <1>7, <2>1 DEF TimerFires, Callers
    <2>2. CASE ~link
      BY <1>4, <1>7, <2>2 DEF TimerFires, cursorVars
    <2> QED
      BY <2>1, <2>2
  <1>8. CASE Poll
    BY <1>6, <1>8 DEF Poll, Callers
  <1>9. CASE Closed
    <2>1. UNCHANGED <<chainVars, given, cursor, lossVars>> /\ scan' = [c \in Callers |-> None]
          /\ \E asked \in BOOLEAN : gap' = (gap \/ ("all" \in joining /\ asked))
      BY <1>9 DEF Closed
    <2>2. (gap => gap') /\ gap' \in BOOLEAN
      BY <2>1
    <2> QED
      BY <1>1, <2>1, <2>2, ScansEnd, EndKeeps
  <1>10. ASSUME NEW c \in Callers, Answer(c) PROVE FeedIInv'
    BY <1>10, AnswerKeeps
  <1>11. ASSUME NEW c \in Callers, ScanFails(c) PROVE FeedIInv'
    <2>1. UNCHANGED <<chainVars, given, cursor, gap, lossVars>> /\ scan' = [scan EXCEPT ![c] = None]
      BY <1>11 DEF ScanFails, Over, cursorVars
    <2> QED
      BY <1>1, <2>1, ScanEnds, EndKeeps
  <1>12. ASSUME NEW c \in Callers, Joined(c) PROVE FeedIInv'
    BY <1>1, <1>12, BeginKeeps DEF Joined
  <1>13. ASSUME NEW c \in Callers, JoinFails(c) PROVE FeedIInv'
    <2>1. UNCHANGED <<chainVars, given, cursor, lossVars, scan>>
          /\ \E asked \in BOOLEAN : gap' = (gap \/ (asked /\ c = "all"))
      BY <1>13 DEF JoinFails, Fails, scanVars
    <2>2. gap' \in {gap, TRUE}
      BY <1>1, <2>1
    <2> QED
      BY <1>4, <2>1, <2>2
  <1> QED
    BY <1>2, <1>3, <1>5, <1>7, <1>8, <1>9, <1>10, <1>11, <1>12, <1>13 DEF FeedNext

\* For any number of operations, faults, refusals and scans that end early: a fill that no
\* callback took, and that neither such a scan left out nor a refused scan below the cursor
\* lost, is above the cursor or a scan below it is asked for (processObjects(),
\* handleNotice() and the resubscriptions of subscriptions.ts).
THEOREM FeedSkipsNothing == FeedSpec => []NothingSkipped
  <1>1. FeedInit => FeedIInv
    BY FeedStarts
  <1>2. FeedIInv /\ [FeedNext]_feedVars => FeedIInv'
    BY FeedStep
  <1>3. FeedIInv => NothingSkipped
    BY DEF FeedIInv
  <1> QED
    BY <1>1, <1>2, <1>3, PTL DEF FeedSpec
=============================================================================
