--------------------------- MODULE AsyncLockProofs ---------------------------
(***************************************************************************)
(* Safety of AsyncLock for any set of callers and any MaxGeneration.       *)
(* QueueInv, RunnerInv and UnlockerInv are inductive only together: who    *)
(* may open the lock (UnlockerInv) is what keeps the runner unique, and    *)
(* the runner is what the queued callers are told apart from (QueueInv).   *)
(***************************************************************************)
EXTENDS AsyncLock, SeqLemmas, TLAPS

QueueInv ==
    /\ \A i \in 1 .. Len(queue) : pc[queue[i]] = "queued"
    /\ \A i, j \in 1 .. Len(queue) : queue[i] = queue[j] => i = j
    /\ \A c \in Callers : pc[c] = "queued" => \E i \in 1 .. Len(queue) : queue[i] = c

RunnerInv ==
    /\ OneRunner
    /\ LockedIffRunning
    /\ ~locked => queue = <<>> /\ ~holding /\ ~orphaned

UnlockerInv ==
    /\ OneUnlocker
    /\ \A c \in Callers : pc[c] = "running" => myGen[c] =< generation

\* TypeOK without the variables that only guard actions.
LockType ==
    /\ queue \in Seq(Callers)
    /\ locked \in BOOLEAN /\ holding \in BOOLEAN /\ orphaned \in BOOLEAN
    /\ generation \in Nat
    /\ pc \in [Callers -> {"idle", "queued", "running", "nested"}]
    /\ myGen \in [Callers -> Nat]

LockInv == LockType /\ QueueInv /\ RunnerInv /\ UnlockerInv

IInv == TypeOK /\ QueueInv /\ RunnerInv /\ UnlockerInv

-----------------------------------------------------------------------------
(***************************************************************************)
(* _processQueue() on a lock nobody holds: it re-establishes every part of *)
(* the invariant, and whoever runs afterwards runs in the current          *)
(* generation.                                                             *)
(***************************************************************************)
LEMMA ProcessQueueOpensOrRuns ==
    ASSUME TypeOK,
           NEW q \in Seq(Callers),
           NEW pcq \in [Callers -> {"idle", "queued", "running", "nested"}],
           \A i \in 1 .. Len(q) : pcq[q[i]] = "queued",
           \A i, j \in 1 .. Len(q) : q[i] = q[j] => i = j,
           \A c \in Callers : pcq[c] = "queued" => \E i \in 1 .. Len(q) : q[i] = c,
           \A c \in Callers : pcq[c] # "running",
           ProcessQueue(q, pcq)
    PROVE  /\ queue' \in Seq(Callers)
           /\ locked' \in BOOLEAN /\ holding' \in BOOLEAN /\ generation' \in Nat
           /\ pc' \in [Callers -> {"idle", "queued", "running", "nested"}]
           /\ myGen' \in [Callers -> Nat]
           /\ QueueInv'
           /\ OneRunner' /\ LockedIffRunning'
           /\ ~locked' => queue' = <<>> /\ ~holding'
           /\ \A c \in Callers : pc'[c] = "running" => myGen'[c] = generation' /\ holding'
  <1>1. PICK k \in 0 .. Len(q) :
          \/ k = Len(q) /\ OpenLock(<<>>, Rejected(q, k, pcq))
          \/ k < Len(q) /\ RunItem(q, k + 1, Rejected(q, k, pcq))
    BY DEF ProcessQueue
  <1> DEFINE settled == {q[i] : i \in 1 .. k}
             rest == Rejected(q, k, pcq)
  <1>2. /\ rest \in [Callers -> {"idle", "queued", "running", "nested"}]
        /\ \A c \in Callers : rest[c] = IF c \in settled THEN "idle" ELSE pcq[c]
    BY DEF Rejected
  <1> HIDE DEF rest
  <1>3. CASE k = Len(q) /\ OpenLock(<<>>, rest)
    <2>0. /\ queue' = <<>> /\ locked' = FALSE /\ holding' = FALSE
          /\ pc' = rest /\ UNCHANGED <<generation, myGen>>
      BY <1>3 DEF OpenLock
    <2>1. \A c \in Callers : pc'[c] \notin {"running", "queued"}
      BY <1>2, <1>3, <2>0
    <2>2. QueueInv' /\ OneRunner' /\ LockedIffRunning'
      BY <2>0, <2>1 DEF QueueInv, OneRunner, LockedIffRunning
    <2>3. /\ queue' \in Seq(Callers) /\ generation' \in Nat /\ myGen' \in [Callers -> Nat]
          /\ pc' \in [Callers -> {"idle", "queued", "running", "nested"}]
      BY <1>2, <2>0 DEF TypeOK
    <2>4. locked' \in BOOLEAN /\ holding' \in BOOLEAN
      BY <2>0
    <2> QED  BY <2>0, <2>1, <2>2, <2>3, <2>4
  <1>4. CASE k < Len(q) /\ RunItem(q, k + 1, rest)
    <2>0. /\ k < Len(q) /\ queue' = SubSeq(q, (k + 1) + 1, Len(q)) /\ locked' = TRUE
          /\ holding' = TRUE /\ generation' = generation + 1
          /\ pc' = [rest EXCEPT ![q[k + 1]] = "running"]
          /\ myGen' = [myGen EXCEPT ![q[k + 1]] = generation + 1]
      BY <1>4 DEF RunItem, Bump
    <2> DEFINE r == q[k + 1]
    <2>1. r \in Callers /\ k + 1 \in 1 .. Len(q)
      BY <2>0
    <2>2. /\ queue' \in Seq(Callers) /\ Len(queue') = Len(q) - (k + 1)
          /\ \A i \in 1 .. (Len(q) - (k + 1)) : queue'[i] = q[k + 1 + i]
      BY <2>0, <2>1, Drop
    <2>3. pc'[r] = "running" /\ \A c \in Callers \ {r} : pc'[c] = rest[c]
      BY <1>2, <2>0, <2>1
    <2>4. \A c \in Callers : pc'[c] = "running" <=> c = r
      BY <1>2, <2>1, <2>3
    <2>5. \A i \in 1 .. Len(queue') : queue'[i] # r /\ queue'[i] \notin settled
      BY <2>1, <2>2, <2>0
    <2>6. ASSUME NEW i \in 1 .. Len(queue')
          PROVE  pc'[queue'[i]] = "queued"
      <3>1. queue'[i] \in Callers \ {r} /\ queue'[i] \notin settled
        BY <2>2, <2>5
      <3>2. queue'[i] = q[k + 1 + i] /\ k + 1 + i \in 1 .. Len(q)
        BY <2>2
      <3>3. rest[queue'[i]] = "queued"
        BY <1>2, <3>1, <3>2
      <3> QED  BY <2>3, <3>1, <3>3
    <2>7. \A i, j \in 1 .. Len(queue') : queue'[i] = queue'[j] => i = j
      <3> TAKE i, j \in 1 .. Len(queue')
      <3>1. /\ k + 1 + i \in 1 .. Len(q) /\ k + 1 + j \in 1 .. Len(q)
            /\ queue'[i] = q[k + 1 + i] /\ queue'[j] = q[k + 1 + j]
        BY <2>2
      <3> QED  BY <3>1, <2>2
    <2>8. ASSUME NEW c \in Callers, pc'[c] = "queued"
          PROVE  \E i \in 1 .. Len(queue') : queue'[i] = c
      <3>1. c # r /\ pcq[c] = "queued" /\ c \notin settled
        BY <1>2, <2>3, <2>8
      <3>2. PICK n \in 1 .. Len(q) : q[n] = c
        BY <3>1
      <3>3. n > k + 1
        BY <3>1, <3>2
      <3>4. n - (k + 1) \in 1 .. Len(queue') /\ k + 1 + (n - (k + 1)) = n
        BY <2>2, <3>3
      <3> QED  BY <2>2, <3>2, <3>4
    <2>9. /\ pc' \in [Callers -> {"idle", "queued", "running", "nested"}]
          /\ myGen' \in [Callers -> Nat] /\ myGen'[r] = generation' /\ generation' \in Nat
      <3> HIDE DEF r
      <3> QED  BY <1>2, <2>0, <2>1 DEF TypeOK, r
    <2>10. QueueInv'
      BY <2>6, <2>7, <2>8 DEF QueueInv
    <2>11. OneRunner' /\ LockedIffRunning'
      BY <2>0, <2>1, <2>4 DEF OneRunner, LockedIffRunning
    <2> QED  BY <2>0, <2>2, <2>4, <2>9, <2>10, <2>11
  <1> QED  BY <1>1, <1>3, <1>4 DEF rest

\* acquire(): a re-entrant caller disturbs nothing; a caller that queues joins
\* the end of the line, or runs at once when the lock is open.
LEMMA EnterOrEnqueueInv ==
    ASSUME IInv, NEW c \in Callers, NEW inContext \in BOOLEAN, pc[c] = "idle",
           EnterOrEnqueue(c, inContext), UNCHANGED orphaned
    PROVE  LockInv'
  <1>1. CASE inContext
    <2>1. /\ pc' = [pc EXCEPT ![c] = "nested"]
          /\ UNCHANGED <<queue, locked, holding, generation, myGen>>
      BY <1>1 DEF EnterOrEnqueue, EnterNow
    <2>2. \A d \in Callers : \A s \in {"queued", "running"} : pc'[d] = s <=> pc[d] = s
      BY <2>1 DEF IInv, TypeOK
    <2>3. LockType'
      BY <2>1 DEF IInv, TypeOK, LockType
    <2>4. QueueInv'
      BY <2>1, <2>2 DEF IInv, TypeOK, QueueInv
    <2>5. RunnerInv'
      BY <2>1, <2>2 DEF IInv, RunnerInv, OneRunner, LockedIffRunning
    <2>6. UnlockerInv'
      BY <2>1, <2>2 DEF IInv, UnlockerInv, OneUnlocker
    <2> QED  BY <2>3, <2>4, <2>5, <2>6 DEF LockInv
  <1>2. CASE ~inContext
    <2> DEFINE q == Append(queue, c)
               pcq == [pc EXCEPT ![c] = "queued"]
    <2>1. IF locked
            THEN queue' = q /\ pc' = pcq /\ UNCHANGED <<locked, holding, generation, myGen>>
            ELSE ProcessQueue(q, pcq)
      BY <1>2 DEF EnterOrEnqueue, Enqueue, Joined
    <2>2. /\ q \in Seq(Callers) /\ Len(q) = Len(queue) + 1 /\ q[Len(queue) + 1] = c
          /\ \A i \in 1 .. Len(queue) : q[i] = queue[i]
      BY DEF IInv, TypeOK
    <2>3. /\ pcq \in [Callers -> {"idle", "queued", "running", "nested"}]
          /\ pcq[c] = "queued" /\ \A d \in Callers \ {c} : pcq[d] = pc[d]
      BY DEF IInv, TypeOK
    <2>4. /\ \A i \in 1 .. Len(queue) : queue[i] \in Callers \ {c}
          /\ Len(queue) \in Nat
      BY DEF IInv, TypeOK, QueueInv
    <2> HIDE DEF q, pcq
    <2>5. /\ \A i \in 1 .. Len(q) : pcq[q[i]] = "queued"
          /\ \A i, j \in 1 .. Len(q) : q[i] = q[j] => i = j
          /\ \A d \in Callers : pcq[d] = "queued" => \E i \in 1 .. Len(q) : q[i] = d
      <3>1. ASSUME NEW i \in 1 .. Len(q) PROVE pcq[q[i]] = "queued"
        <4>1. CASE i = Len(queue) + 1
          BY <4>1, <2>2, <2>3
        <4>2. CASE i \in 1 .. Len(queue)
          BY <4>2, <2>2, <2>3, <2>4 DEF IInv, QueueInv
        <4> QED  BY <4>1, <4>2, <2>2, <2>4
      <3>2. ASSUME NEW i \in 1 .. Len(q), NEW j \in 1 .. Len(q), q[i] = q[j]
            PROVE  i = j
        <4>1. i \in 1 .. Len(queue) \/ i = Len(queue) + 1
          BY <2>2, <2>4
        <4>2. j \in 1 .. Len(queue) \/ j = Len(queue) + 1
          BY <2>2, <2>4
        <4> QED  BY <3>2, <4>1, <4>2, <2>2, <2>4 DEF IInv, QueueInv
      <3>3. ASSUME NEW d \in Callers, pcq[d] = "queued"
            PROVE  \E i \in 1 .. Len(q) : q[i] = d
        <4>1. CASE d = c
          BY <4>1, <2>2, <2>4
        <4>2. CASE d # c
          <5>1. PICK i \in 1 .. Len(queue) : queue[i] = d
            BY <3>3, <4>2, <2>3 DEF IInv, QueueInv
          <5> QED  BY <5>1, <2>2, <2>4
        <4> QED  BY <4>1, <4>2
      <3> QED  BY <3>1, <3>2, <3>3
    <2>6. CASE locked
      <3>1. queue' = q /\ pc' = pcq /\ UNCHANGED <<locked, holding, generation, myGen>>
        BY <2>1, <2>6
      <3>2. \A d \in Callers : pc'[d] = "running" <=> pc[d] = "running"
        BY <3>1, <2>3
      <3>3. LockType'
        BY <3>1, <2>2, <2>3 DEF IInv, TypeOK, LockType
      <3>4. QueueInv'
        BY <3>1, <2>5 DEF QueueInv
      <3>5. RunnerInv'
        BY <3>1, <3>2, <2>6 DEF IInv, RunnerInv, OneRunner, LockedIffRunning
      <3>6. UnlockerInv'
        BY <3>1, <3>2 DEF IInv, UnlockerInv, OneUnlocker
      <3> QED  BY <3>3, <3>4, <3>5, <3>6 DEF LockInv
    <2>7. CASE ~locked
      <3>1. ProcessQueue(q, pcq)
        BY <2>1, <2>7
      <3>2. \A d \in Callers : pcq[d] # "running"
        BY <2>3, <2>7 DEF IInv, RunnerInv, LockedIffRunning
      <3>3. TypeOK /\ ~orphaned /\ orphaned' = orphaned
        BY <2>7 DEF IInv, RunnerInv
      <3>4. /\ queue' \in Seq(Callers)
            /\ locked' \in BOOLEAN /\ holding' \in BOOLEAN /\ generation' \in Nat
            /\ pc' \in [Callers -> {"idle", "queued", "running", "nested"}]
            /\ myGen' \in [Callers -> Nat]
            /\ QueueInv'
            /\ OneRunner' /\ LockedIffRunning'
            /\ ~locked' => queue' = <<>> /\ ~holding'
            /\ \A d \in Callers : pc'[d] = "running" => myGen'[d] = generation' /\ holding'
        BY <2>2, <2>3, <2>5, <3>1, <3>2, <3>3, ProcessQueueOpensOrRuns
      <3>5. LockType'
        BY <3>3, <3>4 DEF LockType, TypeOK
      <3>6. RunnerInv'
        BY <3>3, <3>4 DEF RunnerInv
      <3>7. UnlockerInv'
        <4> SUFFICES ASSUME NEW d \in Callers, pc'[d] = "running"
                     PROVE  /\ (myGen'[d] = generation') <=> holding'
                            /\ (myGen'[d] # generation') <=> orphaned'
                            /\ myGen'[d] =< generation'
          BY DEF UnlockerInv, OneUnlocker
        <4>1. myGen'[d] = generation' /\ holding' /\ ~orphaned' /\ generation' \in Nat
          BY <3>3, <3>4
        <4> QED  BY <4>1
      <3> QED  BY <3>4, <3>5, <3>6, <3>7 DEF LockInv
    <2> QED  BY <2>6, <2>7
  <1> QED  BY <1>1, <1>2

\* The finally block: the current callback, or the orphaned one that owes the
\* unlock, opens the lock or hands it on.  OneUnlocker excludes the third case.
LEMMA FinishInv ==
    ASSUME IInv, NEW c \in Callers, Finish(c)
    PROVE  LockInv'
  <1> DEFINE pcq == [pc EXCEPT ![c] = "idle"]
  <1>1. pc[c] = "running" /\ locked
    BY DEF Finish, IInv, RunnerInv, LockedIffRunning
  <1>2. \A d \in Callers \ {c} : pc[d] # "running"
    BY <1>1 DEF IInv, RunnerInv, OneRunner
  <1>3. myGen[c] = generation \/ orphaned
    BY <1>1 DEF IInv, UnlockerInv, OneUnlocker
  <1>4. /\ orphaned' = IF myGen[c] = generation THEN orphaned ELSE FALSE
        /\ ProcessQueue(queue, pcq)
    BY <1>3 DEF Finish, OrphanedAfter
  <1>5. orphaned' = FALSE
    BY <1>1, <1>4 DEF IInv, UnlockerInv, OneUnlocker, TypeOK
  <1>6. /\ pcq \in [Callers -> {"idle", "queued", "running", "nested"}]
        /\ pcq[c] = "idle" /\ \A d \in Callers \ {c} : pcq[d] = pc[d]
    BY DEF IInv, TypeOK
  <1>7. queue \in Seq(Callers) /\ \A i \in 1 .. Len(queue) : queue[i] \in Callers \ {c}
    BY <1>1 DEF IInv, TypeOK, QueueInv
  <1> HIDE DEF pcq
  <1>8. /\ \A i \in 1 .. Len(queue) : pcq[queue[i]] = "queued"
        /\ \A i, j \in 1 .. Len(queue) : queue[i] = queue[j] => i = j
        /\ \A d \in Callers : pcq[d] = "queued" => \E i \in 1 .. Len(queue) : queue[i] = d
    BY <1>6, <1>7 DEF IInv, QueueInv
  <1>9. \A d \in Callers : pcq[d] # "running"
    BY <1>2, <1>6
  <1>10. /\ queue' \in Seq(Callers)
         /\ locked' \in BOOLEAN /\ holding' \in BOOLEAN /\ generation' \in Nat
         /\ pc' \in [Callers -> {"idle", "queued", "running", "nested"}]
         /\ myGen' \in [Callers -> Nat]
         /\ QueueInv'
         /\ OneRunner' /\ LockedIffRunning'
         /\ ~locked' => queue' = <<>> /\ ~holding'
         /\ \A d \in Callers : pc'[d] = "running" => myGen'[d] = generation' /\ holding'
    <2>1. TypeOK
      BY DEF IInv
    <2> QED  BY <2>1, <1>4, <1>6, <1>7, <1>8, <1>9, ProcessQueueOpensOrRuns
  <1>11. LockType'
    BY <1>5, <1>10 DEF LockType
  <1>12. RunnerInv'
    BY <1>5, <1>10 DEF RunnerInv
  <1>13. UnlockerInv'
    <2> SUFFICES ASSUME NEW d \in Callers, pc'[d] = "running"
                 PROVE  /\ (myGen'[d] = generation') <=> holding'
                        /\ (myGen'[d] # generation') <=> orphaned'
                        /\ myGen'[d] =< generation'
      BY DEF UnlockerInv, OneUnlocker
    <2>1. myGen'[d] = generation' /\ holding' /\ ~orphaned' /\ generation' \in Nat
      BY <1>5, <1>10
    <2> QED  BY <2>1
  <1> QED  BY <1>10, <1>11, <1>12, <1>13 DEF LockInv

LEMMA FinishNestedInv ==
    ASSUME IInv, NEW d \in Callers, FinishNested(d)
    PROVE  LockInv'
  <1>1. /\ pc[d] = "nested" /\ pc' = [pc EXCEPT ![d] = "idle"]
        /\ UNCHANGED <<queue, locked, holding, orphaned, generation, myGen>>
    BY DEF FinishNested
  <1>2. \A c \in Callers : \A s \in {"queued", "running"} : pc'[c] = s <=> pc[c] = s
    BY <1>1 DEF IInv, TypeOK
  <1>3. LockType'
    BY <1>1 DEF IInv, TypeOK, LockType
  <1>4. QueueInv'
    BY <1>1, <1>2 DEF IInv, TypeOK, QueueInv
  <1>5. RunnerInv'
    BY <1>1, <1>2 DEF IInv, RunnerInv, OneRunner, LockedIffRunning
  <1>6. UnlockerInv'
    BY <1>1, <1>2 DEF IInv, UnlockerInv, OneUnlocker
  <1> QED  BY <1>3, <1>4, <1>5, <1>6 DEF LockInv

\* A waiting item leaves the middle of the queue.
LEMMA TimeoutInv ==
    ASSUME IInv, NEW c \in Callers, Timeout(c)
    PROVE  LockInv'
  <1>1. PICK i \in 1 .. Len(queue) :
          /\ queue[i] = c
          /\ queue' = Without(queue, i)
          /\ pc' = [pc EXCEPT ![c] = "idle"]
          /\ UNCHANGED <<locked, holding, orphaned, generation, myGen>>
    BY DEF Timeout, Without
  <1>2. queue \in Seq(Callers) /\ Len(queue) \in Nat
    BY DEF IInv, TypeOK
  <1>3. /\ queue' \in Seq(Callers) /\ Len(queue') = Len(queue) - 1
        /\ \A j \in 1 .. (Len(queue) - 1) :
              queue'[j] = IF j < i THEN queue[j] ELSE queue[j + 1]
    BY <1>1, <1>2, RemoveOne
  <1>4. pc[c] = "queued"
    BY <1>1 DEF IInv, QueueInv
  <1>5. /\ pc'[c] = "idle" /\ \A d \in Callers \ {c} : pc'[d] = pc[d]
        /\ pc' \in [Callers -> {"idle", "queued", "running", "nested"}]
    BY <1>1 DEF IInv, TypeOK
  <1>6. \A d \in Callers : pc'[d] = "running" <=> pc[d] = "running"
    BY <1>4, <1>5
  \* Position j of the new queue comes from position At(j) of the old one.
  <1> DEFINE At(j) == IF j < i THEN j ELSE j + 1
  <1>7. \A j \in 1 .. Len(queue') : /\ At(j) \in 1 .. Len(queue) /\ At(j) # i
                                    /\ queue'[j] = queue[At(j)]
    BY <1>2, <1>3
  <1>8. QueueInv'
    <2>1. ASSUME NEW j \in 1 .. Len(queue') PROVE pc'[queue'[j]] = "queued"
      <3>1. queue'[j] \in Callers /\ queue'[j] # c /\ pc[queue'[j]] = "queued"
        BY <1>1, <1>2, <1>7 DEF IInv, QueueInv
      <3> QED  BY <1>5, <3>1
    <2>2. ASSUME NEW j \in 1 .. Len(queue'), NEW k \in 1 .. Len(queue'),
                 queue'[j] = queue'[k]
          PROVE  j = k
      <3>1. At(j) = At(k)
        BY <1>7, <2>2 DEF IInv, QueueInv
      <3> QED  BY <1>2, <1>3, <3>1
    <2>3. ASSUME NEW d \in Callers, pc'[d] = "queued"
          PROVE  \E j \in 1 .. Len(queue') : queue'[j] = d
      <3>1. PICK n \in 1 .. Len(queue) : queue[n] = d /\ n # i
        BY <1>1, <1>5, <2>3 DEF IInv, QueueInv
      <3>2. CASE n < i
        BY <1>2, <1>3, <3>1, <3>2
      <3>3. CASE n > i
        <4>1. n - 1 \in 1 .. (Len(queue) - 1) /\ ~(n - 1 < i) /\ (n - 1) + 1 = n
          BY <1>2, <3>3
        <4> QED  BY <1>3, <3>1, <4>1
      <3> QED  BY <1>2, <3>1, <3>2, <3>3
    <2> QED  BY <2>1, <2>2, <2>3 DEF QueueInv
  <1>9. LockType'
    BY <1>1, <1>3, <1>5 DEF IInv, TypeOK, LockType
  <1>10. RunnerInv'
    BY <1>1, <1>2, <1>6 DEF IInv, RunnerInv, OneRunner, LockedIffRunning
  <1>11. UnlockerInv'
    BY <1>1, <1>6 DEF IInv, UnlockerInv, OneUnlocker
  <1> QED  BY <1>8, <1>9, <1>10, <1>11 DEF LockInv

\* forceRelease() empties the queue; a running callback becomes (or stays) the
\* orphan that owes the unlock, otherwise the lock is open.
LEMMA ForceReleaseInv ==
    ASSUME IInv, ForceRelease
    PROVE  LockInv'
  <1> DEFINE settled == {queue[i] : i \in 1 .. Len(queue)}
  <1>1. /\ generation' = generation + 1 /\ holding' = FALSE /\ queue' = <<>>
        /\ pc' = [c \in Callers |-> IF c \in settled THEN "idle" ELSE pc[c]]
        /\ orphaned' = (orphaned \/ holding)
        /\ locked' = (locked /\ (orphaned \/ holding))
        /\ myGen' = myGen
    BY DEF ForceRelease, UnlockDeferred, Bump
  <1>2. \A c \in Callers : pc[c] = "queued" <=> c \in settled
    BY DEF IInv, QueueInv
  <1>3. /\ pc' \in [Callers -> {"idle", "queued", "running", "nested"}]
        /\ \A c \in Callers : pc'[c] # "queued" /\ (pc'[c] = "running" <=> pc[c] = "running")
    BY <1>1, <1>2 DEF IInv, TypeOK
  <1>4. LockType'
    <2>1. holding' \in BOOLEAN /\ orphaned' \in BOOLEAN /\ locked' \in BOOLEAN
      BY <1>1
    <2>2. queue' \in Seq(Callers) /\ generation' \in Nat /\ myGen' \in [Callers -> Nat]
      BY <1>1 DEF IInv, TypeOK
    <2> QED  BY <1>3, <2>1, <2>2 DEF LockType
  <1>5. QueueInv'
    BY <1>1, <1>3 DEF QueueInv
  <1>6. locked => (orphaned \/ holding)
    <2> SUFFICES ASSUME locked PROVE orphaned \/ holding
      OBVIOUS
    <2>1. PICK c \in Callers : pc[c] = "running"
      BY DEF IInv, RunnerInv, LockedIffRunning
    <2>2. /\ (myGen[c] = generation) <=> holding
          /\ (myGen[c] # generation) <=> orphaned
      BY <2>1 DEF IInv, UnlockerInv, OneUnlocker
    <2> QED  BY <2>2
  <1>7. locked' <=> locked
    BY <1>1, <1>6 DEF IInv, TypeOK
  <1>8. RunnerInv'
    <2>1. OneRunner' /\ LockedIffRunning'
      BY <1>3, <1>7 DEF IInv, RunnerInv, OneRunner, LockedIffRunning
    <2>2. ~locked' => ~orphaned'
      BY <1>1, <1>7 DEF IInv, RunnerInv
    <2> QED  BY <1>1, <2>1, <2>2 DEF RunnerInv
  <1>9. UnlockerInv'
    <2> SUFFICES ASSUME NEW d \in Callers, pc'[d] = "running"
                 PROVE  /\ (myGen'[d] = generation') <=> holding'
                        /\ (myGen'[d] # generation') <=> orphaned'
                        /\ myGen'[d] =< generation'
      BY DEF UnlockerInv, OneUnlocker
    <2>1. pc[d] = "running" /\ locked
      BY <1>3 DEF IInv, RunnerInv, LockedIffRunning
    <2>2. myGen'[d] # generation' /\ myGen'[d] =< generation'
      BY <1>1, <2>1 DEF IInv, UnlockerInv, TypeOK
    <2>3. ~holding' /\ orphaned'
      BY <1>1, <1>6, <2>1
    <2> QED  BY <2>2, <2>3
  <1> QED  BY <1>4, <1>5, <1>8, <1>9 DEF LockInv

LEMMA StutterInv ==
    ASSUME IInv,
           UNCHANGED <<queue, locked, holding, orphaned, generation, pc, myGen>>
    PROVE  LockInv'
  BY DEF IInv, TypeOK, LockInv, LockType, QueueInv, RunnerInv, UnlockerInv,
         OneRunner, LockedIffRunning, OneUnlocker

\* Settle() and the other updates of the guard variables keep their types.
LEMMA GuardTypes ==
    ASSUME TypeOK, [Next]_vars
    PROVE  /\ cancelled' \in [Callers -> BOOLEAN]
           /\ context' \in [Callers -> BOOLEAN]
           /\ awaits' \in [Callers -> Callers \cup {NoCaller}]
  <1>1. ASSUME NEW S, Settle(S)
        PROVE  /\ cancelled' \in [Callers -> BOOLEAN]
               /\ context' \in [Callers -> BOOLEAN]
               /\ awaits' \in [Callers -> Callers \cup {NoCaller}]
    BY <1>1 DEF Settle, TypeOK
  <1>2. CASE UNCHANGED <<cancelled, context, awaits>>
    BY <1>2 DEF TypeOK
  <1>3. ASSUME NEW c \in Callers, Acquire(c) \/ Finish(c) \/ FinishNested(c)
                                  \/ Timeout(c) \/ Cancel(c)
        PROVE  /\ cancelled' \in [Callers -> BOOLEAN]
               /\ context' \in [Callers -> BOOLEAN]
               /\ awaits' \in [Callers -> Callers \cup {NoCaller}]
    <2>1. CASE Acquire(c)
      BY <2>1, <1>2 DEF Acquire
    <2>2. CASE Finish(c)
      BY <2>2, <1>1 DEF Finish
    <2>3. CASE FinishNested(c)
      BY <2>3, <1>1 DEF FinishNested
    <2>4. CASE Timeout(c)
      BY <2>4, <1>1 DEF Timeout
    <2>5. CASE Cancel(c)
      BY <2>5 DEF Cancel, TypeOK
    <2> QED  BY <1>3, <2>1, <2>2, <2>3, <2>4, <2>5
  <1>4. ASSUME NEW c \in Callers, NEW d \in Callers, NestedCall(c, d) \/ Detach(c, d)
        PROVE  /\ cancelled' \in [Callers -> BOOLEAN]
               /\ context' \in [Callers -> BOOLEAN]
               /\ awaits' \in [Callers -> Callers \cup {NoCaller}]
    BY <1>4 DEF NestedCall, Detach, TypeOK
  <1>5. CASE ForceRelease
    BY <1>5, <1>1 DEF ForceRelease
  <1>6. CASE UNCHANGED vars
    BY <1>6, <1>2 DEF vars
  <1> QED  BY <1>3, <1>4, <1>5, <1>6 DEF Next

LEMMA InitIInv == Init => IInv
  <1> SUFFICES ASSUME Init PROVE IInv
    OBVIOUS
  <1>1. TypeOK
    <2>1. queue \in Seq(Callers) /\ generation \in Nat /\ myGen \in [Callers -> Nat]
      BY DEF Init
    <2>2. pc \in [Callers -> {"idle", "queued", "running", "nested"}]
      BY DEF Init
    <2>3. awaits \in [Callers -> Callers \cup {NoCaller}]
      BY DEF Init
    <2>4. cancelled \in [Callers -> BOOLEAN] /\ context \in [Callers -> BOOLEAN]
      BY DEF Init
    <2>5. locked \in BOOLEAN /\ holding \in BOOLEAN /\ orphaned \in BOOLEAN
      BY DEF Init
    <2> QED  BY <2>1, <2>2, <2>3, <2>4, <2>5 DEF TypeOK
  <1>2. \A c \in Callers : pc[c] = "idle"
    BY DEF Init
  <1>3. QueueInv
    BY <1>2 DEF Init, QueueInv
  <1>4. RunnerInv
    BY <1>2 DEF Init, RunnerInv, OneRunner, LockedIffRunning
  <1>5. UnlockerInv
    BY <1>2 DEF UnlockerInv, OneUnlocker
  <1> QED  BY <1>1, <1>3, <1>4, <1>5 DEF IInv

LEMMA NextIInv == IInv /\ [Next]_vars => IInv'
  <1> SUFFICES ASSUME IInv, [Next]_vars PROVE IInv'
    OBVIOUS
  <1>1. LockInv'
    <2>1. ASSUME NEW c \in Callers, Acquire(c) PROVE LockInv'
      BY <2>1, EnterOrEnqueueInv DEF Acquire, IInv, TypeOK
    <2>2. ASSUME NEW c \in Callers, Finish(c) PROVE LockInv'
      BY <2>2, FinishInv
    <2>3. ASSUME NEW c \in Callers, FinishNested(c) PROVE LockInv'
      BY <2>3, FinishNestedInv
    <2>4. ASSUME NEW c \in Callers, Timeout(c) PROVE LockInv'
      BY <2>4, TimeoutInv
    <2>5. ASSUME NEW c \in Callers, Cancel(c) PROVE LockInv'
      BY <2>5, StutterInv DEF Cancel
    <2>6. ASSUME NEW c \in Callers, NEW d \in Callers, NestedCall(c, d) PROVE LockInv'
      BY <2>6, EnterOrEnqueueInv DEF NestedCall
    <2>7. ASSUME NEW c \in Callers, NEW d \in Callers, Detach(c, d) PROVE LockInv'
      BY <2>7, StutterInv DEF Detach
    <2>8. CASE ForceRelease
      BY <2>8, ForceReleaseInv
    <2>9. CASE UNCHANGED vars
      BY <2>9, StutterInv DEF vars
    <2> QED  BY <2>1, <2>2, <2>3, <2>4, <2>5, <2>6, <2>7, <2>8, <2>9 DEF Next
  <1>2. TypeOK'
    BY <1>1, GuardTypes DEF IInv, TypeOK, LockInv, LockType
  <1> QED  BY <1>1, <1>2 DEF IInv, LockInv

THEOREM IInvHolds == Spec => []IInv
  BY InitIInv, NextIInv, PTL DEF Spec

\* Type correctness, for every set of callers.
THEOREM TypeCorrect == Spec => []TypeOK
  <1>1. IInv => TypeOK
    BY DEF IInv
  <1> QED  BY <1>1, IInvHolds, PTL

\* At most one callback runs, whatever is force-released, cancelled, timed out
\* or left behind; and the lock is shut exactly while one runs.
THEOREM RunnerExclusive == Spec => [](OneRunner /\ LockedIffRunning)
  <1>1. IInv => OneRunner /\ LockedIffRunning
    BY DEF IInv, RunnerInv
  <1> QED  BY <1>1, IInvHolds, PTL

\* An open lock has nobody waiting, and the queue is exactly the waiters.
THEOREM NobodyForgotten == Spec => []NoLostWakeup
  <1>1. IInv => NoLostWakeup
    <2> SUFFICES ASSUME IInv PROVE NoLostWakeup
      OBVIOUS
    <2>1. \A i \in 1 .. Len(queue) : queue[i] \in Callers
      BY DEF IInv, TypeOK
    <2> QED  BY <2>1 DEF IInv, QueueInv, RunnerInv, NoLostWakeup
  <1> QED  BY <1>1, IInvHolds, PTL

\* Exactly one finally block will open the lock.
THEOREM UnlockOwned == Spec => []OneUnlocker
  <1>1. IInv => OneUnlocker
    BY DEF IInv, UnlockerInv
  <1> QED  BY <1>1, IInvHolds, PTL

-----------------------------------------------------------------------------
(***************************************************************************)
(* The lock implements FifoMutex.  The owner is the running callback, and  *)
(* RunnerInv is what makes it a single one.  An acquire() that queues or   *)
(* runs is Request, a finally block is Release over the cancelled heads, a *)
(* timeout and a forceRelease() are DropOut; everything a re-entrant       *)
(* callback, a token or a detached call does is a stutter.                 *)
(***************************************************************************)
Owner == IF \E c \in Callers : pc[c] = "running"
           THEN CHOOSE c \in Callers : pc[c] = "running" ELSE NoCaller

\* The running callback, and nobody else, owns the abstract mutex.
LEMMA RunnerOwns ==
    ASSUME OneRunner
    PROVE  /\ \A c \in Callers : pc[c] = "running" <=> Owner = c
           /\ (\A c \in Callers : pc[c] # "running") <=> Owner = NoCaller
  BY LockAssumption DEF OneRunner, Owner

\* Steps that leave the running callback alone leave the owner alone.
LEMMA SameOwner ==
    ASSUME IInv, IInv', \A c \in Callers : pc'[c] = "running" <=> pc[c] = "running"
    PROVE  Owner' = Owner
  <1>1. OneRunner /\ OneRunner'
    BY DEF IInv, RunnerInv
  <1>2. /\ \A c \in Callers : pc[c] = "running" <=> Owner = c
        /\ (\A c \in Callers : pc[c] # "running") <=> Owner = NoCaller
    BY <1>1, RunnerOwns
  <1>3. /\ \A c \in Callers : pc'[c] = "running" <=> Owner' = c
        /\ (\A c \in Callers : pc'[c] # "running") <=> Owner' = NoCaller
    <2>1. /\ \A c \in Callers : (pc[c] = "running")' <=> (Owner = c)'
          /\ (\A c \in Callers : pc[c] # "running")' <=> (Owner = NoCaller)'
      BY <1>1, LockAssumption DEF OneRunner, Owner
    <2> QED  BY <2>1
  <1> QED  BY <1>2, <1>3


\* _processQueue() gives the lock to the first item behind the rejected heads,
\* or to nobody.
LEMMA HandsOn ==
    ASSUME IInv', NEW q \in Seq(Callers),
           NEW pcq \in [Callers -> {"idle", "queued", "running", "nested"}],
           \A c \in Callers : pcq[c] # "running",
           ProcessQueue(q, pcq)
    PROVE  \E k \in 0 .. Len(q) :
              /\ Owner' = IF k < Len(q) THEN q[k + 1] ELSE NoCaller
              /\ queue' = SubSeq(q, k + 2, Len(q))
  <1>1. PICK k \in 0 .. Len(q) :
          \/ k = Len(q) /\ OpenLock(<<>>, Rejected(q, k, pcq))
          \/ k < Len(q) /\ RunItem(q, k + 1, Rejected(q, k, pcq))
    BY DEF ProcessQueue
  <1> DEFINE rest == Rejected(q, k, pcq)
  <1>2. rest \in [Callers -> {"idle", "queued", "running", "nested"}]
        /\ \A c \in Callers : rest[c] # "running"
    BY DEF Rejected
  <1>3. /\ \A c \in Callers : pc'[c] = "running" <=> Owner' = c
        /\ (\A c \in Callers : pc'[c] # "running") <=> Owner' = NoCaller
    <2>1. /\ \A c \in Callers : (pc[c] = "running")' <=> (Owner = c)'
          /\ (\A c \in Callers : pc[c] # "running")' <=> (Owner = NoCaller)'
      BY LockAssumption DEF IInv, RunnerInv, OneRunner, Owner
    <2> QED  BY <2>1
  <1> HIDE DEF rest
  <1>4. CASE k = Len(q) /\ OpenLock(<<>>, rest)
    <2>1. queue' = <<>> /\ pc' = rest
      BY <1>4 DEF OpenLock
    <2>2. Owner' = NoCaller
      BY <1>2, <1>3, <2>1
    <2>3. SubSeq(q, k + 2, Len(q)) = <<>>
      BY <1>4
    <2> QED  BY <1>4, <2>1, <2>2, <2>3
  <1>5. CASE k < Len(q) /\ RunItem(q, k + 1, rest)
    <2>1. /\ queue' = SubSeq(q, (k + 1) + 1, Len(q))
          /\ pc' = [rest EXCEPT ![q[k + 1]] = "running"]
      BY <1>5 DEF RunItem
    <2>2. q[k + 1] \in Callers /\ (k + 1) + 1 = k + 2
      BY <1>5
    <2>3. pc'[q[k + 1]] = "running"
      BY <1>2, <2>1, <2>2
    <2> QED  BY <1>3, <1>5, <2>1, <2>2, <2>3
  <1> QED  BY <1>1, <1>4, <1>5 DEF rest

\* acquire() is a Request of the abstract mutex, or nothing it can see: a
\* re-entrant call, or an item whose token was cancelled before it could run.
LEMMA AcquireIsRequest ==
    ASSUME IInv, IInv', NEW c \in Callers, NEW inContext \in BOOLEAN, pc[c] = "idle",
           EnterOrEnqueue(c, inContext)
    PROVE  Abstract!Request(c) \/ UNCHANGED <<Owner, queue>>
  <1>1. CASE inContext
    <2>1. pc' = [pc EXCEPT ![c] = "nested"] /\ queue' = queue
      BY <1>1 DEF EnterOrEnqueue, EnterNow
    <2>2. \A d \in Callers : pc'[d] = "running" <=> pc[d] = "running"
      BY <2>1 DEF IInv, TypeOK
    <2> QED  BY <2>1, <2>2, SameOwner
  <1>2. CASE ~inContext
    <2> DEFINE pcq == [pc EXCEPT ![c] = "queued"]
    <2>1. IF locked THEN queue' = Append(queue, c) /\ pc' = pcq
                    ELSE ProcessQueue(Append(queue, c), pcq)
      BY <1>2 DEF EnterOrEnqueue, Enqueue, Joined
    <2>2. /\ pcq \in [Callers -> {"idle", "queued", "running", "nested"}]
          /\ \A d \in Callers : pcq[d] = "running" <=> pc[d] = "running"
      BY DEF IInv, TypeOK
    <2>3. \A i \in 1 .. Len(queue) : queue[i] # c
      BY DEF IInv, QueueInv
    <2>4. c # Owner /\ (locked <=> Owner # NoCaller)
      BY RunnerOwns DEF IInv, RunnerInv, LockedIffRunning
    <2> HIDE DEF pcq
    <2>5. CASE locked
      <3>1. queue' = Append(queue, c) /\ Owner' = Owner
        BY <2>1, <2>2, <2>5, SameOwner
      <3> QED  BY <2>3, <2>4, <2>5, <3>1 DEF Abstract!Request, Owner
    <2>6. CASE ~locked
      <3>1. queue = <<>> /\ Append(queue, c) = <<c>> /\ Owner = NoCaller
        BY <2>4, <2>6 DEF IInv, RunnerInv
      <3>2. ProcessQueue(<<c>>, pcq)
        BY <2>1, <2>6, <3>1
      <3>3. \A d \in Callers : pcq[d] # "running"
        BY <2>2, <2>6 DEF IInv, RunnerInv, LockedIffRunning
      <3>4. PICK k \in 0 .. 1 : /\ Owner' = IF k < 1 THEN c ELSE NoCaller
                                /\ queue' = SubSeq(<<c>>, k + 2, 1)
        <4>1. <<c>> \in Seq(Callers) /\ Len(<<c>>) = 1 /\ <<c>>[1] = c
          OBVIOUS
        <4>2. PICK k \in 0 .. Len(<<c>>) :
                 /\ Owner' = IF k < Len(<<c>>) THEN <<c>>[k + 1] ELSE NoCaller
                 /\ queue' = SubSeq(<<c>>, k + 2, Len(<<c>>))
          BY <2>2, <3>2, <3>3, <4>1, HandsOn
        <4>3. k < 1 => k + 1 = 1
          BY <4>1
        <4> QED  BY <4>1, <4>2, <4>3
      <3>5. queue' = <<>>
        BY <3>4
      <3> QED  BY <2>3, <2>4, <3>1, <3>4, <3>5 DEF Abstract!Request, Owner
    <2> QED  BY <2>5, <2>6
  <1> QED  BY <1>1, <1>2

\* The finally block that opens the lock is the owner's Release.
LEMMA FinishIsRelease ==
    ASSUME IInv, IInv', NEW c \in Callers, Finish(c)
    PROVE  Abstract!Release
  <1> DEFINE pcq == [pc EXCEPT ![c] = "idle"]
  <1>1. pc[c] = "running"
    BY DEF Finish
  <1>2. /\ \A d \in Callers \ {c} : pc[d] # "running"
        /\ Owner # NoCaller
    BY <1>1, RunnerOwns DEF IInv, RunnerInv, OneRunner
  <1>3. myGen[c] = generation \/ orphaned
    BY <1>1 DEF IInv, UnlockerInv, OneUnlocker
  <1>4. ProcessQueue(queue, pcq)
    BY <1>3 DEF Finish
  <1>5. /\ pcq \in [Callers -> {"idle", "queued", "running", "nested"}]
        /\ \A d \in Callers : pcq[d] # "running"
        /\ queue \in Seq(Callers)
    BY <1>2 DEF IInv, TypeOK
  <1> HIDE DEF pcq
  <1>6. PICK k \in 0 .. Len(queue) :
           /\ Owner' = IF k < Len(queue) THEN queue[k + 1] ELSE NoCaller
           /\ queue' = SubSeq(queue, k + 2, Len(queue))
    BY <1>4, <1>5, HandsOn
  <1> QED  BY <1>2, <1>6 DEF Abstract!Release, Owner

\* A timeout takes one waiter away, forceRelease() all of them, and neither
\* takes the lock from the callback that runs.
LEMMA DropOutSteps ==
    ASSUME IInv, IInv', (\E c \in Callers : Timeout(c)) \/ ForceRelease
    PROVE  Abstract!DropOut
  <1>1. CASE \E c \in Callers : Timeout(c)
    <2>1. PICK c \in Callers, i \in 1 .. Len(queue) :
             /\ queue[i] = c
             /\ queue' = SubSeq(queue, 1, i - 1) \o SubSeq(queue, i + 1, Len(queue))
             /\ pc' = [pc EXCEPT ![c] = "idle"]
      BY <1>1 DEF Timeout
    <2>2. pc[c] = "queued"
      BY <2>1 DEF IInv, QueueInv
    <2>3. \A d \in Callers : pc'[d] = "running" <=> pc[d] = "running"
      BY <2>1, <2>2 DEF IInv, TypeOK
    <2>4. Owner' = Owner
      BY <2>3, SameOwner
    <2> QED  BY <2>1, <2>4 DEF Abstract!DropOut, Owner
  <1>2. CASE ForceRelease
    <2>1. /\ queue' = <<>>
          /\ pc' = [d \in Callers |-> IF d \in {queue[i] : i \in 1 .. Len(queue)}
                                        THEN "idle" ELSE pc[d]]
      BY <1>2 DEF ForceRelease
    <2>2. \A d \in Callers : pc'[d] = "running" <=> pc[d] = "running"
      BY <2>1 DEF IInv, QueueInv
    <2>3. Owner' = Owner
      BY <2>2, SameOwner
    <2> QED  BY <2>1, <2>3 DEF Abstract!DropOut, Owner
  <1> QED  BY <1>1, <1>2

\* What the abstract mutex cannot see.
LEMMA SilentSteps ==
    ASSUME IInv, IInv', queue' = queue,
           \/ pc' = pc
           \/ \E d \in Callers : pc[d] = "nested" /\ pc' = [pc EXCEPT ![d] = "idle"]
    PROVE  UNCHANGED <<Owner, queue>>
  <1>1. \A d \in Callers : pc'[d] = "running" <=> pc[d] = "running"
    BY DEF IInv, TypeOK
  <1> QED  BY <1>1, SameOwner

\* The lock is first come first served, only drops waiters, and leaves the
\* callback that runs its ownership until its own finally block.
THEOREM FifoMutexImplemented == Spec => ImplementsFifoMutex
  <1>1. Init => Abstract!Init
    BY DEF Init, Abstract!Init
  <1>2. IInv /\ IInv' /\ [Next]_vars => [Abstract!Next]_(Abstract!vars)
    <2> SUFFICES ASSUME IInv, IInv', [Next]_vars
                 PROVE  Abstract!Next \/ UNCHANGED <<Owner, queue>>
      BY DEF Abstract!vars, Owner
    <2>1. ASSUME NEW c \in Callers, Acquire(c)
          PROVE  Abstract!Next \/ UNCHANGED <<Owner, queue>>
      <3>1. pc[c] = "idle" /\ EnterOrEnqueue(c, context[c]) /\ context[c] \in BOOLEAN
        BY <2>1 DEF Acquire, IInv, TypeOK
      <3> QED  BY <3>1, AcquireIsRequest DEF Abstract!Next
    <2>2. ASSUME NEW c \in Callers, NEW d \in Callers, NestedCall(c, d)
          PROVE  Abstract!Next \/ UNCHANGED <<Owner, queue>>
      <3>1. PICK inContext \in BOOLEAN : pc[d] = "idle" /\ EnterOrEnqueue(d, inContext)
        BY <2>2 DEF NestedCall
      <3> QED  BY <3>1, AcquireIsRequest DEF Abstract!Next
    <2>3. ASSUME NEW c \in Callers, Finish(c) PROVE Abstract!Next
      BY <2>3, FinishIsRelease DEF Abstract!Next
    <2>4. ASSUME (\E c \in Callers : Timeout(c)) \/ ForceRelease PROVE Abstract!Next
      BY <2>4, DropOutSteps DEF Abstract!Next
    <2>5. ASSUME NEW c \in Callers, FinishNested(c) PROVE UNCHANGED <<Owner, queue>>
      BY <2>5, SilentSteps DEF FinishNested
    <2>6. ASSUME NEW c \in Callers, Cancel(c) PROVE UNCHANGED <<Owner, queue>>
      BY <2>6, SilentSteps DEF Cancel
    <2>7. ASSUME NEW c \in Callers, NEW d \in Callers, Detach(c, d)
          PROVE  UNCHANGED <<Owner, queue>>
      BY <2>7, SilentSteps DEF Detach
    <2>8. CASE UNCHANGED vars
      BY <2>8, SilentSteps DEF vars
    <2> QED  BY <2>1, <2>2, <2>3, <2>4, <2>5, <2>6, <2>7, <2>8 DEF Next
  <1> QED  BY <1>1, <1>2, IInvHolds, PTL DEF Spec, ImplementsFifoMutex, Abstract!Spec

=============================================================================
