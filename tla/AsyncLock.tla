------------------------------ MODULE AsyncLock ------------------------------
(***************************************************************************)
(* The re-entrant FIFO lock of modules/order/async_lock.ts.  JavaScript    *)
(* runs a synchronous stretch of code without interruption, so a step of   *)
(* the model is one such stretch: an acquire() up to its return, a timer   *)
(* callback, a forceRelease(), or the finally block of a callback together *)
(* with the _processQueue() it calls.                                      *)
(*                                                                         *)
(* A caller is one async call chain.  AsyncLocalStorage hands the set of   *)
(* held lock ids down to whatever a callback starts: to a call it awaits   *)
(* (NestedCall) and to a timer or promise it leaves behind (Detach).       *)
(***************************************************************************)
EXTENDS Naturals, Sequences, FiniteSets

CONSTANTS
    Callers,         \* async call chains that use the lock
    NoCaller,        \* "awaits nothing"
    HasALS,          \* AsyncLocalStorage is available (_lockCtx # null)
    Detaches,        \* callbacks may leave timers or unawaited promises behind
    MaxGeneration    \* bound on _generation: stops the environment, not the lock

ASSUME LockAssumption ==
    /\ NoCaller \notin Callers
    /\ HasALS \in BOOLEAN
    /\ Detaches \in BOOLEAN
    /\ MaxGeneration \in Nat

VARIABLES
    queue,       \* _queue: waiting items, oldest first
    locked,      \* _locked
    holding,     \* _holding
    orphaned,    \* _orphaned
    generation,  \* _generation
    pc,          \* "idle", "queued", "running" (taken from the queue) or "nested"
    myGen,       \* the generation a running callback captured
    cancelled,   \* cancelToken.isCancelled of the caller's item
    context,     \* the caller's async context contains this lock's id
    awaits       \* the nested call a callback is awaiting, or NoCaller

vars == <<queue, locked, holding, orphaned, generation, pc, myGen, cancelled,
          context, awaits>>

-----------------------------------------------------------------------------
Inside == {c \in Callers : pc[c] \in {"running", "nested"}}

\* The callers whose code can take the next step of a critical section.
Active == {c \in Inside : awaits[c] = NoCaller}

Init ==
    /\ queue = <<>>
    /\ locked = FALSE
    /\ holding = FALSE
    /\ orphaned = FALSE
    /\ generation = 0
    /\ pc = [c \in Callers |-> "idle"]
    /\ myGen = [c \in Callers |-> 0]
    /\ cancelled = [c \in Callers |-> FALSE]
    /\ context = [c \in Callers |-> FALSE]
    /\ awaits = [c \in Callers |-> NoCaller]

\* ++_generation.
Bump == generation + 1

\* The queue is left to q and the lock open.
OpenLock(q, pcq) ==
    /\ queue' = q
    /\ locked' = FALSE
    /\ holding' = FALSE
    /\ pc' = pcq
    /\ UNCHANGED <<generation, myGen>>

\* The item at position n of q is taken and its callback starts.
RunItem(q, n, pcq) ==
    /\ queue' = SubSeq(q, n + 1, Len(q))
    /\ locked' = TRUE
    /\ holding' = TRUE
    /\ generation' = Bump
    /\ pc' = [pcq EXCEPT ![q[n]] = "running"]
    /\ myGen' = [myGen EXCEPT ![q[n]] = Bump]

\* pcq once the first k items of q have been rejected.
Rejected(q, k, pcq) ==
    [c \in Callers |-> IF c \in {q[i] : i \in 1 .. k} THEN "idle" ELSE pcq[c]]

\* Mutation: a rejected head does not pass the turn on.
ProcessHeadOnly(q, pcq) ==
    \/ q = <<>> /\ OpenLock(q, pcq)
    \/ q # <<>> /\ cancelled[q[1]] /\ OpenLock(Tail(q), Rejected(q, 1, pcq))
    \/ q # <<>> /\ ~cancelled[q[1]] /\ RunItem(q, 1, pcq)

(***************************************************************************)
(* _processQueue() on an unlocked lock with queue q: the k cancelled items *)
(* at the head are rejected one by one, then the first live one runs.      *)
(* pcq is pc with the effect of the enclosing step already applied.        *)
(***************************************************************************)
ProcessQueue(q, pcq) ==
    \E k \in 0 .. Len(q) :
        /\ \A i \in 1 .. k : cancelled[q[i]]
        /\ \/ k = Len(q) /\ OpenLock(<<>>, Rejected(q, k, pcq))
           \/ /\ k < Len(q)
              /\ ~cancelled[q[k + 1]]
              /\ RunItem(q, k + 1, Rejected(q, k, pcq))

\* Mutation: new items go to the head.
JumpQueue(c) == <<c>> \o queue
\* _queue.push(item)
Joined(c) == Append(queue, c)

\* The part of acquire() below the re-entrant test.
Enqueue(c) ==
    /\ generation + Len(queue) < MaxGeneration
    /\ LET pcq == [pc EXCEPT ![c] = "queued"]
       IN IF locked
            THEN /\ queue' = Joined(c)
                 /\ pc' = pcq
                 /\ UNCHANGED <<locked, holding, generation, myGen>>
            ELSE ProcessQueue(Joined(c), pcq)

EnterNow(c) ==
    /\ pc' = [pc EXCEPT ![c] = "nested"]
    /\ UNCHANGED <<queue, locked, holding, generation, myGen>>

\* acquire() from a caller whose context decides between re-entry and queueing.
EnterOrEnqueue(c, inContext) == IF inContext THEN EnterNow(c) ELSE Enqueue(c)

Acquire(c) ==
    /\ pc[c] = "idle"
    /\ EnterOrEnqueue(c, context[c])
    /\ UNCHANGED <<orphaned, cancelled, context, awaits>>

\* A callback calls acquire() again and awaits it.  Without AsyncLocalStorage
\* only a call made in its synchronous prologue is recognised.
NestedCall(c, d) ==
    /\ c \in Active
    /\ pc[d] = "idle"
    /\ ~context[d]
    /\ awaits' = [awaits EXCEPT ![c] = d]
    /\ \E inContext \in BOOLEAN : (HasALS => inContext) /\ EnterOrEnqueue(d, inContext)
    /\ UNCHANGED <<orphaned, cancelled, context>>

\* A callback starts a timer or an unawaited call that will use the lock later.
Detach(c, d) ==
    /\ Detaches
    /\ HasALS
    /\ c \in Active
    /\ pc[d] = "idle"
    /\ context' = [context EXCEPT ![d] = TRUE]
    /\ UNCHANGED <<queue, locked, holding, orphaned, generation, pc, myGen,
                   cancelled, awaits>>

\* The promises of these callers settle: whoever awaits them continues, and
\* their tokens and contexts are not looked at again.
Settle(settled) ==
    /\ awaits' = [c \in Callers |-> IF awaits[c] \in settled THEN NoCaller ELSE awaits[c]]
    /\ cancelled' = [c \in Callers |-> cancelled[c] /\ c \notin settled]
    /\ context' = [c \in Callers |-> context[c] /\ c \notin settled]

-----------------------------------------------------------------------------
\* _orphaned after the finally block of c.
OrphanedAfter(c) == IF myGen[c] = generation THEN orphaned ELSE FALSE

\* The callback of c returns or throws: the finally block of _processQueue().
Finish(c) ==
    /\ pc[c] = "running"
    /\ awaits[c] = NoCaller
    /\ LET pcq == [pc EXCEPT ![c] = "idle"]
       IN IF myGen[c] = generation \/ orphaned
            THEN orphaned' = OrphanedAfter(c) /\ ProcessQueue(queue, pcq)
            ELSE /\ holding' = FALSE
                 /\ pc' = pcq
                 /\ UNCHANGED <<queue, locked, orphaned, generation, myGen>>
    /\ Settle({d \in Callers : pc[d] # "idle" /\ pc'[d] = "idle"})

\* A re-entrant callback returns: no lock state is touched.
FinishNested(d) ==
    /\ pc[d] = "nested"
    /\ awaits[d] = NoCaller
    /\ pc' = [pc EXCEPT ![d] = "idle"]
    /\ Settle({d})
    /\ UNCHANGED <<queue, locked, holding, orphaned, generation, myGen>>

\* The owner of a cancelToken gives up: the item stays queued, marked.
Cancel(c) ==
    /\ pc[c] = "queued"
    /\ cancelled' = [cancelled EXCEPT ![c] = TRUE]
    /\ UNCHANGED <<queue, locked, holding, orphaned, generation, pc, myGen,
                   context, awaits>>

\* The acquire timer of a waiting item fires.
Timeout(c) ==
    \E i \in 1 .. Len(queue) :
        /\ queue[i] = c
        /\ queue' = SubSeq(queue, 1, i - 1) \o SubSeq(queue, i + 1, Len(queue))
        /\ pc' = [pc EXCEPT ![c] = "idle"]
        /\ Settle({c})
        /\ UNCHANGED <<locked, holding, orphaned, generation, myGen>>

\* forceRelease() leaves the unlock to the finally block of a running callback.
UnlockDeferred == orphaned \/ holding

ForceRelease ==
    /\ generation + Len(queue) < MaxGeneration
    /\ generation' = Bump
    /\ holding' = FALSE
    /\ queue' = <<>>
    /\ LET settled == {queue[i] : i \in 1 .. Len(queue)}
       IN /\ pc' = [c \in Callers |-> IF c \in settled THEN "idle" ELSE pc[c]]
          /\ Settle(settled)
    /\ orphaned' = UnlockDeferred
    /\ locked' = (locked /\ UnlockDeferred)
    /\ UNCHANGED myGen

Next ==
    \/ \E c \in Callers : \/ Acquire(c) \/ Finish(c) \/ FinishNested(c)
                          \/ Timeout(c) \/ Cancel(c)
    \/ \E c, d \in Callers : NestedCall(c, d) \/ Detach(c, d)
    \/ ForceRelease

Spec == Init /\ [][Next]_vars

\* Every callback returns or throws: it makes finitely many nested calls, so
\* it is not forever about to make one more (strong fairness).
FairSpec == /\ Spec
            /\ \A c \in Callers : SF_vars(Finish(c)) /\ SF_vars(FinishNested(c))

-----------------------------------------------------------------------------
TypeOK ==
    /\ queue \in Seq(Callers)
    /\ locked \in BOOLEAN
    /\ holding \in BOOLEAN
    /\ orphaned \in BOOLEAN
    /\ generation \in Nat
    /\ pc \in [Callers -> {"idle", "queued", "running", "nested"}]
    /\ myGen \in [Callers -> Nat]
    /\ cancelled \in [Callers -> BOOLEAN]
    /\ context \in [Callers -> BOOLEAN]
    /\ awaits \in [Callers -> Callers \cup {NoCaller}]

\* At most one item taken from the queue is running, the callbacks that
\* forceRelease() orphaned included: the lock is never handed on over them.
OneRunner ==
    \A c, d \in Callers : (pc[c] = "running" /\ pc[d] = "running") => c = d

(***************************************************************************)
(* _locked is TRUE only while a callback runs, and always then: no path    *)
(* through forceRelease(), a stale finally block or a cancelled head       *)
(* leaves the lock shut with nobody inside.                                *)
(***************************************************************************)
LockedIffRunning == locked <=> \E c \in Callers : pc[c] = "running"

(***************************************************************************)
(* No lost wake-up: whenever the lock is open nothing waits in the queue,  *)
(* and the queue holds exactly the waiting callers, each once.             *)
(***************************************************************************)
NoLostWakeup ==
    /\ ~locked => queue = <<>>
    /\ \A i, j \in 1 .. Len(queue) : queue[i] = queue[j] => i = j
    /\ {c \in Callers : pc[c] = "queued"} = {queue[i] : i \in 1 .. Len(queue)}

(***************************************************************************)
(* A deferred unlock has an owner: while _orphaned is set exactly one      *)
(* running callback is stale, and while _holding is set the running one is *)
(* current, so one and only one finally block will open the lock.          *)
(***************************************************************************)
OneUnlocker ==
    \A c \in Callers : pc[c] = "running" =>
        /\ (myGen[c] = generation) <=> holding
        /\ (myGen[c] # generation) <=> orphaned

\* Whoever waits is eventually run or rejected.
WaitersSettle == \A c \in Callers : (pc[c] = "queued") ~> (pc[c] # "queued")

-----------------------------------------------------------------------------
\* Implementation of the abstract mutex, which is first come first served and
\* lets only the owner give up: an orphaned callback still owns the lock, and a
\* re-entrant callback runs in the name of the callback that called it.
Abstract == INSTANCE FifoMutex WITH
    owner <- IF \E c \in Callers : pc[c] = "running"
               THEN CHOOSE c \in Callers : pc[c] = "running" ELSE NoCaller,
    waiters <- queue

ImplementsFifoMutex == Abstract!Spec
=============================================================================
