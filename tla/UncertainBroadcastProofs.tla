---------------------- MODULE UncertainBroadcastProofs ----------------------
(***************************************************************************)
(* Proofs about UncertainBroadcast for any slots, any pairs of slots that  *)
(* look alike and any number of orders: what may be on the chain stays in  *)
(* the journal, and no slot is sent a second order, unless one of the      *)
(* named steps let its entry go.                                           *)
(***************************************************************************)
EXTENDS UncertainBroadcast, SeqLemmas, FiniteSetTheorems, WellFoundedInduction, TLAPS

\* Everything not in the grid is in the journal or was given up.
Kept == Loose \subseteq pending \cup misled \cup exposed

\* A slot with two orders on the chain or on their way.
Doubled(s) ==
    \/ \E i, j \in Live : i # j /\ log[i] = s /\ log[j] = s
    \/ \E i \in Live, k \in DOMAIN inFlight : log[i] = s /\ s \in inFlight[k]
    \/ \E k, l \in DOMAIN inFlight : k # l /\ s \in inFlight[k] /\ s \in inFlight[l]

DoubledGivenUp == \A s \in Slots : Doubled(s) => s \in misled \cup exposed

\* Until a batch is sent its creates protect nothing but themselves, and the
\* orders of their slots are gone.
BeforeSend ==
    /\ pc \in {"built", "retry"} =>
         Kept /\ creates \cap Loose \subseteq misled \cup exposed
    /\ pc = "built" /\ planned => Loose \subseteq (pending \ creates) \cup misled \cup exposed
    /\ pc \in {"built", "verify", "retry"} => \A s \in creates : order[s] \notin Live

\* The answer to a batch names an order of each create.
Answered == pc = "commit" => \A s \in creates : \E id \in placed : log[id] = s

AtRest == pc = "idle" => creates = {}

Safe == ProtectedUntilDecided /\ DoubledGivenUp /\ BeforeSend /\ AtRest
IInv == TypeOK /\ Answered /\ Safe

-----------------------------------------------------------------------------
(* The chain. *)

\* The log grew by one order of each slot of ss.
Grown(ss) ==
    /\ log' \in Seq(Slots) /\ Len(log') = Len(log) + Cardinality(ss)
    /\ Cardinality(ss) \in Nat
    /\ \A i \in Ids : log'[i] = log[i]
    /\ \A i \in Ids' \ Ids : log'[i] \in ss
    /\ \A i, j \in Ids' \ Ids : log'[i] = log'[j] => i = j
    /\ \A s \in ss : \E i \in Ids' \ Ids : log'[i] = s

\* The operations of a transaction are one for each slot.
LEMMA OrderingsInjective ==
    ASSUME NEW ss \in SUBSET Slots, NEW q \in Orderings(ss)
    PROVE  /\ q \in Seq(Slots) /\ Len(q) = Cardinality(ss) /\ Cardinality(ss) \in Nat
           /\ \A i \in 1 .. Len(q) : q[i] \in ss
           /\ \A i, j \in 1 .. Len(q) : q[i] = q[j] => i = j
           /\ \A s \in ss : \E i \in 1 .. Len(q) : q[i] = s
  <1> DEFINE n == Cardinality(ss)
  <1>1. IsFiniteSet(ss) /\ n \in Nat
    BY BroadcastAssumption, FS_Subset, FS_CardinalityType
  <1>2. q \in [1 .. n -> ss] /\ ToSet(q) = ss
    BY DEF Orderings
  <1>3. q \in Seq(Slots) /\ Len(q) = n
    BY <1>1, <1>2, SeqDef
  <1>4. \A s \in ss : \E i \in 1 .. n : q[i] = s
    BY <1>2 DEF ToSet
  <1>5. q \in Surjection(1 .. n, ss)
    BY <1>2, <1>4 DEF Surjection
  <1>6. IsFiniteSet(1 .. n) /\ Cardinality(1 .. n) = n
    BY <1>1, FS_Interval
  <1>7. q \in Injection(1 .. n, ss)
    BY <1>5, <1>6, FS_SurjSameCardinalityImpliesInj
  <1>8. \A i, j \in 1 .. n : q[i] = q[j] => i = j
    BY <1>7 DEF Injection, IsInjective
  <1> QED BY <1>1, <1>2, <1>3, <1>4, <1>8

\* Appending them is growing by the slots.
LEMMA LogGrows ==
    ASSUME log \in Seq(Slots), NEW ss \in SUBSET Slots,
           \E q \in Orderings(ss) : log' = log \o q
    PROVE  Grown(ss)
  <1> PICK q \in Orderings(ss) : log' = log \o q
    OBVIOUS
  <1>1. /\ q \in Seq(Slots) /\ Len(q) = Cardinality(ss) /\ Cardinality(ss) \in Nat
        /\ \A i \in 1 .. Len(q) : q[i] \in ss
        /\ \A i, j \in 1 .. Len(q) : q[i] = q[j] => i = j
        /\ \A s \in ss : \E i \in 1 .. Len(q) : q[i] = s
    BY OrderingsInjective
  <1>2. /\ log \o q \in Seq(Slots) /\ Len(log \o q) = Len(log) + Len(q)
        /\ \A i \in 1 .. (Len(log) + Len(q)) :
              (log \o q)[i] = IF i <= Len(log) THEN log[i] ELSE q[i - Len(log)]
    <2>1. q \in Seq(Slots)
      BY <1>1
    <2> QED BY <2>1, ConcatProperties
  <1>3. Len(log) \in Nat /\ Len(q) \in Nat
    BY <1>1
  <1>4. log' \in Seq(Slots) /\ Len(log') = Len(log) + Len(q)
    BY <1>2
  <1>5. \A i \in Ids : log'[i] = log[i]
    BY <1>2, <1>3 DEF Ids
  <1>6. \A i \in Ids' \ Ids : i - Len(log) \in 1 .. Len(q) /\ log'[i] = q[i - Len(log)]
    BY <1>2, <1>3, <1>4 DEF Ids
  <1>7. \A i \in Ids' \ Ids : log'[i] \in ss
    BY <1>1, <1>6
  <1>8. ASSUME NEW i \in Ids' \ Ids, NEW j \in Ids' \ Ids, log'[i] = log'[j]
        PROVE  i = j
    <2>1. i - Len(log) = j - Len(log)
      <3>1. i - Len(log) \in 1 .. Len(q) /\ j - Len(log) \in 1 .. Len(q)
        BY <1>6
      <3>2. q[i - Len(log)] = q[j - Len(log)]
        BY <1>6, <1>8
      <3> QED BY <1>1, <3>1, <3>2
    <2>2. i \in Int /\ j \in Int
      BY <1>3, <1>4 DEF Ids
    <2> QED BY <1>3, <2>1, <2>2
  <1>9. ASSUME NEW s \in ss
        PROVE  \E i \in Ids' \ Ids : log'[i] = s
    <2>1. PICK k \in 1 .. Len(q) : q[k] = s
      BY <1>1
    <2>2. Len(log) + k \in Ids' \ Ids /\ (Len(log) + k) - Len(log) = k
      BY <1>3, <1>4 DEF Ids
    <2> QED BY <1>6, <2>1, <2>2
  <1> QED BY <1>1, <1>4, <1>5, <1>7, <1>8, <1>9 DEF Grown

\* A transaction leaves the flight; the others stay what they were.
LEMMA FlightEnds ==
    ASSUME inFlight \in Seq(SUBSET Slots), NEW i \in DOMAIN inFlight,
           inFlight' = RemoveAt(inFlight, i)
    PROVE  /\ inFlight' \in Seq(SUBSET Slots)
           /\ \A k \in DOMAIN inFlight' :
                 \E m \in DOMAIN inFlight \ {i} : inFlight'[k] = inFlight[m]
           /\ \A k, l \in DOMAIN inFlight' : k # l =>
                 \E m, n \in DOMAIN inFlight \ {i} :
                    m # n /\ inFlight'[k] = inFlight[m] /\ inFlight'[l] = inFlight[n]
  <1> DEFINE Old(k) == IF k < i THEN k ELSE k + 1
  <1>1. i \in 1 .. Len(inFlight) /\ Len(inFlight) \in Nat
    OBVIOUS
  <1>2. inFlight' = Without(inFlight, i)
    BY DEF RemoveAt, Without
  <1>3. /\ inFlight' \in Seq(SUBSET Slots) /\ Len(inFlight') = Len(inFlight) - 1
        /\ \A k \in 1 .. (Len(inFlight) - 1) :
              inFlight'[k] = IF k < i THEN inFlight[k] ELSE inFlight[k + 1]
    BY <1>1, <1>2, RemoveOne
  <1>4. DOMAIN inFlight' = 1 .. (Len(inFlight) - 1) /\ DOMAIN inFlight = 1 .. Len(inFlight)
    BY <1>1, <1>3
  <1>5. \A k \in DOMAIN inFlight' :
            Old(k) \in DOMAIN inFlight \ {i} /\ inFlight'[k] = inFlight[Old(k)]
    BY <1>1, <1>3, <1>4
  <1>6. \A k, l \in DOMAIN inFlight' : k # l => Old(k) # Old(l)
    BY <1>1, <1>4
  <1> HIDE DEF Old
  <1> QED BY <1>3, <1>5, <1>6

-----------------------------------------------------------------------------
(* Types. *)

Labels == {"idle", "built", "verify", "retry", "poll", "commit", "byId", "adopt",
           "reconcile", "reread"}
ChainOK == log \in Seq(Slots) /\ filled \subseteq Ids /\ inFlight \in Seq(SUBSET Slots)
GridOK == order \in [Slots -> 0..Len(log)]
BatchOK ==
    /\ placed \subseteq Ids /\ view \subseteq Ids
    /\ creates \subseteq Slots /\ planned \in BOOLEAN /\ pc \in Labels
JournalOK ==
    /\ pending \subseteq Slots /\ blocked \in BOOLEAN
    /\ misled \subseteq Slots /\ exposed \subseteq Slots

LEMMA TypeParts == TypeOK <=> ChainOK /\ GridOK /\ BatchOK /\ JournalOK
  BY Zenon DEF TypeOK, ChainOK, GridOK, BatchOK, JournalOK, Labels

\* The least of some natural numbers is one of them.
LEMMA MinIn ==
    ASSUME NEW S \in SUBSET Nat, S # {}
    PROVE  Min(S) \in S
  <1> DEFINE Less == OpToRel(<, Nat)
  <1>1. IsWellFoundedOn(Less, Nat)
    BY NatLessThanWellFounded, Zenon
  <1>2. \A x, y \in Nat : <<y, x>> \notin Less => x =< y
    BY DEF OpToRel
  <1> HIDE DEF Less
  <1>3. \E x \in S : \A y \in S : <<y, x>> \notin Less
    BY <1>1, WFMin, Zenon
  <1>4. \E x \in S : \A y \in S : x =< y
    BY <1>2, <1>3
  <1> QED BY <1>4 DEF Min

LEMMA IdsAreNumbers == ChainOK => Len(log) \in Nat /\ Ids \subseteq Nat /\ 0 \notin Ids
  BY DEF ChainOK, Ids

LEMMA MatchIsShown ==
    ASSUME ChainOK, NEW v \in SUBSET Ids, NEW s
    PROVE  MatchFor(s, v) \in v \cup {0}
  <1> DEFINE exact == {id \in v : log[id] = s}
             near == {id \in v : <<s, log[id]>> \in Near}
  <1>1. exact \in SUBSET Nat /\ near \in SUBSET Nat
    BY IdsAreNumbers
  <1>2. exact # {} => Min(exact) \in exact
    BY <1>1, MinIn
  <1>3. near # {} => Min(near) \in near
    BY <1>1, MinIn
  <1> QED BY <1>2, <1>3 DEF MatchFor

\* An id of the grid is kept, or one of the read is taken.
LEMMA SyncedTypes ==
    ASSUME ChainOK, GridOK, NEW v \in SUBSET Ids, NEW keep, NEW rail
    PROVE  Synced(v, keep, rail) \in [Slots -> 0..Len(log)]
  <1> DEFINE unknown(s) == {id \in v \ Owned : log[id] = s}
  <1>1. ASSUME NEW s \in Slots, unknown(s) # {}
        PROVE  Min(unknown(s)) \in 0..Len(log)
    <2>1. unknown(s) \in SUBSET Nat /\ unknown(s) \subseteq Ids
      BY IdsAreNumbers
    <2>2. Min(unknown(s)) \in unknown(s)
      BY <1>1, <2>1, MinIn
    <2> HIDE DEF unknown
    <2> QED BY <2>1, <2>2, IdsAreNumbers DEF Ids
  <1>2. \A s \in Slots : order[s] \in 0..Len(log) /\ 0 \in 0..Len(log)
    BY IdsAreNumbers DEF GridOK
  <1> QED BY <1>1, <1>2 DEF Synced

LEMMA ViewsAreIds == \A v \in Views : v \subseteq Ids
  BY DEF Views, Live

LEMMA LooseAreSlots == ChainOK => \A o : LooseIn(o) \subseteq Slots
  <1> SUFFICES ASSUME ChainOK, NEW o PROVE LooseIn(o) \subseteq Slots
    OBVIOUS
  <1>1. \A id \in Ids : log[id] \in Slots
    BY DEF ChainOK, Ids
  <1>2. Flying \subseteq Slots
    <2>1. \A k \in DOMAIN inFlight : inFlight[k] \subseteq Slots
      BY DEF ChainOK
    <2> QED BY <2>1 DEF Flying, ToSet
  <1> QED BY <1>1, <1>2 DEF LooseIn, Live

LEMMA ClearTypes ==
    ASSUME ChainOK, JournalOK, BatchOK, NEW o, NEW v \in SUBSET Ids, ClearAfter(o, v)
    PROVE  pending' \subseteq Slots /\ misled' \subseteq Slots /\ exposed' \subseteq Slots
  BY LooseAreSlots DEF ClearAfter, BatchOK, JournalOK

-----------------------------------------------------------------------------
(* The steps, by what they do to the chain and to the grid. *)

\* Chain and grid are left alone.
BatchOnly ==
    \/ Reject \/ BuildPlan \/ BuildUpdate \/ BuildFallback \/ NotSent \/ Replan
    \/ VerifyAbsent \/ VerifyDefers \/ PollConfirmed \/ PollGivesUp \/ CommitRefused
    \/ AdoptFails \/ ReconcileReadFails \/ ReconcileDefers
    \/ UNCHANGED vars

\* The journal is cleared as the grid takes what a read showed.
Clearing ==
    \E v \in SUBSET Ids, o \in [Slots -> 0..Len(log)] :
        ClearAfter(o, v) /\ Settle /\ UNCHANGED chainVars /\ blocked' \in BOOLEAN

\* A first read that did not show all creates.
Looking ==
    /\ pc = "reconcile" /\ Goto("reread") /\ view' \in Views
    /\ UNCHANGED <<chainVars, gridVars, pending, planned, creates, placed, history>>

Syncing == \E v \in Views, keep \in SUBSET Owned, rail \in SUBSET Slots : Sync(v, keep, rail)
Sending == SendSucceeds \/ SendUncertain \/ SendPartial
ChainMoves ==
    \/ \E i \in DOMAIN inFlight : Land(i) \/ Expire(i)
    \/ \E id \in Live : FillOnChain(id)

LEMMA CommitClears ==
    ASSUME ChainOK, GridOK, BatchOK, JournalOK, Answered, CommitOk
    PROVE  Clearing
  <1> PICK missing \in SUBSET creates, v \in Views :
        LET named == {id \in placed : log[id] \notin missing}
            found == [s \in Slots |-> IF s \in missing THEN MatchFor(s, v)
                                      ELSE IF s \in creates THEN 0 ELSE order[s]]
            o == [s \in Slots |-> IF s \in creates \ missing
                                  THEN CHOOSE id \in named : log[id] = s
                                  ELSE IF found[s] \in named THEN 0 ELSE found[s]]
        IN  ClearAfter(o, v)
    BY DEF CommitOk
  <1> DEFINE named == {id \in placed : log[id] \notin missing}
             found == [s \in Slots |-> IF s \in missing THEN MatchFor(s, v)
                                       ELSE IF s \in creates THEN 0 ELSE order[s]]
             o == [s \in Slots |-> IF s \in creates \ missing
                                   THEN CHOOSE id \in named : log[id] = s
                                   ELSE IF found[s] \in named THEN 0 ELSE found[s]]
  <1>1. ClearAfter(o, v)
    OBVIOUS
  <1>2. v \in SUBSET Ids
    BY ViewsAreIds
  <1>3. Ids \subseteq 0..Len(log) /\ 0 \in 0..Len(log)
    BY IdsAreNumbers DEF Ids
  <1>4. \A s \in Slots : found[s] \in 0..Len(log)
    BY <1>2, <1>3, MatchIsShown DEF GridOK
  <1>5. ASSUME NEW s \in creates \ missing
        PROVE  (CHOOSE id \in named : log[id] = s) \in 0..Len(log)
    <2>1. \E id \in named : log[id] = s
      BY DEF Answered, CommitOk
    <2>2. named \subseteq Ids
      BY DEF BatchOK
    <2> HIDE DEF named
    <2>3. (CHOOSE id \in named : log[id] = s) \in named
      BY <2>1
    <2> QED BY <1>3, <2>2, <2>3
  <1> HIDE DEF named, found
  <1>6. o \in [Slots -> 0..Len(log)]
    BY <1>3, <1>4, <1>5
  <1> HIDE DEF o
  <1>7. Settle /\ UNCHANGED chainVars /\ blocked' \in BOOLEAN
    BY DEF CommitOk, JournalOK
  <1> QED BY <1>1, <1>2, <1>6, <1>7 DEF Clearing

LEMMA AdoptionClears ==
    ASSUME ChainOK, GridOK, BatchOK, AdoptById \/ AdoptWindow
    PROVE  Clearing
  <1>1. PICK v \in SUBSET Ids, keep \in SUBSET Owned, rail \in SUBSET Slots :
            ClearAfter(Synced(v, keep, rail), v) /\ blocked' = Unmatched(v, Synced(v, keep, rail))
    <2>1. CASE AdoptById
      BY <2>1 DEF AdoptById, BatchOK
    <2>2. CASE AdoptWindow
      BY <2>2, ViewsAreIds DEF AdoptWindow
    <2> QED BY <2>1, <2>2
  <1>2. Synced(v, keep, rail) \in [Slots -> 0..Len(log)]
    BY SyncedTypes
  <1>3. Settle /\ UNCHANGED chainVars
    BY DEF AdoptById, AdoptWindow
  <1>4. blocked' \in BOOLEAN
    BY <1>1 DEF Unmatched
  <1> QED BY <1>1, <1>2, <1>3, <1>4 DEF Clearing

LEMMA DecideClears ==
    ASSUME ChainOK, GridOK, BatchOK, JournalOK,
           NEW v1 \in SUBSET Ids, NEW v2 \in SUBSET Ids, Decide(v1, v2)
    PROVE  Clearing
  <1> DEFINE late == (pending \ Matched(pending, v1)) \cap creates
             hit == [s \in pending |-> IF s \in late THEN MatchFor(s, v2) ELSE MatchFor(s, v1)]
             hits == {s \in pending : hit[s] # 0}
  <1>1. PICK fail \in SUBSET (hits \cap creates), win \in SUBSET (hits \cap creates) :
          LET adopt == (hits \cap creates) \ fail
              taken == {hit[s] : s \in adopt}
          IN  /\ ClearAfter([s \in Slots |->
                               IF s \in win THEN hit[s]
                               ELSE IF s \in pending \ hits \/ order[s] \in taken THEN 0
                               ELSE order[s]], v1 \cup v2)
              /\ Settle
              /\ UNCHANGED <<chainVars, blocked>>
    BY DEF Decide
  <1> DEFINE adopt == (hits \cap creates) \ fail
             taken == {hit[s] : s \in adopt}
             o == [s \in Slots |-> IF s \in win THEN hit[s]
                                   ELSE IF s \in pending \ hits \/ order[s] \in taken THEN 0
                                   ELSE order[s]]
  <1>2. ClearAfter(o, v1 \cup v2) /\ Settle /\ UNCHANGED chainVars /\ blocked' = blocked
    BY <1>1
  <1>3. Ids \subseteq 0..Len(log) /\ 0 \in 0..Len(log)
    BY IdsAreNumbers DEF Ids
  <1>4. \A s \in pending : hit[s] \in 0..Len(log)
    BY <1>3, MatchIsShown
  <1>5. win \subseteq pending
    OBVIOUS
  <1> HIDE DEF hit, hits, taken
  <1>6. o \in [Slots -> 0..Len(log)]
    BY <1>3, <1>4, <1>5 DEF GridOK
  <1> HIDE DEF o
  <1>7. blocked' \in BOOLEAN
    <2>1. blocked \in BOOLEAN
      BY DEF JournalOK
    <2> QED BY <1>2, <2>1
  <1> QED BY <1>2, <1>6, <1>7 DEF Clearing

LEMMA Steps ==
    ASSUME ChainOK, GridOK, BatchOK, JournalOK, Answered, [Next]_vars
    PROVE  \/ BatchOnly \/ Clearing \/ Looking \/ Syncing \/ Sending \/ ChainMoves
           \/ \E s \in Slots : FillSeen(s)
  <1>1. CASE CommitOk
    BY <1>1, CommitClears
  <1>2. CASE AdoptById \/ AdoptWindow
    BY <1>2, AdoptionClears
  <1>3. CASE ReconcileReads
    <2> PICK v \in Views :
          IF (pending \ Matched(pending, v)) \cap creates = {} THEN Decide(v, v)
             ELSE /\ view' = v /\ Goto("reread")
                  /\ UNCHANGED <<chainVars, gridVars, pending, planned, creates, placed, history>>
      BY <1>3 DEF ReconcileReads
    <2>1. Decide(v, v) => Clearing
      BY ViewsAreIds, DecideClears
    <2>2. pc = "reconcile"
      BY <1>3 DEF ReconcileReads
    <2> QED BY <2>1, <2>2 DEF Looking
  <1>4. CASE ReconcileReadsAgain
    <2> PICK v \in Views \ {{}} : Decide(view, v)
      BY <1>4 DEF ReconcileReadsAgain
    <2> QED BY ViewsAreIds, DecideClears DEF BatchOK
  <1>5. CASE BatchOnly \/ Syncing \/ Sending \/ ChainMoves \/ \E s \in Slots : FillSeen(s)
    BY <1>5
  <1> QED BY <1>1, <1>2, <1>3, <1>4, <1>5, Zenon
          DEF Next, BatchStep, BatchOnly, Syncing, Sending, ChainMoves

-----------------------------------------------------------------------------
(* Types are kept. *)

LEMMA ChainStays ==
    ASSUME UNCHANGED chainVars
    PROVE  /\ ChainOK => ChainOK'
           /\ Ids' = Ids /\ Live' = Live /\ Flying' = Flying /\ Len(log') = Len(log)
  BY DEF chainVars, ChainOK, Ids, Live, Flying

LEMMA BatchOnlyTypes ==
    ASSUME ChainOK, GridOK, BatchOK, JournalOK, BatchOnly
    PROVE  ChainOK' /\ GridOK' /\ BatchOK' /\ JournalOK'
  <1>1. UNCHANGED chainVars /\ UNCHANGED gridVars
    BY DEF BatchOnly, Reject, BuildPlan, BuildUpdate, BuildFallback, NotSent, Replan, Defer,
       VerifyAbsent, VerifyDefers, PollConfirmed, PollGivesUp, CommitRefused, AdoptFails,
       ReconcileReadFails, ReconcileDefers, vars
  <1>2. ChainOK' /\ Ids' = Ids
    BY <1>1, ChainStays
  <1>3. GridOK'
    BY <1>1 DEF GridOK, gridVars, chainVars
  <1>4. BatchOK'
    BY <1>2 DEF BatchOnly, Reject, BuildPlan, BuildUpdate, BuildFallback, NotSent, Replan,
       Defer, VerifyAbsent, VerifyDefers, PollConfirmed, PollGivesUp, CommitRefused, AdoptFails,
       ReconcileReadFails, ReconcileDefers, Settle, Goto, Enter, Free, BatchOK, Labels,
       batchVars, vars
  <1>5. JournalOK'
    <2>1. blocked' \in BOOLEAN
      BY <1>1, Zenon DEF JournalOK, gridVars
    <2>2. Loose \subseteq Slots
      BY LooseAreSlots DEF Loose
    <2>3. pending' \subseteq Slots
      BY DEF BatchOnly, Reject, BuildPlan, BuildUpdate, BuildFallback, NotSent, Replan, Defer,
         VerifyAbsent, VerifyDefers, PollConfirmed, PollGivesUp, CommitRefused, AdoptFails,
         ReconcileReadFails, ReconcileDefers, Free, JournalOK, vars
    <2>4. misled' \subseteq Slots /\ exposed' \subseteq Slots
      BY <2>2 DEF BatchOnly, Reject, BuildPlan, BuildUpdate, BuildFallback, NotSent, Replan,
         Defer, VerifyAbsent, VerifyDefers, PollConfirmed, PollGivesUp, CommitRefused,
         AdoptFails, ReconcileReadFails, ReconcileDefers, JournalOK, history, vars
    <2> QED BY <2>1, <2>3, <2>4 DEF JournalOK
  <1> QED BY <1>2, <1>3, <1>4, <1>5

LEMMA ClearingTypes ==
    ASSUME ChainOK, GridOK, BatchOK, JournalOK, Clearing
    PROVE  ChainOK' /\ GridOK' /\ BatchOK' /\ JournalOK'
  <1> PICK v \in SUBSET Ids, o \in [Slots -> 0..Len(log)] :
        ClearAfter(o, v) /\ Settle /\ UNCHANGED chainVars /\ blocked' \in BOOLEAN
    BY DEF Clearing
  <1>1. ChainOK' /\ Ids' = Ids /\ Len(log') = Len(log)
    BY ChainStays
  <1>2. GridOK'
    BY <1>1 DEF GridOK, ClearAfter
  <1>3. BatchOK'
    BY <1>1 DEF BatchOK, Settle, Goto, Enter, Labels
  <1>4. JournalOK'
    BY ClearTypes DEF JournalOK
  <1> QED BY <1>1, <1>2, <1>3, <1>4

LEMMA LookingTypes ==
    ASSUME ChainOK, GridOK, BatchOK, JournalOK, Looking
    PROVE  ChainOK' /\ GridOK' /\ BatchOK' /\ JournalOK'
  <1>1. ChainOK' /\ Ids' = Ids /\ Len(log') = Len(log)
    BY ChainStays DEF Looking
  <1>2. GridOK'
    BY <1>1 DEF GridOK, Looking, gridVars
  <1>3. BatchOK'
    BY <1>1, ViewsAreIds DEF BatchOK, Looking, Goto, Labels
  <1>4. JournalOK'
    BY Zenon DEF JournalOK, Looking, gridVars, history
  <1> QED BY <1>1, <1>2, <1>3, <1>4

LEMMA SyncingTypes ==
    ASSUME ChainOK, GridOK, BatchOK, JournalOK, Syncing
    PROVE  ChainOK' /\ GridOK' /\ BatchOK' /\ JournalOK'
  <1> PICK v \in Views, keep \in SUBSET Owned, rail \in SUBSET Slots : Sync(v, keep, rail)
    BY DEF Syncing
  <1>1. ChainOK' /\ Ids' = Ids /\ Len(log') = Len(log)
    BY ChainStays DEF Sync
  <1> PICK o \in {Synced(v, keep, rail)} \cup {q \in {order} : v = {}} :
          /\ order' = o
          /\ blocked' = Unmatched(v, o)
          /\ misled' = (misled \cap LooseIn(o)) \cup (LooseIn(o) \ Loose)
          /\ exposed' = exposed \cap LooseIn(o)
    BY DEF Sync
  <1>2. GridOK'
    BY <1>1, ViewsAreIds, SyncedTypes DEF GridOK
  <1>3. BatchOK'
    BY <1>1 DEF BatchOK, Sync, batchVars
  <1>4. JournalOK'
    BY LooseAreSlots DEF JournalOK, Sync, Unmatched
  <1> QED BY <1>1, <1>2, <1>3, <1>4

LEMMA GrownKeeps ==
    ASSUME NEW ss, Grown(ss), ChainOK
    PROVE  /\ Ids \subseteq Ids' /\ Len(log) =< Len(log')
           /\ 0..Len(log) \subseteq 0..Len(log')
           /\ Len(log) \in Nat /\ Len(log') \in Nat
  BY DEF Grown, ChainOK, Ids

\* Sending: what lands is appended, what is not known flies.
LEMMA SendingGrows ==
    ASSUME ChainOK, BatchOK, Sending
    PROVE  \E got, unknown \in SUBSET creates :
              /\ got \cap unknown = {}
              /\ IF got = {} THEN log' = log ELSE Grown(got)
              /\ inFlight' = IF unknown = {} THEN inFlight ELSE Append(inFlight, unknown)
  <1>1. log \in Seq(Slots) /\ creates \subseteq Slots
    BY DEF ChainOK, BatchOK
  <1>2. CASE SendSucceeds
    <2>1. Grown(creates)
      BY <1>1, <1>2, LogGrows DEF SendSucceeds
    <2>2. inFlight' = inFlight
      BY <1>2 DEF SendSucceeds
    <2>3. ASSUME creates = {} PROVE log' = log
      <3>1. Len(log') = Len(log) /\ log' \in Seq(Slots)
        BY <1>1, <2>1, <2>3, FS_EmptySet DEF Grown
      <3>2. \A i \in 1..Len(log) : log'[i] = log[i]
        BY <2>1 DEF Grown, Ids
      <3> QED BY <1>1, <3>1, <3>2
    <2>4. creates \in SUBSET creates /\ {} \in SUBSET creates /\ creates \cap {} = {}
      OBVIOUS
    <2> QED BY <2>1, <2>2, <2>3, <2>4
  <1>3. CASE SendUncertain
    <2>1. /\ log' = log
          /\ inFlight' = IF creates = {} THEN inFlight ELSE Append(inFlight, creates)
      BY <1>3 DEF SendUncertain
    <2>2. creates \in SUBSET creates /\ {} \in SUBSET creates /\ {} \cap creates = {}
      OBVIOUS
    <2> QED BY <2>1, <2>2
  <1>4. CASE SendPartial
    <2> PICK got \in (SUBSET creates) \ {{}} : \E unknown \in SUBSET (creates \ got) :
          /\ \E q \in Orderings(got) : log' = log \o q
          /\ inFlight' = IF unknown = {} THEN inFlight ELSE Append(inFlight, unknown)
      BY <1>4 DEF SendPartial
    <2> PICK unknown \in SUBSET (creates \ got) :
          /\ \E q \in Orderings(got) : log' = log \o q
          /\ inFlight' = IF unknown = {} THEN inFlight ELSE Append(inFlight, unknown)
      OBVIOUS
    <2>1. Grown(got)
      BY <1>1, LogGrows
    <2>2. got \in SUBSET creates /\ unknown \in SUBSET creates
      OBVIOUS
    <2>3. got \cap unknown = {} /\ got # {}
      OBVIOUS
    <2> QED BY <2>1, <2>2, <2>3
  <1> QED BY <1>2, <1>3, <1>4 DEF Sending

LEMMA SendingTypes ==
    ASSUME ChainOK, GridOK, BatchOK, JournalOK, Sending
    PROVE  ChainOK' /\ GridOK' /\ BatchOK' /\ JournalOK'
  <1> PICK got \in SUBSET creates, unknown \in SUBSET creates :
              /\ got \cap unknown = {}
              /\ IF got = {} THEN log' = log ELSE Grown(got)
              /\ inFlight' = IF unknown = {} THEN inFlight ELSE Append(inFlight, unknown)
    BY SendingGrows
  <1>1. log' \in Seq(Slots) /\ Ids \subseteq Ids' /\ 0..Len(log) \subseteq 0..Len(log')
    <2>1. CASE got = {}
      BY <2>1 DEF ChainOK, Ids
    <2>2. CASE got # {}
      BY <2>2, GrownKeeps DEF Grown
    <2> QED BY <2>1, <2>2
  <1>2. inFlight' \in Seq(SUBSET Slots)
    BY DEF ChainOK, BatchOK
  <1>3. filled' = filled /\ UNCHANGED gridVars
    BY DEF Sending, SendSucceeds, SendUncertain, SendPartial
  <1>4. ChainOK'
    BY <1>1, <1>2, <1>3 DEF ChainOK
  <1>5. GridOK'
    BY <1>1, <1>3 DEF GridOK, gridVars
  <1>6. BatchOK'
    <2>1. CASE SendSucceeds
      <3>1. Grown(creates)
        BY <2>1, LogGrows DEF SendSucceeds, ChainOK, BatchOK
      <3>2. (Len(log) + 1)..(Len(log) + Cardinality(creates)) \subseteq Ids'
        BY <3>1, GrownKeeps DEF Grown, Ids
      <3> QED BY <1>1, <2>1, <3>2 DEF SendSucceeds, BatchOK, Goto, Labels
    <2>2. CASE SendUncertain \/ SendPartial
      BY <1>1, <2>2 DEF SendUncertain, SendPartial, BatchOK, Settle, Goto, Enter, Labels, batchVars
    <2> QED BY <2>1, <2>2 DEF Sending
  <1>7. JournalOK'
    <2>1. blocked' \in BOOLEAN
      BY <1>3, Zenon DEF JournalOK, gridVars
    <2>2. pending' \subseteq Slots /\ misled' \subseteq Slots /\ exposed' \subseteq Slots
      BY DEF Sending, SendSucceeds, SendUncertain, SendPartial, BatchOK, JournalOK, history
    <2> QED BY <2>1, <2>2 DEF JournalOK
  <1> QED BY <1>4, <1>5, <1>6, <1>7

LEMMA ChainMovesTypes ==
    ASSUME ChainOK, GridOK, BatchOK, JournalOK, ChainMoves
    PROVE  ChainOK' /\ GridOK' /\ BatchOK' /\ JournalOK'
  <1>1. ChainOK' /\ Ids \subseteq Ids' /\ 0..Len(log) \subseteq 0..Len(log')
    <2>1. ASSUME NEW i \in DOMAIN inFlight, Land(i)
          PROVE  ChainOK' /\ Ids \subseteq Ids' /\ 0..Len(log) \subseteq 0..Len(log')
      <3>1. inFlight[i] \in SUBSET Slots
        BY DEF ChainOK
      <3>2. Grown(inFlight[i])
        BY <2>1, <3>1, LogGrows DEF Land, ChainOK
      <3>3. inFlight' \in Seq(SUBSET Slots)
        BY <2>1, FlightEnds DEF Land, ChainOK
      <3> QED BY <2>1, <3>2, <3>3, GrownKeeps DEF ChainOK, Grown, Land
    <2>2. ASSUME NEW i \in DOMAIN inFlight, Expire(i)
          PROVE  ChainOK' /\ Ids \subseteq Ids' /\ 0..Len(log) \subseteq 0..Len(log')
      <3>1. inFlight' \in Seq(SUBSET Slots)
        BY <2>2, FlightEnds DEF Expire, ChainOK
      <3> QED BY <2>2, <3>1 DEF ChainOK, Expire, Ids
    <2>3. ASSUME NEW id \in Live, FillOnChain(id)
          PROVE  ChainOK' /\ Ids \subseteq Ids' /\ 0..Len(log) \subseteq 0..Len(log')
      BY <2>3 DEF ChainOK, FillOnChain, Ids, Live
    <2> QED BY <2>1, <2>2, <2>3 DEF ChainMoves
  <1>2. /\ UNCHANGED <<gridVars, pending, pc, batchVars>>
        /\ misled' \subseteq misled /\ exposed' \subseteq exposed
    BY DEF ChainMoves, Land, Expire, FillOnChain, Prune, history
  <1>3. GridOK'
    BY <1>1, <1>2 DEF GridOK, gridVars
  <1>4. BatchOK'
    BY <1>1, <1>2 DEF BatchOK, batchVars
  <1>5. JournalOK'
    <2>1. blocked' \in BOOLEAN
      BY <1>2, Zenon DEF JournalOK, gridVars
    <2>2. pending' \subseteq Slots /\ misled' \subseteq Slots /\ exposed' \subseteq Slots
      BY <1>2 DEF JournalOK
    <2> QED BY <2>1, <2>2 DEF JournalOK
  <1> QED BY <1>1, <1>3, <1>4, <1>5

LEMMA FillSeenTypes ==
    ASSUME ChainOK, GridOK, BatchOK, JournalOK, NEW s \in Slots, FillSeen(s)
    PROVE  ChainOK' /\ GridOK' /\ BatchOK' /\ JournalOK'
  <1>1. ChainOK' /\ Ids' = Ids /\ Len(log') = Len(log)
    BY ChainStays DEF FillSeen
  <1>2. GridOK'
    BY <1>1, IdsAreNumbers DEF GridOK, FillSeen
  <1>3. BatchOK'
    BY <1>1 DEF BatchOK, FillSeen, batchVars
  <1>4. JournalOK'
    BY Zenon DEF JournalOK, FillSeen, history
  <1> QED BY <1>1, <1>2, <1>3, <1>4

LEMMA AnsweredKept ==
    ASSUME ChainOK, GridOK, BatchOK, JournalOK, Answered, [Next]_vars
    PROVE  Answered'
  <1> SUFFICES ASSUME pc' = "commit", NEW s \in creates'
               PROVE  \E id \in placed' : log'[id] = s
    BY DEF Answered
  <1>1. CASE BatchOnly
    <2>1. UNCHANGED vars
      BY <1>1 DEF BatchOnly, Reject, BuildPlan, BuildUpdate, BuildFallback, NotSent, Replan,
         Defer, VerifyAbsent, VerifyDefers, PollConfirmed, PollGivesUp, CommitRefused,
         AdoptFails, ReconcileReadFails, ReconcileDefers, Settle, Goto
    <2> QED BY <2>1 DEF vars, batchVars, chainVars, Answered
  <1>2. CASE Clearing \/ Looking \/ Syncing \/ \E t \in Slots : FillSeen(t)
    BY <1>2 DEF Clearing, Looking, Syncing, Sync, FillSeen, Settle, Goto
  <1>3. CASE Sending
    <2>1. SendSucceeds
      BY <1>3 DEF Sending, SendUncertain, SendPartial, Settle, Goto, Enter
    <2>2. Grown(creates) /\ creates' = creates
      BY <2>1, LogGrows DEF SendSucceeds, ChainOK, BatchOK
    <2>3. Ids' \ Ids \subseteq placed'
      BY <2>1, <2>2, GrownKeeps DEF SendSucceeds, Grown, Ids
    <2> QED BY <2>2, <2>3 DEF Grown
  <1>4. CASE ChainMoves
    <2>1. \A i \in Ids : log'[i] = log[i]
      <3>1. ASSUME NEW i \in DOMAIN inFlight, Land(i) PROVE Grown(inFlight[i])
        BY <3>1, LogGrows DEF Land, ChainOK
      <3> QED BY <1>4, <3>1 DEF ChainMoves, Expire, FillOnChain, Grown
    <2>2. UNCHANGED <<pc, creates, placed>>
      BY <1>4 DEF ChainMoves, Land, Expire, FillOnChain, batchVars
    <2>3. PICK id \in placed : log[id] = s
      BY <2>2 DEF Answered
    <2> QED BY <2>1, <2>2, <2>3 DEF BatchOK
  <1> QED BY <1>1, <1>2, <1>3, <1>4, Steps

LEMMA TypesKept ==
    ASSUME TypeOK, Answered, [Next]_vars
    PROVE  TypeOK'
  <1>1. ChainOK /\ GridOK /\ BatchOK /\ JournalOK
    BY TypeParts
  <1>2. ChainOK' /\ GridOK' /\ BatchOK' /\ JournalOK'
    BY <1>1, Steps, BatchOnlyTypes, ClearingTypes, LookingTypes, SyncingTypes, SendingTypes,
       ChainMovesTypes, FillSeenTypes
  <1>3. TypeOK' <=> ChainOK' /\ GridOK' /\ BatchOK' /\ JournalOK'
    BY TypeParts, PTL
  <1> QED BY <1>2, <1>3

-----------------------------------------------------------------------------
(* What is loose and what is doubled. *)

\* One slot of the grid holds one order.
LEMMA DoubledIsLoose == \A s, o : Doubled(s) => s \in LooseIn(o)
  <1> SUFFICES ASSUME NEW s, NEW o, Doubled(s) PROVE s \in LooseIn(o)
    OBVIOUS
  <1>1. \A k \in DOMAIN inFlight : inFlight[k] \subseteq Flying
    BY DEF Flying, ToSet
  <1> QED BY <1>1 DEF Doubled, LooseIn

LEMMA DoubledIsLooseNow == \A s : Doubled(s) => s \in Loose
  BY DoubledIsLoose DEF Loose

LEMMA DoubledIsLooseNext == (\A s : Doubled(s) => s \in Loose)'
  BY DoubledIsLooseNow, PTL

\* What is loose and doubled hangs on the chain and the grid alone.
LEMMA ChainSame ==
    ASSUME UNCHANGED chainVars
    PROVE  /\ \A s : Doubled(s)' <=> Doubled(s)
           /\ Loose' = LooseIn(order')
           /\ order' = order => Loose' = Loose
  <1>1. log' = log /\ filled' = filled /\ inFlight' = inFlight
    BY DEF chainVars
  <1>2. Live' = Live /\ Flying' = Flying
    BY <1>1 DEF Live, Ids, Flying
  <1>3. \A s : Doubled(s)' <=> Doubled(s)
    BY <1>1, <1>2 DEF Doubled
  <1>4. Loose' = LooseIn(order')
    BY <1>1, <1>2 DEF Loose, LooseIn
  <1> QED BY <1>3, <1>4 DEF Loose

\* A cleared journal accounts for whatever is still loose.
LEMMA ClearingSafe ==
    ASSUME ProtectedUntilDecided, Clearing
    PROVE  Safe'
  <1> PICK v \in SUBSET Ids, o \in [Slots -> 0..Len(log)] :
        ClearAfter(o, v) /\ Settle /\ UNCHANGED chainVars /\ blocked' \in BOOLEAN
    BY DEF Clearing
  <1>1. Loose' = LooseIn(o) /\ \A s : Doubled(s)' <=> Doubled(s)
    BY ChainSame DEF ClearAfter
  <1>2. LooseIn(o) \subseteq misled' \cup exposed'
    BY DEF ClearAfter, ProtectedUntilDecided
  <1>3. DoubledGivenUp'
    BY <1>1, <1>2, DoubledIsLoose DEF DoubledGivenUp
  <1>4. pc' = "idle" /\ creates' = {}
    BY DEF Settle, Goto, Enter
  <1> QED BY <1>1, <1>2, <1>3, <1>4 DEF Safe, ProtectedUntilDecided, BeforeSend, AtRest

\* A sync frees slots of live orders only by giving them up.
LEMMA SyncingSafe ==
    ASSUME Safe, Syncing
    PROVE  Safe'
  <1> PICK v \in Views, keep \in SUBSET Owned, rail \in SUBSET Slots : Sync(v, keep, rail)
    BY DEF Syncing
  <1> PICK o \in {Synced(v, keep, rail)} \cup {q \in {order} : v = {}} :
          /\ order' = o
          /\ misled' = (misled \cap LooseIn(o)) \cup (LooseIn(o) \ Loose)
          /\ exposed' = exposed \cap LooseIn(o)
    BY DEF Sync
  <1>1. /\ UNCHANGED <<chainVars, pending, pc>> /\ pc = "idle"
        /\ creates' = creates /\ creates = {}
    BY DEF Sync, batchVars, Safe, AtRest
  <1>2. Loose' = LooseIn(o) /\ \A s : Doubled(s)' <=> Doubled(s)
    BY <1>1, ChainSame
  <1>3. ProtectedUntilDecided'
    BY <1>1, <1>2 DEF Safe, ProtectedUntilDecided
  <1>4. DoubledGivenUp'
    BY <1>2, DoubledIsLoose DEF Safe, DoubledGivenUp
  <1> QED BY <1>1, <1>3, <1>4 DEF Safe, BeforeSend, AtRest

LEMMA FillSeenSafe ==
    ASSUME GridOK, Safe, NEW s \in Slots, FillSeen(s)
    PROVE  Safe'
  <1>1. /\ UNCHANGED <<chainVars, pending, pc, misled, exposed>> /\ pc = "idle"
        /\ creates' = creates /\ creates = {}
    BY DEF FillSeen, batchVars, history, Safe, AtRest
  <1>2. \A t : Doubled(t)' <=> Doubled(t)
    BY <1>1, ChainSame
  <1>3. Loose' \subseteq Loose
    <2>1. Live' = Live /\ Flying' = Flying /\ log' = log
      BY <1>1 DEF Live, Ids, Flying, chainVars
    <2>2. ASSUME NEW i \in Live, order'[log[i]] # i
          PROVE  order[log[i]] # i
      <3>1. log[i] # s => order'[log[i]] = order[log[i]]
        BY DEF FillSeen, GridOK
      <3>2. order[s] \notin Live
        BY DEF FillSeen, Live
      <3> QED BY <2>2, <3>1, <3>2
    <2> QED BY <2>1, <2>2 DEF Loose, LooseIn
  <1>4. ProtectedUntilDecided' /\ DoubledGivenUp'
    BY <1>1, <1>2, <1>3 DEF Safe, ProtectedUntilDecided, DoubledGivenUp
  <1> QED BY <1>1, <1>4 DEF Safe, BeforeSend, AtRest

LEMMA LookingSafe ==
    ASSUME Safe, Looking
    PROVE  Safe'
  <1>1. /\ UNCHANGED <<chainVars, order, pending, creates, misled, exposed>>
        /\ pc' = "reread"
    BY DEF Looking, gridVars, history, Goto
  <1>2. Loose' = Loose /\ \A s : Doubled(s)' <=> Doubled(s)
    BY <1>1, ChainSame
  <1> QED BY <1>1, <1>2 DEF Safe, ProtectedUntilDecided, DoubledGivenUp, BeforeSend, AtRest

\* No entry is dropped but what was given up, and no create is built for a slot
\* with a live order.
LEMMA BatchOnlySafe ==
    ASSUME Safe, BatchOnly
    PROVE  Safe'
  <1>1. UNCHANGED chainVars /\ order' = order
    BY DEF BatchOnly, Reject, BuildPlan, BuildUpdate, BuildFallback, NotSent, Replan, Defer,
       VerifyAbsent, VerifyDefers, PollConfirmed, PollGivesUp, CommitRefused, AdoptFails,
       ReconcileReadFails, ReconcileDefers, gridVars, vars
  <1>2. /\ Loose' = Loose /\ Live' = Live
        /\ \A s : Doubled(s)' <=> Doubled(s)
    BY <1>1, ChainSame, ChainStays
  <1>3. misled \subseteq misled' /\ exposed \subseteq exposed'
    BY DEF BatchOnly, Reject, BuildPlan, BuildUpdate, BuildFallback, NotSent, Replan, Defer,
       VerifyAbsent, VerifyDefers, PollConfirmed, PollGivesUp, CommitRefused, AdoptFails,
       ReconcileReadFails, ReconcileDefers, history, vars
  <1>4. DoubledGivenUp'
    BY <1>2, <1>3 DEF Safe, DoubledGivenUp
  <1>5. Loose \subseteq pending \cup misled \cup exposed \cup creates
    BY DEF Safe, ProtectedUntilDecided
  <1>6. pc = "idle" => creates = {}
    BY DEF Safe, AtRest
  <1>7. ProtectedUntilDecided' /\ BeforeSend' /\ AtRest'
    <2>1. CASE Reject \/ PollConfirmed \/ PollGivesUp \/ CommitRefused
      BY <1>2, <1>5, <1>6, <2>1 DEF Reject, PollConfirmed, PollGivesUp, CommitRefused, Enter,
         Goto, history, batchVars, ProtectedUntilDecided, BeforeSend, AtRest
    <2>2. CASE BuildPlan
      <3> PICK ss \in (SUBSET Free) \ {{}} : Enter(TRUE, ss) /\ pending' = ss
        BY <2>2 DEF BuildPlan
      <3>1. Loose \subseteq misled \cup exposed /\ misled' = misled /\ exposed' = exposed
        BY <1>5, <1>6, <2>2 DEF BuildPlan, history
      <3>2. pc' = "built" /\ creates' = ss /\ planned'
        BY <2>2 DEF BuildPlan, Goto, Enter
      <3>3. \A s \in ss : order'[s] \notin Live'
        BY <1>1, <1>2 DEF Free, Live, Ids
      <3> QED BY <1>2, <3>1, <3>2, <3>3
              DEF ProtectedUntilDecided, BeforeSend, AtRest, Kept
    <2>3. CASE BuildUpdate
      <3>1. /\ pc' = "built" /\ creates' = {} /\ pending' = pending /\ creates = {}
            /\ misled' = misled /\ exposed' = exposed
        BY <1>6, <2>3 DEF BuildUpdate, Goto, Enter, history
      <3> QED BY <1>2, <1>5, <3>1 DEF ProtectedUntilDecided, BeforeSend, AtRest, Kept
    <2>4. CASE BuildFallback
      <3> PICK u \in Slots, t \in Slots :
              /\ order[u] \in filled
              /\ t = u \/ t \in Free
              /\ Enter(FALSE, {t})
              /\ pending' = pending \cup {t}
              /\ exposed' = exposed \cup ({t} \cap Loose)
        BY <2>4 DEF BuildFallback
      <3>1. pc' = "built" /\ creates' = {t} /\ ~planned' /\ creates = {} /\ misled' = misled
        BY <1>6, <2>4 DEF BuildFallback, Goto, Enter
      <3>2. order'[t] \notin Live'
        BY <1>1, <1>2 DEF Free, Live, Ids
      <3> QED BY <1>2, <1>5, <3>1, <3>2 DEF ProtectedUntilDecided, BeforeSend, AtRest, Kept
    <2>5. CASE NotSent \/ AdoptFails \/ ReconcileDefers
      <3>1. Defer
        BY <2>5 DEF NotSent, AdoptFails, ReconcileDefers
      <3>2. /\ pc' = "idle" /\ creates' = {} /\ pending' = pending /\ misled' = misled
            /\ exposed' = exposed \cup ((creates \ pending) \cap Loose)
        BY <3>1 DEF Defer, Settle, Goto, Enter
      <3> QED BY <1>2, <1>5, <3>2 DEF ProtectedUntilDecided, BeforeSend, AtRest
    <2>6. CASE Replan
      <3>1. /\ pc' = "idle" /\ creates' = {} /\ misled' = misled /\ exposed' = exposed
            /\ pc = "built" /\ pending' = IF planned THEN pending \ creates ELSE pending
        BY <2>6 DEF Replan, Settle, Goto, Enter, history
      <3> QED BY <1>2, <3>1 DEF Safe, ProtectedUntilDecided, BeforeSend, AtRest, Kept
    <2>7. CASE VerifyAbsent
      <3>1. /\ pc = "verify" /\ pc' = "retry" /\ creates' = creates
            /\ pending' = pending \ creates /\ exposed' = exposed
            /\ misled' = misled \cup (creates \cap Loose)
        BY <2>7 DEF VerifyAbsent, Goto, batchVars
      <3>2. \A s \in creates : order'[s] \notin Live'
        BY <1>1, <1>2, <3>1 DEF Safe, BeforeSend
      <3> QED BY <1>2, <1>5, <3>1, <3>2 DEF ProtectedUntilDecided, BeforeSend, AtRest, Kept
    <2>8. CASE VerifyDefers
      BY <1>2, <1>5, <2>8
         DEF VerifyDefers, Goto, batchVars, history, ProtectedUntilDecided, BeforeSend, AtRest
    <2>9. CASE ReconcileReadFails
      BY <1>2, <1>5, <2>9
         DEF ReconcileReadFails, Settle, Goto, Enter, ProtectedUntilDecided, BeforeSend, AtRest
    <2>10. CASE UNCHANGED vars
      <3>1. UNCHANGED <<pc, creates, planned, pending, misled, exposed, order>>
        BY <2>10 DEF vars, batchVars, history, gridVars
      <3> QED BY <1>2, <3>1 DEF Safe, ProtectedUntilDecided, BeforeSend, AtRest, Kept
    <2> QED BY <2>1, <2>2, <2>3, <2>4, <2>5, <2>6, <2>7, <2>8, <2>9, <2>10 DEF BatchOnly
  <1> QED BY <1>4, <1>7 DEF Safe

\* Before its slots get their orders, a batch has given up what they had.
LEMMA SendingSafe ==
    ASSUME ChainOK, GridOK, BatchOK, Safe, Sending
    PROVE  Safe'
  <1> PICK got \in SUBSET creates, unknown \in SUBSET creates :
              /\ got \cap unknown = {}
              /\ IF got = {} THEN log' = log ELSE Grown(got)
              /\ inFlight' = IF unknown = {} THEN inFlight ELSE Append(inFlight, unknown)
    BY SendingGrows
  <1>1. /\ pc \in {"built", "retry"} /\ UNCHANGED <<filled, order, pending, misled>>
        /\ exposed \subseteq exposed'
    BY DEF Sending, SendSucceeds, SendUncertain, SendPartial, MaySend, gridVars, history
  <1>2. /\ Loose \subseteq pending \cup misled \cup exposed
        /\ creates \cap Loose \subseteq misled \cup exposed
        /\ \A s \in creates : order[s] \notin Live
    BY <1>1 DEF Safe, BeforeSend, Kept
  <1>3. /\ \A i \in Ids : log'[i] = log[i]
        /\ \A i \in Ids' \ Ids : log'[i] \in got
        /\ \A i, j \in Ids' \ Ids : log'[i] = log'[j] => i = j
    <2>1. CASE got = {}
      BY <2>1 DEF Ids
    <2>2. CASE got # {}
      BY <2>2 DEF Grown
    <2> QED BY <2>1, <2>2
  <1>4. /\ \A k \in DOMAIN inFlight' : inFlight'[k] = unknown \/
                 (k \in DOMAIN inFlight /\ inFlight'[k] = inFlight[k])
        /\ \A k, l \in DOMAIN inFlight' : k # l => k \in DOMAIN inFlight \/ l \in DOMAIN inFlight
        /\ \A k \in DOMAIN inFlight' \cap DOMAIN inFlight : inFlight'[k] = inFlight[k]
        /\ \A k \in DOMAIN inFlight' \ DOMAIN inFlight : inFlight'[k] = unknown
    BY DEF ChainOK
  <1>5. Flying' \subseteq Flying \cup unknown
    BY <1>4 DEF Flying, ToSet
  <1>6. Live' \subseteq Live \cup (Ids' \ Ids)
    BY <1>1 DEF Live
  <1>7. Loose' \subseteq Loose \cup got \cup unknown
    <2>1. \A i \in Live : log'[i] = log[i]
      BY <1>3 DEF Live
    <2> QED BY <1>1, <1>3, <1>5, <1>6, <2>1 DEF Loose, LooseIn
  <1>8. ProtectedUntilDecided' /\ BeforeSend' /\ AtRest'
    <2>1. CASE SendSucceeds \/ SendUncertain
      <3>1. creates' = creates /\ pc' \in {"commit", "verify", "poll"} /\ exposed' = exposed
        BY <2>1 DEF SendSucceeds, SendUncertain, Goto, batchVars, history
      <3>2. ProtectedUntilDecided' /\ AtRest'
        BY <1>1, <1>2, <1>7, <3>1 DEF ProtectedUntilDecided, AtRest
      <3>3. pc' = "verify" => Live' = Live
        BY <2>1 DEF SendSucceeds, SendUncertain, Goto, Live, Ids
      <3> QED BY <1>1, <1>2, <3>1, <3>2, <3>3 DEF BeforeSend
    <2>2. CASE SendPartial
      <3> PICK g \in (SUBSET creates) \ {{}} : \E u \in SUBSET (creates \ g) :
          /\ \E q \in Orderings(g) : log' = log \o q
          /\ inFlight' = IF u = {} THEN inFlight ELSE Append(inFlight, u)
          /\ IF u # {} THEN Goto("reconcile") /\ UNCHANGED <<batchVars, exposed>>
             ELSE Settle /\ exposed' = exposed \cup (g \ pending)
        BY <2>2 DEF SendPartial
      <3> PICK u \in SUBSET (creates \ g) :
          /\ \E q \in Orderings(g) : log' = log \o q
          /\ inFlight' = IF u = {} THEN inFlight ELSE Append(inFlight, u)
          /\ IF u # {} THEN Goto("reconcile") /\ UNCHANGED <<batchVars, exposed>>
             ELSE Settle /\ exposed' = exposed \cup (g \ pending)
        OBVIOUS
      <3>1. CASE u # {}
        BY <1>1, <1>2, <1>7, <3>1
           DEF Goto, batchVars, ProtectedUntilDecided, BeforeSend, AtRest
      <3>2. CASE u = {}
        <4>1. Grown(g)
          BY LogGrows DEF ChainOK, BatchOK
        <4>2. Flying' = Flying
          BY <3>2 DEF Flying
        <4>3. Loose' \subseteq Loose \cup g
          <5>1. \A i \in Live : log'[i] = log[i]
            BY <1>3 DEF Live
          <5>2. \A i \in Ids' \ Ids : log'[i] \in g
            BY <4>1 DEF Grown
          <5> QED BY <1>1, <1>6, <4>2, <5>1, <5>2 DEF Loose, LooseIn
        <4>4. pc' = "idle" /\ creates' = {} /\ exposed' = exposed \cup (g \ pending)
          BY <3>2 DEF Settle, Goto, Enter
        <4> QED BY <1>1, <1>2, <4>3, <4>4 DEF ProtectedUntilDecided, BeforeSend, AtRest
      <3> QED BY <3>1, <3>2
    <2> QED BY <2>1, <2>2 DEF Sending
  <1>9. DoubledGivenUp'
    <2> SUFFICES ASSUME NEW s \in Slots, Doubled(s)'
                 PROVE  s \in misled \cup exposed
      BY <1>1 DEF DoubledGivenUp
    <2>1. Doubled(s) => s \in misled \cup exposed
      BY DEF Safe, DoubledGivenUp
    <2>2. \A i \in Live : log[i] = s /\ s \in creates => s \in Loose
      BY <1>2 DEF Loose, LooseIn
    <2>3. \A k \in DOMAIN inFlight : s \in inFlight[k] => s \in Loose
      BY DEF Loose, LooseIn, Flying, ToSet
    <2>4. ASSUME NEW i \in Live', log'[i] = s
          PROVE  (i \in Live /\ log[i] = s) \/ (i \in Ids' \ Ids /\ s \in got)
      BY <1>3, <1>6, <2>4 DEF Live
    <2>5. ASSUME NEW k \in DOMAIN inFlight', s \in inFlight'[k]
          PROVE  \/ k \in DOMAIN inFlight /\ s \in inFlight[k]
                 \/ k \notin DOMAIN inFlight /\ s \in unknown
      BY <1>4, <2>5
    <2>6. CASE \E i, j \in Live' : i # j /\ log'[i] = s /\ log'[j] = s
      <3> PICK i \in Live', j \in Live' : i # j /\ log'[i] = s /\ log'[j] = s
        BY <2>6
      <3>1. CASE i \in Live /\ j \in Live /\ log[i] = s /\ log[j] = s
        BY <2>1, <3>1 DEF Doubled
      <3>2. CASE s \in got /\ ((i \in Live /\ log[i] = s) \/ (j \in Live /\ log[j] = s))
        BY <1>2, <2>2, <3>2
      <3>3. ~(i \in Ids' \ Ids /\ j \in Ids' \ Ids)
        BY <1>3
      <3> QED BY <2>4, <3>1, <3>2, <3>3
    <2>7. CASE \E i \in Live', k \in DOMAIN inFlight' : log'[i] = s /\ s \in inFlight'[k]
      <3> PICK i \in Live', k \in DOMAIN inFlight' : log'[i] = s /\ s \in inFlight'[k]
        BY <2>7
      <3>1. CASE i \in Live /\ log[i] = s /\ k \in DOMAIN inFlight /\ s \in inFlight[k]
        BY <2>1, <3>1 DEF Doubled
      <3>2. CASE i \in Live /\ log[i] = s /\ s \in unknown
        BY <1>2, <2>2, <3>2
      <3>3. CASE s \in got /\ k \in DOMAIN inFlight /\ s \in inFlight[k]
        BY <1>2, <2>3, <3>3
      <3> QED BY <2>4, <2>5, <3>1, <3>2, <3>3
    <2>8. CASE \E k, l \in DOMAIN inFlight' : k # l /\ s \in inFlight'[k] /\ s \in inFlight'[l]
      <3> PICK k \in DOMAIN inFlight', l \in DOMAIN inFlight' :
              k # l /\ s \in inFlight'[k] /\ s \in inFlight'[l]
        BY <2>8
      <3>1. CASE /\ k \in DOMAIN inFlight /\ l \in DOMAIN inFlight
                 /\ s \in inFlight[k] /\ s \in inFlight[l]
        BY <2>1, <3>1 DEF Doubled
      <3>2. CASE /\ s \in unknown
                 /\ \/ k \in DOMAIN inFlight /\ s \in inFlight[k]
                    \/ l \in DOMAIN inFlight /\ s \in inFlight[l]
        BY <1>2, <2>3, <3>2
      <3> QED BY <1>4, <2>5, <3>1, <3>2
    <2> QED BY <2>6, <2>7, <2>8 DEF Doubled
  <1> QED BY <1>8, <1>9 DEF Safe

\* An order that lands leaves the flight; nothing gets loose or doubled.
LEMMA ChainMovesShrink ==
    ASSUME ChainOK, ChainMoves
    PROVE  /\ Loose' \subseteq Loose
           /\ \A s : Doubled(s)' => Doubled(s)
           /\ \A id \in 0..Len(log) : id \notin Live => id \notin Live'
  <1>1. ASSUME NEW n \in DOMAIN inFlight, Land(n)
        PROVE  /\ Loose' \subseteq Loose
               /\ \A s : Doubled(s)' => Doubled(s)
               /\ \A id \in 0..Len(log) : id \notin Live => id \notin Live'
    <2>1. inFlight[n] \in SUBSET Slots
      BY DEF ChainOK
    <2>2. Grown(inFlight[n]) /\ filled' = filled /\ order' = order
      BY <1>1, <2>1, LogGrows DEF Land, ChainOK, gridVars
    <2>3. /\ \A k \in DOMAIN inFlight' :
                 \E m \in DOMAIN inFlight \ {n} : inFlight'[k] = inFlight[m]
          /\ \A k, l \in DOMAIN inFlight' : k # l =>
                 \E m, o \in DOMAIN inFlight \ {n} :
                    m # o /\ inFlight'[k] = inFlight[m] /\ inFlight'[l] = inFlight[o]
      BY <1>1, FlightEnds DEF Land, ChainOK
    <2>4. /\ \A i \in Ids : log'[i] = log[i]
          /\ \A i \in Ids' \ Ids : log'[i] \in inFlight[n]
          /\ \A i, j \in Ids' \ Ids : log'[i] = log'[j] => i = j
      BY <2>2 DEF Grown
    <2>5. Live' \subseteq Live \cup (Ids' \ Ids) /\ Live \subseteq Ids
      BY <2>2 DEF Live
    <2>6. Flying' \subseteq Flying /\ inFlight[n] \subseteq Flying
      BY <2>3 DEF Flying, ToSet
    <2>7. Loose' \subseteq Loose
      BY <2>2, <2>4, <2>5, <2>6 DEF Loose, LooseIn
    <2>8. ASSUME NEW s, Doubled(s)'
          PROVE  Doubled(s)
      <3>1. ASSUME NEW i \in Live', log'[i] = s
            PROVE  (i \in Live /\ log[i] = s) \/ (i \in Ids' \ Ids /\ s \in inFlight[n])
        BY <2>4, <2>5, <3>1
      <3>2. CASE \E i, j \in Live' : i # j /\ log'[i] = s /\ log'[j] = s
        <4> PICK i \in Live', j \in Live' : i # j /\ log'[i] = s /\ log'[j] = s
          BY <3>2
        <4>1. ~(i \in Ids' \ Ids /\ j \in Ids' \ Ids)
          BY <2>4
        <4> QED BY <3>1, <4>1 DEF Doubled
      <3>3. CASE \E i \in Live', k \in DOMAIN inFlight' : log'[i] = s /\ s \in inFlight'[k]
        <4> PICK i \in Live', k \in DOMAIN inFlight' : log'[i] = s /\ s \in inFlight'[k]
          BY <3>3
        <4> PICK m \in DOMAIN inFlight \ {n} : inFlight'[k] = inFlight[m]
          BY <2>3
        <4> QED BY <3>1 DEF Doubled
      <3>4. CASE \E k, l \in DOMAIN inFlight' :
                    k # l /\ s \in inFlight'[k] /\ s \in inFlight'[l]
        BY <2>3, <3>4 DEF Doubled
      <3> QED BY <2>8, <3>2, <3>3, <3>4 DEF Doubled
    <2>9. \A id \in 0..Len(log) : id \notin Live => id \notin Live'
      BY <2>2 DEF Live, Ids, ChainOK
    <2> QED BY <2>7, <2>8, <2>9
  <1>2. ASSUME NEW n \in DOMAIN inFlight, Expire(n)
        PROVE  /\ Loose' \subseteq Loose
               /\ \A s : Doubled(s)' => Doubled(s)
               /\ \A id \in 0..Len(log) : id \notin Live => id \notin Live'
    <2>1. log' = log /\ Live' = Live /\ order' = order
      BY <1>2 DEF Expire, Live, Ids, gridVars
    <2>2. /\ \A k \in DOMAIN inFlight' :
                 \E m \in DOMAIN inFlight \ {n} : inFlight'[k] = inFlight[m]
          /\ \A k, l \in DOMAIN inFlight' : k # l =>
                 \E m, o \in DOMAIN inFlight \ {n} :
                    m # o /\ inFlight'[k] = inFlight[m] /\ inFlight'[l] = inFlight[o]
      BY <1>2, FlightEnds DEF Expire, ChainOK
    <2>3. Flying' \subseteq Flying
      BY <2>2 DEF Flying, ToSet
    <2>4. Loose' \subseteq Loose
      BY <2>1, <2>3 DEF Loose, LooseIn
    <2>5. ASSUME NEW s, Doubled(s)'
          PROVE  Doubled(s)
      BY <2>1, <2>2, <2>5 DEF Doubled
    <2> QED BY <2>1, <2>4, <2>5
  <1>3. ASSUME NEW n \in Live, FillOnChain(n)
        PROVE  /\ Loose' \subseteq Loose
               /\ \A s : Doubled(s)' => Doubled(s)
               /\ \A id \in 0..Len(log) : id \notin Live => id \notin Live'
    <2>1. /\ log' = log /\ inFlight' = inFlight /\ order' = order
          /\ Live' \subseteq Live /\ Flying' = Flying
      BY <1>3 DEF FillOnChain, Live, Ids, Flying, gridVars
    <2> QED BY <2>1 DEF Loose, LooseIn, Doubled
  <1> QED BY <1>1, <1>2, <1>3 DEF ChainMoves

LEMMA ChainMovesSafe ==
    ASSUME ChainOK, GridOK, BatchOK, Safe, ChainMoves
    PROVE  Safe'
  <1>1. /\ Loose' \subseteq Loose
        /\ \A s : Doubled(s)' => Doubled(s)
        /\ \A id \in 0..Len(log) : id \notin Live => id \notin Live'
    BY ChainMovesShrink
  <1>2. /\ UNCHANGED <<order, pending, pc, planned, creates>>
        /\ misled \cap Loose' \subseteq misled' /\ exposed \cap Loose' \subseteq exposed'
    BY DEF ChainMoves, Land, Expire, FillOnChain, Prune, history, gridVars, batchVars
  <1>3. ProtectedUntilDecided' /\ AtRest'
    BY <1>1, <1>2 DEF Safe, ProtectedUntilDecided, AtRest
  <1>4. DoubledGivenUp'
    BY <1>1, <1>2, DoubledIsLooseNext DEF Safe, DoubledGivenUp
  <1>5. BeforeSend'
    <2>1. \A s \in creates : order[s] \in 0..Len(log)
      BY DEF GridOK, BatchOK
    <2>2. pc \in {"built", "verify", "retry"} => \A s \in creates' : order'[s] \notin Live'
      BY <1>1, <1>2, <2>1 DEF Safe, BeforeSend
    <2>3. pc \in {"built", "retry"} => Kept' /\ creates' \cap Loose' \subseteq misled' \cup exposed'
      BY <1>1, <1>2 DEF Safe, BeforeSend, Kept
    <2>4. pc = "built" /\ planned => Loose' \subseteq (pending' \ creates') \cup misled' \cup exposed'
      BY <1>1, <1>2 DEF Safe, BeforeSend
    <2> QED BY <1>2, <2>2, <2>3, <2>4 DEF BeforeSend
  <1> QED BY <1>3, <1>4, <1>5 DEF Safe

-----------------------------------------------------------------------------
(* The invariant. *)

\* The grid the bot starts from holds the orders of the chain.
LEMMA InitIInv == Init => IInv
  <1> SUFFICES ASSUME Init PROVE IInv
    OBVIOUS
  <1> PICK ss \in SUBSET Slots :
          /\ log \in Orderings(ss)
          /\ order = [s \in Slots |-> IF s \in ss THEN CHOOSE id \in 1..Len(log) : log[id] = s
                                                  ELSE 0]
    BY DEF Init
  <1>1. /\ log \in Seq(Slots) /\ Len(log) = Cardinality(ss) /\ Cardinality(ss) \in Nat
        /\ \A i \in 1 .. Len(log) : log[i] \in ss
        /\ \A i, j \in 1 .. Len(log) : log[i] = log[j] => i = j
        /\ \A s \in ss : \E i \in 1 .. Len(log) : log[i] = s
    BY OrderingsInjective
  <1>2. \A i \in 1..Len(log) : order[log[i]] = i
    BY <1>1
  <1>3. GridOK
    <2>1. \A s \in ss : (CHOOSE id \in 1..Len(log) : log[id] = s) \in 0..Len(log)
      BY <1>1
    <2> QED BY <1>1, <2>1 DEF GridOK
  <1>4. /\ filled = {} /\ inFlight = <<>> /\ pending = {} /\ blocked = FALSE
        /\ pc = "idle" /\ planned = FALSE /\ creates = {} /\ placed = {} /\ view = {}
        /\ misled = {} /\ exposed = {}
    BY DEF Init
  <1>5. Flying = {} /\ DOMAIN inFlight = {}
    BY <1>4 DEF Flying, ToSet
  <1>6. Loose = {}
    BY <1>2, <1>5 DEF Loose, LooseIn, Live, Ids
  <1>7. \A s : ~Doubled(s)
    BY <1>1, <1>5 DEF Doubled, Live, Ids
  <1>8. TypeOK
    <2>1. ChainOK
      BY <1>1, <1>4 DEF ChainOK
    <2>2. BatchOK /\ JournalOK
      BY <1>4 DEF BatchOK, JournalOK, Labels
    <2> QED BY <1>3, <2>1, <2>2, TypeParts
  <1> QED BY <1>4, <1>6, <1>7, <1>8
          DEF IInv, Answered, Safe, ProtectedUntilDecided, DoubledGivenUp, BeforeSend, AtRest

LEMMA NextIInv == IInv /\ [Next]_vars => IInv'
  <1> SUFFICES ASSUME IInv, [Next]_vars PROVE IInv'
    OBVIOUS
  <1>1. TypeOK /\ Answered /\ Safe /\ ProtectedUntilDecided
    BY DEF IInv, Safe
  <1>2. ChainOK /\ GridOK /\ BatchOK /\ JournalOK
    BY <1>1, TypeParts
  <1>3. TypeOK' /\ Answered'
    BY <1>1, <1>2, TypesKept, AnsweredKept
  <1>4. Safe'
    BY <1>1, <1>2, Steps, BatchOnlySafe, ClearingSafe, LookingSafe, SyncingSafe, SendingSafe,
       ChainMovesSafe, FillSeenSafe
  <1> QED BY <1>3, <1>4 DEF IInv

\* The journal, the batch under way and the slots given up cover what is loose, and
\* what is doubled was given up, after every sequence of steps.
THEOREM AlwaysIInv == Spec => []IInv
  BY InitIInv, NextIInv, PTL DEF Spec

\* Every id the grid, a batch or a read holds is the id of an order that landed.
THEOREM JournalTypes == Spec => []TypeOK
  BY AlwaysIInv, PTL DEF IInv

\* recordPendingBroadcast() and whatever drops entries: an order that is or may get
\* on the chain and that the grid does not hold has an entry, unless a read decided
\* on it or a named hole lost it.
THEOREM JournalProtects == Spec => []ProtectedUntilDecided
  <1>1. IInv => ProtectedUntilDecided
    BY DEF IInv, Safe
  <1> QED BY <1>1, AlwaysIInv, PTL

\* A batch is sent for a slot that has an order already only after that slot's
\* entry was given up.
THEOREM NoUnnoticedSecondOrder == Spec => []NoSecondOrder
  <1>1. IInv => NoSecondOrder
    <2> SUFFICES ASSUME IInv, NEW s \in Slots, Cardinality(OrdersOf(s)) > 1
                 PROVE  Doubled(s)
      BY DEF IInv, Safe, DoubledGivenUp, NoSecondOrder
    <2>1. OrdersOf(s) # {}
      BY FS_EmptySet
    <2> PICK i \in OrdersOf(s) : TRUE
      BY <2>1
    <2>2. OrdersOf(s) # {i}
      BY FS_Singleton
    <2> PICK j \in OrdersOf(s) : j # i
      BY <2>1, <2>2
    <2> QED BY DEF OrdersOf, Doubled
  <1> QED BY <1>1, AlwaysIInv, PTL
=============================================================================
