---------------------------- MODULE RepairProofs ----------------------------
(***************************************************************************)
(* Proofs about what brings grid, funds and chain together again: reads of *)
(* the chain (ChainSync), the attempts to repair the funds (FundRecovery)  *)
(* and the recovery syncs (StateRecovery).                                 *)
(***************************************************************************)
EXTENDS ChainSync, FundRecovery, StateRecovery, SeqLemmas, TLAPS

\* ChainSync.  A slot is a record of these fields, whatever its size.
IsSlot(q) == \E t, st, o, z, w :
    q = [type |-> t, state |-> st, oid |-> o, size |-> z, raw |-> w]

\* A slot holds only an order that has been on the chain, and on the slot's level if it
\* still is there.
SlotOK(s, q, book) ==
    /\ IsSlot(q) /\ q.type \in {"buy", "sell", "spread"}
    /\ q.oid # None =>
          /\ q.oid \in Orders /\ q.state \in {"active", "partial"}
          /\ book[q.oid].side # None
          /\ book[q.oid].left > 0 => book[q.oid].level = s

ChainOrders ==
    [level : Nat, side : {None, "buy", "sell", "over"}, left : Nat, new : BOOLEAN]

ChainTypes ==
    /\ chain \in [Orders -> ChainOrders]
    /\ \A o \in Orders : chain[o].left > 0 => chain[o].side \in {"buy", "sell"}

SlotsOK == DOMAIN slot = Index /\ slot = [s \in Index |-> slot[s]]
           /\ \A s \in Index : SlotOK(s, slot[s], chain)

GridIInv == ChainTypes /\ SlotsOK /\ OneSlotPerOrder

\* Writing fields of a slot leaves a slot, with its type.
Booked(q, o, n) == [q EXCEPT !.state = "active", !.oid = o, !.size = n]
Adopted(q, o, n, st) == [q EXCEPT !.oid = o, !.size = n, !.raw = n, !.state = st]

LEMMA BookedWrites ==
    ASSUME NEW q, IsSlot(q), NEW o, NEW n, NEW t, t = Booked(q, o, n)
    PROVE  IsSlot(t) /\ t.type = q.type /\ t.oid = o /\ t.state = "active" /\ t.size = n
  <1>1. PICK a, b, c, d, e : q = [type |-> a, state |-> b, oid |-> c, size |-> d, raw |-> e]
    BY DEF IsSlot
  <1>2. t = [type |-> a, state |-> "active", oid |-> o, size |-> n, raw |-> e]
    BY <1>1 DEF Booked
  <1>3. IsSlot(t)
    BY <1>2 DEF IsSlot
  <1> QED  BY <1>1, <1>2, <1>3

LEMMA AdoptedWrites ==
    ASSUME NEW q, IsSlot(q), NEW o, NEW n, NEW st, NEW t, t = Adopted(q, o, n, st)
    PROVE  IsSlot(t) /\ t.type = q.type /\ t.oid = o /\ t.state = st /\ t.size = n
  <1>1. PICK a, b, c, d, e : q = [type |-> a, state |-> b, oid |-> c, size |-> d, raw |-> e]
    BY DEF IsSlot
  <1>2. t = [type |-> a, state |-> st, oid |-> o, size |-> n, raw |-> n]
    BY <1>1 DEF Adopted
  <1>3. IsSlot(t)
    BY <1>2 DEF IsSlot
  <1> QED  BY <1>1, <1>2, <1>3

LEMMA IndexIsNat == Index \subseteq Nat /\ MaxSize \in Nat \ {0} /\ None \notin Orders
  BY ChainSyncAssumption DEF Index

LEMMA GridStarts == Init => GridIInv
  <1> SUFFICES ASSUME Init PROVE GridIInv
    OBVIOUS
  <1>1. ChainTypes
    BY DEF Init, ChainTypes, ChainOrders, NoOrder
  <1>2. \A s \in Index : SlotOK(s, slot[s], chain) /\ slot[s].oid = None
    BY DEF Init, SlotOK, IsSlot, Placeholder, RailOf
  <1> QED
    BY <1>1, <1>2 DEF Init, GridIInv, SlotsOK, OneSlotPerOrder

\* An order a slot holds has been on the chain, so one that is new is held by nobody.
LEMMA UnbornUnheld ==
    ASSUME GridIInv, NEW o \in Orders, ~Born(o), NEW s \in Index
    PROVE  slot[s].oid # o
  BY IndexIsNat DEF GridIInv, SlotsOK, SlotOK, Born

\* The chain alone moves: held orders are filled or removed, others may land.
LEMMA ChainMoves ==
    ASSUME GridIInv, NEW o \in Orders, NEW c, chain' = [chain EXCEPT ![o] = c],
           c \in ChainOrders,
           c.left > 0 => c.side \in {"buy", "sell"}, c.side # None,
           ~Born(o) \/ c.left = 0 \/ (chain[o].left > 0 /\ c.level = chain[o].level),
           NEW t \in Index, NEW q, SlotOK(t, q, chain), q.oid # o \/ Born(o)
    PROVE  ChainTypes' /\ SlotOK(t, q, chain')
  <1>1. ChainTypes'
    BY DEF GridIInv, ChainTypes
  <1>2. \A p \in Orders : chain'[p] = IF p = o THEN c ELSE chain[p]
    BY DEF GridIInv, ChainTypes
  <1> QED  BY <1>1, <1>2 DEF SlotOK, Born

LEMMA DeadOrder ==
    Dead \in ChainOrders /\ Dead.left = 0 /\ Dead.side = "over" /\ Dead.side # None
  BY DEF Dead, NoOrder, ChainOrders, None

LEMMA FillKeeps ==
    ASSUME GridIInv, NEW o \in Orders, NEW n, ChainFill(o, n) PROVE GridIInv'
  <1> DEFINE r == chain[o]
             c == IF r.left = n THEN Dead ELSE [r EXCEPT !.left = r.left - n, !.new = FALSE]
  <1>1. /\ r \in ChainOrders /\ r.left > 0 /\ n \in 1 .. r.left /\ UNCHANGED slot
        /\ r.side \in {"buy", "sell"} /\ Born(o)
    BY DEF ChainFill, Live, GridIInv, ChainTypes, grid, Born, None
  <1>2. chain' = [chain EXCEPT ![o] = c]
    <2>1. CASE r.left = n
      <3>1. c = Dead
        BY <2>1
      <3>2. chain' = [chain EXCEPT ![o] = Dead]
        BY <2>1 DEF ChainFill
      <3> QED  BY <3>1, <3>2
    <2>2. CASE r.left # n
      <3>1. c = [r EXCEPT !.left = r.left - n, !.new = FALSE]
        BY <2>2
      <3>2. chain' = [chain EXCEPT ![o] = [r EXCEPT !.left = r.left - n, !.new = FALSE]]
        BY <2>2 DEF ChainFill
      <3> QED  BY <3>1, <3>2
    <2> QED  BY <2>1, <2>2
  <1> HIDE DEF r
  <1>3. /\ c \in ChainOrders
        /\ c.left > 0 => c.side \in {"buy", "sell"} /\ c.level = r.level
        /\ c.side # None
    <2>1. CASE r.left = n
      <3>1. c = Dead
        BY <2>1
      <3> HIDE DEF c
      <3> QED  BY <3>1, DeadOrder
    <2>2. CASE r.left # n
      <3>1. r.left - n \in Nat
        BY <1>1, <2>2 DEF ChainOrders
      <3>2. c = [r EXCEPT !.left = r.left - n, !.new = FALSE]
        BY <2>2
      <3> HIDE DEF c
      <3> QED  BY <1>1, <3>1, <3>2 DEF None, ChainOrders
    <2> QED  BY <2>1, <2>2
  <1> HIDE DEF c
  <1>4. c.left = 0 \/ (r.left > 0 /\ c.level = r.level)
    BY <1>1, <1>3 DEF ChainOrders
  <1>5. ChainTypes' /\ \A t \in Index : SlotOK(t, slot[t], chain')
    <2>1. ChainTypes'
      BY <1>2, <1>3 DEF GridIInv, ChainTypes
    <2>2. ASSUME NEW t \in Index PROVE SlotOK(t, slot[t], chain')
      BY <1>1, <1>2, <1>3, <1>4, ChainMoves DEF GridIInv, SlotsOK, r
    <2> QED  BY <2>1, <2>2
  <1> QED  BY <1>1, <1>5 DEF GridIInv, SlotsOK, OneSlotPerOrder

LEMMA LandKeeps ==
    ASSUME GridIInv, NEW o \in Orders, NEW s \in Index, NEW side \in {"buy", "sell"},
           Land(o, s, side)
    PROVE  GridIInv'
  <1> DEFINE c == [level |-> s, side |-> side, left |-> MaxSize, new |-> TRUE]
  <1>1. ~Born(o) /\ chain' = [chain EXCEPT ![o] = c] /\ UNCHANGED slot
    BY DEF Land, grid
  <1>2. c \in ChainOrders /\ c.side \in {"buy", "sell"} /\ c.side # None
    BY IndexIsNat DEF ChainOrders, None
  <1> HIDE DEF c
  <1>3. ChainTypes'
    BY <1>1, <1>2 DEF GridIInv, ChainTypes
  <1>4. ASSUME NEW t \in Index PROVE SlotOK(t, slot[t], chain')
    BY <1>1, <1>2, UnbornUnheld, ChainMoves DEF GridIInv, SlotsOK
  <1> QED  BY <1>1, <1>3, <1>4 DEF GridIInv, SlotsOK, OneSlotPerOrder

\* The slot of an order that is cleared.
LEMMA ClearedOK == ASSUME NEW s, NEW book PROVE SlotOK(s, Placeholder, book)
  BY DEF SlotOK, Placeholder, IsSlot

\* The bot cancels an order, of a slot that is cleared or of none.
LEMMA RemovedKeeps ==
    ASSUME GridIInv, NEW o \in Orders, Removed(o), NEW cleared \in SUBSET Index,
           slot' = [s \in Index |-> IF s \in cleared THEN Placeholder ELSE slot[s]]
    PROVE  GridIInv'
  <1>1. /\ chain' = [chain EXCEPT ![o] = Dead] /\ Dead \in ChainOrders
        /\ Dead.left = 0 /\ Dead.side = "over" /\ Dead.side # None
    BY DeadOrder DEF Removed
  <1>2. ChainTypes'
    BY <1>1 DEF GridIInv, ChainTypes
  <1>3. \A p \in Orders : chain'[p] = IF p = o THEN Dead ELSE chain[p]
    BY <1>1 DEF GridIInv, ChainTypes
  <1>4. ASSUME NEW t \in Index PROVE SlotOK(t, slot[t], chain')
    BY <1>1, <1>3 DEF GridIInv, SlotsOK, SlotOK
  <1>5. \A t \in Index : SlotOK(t, slot'[t], chain')
    BY <1>4, ClearedOK
  <1>6. OneSlotPerOrder'
    BY DEF GridIInv, OneSlotPerOrder, Placeholder
  <1> QED  BY <1>2, <1>5, <1>6 DEF GridIInv, SlotsOK

\* An order that a read shows is on the chain as it shows it.
LEMMA ReadsTrue ==
    ASSUME GridIInv, NEW book \in Books, NEW o \in Orders, Live(book, o)
    PROVE  /\ book[o] = chain[o] /\ chain[o].left > 0
           /\ chain[o].side \in {"buy", "sell"} /\ chain[o].side # None
  <1>1. book # Nothing
    <2>1. Nothing[o].left = 0
      BY DEF Nothing, NoOrder
    <2> QED  BY <2>1 DEF Live
  <1>2. book = chain
    BY <1>1 DEF Books
  <1> QED  BY <1>2 DEF Live, GridIInv, ChainTypes, None

\* The live orders of one level.
OnLevel(book, s) == {o \in Orders : Live(book, o) /\ book[o].level = s}

\* The loops pick a member of the set they look at.
LEMMA PickOne ==
    ASSUME NEW book, NEW pick \in Picks(book), NEW s \in Index,
           NEW S \in SUBSET OnLevel(book, s), S # {}
    PROVE  pick[S] \in S
  <1>1. S \in Groups(book)
    BY DEF Groups, OnLevel
  <1> QED  BY <1>1 DEF Picks

\* A twin is a live order of the level, with the booked size.
LEMMA PickTwin ==
    ASSUME NEW book, NEW pick \in Picks(book), NEW s \in Index, Twin(book, s) # {}
    PROVE  /\ pick[Twin(book, s)] \in Orders
           /\ Live(book, pick[Twin(book, s)]) /\ book[pick[Twin(book, s)]].level = s
           /\ book[pick[Twin(book, s)]].left = slot[s].size
  <1>1. Twin(book, s) \in SUBSET OnLevel(book, s)
    BY DEF Twin, OnLevel
  <1>2. pick[Twin(book, s)] \in Twin(book, s)
    BY <1>1, PickOne
  <1> QED  BY <1>2 DEF Twin

\* What the first pass makes of a slot: it keeps its order, loses it, or takes a twin, an
\* order that lives on its level.
LEMMA Pass1Slot ==
    ASSUME GridIInv, NEW book \in Books, NEW pick \in Picks(book), NEW young, NEW s \in Index,
           NEW g, g = Pass1(book, pick, young)
    PROVE  /\ SlotOK(s, g[s], chain)
           /\ \/ g[s].oid = slot[s].oid
              \/ g[s].oid = None
              \/ g[s].oid \in Orders /\ Live(book, g[s].oid) /\ book[g[s].oid].level = s
  <1>0. SlotOK(s, slot[s], chain)
    BY DEF GridIInv, SlotsOK
  <1>1. CASE Gone(book, s, young)
    <2>1. g[s] = Placeholder
      BY <1>1 DEF Pass1
    <2> QED  BY <2>1, ClearedOK DEF Placeholder
  <1>2. CASE ~Gone(book, s, young) /\ ~Resized(book, s)
    BY <1>0, <1>2 DEF Pass1
  <1>3. CASE ~Gone(book, s, young) /\ Resized(book, s)
    <2>0. slot[s].oid # None
      BY <1>3 DEF Resized, OnRead
    <2>1. CASE Twin(book, s) = {}
      <3>1. g[s] = Adjusted(book, s)
        BY <1>3, <2>1 DEF Pass1
      <3>2. PICK n, st : /\ Adjusted(book, s) = [slot[s] EXCEPT !.size = n, !.raw = n, !.state = st]
                         /\ st \in {"partial", slot[s].state}
        BY DEF Adjusted
      <3> QED
        BY <1>0, <2>0, <3>1, <3>2 DEF SlotOK, IsSlot
    <2>2. CASE Twin(book, s) # {}
      <3> DEFINE o == pick[Twin(book, s)]
      <3>1. g[s] = Rebound(book, s, o)
        BY <1>3, <2>2 DEF Pass1
      <3>2. o \in Orders /\ Live(book, o) /\ book[o].level = s
        BY <2>2, PickTwin
      <3>3. book[o] = chain[o] /\ chain[o].side # None
        BY <3>2, ReadsTrue
      <3> HIDE DEF o
      <3>4. PICK n, st : /\ Rebound(book, s, o) = [slot[s] EXCEPT !.oid = o, !.raw = n, !.state = st]
                         /\ st \in {"partial", slot[s].state}
        BY DEF Rebound
      <3>5. IsSlot(g[s]) /\ g[s].oid = o /\ g[s].state = st /\ g[s].type = slot[s].type
        BY <1>0, <3>1, <3>4 DEF SlotOK, IsSlot
      <3> QED
        BY <1>0, <2>0, <3>2, <3>3, <3>4, <3>5 DEF SlotOK
    <2> QED  BY <2>1, <2>2
  <1> QED  BY <1>1, <1>2, <1>3

\* After the first pass no order is held twice.
LEMMA Pass1Unique ==
    ASSUME GridIInv, NEW book \in Books, NEW pick \in Picks(book), NEW young,
           NEW g, g = Pass1(book, pick, young),
           NEW s \in Index, NEW t \in Index, g[s].oid # None, g[s].oid = g[t].oid
    PROVE  s = t
  <1> DEFINE o == g[s].oid
             Level(q) == o \in Orders /\ Live(book, o) /\ book[o].level = q
  <1>1. slot[s].oid = o \/ Level(s)
    BY Pass1Slot
  <1>2. slot[t].oid = o \/ Level(t)
    BY Pass1Slot
  <1>3. ASSUME NEW q \in Index, NEW r \in Index, slot[q].oid = o, Level(r)
        PROVE  q = r
    <2>1. chain[o].left > 0 /\ chain[o].level = r
      BY <1>3, ReadsTrue
    <2> QED  BY <1>3, <2>1 DEF GridIInv, SlotsOK, SlotOK
  <1> HIDE DEF o
  <1>4. CASE slot[s].oid = o /\ slot[t].oid = o
    BY <1>4 DEF GridIInv, OneSlotPerOrder, o
  <1> QED  BY <1>1, <1>2, <1>3, <1>4 DEF o

\* An adopted order is on its slot's level; a spread slot that is in use refuses it.
LEMMA AdoptedSlot ==
    ASSUME GridIInv, NEW book \in Books, NEW s \in Index, NEW q, SlotOK(s, q, chain),
           NEW o \in Orders, Live(book, o), book[o].level = s,
           NEW h, h = Adopt(book, q, o)
    PROVE  /\ SlotOK(s, h, chain)
           /\ \/ h.oid = o /\ h.size = book[o].left
              \/ h = q /\ q.type = "spread"
  <1>1. PICK st : /\ st \in {"active", "partial"}
                  /\ h = Applied(q, [q EXCEPT !.oid = o, !.size = book[o].left,
                                              !.raw = book[o].left, !.state = st])
    BY DEF Adopt
  <1> DEFINE new == [q EXCEPT !.oid = o, !.size = book[o].left, !.raw = book[o].left,
                              !.state = st]
  <1>2. /\ IsSlot(new) /\ new.type = q.type /\ new.state = st /\ new.oid = o
        /\ new.size = book[o].left
    <2>1. IsSlot(q)
      BY DEF SlotOK
    <2>2. new = Adopted(q, o, book[o].left, st)
      BY DEF Adopted
    <2> HIDE DEF new
    <2> QED  BY <2>1, <2>2, AdoptedWrites
  <1>3. chain[o].side # None /\ book[o] = chain[o]
    BY ReadsTrue
  <1>4. h = new \/ (h = q /\ q.type = "spread")
    BY <1>1, <1>2 DEF Applied
  <1> HIDE DEF new
  <1>5. SlotOK(s, new, chain)
    BY <1>1, <1>2, <1>3 DEF SlotOK
  <1> QED  BY <1>2, <1>4, <1>5

\* What the second pass makes of a slot.
LEMMA Pass2Slot ==
    ASSUME GridIInv, NEW book \in Books, NEW pick \in Picks(book), NEW s \in Index,
           NEW g, SlotOK(s, g[s], chain), NEW rest, rest = Rest(book, g),
           NEW h, h = Pass2(book, g, rest, pick)
    PROVE  /\ SlotOK(s, h[s], chain)
           /\ \/ h[s] = g[s]
              \/ /\ h[s].oid \in rest /\ book[h[s].oid].level = s
                 /\ g[s].oid = None
                 /\ h[s].size = book[h[s].oid].left
           /\ Adoptable(book, g, rest, s) = {} => h[s] = g[s]
           /\ Adoptable(book, g, rest, s) # {} =>
                \/ h[s].oid = pick[Adoptable(book, g, rest, s)]
                \/ h[s].type = "spread"
  <1> DEFINE these == Adoptable(book, g, rest, s)
             o == pick[these]
  <1>1. CASE these = {}
    BY <1>1 DEF Pass2
  <1>2. CASE these # {}
    <2>1. h[s] = Adopt(book, g[s], o)
      BY <1>2 DEF Pass2
    <2>2. rest \subseteq Orders /\ these \in SUBSET OnLevel(book, s)
      BY DEF Rest, Adoptable, OnLevel
    <2>3. o \in these
      BY <1>2, <2>2, PickOne
    <2>4. /\ o \in rest /\ o \in Orders /\ Live(book, o) /\ book[o].level = s /\ g[s].oid = None
      BY <2>2, <2>3 DEF Adoptable, Rest
    <2> HIDE DEF o, these
    <2>5. /\ SlotOK(s, h[s], chain)
          /\ \/ h[s].oid = o /\ h[s].size = book[o].left
             \/ h[s] = g[s] /\ g[s].type = "spread"
      BY <2>1, <2>4, AdoptedSlot
    <2> QED  BY <1>2, <2>4, <2>5 DEF o, these
  <1> QED  BY <1>1, <1>2

LEMMA SyncKeeps ==
    ASSUME GridIInv, NEW book \in Books, NEW young, NEW pick \in Picks(book), Sync(book, young, pick)
    PROVE  GridIInv'
  <1> DEFINE g == Pass1(book, pick, young)
             rest == Rest(book, g)
             h == Pass2(book, g, rest, pick)
  <1>1. slot' = h /\ UNCHANGED chain
    BY DEF Sync, network
  <1>2. \A s \in Index : SlotOK(s, g[s], chain)
    BY Pass1Slot
  <1>3. DOMAIN h = Index /\ h = [s \in Index |-> h[s]]
    BY DEF Pass2
  <1>4. \A s, t \in Index : g[s].oid # None /\ g[s].oid = g[t].oid => s = t
    BY Pass1Unique
  <1> HIDE DEF g, h
  <1>5. \A s \in Index : /\ SlotOK(s, h[s], chain)
                         /\ \/ h[s] = g[s]
                            \/ h[s].oid \in rest /\ book[h[s].oid].level = s
    BY <1>2, Pass2Slot DEF h
  <1>6. \A o \in rest : \A s \in Index : g[s].oid # o
    BY DEF Rest
  <1> HIDE DEF rest
  <1>7. ASSUME NEW s \in Index, NEW t \in Index, h[s].oid # None, h[s].oid = h[t].oid
        PROVE  s = t
    BY <1>4, <1>5, <1>6, <1>7
  <1> QED
    BY <1>1, <1>3, <1>5, <1>7 DEF GridIInv, ChainTypes, SlotsOK, OneSlotPerOrder

LEMMA FillsKeep ==
    ASSUME GridIInv, NEW k, NEW answers, HandleFills(k, answers) PROVE GridIInv'
  <1>1. slot' = [s \in Index |-> IF s \in Matched(k) THEN AfterFill(s, k, answers) ELSE slot[s]]
        /\ UNCHANGED chain
    BY DEF HandleFills
  <1>2. ASSUME NEW s \in Index
        PROVE  SlotOK(s, slot'[s], chain) /\ slot'[s].oid \in {slot[s].oid, None}
    <2>0. SlotOK(s, slot[s], chain)
      BY DEF GridIInv, SlotsOK
    <2>1. CASE s \notin Matched(k)
      BY <1>1, <2>0, <2>1
    <2>2. CASE s \in Matched(k) /\ Full(s, k, answers)
      BY <1>1, <2>2, ClearedOK DEF AfterFill, Placeholder
    <2>3. CASE s \in Matched(k) /\ ~Full(s, k, answers)
      <3>1. PICK n, w : slot'[s] = [slot[s] EXCEPT !.state = "partial", !.size = n, !.raw = w]
        <4>1. slot'[s] = AfterFill(s, k, answers)
          BY <1>1, <2>3
        <4>2. AfterFill(s, k, answers) =
                [slot[s] EXCEPT !.state = "partial", !.size = Remains(s, k, answers),
                   !.raw = IF slot[s].raw = -1 THEN slot[s].raw ELSE Remains(s, k, answers)]
          BY <2>3 DEF AfterFill
        <4> QED  BY <4>1, <4>2
      <3> QED  BY <2>0, <3>1 DEF SlotOK, IsSlot
    <2> QED  BY <2>1, <2>2, <2>3
  <1>3. OneSlotPerOrder'
    BY <1>2 DEF GridIInv, OneSlotPerOrder
  <1> QED
    BY <1>1, <1>2, <1>3 DEF GridIInv, ChainTypes, SlotsOK

LEMMA CorrectKeeps ==
    ASSUME GridIInv, NEW o \in Orders, NEW batched, Correct(o, batched) PROVE GridIInv'
  <1> DEFINE some == {queue[o]} \cap Index
  <1>1. Removed(o)
    BY DEF Correct
  <1>2. \E cleared \in {{}, some} :
           slot' = [s \in Index |-> IF s \in cleared THEN Placeholder ELSE slot[s]]
    <2>1. CASE slot' = slot
      <3>1. slot' = [s \in Index |-> IF s \in {} THEN Placeholder ELSE slot[s]]
        BY <2>1 DEF GridIInv, SlotsOK
      <3> QED  BY <3>1
    <2>2. CASE slot' = [slot EXCEPT ![queue[o]] = Placeholder]
      <3>1. slot' = [s \in Index |-> IF s \in some THEN Placeholder ELSE slot[s]]
        BY <2>2 DEF GridIInv, SlotsOK
      <3> QED  BY <3>1
    <2> QED  BY <2>1, <2>2 DEF Correct
  <1>3. {{}, some} \subseteq SUBSET Index
    OBVIOUS
  <1> QED  BY <1>1, <1>2, <1>3, RemovedKeeps

LEMMA CancelKeeps ==
    ASSUME GridIInv, NEW o \in Orders, NEW done, CancelResidual(o, done) PROVE GridIInv'
  <1>1. UNCHANGED slot /\ slot' = [s \in Index |-> IF s \in {} THEN Placeholder ELSE slot[s]]
    BY DEF CancelResidual, grid, GridIInv, SlotsOK
  <1>2. CASE Removed(o)
    <2>1. {} \in SUBSET Index
      OBVIOUS
    <2> QED  BY <1>1, <1>2, <2>1, RemovedKeeps
  <1>3. CASE UNCHANGED chain
    BY <1>1, <1>3 DEF GridIInv, ChainTypes, SlotsOK, OneSlotPerOrder
  <1> QED  BY <1>2, <1>3 DEF CancelResidual

LEMMA CommitKeeps ==
    ASSUME GridIInv, NEW creates \in {{}} \cup {{o} : o \in Orders}, Commit(creates)
    PROVE  GridIInv'
  <1> DEFINE g == [s \in Index |-> Retyped(slot[s], boundary', s)]
  <1>1. ASSUME NEW s \in Index
        PROVE  /\ IsSlot(g[s]) /\ g[s].oid = slot[s].oid /\ g[s].state = slot[s].state
               /\ g[s].type \in {"buy", "sell", "spread"} /\ SlotOK(s, g[s], chain)
    <2>1. SlotOK(s, slot[s], chain)
      BY DEF GridIInv, SlotsOK
    <2>2. RailOf(boundary', s) \in {"buy", "sell", "spread"}
      BY DEF RailOf
    <2>3. CASE g[s] = slot[s]
      BY <2>1, <2>3 DEF SlotOK
    <2>4. CASE g[s] = [slot[s] EXCEPT !.type = RailOf(boundary', s)]
      <3>1. /\ IsSlot(g[s]) /\ g[s].oid = slot[s].oid /\ g[s].state = slot[s].state
            /\ g[s].type = RailOf(boundary', s)
        BY <2>1, <2>4 DEF SlotOK, IsSlot
      <3> HIDE DEF g
      <3> QED  BY <2>1, <2>2, <3>1 DEF SlotOK
    <2> QED  BY <2>3, <2>4 DEF Retyped
  <1>2. \A s, t \in Index : g[s].oid # None /\ g[s].oid = g[t].oid => s = t
    <2> HIDE DEF g
    <2> QED  BY <1>1 DEF GridIInv, OneSlotPerOrder
  <1>3. CASE creates = {}
    <2>1. slot' = g /\ UNCHANGED chain
      BY <1>3 DEF Commit
    <2>2. DOMAIN g = Index /\ g = [s \in Index |-> g[s]]
      OBVIOUS
    <2> HIDE DEF g
    <2> QED  BY <1>1, <1>2, <2>1, <2>2 DEF GridIInv, ChainTypes, SlotsOK, OneSlotPerOrder
  <1>4. CASE creates # {}
    <2>1. PICK s \in Index, o \in creates :
             /\ ~Born(o) /\ g[s].type # "spread" /\ g[s].oid = None
             /\ slot' = [g EXCEPT ![s] = [g[s] EXCEPT !.state = "active", !.oid = o, !.size = MaxSize]]
             /\ chain' = [chain EXCEPT ![o] =
                   [level |-> s, side |-> g[s].type, left |-> MaxSize, new |-> TRUE]]
      BY <1>4 DEF Commit
    <2>2. o \in Orders
      OBVIOUS
    <2> DEFINE c == [level |-> s, side |-> g[s].type, left |-> MaxSize, new |-> TRUE]
               q == [g[s] EXCEPT !.state = "active", !.oid = o, !.size = MaxSize]
    <2>3. DOMAIN g = Index
      OBVIOUS
    <2> HIDE DEF g
    <2>4. /\ c \in ChainOrders /\ c.side \in {"buy", "sell"} /\ c.side # None
          /\ c.level = s /\ c.left = MaxSize
      BY <1>1, <2>1, IndexIsNat DEF ChainOrders, None
    <2>5. IsSlot(q) /\ q.oid = o /\ q.state = "active" /\ q.type = g[s].type
      <3>1. IsSlot(g[s])
        BY <1>1
      <3>2. q = Booked(g[s], o, MaxSize)
        BY DEF Booked
      <3> HIDE DEF q
      <3> QED  BY <3>1, <3>2, BookedWrites
    <2>6. chain' = [chain EXCEPT ![o] = c] /\ slot' = [g EXCEPT ![s] = q]
      BY <2>1
    <2> HIDE DEF c, q
    <2>7. ChainTypes' /\ \A p \in Orders : chain'[p] = IF p = o THEN c ELSE chain[p]
      BY <2>2, <2>4, <2>6 DEF GridIInv, ChainTypes
    <2>8. /\ DOMAIN slot' = Index /\ slot' = [t \in Index |-> slot'[t]]
          /\ \A t \in Index : slot'[t] = IF t = s THEN q ELSE g[t]
      BY <2>3, <2>6
    <2>9. \A t \in Index : g[t].oid # o
      BY <1>1, <2>1, <2>2, UnbornUnheld
    <2>10. SlotOK(s, q, chain')
      BY <1>1, <2>1, <2>2, <2>4, <2>5, <2>7 DEF SlotOK
    <2>11. ASSUME NEW t \in Index, t # s PROVE SlotOK(t, slot'[t], chain')
      BY <1>1, <2>7, <2>8, <2>9, <2>11 DEF SlotOK
    <2>12. OneSlotPerOrder'
      BY <1>2, <2>5, <2>8, <2>9 DEF OneSlotPerOrder
    <2> QED
      BY <2>7, <2>8, <2>10, <2>11, <2>12 DEF GridIInv, SlotsOK
  <1> QED  BY <1>3, <1>4

LEMMA GridStep == GridIInv /\ [Next]_vars => GridIInv'
  <1> SUFFICES ASSUME GridIInv, [Next]_vars PROVE GridIInv'
    OBVIOUS
  <1>1. ASSUME NEW o \in Orders, NEW n \in 1 .. MaxSize, ChainFill(o, n) PROVE GridIInv'
    BY <1>1, FillKeeps
  <1>2. ASSUME NEW o \in Orders, NEW s \in Index, NEW side \in {"buy", "sell"}, Land(o, s, side)
        PROVE  GridIInv'
    BY <1>2, LandKeeps
  <1>3. CASE LoseEvent \/ RefuseEmpty \/ UNCHANGED vars
    BY <1>3 DEF LoseEvent, RefuseEmpty, vars, grid, network, GridIInv, ChainTypes, SlotsOK,
       OneSlotPerOrder
  <1>4. ASSUME NEW book \in Books, NEW pick \in Picks(book), NEW young \in BOOLEAN, Sync(book, young, pick)
        PROVE  GridIInv'
    BY <1>4, SyncKeeps
  <1>5. ASSUME NEW k, NEW answers, HandleFills(k, answers) PROVE GridIInv'
    BY <1>5, FillsKeep
  <1>6. ASSUME NEW o \in Orders, NEW done, CancelResidual(o, done) PROVE GridIInv'
    BY <1>6, CancelKeeps
  <1>7. ASSUME NEW o \in Orders, NEW batched, Correct(o, batched) PROVE GridIInv'
    BY <1>7, CorrectKeeps
  <1>8. ASSUME NEW creates \in {{}} \cup {{o} : o \in Orders}, Commit(creates) PROVE GridIInv'
    BY <1>8, CommitKeeps
  <1> QED
    BY <1>1, <1>2, <1>3, <1>4, <1>5, <1>6, <1>7, <1>8 DEF Next, Chain, Bot

(***************************************************************************)
(* For any grid, gap and orders: no order of the chain is bound to two     *)
(* slots, whatever is adopted, rebound to a twin, placed or lands late     *)
(* (_performSyncFromOpenOrders() and the commits beside it).               *)
(***************************************************************************)
THEOREM BoundOnce == Spec => []OneSlotPerOrder
  <1>1. GridIInv => OneSlotPerOrder
    BY DEF GridIInv
  <1> QED  BY <1>1, GridStarts, GridStep, PTL DEF Spec

\* After the first pass over a true read, a slot with an order shows the size of the chain
\* or stands on the wrong side.
LEMMA Pass1Agrees ==
    ASSUME GridIInv, NEW pick \in Picks(chain), NEW s \in Index,
           NEW g, g = Pass1(chain, pick, FALSE), g[s].oid # None
    PROVE  /\ g[s].oid \in Orders /\ Live(chain, g[s].oid)
           /\ \/ chain[g[s].oid].left = g[s].size
              \/ Mismatched(chain, s) /\ slot[s].oid = g[s].oid
  <1>0. SlotOK(s, slot[s], chain)
    BY DEF GridIInv, SlotsOK
  <1>1. ~Gone(chain, s, FALSE)
    BY DEF Pass1, Placeholder
  <1>2. CASE ~Resized(chain, s)
    <2>1. g[s] = slot[s]
      BY <1>1, <1>2 DEF Pass1
    <2>2. OnRead(chain, s)
      BY <1>0, <1>1, <2>1 DEF Gone, SlotOK
    <2> QED  BY <1>0, <1>2, <2>1, <2>2 DEF Resized, OnRead, SlotOK
  <1>3. CASE Resized(chain, s) /\ Twin(chain, s) = {}
    <2> DEFINE n == chain[slot[s].oid].left
    <2>1. g[s] = Adjusted(chain, s)
      BY <1>1, <1>3 DEF Pass1
    <2>2. PICK st : Adjusted(chain, s) = [slot[s] EXCEPT !.size = n, !.raw = n, !.state = st]
      BY DEF Adjusted
    <2>3. slot[s].oid # None /\ Live(chain, slot[s].oid)
      BY <1>3 DEF Resized, OnRead
    <2> HIDE DEF n
    <2>4. g[s].oid = slot[s].oid /\ g[s].size = n
      BY <1>0, <2>1, <2>2 DEF SlotOK, IsSlot
    <2> QED  BY <1>0, <2>3, <2>4 DEF SlotOK, n
  <1>4. CASE Resized(chain, s) /\ Twin(chain, s) # {}
    <2> DEFINE o == pick[Twin(chain, s)]
    <2>1. g[s] = Rebound(chain, s, o)
      BY <1>1, <1>4 DEF Pass1
    <2>2. o \in Orders /\ Live(chain, o) /\ chain[o].left = slot[s].size
      BY <1>4, PickTwin
    <2> HIDE DEF o
    <2>3. PICK n, st : Rebound(chain, s, o) = [slot[s] EXCEPT !.oid = o, !.raw = n, !.state = st]
      BY DEF Rebound
    <2>4. g[s].oid = o /\ g[s].size = slot[s].size
      BY <1>0, <2>1, <2>3 DEF SlotOK, IsSlot
    <2> QED  BY <2>2, <2>4
  <1> QED  BY <1>2, <1>3, <1>4

\* An order that stands on the wrong side is queued.
LEMMA MismatchQueued ==
    ASSUME NEW book, NEW h, NEW left, NEW s \in Index, Mismatched(book, s),
           slot[s].oid \in Orders
    PROVE  Queued(book, h, left)[slot[s].oid] # NoEntry
  <1> DEFINE o == slot[s].oid
             t == CHOOSE t \in Index : Mismatched(book, t) /\ slot[t].oid = o
  <1>1. t \in Index
    OBVIOUS
  <1>2. t # NoEntry /\ CancelOnly # NoEntry
    <2>1. t \in Nat
      BY <1>1, IndexIsNat
    <2> HIDE DEF t
    <2> QED  BY <2>1 DEF NoEntry, CancelOnly
  <1>3. Queued(book, h, left)[o] \in {CancelOnly, t}
    BY DEF Queued
  <1> QED  BY <1>2, <1>3

LEMMA TrueReadSettles ==
    ASSUME GridIInv, NEW pick \in Picks(chain), Sync(chain, FALSE, pick)
    PROVE  InAccord'
  <1> DEFINE g == Pass1(chain, pick, FALSE)
             rest == Rest(chain, g)
             h == Pass2(chain, g, rest, pick)
             left == Unmatched(chain, g, rest, pick)
             q == Queued(chain, h, left)
  <1>1. chain' = chain /\ slot' = h /\ unmatched' = left /\ queue' = q
    BY DEF Sync, network
  <1>2. chain \in Books
    BY DEF Books
  <1>3. \A s \in Index : SlotOK(s, g[s], chain)
    BY <1>2, Pass1Slot
  <1>4. ASSUME NEW s \in Index, g[s].oid # None
        PROVE  /\ g[s].oid \in Orders /\ Live(chain, g[s].oid)
               /\ chain[g[s].oid].left = g[s].size \/ q[g[s].oid] # NoEntry
    <2>1. /\ g[s].oid \in Orders /\ Live(chain, g[s].oid)
          /\ \/ chain[g[s].oid].left = g[s].size
             \/ Mismatched(chain, s) /\ slot[s].oid = g[s].oid
      BY <1>4, Pass1Agrees
    <2>2. Mismatched(chain, s) /\ slot[s].oid \in Orders => q[slot[s].oid] # NoEntry
      BY MismatchQueued
    <2> HIDE DEF g, q
    <2> QED  BY <2>1, <2>2
  <1>5. ASSUME NEW s \in Index
        PROVE  /\ \/ h[s] = g[s]
                  \/ /\ h[s].oid \in rest /\ chain[h[s].oid].level = s
                     /\ g[s].oid = None
                     /\ h[s].size = chain[h[s].oid].left
               /\ Adoptable(chain, g, rest, s) # {} =>
                     \/ h[s].oid = pick[Adoptable(chain, g, rest, s)]
                     \/ h[s].type = "spread"
    <2> HIDE DEF g
    <2> QED  BY <1>2, <1>3, Pass2Slot
  <1>6. \A o \in rest : o \in Orders /\ Live(chain, o)
    BY DEF Rest
  <1>7. \A o \in Orders : Live(chain, o) => o \in rest \/ \E s \in Index : g[s].oid = o
    BY DEF Rest
  <1>8. ASSUME NEW o \in rest, o \notin left
        PROVE  \E s \in Index : /\ Adoptable(chain, g, rest, s) # {}
                                /\ o = pick[Adoptable(chain, g, rest, s)]
                                /\ chain[o].level = s
    <2>1. PICK s \in Index : /\ Adoptable(chain, g, rest, s) # {}
                             /\ o = pick[Adoptable(chain, g, rest, s)]
      BY <1>8 DEF Unmatched
    <2>2. Adoptable(chain, g, rest, s) \in SUBSET OnLevel(chain, s)
      BY <1>6 DEF Adoptable, OnLevel
    <2>3. o \in Adoptable(chain, g, rest, s)
      BY <2>1, <2>2, PickOne
    <2> QED  BY <2>1, <2>3 DEF Adoptable
  <1> HIDE DEF g, rest, h, left, q
  <1>9. ASSUME NEW s \in Index, h[s].oid # None
        PROVE  \/ Live(chain, h[s].oid) /\ chain[h[s].oid].left = h[s].size
               \/ q[h[s].oid] # NoEntry
    BY <1>4, <1>5, <1>6, <1>9
  <1>10. ASSUME NEW o \in Orders, Live(chain, o)
         PROVE  \/ o \in left
                \/ \E s \in Index : h[s].oid = o
                \/ h[chain[o].level].type = "spread"
    <2>1. CASE \E s \in Index : g[s].oid = o
      <3>1. o # None
        BY IndexIsNat
      <3> QED  BY <1>5, <2>1, <3>1
    <2>2. CASE o \in rest
      BY <1>5, <1>8, <2>2
    <2> QED  BY <1>7, <1>10, <2>1, <2>2
  <1> QED
    BY <1>1, <1>9, <1>10 DEF InAccord, Agrees, Accounted, Live

(***************************************************************************)
(* For any grid, gap and orders: a true read outside the commit window     *)
(* leaves every slot with the size the chain shows or queued, and every    *)
(* order of the chain held, listed, or on a level of the gap               *)
(* (syncFromOpenOrders(), both passes).                                    *)
(***************************************************************************)
THEOREM ReadsSettle == Spec => SyncSettles
  <1>1. ASSUME GridIInv, [Next]_vars
        PROVE  [~InAccord' => ~\E pick \in Picks(chain) : Sync(chain, FALSE, pick)]_vars
    BY <1>1, TrueReadSettles
  <1> QED  BY <1>1, GridStarts, GridStep, PTL DEF Spec, SyncSettles

-----------------------------------------------------------------------------
\* The slots of untouched orders.

\* A fill event names an order that is not new any more.
Used(book, o) == book[o].side # None /\ (Live(book, o) => ~book[o].new)
EventsOK ==
    /\ events \in Seq([oid : Orders, amount : Nat])
    /\ \A k \in DOMAIN events : Used(chain, events[k].oid)

\* An order is queued for a slot, or to be cancelled only.
QueueOK == queue \in [Orders -> Index \cup {NoEntry, CancelOnly}]

KeepIInv == GridIInv /\ EventsOK /\ QueueOK

\* What the property says of one step.
Keeps == \A s \in Index : \A o \in Orders :
    slot[s].oid = o /\ Live(chain', o) /\ chain'[o].new /\ slot'[s].oid = None
        => Believed \/ Overtaken(s, o)

\* The initial state satisfies the invariant.
LEMMA KeepStarts == Init => KeepIInv
  <1> SUFFICES ASSUME Init PROVE KeepIInv
    OBVIOUS
  <1>1. GridIInv
    BY GridStarts
  <1>2. EventsOK
    BY DEF Init, EventsOK
  <1>3. QueueOK
    BY DEF Init, QueueOK
  <1> QED  BY <1>1, <1>2, <1>3 DEF KeepIInv

\* How the chain moves: an order that has been there stays as it is, goes, or is filled in part.
Moves == \A p \in Orders : Born(p) =>
    /\ chain'[p].side # None
    /\ \/ chain'[p] = chain[p]
       \/ ~Live(chain', p)
       \/ Live(chain, p) /\ chain'[p].side = chain[p].side /\ ~chain'[p].new

\* A chain that does not move.
LEMMA Stays == ASSUME UNCHANGED chain PROVE Moves
  BY DEF Moves, Born

\* Events that stay and events of orders that are filled.
LEMMA EventsKeep ==
    ASSUME EventsOK, Moves, events' \in Seq([oid : Orders, amount : Nat]),
           \A k \in DOMAIN events' :
               (\E l \in DOMAIN events : events'[k] = events[l]) \/ Used(chain', events'[k].oid)
    PROVE  EventsOK'
  <1>1. ASSUME NEW o \in Orders, Used(chain, o) PROVE Used(chain', o)
    BY <1>1 DEF Moves, Born, Used, Live
  <1>2. ASSUME NEW k \in DOMAIN events' PROVE Used(chain', events'[k].oid)
    <2>1. CASE \E l \in DOMAIN events : events'[k] = events[l]
      <3>1. PICK l \in DOMAIN events : events'[k] = events[l]
        BY <2>1
      <3>2. events \in Seq([oid : Orders, amount : Nat]) /\ Used(chain, events[l].oid)
        BY DEF EventsOK
      <3> DEFINE E == [oid : Orders, amount : Nat]
      <3>3. \A e \in E : e.oid \in Orders
        OBVIOUS
      <3> HIDE DEF E
      <3>4. events[l] \in E
        <4>1. events \in Seq(E)
          BY <3>2 DEF E
        <4>2. l \in 1 .. Len(events)
          BY <4>1
        <4> QED  BY <4>1, <4>2, SeqElement
      <3> QED  BY <1>1, <3>1, <3>2, <3>3, <3>4
    <2> QED  BY <1>2, <2>1
  <1> QED  BY <1>2 DEF EventsOK

\* A fill makes its order used and keeps the slots.
LEMMA ChainFillKeeps ==
    ASSUME KeepIInv, NEW o \in Orders, NEW n \in 1 .. MaxSize, ChainFill(o, n)
    PROVE  EventsOK' /\ QueueOK' /\ Keeps
  <1>1. /\ Live(chain, o) /\ n \in 1 .. chain[o].left /\ UNCHANGED <<slot, queue>>
        /\ chain' = [chain EXCEPT ![o] = IF chain[o].left = n THEN Dead
                                         ELSE [chain[o] EXCEPT !.left = chain[o].left - n, !.new = FALSE]]
        /\ events' = Append(events, [oid |-> o, amount |-> n])
    BY DEF ChainFill, grid
  <1>2. /\ chain \in [Orders -> ChainOrders] /\ chain[o].side # None
        /\ Dead.left = 0 /\ Dead.side # None
    BY <1>1, DeadOrder DEF KeepIInv, GridIInv, ChainTypes, Live, None
  <1>3. \A p \in Orders \ {o} : chain'[p] = chain[p]
    BY <1>1, <1>2
  <1>4. /\ chain'[o].side # None
        /\ chain'[o].left = 0 \/ (chain'[o].side = chain[o].side /\ ~chain'[o].new)
    <2>1. CASE chain[o].left = n
      <3>1. chain'[o] = Dead
        BY <1>1, <1>2, <2>1
      <3> QED  BY <1>2, <3>1
    <2>2. CASE chain[o].left # n
      <3>1. chain'[o] = [chain[o] EXCEPT !.left = chain[o].left - n, !.new = FALSE]
        BY <1>1, <1>2, <2>2
      <3> QED  BY <1>2, <3>1 DEF ChainOrders
    <2> QED  BY <2>1, <2>2
  <1>5. Moves
    <2> SUFFICES ASSUME NEW p \in Orders, Born(p)
                 PROVE  /\ chain'[p].side # None
                        /\ \/ chain'[p] = chain[p]
                           \/ ~Live(chain', p)
                           \/ Live(chain, p) /\ chain'[p].side = chain[p].side /\ ~chain'[p].new
      BY DEF Moves
    <2>1. CASE p = o
      BY <1>1, <1>4, <2>1 DEF Born, Live
    <2>2. CASE p # o
      BY <1>3, <2>2 DEF Born
    <2> QED  BY <2>1, <2>2
  <1>6. EventsOK'
    <2> DEFINE e == [oid |-> o, amount |-> n]
    <2>1. n \in Nat /\ e \in [oid : Orders, amount : Nat] /\ e.oid = o
      BY IndexIsNat
    <2>2. events \in Seq([oid : Orders, amount : Nat]) /\ events' = Append(events, e)
      BY <1>1 DEF KeepIInv, EventsOK
    <2> HIDE DEF e
    <2>3. /\ events' \in Seq([oid : Orders, amount : Nat])
          /\ \A k \in DOMAIN events' : events'[k] = e \/ \E l \in DOMAIN events : events'[k] = events[l]
      BY <2>1, <2>2
    <2>4. Used(chain', e.oid)
      BY <1>4, <2>1 DEF Used, Live
    <2> QED  BY <1>5, <2>3, <2>4, EventsKeep DEF KeepIInv
  <1>7. QueueOK'
    BY <1>1 DEF KeepIInv, QueueOK
  <1>8. Keeps
    BY <1>1, IndexIsNat DEF Keeps
  <1> QED  BY <1>6, <1>7, <1>8

\* An order that lands late was not on the chain before, so no event and no slot names it.
LEMMA LandKeepsSlots ==
    ASSUME KeepIInv, NEW o \in Orders, NEW s \in Index, NEW side \in {"buy", "sell"}, Land(o, s, side)
    PROVE  EventsOK' /\ QueueOK' /\ Keeps
  <1>1. ~Born(o) /\ UNCHANGED <<slot, queue, events>> /\ \A p \in Orders \ {o} : chain'[p] = chain[p]
    BY DEF Land, grid, KeepIInv, GridIInv, ChainTypes
  <1>2. Moves
    BY <1>1 DEF Moves, Born
  <1>3. EventsOK'
    BY <1>1, <1>2, EventsKeep DEF KeepIInv, EventsOK
  <1>4. QueueOK'
    BY <1>1 DEF KeepIInv, QueueOK
  <1> QED  BY <1>1, <1>3, <1>4, IndexIsNat DEF Keeps

\* Lost events and refused reads change no slot.
LEMMA QuietKeepsSlots ==
    ASSUME KeepIInv, LoseEvent \/ RefuseEmpty \/ UNCHANGED vars
    PROVE  EventsOK' /\ QueueOK' /\ Keeps
  <1>1. UNCHANGED <<slot, queue, chain>> /\ (UNCHANGED events \/ (events # <<>> /\ events' = Tail(events)))
    BY DEF LoseEvent, RefuseEmpty, vars, grid, network
  <1>2. Moves
    BY <1>1, Stays
  <1>3. EventsOK'
    <2>1. events \in Seq([oid : Orders, amount : Nat])
      BY DEF KeepIInv, EventsOK
    <2>2. /\ events' \in Seq([oid : Orders, amount : Nat])
          /\ \A k \in DOMAIN events' : \E l \in DOMAIN events : events'[k] = events[l]
      <3>1. CASE UNCHANGED events
        BY <2>1, <3>1
      <3>2. CASE events # <<>> /\ events' = Tail(events)
        <4>1. /\ Tail(events) \in Seq([oid : Orders, amount : Nat]) /\ Len(Tail(events)) = Len(events) - 1
              /\ \A k \in 1 .. Len(Tail(events)) : Tail(events)[k] = events[k + 1]
          BY <2>1, <3>2
        <4>2. \A k \in 1 .. Len(Tail(events)) : k + 1 \in DOMAIN events
          BY <2>1, <4>1
        <4> QED  BY <3>2, <4>1, <4>2
      <3> QED  BY <1>1, <3>1, <3>2
    <2> QED  BY <1>2, <2>2, EventsKeep DEF KeepIInv
  <1>4. QueueOK'
    BY <1>1 DEF KeepIInv, QueueOK
  <1> QED  BY <1>1, <1>3, <1>4, IndexIsNat DEF Keeps

\* A sync that empties a live slot believes an empty read.
LEMMA SyncKeepsSlots ==
    ASSUME KeepIInv,
           NEW book \in Books, NEW young, NEW pick \in Picks(book), Sync(book, young, pick)
    PROVE  EventsOK' /\ QueueOK' /\ Keeps
  <1> DEFINE g == Pass1(book, pick, young)
             rest == Rest(book, g)
             h == Pass2(book, g, rest, pick)
  <1>1. GridIInv /\ EventsOK /\ QueueOK
    BY DEF KeepIInv
  <1>2. /\ slot' = h /\ UNCHANGED <<chain, events>> /\ queue' = Queued(book, h, Unmatched(book, g, rest, pick))
        /\ ~Suspect(book) /\ suspect' = 0
    BY DEF Sync, network
  <1>3. Moves /\ EventsOK'
    BY <1>1, <1>2, Stays, EventsKeep DEF EventsOK
  <1>4. \A s \in Index : SlotOK(s, slot[s], chain) /\ SlotOK(s, g[s], chain)
    BY <1>1, Pass1Slot DEF GridIInv, SlotsOK
  <1> HIDE DEF g
  <1>5. QueueOK'
    <2> DEFINE left == Unmatched(book, g, rest, pick)
    <2>1. queue' = Queued(book, h, left)
      BY <1>2
    <2> HIDE DEF left, h
    <2>2. queue' = [o \in Orders |-> queue'[o]]
      BY <2>1 DEF Queued
    <2>3. ASSUME NEW o \in Orders
          PROVE  \/ queue'[o] \in {CancelOnly, queue[o]}
                 \/ queue'[o] \in Index
      BY <2>1 DEF Queued
    <2>4. \A o \in Orders : queue'[o] \in Index \cup {NoEntry, CancelOnly}
      BY <1>1, <2>3 DEF QueueOK
    <2> QED  BY <2>2, <2>4 DEF QueueOK
  <1>6. Keeps
    <2> SUFFICES ASSUME NEW s \in Index, NEW o \in Orders, slot[s].oid = o, Live(chain', o), ~Believed
                 PROVE  slot'[s].oid # None
      BY DEF Keeps
    <2>1. Live(chain, o) /\ o # None
      BY <1>2, IndexIsNat
    <2>2. book = chain
      <3> SUFFICES ASSUME book # chain PROVE FALSE
        OBVIOUS
      <3>1. book = Nothing /\ suspect' = 0
        BY <1>2 DEF Books
      <3>2. \A p \in Orders : ~Live(book, p)
        BY <3>1 DEF Nothing, NoOrder, Live
      <3>3. Holds(s)
        BY <2>1 DEF Holds
      <3>4. suspect + 1 < EmptyLimit
        BY <3>1 DEF Believed
      <3> QED  BY <1>2, <3>2, <3>3, <3>4 DEF Suspect
    <2>3. ~Gone(book, s, young)
      BY <2>1, <2>2 DEF Gone, OnRead
    <2>4. g[s].oid # None
      <3>1. CASE ~Resized(book, s)
        BY <2>1, <2>3, <3>1 DEF Pass1, g
      <3>2. CASE Resized(book, s) /\ Twin(book, s) = {}
        <4>1. g[s] = Adjusted(book, s)
          BY <2>3, <3>2 DEF Pass1, g
        <4>2. PICK n, st : Adjusted(book, s) = [slot[s] EXCEPT !.size = n, !.raw = n, !.state = st]
          BY DEF Adjusted
        <4>3. IsSlot(slot[s])
          BY <1>4 DEF SlotOK
        <4> QED  BY <2>1, <4>1, <4>2, <4>3 DEF IsSlot
      <3>3. CASE Resized(book, s) /\ Twin(book, s) # {}
        <4> DEFINE p == pick[Twin(book, s)]
        <4>1. g[s] = Rebound(book, s, p)
          BY <2>3, <3>3 DEF Pass1, g
        <4>2. p \in Orders
          BY <3>3, PickTwin
        <4> HIDE DEF p
        <4>3. PICK n, st : Rebound(book, s, p) = [slot[s] EXCEPT !.oid = p, !.raw = n, !.state = st]
          BY DEF Rebound
        <4>4. IsSlot(slot[s])
          BY <1>4 DEF SlotOK
        <4> QED  BY <4>1, <4>2, <4>3, <4>4, IndexIsNat DEF IsSlot
      <3> QED  BY <3>1, <3>2, <3>3
    <2>5. h[s] = g[s]
      BY <1>1, <1>4, <2>4, Pass2Slot
    <2> QED  BY <1>2, <2>4, <2>5
  <1> QED  BY <1>3, <1>5, <1>6

\* A batch of fills leaves the slots of other orders alone.
LEMMA FilledSlot ==
    ASSUME GridIInv, NEW k, NEW answers, HandleFills(k, answers), NEW s \in Index
    PROVE  s \notin Matched(k) => slot'[s] = slot[s]
  BY DEF HandleFills

\* Fill events clear only slots of orders that somebody took from.
LEMMA FillsKeepSlots ==
    ASSUME KeepIInv, NEW k \in 1 .. MaxEvents, NEW answers, HandleFills(k, answers)
    PROVE  EventsOK' /\ QueueOK' /\ Keeps
  <1>1. GridIInv /\ EventsOK /\ QueueOK
    BY DEF KeepIInv
  <1>2. k \in 1 .. Len(events) /\ events' = SubSeq(events, k + 1, Len(events)) /\ UNCHANGED <<chain, queue>>
    BY DEF HandleFills
  <1>3. Moves
    BY <1>2, Stays
  <1>4. events \in Seq([oid : Orders, amount : Nat])
    BY <1>1 DEF EventsOK
  <1>5. EventsOK'
    <2>1. k \in Nat /\ k <= Len(events) /\ Len(events) \in Nat
      BY <1>2, <1>4
    <2>2. /\ events' \in Seq([oid : Orders, amount : Nat]) /\ Len(events') = Len(events) - k
          /\ \A i \in 1 .. (Len(events) - k) : events'[i] = events[k + i]
      BY <1>2, <1>4, <2>1, Drop
    <2>3. \A i \in 1 .. (Len(events) - k) : k + i \in 1 .. Len(events)
      BY <2>1
    <2>4. DOMAIN events' = 1 .. (Len(events) - k) /\ DOMAIN events = 1 .. Len(events)
      BY <1>4, <2>2
    <2>5. \A i \in DOMAIN events' : \E l \in DOMAIN events : events'[i] = events[l]
      BY <2>2, <2>3, <2>4
    <2> QED  BY <1>1, <1>3, <2>2, <2>5, EventsKeep
  <1>6. QueueOK'
    BY <1>1, <1>2 DEF QueueOK
  <1>7. Keeps
    <2> SUFFICES ASSUME NEW s \in Index, NEW o \in Orders, slot[s].oid = o, Live(chain', o), chain'[o].new
                 PROVE  slot'[s].oid # None
      BY DEF Keeps
    <2>1. Live(chain, o) /\ chain[o].new /\ o # None
      BY <1>2, IndexIsNat
    <2>2. s \notin Matched(k)
      <3> SUFFICES ASSUME NEW i \in 1 .. k, events[i].oid = o PROVE FALSE
        BY DEF Matched, Batch
      <3>1. i \in DOMAIN events
        BY <1>2, <1>4
      <3> QED  BY <1>1, <2>1, <3>1 DEF EventsOK, Used
    <2> QED  BY <1>1, <2>1, <2>2, FilledSlot
  <1> QED  BY <1>5, <1>6, <1>7

\* A cancelled order goes, and the slot that is cleared is the one it was queued for.
LEMMA CorrectKeepsSlots ==
    ASSUME KeepIInv, NEW o \in Orders, NEW batched, Correct(o, batched)
    PROVE  EventsOK' /\ QueueOK' /\ Keeps
  <1>1. GridIInv /\ EventsOK /\ QueueOK
    BY DEF KeepIInv
  <1>2. /\ chain' = [chain EXCEPT ![o] = Dead] /\ UNCHANGED events
        /\ queue[o] # NoEntry /\ queue' = [queue EXCEPT ![o] = NoEntry]
        /\ slot' = IF queue[o] = CancelOnly \/ ~(Live(chain, o) \/ batched) THEN slot
                   ELSE [slot EXCEPT ![queue[o]] = Placeholder]
    BY DEF Correct, Removed
  <1>3. /\ \A p \in Orders : chain'[p] = IF p = o THEN Dead ELSE chain[p]
        /\ ~Live(chain', o) /\ chain'[o].side # None
    BY <1>1, <1>2, DeadOrder DEF GridIInv, ChainTypes, Live
  <1>4. Moves
    BY <1>3 DEF Moves, Born
  <1>5. EventsOK'
    BY <1>1, <1>2, <1>4, EventsKeep DEF EventsOK
  <1>6. \A s \in Index : slot'[s] = slot[s] \/ (slot'[s] = Placeholder /\ queue[o] = s)
    <2>1. DOMAIN slot = Index
      BY <1>1 DEF GridIInv, SlotsOK
    <2>2. CASE slot' = slot
      BY <2>2
    <2>3. CASE slot' = [slot EXCEPT ![queue[o]] = Placeholder]
      BY <2>1, <2>3
    <2> QED  BY <1>2, <2>2, <2>3
  <1>7. QueueOK'
    BY <1>1, <1>2 DEF QueueOK
  <1>8. Keeps
    <2> SUFFICES ASSUME NEW s \in Index, NEW p \in Orders,
                        slot[s].oid = p, Live(chain', p), slot'[s].oid = None
                 PROVE  Overtaken(s, p)
      BY DEF Keeps
    <2>1. p # o /\ p # None
      BY <1>3, IndexIsNat
    <2>2. queue[o] = s
      BY <1>6, <2>1
    <2>3. queue'[o] = NoEntry
      BY <1>1, <1>2 DEF QueueOK
    <2> QED  BY <2>1, <2>2, <2>3 DEF Overtaken
  <1> QED  BY <1>5, <1>7, <1>8

\* The cancel of a rest changes no slot.
LEMMA CancelKeepsSlots ==
    ASSUME KeepIInv, NEW o \in Orders, NEW done, CancelResidual(o, done)
    PROVE  EventsOK' /\ QueueOK' /\ Keeps
  <1>1. GridIInv /\ EventsOK /\ QueueOK /\ UNCHANGED <<slot, events, queue>>
    BY DEF KeepIInv, CancelResidual, grid
  <1>2. Moves
    <2>1. CASE UNCHANGED chain
      BY <2>1, Stays
    <2>2. CASE chain' = [chain EXCEPT ![o] = Dead]
      <3>1. /\ \A p \in Orders : chain'[p] = IF p = o THEN Dead ELSE chain[p]
            /\ ~Live(chain', o) /\ chain'[o].side # None
        BY <1>1, <2>2, DeadOrder DEF GridIInv, ChainTypes, Live
      <3> QED  BY <3>1 DEF Moves, Born
    <2> QED  BY <2>1, <2>2 DEF CancelResidual, Removed
  <1>3. EventsOK'
    BY <1>1, <1>2, EventsKeep DEF EventsOK
  <1>4. QueueOK'
    BY <1>1 DEF QueueOK
  <1> QED  BY <1>1, <1>3, <1>4, IndexIsNat DEF Keeps

\* Roles change types, not orders, and a create takes a free slot.
LEMMA CommitKeepsSlots ==
    ASSUME KeepIInv, NEW creates \in {{}} \cup {{o} : o \in Orders}, Commit(creates)
    PROVE  EventsOK' /\ QueueOK' /\ Keeps
  <1> DEFINE g == [s \in Index |-> Retyped(slot[s], boundary', s)]
  <1>1. GridIInv /\ EventsOK /\ QueueOK /\ UNCHANGED <<events, queue>>
    BY DEF KeepIInv, Commit
  <1>4. QueueOK'
    BY <1>1 DEF QueueOK
  <1>5. ASSUME NEW s \in Index PROVE IsSlot(g[s]) /\ g[s].oid = slot[s].oid
    <2>1. IsSlot(slot[s])
      BY <1>1 DEF GridIInv, SlotsOK, SlotOK
    <2>2. g[s] = slot[s] \/ g[s] = [slot[s] EXCEPT !.type = RailOf(boundary', s)]
      BY DEF Retyped
    <2> HIDE DEF g
    <2> QED  BY <2>1, <2>2 DEF IsSlot
  <1>6. DOMAIN g = Index
    OBVIOUS
  <1>7. CASE creates = {}
    <2>1. slot' = g /\ UNCHANGED chain
      BY <1>7 DEF Commit
    <2> HIDE DEF g
    <2>2. EventsOK'
      BY <1>1, <2>1, Stays, EventsKeep DEF EventsOK
    <2> QED  BY <1>4, <1>5, <2>1, <2>2, IndexIsNat DEF Keeps
  <1>8. CASE creates # {}
    <2>1. PICK s \in Index, o \in creates :
             /\ ~Born(o)
             /\ slot' = [g EXCEPT ![s] = [g[s] EXCEPT !.state = "active", !.oid = o, !.size = MaxSize]]
             /\ chain' = [chain EXCEPT ![o] =
                   [level |-> s, side |-> g[s].type, left |-> MaxSize, new |-> TRUE]]
      BY <1>8 DEF Commit
    <2> DEFINE q == [g[s] EXCEPT !.state = "active", !.oid = o, !.size = MaxSize]
    <2>2. o \in Orders /\ slot' = [g EXCEPT ![s] = q]
      BY <2>1
    <2> HIDE DEF g
    <2>3. q.oid = o
      <3>1. q = Booked(g[s], o, MaxSize)
        BY DEF Booked
      <3> HIDE DEF q
      <3> QED  BY <1>5, <3>1, BookedWrites
    <2> HIDE DEF q
    <2>4. Moves
      <3>1. \A p \in Orders \ {o} : chain'[p] = chain[p]
        BY <1>1, <2>1 DEF GridIInv, ChainTypes
      <3> QED  BY <2>1, <3>1 DEF Moves, Born
    <2>5. EventsOK'
      BY <1>1, <2>4, EventsKeep DEF EventsOK
    <2>6. \A t \in Index : slot'[t] = IF t = s THEN q ELSE g[t]
      BY <1>6, <2>2
    <2> QED  BY <1>4, <1>5, <2>2, <2>3, <2>5, <2>6, IndexIsNat DEF Keeps
  <1> QED  BY <1>7, <1>8

\* Every step keeps the invariant and the slots of untouched orders.
LEMMA KeepStep == KeepIInv /\ [Next]_vars => KeepIInv' /\ Keeps
  <1> SUFFICES ASSUME KeepIInv, [Next]_vars PROVE EventsOK' /\ QueueOK' /\ Keeps
    BY GridStep DEF KeepIInv
  <1>1. ASSUME NEW o \in Orders, NEW n \in 1 .. MaxSize, ChainFill(o, n)
        PROVE  EventsOK' /\ QueueOK' /\ Keeps
    BY <1>1, ChainFillKeeps
  <1>2. ASSUME NEW o \in Orders, NEW s \in Index, NEW side \in {"buy", "sell"}, Land(o, s, side)
        PROVE  EventsOK' /\ QueueOK' /\ Keeps
    BY <1>2, LandKeepsSlots
  <1>3. CASE LoseEvent \/ RefuseEmpty \/ UNCHANGED vars
    BY <1>3, QuietKeepsSlots
  <1>4. ASSUME NEW book \in Books, NEW pick \in Picks(book), NEW young \in BOOLEAN, Sync(book, young, pick)
        PROVE  EventsOK' /\ QueueOK' /\ Keeps
    BY <1>4, SyncKeepsSlots
  <1>5. ASSUME NEW k \in 1 .. MaxEvents, NEW answers \in BOOLEAN, HandleFills(k, answers)
        PROVE  EventsOK' /\ QueueOK' /\ Keeps
    BY <1>5, FillsKeepSlots
  <1>6. ASSUME NEW o \in Orders, NEW done \in BOOLEAN, CancelResidual(o, done)
        PROVE  EventsOK' /\ QueueOK' /\ Keeps
    BY <1>6, CancelKeepsSlots
  <1>7. ASSUME NEW o \in Orders, NEW batched \in BOOLEAN, Correct(o, batched)
        PROVE  EventsOK' /\ QueueOK' /\ Keeps
    BY <1>7, CorrectKeepsSlots
  <1>8. ASSUME NEW creates \in {{}} \cup {{o} : o \in Orders}, Commit(creates)
        PROVE  EventsOK' /\ QueueOK' /\ Keeps
    BY <1>8, CommitKeepsSlots
  <1> QED
    BY <1>1, <1>2, <1>3, <1>4, <1>5, <1>6, <1>7, <1>8 DEF Next, Chain, Bot

(***************************************************************************)
(* For any grid, gap, orders, sizes, number of events and limit on empty   *)
(* reads, an order that is on the chain and that nobody has touched is     *)
(* taken from its slot by no sync, fill event, correction or commit, but   *)
(* for a sync that believes the last of EmptyLimit empty reads, and for a  *)
(* correction that was queued for another order of that slot.              *)
(***************************************************************************)
THEOREM OrdersKeepTheirSlots == Spec => LiveOrdersKeepTheirSlot
  <1>1. KeepIInv /\ [Next]_vars => KeepIInv' /\ Keeps
    BY KeepStep
  <1>2. Init => KeepIInv
    BY KeepStarts
  <1>3. Keeps => [\A s \in Index : \A o \in Orders :
            slot[s].oid = o /\ Live(chain', o) /\ chain'[o].new /\ slot'[s].oid = None
                => Believed \/ Overtaken(s, o)]_vars
    BY DEF Keeps
  <1> QED  BY <1>1, <1>2, <1>3, PTL DEF Spec, LiveOrdersKeepTheirSlot

-----------------------------------------------------------------------------
\* FundRecovery.
Records == [count : Nat, cooled : BOOLEAN, failed : Nat, inFlight : BOOLEAN, requested : BOOLEAN]
Calls == [at : {"idle", "reading", "asking"}, own : BOOLEAN, requested : BOOLEAN,
          by : {"verify", "deduct"}]

RecoveryTypes == rec \in Records /\ attempt \in [Attempts -> Calls]
RecoveryIInv == RecoveryTypes /\ OneWriter /\ RequestedMeansScheduled

LEMMA RecoveryStarts == RecoveryInit => RecoveryIInv
  BY DEF RecoveryInit, RecoveryIInv, RecoveryTypes, Records, Calls, Zero, Idle, OneWriter,
     RequestedMeansScheduled

\* A replaced record leaves no call that writes the one that counts, and every call
\* where it was.
LEMMA ReplaceKeeps ==
    ASSUME RecoveryIInv, NEW new \in Records, Replace(new),
           new.requested /\ ~rec.requested => resync' # "none",
           resync # "none" /\ new.requested => resync' # "none"
    PROVE  RecoveryIInv'
  <1>1. \A a \in Attempts : attempt[a] \in Calls
    BY DEF RecoveryIInv, RecoveryTypes
  <1>2. rec.requested \in BOOLEAN
    BY DEF RecoveryIInv, RecoveryTypes, Records
  <1>3. ASSUME NEW a \in Attempts
        PROVE  attempt'[a] \in Calls /\ ~attempt'[a].own /\ attempt'[a].at = attempt[a].at
    BY <1>1, <1>2 DEF Replace, Calls
  <1>4. RecoveryTypes'
    <2>1. attempt' = [a \in Attempts |-> attempt'[a]] /\ rec' = new
      BY DEF Replace
    <2> QED  BY <1>3, <2>1 DEF RecoveryTypes
  <1>5. OneWriter'
    BY <1>3 DEF OneWriter
  <1>6. RequestedMeansScheduled'
    BY <1>3, <1>2 DEF RecoveryIInv, RequestedMeansScheduled, Replace
  <1> QED  BY <1>4, <1>5, <1>6 DEF RecoveryIInv

\* The decay touches neither flag.
LEMMA CountedKeeps ==
    ASSUME rec \in Records
    PROVE  /\ Counted \in Records /\ Counted.inFlight = rec.inFlight
           /\ Counted.requested = rec.requested
  BY DEF Counted, Records

\* A call that starts, or does not, while the resync stays.
LEMMA AttemptKeeps ==
    ASSUME RecoveryIInv, NEW a \in Attempts, NEW by \in {"verify", "deduct"},
           attempt[a].at = "idle", Attempt(a, by), resync' = resync
    PROVE  RecoveryIInv'
  <1>1. /\ Counted \in Records /\ Counted.inFlight = rec.inFlight
        /\ Counted.requested = rec.requested
    BY CountedKeeps DEF RecoveryIInv, RecoveryTypes
  <1>2. CASE rec' = rec /\ attempt' = attempt
    BY <1>2 DEF RecoveryIInv, RecoveryTypes, OneWriter, RequestedMeansScheduled
  <1>3. CASE rec' = Counted /\ attempt' = attempt
    <2> DEFINE c == Counted
    <2>1. rec' = c /\ c \in Records /\ c.inFlight = rec.inFlight /\ c.requested = rec.requested
      BY <1>1, <1>3
    <2> HIDE DEF c
    <2> QED
      BY <1>3, <2>1 DEF RecoveryIInv, RecoveryTypes, OneWriter, RequestedMeansScheduled
  <1>4. CASE /\ ~rec.inFlight
             /\ rec' = [Counted EXCEPT !.inFlight = TRUE, !.count = Counted.count + 1,
                                       !.cooled = FALSE]
             /\ attempt' = [attempt EXCEPT ![a] =
                  [at |-> "reading", own |-> TRUE, requested |-> FALSE, by |-> by]]
    <2> DEFINE c == Counted
               d == [at |-> "reading", own |-> TRUE, requested |-> FALSE, by |-> by]
    <2>1. c \in Records /\ c.requested = rec.requested
      BY <1>1
    <2>2. d \in Calls /\ d.at = "reading" /\ d.own
      BY DEF Calls
    <2>3. rec' = [c EXCEPT !.inFlight = TRUE, !.count = c.count + 1, !.cooled = FALSE]
      BY <1>4
    <2> HIDE DEF c, d
    <2>4. rec' \in Records /\ rec'.inFlight /\ rec'.requested = rec.requested
      <3> DEFINE n == c.count + 1
      <3>1. n \in Nat
        BY <2>1 DEF Records
      <3>2. rec' = [c EXCEPT !.inFlight = TRUE, !.count = n, !.cooled = FALSE]
        BY <2>3
      <3> HIDE DEF n
      <3> QED  BY <2>1, <3>1, <3>2 DEF Records
    <2>5. attempt' = [attempt EXCEPT ![a] = d]
      BY <1>4 DEF d
    <2>6. /\ attempt' \in [Attempts -> Calls]
          /\ \A b \in Attempts : attempt'[b] = IF b = a THEN d ELSE attempt[b]
      BY <2>2, <2>5 DEF RecoveryIInv, RecoveryTypes
    <2>7. \A b \in Attempts : ~(attempt[b].at = "reading" /\ attempt[b].own)
      BY <1>4 DEF RecoveryIInv, OneWriter
    <2> QED
      BY <2>2, <2>4, <2>6, <2>7
         DEF RecoveryIInv, RecoveryTypes, OneWriter, RequestedMeansScheduled
  <1> QED
    BY <1>2, <1>3, <1>4 DEF Attempt, Busy, recordVars

LEMMA VerifyKeeps ==
    ASSUME RecoveryIInv, NEW snapshot, NEW locked, Verify(snapshot, locked), resync' = resync
    PROVE  RecoveryIInv'
  <1>1. CASE UNCHANGED recordVars
    BY <1>1 DEF recordVars, RecoveryIInv, RecoveryTypes, OneWriter, RequestedMeansScheduled
  <1>2. ASSUME NEW a \in Attempts, attempt[a].at = "idle", Attempt(a, "verify")
        PROVE  RecoveryIInv'
    BY <1>2, AttemptKeeps
  <1> QED  BY <1>1, <1>2 DEF Verify

LEMMA EndAttemptKeeps ==
    ASSUME RecoveryIInv, NEW a \in Attempts, NEW result, EndAttempt(a, result)
    PROVE  RecoveryIInv'
  <1>1. rec \in Records /\ attempt \in [Attempts -> Calls]
    BY DEF RecoveryIInv, RecoveryTypes
  <1> DEFINE s == Settled(rec, result)
             l == Lowered(s)
             i == IF Asks(a, result) THEN [attempt[a] EXCEPT !.at = "asking", !.requested = TRUE]
                  ELSE Idle
  <1>2. /\ s \in Records /\ s.inFlight = rec.inFlight
        /\ s.requested => rec.requested \/ result = "structural"
    <2>1. CASE result = "deferred"
      <3> DEFINE n == IF rec.count > 0 THEN rec.count - 1 ELSE 0
      <3>1. n \in Nat
        BY <1>1 DEF Records
      <3>2. s = [rec EXCEPT !.count = n, !.failed = 0]
        BY <2>1 DEF Settled
      <3> HIDE DEF n, s
      <3> QED  BY <1>1, <3>1, <3>2 DEF Records
    <2>2. CASE result = "valid"
      BY <1>1, <2>2 DEF Settled, Records
    <2>3. CASE result = "structural"
      BY <1>1, <2>3 DEF Settled, Records
    <2>4. CASE result \notin {"deferred", "valid", "structural"}
      <3>1. s = [rec EXCEPT !.failed = 1]
        BY <2>4 DEF Settled
      <3> HIDE DEF s
      <3> QED  BY <1>1, <3>1 DEF Records
    <2> QED  BY <2>1, <2>2, <2>3, <2>4
  <1> HIDE DEF s
  <1>3. l \in Records /\ ~l.inFlight /\ l.requested = s.requested
    BY <1>2 DEF Lowered, Records
  <1> HIDE DEF l
  <1>4. rec' = (IF attempt[a].own THEN l ELSE rec) /\ resync' = resync
    BY DEF EndAttempt, l, s, resyncVars
  <1>5. /\ i \in Calls /\ i.at \in {"idle", "asking"}
        /\ Asks(a, result) => i.at = "asking"
    BY <1>1 DEF Calls, Idle
  <1>6. attempt' = [attempt EXCEPT ![a] = i]
    BY DEF EndAttempt
  <1> HIDE DEF i
  <1>7. /\ attempt' \in [Attempts -> Calls]
        /\ \A b \in Attempts : attempt'[b] = IF b = a THEN i ELSE attempt[b]
    BY <1>1, <1>5, <1>6
  <1>8. RecoveryTypes'
    BY <1>1, <1>3, <1>4, <1>7 DEF RecoveryTypes
  <1>9. OneWriter'
    <2>1. CASE attempt[a].own
      <3>1. \A b \in Attempts \ {a} : ~(attempt[b].at = "reading" /\ attempt[b].own)
        BY <2>1 DEF RecoveryIInv, OneWriter, EndAttempt
      <3> QED  BY <1>5, <1>7, <3>1 DEF OneWriter
    <2>2. CASE ~attempt[a].own
      BY <1>4, <1>5, <1>7, <2>2 DEF RecoveryIInv, OneWriter
    <2> QED  BY <2>1, <2>2
  <1>10. RequestedMeansScheduled'
    <2>1. CASE i.at = "asking"
      BY <1>7, <2>1 DEF RequestedMeansScheduled
    <2>2. CASE i.at # "asking"
      <3>1. rec'.requested => rec.requested
        BY <1>2, <1>3, <1>4, <1>5, <2>2 DEF Asks, RequestedBy
      <3>2. attempt[a].at = "reading"
        BY DEF EndAttempt
      <3> QED
        BY <1>4, <1>7, <3>1, <3>2 DEF RecoveryIInv, RequestedMeansScheduled
    <2> QED  BY <2>1, <2>2
  <1> QED  BY <1>8, <1>9, <1>10 DEF RecoveryIInv

LEMMA AskKeeps ==
    ASSUME RecoveryIInv, NEW a \in Attempts, Ask(a) PROVE RecoveryIInv'
  <1>1. rec \in Records /\ attempt \in [Attempts -> Calls]
    BY DEF RecoveryIInv, RecoveryTypes
  <1>2. resync' # "none"
    BY DEF Ask, File, Skipped
  <1>3. rec' \in Records /\ rec'.inFlight = rec.inFlight
    BY <1>1 DEF Ask, Records
  <1>4. Idle \in Calls /\ Idle.at = "idle"
    BY DEF Idle, Calls
  <1>5. /\ attempt' \in [Attempts -> Calls]
        /\ \A b \in Attempts : attempt'[b] = IF b = a THEN Idle ELSE attempt[b]
    BY <1>1, <1>4 DEF Ask
  <1>6. OneWriter'
    BY <1>3, <1>4, <1>5 DEF RecoveryIInv, OneWriter
  <1> QED
    BY <1>2, <1>3, <1>5, <1>6 DEF RecoveryIInv, RecoveryTypes, RequestedMeansScheduled

\* The records that others write.
LEMMA WrittenRecords ==
    ASSUME rec \in Records
    PROVE  /\ [rec EXCEPT !.failed = 1] \in Records
           /\ [rec EXCEPT !.failed = 1].requested = rec.requested
           /\ [rec EXCEPT !.requested = TRUE] \in Records
           /\ Zero \in Records /\ ~Zero.requested
           /\ \A repaired \in BOOLEAN :
                 Finished(repaired) \in Records /\ ~Finished(repaired).requested
  <1>1. /\ [rec EXCEPT !.failed = 1] \in Records
        /\ [rec EXCEPT !.failed = 1].requested = rec.requested
        /\ [rec EXCEPT !.requested = TRUE] \in Records
    BY DEF Records
  <1>2. Zero \in Records /\ ~Zero.requested
    BY DEF Records, Zero
  <1>3. Cleared(rec) \in Records
    BY DEF Cleared, Records
  <1>4. ASSUME NEW r \in Records
        PROVE  [r EXCEPT !.requested = FALSE] \in Records /\ ~[r EXCEPT !.requested = FALSE].requested
    BY DEF Records
  <1>5. Finished(TRUE) \in Records /\ ~Finished(TRUE).requested
    BY <1>3, <1>4 DEF Finished
  <1>6. Finished(FALSE) \in Records /\ ~Finished(FALSE).requested
    BY <1>4 DEF Finished
  <1> QED  BY <1>1, <1>2, <1>5, <1>6

LEMMA RecoveryStep == RecoveryIInv /\ [RecoveryNext]_recoveryVars => RecoveryIInv'
  <1> SUFFICES ASSUME RecoveryIInv, [RecoveryNext]_recoveryVars PROVE RecoveryIInv'
    OBVIOUS
  <1>0. rec \in Records
    BY DEF RecoveryIInv, RecoveryTypes
  <1>1. CASE Tick
    <2>1. rec' \in Records /\ rec'.inFlight = rec.inFlight /\ rec'.requested = rec.requested
      <3> DEFINE n == IF rec.failed = 0 \/ rec.failed > Decay THEN rec.failed ELSE rec.failed + 1
      <3>1. n \in Nat
        BY <1>0 DEF Records
      <3>2. rec' = [rec EXCEPT !.cooled = TRUE, !.failed = n]
        BY <1>1 DEF Tick
      <3> HIDE DEF n
      <3> QED  BY <1>0, <3>1, <3>2 DEF Records
    <2> QED
      BY <1>1, <2>1 DEF Tick, resyncVars, RecoveryIInv, RecoveryTypes, OneWriter,
         RequestedMeansScheduled
  <1>2. CASE NoteFailure
    BY <1>0, <1>2, WrittenRecords, ReplaceKeeps DEF NoteFailure, resyncVars
  <1>3. CASE Fetch
    BY <1>0, <1>3, WrittenRecords, ReplaceKeeps DEF Fetch, resyncVars
  <1>4. CASE Fire \/ StartBatch \/ EndBatch \/ UNCHANGED recoveryVars
    BY <1>4 DEF Fire, StartBatch, EndBatch, recoveryVars, recordVars, resyncVars, RecoveryIInv,
       RecoveryTypes, OneWriter, RequestedMeansScheduled
  <1>5. ASSUME NEW ok \in BOOLEAN, EndReload(ok) \/ EndReset(ok) PROVE RecoveryIInv'
    <2>1. CASE Replace(Finished(ok))
      BY <1>0, <2>1, WrittenRecords, ReplaceKeeps
    <2>2. CASE resync' = "reset" /\ UNCHANGED <<rec, attempt>>
      BY <2>2 DEF RecoveryIInv, RecoveryTypes, OneWriter, RequestedMeansScheduled
    <2> QED  BY <1>5, <2>1, <2>2 DEF EndReload, EndReset
  <1>6. ASSUME NEW yes \in BOOLEAN, NEW snapshot \in {"good", "bad"},
               VerifyNext(yes) \/ Recalculate(snapshot, yes)
        PROVE  RecoveryIInv'
    <2>1. resync' = resync
      BY <1>6 DEF VerifyNext, Recalculate, resyncVars
    <2>2. CASE UNCHANGED recordVars
      BY <2>1, <2>2
         DEF recordVars, RecoveryIInv, RecoveryTypes, OneWriter, RequestedMeansScheduled
    <2>3. CASE \E any : Verify(any, yes)
      BY <2>1, <2>3, VerifyKeeps
    <2> QED  BY <1>6, <2>2, <2>3 DEF VerifyNext, Recalculate, recordVars
  <1>7. ASSUME NEW yes \in BOOLEAN, Request(yes) PROVE RecoveryIInv'
    <2>1. resync' # "none"
      BY <1>7 DEF Request, File, Skipped
    <2>2. CASE yes
      BY <1>0, <1>7, <2>1, <2>2, WrittenRecords, ReplaceKeeps DEF Request
    <2>3. CASE ~yes
      BY <1>7, <2>1, <2>3 DEF Request, RecoveryIInv, RecoveryTypes, OneWriter,
         RequestedMeansScheduled
    <2> QED  BY <2>2, <2>3
  <1>8. ASSUME NEW a \in Attempts, DeductionFails(a) PROVE RecoveryIInv'
    BY <1>8, AttemptKeeps DEF DeductionFails, resyncVars
  <1>9. ASSUME NEW a \in Attempts, Ask(a) PROVE RecoveryIInv'
    BY <1>9, AskKeeps
  <1>10. ASSUME NEW a \in Attempts, NEW result, EndAttempt(a, result) PROVE RecoveryIInv'
    BY <1>10, EndAttemptKeeps
  <1> QED
    BY <1>1, <1>2, <1>3, <1>4, <1>5, <1>6, <1>7, <1>8, <1>9, <1>10
       DEF RecoveryNext, Scheduled

(***************************************************************************)
(* For any number of attempts, with any limits: at most one call holds     *)
(* manager._recoveryState as the object that counts, and that object says  *)
(* so (_attemptFundRecovery(), whatever replaces the object meanwhile).    *)
(***************************************************************************)
THEOREM OneRecoveryWriter == RecoverySpec => []OneWriter
  <1>1. RecoveryIInv => OneWriter
    BY DEF RecoveryIInv
  <1> QED  BY <1>1, RecoveryStarts, RecoveryStep, PTL DEF RecoverySpec

(***************************************************************************)
(* A raised request flag always has a structural resync ahead that lowers  *)
(* it, or a task that files one (structuralResyncRequested).               *)
(***************************************************************************)
THEOREM RequestScheduled == RecoverySpec => []RequestedMeansScheduled
  <1>1. RecoveryIInv => RequestedMeansScheduled
    BY DEF RecoveryIInv
  <1> QED  BY <1>1, RecoveryStarts, RecoveryStep, PTL DEF RecoverySpec

-----------------------------------------------------------------------------
\* StateRecovery.
StateTypes ==
    /\ stopping \in BOOLEAN /\ rebalance \in [timer : BOOLEAN, planning : BOOLEAN]
    /\ owed \in BOOLEAN /\ synced \in BOOLEAN /\ abandoned \in BOOLEAN

\* A grid is changed by the recovery sync that runs, and by batches that fly: a plan starts
\* when there are none.
ChangesFly == (synced => recovering # "none") /\ repairing \subseteq flying
StateIInv == StateTypes /\ ChangesFly /\ OwedMeansArmed

\* The initial state satisfies the invariant.
LEMMA StateStarts == StateInit => StateIInv
  <1> SUFFICES ASSUME StateInit PROVE StateIInv
    OBVIOUS
  <1>1. /\ stopping = FALSE /\ rebalance = [timer |-> FALSE, planning |-> FALSE]
        /\ synced = FALSE /\ repairing = {} /\ owed = FALSE /\ abandoned = FALSE
    BY DEF StateInit
  <1> QED  BY <1>1 DEF StateIInv, StateTypes, ChangesFly, OwedMeansArmed

\* Steps that write nothing the invariant speaks of but batches in flight and the sync.
LEMMA StateKept ==
    ASSUME StateIInv, UNCHANGED <<rebalance, changeVars, stopping>>,
           repairing \subseteq flying', recovering = "none" \/ recovering' = recovering
    PROVE  StateIInv'
  <1>1. UNCHANGED <<rebalance, synced, repairing, owed, abandoned, stopping>>
    BY DEF changeVars
  <1> QED  BY <1>1 DEF StateIInv, StateTypes, ChangesFly, OwedMeansArmed

\* Every step keeps the invariant.
LEMMA StateStep == StateIInv /\ [StateNext]_stateVars => StateIInv'
  <1> SUFFICES ASSUME StateIInv, [StateNext]_stateVars PROVE StateIInv'
    OBVIOUS
  <1>1. StateTypes /\ ChangesFly /\ OwedMeansArmed
    BY DEF StateIInv
  <1>2. ASSUME NEW b, BeginBatch(b) \/ TearDown(b) PROVE StateIInv'
    BY <1>1, <1>2, StateKept DEF BeginBatch, TearDown, ChangesFly
  <1>3. ASSUME NEW who, BeginSync(who), UNCHANGED stopping PROVE StateIInv'
    BY <1>1, <1>3, StateKept DEF BeginSync, ChangesFly
  <1>4. ASSUME UNCHANGED gridVars, UNCHANGED stopping PROVE StateIInv'
    BY <1>1, <1>4, StateKept DEF gridVars, ChangesFly
  <1>5. CASE Reconcile
    <2>1. /\ recovering # "none" /\ synced' = TRUE /\ owed' = TRUE
          /\ UNCHANGED <<flying, recovering, rebalance, repairing, abandoned, stopping>>
      BY <1>5 DEF Reconcile
    <2> QED  BY <1>1, <2>1 DEF StateIInv, StateTypes, ChangesFly, OwedMeansArmed
  <1>6. ASSUME NEW threw \in BOOLEAN, EndSync(threw) PROVE StateIInv'
    <2>1. /\ synced' = FALSE /\ UNCHANGED <<flying, repairing, owed, stopping>>
          /\ rebalance' = IF synced /\ ~threw THEN [rebalance EXCEPT !.timer = TRUE] ELSE rebalance
          /\ abandoned' = (abandoned \/ (synced /\ threw))
      BY <1>6 DEF EndSync, Arm
    <2>2. abandoned' \in BOOLEAN
      BY <2>1
    <2>3. CASE synced /\ ~threw
      <3>1. rebalance' \in [timer : BOOLEAN, planning : BOOLEAN] /\ rebalance'.timer = TRUE
        BY <1>1, <2>1, <2>3 DEF StateTypes
      <3> QED  BY <1>1, <2>1, <2>2, <3>1 DEF StateIInv, StateTypes, ChangesFly, OwedMeansArmed
    <2>4. CASE ~(synced /\ ~threw)
      <3>1. UNCHANGED rebalance /\ (synced => abandoned') /\ (abandoned => abandoned')
        BY <2>1, <2>4
      <3> QED  BY <1>1, <2>1, <2>2, <3>1 DEF StateIInv, StateTypes, ChangesFly, OwedMeansArmed
    <2> QED  BY <2>3, <2>4
  <1>7. ASSUME NEW b, Repair(b) PROVE StateIInv'
    <2>1. /\ b \in flying /\ repairing' = repairing \cup {b} /\ owed' = TRUE
          /\ UNCHANGED <<flying, recovering, rebalance, synced, abandoned, stopping>>
      BY <1>7 DEF Repair
    <2> QED  BY <1>1, <2>1 DEF StateIInv, StateTypes, ChangesFly, OwedMeansArmed
  <1>8. ASSUME NEW b, NEW threw \in BOOLEAN, EndRepair(b, threw) PROVE StateIInv'
    <2>1. repairing' \subseteq repairing /\ UNCHANGED <<flying, synced, owed, stopping>>
      BY <1>8 DEF EndRepair
    <2>2. CASE threw
      <3>1. abandoned' = TRUE /\ UNCHANGED rebalance /\ (recovering # "none" => recovering' = recovering)
        BY <1>8, <2>2 DEF EndRepair
      <3> QED  BY <1>1, <2>1, <3>1 DEF StateIInv, StateTypes, ChangesFly, OwedMeansArmed
    <2>3. CASE ~threw
      <3>1. rebalance' = [rebalance EXCEPT !.timer = TRUE] /\ UNCHANGED <<abandoned, recovering>>
        BY <1>8, <2>3 DEF EndRepair, Arm
      <3>2. rebalance' \in [timer : BOOLEAN, planning : BOOLEAN] /\ rebalance'.timer = TRUE
        BY <1>1, <3>1 DEF StateTypes
      <3> QED  BY <1>1, <2>1, <3>1, <3>2 DEF StateIInv, StateTypes, ChangesFly, OwedMeansArmed
    <2> QED  BY <2>2, <2>3
  <1>9. CASE FireRebalance
    <2>1. UNCHANGED <<flying, recovering, synced, repairing, stopping>>
      BY <1>9 DEF FireRebalance
    <2>2. CASE UNCHANGED <<rebalance, owed, abandoned>>
      BY <1>1, <2>1, <2>2 DEF StateIInv, StateTypes, ChangesFly, OwedMeansArmed
    <2>3. CASE /\ stopping /\ rebalance' = [rebalance EXCEPT !.timer = FALSE]
               /\ UNCHANGED <<owed, abandoned>>
      <3>1. rebalance' \in [timer : BOOLEAN, planning : BOOLEAN]
        BY <1>1, <2>3 DEF StateTypes
      <3> QED  BY <1>1, <2>1, <2>3, <3>1 DEF StateIInv, StateTypes, ChangesFly, OwedMeansArmed
    <2>4. CASE /\ rebalance' = [timer |-> FALSE, planning |-> TRUE]
               /\ owed' = FALSE /\ abandoned' = FALSE
      BY <1>1, <2>1, <2>4 DEF StateIInv, StateTypes, ChangesFly, OwedMeansArmed
    <2> QED  BY <1>9, <2>2, <2>3, <2>4 DEF FireRebalance
  <1>10. ASSUME NEW places, Planned(places) PROVE StateIInv'
    <2>1. /\ rebalance' = [rebalance EXCEPT !.planning = FALSE] /\ flying \subseteq flying'
          /\ UNCHANGED <<recovering, synced, repairing, owed, abandoned, stopping>>
      BY <1>10 DEF Planned, changeVars
    <2>2. rebalance' \in [timer : BOOLEAN, planning : BOOLEAN] /\ rebalance'.timer = rebalance.timer
      BY <1>1, <2>1 DEF StateTypes
    <2> QED  BY <1>1, <2>1, <2>2 DEF StateIInv, StateTypes, ChangesFly, OwedMeansArmed
  <1>11. CASE Stop
    <2>1. /\ stopping' = TRUE /\ rebalance' = [rebalance EXCEPT !.timer = FALSE]
          /\ UNCHANGED <<flying, recovering, synced, repairing, owed, abandoned>>
      BY <1>11 DEF Stop, changeVars
    <2>2. rebalance' \in [timer : BOOLEAN, planning : BOOLEAN]
      BY <1>1, <2>1 DEF StateTypes
    <2> QED  BY <1>1, <2>1, <2>2 DEF StateIInv, StateTypes, ChangesFly, OwedMeansArmed
  <1>12. ASSUME NEW b, WriteRefused(b) PROVE StateIInv'
    BY <1>4, <1>12 DEF WriteRefused
  <1>13. ASSUME NEW who, StartSync(who) PROVE StateIInv'
    BY <1>3, <1>13 DEF StartSync
  <1>14. CASE Probe \/ DeferredRecovery \/ SyncOver
    <2>1. UNCHANGED stopping /\ (UNCHANGED gridVars \/ BeginSync("credential"))
      BY <1>14 DEF Probe, DeferredRecovery, SyncOver, Wait, Recover
    <2> QED  BY <1>3, <1>4, <2>1
  <1>15. ASSUME NEW yes, EndRecovery(yes) \/ Daemon(yes) PROVE StateIInv'
    BY <1>4, <1>15 DEF EndRecovery, Daemon
  <1>16. CASE UNCHANGED stateVars
    BY <1>4, <1>16 DEF stateVars
  <1> QED
    BY <1>2, <1>5, <1>6, <1>7, <1>8, <1>9, <1>10, <1>11, <1>12, <1>13, <1>14, <1>15, <1>16
       DEF StateNext

(***************************************************************************)
(* For any number of batches in flight, with syncs and repairs that throw  *)
(* at any await: a grid that a recovery has changed has the timer of its   *)
(* rebalance armed until a plan starts from it, unless the recovery is     *)
(* still at work or threw (_schedulePostRecoveryRebalance()).              *)
(***************************************************************************)
THEOREM RebalanceOwed == StateSpec => []OwedMeansArmed
  <1>1. StateIInv => OwedMeansArmed
    BY DEF StateIInv
  <1> QED  BY <1>1, StateStarts, StateStep, PTL DEF StateSpec
=============================================================================
