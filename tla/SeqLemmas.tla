------------------------------ MODULE SeqLemmas ------------------------------
(* Facts about sequences that the proofs about queues and stacks rest on. *)
EXTENDS Naturals, SequenceTheorems, TLAPS

\* The sequence q without its element at position i.
Without(q, i) == SubSeq(q, 1, i - 1) \o SubSeq(q, i + 1, Len(q))

\* An element of a sequence is in its range set.
LEMMA SeqElement ==
    ASSUME NEW S, NEW q \in Seq(S), NEW i \in 1 .. Len(q)
    PROVE  q[i] \in S
  OBVIOUS

\* Dropping the first k elements.
LEMMA Drop ==
    ASSUME NEW S, NEW q \in Seq(S), NEW k \in Nat, k =< Len(q)
    PROVE  /\ SubSeq(q, k + 1, Len(q)) \in Seq(S)
           /\ Len(SubSeq(q, k + 1, Len(q))) = Len(q) - k
           /\ \A i \in 1 .. (Len(q) - k) : SubSeq(q, k + 1, Len(q))[i] = q[k + i]
  OBVIOUS

\* Removing the element at position i keeps the others in order.
LEMMA RemoveOne ==
    ASSUME NEW S, NEW q \in Seq(S), NEW i \in 1 .. Len(q)
    PROVE  /\ Without(q, i) \in Seq(S)
           /\ Len(Without(q, i)) = Len(q) - 1
           /\ \A j \in 1 .. (Len(q) - 1) :
                 Without(q, i)[j] = IF j < i THEN q[j] ELSE q[j + 1]
  <1> DEFINE a == SubSeq(q, 1, i - 1)
             b == SubSeq(q, i + 1, Len(q))
  <1>1. a \in Seq(S) /\ Len(a) = i - 1 /\ \A j \in 1 .. (i - 1) : a[j] = q[j]
    OBVIOUS
  <1>2. b \in Seq(S) /\ Len(b) = Len(q) - i /\ \A j \in 1 .. (Len(q) - i) : b[j] = q[i + j]
    BY Drop
  <1>3. Without(q, i) = a \o b
    BY DEF Without
  <1> HIDE DEF a, b
  <1>4. a \in Seq(S) /\ b \in Seq(S)
    BY <1>1, <1>2
  <1>5. Len(q) \in Nat /\ Len(a) = i - 1 /\ Len(b) = Len(q) - i
    BY <1>1, <1>2
  <1>6. /\ a \o b \in Seq(S) /\ Len(a \o b) = Len(a) + Len(b)
        /\ \A j \in 1 .. (Len(a) + Len(b)) :
              (a \o b)[j] = IF j <= Len(a) THEN a[j] ELSE b[j - Len(a)]
    BY <1>4, ConcatProperties
  <1>7. ASSUME NEW j \in 1 .. (Len(q) - 1)
        PROVE  (a \o b)[j] = IF j < i THEN q[j] ELSE q[j + 1]
    <2>1. j \in 1 .. (Len(a) + Len(b))
      BY <1>5
    <2>2. CASE j < i
      BY <1>1, <1>5, <1>6, <2>1, <2>2
    <2>3. CASE j >= i
      <3>1. j - Len(a) \in 1 .. (Len(q) - i) /\ i + (j - Len(a)) = j + 1 /\ ~(j <= Len(a))
        BY <1>5, <2>3
      <3>2. (a \o b)[j] = b[j - Len(a)]
        BY <1>6, <2>1, <3>1
      <3>3. b[j - Len(a)] = q[i + (j - Len(a))]
        BY <1>2, <3>1
      <3>4. ~(j < i)
        BY <1>5, <2>3
      <3> QED  BY <3>1, <3>2, <3>3, <3>4
    <2> QED  BY <1>5, <2>2, <2>3
  <1> QED  BY <1>3, <1>5, <1>6, <1>7
=============================================================================
