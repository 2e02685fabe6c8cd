-------------------------- MODULE LeafOrder_proofs --------------------------
(***************************************************************************)
(* What the order of the leaves and the insertion of one are worth, for    *)
(* every sorted vector: the lemmas on which the proofs about ProofContext  *)
(* rest.                                                                   *)
(***************************************************************************)
EXTENDS LeafOrder, SequenceTheorems, TLAPS

\* A leaf whose similarity is a number.
Numeric(a) == a.sim \in Int /\ a.depth \in Nat /\ a.nr \in Nat

\* A sorted vector, which also says that no leaf is in it twice.
Sorted(s) == \A i, j \in 1 .. Len(s) : i < j => Outranks(s[i], s[j])

\* The order of the leaves is transitive.
LEMMA OutranksTransitive ==
    ASSUME NEW a, NEW b, NEW c, Numeric(a), Numeric(b), Numeric(c),
           Outranks(a, b), Outranks(b, c)
    PROVE  Outranks(a, c)
  BY DEF Outranks, Numeric

\* No leaf outranks itself.
LEMMA OutranksIrreflexive ==
    ASSUME NEW a, Numeric(a)
    PROVE  ~ Outranks(a, a)
  BY DEF Outranks, Numeric

\* A leaf that arrives later and does not precede another is outranked by it;
\* one that precedes another outranks it.
LEMMA SlotDecides ==
    ASSUME NEW e, NEW a, Numeric(e), Numeric(a), a.nr < e.nr
    PROVE  /\ ~ Precedes(e, a) => Outranks(a, e)
           /\ Precedes(e, a) => Outranks(e, a)
  BY DEF Precedes, Outranks, Numeric

\* InsertAt(s, p, e) is s with e at p and what was there moved up.
LEMMA InsertAtElements ==
    ASSUME NEW S, NEW s \in Seq(S), NEW e \in S, NEW p \in 1 .. Len(s) + 1
    PROVE  /\ InsertAt(s, p, e) \in Seq(S)
           /\ Len(InsertAt(s, p, e)) = Len(s) + 1
           /\ \A i \in 1 .. Len(s) + 1 :
                 InsertAt(s, p, e)[i] = IF i < p THEN s[i]
                                        ELSE IF i = p THEN e ELSE s[i - 1]
  <1> DEFINE before == SubSeq(s, 1, p - 1)
             after == SubSeq(s, p, Len(s))
  <1>0. Len(s) \in Nat /\ p \in Int /\ 1 <= p /\ p <= Len(s) + 1
    OBVIOUS
  <1>1. /\ before \in Seq(S) /\ Len(before) = p - 1
        /\ \A i \in 1 .. p - 1 : before[i] = s[i]
    OBVIOUS
  <1>2. /\ after \in Seq(S) /\ Len(after) = Len(s) + 1 - p
        /\ \A i \in 1 .. Len(s) + 1 - p : after[i] = s[p + i - 1]
    OBVIOUS
  <1> HIDE DEF before, after
  <1> DEFINE front == before \o <<e>>
  <1>3. /\ front \in Seq(S) /\ Len(front) = p
        /\ \A i \in 1 .. p : front[i] = IF i = p THEN e ELSE s[i]
    BY <1>1
  <1> HIDE DEF front
  <1>4. InsertAt(s, p, e) = front \o after
    BY DEF InsertAt, front, before, after
  <1>5. /\ front \o after \in Seq(S)
        /\ Len(front \o after) = p + (Len(s) + 1 - p)
        /\ \A i \in 1 .. p + (Len(s) + 1 - p) :
              (front \o after)[i] = IF i <= p THEN front[i] ELSE after[i - p]
    <2>1. /\ front \o after \in Seq(S)
          /\ Len(front \o after) = Len(front) + Len(after)
          /\ \A i \in 1 .. Len(front) + Len(after) :
                (front \o after)[i] = IF i <= Len(front) THEN front[i]
                                      ELSE after[i - Len(front)]
      <3>1. front \in Seq(S) /\ after \in Seq(S)
        BY <1>2, <1>3
      <3> QED
        BY ONLY <3>1, ConcatProperties, Zenon
    <2> QED
      BY <2>1, <1>2, <1>3
  <1>6. p + (Len(s) + 1 - p) = Len(s) + 1
    BY <1>0
  <1>7. ASSUME NEW i \in 1 .. Len(s) + 1
        PROVE  (front \o after)[i] = IF i < p THEN s[i]
                                     ELSE IF i = p THEN e ELSE s[i - 1]
    <2>1. CASE i <= p
      BY <2>1, <1>0, <1>3, <1>5, <1>6
    <2>2. CASE ~ (i <= p)
      <3>1. i - p \in 1 .. Len(s) + 1 - p /\ p + (i - p) - 1 = i - 1
        BY <2>2, <1>0
      <3>2. (front \o after)[i] = after[i - p]
        BY <2>2, <1>0, <1>5, <1>6
      <3> QED
        BY <3>1, <3>2, <1>0, <1>2, <2>2
    <2> QED
      BY <2>1, <2>2, Zenon
  <1> QED
    BY <1>4, <1>5, <1>6, <1>7

\* A leaf that arrives after those of a sorted vector is inserted so that the
\* vector stays sorted.
LEMMA InsertAtSorted ==
    ASSUME NEW S, NEW s \in Seq(S), NEW e \in S, NEW p \in 1 .. Len(s) + 1,
           IsSlot(s, e, p), Sorted(s), Numeric(e),
           \A i \in 1 .. Len(s) : Numeric(s[i]) /\ s[i].nr < e.nr
    PROVE  Sorted(InsertAt(s, p, e))
  <1> DEFINE t == InsertAt(s, p, e)
  <1>1. /\ Len(t) = Len(s) + 1
        /\ \A i \in 1 .. Len(s) + 1 :
              t[i] = IF i < p THEN s[i] ELSE IF i = p THEN e ELSE s[i - 1]
    BY InsertAtElements
  <1> HIDE DEF t
  <1>2. \A i \in 1 .. p - 1 : Outranks(s[i], e)
    BY SlotDecides DEF IsSlot
  <1>3. \A i \in p .. Len(s) : Outranks(e, s[i])
    BY SlotDecides DEF IsSlot
  <1>4. ASSUME NEW i \in 1 .. Len(s) + 1, NEW j \in 1 .. Len(s) + 1, i < j
        PROVE  Outranks(t[i], t[j])
    <2>0. Len(s) \in Nat /\ p \in Int /\ i \in Int /\ j \in Int
      OBVIOUS
    <2>1. CASE j < p
      BY <1>1, <1>4, <2>0, <2>1 DEF Sorted
    <2>2. CASE j = p
      BY <1>1, <1>2, <1>4, <2>0, <2>2
    <2>3. CASE j > p /\ i < p
      BY <1>1, <1>4, <2>0, <2>3 DEF Sorted
    <2>4. CASE j > p /\ i = p
      BY <1>1, <1>3, <1>4, <2>0, <2>4
    <2>5. CASE j > p /\ i > p
      BY <1>1, <1>4, <2>0, <2>5 DEF Sorted
    <2> QED
      BY <2>0, <2>1, <2>2, <2>3, <2>4, <2>5
  <1>5. Sorted(t)
    BY <1>1, <1>4 DEF Sorted
  <1> QED
    BY <1>5 DEF t

\* Front(s) is s without its last element.
LEMMA FrontElements ==
    ASSUME NEW S, NEW s \in Seq(S), Len(s) > 0
    PROVE  /\ Front(s) \in Seq(S)
           /\ Len(Front(s)) = Len(s) - 1
           /\ \A i \in 1 .. Len(s) - 1 : Front(s)[i] = s[i]
  <1>1. Len(s) - 1 \in 0 .. Len(s)
    OBVIOUS
  <1>2. SubSeq(s, 1, Len(s) - 1) \in Seq(S)
    BY <1>1
  <1>3. Len(SubSeq(s, 1, Len(s) - 1)) = Len(s) - 1
    <2>1. Len(s) \in Nat
      OBVIOUS
    <2> QED
      BY <1>1, <2>1
  <1>4. \A i \in 1 .. Len(s) - 1 : SubSeq(s, 1, Len(s) - 1)[i] = s[i]
    BY <1>1
  <1> QED
    BY <1>2, <1>3, <1>4 DEF Front
=============================================================================
