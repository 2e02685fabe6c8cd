------------------------ MODULE ProofContext_proofs ------------------------
(***************************************************************************)
(* Proofs about ProofContext for every set of callers, every max_proofs,   *)
(* every threshold and set of similarities, and any number of calls.       *)
(***************************************************************************)
EXTENDS ProofContext, LeafOrder_proofs

\* The leaf that a call of record_leaf_proof brings: it is the latest, and if
\* it meets others then all of them have a number for their similarity.
NewArrival(e) ==
    /\ e \in Leaf
    /\ e.nr = Len(offered) + 1
    /\ Len(leaves) > 0 =>
          e.sim # NaN /\ \A i \in 1 .. Len(leaves) : leaves[i].sim # NaN

\* What a call that keeps every leaf does.
LEMMA KeepLeafEffect ==
    ASSUME TypeOK, NEW c \in Callers, KeepLeaf(c)
    PROVE  /\ ~ poisoned
           /\ ~ Overflows(Len(leaves) + 1)
           /\ \E e \in Leaf, p \in 1 .. Len(leaves) + 1 :
                 /\ NewArrival(e)
                 /\ IsSlot(leaves, e, p)
                 /\ leaves' = InsertAt(leaves, p, e)
                 /\ offered' = Append(offered, e)
           /\ UNCHANGED <<poisoned, threshold, discarded, seenVars, call>>
  <1>1. PICK s \in Similarities, d \in Depths : KeepLeaf(c)!(s, d)
    BY DEF KeepLeaf
  <1> DEFINE e == NewLeaf(s, d)
  <1>2. e \in Leaf /\ e.nr = Len(offered) + 1
    BY DEF NewLeaf, Leaf, TypeOK
  <1>3. ~ SortPanics(e)
    BY <1>1
  <1> HIDE DEF e
  <1>4. NewArrival(e)
    BY <1>2, <1>3 DEF NewArrival, SortPanics, TypeOK
  <1> QED
    BY <1>1, <1>2, <1>4 DEF e, CanOffer

\* What a call that displaces a leaf does.
LEMMA DisplaceLeafEffect ==
    ASSUME TypeOK, NEW c \in Callers, DisplaceLeaf(c)
    PROVE  /\ ~ poisoned
           /\ Overflows(Len(leaves) + 1) /\ ~ Overflows(1)
           /\ \E e \in Leaf, p \in 1 .. Len(leaves) + 1 :
                 /\ NewArrival(e)
                 /\ IsSlot(leaves, e, p)
                 /\ leaves' = Front(InsertAt(leaves, p, e))
                 /\ threshold' = BarAfterPop(InsertAt(leaves, p, e))
                 /\ offered' = Append(offered, e)
           /\ discarded' = discarded + 1
           /\ UNCHANGED <<poisoned, seenVars, call>>
  <1>1. PICK s \in Similarities, d \in Depths : DisplaceLeaf(c)!(s, d)
    BY DEF DisplaceLeaf
  <1> DEFINE e == NewLeaf(s, d)
  <1>2. e \in Leaf /\ e.nr = Len(offered) + 1
    BY DEF NewLeaf, Leaf, TypeOK
  <1>3. ~ SortPanics(e)
    BY <1>1
  <1> HIDE DEF e
  <1>4. NewArrival(e)
    BY <1>2, <1>3 DEF NewArrival, SortPanics, TypeOK
  <1> QED
    BY <1>1, <1>2, <1>4 DEF e, CanOffer, PopPanics

\* What a call that panics while it records does.
LEMMA PanicInRecordEffect ==
    ASSUME TypeOK, NEW c \in Callers, PanicInRecord(c)
    PROVE  /\ ~ poisoned /\ poisoned'
           /\ \E e \in Leaf :
                 /\ offered' = Append(offered, e)
                 /\ e.nr = Len(offered) + 1
                 /\ SortPanics(e) \/ Overflows(1)
           /\ discarded' \in {discarded, discarded + 1}
           /\ call' = [call EXCEPT ![c] = Panicked]
           /\ UNCHANGED <<leaves, threshold, seenVars>>
  <1>1. PICK s \in Similarities, d \in Depths : PanicInRecord(c)!(s, d)
    BY DEF PanicInRecord
  <1> DEFINE e == NewLeaf(s, d)
  <1>2. e \in Leaf /\ e.nr = Len(offered) + 1
    BY DEF NewLeaf, Leaf, TypeOK
  <1>3. SortPanics(e) \/ Overflows(1)
    BY <1>1 DEF PopPanics
  <1>4. discarded' \in {discarded, discarded + 1}
    BY <1>1
  <1> HIDE DEF e
  <1> QED
    BY <1>1, <1>2, <1>3, <1>4 DEF e, CanOffer
-----------------------------------------------------------------------------
\* When a leaf is displaced there are others, and all are numbers.
LEMMA DisplacedAmongNumbers ==
    ASSUME TypeOK, Overflows(Len(leaves) + 1), ~ Overflows(1),
           NEW e, NewArrival(e)
    PROVE  /\ Len(leaves) > 0
           /\ e.sim \in Int /\ e.sim > InitialThreshold
           /\ \A i \in 1 .. Len(leaves) :
                 leaves[i].sim \in Int /\ leaves[i].sim > InitialThreshold
  <1>1. Len(leaves) \in Nat
    BY DEF TypeOK
  <1>2. Len(leaves) > 0
    BY <1>1 DEF Overflows
  <1>3. \A i \in 1 .. Len(leaves) : leaves[i].sim \in Similarities
    <2>1. \A i \in 1 .. Len(leaves) : leaves[i] \in Leaf
      BY DEF TypeOK
    <2> QED
      BY <2>1 DEF Leaf
  <1>4. e.sim \in Similarities
    BY DEF NewArrival, Leaf
  <1> QED
    BY <1>2, <1>3, <1>4, ContextAssumption DEF NewArrival

\* The first state is in the types of the variables.
LEMMA TypeInit == Init => TypeOK
  <1> SUFFICES ASSUME Init PROVE TypeOK
    OBVIOUS
  <1> USE DEF Init
  <1>1. leaves \in Seq(Leaf) /\ offered \in Seq(Leaf) /\ passed \in Seq(Step)
    OBVIOUS
  <1>2. threshold \in Int /\ discarded \in Nat /\ poisoned \in BOOLEAN
    BY ContextAssumption
  <1>3. seen \in [Resolvents -> {Unseen} \cup Entry]
    OBVIOUS
  <1>4. call \in [Callers -> {Ready, Panicked} \cup
                             [state : {"inserting"}, step : Step]]
    OBVIOUS
  <1> QED
    BY <1>1, <1>2, <1>3, <1>4 DEF TypeOK

\* Every step stays in the types of the variables.
LEMMA TypeStep == TypeOK /\ [Next]_vars => TypeOK'
  <1> SUFFICES ASSUME TypeOK, [Next]_vars PROVE TypeOK'
    OBVIOUS
  <1>1. ASSUME NEW c \in Callers, KeepLeaf(c) PROVE TypeOK'
    <2>1. PICK e \in Leaf, p \in 1 .. Len(leaves) + 1 :
             leaves' = InsertAt(leaves, p, e) /\ offered' = Append(offered, e)
      BY <1>1, KeepLeafEffect
    <2>2. leaves' \in Seq(Leaf)
      BY <2>1, InsertAtElements DEF TypeOK
    <2>3. offered' \in Seq(Leaf)
      BY <2>1 DEF TypeOK
    <2> QED
      BY <1>1, <2>2, <2>3, KeepLeafEffect DEF TypeOK, seenVars
  <1>2. ASSUME NEW c \in Callers, DisplaceLeaf(c) PROVE TypeOK'
    <2>1. PICK e \in Leaf, p \in 1 .. Len(leaves) + 1 :
             /\ NewArrival(e)
             /\ leaves' = Front(InsertAt(leaves, p, e))
             /\ threshold' = BarAfterPop(InsertAt(leaves, p, e))
             /\ offered' = Append(offered, e)
      BY <1>2, DisplaceLeafEffect
    <2>2. /\ InsertAt(leaves, p, e) \in Seq(Leaf)
          /\ Len(InsertAt(leaves, p, e)) = Len(leaves) + 1
          /\ \A i \in 1 .. Len(leaves) + 1 :
                InsertAt(leaves, p, e)[i] = IF i < p THEN leaves[i]
                                  ELSE IF i = p THEN e ELSE leaves[i - 1]
      <3>1. leaves \in Seq(Leaf)
        BY DEF TypeOK
      <3> QED
        BY ONLY <3>1, e \in Leaf, p \in 1 .. Len(leaves) + 1, InsertAtElements
    <2>3. leaves' \in Seq(Leaf)
      BY <2>1, <2>2, FrontElements DEF TypeOK
    <2>4. offered' \in Seq(Leaf)
      BY <2>1 DEF TypeOK
    <2>5. threshold' \in Int
      <3>1. /\ Len(leaves) > 0 /\ e.sim \in Int
            /\ \A i \in 1 .. Len(leaves) : leaves[i].sim \in Int
        BY <1>2, <2>1, DisplacedAmongNumbers, DisplaceLeafEffect
      <3>2. Len(leaves) \in Nat /\ p \in Int
        BY DEF TypeOK
      <3>3. Len(leaves) \in 1 .. Len(leaves) + 1
        BY <3>1, <3>2
      <3>4. InsertAt(leaves, p, e)[Len(leaves)].sim \in Int
        BY ONLY <2>2, <3>1, <3>2, <3>3
      <3> QED
        BY <2>1, <2>2, <3>2, <3>4 DEF BarAfterPop
    <2> QED
      BY <1>2, <2>3, <2>4, <2>5, DisplaceLeafEffect DEF TypeOK, seenVars
  <1>3. ASSUME NEW c \in Callers, PanicInRecord(c) PROVE TypeOK'
    <2>1. offered' \in Seq(Leaf)
      <3>1. PICK e \in Leaf : offered' = Append(offered, e)
        BY <1>3, PanicInRecordEffect
      <3> QED
        BY <3>1 DEF TypeOK
    <2>2. call' \in [Callers -> {Ready, Panicked} \cup
                                [state : {"inserting"}, step : Step]]
      BY <1>3, PanicInRecordEffect DEF TypeOK
    <2>3. discarded' \in Nat
      BY <1>3, PanicInRecordEffect DEF TypeOK
    <2> QED
      BY <1>3, <2>1, <2>2, <2>3, PanicInRecordEffect DEF TypeOK, seenVars
  <1>4. ASSUME NEW c \in Callers, PanicOnPoison(c) PROVE TypeOK'
    BY <1>4 DEF TypeOK, PanicOnPoison, leafVars, seenVars
  <1>5. ASSUME NEW c \in Callers, PassUnchecked(c) PROVE TypeOK'
    BY <1>5 DEF TypeOK, PassUnchecked, leafVars
  <1>6. ASSUME NEW c \in Callers, SkipResolvent(c) PROVE TypeOK'
    BY <1>6 DEF TypeOK, SkipResolvent, leafVars
  <1>7. ASSUME NEW c \in Callers, MissResolvent(c) PROVE TypeOK'
    BY <1>7 DEF TypeOK, MissResolvent, leafVars, seenVars, Inserting
  <1>8. ASSUME NEW c \in Callers, InsertResolvent(c) PROVE TypeOK'
    <2>1. call[c].step \in Step
      BY <1>8 DEF TypeOK, InsertResolvent, Ready, Panicked
    <2>2. EntryOf(seen[call[c].step.resolvent], call[c].step) \in Entry
      BY <2>1 DEF EntryOf, Entry, Step
    <2>3. seen' \in [Resolvents -> {Unseen} \cup Entry]
      BY <1>8, <2>2 DEF TypeOK, InsertResolvent
    <2>4. call' \in [Callers -> {Ready, Panicked} \cup
                                [state : {"inserting"}, step : Step]]
      BY <1>8 DEF TypeOK, InsertResolvent
    <2>5. passed' \in Seq(Step)
      BY <1>8, <2>1 DEF TypeOK, InsertResolvent
    <2> QED
      BY <1>8, <2>3, <2>4, <2>5 DEF TypeOK, InsertResolvent, leafVars
  <1>9. CASE UNCHANGED vars
    BY <1>9 DEF TypeOK, vars, leafVars, seenVars
  <1> QED
    BY <1>1, <1>2, <1>3, <1>4, <1>5, <1>6, <1>7, <1>8, <1>9
    DEF Next, RecordLeafProof, CheckResolvent

\* Type correctness, for every instance.
THEOREM TypeCorrect == Spec => []TypeOK
  BY TypeInit, TypeStep, PTL DEF Spec
-----------------------------------------------------------------------------
(***************************************************************************)
(* The inductive invariant of the leaves, as long as no call has panicked. *)
(* KeptAreTheBest is not inductive: it needs that the leaves have numbers  *)
(* for their similarities, that each is where it was offered, and, while   *)
(* nothing is discarded, that none is missing.                             *)
(***************************************************************************)

\* A leaf's nr is its place in the history.
History == \A k \in 1 .. Len(offered) : offered[k].nr = k

\* Every leaf kept is one that was offered.
KeptWereOffered ==
    \A i \in 1 .. Len(leaves) :
        leaves[i].nr \in 1 .. Len(offered) /\ offered[leaves[i].nr] = leaves[i]

\* As soon as two leaves have met, all similarities are numbers.
AllNumbers ==
    Len(offered) > 1 => \A k \in 1 .. Len(offered) : offered[k].sim # NaN

Kept(k) == \E i \in 1 .. Len(leaves) : leaves[i].nr = k

\* A leaf that is not kept is outranked by those that are.
DiscardedAreOutranked ==
    \A k \in 1 .. Len(offered) :
        \/ Kept(k)
        \/ discarded > 0 /\ \A i \in 1 .. Len(leaves) :
                               Outranks(leaves[i], offered[k])

\* Every leaf is counted once; a leaf is discarded only by a full vector.
Counted ==
    /\ Len(leaves) + discarded = Len(offered)
    /\ ~ Overflows(Len(leaves))
    /\ discarded > 0 => Len(leaves) = MaxProofs /\ Len(leaves) > 0

\* The threshold is that of the prover or the similarity of the last leaf.
Bar ==
    threshold = IF discarded = 0 THEN InitialThreshold
                ELSE leaves[Len(leaves)].sim

LeafInv ==
    ~ poisoned =>
        /\ History /\ KeptWereOffered /\ AllNumbers
        /\ Sorted(leaves) /\ DiscardedAreOutranked /\ Counted /\ Bar

\* The first state has no leaf.
LEMMA LeafInit == Init => LeafInv
  BY ContextAssumption
  DEF Init, LeafInv, History, KeptWereOffered, AllNumbers, Sorted,
      DiscardedAreOutranked, Counted, Bar, Overflows

\* What the vector is after the push and the sort, before a leaf is popped.
LEMMA Inserted ==
    ASSUME TypeOK, LeafInv, ~ poisoned,
           NEW e \in Leaf, NEW p \in 1 .. Len(leaves) + 1,
           NewArrival(e), IsSlot(leaves, e, p),
           NEW t, t = InsertAt(leaves, p, e)
    PROVE  /\ t \in Seq(Leaf) /\ Len(t) = Len(leaves) + 1
           /\ \A i \in 1 .. Len(t) : t[i] = IF i < p THEN leaves[i]
                                     ELSE IF i = p THEN e ELSE leaves[i - 1]
           /\ Sorted(t)
           /\ \A i \in 1 .. Len(t) :
                 /\ t[i].nr \in 1 .. Len(offered) + 1
                 /\ Append(offered, e)[t[i].nr] = t[i]
           /\ \A i \in 1 .. Len(leaves) : \E j \in 1 .. Len(t) : t[j] = leaves[i]
           /\ t[p] = e
  <1>0. Len(leaves) \in Nat /\ p \in Int /\ Len(offered) \in Nat
    BY DEF TypeOK
  <1>1. /\ t \in Seq(Leaf) /\ Len(t) = Len(leaves) + 1
        /\ \A i \in 1 .. Len(leaves) + 1 :
              t[i] = IF i < p THEN leaves[i]
                     ELSE IF i = p THEN e ELSE leaves[i - 1]
    <2>1. leaves \in Seq(Leaf)
      BY DEF TypeOK
    <2>2. /\ InsertAt(leaves, p, e) \in Seq(Leaf)
          /\ Len(InsertAt(leaves, p, e)) = Len(leaves) + 1
          /\ \A i \in 1 .. Len(leaves) + 1 :
                InsertAt(leaves, p, e)[i] = IF i < p THEN leaves[i]
                                            ELSE IF i = p THEN e ELSE leaves[i - 1]
      BY ONLY <2>1, e \in Leaf, p \in 1 .. Len(leaves) + 1, InsertAtElements
    <2> QED
      BY <2>2
  <1>2. Sorted(t)
    <2>1. CASE Len(leaves) = 0
      BY <1>0, <1>1, <2>1 DEF Sorted
    <2>2. CASE Len(leaves) > 0
      <3>1. \A i \in 1 .. Len(leaves) : leaves[i] \in Leaf
        BY DEF TypeOK
      <3>2. \A i \in 1 .. Len(leaves) : Numeric(leaves[i])
        BY <2>2, <3>1, ContextAssumption DEF NewArrival, Leaf, Numeric
      <3>3. Numeric(e)
        BY <2>2, ContextAssumption DEF NewArrival, Leaf, Numeric
      <3>4. \A i \in 1 .. Len(leaves) : leaves[i].nr < e.nr
        BY <1>0 DEF LeafInv, KeptWereOffered, NewArrival
      <3>5. leaves \in Seq(Leaf) /\ Sorted(leaves)
        BY DEF TypeOK, LeafInv
      <3> QED
        BY <3>2, <3>3, <3>4, <3>5, InsertAtSorted
    <2> QED
      BY <1>0, <2>1, <2>2
  <1>3. ASSUME NEW i \in 1 .. Len(t)
        PROVE  /\ t[i].nr \in 1 .. Len(offered) + 1
               /\ Append(offered, e)[t[i].nr] = t[i]
    <2>1. CASE i = p
      <3>1. t[i] = e /\ e.nr = Len(offered) + 1
        BY <1>0, <1>1, <2>1 DEF NewArrival
      <3> QED
        BY <1>0, <3>1 DEF TypeOK
    <2>2. CASE i # p
      <3>1. PICK j \in 1 .. Len(leaves) : t[i] = leaves[j]
        BY <1>0, <1>1, <2>2
      <3>2. leaves[j].nr \in 1 .. Len(offered) /\ offered[leaves[j].nr] = leaves[j]
        BY DEF LeafInv, KeptWereOffered
      <3> QED
        BY <1>0, <3>1, <3>2 DEF TypeOK
    <2> QED
      BY <2>1, <2>2
  <1>4. ASSUME NEW i \in 1 .. Len(leaves)
        PROVE  \E j \in 1 .. Len(t) : t[j] = leaves[i]
    <2>1. CASE i < p
      BY <1>0, <1>1, <2>1
    <2>2. CASE i >= p
      <3>1. i + 1 \in 1 .. Len(t) /\ t[i + 1] = leaves[i]
        BY <1>0, <1>1, <2>2
      <3> QED
        BY <3>1
    <2> QED
      BY <1>0, <2>1, <2>2
  <1>5. t[p] = e
    BY <1>0, <1>1
  <1> QED
    BY <1>1, <1>2, <1>3, <1>4, <1>5

\* A new leaf keeps the history in order and the similarities numbers.
LEMMA HistoryGrows ==
    ASSUME TypeOK, LeafInv, ~ poisoned, NEW e \in Leaf, NewArrival(e),
           offered' = Append(offered, e)
    PROVE  History' /\ AllNumbers'
  <1>0. Len(leaves) \in Nat /\ Len(offered) \in Nat /\ discarded \in Nat
    BY DEF TypeOK
  <1>1. /\ Len(offered') = Len(offered) + 1
        /\ \A k \in 1 .. Len(offered) : offered'[k] = offered[k]
        /\ offered'[Len(offered) + 1] = e
    BY DEF TypeOK
  <1>2. History'
    BY <1>0, <1>1 DEF History, LeafInv, NewArrival
  <1>3. ASSUME Len(offered') > 1, NEW k \in 1 .. Len(offered')
        PROVE  offered'[k].sim # NaN
    <2>1. Len(leaves) > 0
      BY <1>0, <1>1, <1>3 DEF LeafInv, Counted
    <2>2. CASE k = Len(offered) + 1
      BY <1>1, <2>1, <2>2 DEF NewArrival
    <2>3. CASE k # Len(offered) + 1 /\ Len(offered) > 1
      BY <1>0, <1>1, <2>3 DEF LeafInv, AllNumbers
    <2>4. CASE k # Len(offered) + 1 /\ ~ (Len(offered) > 1)
      <3>0. k = 1 /\ Len(offered) = 1
        <4>1. PICK m \in Nat : m = Len(offered)
          BY <1>0
        <4>2. k \in 1 .. m + 1
          BY <1>1, <4>1
        <4> QED
          BY <4>1, <4>2, <2>4
      <3>1. leaves[1].nr = 1
        BY <1>0, <2>1, <3>0 DEF LeafInv, KeptWereOffered
      <3>2. offered[1] = leaves[1]
        BY <2>1, <1>0, <3>1 DEF LeafInv, KeptWereOffered
      <3> QED
        BY <1>0, <1>1, <2>1, <3>0, <3>2 DEF NewArrival
    <2> QED
      BY <2>2, <2>3, <2>4, Zenon
  <1> QED
    BY <1>2, <1>3 DEF AllNumbers

\* A call that keeps its leaf and all others.
LEMMA LeafStepKeep ==
    ASSUME TypeOK, LeafInv, NEW c \in Callers, KeepLeaf(c)
    PROVE  LeafInv'
  <1>1. /\ ~ poisoned /\ ~ poisoned' /\ ~ Overflows(Len(leaves) + 1)
        /\ threshold' = threshold /\ discarded' = discarded
    BY KeepLeafEffect
  <1>2. PICK e \in Leaf, p \in 1 .. Len(leaves) + 1 :
           /\ NewArrival(e) /\ IsSlot(leaves, e, p)
           /\ leaves' = InsertAt(leaves, p, e) /\ offered' = Append(offered, e)
    BY KeepLeafEffect
  <1>3. /\ leaves' \in Seq(Leaf) /\ Len(leaves') = Len(leaves) + 1
        /\ Sorted(leaves')
        /\ \A i \in 1 .. Len(leaves') :
              /\ leaves'[i].nr \in 1 .. Len(offered) + 1
              /\ Append(offered, e)[leaves'[i].nr] = leaves'[i]
        /\ \A i \in 1 .. Len(leaves) :
              \E j \in 1 .. Len(leaves') : leaves'[j] = leaves[i]
        /\ leaves'[p] = e
    BY <1>1, <1>2, Inserted
  <1>4. Len(leaves) \in Nat /\ Len(offered) \in Nat /\ discarded \in Nat
    BY DEF TypeOK
  <1>5. /\ Len(offered') = Len(offered) + 1
        /\ \A k \in 1 .. Len(offered) : offered'[k] = offered[k]
    BY <1>2 DEF TypeOK
  <1>6. discarded = 0
    BY <1>1, <1>4, ContextAssumption DEF LeafInv, Counted, Overflows
  <1>7. History' /\ AllNumbers'
    BY <1>1, <1>2, HistoryGrows
  <1>8. KeptWereOffered'
    BY <1>2, <1>3, <1>5 DEF KeptWereOffered
  <1>9. DiscardedAreOutranked'
    <2>1. ASSUME NEW k \in 1 .. Len(offered')
          PROVE  \E i \in 1 .. Len(leaves') : leaves'[i].nr = k
      <3>1. CASE k = Len(offered) + 1
        BY <1>3, <1>2, <1>4, <3>1 DEF NewArrival
      <3>2. CASE k # Len(offered) + 1
        <4>1. PICK i \in 1 .. Len(leaves) : leaves[i].nr = k
          <5>1. k \in 1 .. Len(offered)
            BY <1>4, <1>5, <3>2
          <5>2. ~ (discarded > 0)
            BY <1>6
          <5> QED
            BY <1>1, <5>1, <5>2 DEF LeafInv, DiscardedAreOutranked, Kept
        <4> QED
          BY <1>3, <4>1
      <3> QED
        BY <3>1, <3>2
    <2> QED
      BY <2>1 DEF DiscardedAreOutranked, Kept
  <1>10. Counted' /\ Bar'
    BY <1>1, <1>3, <1>4, <1>5, <1>6 DEF LeafInv, Counted, Bar
  <1> QED
    BY <1>3, <1>7, <1>8, <1>9, <1>10 DEF LeafInv, Sorted

\* A call that pops the last of the sorted leaves.
LEMMA LeafStepDisplace ==
    ASSUME TypeOK, LeafInv, NEW c \in Callers, DisplaceLeaf(c)
    PROVE  LeafInv' /\ threshold' >= threshold
  <1>1. /\ ~ poisoned /\ ~ poisoned' /\ discarded' = discarded + 1
        /\ Overflows(Len(leaves) + 1) /\ ~ Overflows(1)
    BY DisplaceLeafEffect
  <1>2. PICK e \in Leaf, p \in 1 .. Len(leaves) + 1 :
           /\ NewArrival(e) /\ IsSlot(leaves, e, p)
           /\ leaves' = Front(InsertAt(leaves, p, e))
           /\ threshold' = BarAfterPop(InsertAt(leaves, p, e))
           /\ offered' = Append(offered, e)
    BY DisplaceLeafEffect
  <1> DEFINE n == Len(leaves)
             t == InsertAt(leaves, p, e)
  <1>3. /\ t \in Seq(Leaf) /\ Len(t) = n + 1
        /\ \A i \in 1 .. Len(t) : t[i] = IF i < p THEN leaves[i]
                                  ELSE IF i = p THEN e ELSE leaves[i - 1]
        /\ Sorted(t)
        /\ \A i \in 1 .. Len(t) :
              /\ t[i].nr \in 1 .. Len(offered) + 1
              /\ Append(offered, e)[t[i].nr] = t[i]
        /\ \A i \in 1 .. n : \E j \in 1 .. Len(t) : t[j] = leaves[i]
        /\ t[p] = e
    BY <1>1, <1>2, Inserted
  <1>4. leaves' = Front(t) /\ threshold' = BarAfterPop(t)
    BY <1>2
  <1>5. /\ n > 0 /\ e.sim \in Int /\ e.sim > InitialThreshold
        /\ \A i \in 1 .. n :
              leaves[i].sim \in Int /\ leaves[i].sim > InitialThreshold
    BY <1>1, <1>2, DisplacedAmongNumbers
  <1>6. n \in Nat /\ Len(offered) \in Nat /\ discarded \in Nat /\ p \in Int
    BY DEF TypeOK
  <1> HIDE DEF t, n
  <1>7. /\ leaves' \in Seq(Leaf) /\ Len(leaves') = n
        /\ \A i \in 1 .. n : leaves'[i] = t[i]
    <2>1. t \in Seq(Leaf) /\ Len(t) > 0 /\ Len(t) - 1 = n
      BY <1>3, <1>6
    <2> QED
      BY <1>4, <2>1, FrontElements
  <1>8. /\ Len(offered') = Len(offered) + 1
        /\ \A k \in 1 .. Len(offered) : offered'[k] = offered[k]
        /\ offered'[Len(offered) + 1] = e
    BY <1>2 DEF TypeOK
  <1>9. threshold' = t[n].sim
    BY <1>3, <1>4, <1>6 DEF BarAfterPop
  <1>10. n = MaxProofs
    <2>1. MaxProofs \in Nat /\ n + 1 > MaxProofs
      BY <1>1, ContextAssumption DEF Overflows, n
    <2>2. n <= MaxProofs
      BY <1>1, <1>6, <2>1, ContextAssumption DEF LeafInv, Counted, Overflows, n
    <2> QED
      BY <1>6, <2>1, <2>2
  <1>11. History' /\ AllNumbers'
    BY <1>1, <1>2, HistoryGrows
  <1>12. KeptWereOffered'
    BY <1>2, <1>3, <1>6, <1>7, <1>8 DEF KeptWereOffered
  <1>13. Sorted(leaves')
    BY <1>3, <1>6, <1>7 DEF Sorted
  <1>14. DiscardedAreOutranked'
    <2>1. ASSUME NEW i \in 1 .. n PROVE Outranks(leaves'[i], t[n + 1])
      <3>1. i \in 1 .. Len(t) /\ n + 1 \in 1 .. Len(t) /\ i < n + 1
        BY <1>3, <1>6
      <3>2. Outranks(t[i], t[n + 1])
        BY ONLY <1>3, <3>1 DEF Sorted
      <3> QED
        BY <1>7, <3>2
    <2>2. ASSUME NEW k \in 1 .. Len(offered'),
                 \A i \in 1 .. n : leaves'[i].nr # k
          PROVE  \A i \in 1 .. n : Outranks(leaves'[i], offered'[k])
      <3>1. CASE k = Len(offered) + 1
        <4>1. p = n + 1
          <5>1. e.nr = k
            BY <1>2, <3>1 DEF NewArrival
          <5>2. p \in 1 .. n + 1
            BY DEF n
          <5>3. ~ (p \in 1 .. n)
            BY <1>3, <1>7, <2>2, <5>1
          <5> QED
            BY <1>6, <5>2, <5>3
        <4> QED
          BY <1>3, <1>8, <2>1, <3>1, <4>1
      <3>2. CASE k \in 1 .. Len(offered) /\ Kept(k)
        <4>1. PICK i \in 1 .. n : leaves[i].nr = k
          BY <3>2 DEF Kept, n
        <4>2. offered[k] = leaves[i]
          BY <1>1, <4>1 DEF LeafInv, KeptWereOffered, n
        <4>3. PICK j \in 1 .. n + 1 : t[j] = leaves[i]
          BY <1>3
        <4>4. j = n + 1
          <5>1. ~ (j \in 1 .. n)
            BY <1>7, <2>2, <4>1, <4>3
          <5> QED
            BY <1>6, <5>1
        <4> QED
          BY <1>8, <2>1, <3>2, <4>2, <4>3, <4>4
      <3>3. CASE k \in 1 .. Len(offered) /\ ~ Kept(k)
        <4>1. discarded > 0 /\ \A i \in 1 .. n : Outranks(leaves[i], offered[k])
          BY <1>1, <3>3 DEF LeafInv, DiscardedAreOutranked, n
        <4>2. Numeric(offered[k])
          <5>1. Len(offered) > 1
            BY <1>1, <1>5, <1>6, <4>1 DEF LeafInv, Counted, n
          <5>2. offered[k] \in Leaf /\ offered[k].sim # NaN
            BY <1>1, <3>3, <5>1 DEF LeafInv, AllNumbers, TypeOK
          <5> QED
            BY <5>2, ContextAssumption DEF Leaf, Numeric
        <4>3. \A i \in 1 .. n : Numeric(leaves[i])
          <5>1. \A i \in 1 .. n : leaves[i] \in Leaf
            BY DEF TypeOK, n
          <5> QED
            BY <1>5, <5>1, ContextAssumption DEF Leaf, Numeric
        <4>4. Numeric(e)
          BY <1>5, ContextAssumption DEF Leaf, Numeric
        <4>5. ASSUME NEW i \in 1 .. n
              PROVE  Outranks(leaves'[i], offered[k])
          <5>0. i \in Int /\ i \in 1 .. Len(t) /\ 1 <= p
            BY <1>3, <1>6 DEF n
          <5>1. CASE i < p
            BY <1>3, <1>7, <4>1, <5>0, <5>1
          <5>2. CASE i = p
            <6>1. t[n + 1] = leaves[n] /\ t[i] = e
              BY <1>3, <1>5, <1>6, <5>2
            <6>2. Outranks(e, leaves[n])
              BY <1>7, <2>1, <6>1
            <6>3. Outranks(leaves[n], offered[k]) /\ Numeric(leaves[n])
              BY <1>5, <1>6, <4>1, <4>3
            <6>4. Outranks(e, offered[k])
              BY <4>2, <4>4, <6>2, <6>3, OutranksTransitive
            <6> QED
              BY <1>7, <6>1, <6>4
          <5>3. CASE i > p
            <6>1. i - 1 \in 1 .. n
              BY <1>6, <5>0, <5>3
            <6>2. t[i] = leaves[i - 1]
              BY ONLY <1>3, <5>0, <5>3, p \in Int
            <6> QED
              BY <1>7, <4>1, <6>1, <6>2
          <5> QED
            BY <1>6, <5>1, <5>2, <5>3
        <4> QED
          BY <1>8, <3>3, <4>5
      <3> QED
        BY <1>6, <1>8, <3>1, <3>2, <3>3
    <2> QED
      BY <1>1, <1>6, <1>7, <2>2 DEF DiscardedAreOutranked, Kept
  <1>15. Counted' /\ Bar'
    <2>1. Counted
      BY <1>1 DEF LeafInv
    <2>2. Counted'
      <3>1. /\ Len(leaves') = n /\ Len(offered') = Len(offered) + 1
            /\ n + discarded = Len(offered)
        BY <1>7, <1>8, <2>1 DEF Counted, n
      <3> QED
        BY <1>1, <1>5, <1>6, <1>10, <3>1 DEF Counted, Overflows
    <2>3. Bar'
      <3>1. n \in 1 .. n
        BY <1>5, <1>6
      <3>2. threshold' = leaves'[Len(leaves')].sim
        BY <1>7, <1>9, <3>1
      <3> QED
        BY <1>1, <1>6, <3>2 DEF Bar
    <2> QED
      BY <2>2, <2>3
  <1>16. threshold' >= threshold
    <2>1. threshold' \in Int /\ threshold' > InitialThreshold
      <3>1. n \in 1 .. Len(t) /\ n \in 1 .. n
        BY <1>3, <1>5, <1>6
      <3>2. CASE n < p
        BY <1>3, <1>5, <1>9, <3>1, <3>2
      <3>3. CASE n = p
        BY <1>3, <1>5, <1>9, <3>3
      <3>4. CASE n > p
        <4>1. n - 1 \in 1 .. n /\ t[n] = leaves[n - 1]
          BY <1>3, <1>6, <3>1, <3>4, p \in 1 .. n + 1 DEF n
        <4> QED
          BY <1>5, <1>9, <4>1
      <3> QED
        BY <1>6, <3>2, <3>3, <3>4
    <2>2. CASE discarded = 0
      BY <1>1, <2>1, <2>2, ContextAssumption DEF LeafInv, Bar
    <2>3. CASE discarded > 0
      <3>1. threshold = leaves[n].sim
        BY <1>1, <1>6, <2>3 DEF LeafInv, Bar, n
      <3>2. CASE n < p
        BY <1>3, <1>5, <1>6, <1>9, <3>1, <3>2
      <3>3. CASE n >= p
        <4>1. t[n + 1] = leaves[n] /\ Outranks(t[n], t[n + 1])
          BY <1>3, <1>5, <1>6, <3>3 DEF Sorted
        <4>2. t[n].sim >= leaves[n].sim
          BY <1>5, <1>6, <1>9, <2>1, <4>1 DEF Outranks
        <4> QED
          BY <1>9, <3>1, <4>2
      <3> QED
        BY <1>6, <3>2, <3>3
    <2> QED
      BY <1>6, <2>2, <2>3
  <1> QED
    BY <1>11, <1>12, <1>13, <1>14, <1>15, <1>16 DEF LeafInv, Sorted

\* Every step preserves the invariant of the leaves, and none lowers the
\* threshold.
LEMMA LeafStep ==
    TypeOK /\ LeafInv /\ [Next]_vars => LeafInv' /\ threshold' >= threshold
  <1> SUFFICES ASSUME TypeOK, LeafInv, [Next]_vars
               PROVE  LeafInv' /\ threshold' >= threshold
    OBVIOUS
  <1>1. ASSUME NEW c \in Callers, KeepLeaf(c)
        PROVE  LeafInv' /\ threshold' >= threshold
    BY <1>1, LeafStepKeep, KeepLeafEffect DEF TypeOK
  <1>2. ASSUME NEW c \in Callers, DisplaceLeaf(c)
        PROVE  LeafInv' /\ threshold' >= threshold
    BY <1>2, LeafStepDisplace
  <1>3. ASSUME NEW c \in Callers, PanicInRecord(c)
        PROVE  LeafInv' /\ threshold' >= threshold
    BY <1>3, PanicInRecordEffect DEF LeafInv, TypeOK
  <1>4. CASE UNCHANGED leafVars
    <2>1. LeafInv'
      BY <1>4
      DEF leafVars, LeafInv, History, KeptWereOffered, AllNumbers, Sorted,
          DiscardedAreOutranked, Kept, Counted, Bar
    <2>2. threshold' >= threshold
      BY <1>4 DEF leafVars, TypeOK
    <2> QED
      BY <2>1, <2>2
  <1>5. \/ \E c \in Callers : KeepLeaf(c) \/ DisplaceLeaf(c) \/ PanicInRecord(c)
        \/ UNCHANGED leafVars
    BY DEF Next, RecordLeafProof, CheckResolvent, PanicOnPoison, PassUnchecked,
           SkipResolvent, MissResolvent, InsertResolvent, vars
  <1> QED
    BY <1>1, <1>2, <1>3, <1>4, <1>5

\* The invariant of the leaves holds in every reachable state.
LEMMA LeafInvariant == Spec => [](TypeOK /\ LeafInv)
  BY TypeInit, TypeStep, LeafInit, LeafStep, PTL DEF Spec

\* Whatever the callers do, the vector holds the first max_proofs of all the
\* leaves recorded.
THEOREM KeepsTheBest == Spec => []KeptAreTheBest
  <1>1. TypeOK /\ LeafInv => KeptAreTheBest
    <2> SUFFICES ASSUME TypeOK, LeafInv, ~ poisoned
                 PROVE  KeptAreTheBest
      BY DEF KeptAreTheBest
    <2>1. \A i, j \in 1 .. Len(leaves) : i < j => Outranks(leaves[i], leaves[j])
      BY DEF LeafInv, Sorted
    <2>2. \A i \in 1 .. Len(leaves) : leaves[i] \in ToSet(offered)
      BY DEF LeafInv, KeptWereOffered, ToSet, TypeOK
    <2>3. ASSUME NEW d \in ToSet(offered) \ ToSet(leaves),
                 NEW i \in 1 .. Len(leaves)
          PROVE  Outranks(leaves[i], d)
      <3>1. PICK k \in 1 .. Len(offered) : d = offered[k]
        BY DEF ToSet, TypeOK
      <3>2. ~ Kept(k)
        BY <3>1 DEF LeafInv, KeptWereOffered, Kept, ToSet, TypeOK
      <3> QED
        BY <3>1, <3>2 DEF LeafInv, DiscardedAreOutranked
    <2> QED
      BY <2>1, <2>2, <2>3 DEF KeptAreTheBest
  <1> QED
    BY <1>1, LeafInvariant, PTL

\* No leaf is lost, and none is discarded before the vector is full.
THEOREM AccountsForEveryLeaf == Spec => []EveryLeafAccounted
  <1>1. LeafInv => EveryLeafAccounted
    BY DEF LeafInv, Counted, EveryLeafAccounted
  <1> QED
    BY <1>1, LeafInvariant, PTL

\* The threshold is the bar of the vector.
THEOREM ThresholdIsExact == Spec => []ThresholdIsTheBar
  <1>1. LeafInv => ThresholdIsTheBar
    BY DEF LeafInv, Bar, ThresholdIsTheBar
  <1> QED
    BY <1>1, LeafInvariant, PTL

\* No step lowers the threshold.
THEOREM ThresholdIsMonotone == Spec => ThresholdNeverFalls
  <1>1. TypeOK /\ LeafInv /\ [Next]_vars => [threshold' >= threshold]_vars
    BY LeafStep
  <1> QED
    BY <1>1, LeafInvariant, PTL DEF Spec, ThresholdNeverFalls
-----------------------------------------------------------------------------
\* A panic has one of its two causes, for every instance.
THEOREM PanicsHaveACause == Spec => []PanicHasACause
  <1>1. Init => PanicHasACause
    BY DEF Init, PanicHasACause, Ready, Panicked
  <1>2. TypeOK /\ LeafInv /\ PanicHasACause /\ [Next]_vars => PanicHasACause'
    <2> SUFFICES ASSUME TypeOK, LeafInv, PanicHasACause, [Next]_vars
                 PROVE  PanicHasACause'
      OBVIOUS
    <2>1. ASSUME NEW c \in Callers, PanicInRecord(c) PROVE PanicHasACause'
      <3>1. PICK e \in Leaf : /\ offered' = Append(offered, e)
                              /\ SortPanics(e) \/ Overflows(1)
        BY <2>1, PanicInRecordEffect
      <3>2. poisoned' /\ ~ poisoned
        BY <2>1, PanicInRecordEffect
      <3>3. CASE Overflows(1)
        BY <3>2, <3>3, ContextAssumption DEF Overflows, PanicHasACause
      <3>4. CASE SortPanics(e)
        <4>1. PICK i \in 1 .. Len(leaves) : e.sim = NaN \/ leaves[i].sim = NaN
          BY <3>4 DEF SortPanics
        <4>2. leaves[i].nr \in 1 .. Len(offered) /\ offered[leaves[i].nr] = leaves[i]
          BY <3>2, <4>1 DEF LeafInv, KeptWereOffered
        <4>3. /\ Len(offered') = Len(offered) + 1 /\ offered' \in Seq(Leaf)
              /\ \A k \in 1 .. Len(offered) : offered'[k] = offered[k]
              /\ offered'[Len(offered) + 1] = e
          BY <3>1 DEF TypeOK
        <4>4. Len(offered) \in Nat /\ Len(offered') > 1
          BY <4>2, <4>3 DEF TypeOK
        <4>5. e \in ToSet(offered') /\ leaves[i] \in ToSet(offered')
          BY <4>2, <4>3, <4>4 DEF ToSet
        <4> QED
          BY <3>2, <4>1, <4>4, <4>5 DEF PanicHasACause
      <3> QED
        BY <3>1, <3>3, <3>4
    <2>2. ASSUME NEW c \in Callers, PanicOnPoison(c) PROVE PanicHasACause'
      BY <2>2 DEF PanicOnPoison, leafVars, PanicHasACause
    <2>3. ASSUME NEW c \in Callers, KeepLeaf(c) \/ DisplaceLeaf(c)
          PROVE  PanicHasACause'
      BY <2>3, KeepLeafEffect, DisplaceLeafEffect DEF PanicHasACause
    <2>4. ASSUME NEW c \in Callers, CheckResolvent(c) PROVE PanicHasACause'
      <3>1. UNCHANGED <<poisoned, offered>>
        BY <2>4 DEF CheckResolvent, PassUnchecked, SkipResolvent, MissResolvent,
                    InsertResolvent, leafVars
      <3>2. \A d \in Callers : call'[d] = Panicked => call[d] = Panicked
        <4>1. Ready # Panicked /\ \A s \in Step : Inserting(s) # Panicked
          <5>1. /\ Ready.state = "ready" /\ Panicked.state = "panicked"
                /\ \A s \in Step : Inserting(s).state = "inserting"
            BY DEF Ready, Panicked, Inserting
          <5> QED
            BY <5>1
        <4>2. CASE PassUnchecked(c) \/ SkipResolvent(c)
          BY <4>2 DEF PassUnchecked, SkipResolvent
        <4>3. CASE MissResolvent(c)
          BY <4>1, <4>3 DEF MissResolvent, TypeOK
        <4>4. CASE InsertResolvent(c)
          BY <4>1, <4>4 DEF InsertResolvent, TypeOK
        <4> QED
          BY <2>4, <4>2, <4>3, <4>4 DEF CheckResolvent
      <3> QED
        BY <3>1, <3>2 DEF PanicHasACause
    <2>5. CASE UNCHANGED vars
      BY <2>5 DEF vars, leafVars, PanicHasACause
    <2> QED
      BY <2>1, <2>2, <2>3, <2>4, <2>5 DEF Next, RecordLeafProof
  <1> QED
    BY <1>1, <1>2, LeafInvariant, PTL DEF Spec
-----------------------------------------------------------------------------
(***************************************************************************)
(* seen_resolvents.  The entry of a resolvent is always that of a step that *)
(* was let through, however the calls interleave; but not the best one.    *)
(***************************************************************************)
EntriesWerePassed ==
    \A r \in Resolvents :
        \/ seen[r] = Unseen
        \/ \E i \in 1 .. Len(passed) :
              /\ passed[i].resolvent = r
              /\ seen[r].depth = passed[i].depth
              /\ seen[r].sim = passed[i].sim

\* Append keeps what was let through and adds the new step at the end.
LEMMA AppendPassed ==
    ASSUME TypeOK, NEW s \in Step, passed' = Append(passed, s)
    PROVE  /\ Len(passed') = Len(passed) + 1
           /\ \A i \in 1 .. Len(passed) :
                 i \in 1 .. Len(passed') /\ passed'[i] = passed[i]
           /\ Len(passed) + 1 \in 1 .. Len(passed')
           /\ passed'[Len(passed) + 1] = s
  BY DEF TypeOK

\* A step is skipped only if one that covers it was let through.
THEOREM SkipsAreCovered == Spec => []SkippedIsCovered
  <1>1. Init => EntriesWerePassed /\ SkippedIsCovered
    BY DEF Init, EntriesWerePassed, SkippedIsCovered
  <1>2. TypeOK /\ EntriesWerePassed /\ SkippedIsCovered /\ [Next]_vars
          => EntriesWerePassed' /\ SkippedIsCovered'
    <2> SUFFICES ASSUME TypeOK, EntriesWerePassed, SkippedIsCovered, [Next]_vars
                 PROVE  EntriesWerePassed' /\ SkippedIsCovered'
      OBVIOUS
    <2>1. ASSUME NEW c \in Callers, PassUnchecked(c)
          PROVE  EntriesWerePassed' /\ SkippedIsCovered'
      <3>1. PICK s \in Step : passed' = Append(passed, s)
        BY <2>1 DEF PassUnchecked
      <3>2. UNCHANGED <<seen, skipped>>
        BY <2>1 DEF PassUnchecked
      <3> QED
        BY <3>1, <3>2, AppendPassed DEF EntriesWerePassed, SkippedIsCovered
    <2>2. ASSUME NEW c \in Callers, SkipResolvent(c)
          PROVE  EntriesWerePassed' /\ SkippedIsCovered'
      <3>1. PICK s \in Step :
               /\ seen[s.resolvent] # Unseen /\ Covers(seen[s.resolvent], s)
               /\ skipped' = skipped \cup {s}
        BY <2>2 DEF SkipResolvent
      <3>2. UNCHANGED <<seen, passed>>
        BY <2>2 DEF SkipResolvent
      <3>3. s.resolvent \in Resolvents
        BY DEF Step
      <3>4. PICK i \in 1 .. Len(passed) :
               passed[i].resolvent = s.resolvent /\ Covers(passed[i], s)
        BY <3>1, <3>3 DEF EntriesWerePassed, Covers
      <3> QED
        BY <3>1, <3>2, <3>4 DEF EntriesWerePassed, SkippedIsCovered
    <2>3. ASSUME NEW c \in Callers, InsertResolvent(c)
          PROVE  EntriesWerePassed' /\ SkippedIsCovered'
      <3> DEFINE s == call[c].step
      <3>1. /\ seen' = [seen EXCEPT ![s.resolvent] =
                           EntryOf(seen[s.resolvent], s)]
            /\ passed' = Append(passed, s)
            /\ skipped' = skipped
        BY <2>3 DEF InsertResolvent
      <3>2. s \in Step
        BY <2>3 DEF InsertResolvent, TypeOK, Ready, Panicked
      <3> HIDE DEF s
      <3>3. SkippedIsCovered'
        BY <3>1, <3>2, AppendPassed DEF SkippedIsCovered
      <3>4. ASSUME NEW r \in Resolvents, seen'[r] # Unseen
            PROVE  \E i \in 1 .. Len(passed') :
                      /\ passed'[i].resolvent = r
                      /\ seen'[r].depth = passed'[i].depth
                      /\ seen'[r].sim = passed'[i].sim
        <4>1. CASE r = s.resolvent
          <5>1. seen'[r] = EntryOf(seen[r], s)
            BY <3>1, <4>1 DEF TypeOK
          <5>2. seen'[r].depth = s.depth /\ seen'[r].sim = s.sim
            BY <5>1 DEF EntryOf
          <5> QED
            BY <3>1, <3>2, <4>1, <5>2, AppendPassed
        <4>2. CASE r # s.resolvent
          <5>1. seen'[r] = seen[r]
            BY <3>1, <4>2 DEF TypeOK
          <5> QED
            BY <3>1, <3>2, <3>4, <5>1, AppendPassed DEF EntriesWerePassed
        <4> QED
          BY <4>1, <4>2
      <3> QED
        BY <3>3, <3>4 DEF EntriesWerePassed
    <2>4. CASE UNCHANGED seenVars
      BY <2>4 DEF seenVars, EntriesWerePassed, SkippedIsCovered
    <2>5. \/ UNCHANGED seenVars
          \/ \E c \in Callers : \/ PassUnchecked(c) \/ SkipResolvent(c)
                                \/ InsertResolvent(c)
      BY DEF Next, RecordLeafProof, CheckResolvent, KeepLeaf, DisplaceLeaf,
             PanicInRecord, PanicOnPoison, MissResolvent, vars
    <2> QED
      BY <2>1, <2>2, <2>3, <2>4, <2>5
  <1>3. Spec => []TypeOK
    BY TypeCorrect
  <1> QED
    BY <1>1, <1>2, <1>3, PTL DEF Spec

=============================================================================
