------------------------ MODULE SearchContext_proofs ------------------------
(***************************************************************************)
(* The search implements ProofContext, for any number of threads, any      *)
(* limits and anything that resolve() may find.                            *)
(***************************************************************************)
EXTENDS SearchContext, ProofSearch_proofs

\* Every leaf has a number.
AuxTyped ==
    /\ Typed
    /\ arrival \in Seq(Nat) /\ Len(arrival) = Len(leaves)
    /\ recorded \in Seq(StepType)

\* A leaf has one slot in a sorted vector.
LEMMA SlotIsUnique ==
    ASSUME NEW s, Len(s) \in Nat, NEW e, NEW p, NEW q,
           IsSlot(s, e, p), IsSlot(s, e, q)
    PROVE  p = q
  <1>1. p \in Int /\ q \in Int
    BY DEF IsSlot
  <1>2. ASSUME p < q PROVE FALSE
    <2>1. p \in 1 .. q - 1 /\ p \in p .. Len(s)
      BY <1>1, <1>2 DEF IsSlot
    <2> QED
      BY <2>1 DEF IsSlot
  <1>3. ASSUME q < p PROVE FALSE
    <2>1. q \in 1 .. p - 1 /\ q \in q .. Len(s)
      BY <1>1, <1>3 DEF IsSlot
    <2> QED
      BY <2>1 DEF IsSlot
  <1> QED
    BY <1>1, <1>2, <1>3

\* Numbered steps are a sequence of leaves.
LEMMA NumberedElements ==
    ASSUME NEW S, NEW s \in Seq(S), NEW n \in Seq(Nat), Len(n) = Len(s),
           NEW L, \A x \in S : \A k \in Nat : LeafOf(x, k) \in L
    PROVE  /\ Numbered(s, n) \in Seq(L)
           /\ Len(Numbered(s, n)) = Len(s)
           /\ \A i \in 1 .. Len(s) : Numbered(s, n)[i] = LeafOf(s[i], n[i])
  <1>1. Len(s) \in Nat /\ DOMAIN s = 1 .. Len(s)
    OBVIOUS
  <1>2. \A i \in 1 .. Len(s) : s[i] \in S /\ n[i] \in Nat
    OBVIOUS
  <1>3. \A i \in 1 .. Len(s) : LeafOf(s[i], n[i]) \in L
    BY <1>2
  <1>4. Numbered(s, n) = [i \in 1 .. Len(s) |-> LeafOf(s[i], n[i])]
    BY <1>1 DEF Numbered
  <1>5. [i \in 1 .. Len(s) |-> LeafOf(s[i], n[i])] \in [1 .. Len(s) -> L]
    BY <1>3
  <1>6. Numbered(s, n) \in Seq(L) /\ Len(Numbered(s, n)) = Len(s)
    BY <1>1, <1>4, <1>5
  <1> QED
    BY <1>4, <1>6

\* A slot does not depend on the numbers.
LEMMA NumberedSlot ==
    ASSUME NEW S, NEW s \in Seq(S), NEW n \in Seq(Nat), Len(n) = Len(s),
           NEW e, NEW k, NEW p, IsSlot(s, e, p)
    PROVE  IsSlot(Numbered(s, n), LeafOf(e, k), p)
  <1> DEFINE L == { LeafOf(x, i) : x \in S, i \in Nat }
             m == Numbered(s, n)
             l == LeafOf(e, k)
  <1>0. s \in Seq(S) /\ n \in Seq(Nat) /\ Len(n) = Len(s)
    OBVIOUS
  <1>1. \A x \in S : \A i \in Nat : LeafOf(x, i) \in L
    OBVIOUS
  <1> HIDE DEF L
  <1>2. /\ Len(m) = Len(s)
        /\ \A i \in 1 .. Len(s) : m[i] = LeafOf(s[i], n[i])
    BY ONLY <1>0, <1>1, NumberedElements
  <1>3. Len(s) \in Nat /\ p \in 1 .. Len(s) + 1
    BY DEF IsSlot
  <1>4. \A i \in 1 .. Len(s) :
           Precedes(LeafOf(e, k), LeafOf(s[i], n[i])) <=> Precedes(e, s[i])
    BY DEF Precedes, LeafOf
  <1> HIDE DEF m
  <1>5. \A i \in 1 .. Len(s) : Precedes(l, m[i]) <=> Precedes(e, s[i])
    BY <1>2, <1>4
  <1> HIDE DEF l
  <1>6. /\ \A i \in 1 .. p - 1 : ~ Precedes(e, s[i])
        /\ \A i \in p .. Len(s) : Precedes(e, s[i])
    BY DEF IsSlot
  <1>7. IsSlot(m, l, p)
    BY ONLY <1>2, <1>3, <1>5, <1>6 DEF IsSlot
  <1> QED
    BY <1>7 DEF m, l

\* Numbering and insertion commute.
LEMMA NumberedInsertAt ==
    ASSUME NEW S, NEW s \in Seq(S), NEW n \in Seq(Nat), Len(n) = Len(s),
           NEW e \in S, NEW k \in Nat, NEW p \in 1 .. Len(s) + 1
    PROVE  /\ InsertAt(n, p, k) \in Seq(Nat)
           /\ Len(InsertAt(n, p, k)) = Len(InsertAt(s, p, e))
           /\ Numbered(InsertAt(s, p, e), InsertAt(n, p, k))
                = InsertAt(Numbered(s, n), p, LeafOf(e, k))
  <1> DEFINE L == { LeafOf(x, i) : x \in S, i \in Nat }
             a == InsertAt(s, p, e)
             b == InsertAt(n, p, k)
             l == LeafOf(e, k)
             m == Numbered(s, n)
             c == InsertAt(m, p, l)
             r == Numbered(a, b)
  <1>0. /\ s \in Seq(S) /\ n \in Seq(Nat) /\ Len(n) = Len(s)
        /\ e \in S /\ k \in Nat /\ p \in 1 .. Len(s) + 1
        /\ Len(s) \in Nat /\ p \in Int /\ 1 <= p
    OBVIOUS
  <1>l. \A x \in S : \A i \in Nat : LeafOf(x, i) \in L
    OBVIOUS
  <1> HIDE DEF L
  <1>1. /\ a \in Seq(S) /\ Len(a) = Len(s) + 1
        /\ \A i \in 1 .. Len(s) + 1 :
              a[i] = IF i < p THEN s[i] ELSE IF i = p THEN e ELSE s[i - 1]
    BY ONLY <1>0, InsertAtElements
  <1>2. /\ b \in Seq(Nat) /\ Len(b) = Len(s) + 1
        /\ \A i \in 1 .. Len(s) + 1 :
              b[i] = IF i < p THEN n[i] ELSE IF i = p THEN k ELSE n[i - 1]
    <2> DEFINE N == Nat
    <2>1. n \in Seq(N) /\ k \in N /\ p \in 1 .. Len(n) + 1
      BY <1>0
    <2> HIDE DEF N
    <2>2. /\ b \in Seq(N) /\ Len(b) = Len(n) + 1
          /\ \A i \in 1 .. Len(n) + 1 :
              b[i] = IF i < p THEN n[i] ELSE IF i = p THEN k ELSE n[i - 1]
      BY ONLY <2>1, InsertAtElements
    <2> QED
      BY <1>0, <2>2 DEF N
  <1>3. /\ m \in Seq(L) /\ Len(m) = Len(s)
        /\ \A i \in 1 .. Len(s) : m[i] = LeafOf(s[i], n[i])
    BY ONLY <1>0, <1>l, NumberedElements
  <1>4. l \in L
    BY <1>0, <1>l
  <1> HIDE DEF l, m
  <1>5. /\ c \in Seq(L) /\ Len(c) = Len(s) + 1
        /\ \A i \in 1 .. Len(s) + 1 :
              c[i] = IF i < p THEN m[i] ELSE IF i = p THEN l ELSE m[i - 1]
    <2>1. p \in 1 .. Len(m) + 1
      BY <1>0, <1>3
    <2>2. /\ c \in Seq(L) /\ Len(c) = Len(m) + 1
          /\ \A i \in 1 .. Len(m) + 1 :
              c[i] = IF i < p THEN m[i] ELSE IF i = p THEN l ELSE m[i - 1]
      BY ONLY <1>3, <1>4, <2>1, InsertAtElements
    <2> QED
      BY <1>3, <2>2
  <1> HIDE DEF a, b, c
  <1>6. /\ r \in Seq(L) /\ Len(r) = Len(s) + 1
        /\ \A i \in 1 .. Len(s) + 1 : r[i] = LeafOf(a[i], b[i])
    <2>1. /\ r \in Seq(L) /\ Len(r) = Len(a)
          /\ \A i \in 1 .. Len(a) : r[i] = LeafOf(a[i], b[i])
      <3>1. Len(b) = Len(a)
        BY <1>1, <1>2
      <3> QED
        BY ONLY <1>1, <1>2, <1>l, <3>1, NumberedElements
    <2> QED
      BY <1>1, <2>1
  <1> HIDE DEF r
  <1>7. ASSUME NEW i \in 1 .. Len(s) + 1 PROVE r[i] = c[i]
    <2>0. i \in Int /\ 1 <= i
      BY <1>0
    <2>1. CASE i < p
      <3>1. i \in 1 .. Len(s)
        BY <1>0, <2>0, <2>1
      <3> QED
        BY <1>1, <1>2, <1>3, <1>5, <1>6, <2>1, <3>1
    <2>2. CASE i = p
      BY <1>0, <1>1, <1>2, <1>5, <1>6, <2>0, <2>2 DEF l
    <2>3. CASE i > p
      <3>1. i - 1 \in 1 .. Len(s) /\ ~ (i < p) /\ i # p
        BY <1>0, <2>0, <2>3
      <3>2. a[i] = s[i - 1] /\ b[i] = n[i - 1] /\ c[i] = m[i - 1]
        BY <1>1, <1>2, <1>5, <3>1
      <3> QED
        BY <1>3, <1>6, <3>1, <3>2
    <2> QED
      BY <1>0, <2>0, <2>1, <2>2, <2>3
  <1>8. r = c
    BY ONLY <1>0, <1>5, <1>6, <1>7
  <1> QED
    BY <1>1, <1>2, <1>8 DEF a, b, c, l, m, r

\* Numbering and the removal of the last leaf commute.
LEMMA NumberedFront ==
    ASSUME NEW S, NEW s \in Seq(S), NEW n \in Seq(Nat), Len(n) = Len(s),
           Len(s) > 0
    PROVE  /\ Front(n) \in Seq(Nat) /\ Len(Front(n)) = Len(Front(s))
           /\ Numbered(Front(s), Front(n)) = Front(Numbered(s, n))
  <1> DEFINE L == { LeafOf(x, i) : x \in S, i \in Nat }
             m == Numbered(s, n)
             a == Front(s)
             b == Front(n)
             c == Front(m)
             r == Numbered(a, b)
  <1>0. /\ s \in Seq(S) /\ n \in Seq(Nat) /\ Len(n) = Len(s)
        /\ Len(s) > 0 /\ Len(n) > 0 /\ Len(s) \in Nat
    OBVIOUS
  <1>l. \A x \in S : \A i \in Nat : LeafOf(x, i) \in L
    OBVIOUS
  <1> HIDE DEF L
  <1>1. /\ a \in Seq(S) /\ Len(a) = Len(s) - 1
        /\ \A i \in 1 .. Len(s) - 1 : a[i] = s[i]
    BY ONLY <1>0, FrontElements
  <1>2. /\ b \in Seq(Nat) /\ Len(b) = Len(n) - 1
        /\ \A i \in 1 .. Len(n) - 1 : b[i] = n[i]
    BY ONLY <1>0, FrontElements
  <1>3. /\ m \in Seq(L) /\ Len(m) = Len(s)
        /\ \A i \in 1 .. Len(s) : m[i] = LeafOf(s[i], n[i])
    BY ONLY <1>0, <1>l, NumberedElements
  <1> HIDE DEF m
  <1>4. /\ c \in Seq(L) /\ Len(c) = Len(m) - 1
        /\ \A i \in 1 .. Len(m) - 1 : c[i] = m[i]
    <2>1. Len(m) > 0
      BY <1>0, <1>3
    <2> QED
      BY ONLY <1>3, <2>1, FrontElements
  <1> HIDE DEF a, b, c
  <1>5. /\ r \in Seq(L) /\ Len(r) = Len(a)
        /\ \A i \in 1 .. Len(a) : r[i] = LeafOf(a[i], b[i])
    <2>1. Len(b) = Len(a)
      BY <1>0, <1>1, <1>2
    <2> QED
      BY ONLY <1>1, <1>2, <1>l, <2>1, NumberedElements
  <1> HIDE DEF r
  <1>6. Len(c) = Len(a) /\ Len(m) = Len(n)
    BY <1>0, <1>1, <1>3, <1>4
  <1>7. ASSUME NEW i \in 1 .. Len(a) PROVE r[i] = c[i]
    <2>1. i \in 1 .. Len(s) /\ i \in 1 .. Len(s) - 1
      BY <1>0, <1>1
    <2>2. a[i] = s[i] /\ b[i] = n[i] /\ c[i] = m[i]
      BY <1>0, <1>1, <1>2, <1>4, <1>6, <2>1
    <2> QED
      BY <1>3, <1>5, <2>1, <2>2
  <1>8. r = c
    <2>1. r \in Seq(L) /\ c \in Seq(L) /\ Len(r) = Len(c)
      BY <1>4, <1>5, <1>6
    <2>2. \A i \in 1 .. Len(r) : r[i] = c[i]
      BY <1>5, <1>7
    <2> QED
      BY ONLY <2>1, <2>2, SeqEqual
  <1>9. Len(b) = Len(a)
    BY <1>0, <1>1, <1>2
  <1> QED
    BY <1>2, <1>8, <1>9 DEF a, b, c, m, r
-----------------------------------------------------------------------------
\* The auxiliary variables change nothing that a step of the search does.
LEMMA AuxStep == [AuxNext]_<<vars, aux>> => [Next]_vars
  <1>1. ASSUME NEW w \in Workers,
               RecordLeaf(w) \/ LookUpResolvent(w) \/ InsertResolvent(w)
                 \/ OtherStep(w)
        PROVE  WorkerStep(w)
    BY <1>1 DEF RecordLeaf, LookUpResolvent, InsertResolvent, OtherStep,
                WorkerStep
  <1> QED
    BY <1>1 DEF AuxNext, Next

\* What record_leaf_proof does to the leaves, their numbers and the threshold.
LEMMA RecordLeafEffect ==
    ASSUME AuxTyped, NEW w \in Workers, RecordLeaf(w)
    PROVE  /\ HeadStep(w) \in StepType
           /\ worker[w].pc = "steps" /\ worker' = [worker EXCEPT ![w] = Dropped(w)]
           /\ recorded' = Append(recorded, HeadStep(w))
           /\ \E p \in 1 .. Len(leaves) + 1 :
                 /\ IsSlot(leaves, HeadStep(w), p)
                 /\ leaves' = LET sorted == InsertAt(leaves, p, HeadStep(w))
                              IN IF Full THEN Front(sorted) ELSE sorted
                 /\ arrival' =
                      LET numbers == InsertAt(arrival, p, Len(recorded) + 1)
                      IN IF Full THEN Front(numbers) ELSE numbers
           /\ threshold' = IF Full THEN Last(leaves').sim ELSE threshold
           /\ stats' = IF Full THEN [stats EXCEPT !.discarded = @ + 1] ELSE stats
           /\ UNCHANGED <<seen, passed, skipped>>
  <1> DEFINE e == HeadStep(w)
  <1>1. /\ HasStep(w) /\ worker' = [worker EXCEPT ![w] = Dropped(w)]
        /\ threshold' = IF Full THEN Last(leaves').sim ELSE threshold
        /\ stats' = IF Full THEN [stats EXCEPT !.discarded = @ + 1] ELSE stats
        /\ UNCHANGED seen
    BY DEF RecordLeaf, RecordLeafProof
  <1>2. /\ recorded' = Append(recorded, e)
        /\ UNCHANGED <<passed, skipped>>
    BY DEF RecordLeaf
  <1>3. worker[w].pc = "steps" /\ worker[w].found # <<>>
    BY <1>1 DEF HasStep, At
  <1>4. e \in StepType
    <2>1. worker[w].found \in Seq(StepType)
      BY DEF AuxTyped, Typed, TypeOK, WorkerType
    <2> QED
      BY <1>3, <2>1 DEF HeadStep
  <1>5. PICK p \in 1 .. Len(leaves) + 1 :
          /\ IsSlot(leaves, e, p)
          /\ leaves' = IF Full THEN Front(InsertAt(leaves, p, e))
                       ELSE InsertAt(leaves, p, e)
    BY DEF RecordLeaf, RecordLeafProof, HeadStep
  <1>6. PICK q \in 1 .. Len(leaves) + 1 :
          /\ IsSlot(leaves, e, q)
          /\ arrival' = IF Full THEN Front(InsertAt(arrival, q, Len(recorded) + 1))
                        ELSE InsertAt(arrival, q, Len(recorded) + 1)
    BY DEF RecordLeaf
  <1>7. Len(leaves) \in Nat
    BY DEF AuxTyped, Typed, TypeOK
  <1> HIDE DEF e
  <1>8. p = q
    BY ONLY <1>5, <1>6, <1>7, SlotIsUnique
  <1> QED
    BY <1>1, <1>2, <1>3, <1>4, <1>5, <1>6, <1>8 DEF e

\* The leaves have their numbers.
LEMMA AuxTypeStep == AuxTyped /\ [AuxNext]_<<vars, aux>> => AuxTyped'
  <1> SUFFICES ASSUME AuxTyped, [AuxNext]_<<vars, aux>> PROVE AuxTyped'
    OBVIOUS
  <1>1. Typed'
    BY AuxStep, TypeStep DEF AuxTyped
  <1>2. /\ leaves \in Seq(StepType) /\ arrival \in Seq(Nat)
        /\ Len(arrival) = Len(leaves) /\ recorded \in Seq(StepType)
    BY DEF AuxTyped, Typed, TypeOK
  <1>3. ASSUME NEW w \in Workers, RecordLeaf(w) PROVE AuxTyped'
    <2> DEFINE e == HeadStep(w)
               k == Len(recorded) + 1
    <2>1. e \in StepType /\ recorded' = Append(recorded, e)
      BY <1>3, RecordLeafEffect
    <2>2. PICK p \in 1 .. Len(leaves) + 1 :
            /\ leaves' = IF Full THEN Front(InsertAt(leaves, p, e))
                         ELSE InsertAt(leaves, p, e)
            /\ arrival' = IF Full THEN Front(InsertAt(arrival, p, k))
                          ELSE InsertAt(arrival, p, k)
      BY <1>3, RecordLeafEffect
    <2>3. k \in Nat
      BY <1>2
    <2> HIDE DEF e, k
    <2> DEFINE sorted == InsertAt(leaves, p, e)
               numbers == InsertAt(arrival, p, k)
    <2>4. numbers \in Seq(Nat) /\ Len(numbers) = Len(sorted)
      BY ONLY <1>2, <2>1, <2>3, p \in 1 .. Len(leaves) + 1, NumberedInsertAt
    <2>5. sorted \in Seq(StepType) /\ Len(sorted) = Len(leaves) + 1
      BY ONLY <1>2, <2>1, p \in 1 .. Len(leaves) + 1, InsertAtElements
    <2>6. Len(sorted) > 0
      BY <1>2, <2>5
    <2> HIDE DEF sorted, numbers
    <2>7. Front(numbers) \in Seq(Nat) /\ Len(Front(numbers)) = Len(Front(sorted))
      BY ONLY <2>4, <2>5, <2>6, NumberedFront
    <2>8. arrival' \in Seq(Nat) /\ Len(arrival') = Len(leaves')
      BY <2>2, <2>4, <2>7 DEF sorted, numbers
    <2>9. recorded' \in Seq(StepType)
      BY <1>2, <2>1
    <2> QED
      BY <1>1, <2>8, <2>9 DEF AuxTyped
  <1>4. ASSUME UNCHANGED <<leaves, recorded, arrival>> PROVE AuxTyped'
    BY <1>1, <1>2, <1>4 DEF AuxTyped
  <1>5. ASSUME NEW w \in Workers, LookUpResolvent(w) \/ InsertResolvent(w)
        PROVE  AuxTyped'
    BY <1>4, <1>5 DEF LookUpResolvent, InsertResolvent, CheckResolvent,
                      InsertSeen, shared
  <1>6. ASSUME NEW w \in Workers, OtherStep(w) PROVE AuxTyped'
    <2>1. UNCHANGED leaves
      BY <1>6 DEF OtherStep, StartJob, RefuseGoal, AdmitGoal, CheckQuota,
                  SkipWideClause, BeginResolve, UnifyLiteral, LoadThreshold,
                  DropStep, NextClause, EndGoal, SpawnBatch, EndBatch, shared
    <2> QED
      BY <1>4, <1>6, <2>1 DEF OtherStep, aux
  <1>7. ASSUME ((Collect \/ Done) /\ UNCHANGED aux) \/ UNCHANGED <<vars, aux>>
        PROVE  AuxTyped'
    <2>1. UNCHANGED leaves
      BY <1>7 DEF Collect, Done, vars, shared
    <2> QED
      BY <1>4, <1>7, <2>1 DEF aux
  <1> QED
    BY <1>3, <1>5, <1>6, <1>7 DEF AuxNext
-----------------------------------------------------------------------------
\* The numbers given to the leaves as they arrive.
Order == [i \in DOMAIN recorded |-> i]

\* The first state is one of the context.
LEMMA InitMapped == AuxInit => Context!Init
  <1> SUFFICES ASSUME AuxInit PROVE Context!Init
    OBVIOUS
  <1>1. /\ leaves = <<>> /\ arrival = <<>> /\ recorded = <<>> /\ passed = <<>>
        /\ skipped = {} /\ threshold = InitialThreshold
        /\ stats.discarded = 0
        /\ seen = [d \in Disjunctions |-> Unseen]
        /\ worker = [w \in Workers |-> Idle]
    BY DEF AuxInit, Init, NoStats
  <1>2. Numbered(leaves, arrival) = <<>> /\ Numbered(recorded, Order) = <<>>
    BY <1>1 DEF Numbered
  <1>3. [d \in Disjunctions |-> EntryIn(d)] = [d \in Disjunctions |-> Context!Unseen]
    BY <1>1 DEF EntryIn, Context!Unseen
  <1>4. [w \in Workers |-> CallOf(w)] = [w \in Workers |-> Context!Ready]
    <2>1. Idle.pc = "idle"
      BY DEF Idle
    <2>2. \A w \in Workers : CallOf(w) = Context!Ready
      BY <1>1, <2>1 DEF CallOf, At, Context!Ready
    <2> QED
      BY <2>2
  <1> QED
    BY <1>1, <1>2, <1>3, <1>4, SearchAssumption DEF Context!Init, Order, Limits

\* A step that changes no more than the record of one thread, which does not
\* insert before it or after it, changes nothing of the context.
LEMMA OtherMapped ==
    ASSUME AuxTyped, AuxTyped', UNCHANGED <<leaves, threshold, seen, aux>>,
           stats'.discarded = stats.discarded,
           \A w \in Workers : worker'[w] = worker[w]
             \/ (worker[w].pc # "insert" /\ worker'[w].pc # "insert")
    PROVE  UNCHANGED Context!vars
  <1>1. \A w \in Workers : CallOf(w)' = CallOf(w)
    BY DEF CallOf, At, HeadStep
  <1>2. [w \in Workers |-> CallOf(w)]' = [w \in Workers |-> CallOf(w)]
    BY <1>1
  <1>3. \A d \in Disjunctions : EntryIn(d)' = EntryIn(d)
    BY DEF EntryIn
  <1>4. [d \in Disjunctions |-> EntryIn(d)]' = [d \in Disjunctions |-> EntryIn(d)]
    BY <1>3
  <1>5. UNCHANGED Numbered(leaves, arrival) /\ UNCHANGED Numbered(recorded, Order)
    BY DEF Numbered, Order, aux
  <1> QED
    BY <1>2, <1>4, <1>5
    DEF Context!vars, Context!leafVars, Context!seenVars, aux, Order

\* The kinds of the limits, as the context assumes them.
LEMMA LimitFacts ==
    /\ NoLimit \notin Int /\ (MaxProofs # NoLimit => MaxProofs \in Nat \ {0})
    /\ \A s \in StepType : s.sim \in Sims /\ s.sim \in Int /\ s.depth \in Depths
    /\ \A s \in Sims : s \in Int
  <1>1. \A s \in StepType : s.sim \in Sims /\ s.depth \in Depths
    BY DEF StepType
  <1> QED
    BY <1>1, SimsAboveThreshold, SearchAssumption DEF Limits

\* record_leaf_proof is KeepLeaf or DisplaceLeaf of the context.
LEMMA RecordMapped ==
    ASSUME AuxTyped, AuxTyped', NEW w \in Workers, RecordLeaf(w)
    PROVE  Context!Next
  <1> DEFINE e == HeadStep(w)
             k == Len(recorded) + 1
             l == LeafOf(e, k)
             bar == Numbered(leaves, arrival)
             offers == Numbered(recorded, Order)
  <1>t. /\ leaves \in Seq(StepType) /\ arrival \in Seq(Nat)
        /\ Len(arrival) = Len(leaves) /\ recorded \in Seq(StepType)
        /\ worker \in [Workers -> WorkerType] /\ stats \in StatsType
        /\ Len(leaves) \in Nat
    BY DEF AuxTyped, Typed, TypeOK
  <1>1. /\ e \in StepType /\ worker[w].pc = "steps"
        /\ worker' = [worker EXCEPT ![w] = Dropped(w)]
        /\ recorded' = Append(recorded, e)
        /\ threshold' = IF Full THEN Last(leaves').sim ELSE threshold
        /\ stats' = IF Full THEN [stats EXCEPT !.discarded = @ + 1] ELSE stats
        /\ UNCHANGED <<seen, passed, skipped>>
    BY RecordLeafEffect
  <1>2. PICK p \in 1 .. Len(leaves) + 1 :
          /\ IsSlot(leaves, e, p)
          /\ leaves' = IF Full THEN Front(InsertAt(leaves, p, e))
                       ELSE InsertAt(leaves, p, e)
          /\ arrival' = IF Full THEN Front(InsertAt(arrival, p, k))
                        ELSE InsertAt(arrival, p, k)
    BY RecordLeafEffect
  <1>3. k \in Nat
    BY <1>t
  \* The calls, the entries and the offers.
  <1>4. [v \in Workers |-> CallOf(v)]' = [v \in Workers |-> CallOf(v)]
    <2>1. worker'[w].pc = "steps"
      BY <1>1, <1>t DEF Dropped, WorkerType
    <2>2. \A v \in Workers : CallOf(v)' = CallOf(v)
      BY <1>1, <1>t, <2>1 DEF CallOf, At, HeadStep
    <2> QED
      BY <2>2
  <1>5. [d \in Disjunctions |-> EntryIn(d)]' = [d \in Disjunctions |-> EntryIn(d)]
    <2>1. \A d \in Disjunctions : EntryIn(d)' = EntryIn(d)
      BY <1>1 DEF EntryIn
    <2> QED
      BY <2>1
  <1>6. CallOf(w) = Context!Ready
    BY <1>1 DEF CallOf, At, Context!Ready
  <1>7. /\ Len(offers) = Len(recorded)
        /\ Numbered(recorded', Order') = Append(offers, l)
    <2>1. DOMAIN recorded = 1 .. Len(recorded) /\ Len(recorded) \in Nat
      BY <1>t
    <2>2. /\ recorded' \in Seq(StepType) /\ Len(recorded') = k
          /\ \A i \in 1 .. k :
                recorded'[i] = IF i = k THEN e ELSE recorded[i]
          /\ DOMAIN recorded' = 1 .. k
      BY <1>1, <1>t
    <2> HIDE DEF e
    <2>3. offers = [i \in 1 .. Len(recorded) |-> LeafOf(recorded[i], i)]
      BY <2>1 DEF Numbered, Order
    <2>4. Len(offers) = Len(recorded)
      BY <2>1, <2>3
    <2>5. Numbered(recorded', Order') = [i \in 1 .. k |-> LeafOf(recorded'[i], i)]
      BY <2>2 DEF Numbered, Order
    <2>6. Append(offers, l) =
            [i \in 1 .. k |-> IF i = k THEN l ELSE LeafOf(recorded[i], i)]
      <3> HIDE DEF l
      <3> QED
        BY <2>1, <2>3
    <2>7. ASSUME NEW i \in 1 .. k
          PROVE  LeafOf(recorded'[i], i) =
                   IF i = k THEN l ELSE LeafOf(recorded[i], i)
      BY <2>2
    <2> QED
      BY <2>4, <2>5, <2>6, <2>7
  \* The vector.
  <1> DEFINE sorted == InsertAt(leaves, p, e)
             numbers == InsertAt(arrival, p, k)
             inserted == InsertAt(bar, p, l)
  <1> HIDE DEF e, k
  <1>8. /\ Len(bar) = Len(leaves)
        /\ \A i \in 1 .. Len(leaves) : bar[i] = LeafOf(leaves[i], arrival[i])
        /\ IsSlot(bar, l, p)
    <2> DEFINE L == { LeafOf(x, i) : x \in StepType, i \in Nat }
    <2>1. \A x \in StepType : \A i \in Nat : LeafOf(x, i) \in L
      OBVIOUS
    <2> HIDE DEF L
    <2>2. /\ Len(bar) = Len(leaves)
          /\ \A i \in 1 .. Len(leaves) : bar[i] = LeafOf(leaves[i], arrival[i])
      BY ONLY <1>t, <2>1, NumberedElements
    <2>3. IsSlot(bar, l, p)
      BY ONLY <1>t, <1>2, NumberedSlot
    <2> QED
      BY <2>2, <2>3
  <1>9. /\ numbers \in Seq(Nat) /\ Len(numbers) = Len(sorted)
        /\ Numbered(sorted, numbers) = inserted
    BY ONLY <1>t, <1>1, <1>3, p \in 1 .. Len(leaves) + 1, NumberedInsertAt
  <1>10. sorted \in Seq(StepType) /\ Len(sorted) = Len(leaves) + 1
    BY ONLY <1>t, <1>1, p \in 1 .. Len(leaves) + 1, InsertAtElements
  <1>11. Context!CanOffer(w) /\ ~ Context!SortPanics(l) /\ ~ Context!PopPanics
    <2>1. l.sim \in Int /\ \A i \in 1 .. Len(leaves) : bar[i].sim \in Int
      <3>1. \A i \in 1 .. Len(leaves) : leaves[i] \in StepType
        BY <1>t
      <3>2. l.sim = e.sim /\ l.sim \in Int
        BY <1>1, LimitFacts DEF LeafOf
      <3>3. \A i \in 1 .. Len(leaves) :
               LeafOf(leaves[i], arrival[i]).sim \in Int
        BY <3>1, LimitFacts DEF LeafOf
      <3> HIDE DEF l, bar
      <3> QED
        BY <1>8, <3>2, <3>3
    <2>2. ~ Context!SortPanics(l)
      BY <1>8, <2>1, LimitFacts DEF Context!SortPanics
    <2>3. ~ Context!PopPanics
      BY LimitFacts DEF Context!PopPanics, Context!Overflows
    <2>4. Context!CanOffer(w)
      BY <1>6 DEF Context!CanOffer
    <2> QED
      BY <2>2, <2>3, <2>4
  <1>12. Full <=> Context!Overflows(Len(bar) + 1)
    BY <1>8, <1>t, LimitFacts DEF Full, AtLimit, Context!Overflows
  <1>13. /\ l = Context!NewLeaf(e.sim, e.depth)
         /\ e.sim \in Sims /\ e.depth \in Depths
    <2>1. Len(offers) + 1 = k
      BY <1>7 DEF k
    <2>2. l = Context!NewLeaf(e.sim, e.depth)
      BY <2>1 DEF Context!NewLeaf, LeafOf, Order
    <2> QED
      BY <1>1, <2>2, LimitFacts
  <1>a. /\ p \in 1 .. Len(bar) + 1
        /\ Context!IsSlot(bar, l, p)
        /\ Context!InsertAt(bar, p, l) = inserted
        /\ Context!Front(inserted) = Front(inserted)
    <2>1. p \in 1 .. Len(bar) + 1
      BY <1>8
    <2>2. Context!IsSlot(bar, l, p)
      BY <1>8 DEF IsSlot, Precedes, Context!IsSlot, Context!Precedes
    <2>3. Context!InsertAt(bar, p, l) = inserted
      BY DEF InsertAt, Context!InsertAt
    <2>4. Context!Front(inserted) = Front(inserted)
      BY DEF Front, Context!Front
    <2> QED
      BY <2>1, <2>2, <2>3, <2>4
  <1>14. ASSUME ~ Full PROVE Context!KeepLeaf(w)
    <2>1. Numbered(leaves, arrival)' = inserted
      BY <1>2, <1>9, <1>14
    <2>2. UNCHANGED <<threshold, stats>>
      BY <1>1, <1>14
    <2> HIDE DEF l, bar, inserted
    <2>3. ~ Context!Overflows(Len(bar) + 1)
      BY <1>12, <1>14
    <2>4. \E q \in 1 .. Len(bar) + 1 :
             /\ Context!IsSlot(bar, l, q)
             /\ Numbered(leaves, arrival)' = Context!InsertAt(bar, q, l)
      BY <1>a, <2>1
    <2>5. UNCHANGED <<FALSE, threshold, stats.discarded, Context!seenVars,
                      [v \in Workers |-> CallOf(v)]>>
      BY <1>1, <1>4, <1>5, <2>2 DEF Context!seenVars
    <2>6. Numbered(recorded, Order)' = Append(offers, l)
      BY <1>7
    <2> QED
      BY <1>11, <1>13, <2>3, <2>4, <2>5, <2>6 DEF Context!KeepLeaf, Order, bar
  <1>15. ASSUME Full PROVE Context!DisplaceLeaf(w)
    <2>1. Numbered(leaves, arrival)' = Front(inserted)
      <3> HIDE DEF sorted, numbers, inserted
      <3>1. Len(sorted) > 0
        BY <1>10, <1>t
      <3>2. Numbered(Front(sorted), Front(numbers)) = Front(Numbered(sorted, numbers))
        BY ONLY <1>9, <1>10, <3>1, NumberedFront
      <3> QED
        BY <1>2, <1>9, <1>15, <3>2 DEF sorted, numbers
    <2>2. threshold' = Context!BarAfterPop(inserted)
      <3> HIDE DEF sorted, numbers, inserted
      <3>1. Len(leaves) >= 1
        BY <1>15, <1>t, LimitFacts DEF Full, AtLimit
      <3>2. leaves' = Front(sorted)
        BY <1>2, <1>15 DEF sorted
      <3>3. /\ Len(leaves') = Len(leaves)
            /\ leaves'[Len(leaves)] = sorted[Len(leaves)]
        <4>1. Len(sorted) > 0 /\ Len(leaves) \in 1 .. Len(sorted) - 1
          BY <1>10, <1>t, <3>1
        <4>2. /\ Len(Front(sorted)) = Len(sorted) - 1
              /\ \A i \in 1 .. Len(sorted) - 1 : Front(sorted)[i] = sorted[i]
          BY ONLY <1>10, <4>1, FrontElements
        <4> QED
          BY <1>10, <1>t, <3>2, <4>1, <4>2
      <3>4. threshold' = sorted[Len(leaves)].sim
        BY <1>1, <1>15, <3>3 DEF Last
      <3>5. /\ Len(inserted) = Len(leaves) + 1
            /\ inserted[Len(leaves)].sim = sorted[Len(leaves)].sim
        <4> DEFINE L == { LeafOf(x, i) : x \in StepType, i \in Nat }
        <4>1. \A x \in StepType : \A i \in Nat : LeafOf(x, i) \in L
          OBVIOUS
        <4> HIDE DEF L
        <4>2. /\ Len(inserted) = Len(sorted)
              /\ \A i \in 1 .. Len(sorted) :
                    inserted[i] = LeafOf(sorted[i], numbers[i])
          BY ONLY <1>9, <1>10, <4>1, NumberedElements
        <4> QED
          BY <1>10, <1>t, <3>1, <4>2 DEF LeafOf
      <3> QED
        BY <1>t, <3>4, <3>5 DEF Context!BarAfterPop
    <2>3. stats.discarded' = stats.discarded + 1
      BY <1>1, <1>15, <1>t DEF StatsType
    <2> HIDE DEF l, bar, inserted
    <2>4. Context!Overflows(Len(bar) + 1)
      BY <1>12, <1>15
    <2>5. \E q \in 1 .. Len(bar) + 1 :
             /\ Context!IsSlot(bar, l, q)
             /\ Numbered(leaves, arrival)' = Context!Front(Context!InsertAt(bar, q, l))
             /\ threshold' = Context!BarAfterPop(Context!InsertAt(bar, q, l))
      BY <1>a, <2>1, <2>2
    <2>6. UNCHANGED <<FALSE, Context!seenVars, [v \in Workers |-> CallOf(v)]>>
      BY <1>1, <1>4, <1>5 DEF Context!seenVars
    <2>7. Numbered(recorded, Order)' = Append(offers, l)
      BY <1>7
    <2> QED
      BY <1>11, <1>13, <2>3, <2>4, <2>5, <2>6, <2>7
      DEF Context!DisplaceLeaf, Order, bar
  <1> QED
    BY <1>14, <1>15 DEF Context!Next, Context!RecordLeafProof

\* check_resolvent's look-up is a call of the context that passes or skips the
\* step at once, or the first half of one.
LEMMA LookUpMapped ==
    ASSUME AuxTyped, AuxTyped', NEW w \in Workers, LookUpResolvent(w)
    PROVE  Context!Next
  <1> DEFINE s == HeadStep(w)
             calls == [v \in Workers |-> CallOf(v)]
             entries == [d \in Disjunctions |-> EntryIn(d)]
  <1>t. /\ worker \in [Workers -> WorkerType]
        /\ seen \in [Disjunctions -> {Unseen} \cup [depth : Depths, sim : Sims]]
    BY DEF AuxTyped, Typed, TypeOK
  <1>1. /\ worker[w].pc = "steps" /\ worker[w].found # <<>>
        /\ s.resolvent # Empty
        /\ worker' = [worker EXCEPT ![w] =
                         IF ~ SkipSeen THEN Pushed(w)
                         ELSE IF Covers(seen[s.resolvent], s) THEN Dropped(w)
                         ELSE [@ EXCEPT !.pc = "insert"]]
        /\ UNCHANGED <<leaves, threshold, seen, stats, recorded, arrival>>
        /\ passed' = IF ~ SkipSeen THEN Append(passed, Checked(s)) ELSE passed
        /\ skipped' = IF SkipSeen /\ Covers(seen[s.resolvent], s)
                      THEN skipped \cup {Checked(s)} ELSE skipped
    BY DEF LookUpResolvent, CheckResolvent, HasStep, At, HeadStep, shared
  <1>2. s \in StepType /\ s.resolvent \in Disjunctions
    <2>1. worker[w].found \in Seq(StepType)
      BY <1>t DEF WorkerType
    <2>2. s \in StepType
      BY <1>1, <2>1 DEF HeadStep
    <2> HIDE DEF s
    <2> QED
      BY <1>1, <2>2 DEF StepType
  <1>3. CallOf(w) = Context!Ready
    BY <1>1 DEF CallOf, At, Context!Ready
  <1>4. UNCHANGED entries
    <2>1. \A d \in Disjunctions : EntryIn(d)' = EntryIn(d)
      BY <1>1 DEF EntryIn
    <2> QED
      BY <2>1
  <1>5. UNCHANGED Context!leafVars
    BY <1>1 DEF Context!leafVars, Numbered
  <1> HIDE DEF s
  <1>6. Checked(s) \in Context!Step
    BY <1>2 DEF Checked, StepType, Context!Step
  <1>7. Context!CanCheck(w)
    BY <1>3 DEF Context!CanCheck
  <1>8. Covers(seen[s.resolvent], s) <=>
          /\ entries[s.resolvent] # Context!Unseen
          /\ Context!Covers(entries[s.resolvent], Checked(s))
    <2>1. entries[s.resolvent] = EntryIn(s.resolvent)
      BY <1>2
    <2>2. CASE seen[s.resolvent] = Unseen
      BY <2>1, <2>2 DEF EntryIn, Covers, Context!Unseen
    <2>3. CASE seen[s.resolvent] # Unseen
      <3>1. seen[s.resolvent].sim \in Int /\ s.sim \in Int
        BY <1>2, <1>t, <2>3, LimitFacts
      <3>2. EntryIn(s.resolvent) # Context!Unseen
        <4>1. EntryIn(s.resolvent).state = "seen"
          BY <2>3 DEF EntryIn
        <4> QED
          BY <4>1 DEF Context!Unseen
      <3> QED
        BY <2>1, <2>3, <3>1, <3>2, LimitFacts
        DEF EntryIn, Covers, Checked, Context!Covers, Context!AtLeast
    <2> QED
      BY <2>2, <2>3
  <1>9. ASSUME worker'[w].pc = "steps" PROVE UNCHANGED calls
    <2>1. \A v \in Workers : CallOf(v)' = CallOf(v)
      BY <1>1, <1>9, <1>t DEF CallOf, At, HeadStep
    <2> QED
      BY <2>1
  <1> HIDE DEF entries, calls
  <1>10. CASE ~ SkipSeen
    <2>1. worker'[w].pc = "steps"
      BY <1>1, <1>10, <1>t DEF Pushed, Dropped, WorkerType
    <2>2. Context!PassUnchecked(w)
      BY <1>1, <1>4, <1>5, <1>6, <1>7, <1>9, <1>10, <2>1
      DEF Context!PassUnchecked, entries, calls
    <2> QED
      BY <2>2 DEF Context!Next, Context!CheckResolvent
  <1>11. CASE SkipSeen /\ Covers(seen[s.resolvent], s)
    <2>1. worker'[w].pc = "steps"
      BY <1>1, <1>11, <1>t DEF Dropped, WorkerType
    <2>2. Context!SkipResolvent(w)
      <3>1. Checked(s).resolvent = s.resolvent
        BY DEF Checked
      <3> QED
        BY <1>1, <1>4, <1>5, <1>6, <1>7, <1>8, <1>9, <1>11, <2>1, <3>1
        DEF Context!SkipResolvent, entries, calls
    <2> QED
      BY <2>2 DEF Context!Next, Context!CheckResolvent
  <1>12. CASE SkipSeen /\ ~ Covers(seen[s.resolvent], s)
    <2>1. worker' = [worker EXCEPT ![w] = [worker[w] EXCEPT !.pc = "insert"]]
      BY <1>1, <1>12, <1>t
    <2>2. worker'[w].pc = "insert" /\ worker'[w].found = worker[w].found
      BY <1>t, <2>1 DEF WorkerType
    <2>3. calls' = [calls EXCEPT ![w] = Context!Inserting(Checked(s))]
      <3>1. CallOf(w)' = Context!Inserting(Checked(s))
        BY <2>2 DEF CallOf, At, HeadStep, Context!Inserting, s, Checked
      <3>2. \A v \in Workers \ {w} : CallOf(v)' = CallOf(v)
        BY <1>t, <2>1 DEF CallOf, At, HeadStep
      <3> QED
        BY <3>1, <3>2 DEF calls
    <2>4. Context!MissResolvent(w)
      <3>1. Checked(s).resolvent = s.resolvent
        BY DEF Checked
      <3>2. UNCHANGED Context!seenVars
        BY <1>1, <1>4, <1>12 DEF Context!seenVars, entries
      <3> QED
        BY <1>5, <1>6, <1>7, <1>8, <1>12, <2>3, <3>1, <3>2
        DEF Context!MissResolvent, entries, calls
    <2> QED
      BY <2>4 DEF Context!Next, Context!CheckResolvent
  <1> QED
    BY <1>10, <1>11, <1>12

\* Its insertion is the second half.
LEMMA InsertMapped ==
    ASSUME AuxTyped, AuxTyped', NEW w \in Workers, InsertResolvent(w)
    PROVE  Context!Next
  <1> DEFINE s == HeadStep(w)
             calls == [v \in Workers |-> CallOf(v)]
             entries == [d \in Disjunctions |-> EntryIn(d)]
  <1>t. /\ worker \in [Workers -> WorkerType] /\ Placed(worker[w])
        /\ seen \in [Disjunctions -> {Unseen} \cup [depth : Depths, sim : Sims]]
    BY DEF AuxTyped, Typed, TypeOK
  <1>1. /\ worker[w].pc = "insert" /\ worker' = [worker EXCEPT ![w] = Pushed(w)]
        /\ seen' = [seen EXCEPT ![s.resolvent] =
                       [depth |-> s.depth, sim |-> s.sim]]
        /\ UNCHANGED <<leaves, threshold, stats, recorded, arrival, skipped>>
        /\ passed' = Append(passed, Checked(s))
    BY DEF InsertResolvent, InsertSeen, At, HeadStep
  <1>2. s \in StepType /\ s.resolvent \in Disjunctions
    <2>1. worker[w].found \in Seq(StepType)
      BY <1>t DEF WorkerType
    <2>2. worker[w].found # <<>> /\ s.resolvent # Empty
      BY <1>1, <1>t DEF Placed, HeadStep
    <2>3. s \in StepType
      BY <2>1, <2>2 DEF HeadStep
    <2> HIDE DEF s
    <2> QED
      BY <2>2, <2>3 DEF StepType
  <1>3. calls[w] = [state |-> "inserting", step |-> Checked(s)]
    BY <1>1 DEF CallOf, At
  <1>4. calls' = [calls EXCEPT ![w] = Context!Ready]
    <2>1. worker'[w].pc = "steps"
      BY <1>1, <1>t DEF Pushed, Dropped, WorkerType
    <2>2. CallOf(w)' = Context!Ready
      BY <2>1 DEF CallOf, At, Context!Ready
    <2>3. \A v \in Workers \ {w} : CallOf(v)' = CallOf(v)
      BY <1>1, <1>t DEF CallOf, At, HeadStep
    <2> QED
      BY <2>2, <2>3
  <1> HIDE DEF s
  <1>5. entries' = [entries EXCEPT ![s.resolvent] =
                      Context!EntryOf(entries[s.resolvent], Checked(s))]
    <2>1. seen'[s.resolvent] = [depth |-> s.depth, sim |-> s.sim]
      BY <1>1, <1>2, <1>t
    <2>2. seen'[s.resolvent] # Unseen
      <3>1. s.depth \in Int
        BY <1>2, LimitFacts, SearchAssumption DEF Depths
      <3> QED
        BY <2>1, <3>1, LimitFacts DEF Unseen
    <2>3. ASSUME NEW d \in Disjunctions, d = s.resolvent
          PROVE  EntryIn(d)' = Context!EntryOf(entries[d], Checked(s))
      <3>1. /\ seen'[d] # Unseen
            /\ seen'[d].depth = s.depth /\ seen'[d].sim = s.sim
        BY <2>1, <2>2, <2>3
      <3> QED
        BY <3>1 DEF EntryIn, Checked, Context!EntryOf
    <2>4. ASSUME NEW d \in Disjunctions, d # s.resolvent
          PROVE  EntryIn(d)' = EntryIn(d)
      BY <1>1, <1>t, <2>4 DEF EntryIn
    <2> QED
      BY <1>2, <2>3, <2>4
  <1>6. UNCHANGED Context!leafVars
    BY <1>1 DEF Context!leafVars, Numbered
  <1>7. calls[w].state = "inserting" /\ calls[w].step = Checked(s)
    BY <1>3
  <1>8. Checked(s).resolvent = s.resolvent
    BY DEF Checked
  <1> HIDE DEF entries, calls
  <1>9. Context!InsertResolvent(w)
    BY <1>1, <1>4, <1>5, <1>6, <1>7, <1>8
    DEF Context!InsertResolvent, entries, calls
  <1> QED
    BY <1>9 DEF Context!Next, Context!CheckResolvent

\* All the other steps leave the context alone.
LEMMA OthersMapped ==
    ASSUME AuxTyped, AuxTyped',
           \/ \E w \in Workers : OtherStep(w)
           \/ (Collect \/ Done) /\ UNCHANGED aux
           \/ UNCHANGED <<vars, aux>>
    PROVE  UNCHANGED Context!vars
  <1>t. /\ worker \in [Workers -> WorkerType] /\ stats \in StatsType
        /\ Idle \in WorkerType
    BY IdleType DEF AuxTyped, Typed, TypeOK
  <1>1. ASSUME NEW w \in Workers, OtherStep(w) PROVE UNCHANGED Context!vars
    <2>1. UNCHANGED aux
      BY <1>1 DEF OtherStep
    <2>2. UNCHANGED <<leaves, threshold, seen>> /\ stats'.discarded = stats.discarded
      BY <1>1, <1>t DEF OtherStep, StartJob, RefuseGoal, AdmitGoal, CheckQuota,
           SkipWideClause, BeginResolve, UnifyLiteral, LoadThreshold, DropStep,
           NextClause, EndGoal, SpawnBatch, EndBatch, shared, Synced, StatsType
    <2>3. worker[w].pc # "insert"
      BY <1>1 DEF OtherStep, StartJob, RefuseGoal, AdmitGoal, CheckQuota,
           SkipWideClause, BeginResolve, UnifyLiteral, LoadThreshold, DropStep,
           NextClause, EndGoal, SpawnBatch, EndBatch, At, HasGoal, HasStep,
           InClauses
    <2>4. worker'[w].pc # "insert" /\ \A v \in Workers \ {w} : worker'[v] = worker[v]
      <3>0. ASSUME NEW me, me.pc # "insert", worker' = [worker EXCEPT ![w] = me]
            PROVE  /\ worker'[w].pc # "insert"
                   /\ \A v \in Workers \ {w} : worker'[v] = worker[v]
        BY <1>t, <3>0
      <3>1. CASE StartJob(w)
        <4>1. PICK b \in jobs : worker' = [worker EXCEPT ![w] =
                                   [Idle EXCEPT !.pc = "goals", !.batch = b]]
          BY <3>1 DEF StartJob
        <4> DEFINE me == [Idle EXCEPT !.pc = "goals", !.batch = b]
        <4>2. me.pc = "goals"
          BY <1>t DEF WorkerType
        <4> HIDE DEF me
        <4> QED
          BY <3>0, <4>1, <4>2 DEF me
      <3>2. CASE RefuseGoal(w) \/ AdmitGoal(w) \/ CheckQuota(w)
        <4>1. Refused(w).pc = "return" /\ Expanding(w).pc = "clauses"
          BY <1>t DEF Refused, Expanding, WorkerType
        <4>2. \/ worker' = [worker EXCEPT ![w] = Refused(w)]
              \/ worker' = [worker EXCEPT ![w] = Expanding(w)]
              \/ worker' = [worker EXCEPT ![w].pc = "quota"]
          BY <3>2 DEF RefuseGoal, AdmitGoal, CheckQuota
        <4>3. CASE worker' = [worker EXCEPT ![w].pc = "quota"]
          BY <1>t, <4>3 DEF WorkerType
        <4> QED
          BY <3>0, <4>1, <4>2, <4>3
      <3>3. CASE SkipWideClause(w) \/ BeginResolve(w) \/ UnifyLiteral(w)
                   \/ LoadThreshold(w)
        BY <1>t, <2>3, <3>3 DEF SkipWideClause, BeginResolve, UnifyLiteral,
                                LoadThreshold, WorkerType
      <3>4. CASE DropStep(w)
        BY <1>t, <3>4 DEF DropStep, Dropped, WorkerType
      <3>5. CASE NextClause(w)
        BY <1>t, <3>5 DEF NextClause, WorkerType
      <3>6. CASE EndGoal(w)
        <4> DEFINE me == [worker[w] EXCEPT !.pc = "return", !.item = NoItem,
                            !.stats.attempted = @ + NumClauses,
                            !.stats.successful = @ + worker[w].successes]
        <4>1. worker' = [worker EXCEPT ![w] = me]
          <5>1. w \in DOMAIN worker
            BY <1>t
          <5> QED
            BY <3>6, <5>1 DEF EndGoal
        <4>2. me.pc = "return"
          BY <1>t DEF WorkerType
        <4> HIDE DEF me
        <4> QED
          BY <3>0, <4>1, <4>2
      <3>7. CASE SpawnBatch(w)
        BY <1>t, <3>7 DEF SpawnBatch, WorkerType
      <3>8. CASE EndBatch(w)
        <4>1. NextBatch(w).pc # "insert"
          BY <1>t DEF NextBatch, Idle, WorkerType
        <4> QED
          BY <3>0, <3>8, <4>1 DEF EndBatch
      <3> QED
        BY <1>1, <3>1, <3>2, <3>3, <3>4, <3>5, <3>6, <3>7, <3>8 DEF OtherStep
    <2>5. \A v \in Workers : \/ worker'[v] = worker[v]
                             \/ worker[v].pc # "insert" /\ worker'[v].pc # "insert"
      BY <2>3, <2>4
    <2> QED
      BY <2>1, <2>2, <2>5, OtherMapped
  <1>2. ASSUME (Collect \/ Done) /\ UNCHANGED aux PROVE UNCHANGED Context!vars
    BY <1>2, OtherMapped DEF Collect, Done, vars, shared
  <1>3. ASSUME UNCHANGED <<vars, aux>> PROVE UNCHANGED Context!vars
    BY <1>3, OtherMapped DEF vars, shared
  <1> QED
    BY <1>1, <1>2, <1>3

\* What the search makes of the constants of ProofContext is what its
\* ContextAssumption asks for, so that all its theorems hold of the search.
LEMMA ContextAssumed ==
    /\ MaxProofs \in Nat \cup {NoLimit} /\ MaxProofs # 0
    /\ NoLimit \notin Int /\ InitialThreshold \in Int
    /\ \A s \in Sims : s \in Int /\ s > InitialThreshold
    /\ Depths \subseteq Nat
  BY SearchAssumption, SimsAboveThreshold DEF Limits, Depths

\* Every search uses the context as ProofContext specifies it: its leaf proofs,
\* threshold, seen resolvents and discarded proofs change by its calls alone.
THEOREM ContextIsImplemented == AuxSpec => ImplementsContext
  <1>1. AuxInit => AuxTyped
    <2>1. ASSUME AuxInit PROVE AuxTyped
      BY <2>1, TypeInit DEF AuxInit, Init, AuxTyped
    <2> QED
      BY <2>1
  <1>2. AuxTyped /\ AuxTyped' /\ [AuxNext]_<<vars, aux>>
          => [Context!Next]_(Context!vars)
    <2> SUFFICES ASSUME AuxTyped, AuxTyped', [AuxNext]_<<vars, aux>>
                 PROVE  Context!Next \/ UNCHANGED Context!vars
      OBVIOUS
    <2> QED
      BY RecordMapped, LookUpMapped, InsertMapped, OthersMapped DEF AuxNext
  <1>3. AuxSpec => []AuxTyped
    BY <1>1, AuxTypeStep, PTL DEF AuxSpec
  <1> QED
    BY <1>2, <1>3, InitMapped, PTL DEF AuxSpec, ImplementsContext, Context!Spec
=============================================================================
