--------------------- MODULE ProofSearchComplete_proofs ---------------------
(***************************************************************************)
(* Theorems about what ProofSearch finds, for any number of threads, any   *)
(* limits and anything that resolve() may find: the best proofs, however   *)
(* the threads raise the threshold, overwrite what was seen and share      *)
(* their work.                                                             *)
(***************************************************************************)
EXTENDS ProofSearch_proofs

(***************************************************************************)
(* The inductive invariant: as long as no limit has cut the search short,  *)
(* nothing that the resolved goals lead to is lost.                        *)
(***************************************************************************)

\* From here on goals are refused.
Exhausted ==
    AttemptsSpent \/ (~ FindHighest /\ AtLimit(Len(leaves), MaxProofs))

\* The goals resolved and those that will be.
Waiting(me) == ToSet(me.batch) \cup ToSet(me.acc)

Items ==
    expanded \cup (UNION { ToSet(b) : b \in jobs })
        \cup (UNION { Waiting(worker[w]) : w \in Workers })

RootItem(g) == [goal |-> g, parent |-> NoParent]

StepAt(e, c, l) == StepOf(e, c, l, resolutions[e.goal][c][l])

\* The item was reached by a step that is as good as one of this depth and
\* similarity.
AsGood(item, depth, sim) ==
    item.parent # NoParent /\ item.parent.depth <= depth /\ item.parent.sim >= sim

\* The item stands for the one that the step would be.
CoveredBy(item, s) ==
    /\ item.goal = s.resolvent
    /\ IF SkipSeen THEN AsGood(item, s.depth, s.sim) ELSE item = ItemOf(s)

\* Nothing is to be done with the step s of the item e any more.
Settled(e, s) ==
    \/ s.sim <= threshold
    \/ s.resolvent = Empty /\ s \in ToSet(leaves)
    \/ s.resolvent # Empty /\ ~ GoesOn(e)
    \/ s.resolvent # Empty /\ \E item \in Items : CoveredBy(item, s)

\* A thread has not tried the literal of its item yet, or not dealt with the
\* step that was found.
Awaits(me, e, c, l, s) ==
    /\ Busy(me) /\ me.item = e
    /\ ~ Before([clause |-> c, literal |-> l], me) \/ s \in ToSet(me.found)

Handled(e, c, l) ==
    \/ \E w \in Workers : Awaits(worker[w], e, c, l, StepAt(e, c, l))
    \/ Settled(e, StepAt(e, c, l))

Begun == \A g \in ToSet(Goals) : RootItem(g) \in Items

Followed ==
    \A e \in expanded, c \in Clauses : ~ TooWide(e.goal, c) =>
        \A l \in DOMAIN resolutions[e.goal][c] : Handled(e, c, l)

\* What was seen is being followed.
SeenKept ==
    \A d \in Disjunctions : seen[d] # Unseen =>
        \E item \in Items : item.goal = d /\ AsGood(item, seen[d].depth, seen[d].sim)

\* The threshold a thread goes by may be out of date, but only too low.
BarsKept ==
    \A w \in Workers : worker[w].pc \in {"steps", "insert"} => worker[w].bar <= threshold

Closed == BarsKept /\ (~ Exhausted => Begun /\ Followed /\ SeenKept)
-----------------------------------------------------------------------------
(***************************************************************************)
(* Steps, leaves and items.                                                *)
(***************************************************************************)

\* The step that a literal leads to.
LEMMA StepAtType ==
    ASSUME Typed, NEW e \in ItemType, NEW c \in Clauses,
           NEW l \in DOMAIN resolutions[e.goal][c]
    PROVE  LET r == resolutions[e.goal][c][l]
               s == StepAt(e, c, l)
           IN  /\ l \in Nat \ {0} /\ r.sim \in Int /\ s.sim \in Int
               /\ s.sim <= r.sim
               /\ IsRoot(e) => s.sim = r.sim
               /\ ~ IsRoot(e) => s.sim \in {r.sim, e.parent.sim} /\ s.sim <= e.parent.sim
               /\ s.resolvent = r.resolvent
               /\ s.depth = (IF IsRoot(e) THEN 0 ELSE e.parent.depth + 1)
               /\ s.path = Append(e.parent.path, [source |-> e.goal, clause |-> c,
                                                  literal |-> l])
  <1> DEFINE o == resolutions[e.goal][c]
             r == o[l]
             s == StepAt(e, c, l)
             R == [resolvent : Disjunctions \cup {Empty}, sim : Int]
  <1>1. o \in Seq(R)
    <2>1. resolutions \in ResolutionsType(Int)
      BY SearchAssumption DEF Typed, TypeOK
    <2>2. e.goal \in Disjunctions
      BY DEF ItemType
    <2> QED
      BY <2>1, <2>2 DEF ResolutionsType
  <1>2. l \in Nat \ {0} /\ r \in R
    <2>1. l \in DOMAIN o
      OBVIOUS
    <2> HIDE DEF o, R
    <2> QED
      BY <1>1, <2>1
  <1>3. r.sim \in Int
    BY <1>2
  <1>4. ~ IsRoot(e) => e.parent.sim \in Int
    BY SimsAboveThreshold DEF ItemType, IsRoot, StepType
  <1>5. /\ s.resolvent = r.resolvent /\ s.sim = RunningSimilarity(e, r)
        /\ s.depth = (IF IsRoot(e) THEN 0 ELSE e.parent.depth + 1)
        /\ s.path = Append(e.parent.path, [source |-> e.goal, clause |-> c,
                                           literal |-> l])
    BY DEF StepAt, StepOf
  <1> HIDE DEF r, s
  <1>6. /\ IsRoot(e) => s.sim = r.sim
        /\ ~ IsRoot(e) => s.sim = IF r.sim < e.parent.sim THEN r.sim ELSE e.parent.sim
    BY <1>5 DEF RunningSimilarity
  <1>7. /\ s.sim \in Int /\ s.sim <= r.sim
        /\ ~ IsRoot(e) => s.sim \in {r.sim, e.parent.sim} /\ s.sim <= e.parent.sim
    BY <1>3, <1>4, <1>6
  <1> QED
    BY <1>2, <1>3, <1>5, <1>6, <1>7 DEF r, s

\* u is q with s in the slot p.
IsInsertion(u, q, p, s) ==
    /\ Len(u) = Len(q) + 1
    /\ \A i \in 1 .. Len(q) + 1 :
          u[i] = IF i < p THEN q[i] ELSE IF i = p THEN s ELSE q[i - 1]

\* InsertAt is the insertion of a step in its slot.
LEMMA InsertAtInserts ==
    ASSUME NEW S, NEW q \in Seq(S), NEW s \in S, NEW p \in 1 .. Len(q) + 1
    PROVE  InsertAt(q, p, s) \in Seq(S) /\ IsInsertion(InsertAt(q, p, s), q, p, s)
  BY InsertAtElements DEF IsInsertion

\* A proof that is put in its slot pushes out none but the worst.
LEMMA SlotKeepsProofs ==
    ASSUME NEW q \in Seq(StepType), NEW s \in StepType, NEW p, IsSlot(q, s, p),
           \A i, j \in DOMAIN q : i < j => q[i].sim >= q[j].sim
    PROVE  LET u == InsertAt(q, p, s)
               t == Front(u)
           IN  /\ ToSet(q) \cup {s} \subseteq ToSet(u)
               /\ Len(q) > 0 =>
                     /\ q[Len(q)].sim <= Last(t).sim
                     /\ \A x \in ToSet(q) \cup {s} : x \in ToSet(t) \/ x.sim <= Last(t).sim
  <1> DEFINE u == InsertAt(q, p, s)
             t == Front(u)
             n == Len(q)
  <1>1. n \in Nat /\ DOMAIN q = 1 .. n /\ p \in 1 .. n + 1
    BY DEF IsSlot
  <1> HIDE DEF t
  <1>2. /\ u \in Seq(StepType) /\ Len(u) = n + 1
        /\ \A i \in 1 .. n + 1 : u[i] = IF i < p THEN q[i] ELSE IF i = p THEN s ELSE q[i - 1]
    <2>1. p \in 1 .. Len(q) + 1
      BY <1>1
    <2> HIDE DEF u, n
    <2>2. InsertAt(q, p, s) \in Seq(StepType) /\ IsInsertion(InsertAt(q, p, s), q, p, s)
      BY <2>1, InsertAtInserts
    <2> QED
      BY <2>2 DEF IsInsertion, u, n
  <1>3. \A i, j \in DOMAIN u : i < j => u[i].sim >= u[j].sim
    BY SlotKeepsOrder
  <1> HIDE DEF u
  <1>4. DOMAIN u = 1 .. n + 1 /\ \A i \in 1 .. n + 1 : u[i].sim \in Int
    <2>1. DOMAIN u = 1 .. n + 1 /\ \A i \in 1 .. n + 1 : u[i] \in StepType
      BY <1>1, <1>2
    <2> QED
      BY <2>1, SimsAboveThreshold DEF StepType
  <1>5. \A i \in 1 .. n : q[i] = u[i] \/ q[i] = u[i + 1]
    <2>1. ASSUME NEW i \in 1 .. n PROVE q[i] = u[i] \/ q[i] = u[i + 1]
      <3>1. CASE i < p
        BY <1>1, <1>2, <3>1
      <3>2. CASE ~ (i < p)
        <4>1. i + 1 \in 1 .. n + 1 /\ ~ (i + 1 < p) /\ i + 1 # p /\ (i + 1) - 1 = i
          BY <1>1, <3>2
        <4> QED
          BY <1>2, <4>1
      <3> QED
        BY <3>1, <3>2
    <2> QED
      BY <2>1
  <1>6. u[p] = s
    BY <1>1, <1>2
  <1>7. \A x \in ToSet(q) \cup {s} : \E i \in 1 .. n + 1 : x = u[i]
    <2>1. ASSUME NEW i \in 1 .. n PROVE \E j \in 1 .. n + 1 : q[i] = u[j]
      <3>1. i \in 1 .. n + 1 /\ i + 1 \in 1 .. n + 1
        BY <1>1
      <3> QED
        BY <1>5, <3>1
    <2> QED
      BY <1>1, <1>6, <2>1 DEF ToSet
  <1>8. ToSet(q) \cup {s} \subseteq ToSet(u)
    BY <1>4, <1>7 DEF ToSet
  <1>9. ASSUME n > 0
        PROVE  /\ q[n].sim <= Last(t).sim
               /\ \A x \in ToSet(q) \cup {s} : x \in ToSet(t) \/ x.sim <= Last(t).sim
    <2>1. /\ t \in Seq(StepType) /\ Len(t) = n /\ DOMAIN t = 1 .. n
          /\ \A i \in 1 .. n : t[i] = u[i]
      <3>1. Len(u) > 0 /\ Len(u) - 1 = n
        BY <1>1, <1>2
      <3>2. t \in Seq(StepType) /\ Len(t) = n /\ \A i \in 1 .. n : t[i] = u[i]
        BY <1>2, <3>1, FrontElements DEF t
      <3> QED
        BY <3>2
    <2>2. Last(t) = u[n] /\ n \in 1 .. n
      BY <1>1, <1>9, <2>1 DEF Last
    <2>3. u[n + 1].sim <= u[n].sim /\ u[n].sim \in Int
      BY <1>1, <1>3, <1>4, <1>9
    <2>4. q[n].sim <= Last(t).sim
      <3>1. q[n] = u[n] \/ q[n] = u[n + 1]
        BY <1>5, <2>2
      <3> QED
        BY <2>2, <2>3, <3>1
    <2>5. ASSUME NEW x \in ToSet(q) \cup {s}
          PROVE  x \in ToSet(t) \/ x.sim <= Last(t).sim
      <3>1. PICK i \in 1 .. n + 1 : x = u[i]
        BY <1>7
      <3>2. CASE i \in 1 .. n
        BY <2>1, <3>1, <3>2 DEF ToSet
      <3>3. CASE i = n + 1
        BY <2>2, <2>3, <3>1, <3>3
      <3> QED
        BY <1>1, <3>2, <3>3
    <2> QED
      BY <2>4, <2>5
  <1> QED
    BY <1>8, <1>9 DEF t, u

\* The threshold is a number, and the worst proof kept is at or above it.
ThresholdKept ==
    /\ threshold \in Int /\ Len(leaves) \in Nat /\ leaves \in Seq(StepType)
    /\ Len(leaves) > 0 => threshold <= leaves[Len(leaves)].sim

LEMMA ThresholdType == SoundInv => ThresholdKept
  <1> SUFFICES ASSUME SoundInv PROVE ThresholdKept
    OBVIOUS
  <1>1. /\ threshold \in Sims \cup {InitialThreshold} /\ leaves \in Seq(StepType)
        /\ Len(leaves) \in Nat
        /\ \/ threshold = InitialThreshold
           \/ Len(leaves) = MaxProofs /\ threshold = leaves[Len(leaves)].sim
    BY DEF SoundInv, Typed, TypeOK, LeavesKept
  <1>2. threshold \in Int /\ threshold >= InitialThreshold
    BY <1>1, SimsAboveThreshold
  <1>3. ASSUME Len(leaves) > 0 PROVE threshold <= leaves[Len(leaves)].sim
    <2>1. leaves[Len(leaves)] \in StepType
      BY <1>1, <1>3
    <2>2. leaves[Len(leaves)].sim \in Int /\ leaves[Len(leaves)].sim > InitialThreshold
      BY <2>1, SimsAboveThreshold DEF StepType
    <2> QED
      BY <1>1, <1>2, <2>2, SimsAboveThreshold
  <1> QED
    BY <1>1, <1>2, <1>3 DEF ThresholdKept

\* The threshold does not fall, and a proof that is dropped is not above it.
Rises ==
    /\ threshold <= threshold' /\ Len(leaves) <= Len(leaves')
    /\ \A x \in ToSet(leaves) : x \in ToSet(leaves') \/ x.sim <= threshold'

LEMMA LeavesRise ==
    ASSUME SoundInv, SoundInv', NEW w \in Workers, WorkerStep(w)
    PROVE  /\ Rises
           /\ RecordedLeaf(worker[w], worker'[w]) =>
                 \/ Head(worker[w].found) \in ToSet(leaves')
                 \/ Head(worker[w].found).sim <= threshold'
  <1> DEFINE old == worker[w]
             new == worker'[w]
             s == Head(old.found)
  <1>1. Typed /\ Shaped /\ LeavesKept
    BY DEF SoundInv
  <1>2. Moved(old, new)
    BY <1>1, StepMoves
  <1>3. ThresholdKept /\ ThresholdKept'
    <2>1. ThresholdKept'
      BY ThresholdType, PTL
    <2> QED
      BY <2>1, ThresholdType
  <1>4. CASE RecordedLeaf(old, new)
    <2>1. s \in StepType
      BY <1>1, <1>4, WorkerFields DEF RecordedLeaf, DoneWithStep
    <2>2. PICK p \in 1 .. Len(leaves) + 1 :
             /\ IsSlot(leaves, s, p)
             /\ leaves' = IF Full THEN Front(InsertAt(leaves, p, s))
                          ELSE InsertAt(leaves, p, s)
      BY <1>4 DEF RecordedLeaf
    <2>3. threshold' = IF Full THEN Last(leaves').sim ELSE threshold
      BY <1>4 DEF RecordedLeaf
    <2> DEFINE u == InsertAt(leaves, p, s)
               t == Front(u)
    <2> HIDE DEF s
    <2>4. /\ ToSet(leaves) \cup {s} \subseteq ToSet(u)
          /\ Len(leaves) > 0 =>
                /\ leaves[Len(leaves)].sim <= Last(t).sim
                /\ \A x \in ToSet(leaves) \cup {s} : x \in ToSet(t) \/ x.sim <= Last(t).sim
      BY <1>1, <1>3, <2>1, <2>2, SlotKeepsProofs DEF LeavesKept, ThresholdKept
    <2>5. /\ u \in Seq(StepType) /\ Len(u) = Len(leaves) + 1
          /\ t \in Seq(StepType) /\ Len(t) = Len(leaves)
      <3>1. u \in Seq(StepType) /\ Len(u) = Len(leaves) + 1
        BY <1>3, <2>1, <2>2, InsertAtElements DEF ThresholdKept
      <3>2. Len(u) > 0 /\ Len(u) - 1 = Len(leaves)
        BY <1>3, <3>1 DEF ThresholdKept
      <3> HIDE DEF u
      <3> QED
        BY <3>1, <3>2, FrontElements
    <2>6. CASE Full
      <3>1. leaves' = t /\ threshold' = Last(t).sim
        BY <2>2, <2>3, <2>6
      <3>2. Len(leaves) > 0
        BY <1>3, <2>6, SearchAssumption DEF Full, AtLimit, Limits, ThresholdKept
      <3> HIDE DEF t, u
      <3>3. Last(t).sim \in Int
        BY <1>3, <3>1 DEF ThresholdKept
      <3>4. leaves[Len(leaves)].sim \in Int
        <4>1. leaves[Len(leaves)] \in StepType
          BY <1>3, <3>2 DEF ThresholdKept
        <4> QED
          BY <4>1, SimsAboveThreshold DEF StepType
      <3>5. threshold <= threshold'
        BY <1>3, <2>4, <3>1, <3>2, <3>3, <3>4 DEF ThresholdKept
      <3>6. Len(leaves) <= Len(leaves')
        BY <1>3, <2>5, <3>1 DEF ThresholdKept
      <3> QED
        BY <2>4, <3>1, <3>2, <3>5, <3>6 DEF Rises, s
    <2>7. CASE ~ Full
      <3>1. leaves' = u /\ threshold' = threshold
        BY <2>2, <2>3, <2>7
      <3> HIDE DEF t, u
      <3> QED
        BY <1>3, <2>4, <2>5, <3>1 DEF Rises, ThresholdKept, s
    <2> QED
      BY <2>6, <2>7
  <1>5. CASE ~ RecordedLeaf(old, new)
    <2> HIDE DEF old, new
    <2>1. UNCHANGED <<leaves, threshold>>
      BY <1>2, <1>5 DEF Moved, Started, DroppedGoal, ReachedQuota, TookGoal, Skipped,
         BeganClause, TriedLiteral, GotSteps, DroppedStep, PushedStep, AboutToInsert,
         LeftClause, LeftGoal, SpawnedBatch, EndedBatch, SharedKept
    <2>2. threshold <= threshold' /\ Len(leaves) <= Len(leaves')
      BY <1>3, <2>1 DEF ThresholdKept
    <2> QED
      BY <1>5, <2>1, <2>2 DEF Rises, old, new
  <1> QED
    BY <1>4, <1>5

\* A limit that cut the search short is not taken back.
LEMMA ExhaustedStays ==
    ASSUME SoundInv, SoundInv', NEW w \in Workers, WorkerStep(w), Exhausted
    PROVE  Exhausted'
  <1> DEFINE old == worker[w]
             new == worker'[w]
  <1>1. Typed /\ Shaped /\ Typed'
    BY DEF SoundInv
  <1>2. /\ Moved(old, new) /\ old.stats \in StatsType
        /\ stats \in StatsType /\ stats' \in StatsType
    BY <1>1, StepMoves, WorkerFields DEF Typed, TypeOK
  <1> HIDE DEF old, new
  <1>3. stats'.attempted >= stats.attempted
    <2>1. /\ old.stats.attempted \in Nat /\ stats.attempted \in Nat
      BY <1>2 DEF StatsType
    <2>2. \/ UNCHANGED stats \/ stats' = Synced(old.stats)
          \/ stats' = [stats EXCEPT !.discarded = @ + 1]
      BY <1>2 DEF Moved, Started, DroppedGoal, ReachedQuota, TookGoal, Skipped,
         BeganClause, TriedLiteral, GotSteps, RecordedLeaf, DroppedStep, PushedStep,
         AboutToInsert, LeftClause, LeftGoal, SpawnedBatch, EndedBatch, SharedKept
    <2>3. stats'.attempted \in {stats.attempted, stats.attempted + old.stats.attempted}
      BY <1>2, <2>2 DEF Synced, StatsType
    <2> QED
      BY <2>1, <2>3
  <1>4. Len(leaves) <= Len(leaves') /\ Len(leaves) \in Nat /\ Len(leaves') \in Nat
    <2>1. ThresholdKept'
      BY ThresholdType, PTL
    <2> QED
      BY <2>1, LeavesRise, ThresholdType DEF Rises, ThresholdKept
  <1>5. /\ stats.attempted \in Nat /\ stats'.attempted \in Nat
        /\ MaxAttempts \in Limits /\ MaxProofs \in Limits /\ NoLimit \notin Int
    BY <1>2, SearchAssumption DEF StatsType
  <1>6. AttemptsSpent => AttemptsSpent'
    BY <1>3, <1>5 DEF AttemptsSpent, AtLimit, Limits
  <1>7. AtLimit(Len(leaves), MaxProofs) => AtLimit(Len(leaves'), MaxProofs)
    BY <1>4, <1>5 DEF AtLimit, Limits
  <1> QED
    BY <1>6, <1>7 DEF Exhausted

\* The elements of a sequence, the first and the others.
LEMMA SetOfTail ==
    ASSUME NEW S, NEW q \in Seq(S), q # <<>>
    PROVE  ToSet(q) = {Head(q)} \cup ToSet(Tail(q))
  <1>1. /\ Len(q) \in Nat \ {0} /\ DOMAIN q = 1 .. Len(q) /\ Head(q) = q[1]
        /\ DOMAIN Tail(q) = 1 .. Len(q) - 1
        /\ \A i \in 1 .. Len(q) - 1 : Tail(q)[i] = q[i + 1]
    OBVIOUS
  <1>2. 1 \in DOMAIN q /\ \A i \in DOMAIN Tail(q) : i + 1 \in DOMAIN q
    BY <1>1
  <1>3. \A i \in DOMAIN q : i = 1 \/ (i - 1 \in DOMAIN Tail(q) /\ Tail(q)[i - 1] = q[i])
    BY <1>1
  <1>4. ToSet(q) \subseteq {Head(q)} \cup ToSet(Tail(q))
    BY <1>1, <1>3 DEF ToSet
  <1>5. {Head(q)} \cup ToSet(Tail(q)) \subseteq ToSet(q)
    BY <1>1, <1>2 DEF ToSet
  <1> QED
    BY <1>4, <1>5

\* One more.
LEMMA SetOfAppend ==
    ASSUME NEW S, NEW q \in Seq(S), NEW x
    PROVE  ToSet(Append(q, x)) = ToSet(q) \cup {x}
  <1>1. /\ Len(q) \in Nat /\ DOMAIN q = 1 .. Len(q)
        /\ DOMAIN Append(q, x) = 1 .. Len(q) + 1
        /\ Append(q, x)[Len(q) + 1] = x
        /\ \A i \in 1 .. Len(q) : Append(q, x)[i] = q[i]
    OBVIOUS
  <1>2. \A i \in 1 .. Len(q) + 1 : i \in 1 .. Len(q) \/ i = Len(q) + 1
    BY <1>1
  <1>3. Len(q) + 1 \in 1 .. Len(q) + 1 /\ \A i \in 1 .. Len(q) : i \in 1 .. Len(q) + 1
    BY <1>1
  <1> HIDE DEF ToSet
  <1> QED
    BY <1>1, <1>2, <1>3 DEF ToSet

\* A sequence cut in two.
LEMMA SetOfParts ==
    ASSUME NEW S, NEW q \in Seq(S), NEW n \in 0 .. Len(q)
    PROVE  ToSet(q) \subseteq ToSet(SubSeq(q, 1, n)) \cup ToSet(SubSeq(q, n + 1, Len(q)))
  <1> DEFINE first == SubSeq(q, 1, n)
             rest == SubSeq(q, n + 1, Len(q))
  <1>1. /\ Len(q) \in Nat /\ DOMAIN q = 1 .. Len(q) /\ n \in Nat
        /\ DOMAIN first = 1 .. n /\ DOMAIN rest = 1 .. Len(q) - n
        /\ \A i \in 1 .. n : first[i] = q[i]
        /\ \A i \in 1 .. Len(q) - n : rest[i] = q[n + i]
    OBVIOUS
  <1> HIDE DEF first, rest
  <1>2. \A i \in DOMAIN q : \/ i \in DOMAIN first /\ first[i] = q[i]
                            \/ i - n \in DOMAIN rest /\ rest[i - n] = q[i]
    <2>1. ASSUME NEW i \in DOMAIN q, ~ (i \in 1 .. n)
          PROVE  i - n \in 1 .. Len(q) - n /\ n + (i - n) = i
      BY <1>1, <2>1
    <2> QED
      BY <1>1, <2>1
  <1> QED
    BY <1>2 DEF ToSet, first, rest

\* No goal is lost, as long as none is refused.
LEMMA ItemsStay ==
    ASSUME SoundInv, ~ Exhausted, NEW w \in Workers, WorkerStep(w)
    PROVE  Items \subseteq Items'
  <1> DEFINE old == worker[w]
             new == worker'[w]
  <1>1. Typed /\ Shaped /\ AllDerived
    BY DEF SoundInv
  <1>2. /\ Alone(w) /\ Moved(old, new)
        /\ old.batch \in Seq(ItemType) /\ old.acc \in Seq(ItemType) /\ Shape(old)
        /\ worker \in [Workers -> WorkerType]
    BY <1>1, StepMoves, WorkerFields DEF Shaped, Typed, TypeOK
  <1>3. old.batch # <<>> => ~ TooDeep(Head(old.batch))
    <2>1. ASSUME old.batch # <<>> PROVE ~ TooDeep(Head(old.batch))
      <3>1. Head(old.batch) \in DerivedItems
        <4>1. old.batch \in Seq(DerivedItems)
          BY <1>1 DEF AllDerived
        <4> QED
          BY <2>1, <4>1
      <3>2. /\ MaxProofDepth \in Nat
            /\ ~ IsRoot(Head(old.batch)) => Head(old.batch).parent.depth \in Nat
        BY <3>1, SearchAssumption DEF DerivedItems, DerivedSteps, StepType, Depths
      <3> QED
        BY <3>1, <3>2 DEF DerivedItems, TooDeep, Depth
    <2> QED
      BY <2>1
  <1>4. ToSet(<<>>) = {}
    BY DEF ToSet
  <1> HIDE DEF old, new
  <1>5. /\ expanded \subseteq expanded'
        /\ \A b \in jobs : b \in jobs' \/ ToSet(b) \subseteq Waiting(new)
        /\ Waiting(old) \subseteq
              expanded' \cup Waiting(new) \cup (UNION { ToSet(b) : b \in jobs' })
    <2>1. CASE Started(old, new)
      <3>1. Waiting(old) = {}
        BY <1>2, <1>4, <2>1 DEF Started, Shape, Idle, Waiting
      <3> QED
        BY <2>1, <3>1 DEF Started, Waiting
    <2>2. CASE DroppedGoal(old, new)
      BY <1>3, <2>2 DEF DroppedGoal, Exhausted, AtLimit, QuotaMet
    <2>3. CASE TookGoal(old, new)
      BY <1>2, <2>3, SetOfTail DEF TookGoal, Waiting
    <2>4. CASE SpawnedBatch(old, new)
      <3>1. CASE new.acc = old.acc /\ UNCHANGED jobs
        BY <2>4, <3>1 DEF SpawnedBatch, Waiting
      <3>2. CASE /\ EvalBatchSize <= Len(old.acc)
                 /\ jobs' = jobs \cup {SubSeq(old.acc, 1, EvalBatchSize)}
                 /\ new.acc = SubSeq(old.acc, EvalBatchSize + 1, Len(old.acc))
        <4>1. EvalBatchSize \in 0 .. Len(old.acc)
          BY <1>2, <3>2, SearchAssumption
        <4> DEFINE first == SubSeq(old.acc, 1, EvalBatchSize)
                   rest == SubSeq(old.acc, EvalBatchSize + 1, Len(old.acc))
        <4>2. ToSet(old.acc) \subseteq ToSet(first) \cup ToSet(rest)
          BY <1>2, <4>1, SetOfParts
        <4>3. jobs' = jobs \cup {first} /\ new.acc = rest
          BY <3>2
        <4>4. new.batch = old.batch /\ expanded' = expanded
          BY <2>4 DEF SpawnedBatch
        <4> HIDE DEF first, rest
        <4> QED
          BY <4>2, <4>3, <4>4 DEF Waiting
      <3> QED
        BY <2>4, <3>1, <3>2 DEF SpawnedBatch
    <2>5. CASE EndedBatch(old, new)
      BY <1>4, <2>5 DEF EndedBatch, Waiting
    <2>6. CASE PushedStep(old, new)
      BY <1>2, <2>6, SetOfAppend DEF PushedStep, DoneWithStep, Waiting
    <2>7. CASE \/ ReachedQuota(old, new) \/ Skipped(old, new) \/ BeganClause(old, new)
               \/ TriedLiteral(old, new) \/ GotSteps(old, new) \/ RecordedLeaf(old, new)
               \/ DroppedStep(old, new) \/ AboutToInsert(old, new)
               \/ LeftClause(old, new) \/ LeftGoal(old, new)
      <3>1. Keeps(old, new) /\ UNCHANGED <<jobs, expanded>>
        BY <2>7 DEF ReachedQuota, Skipped, BeganClause, TriedLiteral, GotSteps,
           RecordedLeaf, DroppedStep, AboutToInsert, LeftClause, LeftGoal, SameGoal,
           DoneWithStep, Keeps
      <3> QED
        BY <3>1 DEF Keeps, Waiting
    <2> QED
      BY <1>2, <2>1, <2>2, <2>3, <2>4, <2>5, <2>6, <2>7 DEF Moved
  <1>6. \A v \in Workers : v # w => worker'[v] = worker[v]
    BY <1>2 DEF Alone
  <1>7. ASSUME NEW item \in Items PROVE item \in Items'
    <2>1. Waiting(new) \subseteq Items' /\ expanded' \subseteq Items'
          /\ \A b \in jobs' : ToSet(b) \subseteq Items'
      BY DEF Items, new
    <2>2. CASE item \in expanded
      BY <1>5, <2>1, <2>2
    <2>3. CASE \E b \in jobs : item \in ToSet(b)
      BY <1>5, <2>1, <2>3
    <2>4. CASE \E v \in Workers : item \in Waiting(worker[v])
      <3>1. PICK v \in Workers : item \in Waiting(worker[v])
        BY <2>4
      <3>2. CASE v = w
        BY <1>5, <2>1, <3>1, <3>2 DEF old
      <3>3. CASE v # w
        <4>1. Waiting(worker'[v]) = Waiting(worker[v])
          BY <1>6, <3>3
        <4>2. Waiting(worker'[v]) \subseteq Items'
          BY DEF Items
        <4> QED
          BY <3>1, <4>1, <4>2
      <3> QED
        BY <3>2, <3>3
    <2> QED
      BY <1>7, <2>2, <2>3, <2>4 DEF Items
  <1> QED
    BY <1>7
-----------------------------------------------------------------------------
(***************************************************************************)
(* Nothing that a resolved goal leads to is lost.                          *)
(***************************************************************************)

\* What is settled remains so.
LEMMA SettledStays ==
    ASSUME SoundInv, SoundInv', ~ Exhausted, NEW w \in Workers, WorkerStep(w),
           NEW e, NEW s, s.sim \in Int, Settled(e, s)
    PROVE  Settled(e, s)'
  <1>1. Items \subseteq Items' /\ Rises
    BY ItemsStay, LeavesRise
  <1>2. threshold \in Int /\ threshold' \in Int
    <2>1. ThresholdKept'
      BY ThresholdType, PTL
    <2> QED
      BY <2>1, ThresholdType DEF ThresholdKept
  <1>3. s.sim <= threshold => s.sim <= threshold'
    BY <1>1, <1>2 DEF Rises
  <1>4. s \in ToSet(leaves) => s \in ToSet(leaves') \/ s.sim <= threshold'
    BY <1>1 DEF Rises
  <1>5. (\E item \in Items : CoveredBy(item, s)) => \E item \in Items' : CoveredBy(item, s)
    BY <1>1
  <1> HIDE DEF CoveredBy
  <1> QED
    BY <1>3, <1>4, <1>5 DEF Settled

\* What a thread deals with is then settled.
LEMMA AwaitsStep ==
    ASSUME SoundInv, SoundInv', ~ Exhausted, BarsKept, SeenKept,
           NEW w \in Workers, WorkerStep(w),
           NEW e \in ItemType, NEW c \in Clauses, ~ TooWide(e.goal, c),
           NEW l \in DOMAIN resolutions[e.goal][c], NEW s, s = StepAt(e, c, l),
           Awaits(worker[w], e, c, l, s)
    PROVE  Awaits(worker'[w], e, c, l, s) \/ Settled(e, s)'
  <1> DEFINE old == worker[w]
             new == worker'[w]
             edge == [clause |-> c, literal |-> l]
  <1>1. Typed /\ Shaped
    BY DEF SoundInv
  <1>2. /\ Alone(w) /\ Moved(old, new) /\ Shape(old)
        /\ old.clause \in 1 .. NumClauses + 1 /\ old.literal \in Nat \ {0}
        /\ old.found \in Seq(StepType) /\ old.acc \in Seq(ItemType)
    BY <1>1, StepMoves, WorkerFields DEF Shaped
  <1>3. /\ l \in Nat \ {0} /\ s.sim \in Int /\ c \in 1 .. NumClauses /\ NumClauses \in Nat
        /\ resolutions[e.goal][c][l].sim \in Int
        /\ s.sim <= resolutions[e.goal][c][l].sim
    BY <1>1, StepAtType, SearchAssumption DEF Clauses
  <1>4. /\ Busy(old) /\ old.item = e
        /\ ~ Before(edge, old) \/ s \in ToSet(old.found)
    BY DEF Awaits
  <1>5. edge.clause = c /\ edge.literal = l
    OBVIOUS
  <1>6. Settled(e, s) => Settled(e, s)'
    BY <1>3, SettledStays
  <1>7. threshold \in Int
    BY ThresholdType DEF ThresholdKept
  <1>8. ToSet(<<>>) = {}
    BY DEF ToSet
  <1>9. /\ old.pc = "steps" \/ old.pc = "insert" => old.bar <= threshold /\ old.bar \in Int
    BY <1>1 DEF BarsKept, Typed, TypeOK, WorkerType
  <1>10. Waiting(new) \subseteq Items'
    BY DEF Items
  <1> SUFFICES ASSUME ~ Settled(e, s)' PROVE Awaits(new, e, c, l, s)
    OBVIOUS
  <1> HIDE DEF old, new, edge
  <1> SUFFICES /\ Busy(new) /\ new.item = e
               /\ ~ Before(edge, new) \/ s \in ToSet(new.found)
    BY DEF Awaits, edge
  <1>11. CASE Skipped(old, new)
    <2>1. s \notin ToSet(old.found)
      BY <1>2, <1>8, <1>11 DEF Skipped, Shape, Trying
    <2>2. ~ (c < old.clause) /\ c # old.clause
      BY <1>4, <1>5, <1>11, <2>1 DEF Before, Skipped
    <2>3. ~ (c < old.clause + 1)
      BY <1>2, <1>3, <2>2
    <2> QED
      BY <1>4, <1>5, <1>11, <2>3 DEF Skipped, SameGoal, Busy, Before
  <1>12. CASE BeganClause(old, new)
    <2>1. s \notin ToSet(old.found)
      BY <1>2, <1>8, <1>12 DEF BeganClause, Shape, Trying
    <2>2. ~ (c < old.clause) /\ ~ (l < 1)
      BY <1>3, <1>4, <1>5, <2>1 DEF Before
    <2> QED
      BY <1>4, <1>5, <1>12, <2>2 DEF BeganClause, SameGoal, Busy, Before
  <1>13. CASE TriedLiteral(old, new)
    <2> DEFINE r == resolutions[e.goal][old.clause][old.literal]
    <2>1. /\ old.pc = "resolve" /\ new.pc = "resolve" /\ new.item = e
          /\ new.clause = old.clause /\ new.literal = old.literal + 1
          /\ new.found = IF r.sim <= threshold THEN old.found
                         ELSE Append(old.found, StepAt(e, old.clause, old.literal))
          /\ threshold' = threshold
      BY <1>4, <1>13 DEF TriedLiteral, SameGoal, SharedKept, StepAt
    <2>2. ToSet(old.found) \subseteq ToSet(new.found)
      BY <1>2, <2>1, SetOfAppend
    <2>3. CASE s \in ToSet(old.found)
      BY <2>1, <2>2, <2>3 DEF Busy
    <2>4. CASE ~ Before(edge, old) /\ c = old.clause /\ l = old.literal
      <3>1. ~ (r.sim <= threshold)
        <4>1. r.sim \in Int /\ s.sim <= r.sim
          BY <1>3, <2>4
        <4>2. ~ (s.sim <= threshold)
          BY <1>6, <2>1 DEF Settled
        <4> QED
          BY <1>3, <1>7, <4>1, <4>2
      <3>2. new.found = Append(old.found, s)
        BY <2>1, <2>4, <3>1
      <3>3. ToSet(Append(old.found, s)) = ToSet(old.found) \cup {s}
        BY <1>2, SetOfAppend
      <3>4. s \in ToSet(new.found)
        BY <3>2, <3>3
      <3> QED
        BY <2>1, <3>4 DEF Busy
    <2>5. CASE ~ Before(edge, old) /\ ~ (c = old.clause /\ l = old.literal)
      <3>1. ~ (c < old.clause) /\ (c = old.clause => ~ (l < old.literal))
        BY <1>5, <2>1, <2>5 DEF Before
      <3>2. c = old.clause => ~ (l < old.literal + 1)
        BY <1>2, <1>3, <2>5, <3>1
      <3> QED
        BY <1>5, <2>1, <3>1, <3>2 DEF Busy, Before
    <2> QED
      BY <1>4, <2>3, <2>4, <2>5
  <1>14. CASE GotSteps(old, new)
    <2>1. /\ old.pc = "resolve" /\ new.pc = "steps" /\ new.item = e
          /\ new.clause = old.clause /\ new.found = old.found
          /\ \A k \in DOMAIN resolutions[e.goal][old.clause] : k < old.literal
      BY <1>4, <1>14 DEF GotSteps, SameGoal
    <2>2. CASE ~ Before(edge, old)
      <3>1. ~ (c < old.clause) /\ c # old.clause
        BY <1>5, <2>1, <2>2 DEF Before
      <3> QED
        BY <1>5, <2>1, <3>1 DEF Busy, Before
    <2> QED
      BY <1>4, <2>1, <2>2 DEF Busy
  <1>15. CASE RecordedLeaf(old, new) \/ DroppedStep(old, new) \/ PushedStep(old, new)
    <2>1. DoneWithStep(old, new)
      BY <1>15 DEF RecordedLeaf, DroppedStep, PushedStep
    <2>2. Busy(new) /\ new.item = e /\ (~ Before(edge, old) => ~ Before(edge, new))
      BY <1>4, <2>1 DEF DoneWithStep, Busy, Before
    <2>3. ToSet(old.found) = {Head(old.found)} \cup ToSet(new.found)
      BY <1>2, <2>1, SetOfTail DEF DoneWithStep
    <2>4. s # Head(old.found)
      <3> SUFFICES ASSUME s = Head(old.found) PROVE Settled(e, s)'
        OBVIOUS
      <3>1. s \in StepType
        <4>1. old.found # <<>>
          BY <2>1 DEF DoneWithStep
        <4> QED
          BY <1>2, <4>1
      <3>2. s.depth \in Int
        BY <3>1, SearchAssumption DEF StepType, Depths
      <3>3. CASE RecordedLeaf(old, new)
        <4>1. s \in ToSet(leaves') \/ s.sim <= threshold'
          BY <3>3, LeavesRise DEF old, new
        <4> QED
          BY <3>3, <4>1 DEF RecordedLeaf, Settled
      <3>4. CASE DroppedStep(old, new)
        <4>1. s.resolvent # Empty
          BY <3>4 DEF DroppedStep
        <4>2. CASE ~ GoesOn(e)
          BY <1>6, <4>1, <4>2 DEF Settled
        <4>3. CASE ~ (s.sim > old.bar)
          <5>1. old.bar <= threshold /\ old.bar \in Int
            BY <1>9, <2>1 DEF DoneWithStep
          <5>2. s.sim <= threshold
            BY <1>3, <1>7, <4>3, <5>1
          <5> QED
            BY <1>6, <5>2 DEF Settled
        <4>4. CASE SkipSeen /\ Covers(seen[s.resolvent], s)
          <5> DEFINE entry == seen[s.resolvent]
          <5>1. /\ entry # Unseen /\ entry.depth <= s.depth /\ entry.sim >= s.sim
                /\ s.resolvent \in Disjunctions
            BY <3>1, <4>1, <4>4 DEF Covers, StepType
          <5>2. entry.depth \in Int /\ entry.sim \in Int
            <6>1. entry \in [depth : Depths, sim : Sims]
              BY <1>1, <5>1 DEF Typed, TypeOK
            <6>2. \A d \in Depths : d \in Int
              BY SearchAssumption DEF Depths
            <6> HIDE DEF entry
            <6> QED
              BY <6>1, <6>2, SimsAboveThreshold
          <5>3. PICK item \in Items :
                   item.goal = s.resolvent /\ AsGood(item, entry.depth, entry.sim)
            BY <5>1 DEF SeenKept
          <5> HIDE DEF entry
          <5>4. item.parent.depth \in Int /\ item.parent.sim \in Int
            <6>1. item \in ItemType
              <7>1. /\ expanded \subseteq ItemType /\ jobs \subseteq Seq(ItemType)
                    /\ \A v \in Workers : /\ worker[v].batch \in Seq(ItemType)
                                          /\ worker[v].acc \in Seq(ItemType)
                BY <1>1, WorkerFields DEF Typed, TypeOK
              <7>2. \A q \in Seq(ItemType) : ToSet(q) \subseteq ItemType
                BY DEF ToSet
              <7>3. \A v \in Workers : Waiting(worker[v]) \subseteq ItemType
                BY <7>1, <7>2 DEF Waiting
              <7> QED
                BY <7>1, <7>2, <7>3 DEF Items
            <6>2. item.parent \in StepType
              BY <5>3, <6>1 DEF AsGood, ItemType
            <6> QED
              BY <6>2, SearchAssumption, SimsAboveThreshold DEF StepType, Depths
          <5>5. AsGood(item, s.depth, s.sim)
            BY <1>3, <3>2, <5>1, <5>2, <5>3, <5>4 DEF AsGood
          <5>6. Settled(e, s)
            BY <4>1, <4>4, <5>3, <5>5 DEF Settled, CoveredBy
          <5> QED
            BY <1>6, <5>6
        <4> QED
          BY <1>4, <3>4, <4>2, <4>3, <4>4 DEF DroppedStep
      <3>5. CASE PushedStep(old, new)
        <4>1. s.resolvent # Empty /\ new.acc = Append(old.acc, ItemOf(s))
          BY <3>5 DEF PushedStep
        <4>2. ItemOf(s) \in Items'
          BY <1>2, <1>10, <4>1, SetOfAppend DEF Waiting
        <4>3. CoveredBy(ItemOf(s), s)
          <5>1. ItemOf(s).goal = s.resolvent /\ ItemOf(s).parent = s
            BY DEF ItemOf
          <5>2. AsGood(ItemOf(s), s.depth, s.sim)
            BY <1>3, <3>1, <3>2, <5>1, StepIsParent DEF AsGood
          <5> QED
            BY <5>1, <5>2 DEF CoveredBy
        <4> HIDE DEF CoveredBy
        <4> QED
          BY <4>1, <4>2, <4>3 DEF Settled
      <3> QED
        BY <1>15, <3>3, <3>4, <3>5
    <2> QED
      BY <1>4, <2>2, <2>3, <2>4
  <1>16. CASE AboutToInsert(old, new)
    BY <1>4, <1>16 DEF AboutToInsert, SameGoal, Busy, Before
  <1>17. CASE LeftClause(old, new)
    <2>1. s \notin ToSet(old.found)
      BY <1>8, <1>17 DEF LeftClause
    <2>2. ~ (c < old.clause) /\ c # old.clause
      BY <1>4, <1>5, <1>17, <2>1 DEF Before, LeftClause
    <2>3. ~ (c < old.clause + 1)
      BY <1>2, <1>3, <2>2
    <2> QED
      BY <1>4, <1>5, <1>17, <2>3 DEF LeftClause, SameGoal, Busy, Before
  <1>18. CASE LeftGoal(old, new)
    <2>1. s \notin ToSet(old.found)
      BY <1>2, <1>8, <1>18 DEF LeftGoal, Shape, Trying
    <2>2. ~ (c < NumClauses + 1)
      BY <1>4, <1>5, <1>18, <2>1 DEF Before, LeftGoal
    <2> QED
      BY <1>3, <2>2
  <1>19. CASE ~ Busy(old)
    BY <1>4, <1>19
  <1> QED
    BY <1>2, <1>11, <1>12, <1>13, <1>14, <1>15, <1>16, <1>17, <1>18, <1>19
    DEF Moved, Started, DroppedGoal, ReachedQuota, TookGoal, SpawnedBatch, EndedBatch, Busy

\* The goals the search starts with are all there.
LEMMA ClosedInit == Init => Closed
  <1> SUFFICES ASSUME Init PROVE Closed
    OBVIOUS
  <1>1. /\ jobs = {FirstBatch} /\ expanded = {} /\ \A w \in Workers : worker[w].pc = "idle"
        /\ seen = [d \in Disjunctions |-> Unseen]
    BY DEF Init, Idle
  <1>2. Begun
    <2>1. ASSUME NEW g \in ToSet(Goals) PROVE RootItem(g) \in Items
      <3>1. PICK i \in DOMAIN Goals : g = Goals[i]
        BY DEF ToSet
      <3>2. i \in DOMAIN FirstBatch /\ FirstBatch[i] = RootItem(g)
        BY <3>1 DEF FirstBatch, RootItem
      <3>3. RootItem(g) \in ToSet(FirstBatch)
        BY <3>2 DEF ToSet
      <3> QED
        BY <1>1, <3>3 DEF Items
    <2> QED
      BY <2>1 DEF Begun
  <1>3. BarsKept /\ Followed /\ SeenKept
    BY <1>1 DEF BarsKept, Followed, SeenKept
  <1> QED
    BY <1>2, <1>3 DEF Closed

\* A thread that begins with a goal awaits all that it leads to.
LEMMA AllAwaited ==
    ASSUME NEW old, NEW new, TookGoal(old, new), NEW c \in Clauses, NEW l, NEW s
    PROVE  Awaits(new, Head(old.batch), c, l, s)
  <1>1. new.pc = "clauses" /\ new.item = Head(old.batch) /\ new.clause = 1
    BY DEF TookGoal
  <1>2. ~ (c < 1)
    BY SearchAssumption DEF Clauses
  <1> QED
    BY <1>1, <1>2 DEF Awaits, Busy, Before

\* A resolved goal remains followed, and one that is taken up is.
LEMMA FollowedStep ==
    ASSUME SoundInv, SoundInv', ~ Exhausted, BarsKept, SeenKept, Followed,
           NEW w \in Workers, WorkerStep(w)
    PROVE  Followed'
  <1> DEFINE old == worker[w]
             new == worker'[w]
  <1>1. Typed /\ Shaped
    BY DEF SoundInv
  <1>2. Alone(w) /\ Moved(old, new) /\ expanded \subseteq ItemType
    BY <1>1, StepMoves DEF Typed, TypeOK
  <1>3. resolutions' = resolutions /\ \A v \in Workers : v # w => worker'[v] = worker[v]
    BY <1>2 DEF Alone
  <1>4. \A e, c, l : StepAt(e, c, l)' = StepAt(e, c, l)
    BY <1>3 DEF StepAt
  <1>5. ASSUME NEW e \in expanded, NEW c \in Clauses, ~ TooWide(e.goal, c),
               NEW l \in DOMAIN resolutions[e.goal][c]
        PROVE  Handled(e, c, l)'
    <2>1. PICK s : s = StepAt(e, c, l)
      OBVIOUS
    <2>2. StepAt(e, c, l)' = s /\ s.sim \in Int /\ e \in ItemType
      BY <1>1, <1>2, <1>4, <2>1, StepAtType
    <2>3. \/ \E v \in Workers : Awaits(worker[v], e, c, l, s)
          \/ Settled(e, s)
      BY <1>5, <2>1 DEF Followed, Handled
    <2>4. CASE Settled(e, s)
      <3>1. Settled(e, s)'
        BY <2>2, <2>4, SettledStays
      <3> QED
        BY <2>2, <3>1 DEF Handled
    <2>5. CASE Awaits(worker[w], e, c, l, s)
      <3>1. Awaits(worker'[w], e, c, l, s) \/ Settled(e, s)'
        BY <1>5, <2>1, <2>2, <2>5, AwaitsStep
      <3> QED
        BY <2>2, <3>1 DEF Handled
    <2>6. CASE \E v \in Workers \ {w} : Awaits(worker[v], e, c, l, s)
      <3>1. PICK v \in Workers \ {w} : Awaits(worker[v], e, c, l, s)
        BY <2>6
      <3>2. Awaits(worker'[v], e, c, l, s)
        BY <1>3, <3>1
      <3> QED
        BY <2>2, <3>2 DEF Handled
    <2> QED
      BY <2>3, <2>4, <2>5, <2>6
  <1>6. ASSUME NEW e \in expanded', e \notin expanded, NEW c \in Clauses,
               NEW l \in DOMAIN resolutions[e.goal][c]
        PROVE  Handled(e, c, l)'
    <2> HIDE DEF old, new
    <2>1. TookGoal(old, new) /\ e = Head(old.batch)
      BY <1>2, <1>6 DEF Moved, Started, DroppedGoal, ReachedQuota, TookGoal, Skipped,
         BeganClause, TriedLiteral, GotSteps, RecordedLeaf, DroppedStep, PushedStep,
         AboutToInsert, LeftClause, LeftGoal, SpawnedBatch, EndedBatch, SameGoal,
         DoneWithStep
    <2>2. PICK s : s = StepAt(e, c, l)'
      OBVIOUS
    <2>3. Awaits(new, e, c, l, s)
      BY <2>1, AllAwaited
    <2> QED
      BY <2>2, <2>3 DEF Handled, new
  <1>7. ASSUME NEW e \in expanded', NEW c \in Clauses, ~ TooWide(e.goal, c),
               NEW l \in DOMAIN resolutions'[e.goal][c]
        PROVE  Handled(e, c, l)'
    BY <1>3, <1>5, <1>6, <1>7
  <1>8. Followed' = (\A e \in expanded', c \in Clauses : ~ TooWide(e.goal, c) =>
            \A l \in DOMAIN resolutions'[e.goal][c] : Handled(e, c, l)')
    BY DEF Followed
  <1> QED
    BY <1>7, <1>8

\* What is seen anew becomes a work item at once.
LEMMA SeenStep ==
    ASSUME SoundInv, ~ Exhausted, SeenKept, NEW w \in Workers, WorkerStep(w)
    PROVE  SeenKept'
  <1> DEFINE old == worker[w]
             new == worker'[w]
             s == Head(old.found)
  <1>1. Typed /\ Shaped
    BY DEF SoundInv
  <1>2. /\ Moved(old, new) /\ old.found \in Seq(StepType) /\ old.acc \in Seq(ItemType)
        /\ seen \in [Disjunctions -> {Unseen} \cup [depth : Depths, sim : Sims]]
    BY <1>1, StepMoves, WorkerFields DEF Typed, TypeOK
  <1>3. Items \subseteq Items' /\ Waiting(new) \subseteq Items'
    BY ItemsStay DEF Items
  <1> SUFFICES ASSUME NEW d \in Disjunctions, seen'[d] # Unseen
               PROVE  \E item \in Items' :
                         item.goal = d /\ AsGood(item, seen'[d].depth, seen'[d].sim)
    BY DEF SeenKept
  <1> HIDE DEF old, new, s
  <1>4. CASE seen'[d] = seen[d]
    BY <1>3, <1>4 DEF SeenKept
  <1>5. CASE seen'[d] # seen[d]
    <2>1. PushedStep(old, new) /\ SkipSeen
      BY <1>2, <1>5 DEF Moved, Started, DroppedGoal, ReachedQuota, TookGoal, Skipped,
         BeganClause, TriedLiteral, GotSteps, RecordedLeaf, DroppedStep, PushedStep,
         AboutToInsert, LeftClause, LeftGoal, SpawnedBatch, EndedBatch, SharedKept
    <2>2. /\ new.acc = Append(old.acc, ItemOf(s)) /\ old.found # <<>>
          /\ seen' = [seen EXCEPT ![s.resolvent] = [depth |-> s.depth, sim |-> s.sim]]
      BY <2>1 DEF PushedStep, DoneWithStep, s
    <2>3. s \in StepType
      BY <1>2, <2>2 DEF s
    <2>4. d = s.resolvent /\ seen'[d].depth = s.depth /\ seen'[d].sim = s.sim
      BY <1>2, <1>5, <2>2
    <2>5. s.depth \in Int /\ s.sim \in Int
      BY <2>3, SearchAssumption, SimsAboveThreshold DEF StepType, Depths
    <2>6. ItemOf(s) \in Items'
      BY <1>2, <1>3, <2>2, SetOfAppend DEF Waiting
    <2>7. ItemOf(s).goal = s.resolvent /\ ItemOf(s).parent = s
      BY DEF ItemOf
    <2>8. AsGood(ItemOf(s), seen'[d].depth, seen'[d].sim)
      BY <2>3, <2>4, <2>5, <2>7, StepIsParent DEF AsGood
    <2> QED
      BY <2>4, <2>6, <2>7, <2>8
  <1> QED
    BY <1>4, <1>5

\* The threshold only rises.
LEMMA BarsStep ==
    ASSUME SoundInv, SoundInv', BarsKept, NEW w \in Workers, WorkerStep(w)
    PROVE  BarsKept'
  <1> DEFINE old == worker[w]
             new == worker'[w]
  <1>1. Typed /\ Shaped
    BY DEF SoundInv
  <1>2. /\ Alone(w) /\ Moved(old, new) /\ \A v \in Workers : worker[v].bar \in Int
    BY <1>1, StepMoves DEF Typed, TypeOK, WorkerType
  <1>3. threshold <= threshold' /\ threshold \in Int /\ threshold' \in Int
    <2>1. ThresholdKept'
      BY ThresholdType, PTL
    <2> QED
      BY <2>1, LeavesRise, ThresholdType DEF Rises, ThresholdKept
  <1>4. ASSUME NEW v \in Workers, v # w, worker'[v].pc \in {"steps", "insert"}
        PROVE  worker'[v].bar <= threshold'
    <2>1. worker'[v] = worker[v]
      BY <1>2, <1>4 DEF Alone
    <2>2. worker[v].bar <= threshold
      BY <1>4, <2>1 DEF BarsKept
    <2> QED
      BY <1>2, <1>3, <2>1, <2>2
  <1>5. ASSUME new.pc \in {"steps", "insert"} PROVE new.bar <= threshold'
    <2>1. old.pc \in {"steps", "insert"} => old.bar <= threshold
      BY DEF BarsKept
    <2>2. old.bar \in Int
      BY <1>2
    <2> HIDE DEF old, new
    <2>3. CASE GotSteps(old, new)
      BY <1>3, <2>3 DEF GotSteps
    <2>4. CASE DoneWithStep(old, new) \/ AboutToInsert(old, new)
      <3>1. old.pc \in {"steps", "insert"} /\ new.bar = old.bar
        BY <2>4 DEF DoneWithStep, AboutToInsert
      <3> QED
        BY <1>3, <2>1, <2>2, <3>1
    <2>5. CASE ~ GotSteps(old, new) /\ ~ DoneWithStep(old, new) /\ ~ AboutToInsert(old, new)
      BY <1>2, <1>5, <2>5 DEF Moved, Started, DroppedGoal, ReachedQuota, TookGoal, Skipped,
         BeganClause, TriedLiteral, RecordedLeaf, DroppedStep, PushedStep,
         LeftClause, LeftGoal, SpawnedBatch, EndedBatch, Idle
    <2> QED
      BY <2>3, <2>4, <2>5
  <1> QED
    BY <1>4, <1>5 DEF BarsKept

\* Every step keeps it.
LEMMA ClosedStep == SoundInv /\ SoundInv' /\ Closed /\ [Next]_vars => Closed'
  <1> SUFFICES ASSUME SoundInv, SoundInv', Closed, [Next]_vars PROVE Closed'
    OBVIOUS
  <1>1. ASSUME NEW w \in Workers, WorkerStep(w) PROVE Closed'
    <2>1. BarsKept'
      BY <1>1, BarsStep DEF Closed
    <2>2. ASSUME ~ Exhausted' PROVE Begun' /\ Followed' /\ SeenKept'
      <3>1. ~ Exhausted
        BY <1>1, <2>2, ExhaustedStays
      <3>2. BarsKept /\ Begun /\ Followed /\ SeenKept
        BY <3>1 DEF Closed
      <3>3. Followed' /\ SeenKept'
        BY <1>1, <3>1, <3>2, FollowedStep, SeenStep
      <3>4. Begun'
        BY <1>1, <3>1, <3>2, ItemsStay DEF Begun, RootItem
      <3> QED
        BY <3>3, <3>4
    <2> QED
      BY <2>1, <2>2 DEF Closed
  <1>2. ASSUME UNCHANGED <<resolutions, jobs, worker, shared, expanded>> PROVE Closed'
    <2>1. /\ UNCHANGED <<resolutions, jobs, worker, leaves, threshold, seen, stats, expanded>>
      BY <1>2 DEF shared
    <2>2. Exhausted' = Exhausted /\ Items' = Items /\ Begun' = Begun /\ BarsKept' = BarsKept
      BY <2>1 DEF Exhausted, AttemptsSpent, Items, Begun, RootItem, BarsKept
    <2>3. SeenKept' = SeenKept
      BY <2>1, <2>2 DEF SeenKept
    <2>4. Followed' = Followed
      BY <2>1, <2>2 DEF Followed, Handled, Settled, StepAt
    <2> QED
      BY <2>2, <2>3, <2>4 DEF Closed
  <1>3. CASE Collect
    BY <1>2, <1>3 DEF Collect
  <1>4. CASE Done \/ UNCHANGED vars
    BY <1>2, <1>4 DEF Done, vars
  <1> QED
    BY <1>1, <1>3, <1>4 DEF Next

\* Nothing is lost in any state of any search that no limit has cut short.
THEOREM ClosedInvariant == Spec => []Closed
  <1>1. Init => Closed
    BY ClosedInit
  <1>2. SoundInv /\ SoundInv' /\ Closed /\ [Next]_vars => Closed'
    BY ClosedStep
  <1>3. Spec => []SoundInv
    BY SoundInvariant
  <1> QED
    BY <1>1, <1>2, <1>3, PTL DEF Spec
-----------------------------------------------------------------------------
(***************************************************************************)
(* The derivations, and what the search has found of them in the end.      *)
(***************************************************************************)

SimsOn(path) == { Outcome(path[i]).sim : i \in DOMAIN path }

\* A derivation of n steps: the similarities are those of its path, and one of
\* them is the least.
WellMade(n, d) ==
    /\ d.end \in Disjunctions \cup {Empty}
    /\ d.path \in Seq(EdgeType) /\ d.sims = SimsOn(d.path)
    /\ IF n = 0 THEN d.end # Empty /\ d.path = <<>> /\ d.sims = {}
       ELSE \E x : IsLeast(x, d.sims)

AllWellMade == \A n \in 0 .. LongestProof : \A d \in Derivations[n] : WellMade(n, d)

\* What an edge stands for.
LEMMA EdgeOutcome ==
    ASSUME Typed, NEW goal \in Disjunctions, NEW e \in Edges(goal)
    PROVE  /\ e \in EdgeType /\ e.source = goal /\ ~ TooWide(goal, e.clause)
           /\ e = [source |-> goal, clause |-> e.clause, literal |-> e.literal]
           /\ e.literal \in DOMAIN resolutions[goal][e.clause]
           /\ Outcome(e) \in [resolvent : Disjunctions \cup {Empty}, sim : Int]
  <1> DEFINE R == [resolvent : Disjunctions \cup {Empty}, sim : Int]
  <1>0. PICK c \in Clauses :
           /\ ~ TooWide(goal, c)
           /\ \E l \in DOMAIN resolutions[goal][c] :
                 e = [source |-> goal, clause |-> c, literal |-> l]
    BY DEF Edges
  <1>1. PICK l \in DOMAIN resolutions[goal][c] :
           e = [source |-> goal, clause |-> c, literal |-> l] /\ ~ TooWide(goal, c)
    BY <1>0
  <1>2. resolutions[goal][c] \in Seq(R)
    <2>1. resolutions \in ResolutionsType(Int)
      BY SearchAssumption DEF Typed, TypeOK
    <2> QED
      BY <2>1 DEF ResolutionsType
  <1>3. l \in Nat \ {0} /\ resolutions[goal][c][l] \in R
    <2> DEFINE o == resolutions[goal][c]
    <2>1. l \in DOMAIN o
      OBVIOUS
    <2> HIDE DEF o, R
    <2>2. l \in Nat \ {0} /\ o[l] \in R
      BY <1>2, <2>1 DEF o
    <2> QED
      BY <2>2 DEF o
  <1>4. Outcome(e) = resolutions[goal][c][l]
    BY <1>1 DEF Outcome
  <1> QED
    BY <1>1, <1>3, <1>4 DEF EdgeType

\* Every derivation is well made.
LEMMA DerivationsWellMade == Typed => AllWellMade
  <1> SUFFICES ASSUME Typed PROVE AllWellMade
    OBVIOUS
  <1> DEFINE Wrong == { n \in 0 .. LongestProof : \E d \in Derivations[n] : ~ WellMade(n, d) }
  <1>1. Wrong = {}
    <2> SUFFICES ASSUME Wrong # {} PROVE FALSE
      OBVIOUS
    <2>1. LongestProof \in Nat /\ Wrong \subseteq Nat
      BY LongestType
    <2>2. PICK n \in Wrong : \A m \in Wrong : n <= m
      BY <2>1, LeastElement
    <2>3. PICK d \in Derivations[n] : ~ WellMade(n, d)
      BY <2>2
    <2>4. CASE n = 0
      <3>1. PICK g \in ToSet(Goals) : d = [end |-> g, path |-> <<>>, sims |-> {}]
        BY <2>3, <2>4, DerivationsDef DEF DerivationsGrow, Beginnings
      <3>2. g \in Disjunctions /\ g # Empty
        BY SearchAssumption DEF ToSet
      <3>3. SimsOn(<<>>) = {} /\ <<>> \in Seq(EdgeType)
        BY DEF SimsOn
      <3> QED
        BY <2>3, <2>4, <3>1, <3>2, <3>3 DEF WellMade
    <2>5. CASE n # 0
      <3>1. n \in 1 .. LongestProof /\ n - 1 \in 0 .. LongestProof /\ n - 1 \notin Wrong
        BY <2>1, <2>2, <2>5
      <3>2. Derivations[n] = Lengthened(Derivations[n - 1])
        BY <3>1, DerivationsDef DEF DerivationsGrow
      <3>3. PICK b \in Derivations[n - 1] : b.end # Empty /\ \E e \in Edges(b.end) : d = Extended(b, e)
        BY <2>3, <3>2 DEF Lengthened
      <3>4. PICK e \in Edges(b.end) : d = Extended(b, e)
        BY <3>3
      <3>5. WellMade(n - 1, b)
        BY <3>1
      <3> HIDE DEF Wrong
      <3>6. /\ b.end \in Disjunctions /\ b.path \in Seq(EdgeType) /\ b.sims = SimsOn(b.path)
            /\ b.sims = {} \/ \E x : IsLeast(x, b.sims)
        BY <3>3, <3>5 DEF WellMade
      <3>7. /\ e \in EdgeType /\ Outcome(e).sim \in Int
            /\ Outcome(e).resolvent \in Disjunctions \cup {Empty}
        BY <3>4, <3>6, EdgeOutcome
      <3>8. /\ d.end = Outcome(e).resolvent /\ d.path = Append(b.path, e)
            /\ d.sims = b.sims \cup {Outcome(e).sim}
        BY <3>4 DEF Extended
      <3>9. d.path \in Seq(EdgeType)
        BY <3>6, <3>7, <3>8
      <3>10. SimsOn(d.path) = b.sims \cup {Outcome(e).sim}
        <4> DEFINE p == b.path
                   t == Append(p, e)
        <4>1. /\ Len(p) \in Nat /\ DOMAIN p = 1 .. Len(p) /\ DOMAIN t = 1 .. Len(p) + 1
              /\ t[Len(p) + 1] = e /\ \A i \in 1 .. Len(p) : t[i] = p[i]
          BY <3>6
        <4> HIDE DEF p, t
        <4>2. \A i \in DOMAIN t : i \in DOMAIN p \/ i = Len(p) + 1
          BY <4>1
        <4>3. Len(p) + 1 \in DOMAIN t /\ \A i \in DOMAIN p : i \in DOMAIN t
          BY <4>1
        <4>4. SimsOn(t) = SimsOn(p) \cup {Outcome(e).sim}
          BY <4>1, <4>2, <4>3 DEF SimsOn
        <4> QED
          BY <3>6, <3>8, <4>4 DEF p, t
      <3>11. \E x : IsLeast(x, d.sims)
        <4>1. CASE b.sims = {}
          <5> DEFINE y == Outcome(e).sim
          <5>1. d.sims = {y} /\ y \in Int
            BY <3>7, <3>8, <4>1
          <5> HIDE DEF y
          <5>2. IsLeast(y, d.sims)
            BY <5>1 DEF IsLeast
          <5> QED
            BY <5>2
        <4>2. CASE \E x : IsLeast(x, b.sims)
          <5>1. PICK x : IsLeast(x, b.sims)
            BY <4>2
          <5> DEFINE y == Outcome(e).sim
                     m == IF x <= y THEN x ELSE y
          <5>2. x \in Int /\ y \in Int /\ x \in b.sims /\ b.sims \subseteq Int
                /\ \A z \in b.sims : x <= z
            BY <3>7, <5>1 DEF IsLeast
          <5>3. d.sims = b.sims \cup {y}
            BY <3>8
          <5> HIDE DEF y
          <5>4. m \in d.sims /\ d.sims \subseteq Int /\ \A z \in d.sims : m <= z
            BY <5>2, <5>3
          <5> HIDE DEF m
          <5> QED
            BY <5>4 DEF IsLeast
        <4> QED
          BY <3>6, <4>1, <4>2
      <3> QED
        BY <2>3, <2>5, <3>7, <3>8, <3>9, <3>10, <3>11 DEF WellMade
    <2> QED
      BY <2>4, <2>5
  <1> QED
    BY <1>1 DEF AllWellMade

\* At the end every goal that was to be resolved is.
LEMMA AllResolved ==
    ASSUME SoundInv, Returned
    PROVE  /\ Items = expanded /\ \A w \in Workers : ~ Busy(worker[w])
           /\ result.proofs = leaves /\ result.stats = stats
  <1>1. /\ jobs = {} /\ \A w \in Workers : worker[w].pc = "idle" /\ worker[w] = Idle
        /\ result.proofs = leaves /\ result.stats = stats
    BY DEF SoundInv, Returned, ResultKept, Shaped, Shape
  <1>2. \A w \in Workers : Waiting(worker[w]) = {}
    BY <1>1 DEF Waiting, Idle, ToSet
  <1>3. Items = expanded
    BY <1>1, <1>2 DEF Items
  <1> QED
    BY <1>1, <1>3 DEF Busy

\* Something is as good as a derivation.
Rivals(sim, path, d) ==
    (\E x \in d.sims : x \in Int /\ sim >= x) /\ (~ SkipSeen => path = d.path)

\* A resolved goal that stands for what the derivation of n steps leads to.
Reaches(item, n, d) ==
    /\ item.goal = d.end
    /\ IF n = 0 THEN item.parent = NoParent
       ELSE /\ ~ IsRoot(item) /\ item.parent.depth + 1 <= n
            /\ Rivals(item.parent.sim, item.parent.path, d)

\* What the search has made of a derivation.
Accomplished(n, d) ==
    (\A x \in d.sims : x > threshold) =>
        IF d.end = Empty THEN \E s \in ToSet(leaves) : Rivals(s.sim, s.path, d)
        ELSE n < LongestProof => \E item \in expanded : Reaches(item, n, d)

\* One step more is accomplished, too.
LEMMA OneStepMore ==
    ASSUME SoundInv, Closed, ~ Exhausted, Returned,
           NEW n \in 1 .. LongestProof, NEW b, NEW edge, NEW d,
           WellMade(n - 1, b), Accomplished(n - 1, b), b.end # Empty,
           edge \in Edges(b.end), d = Extended(b, edge)
    PROVE  Accomplished(n, d)
  <1>1. /\ Typed /\ Begun /\ Followed /\ threshold \in Int
        /\ expanded \subseteq ItemType /\ n \in Nat /\ LongestProof \in Nat
    <2>1. Typed
      BY DEF SoundInv
    <2>2. threshold \in Int
      BY ThresholdType DEF ThresholdKept
    <2> QED
      BY <2>1, <2>2, LongestType DEF Closed, Typed, TypeOK
  <1> SUFFICES ASSUME \A x \in d.sims : x > threshold
               PROVE  IF d.end = Empty THEN \E s \in ToSet(leaves) : Rivals(s.sim, s.path, d)
                      ELSE n < LongestProof => \E item \in expanded : Reaches(item, n, d)
    BY DEF Accomplished
  <1> DEFINE r == Outcome(edge)
             c == edge.clause
             l == edge.literal
  <1>2. /\ d.end = r.resolvent /\ d.path = Append(b.path, edge) /\ d.sims = b.sims \cup {r.sim}
    BY DEF Extended
  <1>3. /\ b.end \in Disjunctions /\ b.path \in Seq(EdgeType)
        /\ n - 1 = 0 => b.path = <<>>
    BY DEF WellMade
  <1>4. /\ edge \in EdgeType /\ edge = [source |-> b.end, clause |-> c, literal |-> l]
        /\ ~ TooWide(b.end, c) /\ l \in DOMAIN resolutions[b.end][c]
        /\ r \in [resolvent : Disjunctions \cup {Empty}, sim : Int]
    BY <1>1, <1>3, EdgeOutcome
  <1>5. r = resolutions[b.end][c][l] /\ c \in Clauses /\ r.sim \in Int
    BY <1>4 DEF Outcome, EdgeType
  <1> HIDE DEF r, c, l
  <1>6. PICK e \in expanded : Reaches(e, n - 1, b)
    <2>1. n - 1 < LongestProof
      BY <1>1
    <2>2. \A x \in b.sims : x > threshold
      BY <1>2
    <2> QED
      BY <2>1, <2>2 DEF Accomplished
  <1>7. PICK s : s = StepAt(e, c, l)
    OBVIOUS
  <1>8. e \in ItemType /\ e.goal = b.end /\ (IsRoot(e) <=> n - 1 = 0)
    BY <1>1, <1>6 DEF Reaches, IsRoot
  <1>9. /\ s.sim \in Int
        /\ IsRoot(e) => s.sim = r.sim
        /\ ~ IsRoot(e) => s.sim \in {r.sim, e.parent.sim}
        /\ s.resolvent = r.resolvent
        /\ s.depth = (IF IsRoot(e) THEN 0 ELSE e.parent.depth + 1)
        /\ s.path = Append(e.parent.path, edge)
    BY <1>1, <1>4, <1>5, <1>7, <1>8, StepAtType
  <1>10. PICK x \in d.sims : x \in Int /\ s.sim >= x
    <2>1. CASE s.sim = r.sim
      BY <1>2, <1>5, <2>1
    <2>2. CASE ~ IsRoot(e) /\ s.sim = e.parent.sim
      BY <1>2, <1>6, <1>8, <2>2 DEF Reaches, Rivals
    <2> QED
      BY <1>9, <2>1, <2>2
  <1>11. ~ SkipSeen => s.path = d.path
    <2>1. IsRoot(e) => e.parent.path = b.path
      BY <1>3, <1>8 DEF IsRoot, NoParent
    <2>2. ~ IsRoot(e) /\ ~ SkipSeen => e.parent.path = b.path
      BY <1>6, <1>8 DEF Reaches, Rivals
    <2> QED
      BY <1>2, <1>9, <2>1, <2>2
  <1>12. Rivals(s.sim, s.path, d)
    BY <1>10, <1>11 DEF Rivals
  <1>13. s.depth + 1 <= n /\ s.depth \in Int
    <2>1. ~ IsRoot(e) => e.parent.depth \in Int /\ e.parent.depth + 1 <= n - 1
      BY <1>6, <1>8, SearchAssumption DEF Reaches, ItemType, IsRoot, StepType, Depths
    <2> QED
      BY <1>1, <1>9, <2>1
  <1>14. Settled(e, s)
    <2>1. Handled(e, c, l)
      BY <1>1, <1>4, <1>5, <1>8 DEF Followed
    <2>2. \A w \in Workers : ~ Awaits(worker[w], e, c, l, s)
      BY AllResolved DEF Awaits
    <2> QED
      BY <1>7, <2>1, <2>2 DEF Handled
  <1>15. ~ (s.sim <= threshold)
    BY <1>1, <1>9, <1>10
  <1>16. CASE d.end = Empty
    BY <1>2, <1>9, <1>12, <1>14, <1>15, <1>16 DEF Settled
  <1>17. CASE d.end # Empty /\ n < LongestProof
    <2>1. GoesOn(e)
      <3>1. MaxProofDepth \in Nat /\ MaxProofDepth > 1 /\ n <= MaxProofDepth
        BY <1>1, <1>17, SearchAssumption DEF LongestProof
      <3>2. s.depth < MaxProofDepth
        BY <1>1, <1>13, <3>1
      <3> QED
        BY <1>9, <3>1, <3>2 DEF GoesOn, Depth
    <2>2. PICK item \in expanded : CoveredBy(item, s)
      BY <1>2, <1>9, <1>14, <1>15, <1>17, <2>1, AllResolved DEF Settled
    <2>3. item.goal = d.end
      BY <1>2, <1>9, <2>2 DEF CoveredBy
    <2>4. CASE SkipSeen
      <3>1. ~ IsRoot(item) /\ item.parent.depth <= s.depth /\ item.parent.sim >= s.sim
        BY <2>2, <2>4 DEF CoveredBy, AsGood, IsRoot
      <3>2. item.parent.depth \in Int /\ item.parent.sim \in Int
        <4>1. item \in ItemType
          BY <1>1
        <4>2. item.parent \in StepType
          BY <3>1, <4>1 DEF ItemType, IsRoot
        <4> QED
          BY <4>2, SearchAssumption, SimsAboveThreshold DEF StepType, Depths
      <3>3. item.parent.depth + 1 <= n /\ item.parent.sim >= x
        BY <1>1, <1>9, <1>10, <1>13, <3>1, <3>2
      <3>4. Rivals(item.parent.sim, item.parent.path, d)
        BY <1>10, <2>4, <3>3 DEF Rivals
      <3> QED
        BY <1>1, <1>17, <2>3, <3>1, <3>3, <3>4 DEF Reaches
    <2>5. CASE ~ SkipSeen
      <3>1. item.parent = s
        BY <2>2, <2>5 DEF CoveredBy, ItemOf
      <3>2. s.path # <<>>
        <4>1. e.parent.path \in Seq(EdgeType)
          <5>1. NoParent.path \in Seq(EdgeType)
            BY DEF NoParent
          <5> QED
            BY <1>8, <5>1 DEF ItemType, StepType, EdgeType
        <4> QED
          BY <1>4, <1>9, <4>1, PathLonger
      <3>3. ~ IsRoot(item)
        BY <3>1, <3>2 DEF IsRoot, NoParent
      <3> QED
        BY <1>1, <1>12, <1>13, <1>17, <2>3, <3>1, <3>3 DEF Reaches
    <2> QED
      BY <2>4, <2>5
  <1> QED
    BY <1>16, <1>17

\* Every derivation that could lead to a proof above the threshold was followed.
LEMMA AllAccomplished ==
    ASSUME SoundInv, Closed, ~ Exhausted, Returned,
           NEW n \in 0 .. LongestProof, NEW d \in Derivations[n]
    PROVE  Accomplished(n, d)
  <1> DEFINE Wrong == { k \in 0 .. LongestProof : \E b \in Derivations[k] : ~ Accomplished(k, b) }
  <1>1. Wrong = {}
    <2> SUFFICES ASSUME Wrong # {} PROVE FALSE
      OBVIOUS
    <2>1. LongestProof \in Nat /\ Wrong \subseteq Nat
      BY LongestType
    <2>2. PICK k \in Wrong : \A m \in Wrong : k <= m
      BY <2>1, LeastElement
    <2>3. PICK b \in Derivations[k] : ~ Accomplished(k, b)
      BY <2>2
    <2>4. CASE k = 0
      <3>1. PICK g \in ToSet(Goals) : b = [end |-> g, path |-> <<>>, sims |-> {}]
        BY <2>3, <2>4, DerivationsDef DEF DerivationsGrow, Beginnings
      <3>2. b.end # Empty
        BY <3>1, SearchAssumption DEF ToSet
      <3>3. RootItem(g) \in expanded
        BY AllResolved DEF Closed, Begun
      <3>4. Reaches(RootItem(g), 0, b)
        BY <3>1 DEF Reaches, RootItem
      <3> QED
        BY <2>3, <2>4, <3>2, <3>3, <3>4 DEF Accomplished
    <2>5. CASE k # 0
      <3>1. k \in 1 .. LongestProof /\ k - 1 \in 0 .. LongestProof /\ k - 1 \notin Wrong
        BY <2>1, <2>2, <2>5
      <3>2. Derivations[k] = Lengthened(Derivations[k - 1])
        BY <3>1, DerivationsDef DEF DerivationsGrow
      <3>3. PICK a \in Derivations[k - 1] :
               a.end # Empty /\ \E e \in Edges(a.end) : b = Extended(a, e)
        BY <2>3, <3>2 DEF Lengthened
      <3>4. PICK e \in Edges(a.end) : b = Extended(a, e)
        BY <3>3
      <3>5. Accomplished(k - 1, a)
        BY <3>1
      <3>6. WellMade(k - 1, a)
        BY <3>1, DerivationsWellMade DEF AllWellMade, SoundInv
      <3> QED
        BY <2>3, <3>1, <3>3, <3>4, <3>5, <3>6, OneStepMore
    <2> QED
      BY <2>4, <2>5
  <1> QED
    BY <1>1

\* A proof that there is was found, or one that is as good, or the threshold
\* has passed it.
IsMatched(p) ==
    /\ p.sim \in Int /\ p.sim > InitialThreshold
    /\ \/ p.sim <= threshold
       \/ \E i \in DOMAIN leaves : /\ leaves[i].sim >= p.sim
                                   /\ ~ SkipSeen => Shown(leaves[i]) = p

LEMMA ProofsMatched ==
    ASSUME SoundInv, Closed, ~ Exhausted, Returned, NEW p \in AllProofs
    PROVE  IsMatched(p)
  <1>1. /\ Typed /\ AllWellMade /\ threshold \in Int /\ LongestProof \in Nat
        /\ leaves \in Seq(DerivedProofs)
    BY DerivationsWellMade, ThresholdType, LongestType DEF SoundInv, ThresholdKept, AllDerived
  <1>2. PICK n \in 1 .. LongestProof :
           \E d \in Derivations[n] : p = ProofOf(d) /\ d.end = Empty
    BY DEF AllProofs
  <1>3. PICK d \in Derivations[n] : p = ProofOf(d) /\ d.end = Empty
    BY <1>2
  <1>4. n \in 0 .. LongestProof /\ n # 0
    BY <1>1
  <1>5. d.sims = SimsOn(d.path) /\ \E x : IsLeast(x, d.sims)
    BY <1>1, <1>4 DEF AllWellMade, WellMade
  <1>6. PICK x : IsLeast(x, d.sims)
    BY <1>5
  <1>7. p.path = d.path /\ p.sim = Min(d.sims) /\ p.sim > InitialThreshold
    BY <1>3 DEF ProofOf, AllProofs
  <1>8. Min(d.sims) = x /\ x \in Int
    <2>1. \A y \in d.sims : (\A z \in d.sims : y =< z) => y = x
      BY <1>6 DEF IsLeast
    <2>2. x \in Int /\ x \in d.sims /\ \A y \in d.sims : x =< y
      BY <1>6 DEF IsLeast
    <2> QED
      BY <2>1, <2>2 DEF Min
  <1>9. ASSUME ~ (p.sim <= threshold)
        PROVE  \E i \in DOMAIN leaves : /\ leaves[i].sim >= p.sim
                                        /\ ~ SkipSeen => Shown(leaves[i]) = p
    <2>1. \A y \in d.sims : y > threshold
      BY <1>1, <1>6, <1>7, <1>8, <1>9 DEF IsLeast
    <2>2. PICK s \in ToSet(leaves) : Rivals(s.sim, s.path, d)
      BY <1>3, <1>4, <2>1, AllAccomplished DEF Accomplished
    <2>3. PICK i \in DOMAIN leaves : s = leaves[i]
      BY <2>2 DEF ToSet
    <2>4. s \in DerivedProofs
      BY <1>1, <2>3
    <2>5. s.sim \in Int
      BY <2>4, SimsAboveThreshold DEF DerivedProofs, DerivedSteps, StepType
    <2>6. s.sim >= p.sim
      BY <1>6, <1>7, <1>8, <2>2, <2>5 DEF Rivals, IsLeast
    <2>7. ASSUME ~ SkipSeen PROVE Shown(s) = p
      <3>1. s.path = d.path
        BY <2>2, <2>7 DEF Rivals
      <3>2. s.depth + 1 \in 1 .. LongestProof
        BY <2>4 DEF DerivedProofs, DerivedSteps, Derived
      <3>3. PICK b \in Derivations[s.depth + 1] : b.path = s.path /\ IsLeast(s.sim, b.sims)
        BY <2>4 DEF DerivedProofs, DerivedSteps, Derived
      <3>4. b.sims = SimsOn(b.path)
        BY <1>1, <3>2 DEF AllWellMade, WellMade
      <3>5. IsLeast(s.sim, d.sims)
        BY <1>5, <3>1, <3>3, <3>4
      <3>6. s.sim = p.sim
        BY <1>6, <1>7, <1>8, <3>5 DEF IsLeast
      <3> QED
        BY <1>3, <1>7, <3>1, <3>6 DEF Shown, ProofOf
    <2> QED
      BY <2>3, <2>6, <2>7
  <1> QED
    BY <1>7, <1>8, <1>9 DEF IsMatched

\* What is kept when the threshold has passed a proof.
PassedBy(p) ==
    p.sim <= threshold /\ Len(leaves) = MaxProofs
        /\ \A i \in DOMAIN leaves : leaves[i].sim >= p.sim

LEMMA PassedByBest ==
    ASSUME SoundInv, NEW p, p.sim \in Int, p.sim > InitialThreshold, p.sim <= threshold
    PROVE  PassedBy(p)
  <1>1. /\ threshold \in Int /\ InitialThreshold \in Int /\ leaves \in Seq(StepType)
        /\ Len(leaves) \in Nat
    BY ThresholdType, SearchAssumption DEF ThresholdKept
  <1>2. threshold # InitialThreshold
    BY <1>1
  <1>3. /\ Len(leaves) = MaxProofs /\ threshold = leaves[Len(leaves)].sim
        /\ \A i, j \in DOMAIN leaves : i < j => leaves[i].sim >= leaves[j].sim
    BY <1>2 DEF SoundInv, LeavesKept
  <1>4. ASSUME NEW i \in DOMAIN leaves PROVE leaves[i].sim >= p.sim
    <2> DEFINE n == Len(leaves)
    <2>1. i \in 1 .. n /\ n \in DOMAIN leaves /\ leaves[i] \in StepType /\ (i < n \/ i = n)
      BY <1>1
    <2>2. leaves[i].sim \in Int
      BY <2>1, SimsAboveThreshold DEF StepType
    <2>3. CASE i < n
      <3>1. leaves[i].sim >= leaves[n].sim
        BY <1>3, <2>1, <2>3
      <3> QED
        BY <1>1, <1>3, <2>2, <3>1
    <2>4. CASE i = n
      BY <1>3, <2>4, <1>1
    <2> QED
      BY <2>1, <2>3, <2>4
  <1> QED
    BY <1>3, <1>4 DEF PassedBy

\* What holds at the end of a search that no limit has cut short.
LEMMA AtTheEnd ==
    ASSUME SoundInv, Closed, Returned, ~ Exhausted
    PROVE  /\ result.proofs = leaves /\ leaves \in Seq(StepType) /\ Len(leaves) \in Nat
           /\ MaxProofs \in (Nat \cup {NoLimit}) \ {0} /\ NoLimit \notin Int
           /\ MaxProofs # NoLimit => Len(leaves) <= MaxProofs
           /\ \A i \in DOMAIN leaves : leaves[i].sim \in Int /\ Shown(leaves[i]) \in Found
           /\ \A q \in Found : \E i \in DOMAIN leaves : q = Shown(leaves[i])
           /\ \A p \in AllProofs :
                 /\ p.sim \in Int
                 /\ \/ PassedBy(p)
                    \/ \E i \in DOMAIN leaves : /\ leaves[i].sim >= p.sim
                                                /\ ~ SkipSeen => Shown(leaves[i]) = p
  <1>1. result.proofs = leaves
    BY AllResolved
  <1>2. leaves \in Seq(StepType) /\ Len(leaves) \in Nat
    BY ThresholdType DEF ThresholdKept
  <1>3. \A i \in DOMAIN leaves : leaves[i].sim \in Int
    <2>1. \A i \in DOMAIN leaves : leaves[i] \in StepType
      BY <1>2
    <2> QED
      BY <2>1, SimsAboveThreshold DEF StepType
  <1>4. \A p \in AllProofs :
           /\ p.sim \in Int
           /\ \/ PassedBy(p)
              \/ \E i \in DOMAIN leaves : /\ leaves[i].sim >= p.sim
                                          /\ ~ SkipSeen => Shown(leaves[i]) = p
    BY ProofsMatched, PassedByBest DEF IsMatched
  <1> QED
    BY <1>1, <1>2, <1>3, <1>4, SearchAssumption DEF Found, Limits, SoundInv, LeavesKept

\* No limit of attempts was reached, and none of proofs that ends the search.
LEMMA NotExhausted ==
    ASSUME SoundInv, Returned, ~ UsedUpAttempts,
           FindHighest \/ ~ AtLimit(Len(result.proofs), MaxProofs)
    PROVE  ~ Exhausted
  BY AllResolved DEF Exhausted, AttemptsSpent, UsedUpAttempts

\* However the threads raise the threshold that prunes (record_leaf_proof), no
\* proof is lost that belongs to the best max_proofs.
THEOREM TopIsReturned == Spec => []ResultIsTop
  <1>1. SoundInv /\ Closed => ResultIsTop
    <2> SUFFICES ASSUME SoundInv, Closed, Returned, FindHighest, ~ UsedUpAttempts,
                        SkipSeen => MaxProofs = 1, NEW p \in AllProofs \ Found
                 PROVE  /\ Len(result.proofs) = MaxProofs
                        /\ \A q \in Found : q.sim >= p.sim
      BY DEF ResultIsTop
    <2>1. ~ Exhausted
      BY NotExhausted
    <2>2. /\ result.proofs = leaves /\ leaves \in Seq(StepType) /\ Len(leaves) \in Nat
          /\ MaxProofs \in (Nat \cup {NoLimit}) \ {0} /\ NoLimit \notin Int
          /\ MaxProofs # NoLimit => Len(leaves) <= MaxProofs
          /\ \A i \in DOMAIN leaves : Shown(leaves[i]) \in Found
          /\ \A q \in Found : \E i \in DOMAIN leaves : q = Shown(leaves[i])
      BY <2>1, AtTheEnd
    <2>3. CASE PassedBy(p)
      BY <2>2, <2>3 DEF PassedBy, Shown
    <2>4. ASSUME NEW i \in DOMAIN leaves, leaves[i].sim >= p.sim,
                 ~ SkipSeen => Shown(leaves[i]) = p
          PROVE  Len(leaves) = MaxProofs /\ \A q \in Found : q.sim >= p.sim
      <3>1. SkipSeen /\ MaxProofs = 1
        BY <2>2, <2>4
      <3>2. i \in 1 .. Len(leaves) /\ Len(leaves) <= 1
        BY <2>2, <3>1
      <3>3. Len(leaves) = 1 /\ \A j \in DOMAIN leaves : j = i
        <4>1. DOMAIN leaves = 1 .. Len(leaves) /\ Len(leaves) \in Nat
          BY <2>2
        <4>2. Len(leaves) = 1
          BY <3>2, <4>1
        <4> QED
          BY <4>1, <4>2
      <3>4. \A q \in Found : q = Shown(leaves[i])
        BY <2>2, <3>3
      <3> QED
        BY <2>4, <3>1, <3>3, <3>4 DEF Shown
    <2>5. PassedBy(p) \/ \E i \in DOMAIN leaves : /\ leaves[i].sim >= p.sim
                                                  /\ ~ SkipSeen => Shown(leaves[i]) = p
      BY <2>1, AtTheEnd
    <2> QED
      BY <2>2, <2>3, <2>4, <2>5
  <1> QED
    BY <1>1, SoundInvariant, ClosedInvariant, PTL

\* The proof with the highest similarity is found although the look-up and the
\* insertion in seen_resolvents are two steps (check_resolvent).
THEOREM BestIsReturned == Spec => []ResultHasTheBest
  <1>1. SoundInv /\ Closed => ResultHasTheBest
    <2> SUFFICES ASSUME SoundInv, Closed, Returned, FindHighest, ~ UsedUpAttempts,
                        AllProofs # {}
                 PROVE  \E p \in Found : \A q \in AllProofs : p.sim >= q.sim
      BY DEF ResultHasTheBest
    <2>1. ~ Exhausted
      BY NotExhausted
    <2>2. /\ leaves \in Seq(StepType) /\ Len(leaves) \in Nat
          /\ MaxProofs \in (Nat \cup {NoLimit}) \ {0} /\ NoLimit \notin Int
          /\ \A i \in DOMAIN leaves : leaves[i].sim \in Int /\ Shown(leaves[i]) \in Found
          /\ \A i, j \in DOMAIN leaves : i < j => leaves[i].sim >= leaves[j].sim
      BY <2>1, AtTheEnd DEF SoundInv, LeavesKept
    <2>3. DOMAIN leaves = 1 .. Len(leaves)
      BY <2>2
    <2>4. \A q \in AllProofs :
             q.sim \in Int /\ Len(leaves) > 0
             /\ \E i \in DOMAIN leaves : leaves[i].sim >= q.sim
      <3>1. ASSUME NEW q \in AllProofs
            PROVE  Len(leaves) > 0 /\ \E i \in DOMAIN leaves : leaves[i].sim >= q.sim
        <4>1. CASE PassedBy(q)
          <5>1. Len(leaves) > 0
            BY <2>2, <4>1 DEF PassedBy
          <5>2. 1 \in DOMAIN leaves
            BY <2>2, <2>3, <5>1
          <5> QED
            BY <4>1, <5>1, <5>2 DEF PassedBy
        <4>2. CASE \E i \in DOMAIN leaves : leaves[i].sim >= q.sim
          BY <2>2, <2>3, <4>2
        <4> QED
          BY <2>1, <4>1, <4>2, AtTheEnd
      <3> QED
        BY <2>1, <3>1, AtTheEnd
    <2>5. 1 \in DOMAIN leaves
      BY <2>2, <2>3, <2>4
    <2>6. ASSUME NEW q \in AllProofs PROVE Shown(leaves[1]).sim >= q.sim
      <3>1. PICK i \in DOMAIN leaves : leaves[i].sim >= q.sim
        BY <2>4
      <3>2. leaves[1].sim >= leaves[i].sim
        <4>1. i = 1 \/ 1 < i
          BY <2>3
        <4> QED
          BY <2>2, <2>5, <4>1
      <3>3. leaves[1].sim >= q.sim
        BY <2>2, <2>4, <2>5, <3>1, <3>2
      <3> QED
        BY <3>3 DEF Shown
    <2> QED
      BY <2>2, <2>5, <2>6
  <1> QED
    BY <1>1, SoundInvariant, ClosedInvariant, PTL

\* A search that is to stop at max_proofs proofs does not stop before, although
\* the counts that it compares with the limits are read while others add to
\* them (search_proof_step).
THEOREM StopHasEnough == Spec => []EarlyStopHasEnough
  <1>1. SoundInv /\ Closed => EarlyStopHasEnough
    <2> SUFFICES ASSUME SoundInv, Closed, Returned, ~ UsedUpAttempts,
                        SkipSeen => MaxProofs = 1,
                        ~ AtLimit(Len(result.proofs), MaxProofs), NEW p \in AllProofs
                 PROVE  p \in Found
      BY DEF EarlyStopHasEnough
    <2>1. ~ Exhausted
      BY NotExhausted
    <2>2. /\ result.proofs = leaves /\ leaves \in Seq(StepType) /\ Len(leaves) \in Nat
          /\ MaxProofs \in (Nat \cup {NoLimit}) \ {0} /\ NoLimit \notin Int
          /\ \A i \in DOMAIN leaves : Shown(leaves[i]) \in Found
      BY <2>1, AtTheEnd
    <2>3. ~ PassedBy(p)
      BY <2>2 DEF PassedBy, AtLimit
    <2>4. PICK i \in DOMAIN leaves : ~ SkipSeen => Shown(leaves[i]) = p
      BY <2>1, <2>3, AtTheEnd
    <2>5. ~ SkipSeen
      <3>1. Len(leaves) >= 1
        BY <2>2
      <3> QED
        BY <2>2, <3>1 DEF AtLimit
    <2> QED
      BY <2>2, <2>4, <2>5
  <1> QED
    BY <1>1, SoundInvariant, ClosedInvariant, PTL
=============================================================================
