------------------------- MODULE ProofSearch_proofs -------------------------
(***************************************************************************)
(* Theorems about ProofSearch, for any number of threads, any limits and   *)
(* anything that resolve() may find: the types, and that the search does   *)
(* and returns nothing wrong.                                              *)
(***************************************************************************)
EXTENDS ProofSearch, LeafOrder_proofs, TLAPS, FiniteSetTheorems

\* What a thread's program counter says of its variables.
Placed(me) ==
    /\ me.pc \in {"clauses", "resolve", "steps", "insert"} =>
          me.item \in ItemType /\ ~ TooDeep(me.item)
    /\ me.pc \in {"resolve", "steps", "insert"} => me.clause \in Clauses
    /\ me.pc = "quota" => me.batch # <<>> /\ ~ TooDeep(Head(me.batch))
    /\ me.pc = "insert" => me.found # <<>> /\ Head(me.found).resolvent # Empty

Typed == TypeOK /\ \A w \in Workers : Placed(worker[w])

\* The record of a thread without a job.
LEMMA IdleType == Idle \in WorkerType /\ Placed(Idle)
  <1>1. InitialThreshold \in Int /\ NumClauses \in Nat
    BY SearchAssumption
  <1>2. NoStats \in StatsType
    BY DEF NoStats, StatsType
  <1>3. 1 \in 1 .. NumClauses + 1
    BY <1>1
  <1>4. <<>> \in Seq(ItemType) /\ <<>> \in Seq(StepType)
    OBVIOUS
  <1> QED
    BY <1>1, <1>2, <1>3, <1>4 DEF Idle, WorkerType, PCs, Placed

\* What resolve() finds above the prover's threshold.
LEMMA OutcomeType ==
    ASSUME NEW p \in Problems, NEW g \in Disjunctions, NEW c \in Clauses,
           NEW l \in 1 .. Len(p[g][c])
    PROVE  /\ p[g][c] \in Seq([resolvent : Disjunctions \cup {Empty}, sim : Int])
           /\ p[g][c][l] \in [resolvent : Disjunctions \cup {Empty}, sim : Int]
           /\ p[g][c][l].sim > InitialThreshold => p[g][c][l].sim \in Sims
  <1> DEFINE R == [resolvent : Disjunctions \cup {Empty}, sim : Int]
             o == p[g][c]
  <1>1. p \in ResolutionsType(Int)
    BY SearchAssumption
  <1>2. o \in Seq(R)
    BY <1>1 DEF ResolutionsType
  <1>3. l \in DOMAIN o
    BY <1>2
  <1>4. o[l] \in R
    <2> HIDE DEF R, o
    <2>1. l \in 1 .. Len(o)
      BY DEF o
    <2> QED
      BY <1>2, <2>1
  <1>5. o[l].sim \in SimsIn(o)
    BY <1>3 DEF SimsIn
  <1>6. SimsIn(o) \in { SimsIn(q[d][k]) :
                          q \in Problems, d \in Disjunctions, k \in Clauses }
    OBVIOUS
  <1>7. o[l].sim > InitialThreshold => o[l].sim \in Sims
    BY <1>5, <1>6 DEF Sims
  <1> QED
    BY <1>2, <1>4, <1>7

\* They are numbers above it.
LEMMA SimsAboveThreshold ==
    /\ \A s \in Sims : s \in Int /\ s > InitialThreshold
    /\ InitialThreshold \in Int
  <1>1. ASSUME NEW s \in Sims PROVE s \in Int /\ s > InitialThreshold
    <2>1. PICK p \in Problems, g \in Disjunctions, c \in Clauses :
             s \in SimsIn(p[g][c])
      BY DEF Sims
    <2>2. PICK l \in DOMAIN p[g][c] : s = p[g][c][l].sim
      BY <2>1 DEF SimsIn
    <2>3. p[g][c] \in Seq([resolvent : Disjunctions \cup {Empty}, sim : Int])
      <3>1. p \in ResolutionsType(Int)
        BY SearchAssumption
      <3> QED
        BY <3>1 DEF ResolutionsType
    <2>4. l \in 1 .. Len(p[g][c])
      BY <2>3
    <2>5. s \in Int
      BY <2>2, <2>4, OutcomeType
    <2> QED
      BY <2>5 DEF Sims
  <1> QED
    BY <1>1, SearchAssumption

\* Step records that resolve() makes of what it finds.
LEMMA StepOfType ==
    ASSUME NEW item \in ItemType, NEW c \in Clauses, NEW l \in Nat \ {0},
           NEW r \in [resolvent : Disjunctions \cup {Empty}, sim : Sims],
           ~ TooDeep(item)
    PROVE  StepOf(item, c, l, r) \in StepType
  <1> DEFINE edge == [source |-> item.goal, clause |-> c, literal |-> l]
             E == [source : Disjunctions, clause : Clauses, literal : Nat \ {0}]
  <1>1. edge \in E
    BY DEF ItemType
  <1>2. item.parent = NoParent \/ item.parent \in StepType
    BY DEF ItemType
  <1>3. item.parent.path \in Seq(E)
    <2>1. CASE item.parent = NoParent
      <3>1. item.parent.path = <<>>
        BY <2>1 DEF NoParent
      <3> QED
        BY <3>1
    <2>2. CASE item.parent \in StepType
      BY <2>2 DEF StepType
    <2> QED
      BY <1>2, <2>1, <2>2
  <1>4. Append(item.parent.path, edge) \in Seq(E)
    BY <1>1, <1>3
  <1>5. RunningSimilarity(item, r) \in Sims
    BY <1>2 DEF RunningSimilarity, IsRoot, StepType
  <1>6. (IF IsRoot(item) THEN 0 ELSE item.parent.depth + 1) \in Depths
    <2>1. MaxProofDepth \in Nat
      BY SearchAssumption
    <2>2. CASE IsRoot(item)
      BY <2>1, <2>2 DEF Depths
    <2>3. CASE ~ IsRoot(item)
      <3>1. item.parent.depth \in 0 .. MaxProofDepth
        BY <1>2, <2>3 DEF IsRoot, StepType, Depths
      <3>2. ~ (item.parent.depth >= MaxProofDepth)
        BY <2>3 DEF TooDeep, Depth
      <3> QED
        BY <2>1, <2>3, <3>1, <3>2 DEF Depths
    <2> QED
      BY <2>2, <2>3
  <1> QED
    BY <1>4, <1>5, <1>6 DEF StepOf, StepType

\* A step that is not the end of a proof becomes a work item.
LEMMA ItemOfType ==
    ASSUME NEW s \in StepType, s.resolvent # Empty
    PROVE  ItemOf(s) \in ItemType /\ Width[s.resolvent] \in Nat
  <1>1. s.resolvent \in Disjunctions
    BY DEF StepType
  <1> QED
    BY <1>1, SearchAssumption DEF ItemOf, ItemType

\* The state the search starts in.
LEMMA TypeInit == Init => Typed
  <1> SUFFICES ASSUME Init PROVE Typed
    OBVIOUS
  <1>1. FirstBatch \in Seq(ItemType)
    <2>1. Goals \in Seq(Disjunctions)
      BY SearchAssumption
    <2>2. \A i \in 1 .. Len(Goals) :
            [goal |-> Goals[i], parent |-> NoParent] \in ItemType
      BY <2>1 DEF ItemType
    <2>3. DOMAIN Goals = 1 .. Len(Goals) /\ Len(Goals) \in Nat
      BY <2>1
    <2> QED
      BY <2>2, <2>3 DEF FirstBatch
  <1>2. worker \in [Workers -> WorkerType] /\ \A w \in Workers : Placed(worker[w])
    BY IdleType DEF Init
  <1>3. NoStats \in StatsType
    BY DEF NoStats, StatsType
  <1> QED
    BY <1>1, <1>2, <1>3, SearchAssumption DEF Init, Typed, TypeOK
-----------------------------------------------------------------------------
\* Every step keeps the types.
LEMMA TypeStep == Typed /\ [Next]_vars => Typed'
  <1> SUFFICES ASSUME Typed, [Next]_vars PROVE Typed'
    OBVIOUS
  <1>a. /\ resolutions \in Problems /\ jobs \subseteq Seq(ItemType)
        /\ worker \in [Workers -> WorkerType]
        /\ leaves \in Seq(StepType)
        /\ threshold \in Sims \cup {InitialThreshold}
        /\ seen \in [Disjunctions -> {Unseen} \cup [depth : Depths, sim : Sims]]
        /\ stats \in StatsType /\ expanded \subseteq ItemType
        /\ \A w \in Workers : Placed(worker[w])
    BY DEF Typed, TypeOK
  <1>n. NumClauses \in Nat /\ Clauses = 1 .. NumClauses
    BY SearchAssumption DEF Clauses
  \* A step of one thread.
  <1>w. ASSUME NEW w \in Workers, NEW me \in WorkerType, Placed(me),
               worker' = [worker EXCEPT ![w] = me],
               resolutions' = resolutions, jobs' \subseteq Seq(ItemType),
               leaves' \in Seq(StepType),
               threshold' \in Sims \cup {InitialThreshold},
               seen' \in [Disjunctions ->
                             {Unseen} \cup [depth : Depths, sim : Sims]],
               stats' \in StatsType, expanded' \subseteq ItemType
        PROVE  Typed'
    <2>1. worker' \in [Workers -> WorkerType] /\ \A v \in Workers : Placed(worker'[v])
      BY <1>a, <1>w
    <2> QED
      BY <1>a, <1>w, <2>1 DEF Typed, TypeOK, Placed
  <1>1. ASSUME NEW w \in Workers, StartJob(w) PROVE Typed'
    <2>1. PICK b \in jobs : /\ jobs' = jobs \ {b}
                            /\ worker' = [worker EXCEPT ![w] =
                                   [Idle EXCEPT !.pc = "goals", !.batch = b]]
      BY <1>1 DEF StartJob
    <2>2. b \in Seq(ItemType)
      BY <1>a
    <2>3. [Idle EXCEPT !.pc = "goals", !.batch = b] \in WorkerType
      BY <2>2, IdleType DEF WorkerType, PCs
    <2>4. Placed([Idle EXCEPT !.pc = "goals", !.batch = b])
      BY IdleType DEF Placed, WorkerType
    <2>5. jobs' \subseteq Seq(ItemType)
      BY <1>a, <2>1
    <2>6. UNCHANGED <<resolutions, leaves, threshold, seen, stats, expanded>>
      BY <1>1 DEF StartJob, shared
    <2> DEFINE me == [Idle EXCEPT !.pc = "goals", !.batch = b]
    <2> HIDE DEF me
    <2>7. me \in WorkerType /\ Placed(me) /\ worker' = [worker EXCEPT ![w] = me]
      BY <2>1, <2>3, <2>4 DEF me
    <2> QED
      BY <1>a, <1>w, <2>5, <2>6, <2>7
  \* The record of a thread, and its fields.
  <1>f. ASSUME NEW w \in Workers
        PROVE  /\ worker[w] \in WorkerType /\ Placed(worker[w])
               /\ worker[w].batch \in Seq(ItemType)
               /\ worker[w].acc \in Seq(ItemType)
               /\ worker[w].clause \in 1 .. NumClauses + 1
               /\ worker[w].literal \in Nat \ {0}
               /\ worker[w].found \in Seq(StepType)
               /\ worker[w].successes \in Nat
               /\ worker[w].stats \in StatsType
    BY <1>a DEF WorkerType
  <1>h. ASSUME NEW w \in Workers, worker[w].batch # <<>>
        PROVE  /\ Head(worker[w].batch) \in ItemType
               /\ Tail(worker[w].batch) \in Seq(ItemType)
               /\ Refused(w) \in WorkerType /\ Placed(Refused(w))
               /\ ~ TooDeep(Head(worker[w].batch)) =>
                     Expanding(w) \in WorkerType /\ Placed(Expanding(w))
    <2>1. /\ Head(worker[w].batch) \in ItemType
          /\ Tail(worker[w].batch) \in Seq(ItemType)
      BY <1>f, <1>h
    <2>2. Refused(w) \in WorkerType /\ Placed(Refused(w))
      BY <1>f, <2>1 DEF Refused, WorkerType, PCs, Placed
    <2>3. Depth(Head(worker[w].batch)) \in Nat
      <3>1. MaxProofDepth \in Nat
        BY SearchAssumption
      <3> QED
        BY <2>1, <3>1 DEF Depth, IsRoot, ItemType, StepType, Depths
    <2>4. MaxOf(worker[w].stats.depth, Depth(Head(worker[w].batch)) + 1) \in Nat
      BY <1>f, <2>3 DEF MaxOf, StatsType
    <2>5. [worker[w].stats EXCEPT
             !.depth = MaxOf(@, Depth(Head(worker[w].batch)) + 1)] \in StatsType
      BY <1>f, <2>4 DEF StatsType
    <2>6. 1 \in 1 .. NumClauses + 1
      BY <1>n
    <2>7. ASSUME ~ TooDeep(Head(worker[w].batch))
          PROVE  Expanding(w) \in WorkerType /\ Placed(Expanding(w))
      <3> DEFINE item == Head(worker[w].batch)
                 rest == Tail(worker[w].batch)
                 st == [worker[w].stats EXCEPT !.depth = MaxOf(@, Depth(item) + 1)]
                 first == 1
                 me == [worker[w] EXCEPT
                          !.pc = "clauses", !.batch = rest, !.item = item,
                          !.clause = first, !.successes = 0, !.stats = st]
      <3>1. Expanding(w) = me
        BY <1>f DEF Expanding, WorkerType
      <3>2. /\ item \in ItemType /\ rest \in Seq(ItemType)
            /\ st \in StatsType /\ first \in 1 .. NumClauses + 1
            /\ ~ TooDeep(item)
        BY <2>1, <2>5, <2>6, <2>7
      <3> HIDE DEF item, rest, st, first
      <3>3. me \in WorkerType
        BY <1>f, <3>2 DEF WorkerType, PCs
      <3>4. Placed(me)
        BY <1>f, <3>2 DEF WorkerType, Placed
      <3> QED
        BY <3>1, <3>3, <3>4
    <2> QED
      BY <2>1, <2>2, <2>7
  <1>2. ASSUME NEW w \in Workers, RefuseGoal(w) PROVE Typed'
    <2>1. worker[w].batch # <<>> /\ worker' = [worker EXCEPT ![w] = Refused(w)]
      BY <1>2 DEF RefuseGoal, HasGoal
    <2> QED
      BY <1>2, <1>a, <1>h, <1>w, <2>1 DEF RefuseGoal, shared
  <1>3. ASSUME NEW w \in Workers, AdmitGoal(w) PROVE Typed'
    <2>1. /\ worker[w].batch # <<>> /\ ~ TooDeep(Head(worker[w].batch))
          /\ UNCHANGED <<resolutions, jobs, leaves, threshold, seen, stats>>
      BY <1>3 DEF AdmitGoal, HasGoal, shared
    <2>2. CASE MaxProofs # NoLimit /\ ~ FindHighest
      <3>1. /\ worker' = [worker EXCEPT ![w] = [@ EXCEPT !.pc = "quota"]]
            /\ UNCHANGED expanded
        BY <1>3, <2>2 DEF AdmitGoal
      <3>2. /\ [worker[w] EXCEPT !.pc = "quota"] \in WorkerType
            /\ Placed([worker[w] EXCEPT !.pc = "quota"])
        BY <1>f, <2>1 DEF WorkerType, PCs, Placed
      <3> QED
        BY <1>a, <1>w, <2>1, <3>1, <3>2
    <2>3. CASE ~ (MaxProofs # NoLimit /\ ~ FindHighest)
      <3>1. /\ worker' = [worker EXCEPT ![w] = Expanding(w)]
            /\ expanded' = expanded \cup {Head(worker[w].batch)}
        BY <1>3, <2>3 DEF AdmitGoal
      <3> QED
        BY <1>a, <1>h, <1>w, <2>1, <3>1
    <2> QED
      BY <2>2, <2>3
  <1>4. ASSUME NEW w \in Workers, CheckQuota(w) PROVE Typed'
    <2>1. /\ worker[w].batch # <<>> /\ ~ TooDeep(Head(worker[w].batch))
          /\ UNCHANGED <<resolutions, jobs, leaves, threshold, seen, stats>>
      BY <1>4, <1>f DEF CheckQuota, At, Placed, shared
    <2>2. \/ worker' = [worker EXCEPT ![w] = Refused(w)] /\ UNCHANGED expanded
          \/ /\ worker' = [worker EXCEPT ![w] = Expanding(w)]
             /\ expanded' = expanded \cup {Head(worker[w].batch)}
      BY <1>4 DEF CheckQuota
    <2> QED
      BY <1>a, <1>h, <1>w, <2>1, <2>2
  \* A step of a thread that only changes its own record.
  <1>o. ASSUME NEW w \in Workers, NEW me \in WorkerType, Placed(me),
               worker' = [worker EXCEPT ![w] = me],
               UNCHANGED <<resolutions, jobs, shared, expanded>>
        PROVE  Typed'
    BY <1>a, <1>o, <1>w DEF shared
  <1>5. ASSUME NEW w \in Workers, SkipWideClause(w) PROVE Typed'
    <2> DEFINE me == [worker[w] EXCEPT !.clause = @ + 1]
    <2>1. /\ worker[w].pc = "clauses" /\ worker[w].clause <= NumClauses
          /\ worker' = [worker EXCEPT ![w] = me]
          /\ UNCHANGED <<resolutions, jobs, shared, expanded>>
      BY <1>5 DEF SkipWideClause, InClauses, At
    <2>2. worker[w].clause + 1 \in 1 .. NumClauses + 1
      BY <1>f, <1>n, <2>1
    <2>3. me \in WorkerType /\ Placed(me)
      BY <1>f, <2>1, <2>2 DEF WorkerType, Placed
    <2> QED
      BY <1>o, <2>1, <2>3
  <1>6. ASSUME NEW w \in Workers, BeginResolve(w) PROVE Typed'
    <2> DEFINE none == <<>>
               first == 1
               me == [worker[w] EXCEPT !.pc = "resolve", !.literal = first,
                                       !.found = none]
    <2>1. /\ worker[w].pc = "clauses" /\ worker[w].clause <= NumClauses
          /\ worker' = [worker EXCEPT ![w] = me]
          /\ UNCHANGED <<resolutions, jobs, shared, expanded>>
      BY <1>6, <1>a DEF BeginResolve, InClauses, At
    <2>2. worker[w].clause \in Clauses
      BY <1>f, <1>n, <2>1
    <2>3. none \in Seq(StepType) /\ first \in Nat \ {0}
      OBVIOUS
    <2> HIDE DEF none, first
    <2>4. me \in WorkerType
      BY <1>f, <2>3 DEF WorkerType, PCs
    <2>5. Placed(me)
      BY <1>f, <2>1, <2>2 DEF WorkerType, Placed
    <2> HIDE DEF me
    <2> QED
      BY <1>o, <2>1, <2>4, <2>5
  <1>7. ASSUME NEW w \in Workers, UnifyLiteral(w) PROVE Typed'
    <2> DEFINE r == Outcomes(w)[worker[w].literal]
               s == StepOf(worker[w].item, worker[w].clause, worker[w].literal, r)
               next == worker[w].literal + 1
               more == IF r.sim <= threshold THEN worker[w].found
                       ELSE Append(worker[w].found, s)
               me == [worker[w] EXCEPT !.literal = next, !.found = more]
    <2>1. /\ worker[w].pc = "resolve" /\ worker[w].literal <= Len(Outcomes(w))
          /\ worker' = [worker EXCEPT ![w] = me]
          /\ UNCHANGED <<resolutions, jobs, shared, expanded>>
      BY <1>7, <1>a DEF UnifyLiteral, At
    <2>2. /\ worker[w].item \in ItemType /\ ~ TooDeep(worker[w].item)
          /\ worker[w].clause \in Clauses
      BY <1>f, <2>1 DEF Placed
    <2>3. worker[w].item.goal \in Disjunctions
      BY <2>2 DEF ItemType
    <2>4. /\ r \in [resolvent : Disjunctions \cup {Empty}, sim : Int]
          /\ r.sim > InitialThreshold => r.sim \in Sims
      <3>1. resolutions[worker[w].item.goal][worker[w].clause] \in
              Seq([resolvent : Disjunctions \cup {Empty}, sim : Int])
        <4>1. resolutions \in ResolutionsType(Int)
          BY <1>a, SearchAssumption
        <4> QED
          BY <2>2, <2>3, <4>1 DEF ResolutionsType
      <3>2. worker[w].literal \in
              1 .. Len(resolutions[worker[w].item.goal][worker[w].clause])
        BY <1>f, <2>1, <3>1 DEF Outcomes
      <3> QED
        BY <1>a, <2>2, <2>3, <3>2, OutcomeType DEF Outcomes
    <2>5. ASSUME ~ (r.sim <= threshold) PROVE s \in StepType
      <3>1. r.sim > InitialThreshold
        BY <1>a, <2>4, <2>5, SimsAboveThreshold
      <3>2. r \in [resolvent : Disjunctions \cup {Empty}, sim : Sims]
        BY <2>4, <3>1
      <3> QED
        BY <1>f, <2>2, <3>2, StepOfType
    <2> HIDE DEF s, r
    <2>6. more \in Seq(StepType) /\ next \in Nat \ {0}
      BY <1>f, <2>5
    <2> HIDE DEF more, next
    <2>7. me \in WorkerType /\ Placed(me)
      BY <1>f, <2>1, <2>6 DEF WorkerType, Placed
    <2> HIDE DEF me
    <2> QED
      BY <1>o, <2>1, <2>7
  <1>8. ASSUME NEW w \in Workers, LoadThreshold(w) PROVE Typed'
    <2> DEFINE n == IF worker[w].found # <<>> THEN worker[w].successes + 1
                    ELSE worker[w].successes
               me == [worker[w] EXCEPT !.pc = "steps", !.successes = n,
                                       !.bar = threshold]
    <2>1. /\ worker[w].pc = "resolve"
          /\ worker' = [worker EXCEPT ![w] = me]
          /\ UNCHANGED <<resolutions, jobs, shared, expanded>>
      BY <1>8, <1>a DEF LoadThreshold, At
    <2>2. n \in Nat
      BY <1>f
    <2> HIDE DEF n
    <2>3. me \in WorkerType /\ Placed(me)
      <3>1. threshold \in Int
        BY <1>a, SimsAboveThreshold
      <3> QED
        BY <1>f, <2>1, <2>2, <3>1 DEF WorkerType, PCs, Placed
    <2> HIDE DEF me
    <2> QED
      BY <1>o, <2>1, <2>3
  \* The record of a thread that adds a step to its accumulator.
  <1>p. ASSUME NEW w \in Workers, worker[w].pc \in {"steps", "insert"},
               Head(worker[w].found) \in StepType,
               Tail(worker[w].found) \in Seq(StepType),
               Head(worker[w].found).resolvent # Empty
        PROVE  Pushed(w) \in WorkerType /\ Placed(Pushed(w))
    <2> DEFINE s == Head(worker[w].found)
               rest == Tail(worker[w].found)
               more == Append(worker[w].acc, ItemOf(s))
               st == [worker[w].stats EXCEPT !.width = MaxOf(@, Width[s.resolvent])]
               me == [worker[w] EXCEPT !.pc = "steps", !.found = rest,
                                       !.acc = more, !.stats = st]
    <2>1. ItemOf(s) \in ItemType /\ Width[s.resolvent] \in Nat
      BY <1>p, ItemOfType
    <2>2. more \in Seq(ItemType)
      BY <1>f, <2>1
    <2>3. st \in StatsType
      <3>1. MaxOf(worker[w].stats.width, Width[s.resolvent]) \in Nat
        BY <1>f, <2>1 DEF MaxOf, StatsType
      <3> QED
        BY <1>f, <3>1 DEF StatsType
    <2>4. Pushed(w) = me
      BY <1>f DEF Pushed, Dropped, WorkerType
    <2> HIDE DEF more, st, rest
    <2>5. rest \in Seq(StepType)
      BY <1>p DEF rest
    <2>6. me \in WorkerType
      BY <1>f, <2>2, <2>3, <2>5 DEF WorkerType, PCs
    <2>7. Placed(me)
      BY <1>f, <1>p DEF WorkerType, Placed
    <2> QED
      BY <2>4, <2>6, <2>7
  \* The steps found, one after the other.
  <1>d. ASSUME NEW w \in Workers, HasStep(w)
        PROVE  /\ Head(worker[w].found) \in StepType
               /\ Dropped(w) \in WorkerType /\ Placed(Dropped(w))
               /\ Head(worker[w].found).resolvent # Empty =>
                     Pushed(w) \in WorkerType /\ Placed(Pushed(w))
    <2> DEFINE s == Head(worker[w].found)
    <2>1. /\ worker[w].pc = "steps"
          /\ s \in StepType /\ Tail(worker[w].found) \in Seq(StepType)
      BY <1>d, <1>f DEF HasStep, At
    <2> HIDE DEF s
    <2>2. Dropped(w) \in WorkerType /\ Placed(Dropped(w))
      BY <1>f, <2>1 DEF Dropped, WorkerType, PCs, Placed
    <2>3. ASSUME s.resolvent # Empty
          PROVE  Pushed(w) \in WorkerType /\ Placed(Pushed(w))
      BY <1>f, <1>p, <2>1, <2>2, <2>3 DEF s
    <2> QED
      BY <2>1, <2>2, <2>3 DEF s
  <1>9. ASSUME NEW w \in Workers, RecordLeafProof(w) PROVE Typed'
    <2> DEFINE s == Head(worker[w].found)
    <2>1. /\ HasStep(w) /\ worker' = [worker EXCEPT ![w] = Dropped(w)]
          /\ UNCHANGED <<resolutions, jobs, seen, expanded>>
          /\ threshold' = IF Full THEN Last(leaves').sim ELSE threshold
          /\ stats' = IF Full THEN [stats EXCEPT !.discarded = @ + 1] ELSE stats
      BY <1>9 DEF RecordLeafProof
    <2>2. s \in StepType
      BY <1>d, <2>1
    <2>3. PICK p \in 1 .. Len(leaves) + 1 :
            leaves' = IF Full THEN Front(InsertAt(leaves, p, s))
                      ELSE InsertAt(leaves, p, s)
      BY <1>9 DEF RecordLeafProof
    <2>4. /\ InsertAt(leaves, p, s) \in Seq(StepType)
          /\ Len(InsertAt(leaves, p, s)) = Len(leaves) + 1
      BY <1>a, <2>2, InsertAtElements
    <2> DEFINE sorted == InsertAt(leaves, p, s)
    <2> HIDE DEF s, sorted
    <2>5. /\ leaves' \in Seq(StepType)
          /\ threshold' \in Sims \cup {InitialThreshold}
      <3>1. CASE Full
        <4>1. Len(leaves) \in Nat /\ Len(leaves) >= 1
          BY <1>a, <3>1, SearchAssumption DEF Full, AtLimit, Limits
        <4>2. leaves' = SubSeq(sorted, 1, Len(sorted) - 1)
          BY <2>3, <3>1 DEF Front, sorted
        <4>3. leaves' \in Seq(StepType) /\ Len(leaves') = Len(leaves)
          BY <2>4, <4>1, <4>2 DEF sorted
        <4>4. leaves'[Len(leaves')] \in StepType
          BY <4>1, <4>3
        <4>5. Last(leaves').sim \in Sims
          BY <4>4 DEF Last, StepType
        <4> QED
          BY <2>1, <3>1, <4>3, <4>5
      <3>2. CASE ~ Full
        BY <1>a, <2>1, <2>3, <2>4, <3>2
      <3> QED
        BY <3>1, <3>2
    <2>6. stats' \in StatsType
      BY <1>a, <2>1 DEF StatsType
    <2> QED
      BY <1>a, <1>d, <1>w, <2>1, <2>5, <2>6
  <1>10. ASSUME NEW w \in Workers, DropStep(w) PROVE Typed'
    <2>1. /\ HasStep(w) /\ worker' = [worker EXCEPT ![w] = Dropped(w)]
          /\ UNCHANGED <<resolutions, jobs, shared, expanded>>
      BY <1>10 DEF DropStep
    <2> QED
      BY <1>d, <1>o, <2>1
  <1>11. ASSUME NEW w \in Workers, CheckResolvent(w) PROVE Typed'
    <2> DEFINE wait == [worker[w] EXCEPT !.pc = "insert"]
    <2>1. /\ HasStep(w) /\ Head(worker[w].found).resolvent # Empty
          /\ \/ worker' = [worker EXCEPT ![w] = Pushed(w)]
             \/ worker' = [worker EXCEPT ![w] = Dropped(w)]
             \/ worker' = [worker EXCEPT ![w] = wait]
          /\ UNCHANGED <<resolutions, jobs, shared, expanded>>
      BY <1>11 DEF CheckResolvent
    <2>2. wait \in WorkerType /\ Placed(wait)
      BY <1>f, <2>1 DEF HasStep, At, WorkerType, PCs, Placed
    <2> HIDE DEF wait
    <2> QED
      BY <1>d, <1>o, <2>1, <2>2
  <1>12. ASSUME NEW w \in Workers, InsertSeen(w) PROVE Typed'
    <2> DEFINE s == Head(worker[w].found)
    <2>1. /\ worker[w].pc = "insert" /\ worker' = [worker EXCEPT ![w] = Pushed(w)]
          /\ seen' = [seen EXCEPT ![s.resolvent] =
                         [depth |-> s.depth, sim |-> s.sim]]
          /\ UNCHANGED <<resolutions, jobs, leaves, threshold, stats, expanded>>
      BY <1>12 DEF InsertSeen, At
    <2>2. worker[w].found # <<>> /\ s.resolvent # Empty
      BY <1>f, <2>1 DEF Placed
    <2>3. s \in StepType /\ Tail(worker[w].found) \in Seq(StepType)
      BY <1>f, <2>2
    <2>4. Pushed(w) \in WorkerType /\ Placed(Pushed(w))
      BY <1>p, <2>1, <2>2, <2>3
    <2> HIDE DEF s
    <2>5. [depth |-> s.depth, sim |-> s.sim] \in [depth : Depths, sim : Sims]
      BY <2>3 DEF StepType
    <2>6. seen' \in [Disjunctions -> {Unseen} \cup [depth : Depths, sim : Sims]]
      BY <1>a, <2>1, <2>5
    <2> QED
      BY <1>a, <1>w, <2>1, <2>4, <2>6
  <1>13. ASSUME NEW w \in Workers, NextClause(w) PROVE Typed'
    <2> DEFINE me == [worker[w] EXCEPT !.pc = "clauses", !.clause = @ + 1]
    <2>1. /\ worker[w].pc = "steps" /\ worker' = [worker EXCEPT ![w] = me]
          /\ UNCHANGED <<resolutions, jobs, shared, expanded>>
      BY <1>13, <1>a DEF NextClause, At
    <2>2. worker[w].clause + 1 \in 1 .. NumClauses + 1
      BY <1>f, <1>n, <2>1 DEF Placed
    <2>3. me \in WorkerType /\ Placed(me)
      BY <1>f, <2>1, <2>2 DEF WorkerType, PCs, Placed
    <2> HIDE DEF me
    <2> QED
      BY <1>o, <2>1, <2>3
  <1>14. ASSUME NEW w \in Workers, EndGoal(w) PROVE Typed'
    <2> DEFINE attempted == worker[w].stats.attempted + NumClauses
               successful == worker[w].stats.successful + worker[w].successes
               st == [worker[w].stats EXCEPT !.attempted = attempted,
                                             !.successful = successful]
               me == [worker[w] EXCEPT !.pc = "return", !.item = NoItem,
                                       !.stats = st]
    <2> DEFINE full == [worker[w] EXCEPT !.pc = "return", !.item = NoItem,
                          !.stats.attempted = @ + NumClauses,
                          !.stats.successful = @ + worker[w].successes]
    <2>0. full = me
      BY <1>f DEF WorkerType, StatsType
    <2>1. /\ worker' = [worker EXCEPT ![w] = me]
          /\ UNCHANGED <<resolutions, jobs, shared, expanded>>
      <3>1. /\ worker' = [worker EXCEPT ![w] = full]
            /\ UNCHANGED <<resolutions, jobs, shared, expanded>>
        <4>1. w \in DOMAIN worker
          BY <1>a
        <4> QED
          BY <1>14, <4>1 DEF EndGoal, full
      <3> HIDE DEF full, me
      <3> QED
        BY <2>0, <3>1
    <2>2. attempted \in Nat /\ successful \in Nat
      <3>1. worker[w].stats.attempted \in Nat /\ worker[w].stats.successful \in Nat
        BY <1>f DEF StatsType
      <3>2. worker[w].successes \in Nat /\ NumClauses \in Nat
        BY <1>f, <1>n
      <3> QED
        BY ONLY <3>1, <3>2
    <2> HIDE DEF attempted, successful
    <2>4. st \in StatsType
      BY <1>f, <2>2 DEF StatsType
    <2> HIDE DEF st
    <2>3. me \in WorkerType /\ Placed(me)
      BY <1>f, <2>4 DEF WorkerType, PCs, Placed
    <2> HIDE DEF me
    <2> QED
      BY <1>o, <2>1, <2>3
  <1>15. ASSUME NEW w \in Workers, SpawnBatch(w) PROVE Typed'
    <2> DEFINE acc == worker[w].acc
               left == Drained(acc)
               on == [worker[w] EXCEPT !.pc = "goals"]
               cut == [worker[w] EXCEPT !.pc = "goals", !.acc = left]
    <2>1. UNCHANGED <<resolutions, leaves, threshold, seen, stats, expanded>>
      BY <1>15 DEF SpawnBatch, shared
    <2>2. acc \in Seq(ItemType) /\ EvalBatchSize \in Nat
      BY <1>f, SearchAssumption
    <2>3. CASE Len(acc) >= EvalBatchSize
      <3>1. /\ jobs' = jobs \cup {SubSeq(acc, 1, EvalBatchSize)}
            /\ worker' = [worker EXCEPT ![w] = cut]
        BY <1>15, <1>f, <2>3 DEF SpawnBatch, WorkerType
      <3>2. SubSeq(acc, 1, EvalBatchSize) \in Seq(ItemType)
        BY <2>2, <2>3
      <3>3. left \in Seq(ItemType)
        BY <2>2, <2>3 DEF Drained
      <3> HIDE DEF left
      <3>4. cut \in WorkerType /\ Placed(cut)
        BY <1>f, <3>3 DEF WorkerType, PCs, Placed
      <3>5. jobs' \subseteq Seq(ItemType)
        BY <1>a, <3>1, <3>2
      <3> HIDE DEF cut
      <3> QED
        BY <1>a, <1>w, <2>1, <3>1, <3>4, <3>5
    <2>4. CASE ~ (Len(acc) >= EvalBatchSize)
      <3>1. UNCHANGED jobs /\ worker' = [worker EXCEPT ![w] = on]
        BY <1>15, <2>4 DEF SpawnBatch
      <3>2. on \in WorkerType /\ Placed(on)
        BY <1>f DEF WorkerType, PCs, Placed
      <3> HIDE DEF on
      <3> QED
        BY <1>a, <1>w, <2>1, <3>1, <3>2
    <2> QED
      BY <2>3, <2>4
  <1>16. ASSUME NEW w \in Workers, EndBatch(w) PROVE Typed'
    <2>1. /\ stats' = Synced(worker[w].stats)
          /\ worker' = [worker EXCEPT ![w] = NextBatch(w)]
          /\ UNCHANGED <<resolutions, jobs, leaves, threshold, seen, expanded>>
      BY <1>16 DEF EndBatch
    <2>2. stats' \in StatsType
      <3> DEFINE st == worker[w].stats
                 attempted == stats.attempted + st.attempted
                 successful == stats.successful + st.successful
                 width == MaxOf(stats.width, st.width)
                 depth == MaxOf(stats.depth, st.depth)
                 new == [stats EXCEPT !.attempted = attempted,
                            !.successful = successful, !.width = width,
                            !.depth = depth]
      <3>1. /\ attempted \in Nat /\ successful \in Nat
            /\ width \in Nat /\ depth \in Nat
        <4>1. /\ stats.attempted \in Nat /\ stats.successful \in Nat
              /\ stats.width \in Nat /\ stats.depth \in Nat
          BY <1>a DEF StatsType
        <4>2. /\ st.attempted \in Nat /\ st.successful \in Nat
              /\ st.width \in Nat /\ st.depth \in Nat
          BY <1>f DEF StatsType
        <4> HIDE DEF st
        <4> QED
          BY ONLY <4>1, <4>2 DEF MaxOf
      <3>2. stats' = new
        BY <1>a, <2>1 DEF Synced, StatsType
      <3> HIDE DEF attempted, successful, width, depth
      <3>3. new \in StatsType
        BY <1>a, <3>1 DEF StatsType
      <3> QED
        BY <3>2, <3>3
    <2>3. NextBatch(w) \in WorkerType /\ Placed(NextBatch(w))
      BY <1>f, IdleType DEF NextBatch, WorkerType, PCs, Placed
    <2> QED
      BY <1>a, <1>w, <2>1, <2>2, <2>3
  <1>17. CASE Collect \/ Done \/ UNCHANGED vars
    <2>1. UNCHANGED <<resolutions, jobs, worker, leaves, threshold, seen, stats,
                      expanded>>
      BY <1>17 DEF Collect, Done, vars, shared
    <2> QED
      BY <1>a, <2>1 DEF Typed, TypeOK, Placed
  <1> QED
    BY <1>1, <1>2, <1>3, <1>4, <1>5, <1>6, <1>7, <1>8, <1>9, <1>10, <1>11,
       <1>12, <1>13, <1>14, <1>15, <1>16, <1>17
    DEF Next, WorkerStep

\* Type correctness, for every instance: in particular no step of a proof is at
\* or below the prover's threshold or deeper than max_proof_depth.
THEOREM TypeCorrect == Spec => []TypeOK
  <1>1. Spec => []Typed
    BY TypeInit, TypeStep, PTL DEF Spec
  <1> QED
    BY <1>1, PTL DEF Typed
-----------------------------------------------------------------------------
(***************************************************************************)
(* The inductive invariant, in parts.                                      *)
(***************************************************************************)

\* The thread has a work item in hand, or is in the middle of a resolve().
Busy(me) == me.pc \in {"clauses", "resolve", "steps", "insert"}
Trying(me) == me.pc \in {"resolve", "steps", "insert"}

\* Steps exist while the clause they came from is tried; a thread without a job
\* has nothing.
Shape(me) ==
    /\ me.pc = "idle" => me = Idle
    /\ ~ Trying(me) => me.found = <<>>
    /\ Trying(me) => ~ TooWide(me.item.goal, me.clause)
    /\ Busy(me) => me.item \in expanded
    /\ me.pc = "quota" => ~ FindHighest /\ MaxProofs # NoLimit
    /\ me.pc = "insert" => SkipSeen /\ GoesOn(me.item)

Shaped == \A w \in Workers : Shape(worker[w])

\* The steps found are those of the item and the clause in hand.
MadeOf(s, me) ==
    \E l \in DOMAIN resolutions[me.item.goal][me.clause] :
        s = StepOf(me.item, me.clause, l, resolutions[me.item.goal][me.clause][l])

Traced ==
    \A w \in Workers : \A i \in DOMAIN worker[w].found : MadeOf(worker[w].found[i], worker[w])

IsLeast(x, S) == S \subseteq Int /\ x \in S /\ \A y \in S : x <= y

\* The step ends a derivation, and its similarity is the least on the way.
Derived(s) ==
    /\ s.depth + 1 \in 1 .. LongestProof
    /\ \E d \in Derivations[s.depth + 1] :
          d.end = s.resolvent /\ d.path = s.path /\ IsLeast(s.sim, d.sims)

DerivedSteps == { s \in StepType : Derived(s) }
DerivedProofs == { s \in DerivedSteps : s.resolvent = Empty }

\* A work item is an inverted goal, or the end of a derivation that may go on.
DerivedItems ==
    { item \in ItemType :
        IF IsRoot(item) THEN item.goal \in ToSet(Goals)
        ELSE /\ MaxProofDepth > 1 /\ item.parent.depth < MaxProofDepth
             /\ item.parent \in DerivedSteps
             /\ item.goal = item.parent.resolvent }

AllDerived ==
    /\ jobs \subseteq Seq(DerivedItems)
    /\ \A w \in Workers :
          /\ worker[w].batch \in Seq(DerivedItems)
          /\ worker[w].acc \in Seq(DerivedItems)
          /\ worker[w].found \in Seq(DerivedSteps)
    /\ leaves \in Seq(DerivedProofs)
    /\ expanded \subseteq DerivedItems

\* What tells work items apart: the goal and the way to it.
KeyOf(item) == <<item.goal, item.parent.path>>
KeysOf(q) == { KeyOf(q[i]) : i \in DOMAIN q }
Distinct(q) == \A i, j \in DOMAIN q : KeyOf(q[i]) = KeyOf(q[j]) => i = j
Apart(S, T) == S \cap T = {}

AsItems(steps) == [i \in DOMAIN steps |-> ItemOf(steps[i])]

BatchKeys(me) == KeysOf(me.batch)
AccKeys(me) == KeysOf(me.acc)
FoundKeys(me) == KeysOf(AsItems(me.found))
Held(me) == BatchKeys(me) \cup AccKeys(me) \cup FoundKeys(me)

HeldOnce(me) ==
    /\ Distinct(me.batch) /\ Distinct(me.acc) /\ Distinct(AsItems(me.found))
    /\ Apart(BatchKeys(me), AccKeys(me))
    /\ Apart(BatchKeys(me), FoundKeys(me))
    /\ Apart(AccKeys(me), FoundKeys(me))

ExpandedKeys == { KeyOf(item) : item \in expanded }
LeafKeys == KeysOf(AsItems(leaves))

\* No work item and no proof is in two places.
Unique ==
    /\ \A b \in jobs : Distinct(b) /\ Apart(KeysOf(b), ExpandedKeys)
    /\ \A b, c \in jobs : b # c => Apart(KeysOf(b), KeysOf(c))
    /\ \A w \in Workers :
        /\ HeldOnce(worker[w])
        /\ Apart(Held(worker[w]), ExpandedKeys)
        /\ Apart(Held(worker[w]), LeafKeys)
        /\ \A b \in jobs : Apart(Held(worker[w]), KeysOf(b))
        /\ \A v \in Workers : v # w => Apart(Held(worker[w]), Held(worker[v]))
    /\ Distinct(AsItems(leaves))

Known ==
    (UNION { KeysOf(b) : b \in jobs }) \cup (UNION { Held(worker[w]) : w \in Workers })
        \cup ExpandedKeys \cup LeafKeys

\* The thread has tried the literal of the edge already.
Before(e, me) ==
    \/ e.clause < me.clause
    \/ /\ e.clause = me.clause
       /\ \/ me.pc \in {"steps", "insert"}
          \/ me.pc = "resolve" /\ e.literal < me.literal

\* The way is one step longer than that of the item.
IsChild(path, item) ==
    /\ path # <<>>
    /\ Last(path).source = item.goal /\ Front(path) = item.parent.path

\* Whatever exists was made from an item that was resolved, and, when a thread
\* is not through with that item, by a literal that it has tried.
Grown ==
    /\ \A k \in Known : k[2] = <<>> \/ \E item \in expanded : IsChild(k[2], item)
    /\ \A w \in Workers : Busy(worker[w]) =>
        /\ \A k \in Known :
              IsChild(k[2], worker[w].item) => Before(Last(k[2]), worker[w])
        /\ \A v \in Workers : v # w /\ Busy(worker[v]) =>
              KeyOf(worker[v].item) # KeyOf(worker[w].item)

\* The proofs kept are ordered and at most max_proofs; the threshold was raised
\* to the worst of them only when they were that many.
LeavesKept ==
    /\ \A i, j \in DOMAIN leaves : i < j => leaves[i].sim >= leaves[j].sim
    /\ MaxProofs # NoLimit => Len(leaves) <= MaxProofs
    /\ \/ threshold = InitialThreshold
       \/ Len(leaves) = MaxProofs /\ threshold = leaves[Len(leaves)].sim
    /\ stats.discarded > 0 => Len(leaves) = MaxProofs

\* What was returned is what is there, and the threads are through.
ResultKept ==
    result # Pending =>
        /\ jobs = {} /\ \A w \in Workers : worker[w].pc = "idle"
        /\ result = [stats |-> stats, proofs |-> leaves]

SoundInv ==
    Typed /\ Shaped /\ Traced /\ AllDerived /\ Unique /\ Grown /\ LeavesKept /\ ResultKept
-----------------------------------------------------------------------------
(***************************************************************************)
(* Keys of sequences of work items.                                        *)
(***************************************************************************)

\* An empty sequence has no keys.
LEMMA KeysEmpty == KeysOf(<<>>) = {} /\ Distinct(<<>>)
  BY DEF KeysOf, Distinct

\* The first item of a sequence is not among the others.
LEMMA KeysTail ==
    ASSUME NEW S, NEW q \in Seq(S), q # <<>>
    PROVE  /\ KeyOf(Head(q)) \in KeysOf(q)
           /\ KeysOf(Tail(q)) \subseteq KeysOf(q)
           /\ Distinct(q) => /\ Distinct(Tail(q))
                             /\ KeyOf(Head(q)) \notin KeysOf(Tail(q))
  <1>1. /\ Len(q) \in Nat \ {0} /\ DOMAIN q = 1 .. Len(q) /\ Head(q) = q[1]
        /\ DOMAIN Tail(q) = 1 .. Len(q) - 1
        /\ \A i \in 1 .. Len(q) - 1 : Tail(q)[i] = q[i + 1]
    OBVIOUS
  <1>2. 1 \in DOMAIN q /\ \A i \in DOMAIN Tail(q) : i + 1 \in DOMAIN q /\ i + 1 # 1
    BY <1>1
  <1>3. ASSUME Distinct(q) PROVE Distinct(Tail(q))
    <2>1. ASSUME NEW i \in DOMAIN Tail(q), NEW j \in DOMAIN Tail(q),
                 KeyOf(Tail(q)[i]) = KeyOf(Tail(q)[j])
          PROVE  i = j
      <3>1. i + 1 = j + 1
        BY <1>1, <1>2, <1>3, <2>1 DEF Distinct
      <3> QED
        BY <1>1, <3>1
    <2> QED
      BY <2>1 DEF Distinct
  <1>4. ASSUME Distinct(q) PROVE KeyOf(Head(q)) \notin KeysOf(Tail(q))
    BY <1>1, <1>2, <1>4 DEF KeysOf, Distinct
  <1>5. KeysOf(Tail(q)) \subseteq KeysOf(q)
    BY <1>1, <1>2 DEF KeysOf
  <1>6. KeyOf(Head(q)) \in KeysOf(q)
    BY <1>1, <1>2 DEF KeysOf
  <1> QED
    BY <1>3, <1>4, <1>5, <1>6

\* An item appended adds its key.
LEMMA KeysAppend ==
    ASSUME NEW S, NEW q \in Seq(S), NEW x \in S
    PROVE  /\ KeysOf(Append(q, x)) = KeysOf(q) \cup {KeyOf(x)}
           /\ Distinct(q) /\ KeyOf(x) \notin KeysOf(q) => Distinct(Append(q, x))
  <1> DEFINE t == Append(q, x)
             n == Len(q)
  <1>1. /\ n \in Nat /\ DOMAIN q = 1 .. n /\ DOMAIN t = 1 .. n + 1
        /\ t[n + 1] = x /\ \A i \in 1 .. n : t[i] = q[i]
    OBVIOUS
  <1> HIDE DEF t, n
  <1>2. \A i \in DOMAIN t : i \in DOMAIN q \/ i = n + 1
    BY <1>1
  <1>3. n + 1 \in DOMAIN t /\ DOMAIN q \subseteq DOMAIN t
    BY <1>1
  <1>4. KeysOf(t) = KeysOf(q) \cup {KeyOf(x)}
    BY <1>1, <1>2, <1>3 DEF KeysOf
  <1>5. ASSUME Distinct(q), KeyOf(x) \notin KeysOf(q) PROVE Distinct(t)
    BY <1>1, <1>2, <1>5 DEF Distinct, KeysOf
  <1> QED
    BY <1>4, <1>5 DEF t

\* A sequence cut in two.
LEMMA KeysCut ==
    ASSUME NEW S, NEW q \in Seq(S), NEW n \in 0 .. Len(q)
    PROVE  LET first == SubSeq(q, 1, n)
               rest == SubSeq(q, n + 1, Len(q))
           IN  /\ KeysOf(first) \subseteq KeysOf(q)
               /\ KeysOf(rest) \subseteq KeysOf(q)
               /\ Distinct(q) => /\ Distinct(first) /\ Distinct(rest)
                                 /\ Apart(KeysOf(first), KeysOf(rest))
  <1> DEFINE first == SubSeq(q, 1, n)
             rest == SubSeq(q, n + 1, Len(q))
  <1>1. /\ Len(q) \in Nat /\ DOMAIN q = 1 .. Len(q) /\ n \in Nat
        /\ DOMAIN first = 1 .. n /\ DOMAIN rest = 1 .. Len(q) - n
        /\ \A i \in 1 .. n : first[i] = q[i]
        /\ \A i \in 1 .. Len(q) - n : rest[i] = q[n + i]
    OBVIOUS
  <1> HIDE DEF first, rest
  <1>2. /\ \A i \in DOMAIN first : i \in DOMAIN q
        /\ \A i \in DOMAIN rest : n + i \in DOMAIN q
        /\ \A i \in DOMAIN first, j \in DOMAIN rest : i # n + j
    BY <1>1
  <1>3. KeysOf(first) \subseteq KeysOf(q) /\ KeysOf(rest) \subseteq KeysOf(q)
    BY <1>1, <1>2 DEF KeysOf
  <1>4. ASSUME Distinct(q) PROVE Distinct(first)
    BY <1>1, <1>2, <1>4 DEF Distinct
  <1>5. ASSUME Distinct(q) PROVE Distinct(rest)
    <2>1. ASSUME NEW i \in DOMAIN rest, NEW j \in DOMAIN rest,
                 KeyOf(rest[i]) = KeyOf(rest[j])
          PROVE  i = j
      <3>1. n + i = n + j
        BY <1>1, <1>2, <1>5, <2>1 DEF Distinct
      <3> QED
        BY <1>1, <3>1
    <2> QED
      BY <2>1 DEF Distinct
  <1>6. ASSUME Distinct(q) PROVE Apart(KeysOf(first), KeysOf(rest))
    BY <1>1, <1>2, <1>6 DEF Distinct, KeysOf, Apart
  <1> QED
    BY <1>3, <1>4, <1>5, <1>6 DEF first, rest

\* A sequence that has the items of another, one at each place and no place
\* twice.
LEMMA KeysPicked ==
    ASSUME NEW q, NEW t, NEW f \in [DOMAIN t -> DOMAIN q],
           \A i \in DOMAIN t : t[i] = q[f[i]],
           \A i, j \in DOMAIN t : f[i] = f[j] => i = j
    PROVE  /\ KeysOf(t) \subseteq KeysOf(q)
           /\ Distinct(q) => Distinct(t)
  BY DEF KeysOf, Distinct

\* Steps as work items.
LEMMA AsItemsOf ==
    ASSUME NEW S, NEW q \in Seq(S)
    PROVE  LET T == { ItemOf(s) : s \in S }
           IN  /\ AsItems(q) \in Seq(T)
               /\ Len(AsItems(q)) = Len(q)
               /\ q = <<>> => AsItems(q) = <<>>
               /\ \A s \in S : AsItems(Append(q, s)) = Append(AsItems(q), ItemOf(s))
  <1> DEFINE T == { ItemOf(s) : s \in S }
  <1>1. Len(q) \in Nat /\ DOMAIN q = 1 .. Len(q) /\ \A i \in 1 .. Len(q) : q[i] \in S
    OBVIOUS
  <1>2. /\ AsItems(q) \in [1 .. Len(q) -> T]
        /\ \A i \in 1 .. Len(q) : AsItems(q)[i] = ItemOf(q[i])
    BY <1>1 DEF AsItems
  <1>3. AsItems(q) \in Seq(T) /\ Len(AsItems(q)) = Len(q)
    BY <1>1, <1>2
  <1>5. ASSUME NEW s \in S
        PROVE  AsItems(Append(q, s)) = Append(AsItems(q), ItemOf(s))
    <2>1. /\ DOMAIN Append(q, s) = 1 .. Len(q) + 1
          /\ \A i \in 1 .. Len(q) + 1 :
                Append(q, s)[i] = IF i = Len(q) + 1 THEN s ELSE q[i]
      BY <1>1
    <2>2. /\ AsItems(Append(q, s)) \in [1 .. Len(q) + 1 -> T]
          /\ \A i \in 1 .. Len(q) + 1 : AsItems(Append(q, s))[i] =
                 IF i = Len(q) + 1 THEN ItemOf(s) ELSE ItemOf(q[i])
      BY <1>1, <2>1 DEF AsItems
    <2>3. /\ AsItems(Append(q, s)) \in Seq(T)
          /\ Len(AsItems(Append(q, s))) = Len(q) + 1
      BY <1>1, <2>2
    <2>4. /\ Append(AsItems(q), ItemOf(s)) \in Seq(T)
          /\ Len(Append(AsItems(q), ItemOf(s))) = Len(q) + 1
          /\ \A i \in 1 .. Len(q) + 1 : Append(AsItems(q), ItemOf(s))[i] =
                 IF i = Len(q) + 1 THEN ItemOf(s) ELSE ItemOf(q[i])
      BY <1>1, <1>2, <1>3
    <2> HIDE DEF T
    <2> QED
      BY <2>2, <2>3, <2>4, SeqEqual
  <1> QED
    BY <1>3, <1>5 DEF AsItems

\* All but the first.
LEMMA AsItemsTail ==
    ASSUME NEW S, NEW q \in Seq(S), q # <<>>
    PROVE  /\ AsItems(q) # <<>>
           /\ AsItems(Tail(q)) = Tail(AsItems(q))
           /\ Head(AsItems(q)) = ItemOf(Head(q))
  <1> DEFINE T == { ItemOf(s) : s \in S }
  <1>1. Len(q) \in Nat /\ DOMAIN q = 1 .. Len(q) /\ \A i \in 1 .. Len(q) : q[i] \in S
    OBVIOUS
  <1>2. AsItems(q) \in Seq(T) /\ Len(AsItems(q)) = Len(q)
    BY AsItemsOf
  <1>3. \A i \in 1 .. Len(q) : AsItems(q)[i] = ItemOf(q[i])
    BY <1>1 DEF AsItems
  <1>4. Len(q) > 0 /\ Head(q) = q[1] /\ Tail(q) \in Seq(S)
        /\ Len(Tail(q)) = Len(q) - 1 /\ DOMAIN Tail(q) = 1 .. Len(q) - 1
        /\ \A i \in 1 .. Len(q) - 1 : Tail(q)[i] = q[i + 1]
    BY <1>1
  <1>5. AsItems(q) # <<>>
    BY <1>2, <1>4
  <1>6. Head(AsItems(q)) = ItemOf(Head(q))
    BY <1>1, <1>3, <1>2, <1>4, <1>5
  <1>7. /\ AsItems(Tail(q)) \in [1 .. Len(q) - 1 -> T]
        /\ \A i \in 1 .. Len(q) - 1 : AsItems(Tail(q))[i] = ItemOf(q[i + 1])
    BY <1>1, <1>4 DEF AsItems
  <1>8. /\ AsItems(Tail(q)) \in Seq(T) /\ Len(AsItems(Tail(q))) = Len(q) - 1
    <2> DEFINE k == Len(q) - 1
               f == AsItems(Tail(q))
    <2>1. k \in Nat /\ f \in [1 .. k -> T]
      BY <1>1, <1>4, <1>7
    <2> HIDE DEF T, k, f
    <2>2. f \in Seq(T) /\ Len(f) = k
      BY <2>1
    <2> QED
      BY <2>2 DEF k, f
  <1>9. /\ Tail(AsItems(q)) \in Seq(T) /\ Len(Tail(AsItems(q))) = Len(q) - 1
        /\ \A i \in 1 .. Len(q) - 1 : Tail(AsItems(q))[i] = ItemOf(q[i + 1])
    BY <1>1, <1>3, <1>2, <1>4, <1>5
  <1> HIDE DEF T
  <1>10. AsItems(Tail(q)) = Tail(AsItems(q))
    BY <1>7, <1>8, <1>9, SeqEqual
  <1> QED
    BY <1>5, <1>6, <1>10
-----------------------------------------------------------------------------
(***************************************************************************)
(* Induction, by the least counterexample, and the recursive definition.   *)
(***************************************************************************)

\* A set of natural numbers has a least element.
LEMMA LeastElement ==
    ASSUME NEW S \in SUBSET Nat, S # {}
    PROVE  \E n \in S : \A m \in S : n <= m
  <1>1. PICK n \in S : \A m \in S : ~ (<<m, n>> \in OpToRel(<, Nat))
    BY WFMin, NatLessThanWellFounded, Zenon
  <1>2. ASSUME NEW m \in S PROVE n <= m
    <2>1. m \in Nat /\ n \in Nat
      OBVIOUS
    <2>2. ~ (m < n)
      <3>1. m < n => <<m, n>> \in OpToRel(<, Nat)
        BY <2>1 DEF OpToRel
      <3> QED
        BY <1>1, <3>1
    <2> QED
      BY <2>1, <2>2
  <1> QED
    BY <1>2

\* The derivations up to a length: the function is defined by its recursion.
DerivationsUpTo(n, D) ==
    D = [i \in 0 .. n |-> IF i = 0 THEN Beginnings ELSE Lengthened(D[i - 1])]

LEMMA DerivationsExist == \A n \in Nat : \E D : DerivationsUpTo(n, D)
  <1> DEFINE Missing == { n \in Nat : ~ \E D : DerivationsUpTo(n, D) }
  <1> SUFFICES ASSUME Missing # {} PROVE FALSE
    OBVIOUS
  <1>1. PICK n \in Missing : \A m \in Missing : n <= m
    BY LeastElement
  <1>2. n # 0
    <2> DEFINE D == [i \in 0 .. 0 |-> Beginnings]
    <2>1. D = [i \in 0 .. 0 |-> IF i = 0 THEN Beginnings ELSE Lengthened(D[i - 1])]
      OBVIOUS
    <2> HIDE DEF D
    <2>2. DerivationsUpTo(0, D)
      BY <2>1 DEF DerivationsUpTo
    <2> QED
      BY <1>1, <2>2
  <1>3. n \in Nat /\ n - 1 \in Nat /\ n - 1 \notin Missing
    BY <1>1, <1>2
  <1>4. PICK D : DerivationsUpTo(n - 1, D)
    BY <1>3
  <1> DEFINE E == [i \in 0 .. n |-> IF i = n THEN Lengthened(D[n - 1]) ELSE D[i]]
  <1>5. ASSUME NEW i \in 0 .. n
        PROVE  E[i] = IF i = 0 THEN Beginnings ELSE Lengthened(E[i - 1])
    <2>1. CASE i = n
      <3>1. E[n - 1] = D[n - 1]
        BY <1>3
      <3> QED
        BY <1>2, <1>3, <2>1, <3>1
    <2>2. CASE i # n
      <3>1. i \in 0 .. n - 1 /\ E[i] = D[i]
        BY <1>3, <2>2
      <3>2. D[i] = IF i = 0 THEN Beginnings ELSE Lengthened(D[i - 1])
        BY <1>4, <3>1 DEF DerivationsUpTo
      <3>3. i # 0 => E[i - 1] = D[i - 1]
        BY <1>3, <3>1
      <3> QED
        BY <3>1, <3>2, <3>3
    <2> QED
      BY <2>1, <2>2
  <1>6. E = [i \in 0 .. n |-> IF i = 0 THEN Beginnings ELSE Lengthened(E[i - 1])]
    <2>1. E = [i \in 0 .. n |-> E[i]]
      OBVIOUS
    <2> HIDE DEF E
    <2> QED
      BY <1>5, <2>1
  <1> HIDE DEF E
  <1>7. DerivationsUpTo(n, E)
    BY <1>6 DEF DerivationsUpTo
  <1> QED
    BY <1>1, <1>7

\* The longest proofs have at least one step.
LEMMA LongestType == LongestProof \in Nat \ {0}
  BY SearchAssumption DEF LongestProof

\* The derivations are what their definition says.
DerivationsGrow ==
    /\ Derivations[0] = Beginnings
    /\ \A n \in 1 .. LongestProof : Derivations[n] = Lengthened(Derivations[n - 1])

LEMMA DerivationsDef == DerivationsGrow
  <1>1. Derivations = CHOOSE D : DerivationsUpTo(LongestProof, D)
    BY DEF Derivations, DerivationsUpTo
  <1>2. LongestProof \in Nat
    BY LongestType
  <1>3. DerivationsUpTo(LongestProof, Derivations)
    BY <1>1, <1>2, DerivationsExist
  <1>4. \A n \in 0 .. LongestProof : Derivations[n] =
            IF n = 0 THEN Beginnings ELSE Lengthened(Derivations[n - 1])
    <2> DEFINE D == Derivations
    <2>1. D = [i \in 0 .. LongestProof |->
                IF i = 0 THEN Beginnings ELSE Lengthened(D[i - 1])]
      BY <1>3 DEF DerivationsUpTo
    <2> HIDE DEF D
    <2>2. \A n \in 0 .. LongestProof :
             D[n] = IF n = 0 THEN Beginnings ELSE Lengthened(D[n - 1])
      BY <2>1
    <2> QED
      BY <2>2 DEF D
  <1> QED
    BY <1>2, <1>4 DEF DerivationsGrow
-----------------------------------------------------------------------------
(***************************************************************************)
(* What the actions of a thread do, field by field: the form in which the  *)
(* proofs below use them.                                                  *)
(***************************************************************************)

\* Nobody else moves, and the problem stays.
Alone(w) ==
    /\ resolutions' = resolutions /\ result' = result
    /\ \A v \in Workers : v # w => worker'[v] = worker[v]

SharedKept == UNCHANGED <<leaves, threshold, seen, stats>>

Keeps(old, new) == new.batch = old.batch /\ new.acc = old.acc

Started(old, new) ==
    /\ old.pc = "idle"
    /\ \E b \in jobs : jobs' = jobs \ {b} /\ new.batch = b
    /\ new.pc = "goals" /\ new.acc = <<>> /\ new.found = <<>>
    /\ new.stats = NoStats
    /\ SharedKept /\ UNCHANGED expanded

\* A goal is not resolved, and why.
DroppedGoal(old, new) ==
    /\ old.pc \in {"goals", "quota"} /\ old.batch # <<>>
    /\ \/ TooDeep(Head(old.batch)) \/ AttemptsSpent
       \/ ~ FindHighest /\ MaxProofs # NoLimit /\ QuotaMet
    /\ new.pc = "return" /\ new.batch = Tail(old.batch) /\ new.acc = old.acc
    /\ new.found = old.found /\ new.stats = old.stats
    /\ SharedKept /\ UNCHANGED <<jobs, expanded>>

ReachedQuota(old, new) ==
    /\ old.pc = "goals" /\ new.pc = "quota"
    /\ ~ FindHighest /\ MaxProofs # NoLimit
    /\ Keeps(old, new) /\ new.found = old.found /\ new.stats = old.stats
    /\ SharedKept /\ UNCHANGED <<jobs, expanded>>

TookGoal(old, new) ==
    /\ old.pc \in {"goals", "quota"} /\ old.batch # <<>>
    /\ new.pc = "clauses" /\ new.item = Head(old.batch) /\ new.clause = 1
    /\ new.batch = Tail(old.batch) /\ new.acc = old.acc /\ new.found = old.found
    /\ new.successes = 0
    /\ new.stats = [old.stats EXCEPT
                       !.depth = MaxOf(@, Depth(Head(old.batch)) + 1)]
    /\ SharedKept /\ UNCHANGED jobs
    /\ expanded' = expanded \cup {Head(old.batch)}

\* The item in hand and all that is to be done stay, and so do the shared state
\* and the statistics.
SameGoal(old, new) ==
    /\ Keeps(old, new) /\ new.item = old.item /\ new.stats = old.stats
    /\ UNCHANGED <<jobs, expanded>>

Skipped(old, new) ==
    /\ old.pc = "clauses" /\ new.pc = "clauses"
    /\ TooWide(old.item.goal, old.clause) /\ old.clause \in Clauses
    /\ new.clause = old.clause + 1 /\ new.found = old.found
    /\ new.successes = old.successes
    /\ SameGoal(old, new) /\ SharedKept

BeganClause(old, new) ==
    /\ old.pc = "clauses" /\ new.pc = "resolve"
    /\ ~ TooWide(old.item.goal, old.clause) /\ old.clause \in Clauses
    /\ new.clause = old.clause /\ new.literal = 1 /\ new.found = <<>>
    /\ new.successes = old.successes
    /\ SameGoal(old, new) /\ SharedKept

TriedLiteral(old, new) ==
    LET tried == resolutions[old.item.goal][old.clause]
        r == tried[old.literal]
    IN  /\ old.pc = "resolve" /\ new.pc = "resolve"
        /\ old.literal \in DOMAIN tried
        /\ new.clause = old.clause /\ new.literal = old.literal + 1
        /\ new.found = IF r.sim <= threshold THEN old.found
                       ELSE Append(old.found,
                                   StepOf(old.item, old.clause, old.literal, r))
        /\ new.successes = old.successes
        /\ SameGoal(old, new) /\ SharedKept

GotSteps(old, new) ==
    /\ old.pc = "resolve" /\ new.pc = "steps"
    /\ \A l \in DOMAIN resolutions[old.item.goal][old.clause] : l < old.literal
    /\ new.clause = old.clause /\ new.found = old.found
    /\ new.successes \in {old.successes, old.successes + 1}
    /\ new.bar = threshold
    /\ SameGoal(old, new) /\ SharedKept

\* The first of the steps found is dealt with.
DoneWithStep(old, new) ==
    /\ old.found # <<>> /\ new.found = Tail(old.found)
    /\ old.pc \in {"steps", "insert"} /\ new.pc = "steps"
    /\ new.clause = old.clause /\ new.item = old.item
    /\ new.successes = old.successes /\ new.bar = old.bar
    /\ new.stats.attempted = old.stats.attempted
    /\ new.stats.successful = old.stats.successful
    /\ new.stats.depth = old.stats.depth
    /\ new.batch = old.batch /\ UNCHANGED <<jobs, expanded>>

RecordedLeaf(old, new) ==
    LET s == Head(old.found) IN
    /\ DoneWithStep(old, new) /\ new.acc = old.acc
    /\ s.resolvent = Empty
    /\ \E p \in 1 .. Len(leaves) + 1 :
          /\ IsSlot(leaves, s, p)
          /\ leaves' = IF Full THEN Front(InsertAt(leaves, p, s))
                       ELSE InsertAt(leaves, p, s)
    /\ threshold' = IF Full THEN Last(leaves').sim ELSE threshold
    /\ stats' = IF Full THEN [stats EXCEPT !.discarded = @ + 1] ELSE stats
    /\ UNCHANGED seen

DroppedStep(old, new) ==
    LET s == Head(old.found) IN
    /\ DoneWithStep(old, new) /\ new.acc = old.acc
    /\ s.resolvent # Empty
    /\ \/ ~ GoesOn(old.item)
       \/ ~ (s.sim > old.bar)
       \/ SkipSeen /\ Covers(seen[s.resolvent], s)
    /\ SharedKept

\* The step is let through and becomes a work item.
PushedStep(old, new) ==
    LET s == Head(old.found) IN
    /\ DoneWithStep(old, new) /\ new.acc = Append(old.acc, ItemOf(s))
    /\ s.resolvent # Empty /\ GoesOn(old.item)
    /\ seen' = IF SkipSeen
               THEN [seen EXCEPT ![s.resolvent] = [depth |-> s.depth, sim |-> s.sim]]
               ELSE seen
    /\ UNCHANGED <<leaves, threshold, stats>>

AboutToInsert(old, new) ==
    /\ old.pc = "steps" /\ new.pc = "insert"
    /\ SkipSeen /\ GoesOn(old.item)
    /\ new.found = old.found /\ new.clause = old.clause
    /\ new.successes = old.successes /\ new.bar = old.bar
    /\ SameGoal(old, new) /\ SharedKept

LeftClause(old, new) ==
    /\ old.pc = "steps" /\ new.pc = "clauses"
    /\ old.found = <<>> /\ new.found = <<>> /\ new.clause = old.clause + 1
    /\ new.successes = old.successes
    /\ SameGoal(old, new) /\ SharedKept

LeftGoal(old, new) ==
    /\ old.pc = "clauses" /\ old.clause = NumClauses + 1
    /\ new.pc = "return" /\ Keeps(old, new) /\ new.found = old.found
    /\ new.stats = [old.stats EXCEPT !.attempted = @ + NumClauses,
                                     !.successful = @ + old.successes]
    /\ SharedKept /\ UNCHANGED <<jobs, expanded>>

SpawnedBatch(old, new) ==
    /\ old.pc = "return" /\ new.pc = "goals"
    /\ new.batch = old.batch /\ new.found = old.found /\ new.stats = old.stats
    /\ \/ new.acc = old.acc /\ UNCHANGED jobs
       \/ /\ EvalBatchSize <= Len(old.acc)
          /\ jobs' = jobs \cup {SubSeq(old.acc, 1, EvalBatchSize)}
          /\ new.acc = SubSeq(old.acc, EvalBatchSize + 1, Len(old.acc))
    /\ SharedKept /\ UNCHANGED expanded

EndedBatch(old, new) ==
    /\ old.pc = "goals" /\ old.batch = <<>>
    /\ new.batch = old.acc /\ new.acc = <<>> /\ new.found = <<>>
    /\ new.stats = NoStats
    /\ \/ new.pc = "goals"
       \/ new = Idle /\ old.acc = <<>>
    /\ stats' = Synced(old.stats)
    /\ UNCHANGED <<jobs, leaves, threshold, seen, expanded>>

Moved(old, new) ==
    \/ Started(old, new) \/ DroppedGoal(old, new) \/ ReachedQuota(old, new)
    \/ TookGoal(old, new) \/ Skipped(old, new) \/ BeganClause(old, new)
    \/ TriedLiteral(old, new) \/ GotSteps(old, new) \/ RecordedLeaf(old, new)
    \/ DroppedStep(old, new) \/ PushedStep(old, new) \/ AboutToInsert(old, new)
    \/ LeftClause(old, new) \/ LeftGoal(old, new) \/ SpawnedBatch(old, new)
    \/ EndedBatch(old, new)

\* Every step of a thread is one of these.
LEMMA StepMoves ==
    ASSUME Typed, Shaped, NEW w \in Workers, WorkerStep(w)
    PROVE  Alone(w) /\ Moved(worker[w], worker'[w])
  <1> DEFINE old == worker[w]
             new == worker'[w]
  <1>0. /\ worker \in [Workers -> WorkerType] /\ old \in WorkerType
        /\ old.batch \in Seq(ItemType) /\ old.acc \in Seq(ItemType)
        /\ old.found \in Seq(StepType) /\ old.clause \in 1 .. NumClauses + 1
        /\ old.literal \in Nat \ {0} /\ old.stats \in StatsType
        /\ NumClauses \in Nat /\ Clauses = 1 .. NumClauses
        /\ Placed(old) /\ Shape(old)
    BY SearchAssumption DEF Typed, TypeOK, WorkerType, Shaped, Clauses
  \* Only the record of w changes.
  <1>a. ASSUME NEW me, worker' = [worker EXCEPT ![w] = me]
        PROVE  new = me /\ \A v \in Workers : v # w => worker'[v] = worker[v]
    BY <1>0, <1>a
  <1>1. CASE StartJob(w)
    <2>1. PICK b \in jobs :
             /\ jobs' = jobs \ {b}
             /\ worker' = [worker EXCEPT ![w] = [Idle EXCEPT !.pc = "goals", !.batch = b]]
      BY <1>1 DEF StartJob
    <2>2. new = [Idle EXCEPT !.pc = "goals", !.batch = b]
      BY <1>a, <2>1
    <2>5. /\ new.pc = "goals" /\ new.batch = b /\ new.acc = <<>>
          /\ new.found = <<>> /\ new.stats = NoStats
      BY <2>2 DEF Idle
    <2>6. old.pc = "idle" /\ UNCHANGED <<leaves, threshold, seen, stats, expanded>>
      BY <1>1 DEF StartJob, At, shared
    <2>3. Started(old, new)
      BY <2>1, <2>5, <2>6 DEF Started, SharedKept
    <2>4. Alone(w)
      BY <1>1, <1>a, <2>1 DEF StartJob, Alone
    <2> QED
      BY <2>3, <2>4 DEF Moved
  <1>d. ASSUME old.pc \in {"goals", "quota"}, old.batch # <<>>,
               worker' = [worker EXCEPT ![w] = Refused(w)],
               UNCHANGED <<resolutions, jobs, shared, result, expanded>>,
               \/ TooDeep(Head(old.batch)) \/ AttemptsSpent
               \/ ~ FindHighest /\ MaxProofs # NoLimit /\ QuotaMet
        PROVE  Alone(w) /\ Moved(old, new)
    <2>1. new = [old EXCEPT !.pc = "return", !.batch = Tail(@)]
      BY <1>a, <1>d DEF Refused
    <2>2. DroppedGoal(old, new)
      BY <1>0, <1>d, <2>1 DEF DroppedGoal, WorkerType, SharedKept, shared
    <2> QED
      BY <1>a, <1>d, <2>2 DEF Alone, Moved
  <1>e. ASSUME old.pc \in {"goals", "quota"}, old.batch # <<>>,
               worker' = [worker EXCEPT ![w] = Expanding(w)],
               UNCHANGED <<resolutions, jobs, shared, result>>,
               expanded' = expanded \cup {Head(old.batch)}
        PROVE  Alone(w) /\ Moved(old, new)
    <2>1. new = Expanding(w)
      BY <1>a, <1>e
    <2>2. TookGoal(old, new)
      BY <1>0, <1>e, <2>1 DEF TookGoal, Expanding, WorkerType, SharedKept, shared
    <2> QED
      BY <1>a, <1>e, <2>2 DEF Alone, Moved
  <1>2. CASE RefuseGoal(w)
    BY <1>2, <1>d DEF RefuseGoal, HasGoal, At
  <1>3. CASE AdmitGoal(w)
    <2>1. CASE MaxProofs # NoLimit /\ ~ FindHighest
      <3>1. worker' = [worker EXCEPT ![w] = [old EXCEPT !.pc = "quota"]]
        BY <1>0, <1>3, <2>1 DEF AdmitGoal
      <3>2. new = [old EXCEPT !.pc = "quota"]
        BY <1>a, <3>1
      <3>3. ReachedQuota(old, new)
        BY <1>0, <1>3, <2>1, <3>2
        DEF AdmitGoal, HasGoal, At, ReachedQuota, Keeps, WorkerType, SharedKept, shared
      <3> QED
        BY <1>3, <1>a, <3>1, <3>3 DEF AdmitGoal, Alone, Moved
    <2>2. CASE ~ (MaxProofs # NoLimit /\ ~ FindHighest)
      BY <1>3, <1>e, <2>2 DEF AdmitGoal, HasGoal, At
    <2> QED
      BY <2>1, <2>2
  <1>4. CASE CheckQuota(w)
    <2>1. /\ old.pc = "quota" /\ old.batch # <<>>
          /\ UNCHANGED <<resolutions, jobs, shared, result>>
      BY <1>0, <1>4 DEF CheckQuota, At, Placed
    <2>2. CASE QuotaMet
      <3>1. ~ FindHighest /\ MaxProofs # NoLimit
        BY <1>0, <2>1 DEF Shape
      <3> QED
        BY <1>4, <1>d, <2>1, <2>2, <3>1 DEF CheckQuota
    <2>3. CASE ~ QuotaMet
      BY <1>4, <1>e, <2>1, <2>3 DEF CheckQuota
    <2> QED
      BY <2>2, <2>3
  <1>5. CASE SkipWideClause(w)
    <2>1. new = [old EXCEPT !.clause = @ + 1]
      BY <1>0, <1>5 DEF SkipWideClause
    <2>2. Skipped(old, new)
      BY <1>0, <1>5, <2>1 DEF SkipWideClause, InClauses, At, Skipped, SameGoal, Keeps,
            WorkerType, SharedKept, shared
    <2> QED
      BY <1>0, <1>5, <2>2 DEF SkipWideClause, Alone, Moved
  <1>6. CASE BeginResolve(w)
    <2>1. new = [old EXCEPT !.pc = "resolve", !.literal = 1, !.found = <<>>]
      BY <1>0, <1>6 DEF BeginResolve
    <2>2. BeganClause(old, new)
      BY <1>0, <1>6, <2>1 DEF BeginResolve, InClauses, At, BeganClause, SameGoal, Keeps,
            WorkerType, SharedKept, shared
    <2> QED
      BY <1>0, <1>6, <2>2 DEF BeginResolve, Alone, Moved
  <1>7. CASE UnifyLiteral(w)
    <2> DEFINE tried == resolutions[old.item.goal][old.clause]
               r == tried[old.literal]
               more == IF r.sim <= threshold THEN old.found
                       ELSE Append(old.found,
                                   StepOf(old.item, old.clause, old.literal, r))
    <2>1. new = [old EXCEPT !.literal = @ + 1, !.found = more]
      BY <1>0, <1>7 DEF UnifyLiteral, Outcomes
    <2>2. old.pc = "resolve" /\ old.literal <= Len(tried)
      BY <1>7 DEF UnifyLiteral, At, Outcomes
    <2>3. old.literal \in DOMAIN tried
      <3>1. old.item \in ItemType /\ old.clause \in Clauses
        BY <1>0, <2>2 DEF Placed
      <3>2. tried \in Seq([resolvent : Disjunctions \cup {Empty}, sim : Int])
        <4>1. resolutions \in ResolutionsType(Int)
          BY SearchAssumption DEF Typed, TypeOK
        <4>2. old.item.goal \in Disjunctions
          BY <3>1 DEF ItemType
        <4> QED
          BY <3>1, <4>1, <4>2 DEF ResolutionsType
      <3> HIDE DEF tried
      <3> QED
        BY <1>0, <2>2, <3>2
    <2> HIDE DEF more
    <2>4. /\ new.pc = old.pc /\ new.clause = old.clause
          /\ new.literal = old.literal + 1 /\ new.found = more
          /\ new.successes = old.successes
          /\ new.batch = old.batch /\ new.acc = old.acc /\ new.item = old.item
          /\ new.stats = old.stats
      BY <1>0, <2>1 DEF WorkerType
    <2>5. UNCHANGED <<resolutions, jobs, shared, result, expanded>>
      BY <1>7 DEF UnifyLiteral
    <2>6. TriedLiteral(old, new)
      BY <2>2, <2>3, <2>4, <2>5 DEF TriedLiteral, SameGoal, Keeps, SharedKept, shared, more
    <2> QED
      BY <1>0, <1>7, <2>5, <2>6 DEF UnifyLiteral, Alone, Moved
  <1>8. CASE LoadThreshold(w)
    <2> DEFINE tried == resolutions[old.item.goal][old.clause]
               more == IF old.found # <<>> THEN old.successes + 1 ELSE old.successes
    <2>1. new = [old EXCEPT !.pc = "steps", !.successes = more, !.bar = threshold]
      BY <1>0, <1>8 DEF LoadThreshold
    <2>2. old.pc = "resolve" /\ old.literal > Len(tried)
      BY <1>8 DEF LoadThreshold, At, Outcomes
    <2>3. \A l \in DOMAIN tried : l < old.literal
      <3>1. old.item \in ItemType /\ old.clause \in Clauses
        BY <1>0, <2>2 DEF Placed
      <3>2. tried \in Seq([resolvent : Disjunctions \cup {Empty}, sim : Int])
        <4>1. resolutions \in ResolutionsType(Int)
          BY SearchAssumption DEF Typed, TypeOK
        <4>2. old.item.goal \in Disjunctions
          BY <3>1 DEF ItemType
        <4> QED
          BY <3>1, <4>1, <4>2 DEF ResolutionsType
      <3> HIDE DEF tried
      <3> QED
        BY <1>0, <2>2, <3>2
    <2>4. more \in {old.successes, old.successes + 1}
      OBVIOUS
    <2> HIDE DEF more, tried
    <2>5. /\ new.pc = "steps" /\ new.clause = old.clause
          /\ new.found = old.found /\ new.bar = threshold
          /\ new.successes = more
          /\ new.batch = old.batch /\ new.acc = old.acc /\ new.item = old.item
          /\ new.stats = old.stats
      BY <1>0, <2>1 DEF WorkerType
    <2>6. UNCHANGED <<resolutions, jobs, shared, result, expanded>>
      BY <1>8 DEF LoadThreshold
    <2>7. GotSteps(old, new)
      BY <2>2, <2>3, <2>4, <2>5, <2>6 DEF GotSteps, SameGoal, Keeps, SharedKept, shared, tried
    <2> QED
      BY <1>0, <1>8, <2>6, <2>7 DEF LoadThreshold, Alone, Moved
  \* The fields of a thread that has dealt with its first step.
  <1>r. ASSUME NEW a, old.found # <<>>, old.pc \in {"steps", "insert"},
               UNCHANGED <<jobs, expanded>>,
               \/ new = Dropped(w) /\ a = old.acc
               \/ new = [Dropped(w) EXCEPT !.acc = a,
                            !.stats.width = MaxOf(@, Width[Head(old.found).resolvent])]
        PROVE  DoneWithStep(old, new) /\ new.acc = a
    <2> DEFINE rest == Tail(old.found)
               st == [old.stats EXCEPT !.width = MaxOf(@, Width[Head(old.found).resolvent])]
               was == old.acc
    <2>1. CASE new = Dropped(w) /\ a = old.acc
      <3>1. new = [old EXCEPT !.pc = "steps", !.found = rest]
        BY <2>1 DEF Dropped
      <3> HIDE DEF rest
      <3>2. new.pc = "steps" /\ new.found = rest /\ new.acc = old.acc
            /\ new.clause = old.clause /\ new.item = old.item /\ new.stats = old.stats
            /\ new.successes = old.successes /\ new.bar = old.bar
            /\ new.batch = old.batch
        BY <1>0, <3>1 DEF WorkerType
      <3> QED
        BY <1>r, <2>1, <3>2 DEF DoneWithStep, rest
    <2>2. CASE new = [Dropped(w) EXCEPT !.acc = a,
                            !.stats.width = MaxOf(@, Width[Head(old.found).resolvent])]
      <3>1. new = [old EXCEPT !.pc = "steps", !.found = rest, !.acc = a, !.stats = st]
        BY <1>0, <2>2 DEF Dropped, WorkerType
      <3>2. st.depth = old.stats.depth /\ st.attempted = old.stats.attempted
            /\ st.successful = old.stats.successful
        BY <1>0 DEF StatsType
      <3> HIDE DEF rest, st
      <3>3. new.pc = "steps" /\ new.found = rest /\ new.acc = a
            /\ new.clause = old.clause /\ new.item = old.item /\ new.stats = st
            /\ new.successes = old.successes /\ new.bar = old.bar
            /\ new.batch = old.batch
        BY <1>0, <3>1 DEF WorkerType
      <3> QED
        BY <1>r, <2>2, <3>2, <3>3 DEF DoneWithStep, rest
    <2> QED
      BY <1>r, <2>1, <2>2
  <1>9. CASE RecordLeafProof(w)
    <2>1. old.pc = "steps" /\ old.found # <<>> /\ Head(old.found).resolvent = Empty
          /\ new = Dropped(w) /\ UNCHANGED <<resolutions, jobs, seen, result, expanded>>
      BY <1>0, <1>9 DEF RecordLeafProof, HasStep, At
    <2>2. DoneWithStep(old, new) /\ new.acc = old.acc
      BY <1>r, <2>1
    <2>3. RecordedLeaf(old, new)
      BY <1>9, <2>1, <2>2 DEF RecordLeafProof, RecordedLeaf
    <2> QED
      BY <1>0, <1>9, <2>3 DEF RecordLeafProof, Alone, Moved
  <1>10. CASE DropStep(w)
    <2>1. old.pc = "steps" /\ old.found # <<>> /\ Head(old.found).resolvent # Empty
          /\ ~ Passes(w, Head(old.found)) /\ new = Dropped(w)
          /\ UNCHANGED <<resolutions, jobs, shared, result, expanded>>
      BY <1>0, <1>10 DEF DropStep, HasStep, At
    <2>2. DoneWithStep(old, new) /\ new.acc = old.acc
      BY <1>r, <2>1
    <2>3. DroppedStep(old, new)
      BY <2>1, <2>2 DEF DroppedStep, Passes, SharedKept, shared
    <2> QED
      BY <1>0, <1>10, <2>1, <2>3 DEF DropStep, Alone, Moved
  <1>11. CASE CheckResolvent(w)
    <2> DEFINE s == Head(old.found)
    <2>1. /\ old.pc = "steps" /\ old.found # <<>> /\ s.resolvent # Empty
          /\ Passes(w, s)
          /\ UNCHANGED <<resolutions, jobs, shared, result, expanded>>
          /\ worker' = [worker EXCEPT ![w] =
                         IF ~ SkipSeen THEN Pushed(w)
                         ELSE IF Covers(seen[s.resolvent], s) THEN Dropped(w)
                         ELSE [old EXCEPT !.pc = "insert"]]
      BY <1>0, <1>11 DEF CheckResolvent, HasStep, At
    <2>2. Alone(w)
      BY <1>a, <2>1 DEF Alone
    <2>3. CASE ~ SkipSeen
      <3>1. new = Pushed(w)
        BY <1>0, <2>1, <2>3
      <3>2. new = [Dropped(w) EXCEPT !.acc = Append(old.acc, ItemOf(s)),
                       !.stats.width = MaxOf(@, Width[s.resolvent])]
        BY <1>0, <3>1 DEF Pushed, Dropped, WorkerType
      <3>3. DoneWithStep(old, new) /\ new.acc = Append(old.acc, ItemOf(s))
        BY <1>r, <2>1, <3>2
      <3>4. PushedStep(old, new)
        BY <2>1, <2>3, <3>3 DEF PushedStep, Passes, shared
      <3> QED
        BY <2>2, <3>4 DEF Moved
    <2>4. CASE SkipSeen /\ Covers(seen[s.resolvent], s)
      <3>1. new = Dropped(w)
        BY <1>0, <2>1, <2>4
      <3>2. DoneWithStep(old, new) /\ new.acc = old.acc
        BY <1>r, <2>1, <3>1
      <3>3. DroppedStep(old, new)
        BY <2>1, <2>4, <3>2 DEF DroppedStep, SharedKept, shared
      <3> QED
        BY <2>2, <3>3 DEF Moved
    <2>5. CASE SkipSeen /\ ~ Covers(seen[s.resolvent], s)
      <3>1. new = [old EXCEPT !.pc = "insert"]
        BY <1>0, <2>1, <2>5
      <3>2. AboutToInsert(old, new)
        BY <1>0, <2>1, <2>5, <3>1 DEF AboutToInsert, SameGoal, Keeps, Passes, WorkerType,
           SharedKept, shared
      <3> QED
        BY <2>2, <3>2 DEF Moved
    <2> QED
      BY <2>3, <2>4, <2>5
  <1>12. CASE InsertSeen(w)
    <2> DEFINE s == Head(old.found)
    <2>1. /\ old.pc = "insert" /\ old.found # <<>> /\ s.resolvent # Empty
          /\ SkipSeen /\ GoesOn(old.item)
          /\ UNCHANGED <<resolutions, jobs, leaves, threshold, stats, result, expanded>>
          /\ worker' = [worker EXCEPT ![w] = Pushed(w)]
          /\ seen' = [seen EXCEPT ![s.resolvent] = [depth |-> s.depth, sim |-> s.sim]]
      BY <1>0, <1>12 DEF InsertSeen, At, Placed, Shape
    <2>2. new = Pushed(w)
      BY <1>a, <2>1
    <2>3. new = [Dropped(w) EXCEPT !.acc = Append(old.acc, ItemOf(s)),
                     !.stats.width = MaxOf(@, Width[s.resolvent])]
      BY <1>0, <2>2 DEF Pushed, Dropped, WorkerType
    <2>4. DoneWithStep(old, new) /\ new.acc = Append(old.acc, ItemOf(s))
      BY <1>r, <2>1, <2>3
    <2>5. PushedStep(old, new)
      BY <2>1, <2>4 DEF PushedStep
    <2> QED
      BY <1>a, <2>1, <2>5 DEF Alone, Moved
  <1>13. CASE NextClause(w)
    <2>1. new = [old EXCEPT !.pc = "clauses", !.clause = @ + 1]
      BY <1>0, <1>13 DEF NextClause
    <2>2. LeftClause(old, new)
      BY <1>0, <1>13, <2>1 DEF NextClause, At, LeftClause, SameGoal, Keeps, WorkerType,
         SharedKept, shared
    <2> QED
      BY <1>0, <1>13, <2>2 DEF NextClause, Alone, Moved
  <1>14. CASE EndGoal(w)
    <2> DEFINE st == [old.stats EXCEPT !.attempted = @ + NumClauses,
                                       !.successful = @ + old.successes]
    <2>1. new = [old EXCEPT !.pc = "return", !.item = NoItem,
                            !.stats.attempted = @ + NumClauses,
                            !.stats.successful = @ + old.successes]
      <3>1. w \in DOMAIN worker
        BY <1>0
      <3> QED
        BY <1>14, <3>1 DEF EndGoal
    <2>2. new.stats = st /\ new.pc = "return" /\ new.batch = old.batch
          /\ new.acc = old.acc /\ new.found = old.found
      BY <1>0, <2>1 DEF WorkerType, StatsType
    <2>3. old.pc = "clauses" /\ old.clause > NumClauses
          /\ UNCHANGED <<resolutions, jobs, shared, result, expanded>>
      BY <1>14 DEF EndGoal, At
    <2>4. old.clause = NumClauses + 1
      BY <1>0, <2>3
    <2>5. LeftGoal(old, new)
      BY <2>2, <2>3, <2>4 DEF LeftGoal, Keeps, SharedKept, shared
    <2>6. \A v \in Workers : v # w => worker'[v] = worker[v]
      BY <1>0, <1>14 DEF EndGoal
    <2> QED
      BY <2>3, <2>5, <2>6 DEF Alone, Moved
  <1>15. CASE SpawnBatch(w)
    <2>1. old.pc = "return" /\ UNCHANGED <<resolutions, shared, result, expanded>>
      BY <1>15 DEF SpawnBatch, At
    <2>2. CASE Len(old.acc) >= EvalBatchSize
      <3>1. /\ jobs' = jobs \cup {SubSeq(old.acc, 1, EvalBatchSize)}
            /\ new = [old EXCEPT !.pc = "goals", !.acc = Drained(old.acc)]
        BY <1>0, <1>15, <2>2 DEF SpawnBatch
      <3>2. EvalBatchSize <= Len(old.acc)
        BY <1>0, <2>2, SearchAssumption
      <3>3. SpawnedBatch(old, new)
        BY <1>0, <2>1, <3>1, <3>2 DEF SpawnedBatch, Drained, WorkerType, SharedKept, shared
      <3> QED
        BY <1>0, <1>15, <2>1, <2>2, <3>3 DEF SpawnBatch, Alone, Moved
    <2>3. CASE ~ (Len(old.acc) >= EvalBatchSize)
      <3>1. jobs' = jobs /\ new = [old EXCEPT !.pc = "goals"]
        BY <1>0, <1>15, <2>3 DEF SpawnBatch
      <3>2. SpawnedBatch(old, new)
        BY <1>0, <2>1, <3>1 DEF SpawnedBatch, WorkerType, SharedKept, shared
      <3> QED
        BY <1>0, <1>15, <2>1, <2>3, <3>2 DEF SpawnBatch, Alone, Moved
    <2> QED
      BY <2>2, <2>3
  <1>16. CASE EndBatch(w)
    <2>1. /\ old.pc = "goals" /\ old.batch = <<>> /\ stats' = Synced(old.stats)
          /\ worker' = [worker EXCEPT ![w] = NextBatch(w)]
          /\ UNCHANGED <<resolutions, jobs, leaves, threshold, seen, result, expanded>>
      BY <1>16 DEF EndBatch, At
    <2>2. new = NextBatch(w)
      BY <1>a, <2>1
    <2>3. /\ new.batch = old.acc /\ new.acc = <<>> /\ new.found = <<>>
          /\ new.stats = NoStats
          /\ new.pc = "goals" \/ (new = Idle /\ old.acc = <<>>)
      <3>1. CASE old.acc = <<>>
        BY <2>2, <3>1 DEF NextBatch, Idle
      <3>2. CASE old.acc # <<>>
        <4>1. new = [Idle EXCEPT !.pc = "goals", !.batch = old.acc]
          BY <2>2, <3>2 DEF NextBatch
        <4> QED
          BY <4>1 DEF Idle
      <3> QED
        BY <3>1, <3>2
    <2>4. EndedBatch(old, new)
      BY <2>1, <2>3 DEF EndedBatch
    <2> QED
      BY <1>a, <2>1, <2>4 DEF Alone, Moved
  <1> QED
    BY <1>1, <1>2, <1>3, <1>4, <1>5, <1>6, <1>7, <1>8, <1>9, <1>10, <1>11, <1>12,
       <1>13, <1>14, <1>15, <1>16 DEF WorkerStep
-----------------------------------------------------------------------------
(***************************************************************************)
(* Whatever is found ends a derivation.                                    *)
(***************************************************************************)

\* What can be derived depends on the problem only.
LEMMA DerivedKept ==
    ASSUME resolutions' = resolutions
    PROVE  /\ DerivedSteps' = DerivedSteps /\ DerivedProofs' = DerivedProofs
           /\ DerivedItems' = DerivedItems
  <1>1. \A D : Lengthened(D)' = Lengthened(D)
    BY DEF Lengthened, Extended, Edges, Outcome, TooWide
  <1>2. Beginnings' = Beginnings
    BY DEF Beginnings
  <1>3. DerivationsGrow /\ DerivationsGrow'
    <2>1. DerivationsGrow'
      BY DerivationsDef, PTL
    <2> QED
      BY <2>1, DerivationsDef
  <1> DEFINE Wrong == { n \in 0 .. LongestProof : Derivations'[n] # Derivations[n] }
  <1>4. Wrong = {}
    <2> SUFFICES ASSUME Wrong # {} PROVE FALSE
      OBVIOUS
    <2>1. LongestProof \in Nat /\ Wrong \subseteq Nat
      BY LongestType
    <2>2. PICK n \in Wrong : \A m \in Wrong : n <= m
      BY <2>1, LeastElement
    <2>3. n # 0
      BY <1>2, <1>3, <2>2 DEF DerivationsGrow
    <2>4. n \in 1 .. LongestProof /\ n - 1 \in 0 .. LongestProof /\ n - 1 \notin Wrong
      BY <2>1, <2>2, <2>3
    <2>5. Derivations'[n - 1] = Derivations[n - 1]
      BY <2>4
    <2>6. /\ Derivations[n] = Lengthened(Derivations[n - 1])
          /\ Derivations'[n] = Lengthened(Derivations[n - 1])'
      BY <1>3, <2>4 DEF DerivationsGrow
    <2> QED
      BY <1>1, <2>2, <2>5, <2>6
  <1>5. \A n \in 0 .. LongestProof : Derivations'[n] = Derivations[n]
    BY <1>4
  <1> HIDE DEF Wrong
  <1>6. \A s : Derived(s)' <=> Derived(s)
    <2>1. LongestProof \in Nat
      BY LongestType
    <2> QED
      BY <1>5, <2>1 DEF Derived
  <1>7. DerivedSteps' = DerivedSteps
    BY <1>6 DEF DerivedSteps
  <1> QED
    BY <1>7 DEF DerivedProofs, DerivedItems

\* The step that resolve() makes of a derived item ends a derivation.
LEMMA StepDerived ==
    ASSUME Typed, NEW item \in DerivedItems, ~ TooDeep(item), NEW c \in Clauses,
           ~ TooWide(item.goal, c), NEW l \in DOMAIN resolutions[item.goal][c],
           resolutions[item.goal][c][l].sim > InitialThreshold
    PROVE  StepOf(item, c, l, resolutions[item.goal][c][l]) \in DerivedSteps
  <1> DEFINE r == resolutions[item.goal][c][l]
             s == StepOf(item, c, l, r)
             e == [source |-> item.goal, clause |-> c, literal |-> l]
  <1>1. /\ item \in ItemType /\ item.goal \in Disjunctions /\ item.goal # Empty
        /\ MaxProofDepth \in Nat
    BY SearchAssumption DEF DerivedItems, ItemType
  <1>2. /\ l \in Nat \ {0} /\ r \in [resolvent : Disjunctions \cup {Empty}, sim : Sims]
        /\ r.sim \in Int
    <2>1. resolutions \in Problems
      BY DEF Typed, TypeOK
    <2>2. resolutions[item.goal][c] \in Seq([resolvent : Disjunctions \cup {Empty}, sim : Int])
      <3>1. resolutions \in ResolutionsType(Int)
        BY <2>1, SearchAssumption
      <3> QED
        BY <1>1, <3>1 DEF ResolutionsType
    <2>3. l \in 1 .. Len(resolutions[item.goal][c])
      BY <2>2
    <2>4. r \in [resolvent : Disjunctions \cup {Empty}, sim : Int] /\ r.sim \in Sims
      BY <1>1, <2>1, <2>3, OutcomeType
    <2> QED
      BY <2>2, <2>3, <2>4
  <1>3. s \in StepType
    BY <1>1, <1>2, StepOfType
  <1>4. /\ s.resolvent = r.resolvent /\ s.sim = RunningSimilarity(item, r)
        /\ s.depth = (IF IsRoot(item) THEN 0 ELSE item.parent.depth + 1)
        /\ s.path = Append(item.parent.path, e)
    BY DEF StepOf
  <1>5. e \in Edges(item.goal) /\ Outcome(e) = r
    BY DEF Edges, Outcome
  <1> HIDE DEF r, s, e
  \* A derivation of the item, one step longer.
  <1>6. ASSUME NEW n \in 0 .. LongestProof - 1, NEW d \in Derivations[n],
               d.end = item.goal
        PROVE  /\ n + 1 \in 1 .. LongestProof
               /\ Extended(d, e) \in Derivations[n + 1]
               /\ Extended(d, e).end = r.resolvent
               /\ Extended(d, e).path = Append(d.path, e)
               /\ Extended(d, e).sims = d.sims \cup {r.sim}
    <2>1. n + 1 \in 1 .. LongestProof /\ (n + 1) - 1 = n
      BY LongestType
    <2>2. Derivations[n + 1] = Lengthened(Derivations[n])
      BY <2>1, DerivationsDef DEF DerivationsGrow
    <2>3. Extended(d, e) \in Lengthened(Derivations[n])
      BY <1>1, <1>5, <1>6 DEF Lengthened
    <2> QED
      BY <1>5, <2>1, <2>2, <2>3 DEF Extended
  <1>7. CASE IsRoot(item)
    <2> DEFINE d == [end |-> item.goal, path |-> <<>>, sims |-> {}]
    <2>1. d \in Derivations[0] /\ 0 \in 0 .. LongestProof - 1
      <3>1. item.goal \in ToSet(Goals)
        BY <1>7 DEF DerivedItems
      <3>2. d \in Beginnings
        BY <3>1 DEF Beginnings
      <3> QED
        BY <3>2, DerivationsDef, LongestType DEF DerivationsGrow
    <2>2. item.parent.path = <<>>
      BY <1>7 DEF IsRoot, NoParent
    <2>3. d.end = item.goal /\ d.path = <<>> /\ d.sims = {}
      OBVIOUS
    <2> HIDE DEF d
    <2>4. /\ Extended(d, e) \in Derivations[0 + 1] /\ 0 + 1 \in 1 .. LongestProof
          /\ Extended(d, e).end = s.resolvent /\ Extended(d, e).path = s.path
          /\ Extended(d, e).sims = {r.sim}
      BY <1>4, <1>6, <2>1, <2>2, <2>3
    <2>5. s.depth = 0 /\ s.sim = r.sim
      BY <1>4, <1>7 DEF RunningSimilarity
    <2>6. IsLeast(s.sim, Extended(d, e).sims)
      BY <1>2, <2>4, <2>5 DEF IsLeast
    <2>7. Derived(s)
      BY <2>4, <2>5, <2>6 DEF Derived
    <2> QED
      BY <1>3, <2>7 DEF DerivedSteps, s, r
  <1>8. CASE ~ IsRoot(item)
    <2> DEFINE p == item.parent
    <2>1. /\ p \in DerivedSteps /\ item.goal = p.resolvent
          /\ MaxProofDepth > 1 /\ p.depth < MaxProofDepth
      BY <1>8 DEF DerivedItems
    <2>2. PICK d \in Derivations[p.depth + 1] :
             d.end = p.resolvent /\ d.path = p.path /\ IsLeast(p.sim, d.sims)
      BY <2>1 DEF DerivedSteps, Derived
    <2>3. p.depth \in Nat /\ p.depth + 1 \in 0 .. LongestProof - 1
      BY <1>1, <2>1 DEF DerivedSteps, StepType, Depths, LongestProof
    <2>4. s.depth = p.depth + 1
      BY <1>4, <1>8
    <2>5. /\ Extended(d, e) \in Derivations[s.depth + 1]
          /\ s.depth + 1 \in 1 .. LongestProof
          /\ Extended(d, e).end = s.resolvent /\ Extended(d, e).path = s.path
          /\ Extended(d, e).sims = d.sims \cup {r.sim}
      BY <1>4, <1>6, <2>1, <2>2, <2>3, <2>4
    <2>6. s.sim = IF r.sim < p.sim THEN r.sim ELSE p.sim
      BY <1>4, <1>8 DEF RunningSimilarity
    <2>7. IsLeast(s.sim, Extended(d, e).sims)
      BY <1>2, <2>2, <2>5, <2>6 DEF IsLeast
    <2>8. Derived(s)
      BY <2>5, <2>7 DEF Derived
    <2> QED
      BY <1>3, <2>8 DEF DerivedSteps, s, r
  <1> QED
    BY <1>7, <1>8

\* A step is a parent.
LEMMA StepIsParent == \A s \in StepType : s # NoParent
  <1> SUFFICES ASSUME NEW s \in StepType PROVE s # NoParent
    OBVIOUS
  <1>1. "sim" \in DOMAIN s
    BY DEF StepType
  <1>2. "sim" \notin DOMAIN NoParent
    BY DEF NoParent
  <1> QED
    BY <1>1, <1>2

\* A step that is let through is a derived item.
LEMMA ItemDerived ==
    ASSUME NEW item \in DerivedItems, GoesOn(item), NEW c, NEW l, NEW r,
           StepOf(item, c, l, r) \in DerivedSteps, r.resolvent # Empty
    PROVE  ItemOf(StepOf(item, c, l, r)) \in DerivedItems
  <1> DEFINE s == StepOf(item, c, l, r)
  <1>1. /\ s.resolvent = r.resolvent
        /\ s.depth = (IF IsRoot(item) THEN 0 ELSE item.parent.depth + 1)
    BY DEF StepOf
  <1> HIDE DEF s
  <1>2. s \in StepType /\ s \in DerivedSteps
    BY DEF DerivedSteps, s
  <1>3. ItemOf(s) \in ItemType
    BY <1>1, <1>2, ItemOfType
  <1>4. ItemOf(s).parent = s /\ ItemOf(s).goal = s.resolvent
    BY DEF ItemOf
  <1>5. /\ MaxProofDepth \in Nat
        /\ ~ IsRoot(item) => item.parent.depth \in Nat
    BY SearchAssumption DEF DerivedItems, DerivedSteps, StepType, Depths
  <1>6. MaxProofDepth > 1 /\ s.depth < MaxProofDepth
    BY <1>1, <1>5 DEF GoesOn, Depth
  <1>7. ~ IsRoot(ItemOf(s))
    BY <1>2, <1>4, StepIsParent DEF IsRoot
  <1> QED
    BY <1>2, <1>3, <1>4, <1>6, <1>7 DEF DerivedItems, s

\* The record of a thread.
LEMMA WorkerFields ==
    ASSUME Typed, NEW w \in Workers
    PROVE  /\ worker[w] \in WorkerType /\ Placed(worker[w])
           /\ worker[w].batch \in Seq(ItemType) /\ worker[w].acc \in Seq(ItemType)
           /\ worker[w].found \in Seq(StepType)
           /\ worker[w].clause \in 1 .. NumClauses + 1
           /\ worker[w].literal \in Nat \ {0} /\ worker[w].successes \in Nat
           /\ worker[w].stats \in StatsType
           /\ Busy(worker[w]) => worker[w].item \in ItemType /\ ~ TooDeep(worker[w].item)
           /\ Trying(worker[w]) => worker[w].clause \in Clauses
  BY DEF Typed, TypeOK, WorkerType, Placed, Busy, Trying

\* The shape of a thread is kept.
LEMMA ShapeStep ==
    ASSUME Typed, Shaped, NEW w \in Workers, WorkerStep(w)
    PROVE  Shaped'
  <1> DEFINE old == worker[w]
             new == worker'[w]
  <1>1. Alone(w) /\ Moved(old, new)
    BY StepMoves
  <1>2. Shape(old) /\ old.batch \in Seq(ItemType)
    BY WorkerFields DEF Shaped
  <1>3. expanded \subseteq expanded'
    <2> HIDE DEF old, new
    <2> QED
      BY <1>1 DEF Moved, Started, DroppedGoal, ReachedQuota, TookGoal, Skipped,
         BeganClause, TriedLiteral, GotSteps, RecordedLeaf, DroppedStep, PushedStep,
         AboutToInsert, LeftClause, LeftGoal, SpawnedBatch, EndedBatch, SameGoal,
         DoneWithStep
  <1>4. ASSUME NEW v \in Workers, v # w PROVE Shape(worker[v])'
    BY <1>1, <1>3, <1>4 DEF Alone, Shaped, Shape
  <1>5. Shape(worker[w])'
    <2>1. CASE Started(old, new) \/ DroppedGoal(old, new) \/ ReachedQuota(old, new)
               \/ LeftGoal(old, new) \/ SpawnedBatch(old, new)
      BY <1>2, <2>1 DEF Started, DroppedGoal, ReachedQuota, LeftGoal, SpawnedBatch,
         Shape, Busy, Trying
    <2>2. CASE EndedBatch(old, new)
      <3>1. CASE new.pc = "goals"
        BY <2>2, <3>1 DEF EndedBatch, Shape, Busy, Trying
      <3>2. CASE new = Idle
        BY <3>2 DEF Idle, Shape, Busy, Trying
      <3> QED
        BY <2>2, <3>1, <3>2 DEF EndedBatch
    <2>3. CASE TookGoal(old, new)
      BY <1>2, <2>3 DEF TookGoal, Shape, Busy, Trying
    <2>4. CASE Skipped(old, new) \/ BeganClause(old, new) \/ TriedLiteral(old, new)
               \/ GotSteps(old, new) \/ AboutToInsert(old, new) \/ LeftClause(old, new)
      BY <1>2, <2>4 DEF Skipped, BeganClause, TriedLiteral, GotSteps, AboutToInsert,
         LeftClause, SameGoal, Shape, Busy, Trying
    <2>5. CASE RecordedLeaf(old, new) \/ DroppedStep(old, new) \/ PushedStep(old, new)
      BY <1>2, <2>5 DEF RecordedLeaf, DroppedStep, PushedStep, DoneWithStep, Shape,
         Busy, Trying
    <2> QED
      BY <1>1, <2>1, <2>2, <2>3, <2>4, <2>5 DEF Moved
  <1> QED
    BY <1>4, <1>5 DEF Shaped

\* So is where the steps found come from.
LEMMA TracedStep ==
    ASSUME Typed, Shaped, Traced, NEW w \in Workers, WorkerStep(w)
    PROVE  Traced'
  <1> DEFINE old == worker[w]
             new == worker'[w]
  <1>1. Alone(w) /\ Moved(old, new)
    BY StepMoves
  <1>2. /\ Shape(old) /\ old.found \in Seq(StepType)
        /\ \A i \in DOMAIN old.found : MadeOf(old.found[i], old)
        /\ resolutions' = resolutions
    BY <1>1, WorkerFields DEF Shaped, Traced, Alone
  <1>3. \A s, me : MadeOf(s, me)' <=> MadeOf(s, me)
    BY <1>2 DEF MadeOf
  <1>4. ASSUME NEW v \in Workers, v # w
        PROVE  \A i \in DOMAIN worker'[v].found : MadeOf(worker'[v].found[i], worker'[v])
    BY <1>1, <1>4 DEF Alone, Traced
  <1>5. ASSUME new.item = old.item, new.clause = old.clause
        PROVE  \A s : MadeOf(s, old) => MadeOf(s, new)
    BY <1>5 DEF MadeOf
  <1>6. \A i \in DOMAIN new.found : MadeOf(new.found[i], new)
    <2>1. CASE new.found = <<>>
      BY <2>1
    <2>2. CASE new.found = old.found /\ new.item = old.item /\ new.clause = old.clause
      BY <1>2, <1>5, <2>2
    <2>3. CASE TriedLiteral(old, new)
      <3> DEFINE tried == resolutions[old.item.goal][old.clause]
                 s == StepOf(old.item, old.clause, old.literal, tried[old.literal])
      <3>1. /\ new.item = old.item /\ new.clause = old.clause
            /\ old.literal \in DOMAIN tried
            /\ \/ new.found = old.found
               \/ new.found = Append(old.found, s)
        BY <2>3 DEF TriedLiteral, SameGoal
      <3>2. MadeOf(s, old)
        BY <3>1 DEF MadeOf
      <3> HIDE DEF s, tried
      <3>3. CASE new.found = Append(old.found, s)
        <4>1. \A i \in DOMAIN new.found :
                 new.found[i] = s \/ (i \in DOMAIN old.found /\ new.found[i] = old.found[i])
          BY <1>2, <3>3
        <4> QED
          BY <1>2, <1>5, <3>1, <3>2, <4>1
      <3> QED
        BY <2>2, <3>1, <3>3
    <2>4. CASE RecordedLeaf(old, new) \/ DroppedStep(old, new) \/ PushedStep(old, new)
      <3>1. /\ new.item = old.item /\ new.clause = old.clause
            /\ old.found # <<>> /\ new.found = Tail(old.found)
        BY <2>4 DEF RecordedLeaf, DroppedStep, PushedStep, DoneWithStep
      <3>2. \A i \in DOMAIN new.found :
               i + 1 \in DOMAIN old.found /\ new.found[i] = old.found[i + 1]
        BY <1>2, <3>1
      <3> QED
        BY <1>2, <1>5, <3>1, <3>2
    <2>5. CASE Started(old, new) \/ DroppedGoal(old, new) \/ ReachedQuota(old, new)
               \/ LeftGoal(old, new) \/ SpawnedBatch(old, new) \/ EndedBatch(old, new)
               \/ TookGoal(old, new) \/ Skipped(old, new) \/ BeganClause(old, new)
               \/ LeftClause(old, new)
      BY <1>2, <2>1, <2>5 DEF Started, DroppedGoal, ReachedQuota, LeftGoal, SpawnedBatch,
         EndedBatch, TookGoal, Skipped, BeganClause, LeftClause, Shape, Busy, Trying
    <2>6. CASE GotSteps(old, new) \/ AboutToInsert(old, new)
      BY <2>2, <2>6 DEF GotSteps, AboutToInsert, SameGoal
    <2> QED
      BY <1>1, <2>3, <2>4, <2>5, <2>6 DEF Moved
  <1> QED
    BY <1>3, <1>4, <1>6 DEF Traced

\* Whatever a step makes is derived.
LEMMA DerivedStep ==
    ASSUME Typed, Shaped, Traced, AllDerived, NEW w \in Workers, WorkerStep(w)
    PROVE  AllDerived'
  <1> DEFINE old == worker[w]
             new == worker'[w]
             I == DerivedItems
             S == DerivedSteps
             P == DerivedProofs
  <1>1. Alone(w) /\ Moved(old, new)
    BY StepMoves
  <1>2. /\ DerivedSteps' = S /\ DerivedProofs' = P /\ DerivedItems' = I
    BY <1>1, DerivedKept DEF Alone
  <1>3. /\ jobs \subseteq Seq(I) /\ leaves \in Seq(P) /\ expanded \subseteq I
        /\ old.batch \in Seq(I) /\ old.acc \in Seq(I) /\ old.found \in Seq(S)
        /\ P = { s \in S : s.resolvent = Empty }
        /\ \A v \in Workers : /\ worker[v].batch \in Seq(I)
                              /\ worker[v].acc \in Seq(I)
                              /\ worker[v].found \in Seq(S)
    BY DEF AllDerived, DerivedProofs
  <1>4. old.batch # <<>> => Head(old.batch) \in I /\ Tail(old.batch) \in Seq(I)
    BY <1>3
  <1>5. /\ Shape(old) /\ Placed(old) /\ EvalBatchSize \in Nat
        /\ \A i \in DOMAIN old.found : MadeOf(old.found[i], old)
        /\ Busy(old) => old.item \in I /\ ~ TooDeep(old.item)
        /\ Trying(old) => old.clause \in Clauses /\ ~ TooWide(old.item.goal, old.clause)
    BY <1>3, WorkerFields, SearchAssumption DEF Shaped, Traced, Shape
  <1>6. threshold \in Int /\ threshold >= InitialThreshold /\ InitialThreshold \in Int
    BY SimsAboveThreshold DEF Typed, TypeOK
  \* A step that was found.
  <1>7. ASSUME old.found # <<>>
        PROVE  /\ Head(old.found) \in S /\ Tail(old.found) \in Seq(S)
               /\ Busy(old) /\ GoesOn(old.item) /\ Head(old.found).resolvent # Empty =>
                     ItemOf(Head(old.found)) \in I
    <2>1. Head(old.found) \in S /\ Tail(old.found) \in Seq(S)
      BY <1>3, <1>7
    <2>2. 1 \in DOMAIN old.found /\ Head(old.found) = old.found[1]
      BY <1>3, <1>7
    <2>3. PICK l : Head(old.found) = StepOf(old.item, old.clause, l,
                                       resolutions[old.item.goal][old.clause][l])
      BY <1>5, <2>2 DEF MadeOf
    <2>4. Head(old.found).resolvent = resolutions[old.item.goal][old.clause][l].resolvent
      BY <2>3 DEF StepOf
    <2>5. ASSUME Busy(old), GoesOn(old.item), Head(old.found).resolvent # Empty
          PROVE  ItemOf(Head(old.found)) \in I
      BY <1>5, <2>1, <2>3, <2>4, <2>5, ItemDerived
    <2> QED
      BY <2>1, <2>5
  <1> HIDE DEF I, S, P
  <1>8. /\ jobs' \subseteq Seq(I) /\ leaves' \in Seq(P) /\ expanded' \subseteq I
        /\ new.batch \in Seq(I) /\ new.acc \in Seq(I) /\ new.found \in Seq(S)
    <2>0. <<>> \in Seq(I) /\ <<>> \in Seq(S)
      OBVIOUS
    <2>1. CASE Started(old, new)
      BY <1>3, <2>0, <2>1 DEF Started, SharedKept
    <2>2. CASE DroppedGoal(old, new) \/ TookGoal(old, new)
      BY <1>3, <1>4, <2>2 DEF DroppedGoal, TookGoal, SharedKept
    <2>3. CASE ReachedQuota(old, new) \/ LeftGoal(old, new)
      BY <1>3, <2>3 DEF ReachedQuota, LeftGoal, SharedKept, Keeps
    <2>4. CASE SpawnedBatch(old, new)
      <3>1. CASE new.acc = old.acc /\ UNCHANGED jobs
        BY <1>3, <2>4, <3>1 DEF SpawnedBatch, SharedKept
      <3>2. CASE /\ EvalBatchSize <= Len(old.acc)
                 /\ jobs' = jobs \cup {SubSeq(old.acc, 1, EvalBatchSize)}
                 /\ new.acc = SubSeq(old.acc, EvalBatchSize + 1, Len(old.acc))
        <4>1. /\ SubSeq(old.acc, 1, EvalBatchSize) \in Seq(I)
              /\ SubSeq(old.acc, EvalBatchSize + 1, Len(old.acc)) \in Seq(I)
          BY <1>3, <1>5, <3>2
        <4> QED
          BY <1>3, <2>4, <3>2, <4>1 DEF SpawnedBatch, SharedKept
      <3> QED
        BY <2>4, <3>1, <3>2 DEF SpawnedBatch
    <2>5. CASE EndedBatch(old, new)
      BY <1>3, <2>0, <2>5 DEF EndedBatch
    <2>6. CASE Skipped(old, new) \/ BeganClause(old, new) \/ GotSteps(old, new)
               \/ AboutToInsert(old, new) \/ LeftClause(old, new)
      BY <1>3, <2>0, <2>6 DEF Skipped, BeganClause, GotSteps, AboutToInsert, LeftClause,
         SameGoal, Keeps, SharedKept
    <2>7. CASE TriedLiteral(old, new)
      <3> DEFINE r == resolutions[old.item.goal][old.clause][old.literal]
                 s == StepOf(old.item, old.clause, old.literal, r)
      <3>1. ASSUME ~ (r.sim <= threshold) PROVE s \in S
        <4>1. Busy(old) /\ Trying(old)
              /\ old.literal \in DOMAIN resolutions[old.item.goal][old.clause]
          BY <2>7 DEF TriedLiteral, Busy, Trying
        <4>2. old.item \in DerivedItems
          BY <1>5, <4>1 DEF I
        <4>3. old.item.goal \in Disjunctions
          BY <4>2 DEF DerivedItems, ItemType
        <4>4. r.sim \in Int
          <5>1. resolutions \in Problems /\ resolutions \in ResolutionsType(Int)
            BY SearchAssumption DEF Typed, TypeOK
          <5>2. resolutions[old.item.goal][old.clause]
                   \in Seq([resolvent : Disjunctions \cup {Empty}, sim : Int])
            BY <1>5, <4>1, <4>3, <5>1 DEF ResolutionsType
          <5>3. r \in [resolvent : Disjunctions \cup {Empty}, sim : Int]
            <6> DEFINE o == resolutions[old.item.goal][old.clause]
                       R == [resolvent : Disjunctions \cup {Empty}, sim : Int]
            <6>1. o \in Seq(R) /\ old.literal \in DOMAIN o
              BY <4>1, <5>2
            <6> HIDE DEF o, R
            <6>2. o[old.literal] \in R
              BY <6>1
            <6> QED
              BY <6>2 DEF o, R
          <5> QED
            BY <5>3
        <4>5. r.sim > InitialThreshold
          BY <1>6, <3>1, <4>4
        <4>6. s \in DerivedSteps
          BY <1>5, <4>1, <4>2, <4>5, StepDerived
        <4> QED
          BY <4>6 DEF S
      <3>2. /\ new.found = IF r.sim <= threshold THEN old.found ELSE Append(old.found, s)
            /\ SameGoal(old, new) /\ SharedKept
        BY <2>7 DEF TriedLiteral
      <3> HIDE DEF r, s
      <3>3. new.found \in Seq(S)
        BY <1>3, <3>1, <3>2
      <3> QED
        BY <1>3, <3>2, <3>3 DEF SameGoal, Keeps, SharedKept
    <2>8. CASE RecordedLeaf(old, new)
      <3>1. PICK p \in 1 .. Len(leaves) + 1 :
               leaves' = IF Full THEN Front(InsertAt(leaves, p, Head(old.found)))
                         ELSE InsertAt(leaves, p, Head(old.found))
        BY <2>8 DEF RecordedLeaf
      <3>2. Head(old.found) \in P
        BY <1>3, <1>7, <2>8 DEF RecordedLeaf, DoneWithStep
      <3>3. /\ InsertAt(leaves, p, Head(old.found)) \in Seq(P)
            /\ Len(InsertAt(leaves, p, Head(old.found))) > 0
        <4> DEFINE h == Head(old.found)
        <4>1. h \in P /\ leaves \in Seq(P) /\ p \in 1 .. Len(leaves) + 1
          BY <1>3, <3>2
        <4> HIDE DEF h
        <4>2. InsertAt(leaves, p, h) \in Seq(P) /\ Len(InsertAt(leaves, p, h)) = Len(leaves) + 1
          BY <4>1, InsertAtElements
        <4>3. Len(leaves) \in Nat
          BY <4>1
        <4> QED
          BY <4>2, <4>3 DEF h
      <3>4. leaves' \in Seq(P)
        BY <3>1, <3>3, FrontElements
      <3> QED
        BY <1>3, <1>7, <2>8, <3>4 DEF RecordedLeaf, DoneWithStep
    <2>9. CASE DroppedStep(old, new)
      BY <1>3, <1>7, <2>9 DEF DroppedStep, DoneWithStep, SharedKept
    <2>10. CASE PushedStep(old, new)
      <3>1. ItemOf(Head(old.found)) \in I
        BY <1>7, <2>10 DEF PushedStep, DoneWithStep, Busy
      <3>2. Append(old.acc, ItemOf(Head(old.found))) \in Seq(I)
        BY <1>3, <3>1
      <3> QED
        BY <1>3, <1>7, <2>10, <3>2 DEF PushedStep, DoneWithStep
    <2> QED
      BY <1>1, <2>1, <2>2, <2>3, <2>4, <2>5, <2>6, <2>7, <2>8, <2>9, <2>10 DEF Moved
  <1>9. \A v \in Workers : /\ worker'[v].batch \in Seq(I)
                           /\ worker'[v].acc \in Seq(I)
                           /\ worker'[v].found \in Seq(S)
    BY <1>1, <1>3, <1>8 DEF Alone
  <1> QED
    BY <1>2, <1>8, <1>9 DEF AllDerived
-----------------------------------------------------------------------------
(***************************************************************************)
(* No work item is in two places.                                          *)
(***************************************************************************)

\* The thread w has the keys T to itself, and passes those of E on to the
\* items resolved, those of L to the leaves and those of the batches N to the
\* jobs.
Transfers(w, T, E, L, N) ==
    /\ \A b \in jobs : b \in jobs' => Apart(T, KeysOf(b))
    /\ \A v \in Workers : v # w => Apart(T, Held(worker[v]))
    /\ Apart(T, ExpandedKeys) /\ Apart(T, LeafKeys)
    /\ HeldOnce(worker'[w])
    /\ Held(worker'[w]) \subseteq T /\ E \subseteq T /\ L \subseteq T
    /\ Apart(E, Held(worker'[w])) /\ Apart(L, Held(worker'[w]))
    /\ \A b \in N : /\ Distinct(b) /\ KeysOf(b) \subseteq T
                    /\ Apart(KeysOf(b), Held(worker'[w])) /\ Apart(KeysOf(b), E)
    /\ \A b, c \in N : b = c
    /\ jobs' \subseteq jobs \cup N
    /\ ExpandedKeys' \subseteq ExpandedKeys \cup E
    /\ LeafKeys' \subseteq LeafKeys \cup L
    /\ Distinct(AsItems(leaves'))

\* Then everything stays in one place, and nothing but T is new.
LEMMA UniqueTransfer ==
    ASSUME NEW w \in Workers, Alone(w), Unique,
           NEW T, NEW E, NEW L, NEW N, Transfers(w, T, E, L, N)
    PROVE  Unique' /\ Known' \subseteq Known \cup T
  <1>1. \A v \in Workers : v # w => worker'[v] = worker[v]
    BY DEF Alone
  <1>2. ASSUME NEW b \in jobs'
        PROVE  /\ Distinct(b) /\ Apart(KeysOf(b), ExpandedKeys')
               /\ KeysOf(b) \subseteq Known \cup T
    <2>1. CASE b \in N
      BY <2>1 DEF Transfers, Apart, Unique
    <2>2. CASE b \in jobs
      BY <2>2 DEF Transfers, Apart, Unique, Known
    <2> QED
      BY <2>1, <2>2 DEF Transfers
  <1>3. ASSUME NEW b \in jobs', NEW c \in jobs', b # c PROVE Apart(KeysOf(b), KeysOf(c))
    BY <1>3 DEF Transfers, Apart, Unique
  <1>4. ASSUME NEW v \in Workers
        PROVE  /\ HeldOnce(worker'[v])
               /\ Apart(Held(worker'[v]), ExpandedKeys')
               /\ Apart(Held(worker'[v]), LeafKeys')
               /\ \A b \in jobs' : Apart(Held(worker'[v]), KeysOf(b))
               /\ \A u \in Workers : u # v => Apart(Held(worker'[v]), Held(worker'[u]))
               /\ Held(worker'[v]) \subseteq Known \cup T
    <2>1. CASE v = w
      BY <1>1, <2>1 DEF Transfers, Apart
    <2>2. CASE v # w
      <3>1. worker'[v] = worker[v]
        BY <1>1, <2>2
      <3>2. /\ HeldOnce(worker[v]) /\ Apart(Held(worker[v]), ExpandedKeys)
            /\ Apart(Held(worker[v]), LeafKeys)
            /\ \A b \in jobs : Apart(Held(worker[v]), KeysOf(b))
            /\ \A u \in Workers : u # v => Apart(Held(worker[v]), Held(worker[u]))
        BY DEF Unique
      <3>3. Apart(Held(worker[v]), ExpandedKeys') /\ Apart(Held(worker[v]), LeafKeys')
        BY <2>2, <3>2 DEF Transfers, Apart
      <3>4. \A b \in jobs' : Apart(Held(worker[v]), KeysOf(b))
        BY <2>2, <3>2 DEF Transfers, Apart
      <3>5. \A u \in Workers : u # v => Apart(Held(worker[v]), Held(worker'[u]))
        BY <1>1, <2>2, <3>2 DEF Transfers, Apart
      <3>6. Held(worker[v]) \subseteq Known \cup T
        BY DEF Known
      <3> QED
        BY <3>1, <3>2, <3>3, <3>4, <3>5, <3>6
    <2> QED
      BY <2>1, <2>2
  <1>5. Unique'
    BY <1>2, <1>3, <1>4 DEF Unique, Transfers
  <1>6. Known' \subseteq Known \cup T
    <2>1. ExpandedKeys' \subseteq Known \cup T /\ LeafKeys' \subseteq Known \cup T
      BY DEF Transfers, Known
    <2> QED
      BY <1>2, <1>4, <2>1 DEF Known
  <1> QED
    BY <1>5, <1>6

\* What a thread holds when its sequences only lose items.
LEMMA HeldLess ==
    ASSUME NEW old, NEW new, HeldOnce(old),
           BatchKeys(new) \subseteq BatchKeys(old), AccKeys(new) \subseteq AccKeys(old),
           FoundKeys(new) \subseteq FoundKeys(old),
           Distinct(new.batch), Distinct(new.acc), Distinct(AsItems(new.found))
    PROVE  HeldOnce(new) /\ Held(new) \subseteq Held(old)
  BY DEF HeldOnce, Held, Apart

\* A leaf inserted, and perhaps the last one cut off.
LEMMA KeysInsert ==
    ASSUME NEW S, NEW q \in Seq(S), NEW s \in S, NEW p \in 1 .. Len(q) + 1, NEW t,
           t = InsertAt(q, p, s) \/ t = Front(InsertAt(q, p, s))
    PROVE  /\ KeysOf(AsItems(t)) \subseteq KeysOf(AsItems(q)) \cup {KeyOf(ItemOf(s))}
           /\ Distinct(AsItems(q)) /\ KeyOf(ItemOf(s)) \notin KeysOf(AsItems(q)) =>
                 Distinct(AsItems(t))
  <1> DEFINE n == Len(q)
             from == AsItems(q)
             x == ItemOf(s)
             long == Append(from, x)
             T == { ItemOf(e) : e \in S }
             f == [i \in DOMAIN t |-> IF i < p THEN i ELSE IF i = p THEN n + 1 ELSE i - 1]
  <1>1. /\ n \in Nat /\ DOMAIN q = 1 .. n /\ from \in Seq(T) /\ Len(from) = n /\ x \in T
        /\ \A i \in 1 .. n : from[i] = ItemOf(q[i])
    BY AsItemsOf DEF AsItems
  <1>2. /\ DOMAIN t \subseteq 1 .. n + 1
        /\ \A i \in DOMAIN t : t[i] = IF i < p THEN q[i] ELSE IF i = p THEN s ELSE q[i - 1]
    <2> DEFINE u == InsertAt(q, p, s)
    <2>1. /\ u \in Seq(S) /\ Len(u) = n + 1
          /\ \A i \in 1 .. n + 1 : u[i] = IF i < p THEN q[i]
                                          ELSE IF i = p THEN s ELSE q[i - 1]
      BY InsertAtElements
    <2> HIDE DEF u
    <2>2. n + 1 > 0 /\ DOMAIN u = 1 .. n + 1
      BY <1>1, <2>1
    <2>3. CASE t = u
      BY <2>1, <2>2, <2>3
    <2>4. CASE t = Front(u)
      <3>1. /\ Front(u) \in Seq(S) /\ Len(Front(u)) = n
            /\ \A i \in 1 .. n : Front(u)[i] = u[i]
        BY <1>1, <2>1, <2>2, FrontElements
      <3>2. DOMAIN t = 1 .. n
        BY <2>4, <3>1
      <3>3. 1 .. n \subseteq 1 .. n + 1
        BY <1>1
      <3> QED
        BY <2>1, <2>4, <3>1, <3>2, <3>3
    <2> QED
      BY <2>3, <2>4 DEF u
  <1>3. DOMAIN AsItems(t) = DOMAIN t /\ \A i \in DOMAIN t : AsItems(t)[i] = ItemOf(t[i])
    BY DEF AsItems
  <1>4. /\ DOMAIN long = 1 .. n + 1 /\ long[n + 1] = x
        /\ \A i \in 1 .. n : long[i] = ItemOf(q[i])
    <2> HIDE DEF from, x, T
    <2> QED
      BY <1>1
  <1>5. p \in Nat /\ p >= 1 /\ p <= n + 1
    BY <1>1
  <1> HIDE DEF n, from, long
  <1>6. \A i \in DOMAIN t : /\ f[i] \in 1 .. n + 1
                            /\ AsItems(t)[i] = long[f[i]]
    <2> TAKE i \in DOMAIN t
    <2>1. i \in 1 .. n + 1 /\ f[i] = IF i < p THEN i ELSE IF i = p THEN n + 1 ELSE i - 1
      BY <1>2
    <2> HIDE DEF f
    <2>2. CASE i < p
      BY <1>1, <1>2, <1>3, <1>4, <1>5, <2>1, <2>2
    <2>3. CASE i = p
      BY <1>1, <1>2, <1>3, <1>4, <1>5, <2>1, <2>3
    <2>4. CASE i > p
      <3>1. f[i] = i - 1 /\ i - 1 \in 1 .. n
        BY <1>1, <1>5, <2>1, <2>4
      <3>2. AsItems(t)[i] = ItemOf(q[i - 1])
        BY <1>2, <1>3, <1>5, <2>1, <2>4
      <3>3. 1 .. n \subseteq 1 .. n + 1
        BY <1>1
      <3> QED
        BY <1>4, <3>1, <3>2, <3>3
    <2> QED
      BY <1>1, <1>5, <2>1, <2>2, <2>3, <2>4
  <1>7. f \in [DOMAIN AsItems(t) -> DOMAIN long]
    BY <1>3, <1>4, <1>6
  <1>8. \A i, j \in DOMAIN t : f[i] = f[j] => i = j
    <2> TAKE i, j \in DOMAIN t
    <2>1. /\ i \in 1 .. n + 1 /\ f[i] = IF i < p THEN i ELSE IF i = p THEN n + 1 ELSE i - 1
          /\ j \in 1 .. n + 1 /\ f[j] = IF j < p THEN j ELSE IF j = p THEN n + 1 ELSE j - 1
      BY <1>2
    <2> HIDE DEF f
    <2> QED
      BY <1>1, <1>5, <2>1
  <1> HIDE DEF f, T
  <1>9. /\ KeysOf(AsItems(t)) \subseteq KeysOf(long)
        /\ Distinct(long) => Distinct(AsItems(t))
    BY <1>3, <1>6, <1>7, <1>8, KeysPicked
  <1>10. /\ KeysOf(long) = KeysOf(from) \cup {KeyOf(x)}
         /\ Distinct(from) /\ KeyOf(x) \notin KeysOf(from) => Distinct(long)
    BY <1>1, KeysAppend DEF long
  <1> QED
    BY <1>9, <1>10 DEF from

\* The key of a step that is about to be found.
NewKey(me) ==
    KeyOf(ItemOf(StepOf(me.item, me.clause, me.literal,
                        resolutions[me.item.goal][me.clause][me.literal])))

\* An edge added to a path.
LEMMA PathLonger ==
    ASSUME NEW S, NEW q \in Seq(S), NEW e \in S
    PROVE  /\ Append(q, e) # <<>> /\ Last(Append(q, e)) = e
           /\ Front(Append(q, e)) = q
  <1> DEFINE t == Append(q, e)
             n == Len(q)
  <1>1. /\ n \in Nat /\ t \in Seq(S) /\ Len(t) = n + 1 /\ t[n + 1] = e
        /\ \A i \in 1 .. n : t[i] = q[i]
    OBVIOUS
  <1> HIDE DEF t, n
  <1>2. /\ Front(t) \in Seq(S) /\ Len(Front(t)) = n
        /\ \A i \in 1 .. n : Front(t)[i] = t[i]
    BY <1>1, FrontElements
  <1>3. Front(t) = q
    BY <1>1, <1>2, SeqEqual DEF n
  <1>4. t # <<>> /\ Last(t) = e
    BY <1>1 DEF Last
  <1> QED
    BY <1>3, <1>4 DEF t

\* The way of the new step: one edge more than that of the item in hand.
LEMMA NewKeyIsChild ==
    ASSUME Typed, NEW w \in Workers, worker[w].pc = "resolve",
           worker[w].literal \in
               DOMAIN resolutions[worker[w].item.goal][worker[w].clause]
    PROVE  LET me == worker[w]
           IN  /\ IsChild(NewKey(me)[2], me.item)
               /\ Last(NewKey(me)[2]) = [source |-> me.item.goal, clause |-> me.clause,
                                         literal |-> me.literal]
  <1> DEFINE me == worker[w]
             E == [source : Disjunctions, clause : Clauses, literal : Nat \ {0}]
             e == [source |-> me.item.goal, clause |-> me.clause, literal |-> me.literal]
  <1>1. me.item \in ItemType /\ me.clause \in Clauses /\ me.literal \in Nat \ {0}
    BY WorkerFields DEF Busy, Trying
  <1>2. e \in E
    BY <1>1 DEF ItemType
  <1>3. me.item.parent.path \in Seq(E)
    <2>1. me.item.parent = NoParent \/ me.item.parent \in StepType
      BY <1>1 DEF ItemType
    <2>2. CASE me.item.parent = NoParent
      <3>1. me.item.parent.path = <<>>
        BY <2>2 DEF NoParent
      <3> QED
        BY <3>1
    <2>3. CASE me.item.parent \in StepType
      BY <2>3 DEF StepType
    <2> QED
      BY <2>1, <2>2, <2>3
  <1>4. NewKey(me)[2] = Append(me.item.parent.path, e)
    BY DEF NewKey, KeyOf, ItemOf, StepOf
  <1>5. e.source = me.item.goal
    OBVIOUS
  <1> HIDE DEF e, E
  <1>6. IsChild(NewKey(me)[2], me.item) /\ Last(NewKey(me)[2]) = e
    BY <1>2, <1>3, <1>4, <1>5, PathLonger DEF IsChild
  <1> QED
    BY <1>6 DEF e

\* It is nowhere yet.
LEMMA NewKeyIsFresh ==
    ASSUME Typed, Grown, NEW w \in Workers, worker[w].pc = "resolve",
           worker[w].literal \in
               DOMAIN resolutions[worker[w].item.goal][worker[w].clause]
    PROVE  NewKey(worker[w]) \notin Known
  <1> SUFFICES ASSUME NewKey(worker[w]) \in Known PROVE FALSE
    OBVIOUS
  <1>1. Before(Last(NewKey(worker[w])[2]), worker[w])
    BY NewKeyIsChild DEF Grown, Busy
  <1>2. worker[w].clause \in Nat /\ worker[w].literal \in Nat
    BY WorkerFields, SearchAssumption
  <1>3. /\ Last(NewKey(worker[w])[2]).clause = worker[w].clause
        /\ Last(NewKey(worker[w])[2]).literal = worker[w].literal
    <2>1. Last(NewKey(worker[w])[2]) =
             [source |-> worker[w].item.goal, clause |-> worker[w].clause,
              literal |-> worker[w].literal]
      BY NewKeyIsChild
    <2> QED
      BY <2>1
  <1> QED
    BY <1>1, <1>2, <1>3 DEF Before

\* The key of a step that the thread found by this move, if it did.
Made(old, new) == IF TriedLiteral(old, new) THEN {NewKey(old)} ELSE {}

\* Every step of a thread leaves every work item in one place.
LEMMA UniqueStep ==
    ASSUME Typed, Shaped, AllDerived, Unique, Grown, NEW w \in Workers, WorkerStep(w)
    PROVE  Unique' /\ Known' \subseteq Known \cup Made(worker[w], worker'[w])
  <1> DEFINE old == worker[w]
             new == worker'[w]
             T == Held(old)
             J == { ItemOf(s) : s \in StepType }
  <1>1. Alone(w) /\ Moved(old, new)
    BY StepMoves
  <1>2. /\ Shape(old) /\ EvalBatchSize \in Nat
        /\ old.batch \in Seq(ItemType) /\ old.acc \in Seq(ItemType)
        /\ old.found \in Seq(StepType) /\ leaves \in Seq(StepType)
        /\ HeldOnce(old)
    BY WorkerFields, SearchAssumption DEF Shaped, Unique, Typed, TypeOK
  <1>3. /\ KeysOf(<<>>) = {} /\ Distinct(<<>>) /\ AsItems(<<>>) = <<>>
    BY KeysEmpty DEF AsItems
  <1>4. T \subseteq Known
    BY DEF Known
  \* What a thread holds is nowhere else.
  <1>5. /\ \A b \in jobs : Apart(T, KeysOf(b))
        /\ \A v \in Workers : v # w => Apart(T, Held(worker[v]))
        /\ Apart(T, ExpandedKeys) /\ Apart(T, LeafKeys)
        /\ Distinct(AsItems(leaves))
    BY DEF Unique
  \* The end of each case.
  <1>q. ASSUME NEW U, NEW E, NEW L, NEW N, Transfers(w, U, E, L, N),
               U \subseteq Known \cup Made(old, new)
        PROVE  Unique' /\ Known' \subseteq Known \cup Made(old, new)
    BY <1>1, <1>q, UniqueTransfer
  \* A thread that only loses what it holds.
  <1>l. ASSUME BatchKeys(new) \subseteq BatchKeys(old), Distinct(new.batch),
               AccKeys(new) \subseteq AccKeys(old), Distinct(new.acc),
               FoundKeys(new) \subseteq FoundKeys(old), Distinct(AsItems(new.found)),
               UNCHANGED <<jobs, expanded, leaves>>
        PROVE  Unique' /\ Known' \subseteq Known \cup Made(old, new)
    <2>1. HeldOnce(new) /\ Held(new) \subseteq T
      BY <1>2, <1>l, HeldLess
    <2>2. ExpandedKeys' = ExpandedKeys /\ LeafKeys' = LeafKeys
      BY <1>l DEF ExpandedKeys, LeafKeys
    <2>3. Transfers(w, T, {}, {}, {})
      BY <1>5, <1>l, <2>1, <2>2 DEF Transfers, Apart
    <2> QED
      BY <1>4, <1>q, <2>3
  <1>6. CASE Started(old, new)
    <2>1. PICK b \in jobs : jobs' = jobs \ {b} /\ new.batch = b
      BY <1>6 DEF Started
    <2>2. new.acc = <<>> /\ new.found = <<>> /\ UNCHANGED <<expanded, leaves>>
      BY <1>6 DEF Started, SharedKept
    <2>3. Distinct(b)
      BY DEF Unique
    <2>4. Held(new) = KeysOf(b) /\ HeldOnce(new)
      BY <1>3, <2>1, <2>2, <2>3 DEF Held, HeldOnce, BatchKeys, AccKeys, FoundKeys, Apart
    <2>5. ExpandedKeys' = ExpandedKeys /\ LeafKeys' = LeafKeys
      BY <2>2 DEF ExpandedKeys, LeafKeys
    <2>6. Apart(KeysOf(b), LeafKeys)
      <3>1. \A i \in DOMAIN b : KeyOf(b[i])[1] # Empty
        <4>1. b \in Seq(DerivedItems)
          BY DEF AllDerived
        <4>2. \A i \in DOMAIN b : b[i] \in DerivedItems
          BY <4>1
        <4> QED
          BY <4>2, SearchAssumption DEF KeyOf, DerivedItems, ItemType
      <3>2. \A i \in DOMAIN leaves : KeyOf(ItemOf(leaves[i]))[1] = Empty
        <4>1. leaves \in Seq(DerivedProofs)
          BY DEF AllDerived
        <4>2. \A i \in DOMAIN leaves : leaves[i] \in DerivedProofs
          BY <4>1
        <4> QED
          BY <4>2 DEF KeyOf, ItemOf, DerivedProofs
      <3> QED
        BY <3>1, <3>2 DEF Apart, KeysOf, LeafKeys, AsItems
    <2>7. /\ \A c \in jobs : c \in jobs' => Apart(KeysOf(b), KeysOf(c))
          /\ \A v \in Workers : v # w => Apart(KeysOf(b), Held(worker[v]))
          /\ Apart(KeysOf(b), ExpandedKeys)
      BY <2>1 DEF Unique, Apart
    <2>8. Transfers(w, KeysOf(b), {}, {}, {})
      BY <1>5, <2>1, <2>2, <2>4, <2>5, <2>6, <2>7 DEF Transfers, Apart
    <2>9. KeysOf(b) \subseteq Known
      BY DEF Known
    <2> QED
      BY <1>q, <2>8, <2>9
  <1>7. CASE DroppedGoal(old, new)
    <2>1. /\ old.batch # <<>> /\ new.batch = Tail(old.batch) /\ new.acc = old.acc
          /\ new.found = old.found /\ UNCHANGED <<jobs, expanded, leaves>>
      BY <1>7 DEF DroppedGoal, SharedKept
    <2>2. KeysOf(Tail(old.batch)) \subseteq KeysOf(old.batch) /\ Distinct(Tail(old.batch))
      BY <1>2, <2>1, KeysTail DEF HeldOnce
    <2> QED
      BY <1>2, <1>l, <2>1, <2>2 DEF BatchKeys, AccKeys, FoundKeys, HeldOnce
  <1>8. CASE ReachedQuota(old, new) \/ LeftGoal(old, new) \/ Skipped(old, new)
             \/ GotSteps(old, new) \/ AboutToInsert(old, new)
    <2>1. /\ new.batch = old.batch /\ new.acc = old.acc
          /\ new.found = old.found /\ UNCHANGED <<jobs, expanded, leaves>>
      BY <1>8 DEF ReachedQuota, LeftGoal, Skipped, GotSteps, AboutToInsert, SameGoal,
         Keeps, SharedKept
    <2> QED
      BY <1>2, <1>l, <2>1 DEF BatchKeys, AccKeys, FoundKeys, HeldOnce
  <1>9. CASE BeganClause(old, new) \/ LeftClause(old, new)
    <2>1. /\ new.batch = old.batch /\ new.acc = old.acc
          /\ new.found = <<>> /\ UNCHANGED <<jobs, expanded, leaves>>
      BY <1>9 DEF BeganClause, LeftClause, SameGoal, Keeps, SharedKept
    <2> QED
      BY <1>2, <1>3, <1>l, <2>1 DEF BatchKeys, AccKeys, FoundKeys, HeldOnce
  <1>10. CASE TookGoal(old, new)
    <2> DEFINE h == Head(old.batch)
               E == {KeyOf(h)}
    <2>1. /\ old.batch # <<>> /\ new.batch = Tail(old.batch) /\ new.acc = old.acc
          /\ new.found = old.found /\ UNCHANGED <<jobs, leaves>>
          /\ expanded' = expanded \cup {h}
      BY <1>10 DEF TookGoal, SharedKept
    <2>2. /\ KeysOf(Tail(old.batch)) \subseteq KeysOf(old.batch)
          /\ Distinct(Tail(old.batch))
          /\ KeyOf(h) \in KeysOf(old.batch) /\ KeyOf(h) \notin KeysOf(Tail(old.batch))
      BY <1>2, <2>1, KeysTail DEF HeldOnce
    <2>3. HeldOnce(new) /\ Held(new) \subseteq T /\ E \subseteq T /\ Apart(E, Held(new))
      BY <1>2, <2>1, <2>2
      DEF BatchKeys, AccKeys, FoundKeys, HeldOnce, Held, Apart
    <2>4. ExpandedKeys' = ExpandedKeys \cup E /\ LeafKeys' = LeafKeys
      BY <2>1 DEF ExpandedKeys, LeafKeys
    <2>5. Transfers(w, T, E, {}, {})
      BY <1>5, <2>1, <2>3, <2>4 DEF Transfers, Apart
    <2> QED
      BY <1>4, <1>q, <2>5
  <1>11. CASE TriedLiteral(old, new)
    <2> DEFINE s == StepOf(old.item, old.clause, old.literal,
                           resolutions[old.item.goal][old.clause][old.literal])
               k == KeyOf(ItemOf(s))
    <2>1. /\ new.batch = old.batch /\ new.acc = old.acc
          /\ new.found = old.found \/ new.found = Append(old.found, s)
          /\ UNCHANGED <<jobs, expanded, leaves>>
      BY <1>11 DEF TriedLiteral, SameGoal, Keeps, SharedKept
    <2>2. k \notin Known /\ Made(old, new) = {k}
      BY <1>11, NewKeyIsFresh DEF TriedLiteral, NewKey, Made
    <2> HIDE DEF s
    <2>3. CASE new.found = old.found
      BY <1>2, <1>l, <2>1, <2>3 DEF BatchKeys, AccKeys, FoundKeys, HeldOnce
    <2>4. CASE new.found = Append(old.found, s)
      <3>1. AsItems(new.found) = [i \in DOMAIN Append(old.found, s) |->
                                     ItemOf(Append(old.found, s)[i])]
        BY <2>4 DEF AsItems
      <3>2. /\ KeysOf(AsItems(new.found)) = KeysOf(AsItems(old.found)) \cup {k}
            /\ Distinct(AsItems(old.found)) /\ k \notin KeysOf(AsItems(old.found)) =>
                  Distinct(AsItems(new.found))
        <4> DEFINE P == StepType \cup {s}
                   R == { ItemOf(e) : e \in P }
        <4>1. old.found \in Seq(P) /\ s \in P
          BY <1>2
        <4> HIDE DEF P
        <4>2. /\ AsItems(old.found) \in Seq(R)
              /\ AsItems(new.found) = Append(AsItems(old.found), ItemOf(s))
              /\ ItemOf(s) \in R
          BY <2>4, <4>1, AsItemsOf
        <4> HIDE DEF R
        <4> QED
          BY <4>2, KeysAppend
      <3>3. k \notin Held(old) /\ FoundKeys(new) = FoundKeys(old) \cup {k}
        BY <1>4, <2>2, <3>2 DEF FoundKeys
      <3>4. HeldOnce(new) /\ Held(new) \subseteq T \cup {k}
        BY <1>2, <2>1, <3>2, <3>3
        DEF BatchKeys, AccKeys, FoundKeys, HeldOnce, Held, Apart
      <3>5. ExpandedKeys' = ExpandedKeys /\ LeafKeys' = LeafKeys
        BY <2>1 DEF ExpandedKeys, LeafKeys
      <3>6. /\ \A b \in jobs : k \notin KeysOf(b)
            /\ \A v \in Workers : k \notin Held(worker[v])
            /\ k \notin ExpandedKeys /\ k \notin LeafKeys
        BY <2>2 DEF Known
      <3>7. Transfers(w, T \cup {k}, {}, {}, {})
        <4> HIDE DEF k
        <4> QED
          BY <1>5, <2>1, <3>4, <3>5, <3>6 DEF Transfers, Apart
      <3> QED
        BY <1>4, <1>q, <2>2, <3>7
    <2> QED
      BY <2>1, <2>3, <2>4
  \* A step that was found is dealt with.
  <1>d. ASSUME DoneWithStep(old, new)
        PROVE  LET k == KeyOf(ItemOf(Head(old.found))) IN
               /\ k \in FoundKeys(old) /\ k \notin FoundKeys(new)
               /\ FoundKeys(new) \subseteq FoundKeys(old)
               /\ Distinct(AsItems(new.found)) /\ new.batch = old.batch
               /\ UNCHANGED <<jobs, expanded>>
    <2>1. /\ old.found # <<>> /\ new.found = Tail(old.found) /\ new.batch = old.batch
          /\ UNCHANGED <<jobs, expanded>>
      BY <1>d DEF DoneWithStep
    <2>2. /\ AsItems(old.found) \in Seq(J) /\ AsItems(old.found) # <<>>
          /\ AsItems(new.found) = Tail(AsItems(old.found))
          /\ Head(AsItems(old.found)) = ItemOf(Head(old.found))
      BY <1>2, <2>1, AsItemsOf, AsItemsTail
    <2>3. Distinct(AsItems(old.found))
      BY <1>2 DEF HeldOnce
    <2> HIDE DEF J
    <2> QED
      BY <2>1, <2>2, <2>3, KeysTail DEF FoundKeys
  <1>12. CASE RecordedLeaf(old, new)
    <2> DEFINE s == Head(old.found)
               k == KeyOf(ItemOf(s))
    <2>1. /\ k \in FoundKeys(old) /\ k \notin FoundKeys(new)
          /\ FoundKeys(new) \subseteq FoundKeys(old)
          /\ Distinct(AsItems(new.found)) /\ new.batch = old.batch
          /\ UNCHANGED <<jobs, expanded>> /\ new.acc = old.acc
      BY <1>12, <1>d DEF RecordedLeaf
    <2>2. s \in StepType
      BY <1>2, <1>12 DEF RecordedLeaf, DoneWithStep
    <2>3. PICK p \in 1 .. Len(leaves) + 1 :
             \/ leaves' = InsertAt(leaves, p, s)
             \/ leaves' = Front(InsertAt(leaves, p, s))
      BY <1>12 DEF RecordedLeaf
    <2> HIDE DEF s
    <2>4. k \in T /\ k \notin LeafKeys
      BY <1>5, <2>1 DEF Held, Apart
    <2>5. LeafKeys' \subseteq LeafKeys \cup {k} /\ Distinct(AsItems(leaves'))
      BY <1>2, <1>5, <2>2, <2>3, <2>4, KeysInsert DEF LeafKeys
    <2> HIDE DEF k
    <2>6. HeldOnce(new) /\ Held(new) \subseteq T
      BY <1>2, <2>1, HeldLess DEF BatchKeys, AccKeys, HeldOnce
    <2>7. k \notin Held(new)
      BY <1>2, <2>1 DEF BatchKeys, AccKeys, FoundKeys, HeldOnce, Held, Apart
    <2>8. ExpandedKeys' = ExpandedKeys
      BY <2>1 DEF ExpandedKeys
    <2>9. Transfers(w, T, {}, {k}, {})
      BY <1>5, <2>1, <2>4, <2>5, <2>6, <2>7, <2>8 DEF Transfers, Apart
    <2> QED
      BY <1>4, <1>q, <2>9
  <1>13. CASE DroppedStep(old, new)
    <2>1. DoneWithStep(old, new) /\ new.acc = old.acc /\ leaves' = leaves
      BY <1>13 DEF DroppedStep, SharedKept
    <2> QED
      BY <1>2, <1>d, <1>l, <2>1 DEF BatchKeys, AccKeys, HeldOnce
  <1>14. CASE PushedStep(old, new)
    <2> DEFINE s == Head(old.found)
               k == KeyOf(ItemOf(s))
    <2>1. /\ k \in FoundKeys(old) /\ k \notin FoundKeys(new)
          /\ FoundKeys(new) \subseteq FoundKeys(old)
          /\ Distinct(AsItems(new.found)) /\ new.batch = old.batch
          /\ UNCHANGED <<jobs, expanded, leaves>> /\ new.acc = Append(old.acc, ItemOf(s))
      BY <1>14, <1>d DEF PushedStep
    <2>2. ItemOf(s) \in ItemType
      BY <1>2, <1>14, ItemOfType DEF PushedStep, DoneWithStep
    <2> HIDE DEF s
    <2>3. k \notin KeysOf(old.acc) /\ k \notin KeysOf(old.batch)
      BY <1>2, <2>1 DEF HeldOnce, AccKeys, BatchKeys, Apart
    <2>4. KeysOf(new.acc) = KeysOf(old.acc) \cup {k} /\ Distinct(new.acc)
      BY <1>2, <2>1, <2>2, <2>3, KeysAppend DEF HeldOnce
    <2> HIDE DEF k
    <2>5. HeldOnce(new) /\ Held(new) \subseteq T
      BY <1>2, <2>1, <2>3, <2>4
      DEF BatchKeys, AccKeys, FoundKeys, HeldOnce, Held, Apart
    <2>6. ExpandedKeys' = ExpandedKeys /\ LeafKeys' = LeafKeys
      BY <2>1 DEF ExpandedKeys, LeafKeys
    <2>7. Transfers(w, T, {}, {}, {})
      BY <1>5, <2>1, <2>5, <2>6 DEF Transfers, Apart
    <2> QED
      BY <1>4, <1>q, <2>7
  <1>15. CASE SpawnedBatch(old, new)
    <2>1. /\ new.batch = old.batch /\ new.found = old.found
          /\ UNCHANGED <<expanded, leaves>>
      BY <1>15 DEF SpawnedBatch, SharedKept
    <2>2. CASE new.acc = old.acc /\ UNCHANGED jobs
      BY <1>2, <1>l, <2>1, <2>2 DEF BatchKeys, AccKeys, FoundKeys, HeldOnce
    <2>3. CASE /\ EvalBatchSize <= Len(old.acc)
               /\ jobs' = jobs \cup {SubSeq(old.acc, 1, EvalBatchSize)}
               /\ new.acc = SubSeq(old.acc, EvalBatchSize + 1, Len(old.acc))
      <3> DEFINE first == SubSeq(old.acc, 1, EvalBatchSize)
      <3>1. EvalBatchSize \in 0 .. Len(old.acc)
        BY <1>2, <2>3
      <3>2. /\ KeysOf(first) \subseteq KeysOf(old.acc)
            /\ KeysOf(new.acc) \subseteq KeysOf(old.acc)
            /\ Distinct(first) /\ Distinct(new.acc)
            /\ Apart(KeysOf(first), KeysOf(new.acc))
        BY <1>2, <2>3, <3>1, KeysCut DEF HeldOnce
      <3>3. jobs' = jobs \cup {first}
        BY <2>3
      <3> HIDE DEF first
      <3>4. HeldOnce(new) /\ Held(new) \subseteq T
        BY <1>2, <2>1, <3>2, HeldLess DEF BatchKeys, AccKeys, FoundKeys, HeldOnce
      <3>5. KeysOf(first) \subseteq T /\ Apart(KeysOf(first), Held(new))
        BY <1>2, <2>1, <3>2 DEF BatchKeys, AccKeys, FoundKeys, HeldOnce, Held, Apart
      <3>6. ExpandedKeys' = ExpandedKeys /\ LeafKeys' = LeafKeys
        BY <2>1 DEF ExpandedKeys, LeafKeys
      <3>7. Transfers(w, T, {}, {}, {first})
        BY <1>5, <2>1, <3>2, <3>3, <3>4, <3>5, <3>6 DEF Transfers, Apart
      <3> QED
        BY <1>4, <1>q, <3>7
    <2> QED
      BY <1>15, <2>2, <2>3 DEF SpawnedBatch
  <1>16. CASE EndedBatch(old, new)
    <2>1. /\ new.batch = old.acc /\ new.acc = <<>> /\ new.found = <<>>
          /\ UNCHANGED <<jobs, expanded, leaves>>
      BY <1>16 DEF EndedBatch
    <2>2. HeldOnce(new) /\ Held(new) \subseteq T
      BY <1>2, <1>3, <2>1 DEF BatchKeys, AccKeys, FoundKeys, HeldOnce, Held, Apart
    <2>3. ExpandedKeys' = ExpandedKeys /\ LeafKeys' = LeafKeys
      BY <2>1 DEF ExpandedKeys, LeafKeys
    <2>4. Transfers(w, T, {}, {}, {})
      BY <1>5, <2>1, <2>2, <2>3 DEF Transfers, Apart
    <2> QED
      BY <1>4, <1>q, <2>4
  <1> QED
    BY <1>1, <1>6, <1>7, <1>8, <1>9, <1>10, <1>11, <1>12, <1>13, <1>14, <1>15, <1>16
    DEF Moved

\* The way to whatever is known is a sequence of edges.
EdgeType == [source : Disjunctions, clause : Clauses, literal : Nat \ {0}]

LEMMA KnownType == Typed => \A k \in Known : k[2] \in Seq(EdgeType)
  <1> SUFFICES ASSUME Typed, NEW k \in Known PROVE k[2] \in Seq(EdgeType)
    OBVIOUS
  <1>1. \A s \in StepType : s.path \in Seq(EdgeType)
    BY DEF StepType, EdgeType
  <1>2. \A item \in ItemType : KeyOf(item)[2] \in Seq(EdgeType)
    <2> TAKE item \in ItemType
    <2>1. KeyOf(item)[2] = item.parent.path
      BY DEF KeyOf
    <2>2. CASE item.parent = NoParent
      <3>1. item.parent.path = <<>>
        BY <2>2 DEF NoParent
      <3> QED
        BY <2>1, <3>1
    <2>3. CASE item.parent \in StepType
      BY <1>1, <2>1, <2>3
    <2> QED
      BY <2>2, <2>3 DEF ItemType
  <1>3. \A s \in StepType : KeyOf(ItemOf(s))[2] \in Seq(EdgeType)
    BY <1>1 DEF KeyOf, ItemOf
  <1>4. ASSUME NEW q \in Seq(ItemType), k \in KeysOf(q) PROVE k[2] \in Seq(EdgeType)
    BY <1>2, <1>4 DEF KeysOf
  <1>5. ASSUME NEW q \in Seq(StepType), k \in KeysOf(AsItems(q))
        PROVE  k[2] \in Seq(EdgeType)
    BY <1>3, <1>5 DEF KeysOf, AsItems
  <1>6. CASE \E b \in jobs : k \in KeysOf(b)
    BY <1>4, <1>6 DEF Typed, TypeOK
  <1>7. CASE \E w \in Workers : k \in Held(worker[w])
    BY <1>4, <1>5, <1>7, WorkerFields DEF Held, BatchKeys, AccKeys, FoundKeys
  <1>8. CASE k \in ExpandedKeys
    BY <1>2, <1>8 DEF ExpandedKeys, Typed, TypeOK
  <1>9. CASE k \in LeafKeys
    BY <1>5, <1>9 DEF LeafKeys, Typed, TypeOK
  <1> QED
    BY <1>6, <1>7, <1>8, <1>9 DEF Known

\* Items whose next step may be the same are the same.
LEMMA OneParent ==
    ASSUME NEW path, NEW a, NEW b, IsChild(path, a), IsChild(path, b)
    PROVE  KeyOf(a) = KeyOf(b)
  BY DEF IsChild, KeyOf

\* A thread that has an item in hand took it, or had it before.
LEMMA BusyStays ==
    ASSUME NEW old, NEW new, Moved(old, new), Busy(new), ~ TookGoal(old, new)
    PROVE  Busy(old) /\ new.item = old.item
  <1>1. CASE Started(old, new) \/ DroppedGoal(old, new) \/ ReachedQuota(old, new)
             \/ LeftGoal(old, new) \/ SpawnedBatch(old, new) \/ EndedBatch(old, new)
    BY <1>1 DEF Started, DroppedGoal, ReachedQuota, LeftGoal, SpawnedBatch, EndedBatch,
       Busy, Idle
  <1>2. CASE Skipped(old, new) \/ BeganClause(old, new) \/ TriedLiteral(old, new)
             \/ GotSteps(old, new) \/ LeftClause(old, new)
    BY <1>2 DEF Skipped, BeganClause, TriedLiteral, GotSteps, LeftClause, SameGoal, Busy
  <1>3. CASE RecordedLeaf(old, new) \/ DroppedStep(old, new) \/ PushedStep(old, new)
             \/ AboutToInsert(old, new)
    BY <1>3 DEF RecordedLeaf, DroppedStep, PushedStep, AboutToInsert, SameGoal,
       DoneWithStep, Busy
  <1> QED
    BY <1>1, <1>2, <1>3 DEF Moved

\* A literal once tried stays tried.
LEMMA BeforeStays ==
    ASSUME Typed, NEW w \in Workers, NEW new, Moved(worker[w], new),
           Busy(new), ~ TookGoal(worker[w], new), NEW e \in EdgeType
    PROVE  /\ Before(e, worker[w]) => Before(e, new)
           /\ TriedLiteral(worker[w], new) /\ e.clause = worker[w].clause
                 /\ e.literal = worker[w].literal => Before(e, new)
  <1> DEFINE old == worker[w]
  <1>1. /\ e.clause \in Nat /\ e.literal \in Nat /\ old.clause \in Nat
        /\ old.literal \in Nat
    BY WorkerFields, SearchAssumption DEF EdgeType, Clauses
  <1> HIDE DEF old
  <1>2. CASE Skipped(old, new) \/ BeganClause(old, new) \/ GotSteps(old, new)
             \/ AboutToInsert(old, new) \/ LeftClause(old, new)
    BY <1>1, <1>2 DEF Skipped, BeganClause, GotSteps, AboutToInsert, LeftClause,
       SameGoal, Busy, Before, TriedLiteral, old
  <1>3. CASE TriedLiteral(old, new)
    <2>1. /\ old.pc = "resolve" /\ new.pc = "resolve" /\ new.clause = old.clause
          /\ new.literal = old.literal + 1 /\ new.item = old.item
      BY <1>3 DEF TriedLiteral, SameGoal
    <2> QED
      BY <1>1, <2>1 DEF Busy, Before, old
  <1>4. CASE RecordedLeaf(old, new) \/ DroppedStep(old, new) \/ PushedStep(old, new)
    <2>1. /\ old.pc \in {"steps", "insert"} /\ new.pc = "steps"
          /\ new.clause = old.clause /\ new.item = old.item
      BY <1>4 DEF RecordedLeaf, DroppedStep, PushedStep, DoneWithStep
    <2> QED
      BY <1>1, <2>1 DEF Busy, Before, TriedLiteral, old
  <1>5. ~ (Started(old, new) \/ DroppedGoal(old, new) \/ ReachedQuota(old, new)
           \/ LeftGoal(old, new) \/ SpawnedBatch(old, new) \/ EndedBatch(old, new))
    BY DEF Started, DroppedGoal, ReachedQuota, LeftGoal, SpawnedBatch, EndedBatch,
       Busy, Idle
  <1> QED
    BY <1>2, <1>3, <1>4, <1>5 DEF Moved, old

\* Whatever exists has an origin, still.
LEMMA GrownStep ==
    ASSUME Typed, Shaped, AllDerived, Unique, Grown, NEW w \in Workers, WorkerStep(w)
    PROVE  Grown'
  <1> DEFINE old == worker[w]
             new == worker'[w]
  <1>1. Alone(w) /\ Moved(old, new)
    BY StepMoves
  <1>2. /\ \A k \in Known' : k \in Known \/ k \in Made(old, new)
        /\ \A k \in Known' : k[2] \in Seq(EdgeType)
    <2>1. Typed'
      BY TypeStep DEF Next
    <2>2. \A k \in Known' : k[2] \in Seq(EdgeType)
      <3>1. (Typed => \A k \in Known : k[2] \in Seq(EdgeType))'
        BY KnownType, PTL
      <3> QED
        BY <2>1, <3>1
    <2> QED
      BY <2>2, UniqueStep
  <1>3. expanded \subseteq expanded'
    <2> HIDE DEF old, new
    <2> QED
      BY <1>1 DEF Moved, Started, DroppedGoal, ReachedQuota, TookGoal, Skipped,
         BeganClause, TriedLiteral, GotSteps, RecordedLeaf, DroppedStep, PushedStep,
         AboutToInsert, LeftClause, LeftGoal, SpawnedBatch, EndedBatch, SameGoal,
         DoneWithStep
  \* The new step.
  <1>4. ASSUME NEW k \in Made(old, new)
        PROVE  /\ TriedLiteral(old, new) /\ IsChild(k[2], old.item)
               /\ Last(k[2]).clause = old.clause /\ Last(k[2]).literal = old.literal
               /\ Busy(old) /\ old.item \in expanded
    <2>1. TriedLiteral(old, new) /\ k = NewKey(old)
      BY DEF Made
    <2>2. old.pc = "resolve" /\ old.literal \in DOMAIN resolutions[old.item.goal][old.clause]
      BY <2>1 DEF TriedLiteral
    <2>3. IsChild(k[2], old.item)
      BY <2>1, <2>2, NewKeyIsChild
    <2>4. Last(k[2]) = [source |-> old.item.goal, clause |-> old.clause,
                        literal |-> old.literal]
      BY <2>1, <2>2, NewKeyIsChild
    <2>5. Busy(old) /\ old.item \in expanded
      BY <2>2 DEF Busy, Shaped, Shape
    <2> QED
      BY <2>1, <2>3, <2>4, <2>5
  <1>5. \A k \in Known' : k[2] = <<>> \/ \E item \in expanded' : IsChild(k[2], item)
    BY <1>2, <1>3, <1>4 DEF Grown
  \* A thread that did not move.
  <1>6. ASSUME NEW v \in Workers, v # w, Busy(worker[v])
        PROVE  /\ worker'[v] = worker[v]
               /\ \A k \in Known' :
                     IsChild(k[2], worker[v].item) => Before(Last(k[2]), worker[v])
    <2>1. worker'[v] = worker[v]
      BY <1>1, <1>6 DEF Alone
    <2>2. ASSUME NEW k \in Known', IsChild(k[2], worker[v].item)
          PROVE  Before(Last(k[2]), worker[v])
      <3>1. k \notin Made(old, new)
        <4> SUFFICES ASSUME k \in Made(old, new) PROVE FALSE
          OBVIOUS
        <4>1. Busy(old) /\ IsChild(k[2], old.item)
          BY <1>4
        <4>2. KeyOf(old.item) = KeyOf(worker[v].item)
          BY <2>2, <4>1, OneParent
        <4> QED
          BY <1>6, <4>1, <4>2 DEF Grown
      <3> QED
        BY <1>2, <1>6, <2>2, <3>1 DEF Grown
    <2> QED
      BY <2>1, <2>2
  \* The thread that moved.
  <1>7. ASSUME Busy(new)
        PROVE  /\ \A k \in Known' : IsChild(k[2], new.item) => Before(Last(k[2]), new)
               /\ \A v \in Workers : v # w /\ Busy(worker[v]) =>
                     KeyOf(worker[v].item) # KeyOf(new.item)
    <2>1. CASE TookGoal(old, new)
      <3>1. /\ old.batch # <<>> /\ new.item = Head(old.batch)
            /\ old.batch \in Seq(ItemType)
        BY <2>1, WorkerFields DEF TookGoal
      <3>2. KeyOf(new.item) \in Held(old)
        BY <3>1, KeysTail DEF Held, BatchKeys
      <3>3. KeyOf(new.item) \notin ExpandedKeys
        BY <3>2 DEF Unique, Apart
      <3>4. ~ TriedLiteral(old, new)
        BY <2>1 DEF TookGoal, TriedLiteral
      <3>5. ASSUME NEW k \in Known', IsChild(k[2], new.item) PROVE FALSE
        <4>1. k \in Known
          BY <1>2, <3>4 DEF Made
        <4>2. k[2] # <<>>
          BY <3>5 DEF IsChild
        <4>3. PICK item \in expanded : IsChild(k[2], item)
          BY <4>1, <4>2 DEF Grown
        <4>4. KeyOf(item) = KeyOf(new.item)
          BY <3>5, <4>3, OneParent
        <4> QED
          BY <3>3, <4>3, <4>4 DEF ExpandedKeys
      <3>6. ASSUME NEW v \in Workers, Busy(worker[v])
            PROVE  KeyOf(worker[v].item) # KeyOf(new.item)
        BY <3>3, <3>6 DEF Shaped, Shape, ExpandedKeys
      <3> QED
        BY <3>5, <3>6
    <2>2. CASE ~ TookGoal(old, new)
      <3>1. Busy(old) /\ new.item = old.item
        BY <1>1, <1>7, <2>2, BusyStays
      <3>2. ASSUME NEW k \in Known', IsChild(k[2], new.item)
            PROVE  Before(Last(k[2]), new)
        <4>1. Last(k[2]) \in EdgeType
          <5>1. k[2] \in Seq(EdgeType) /\ k[2] # <<>>
            BY <1>2, <3>2 DEF IsChild
          <5> QED
            BY <5>1 DEF Last
        <4>2. CASE k \in Made(old, new)
          BY <1>1, <1>4, <1>7, <2>2, <4>1, <4>2, BeforeStays
        <4>3. CASE k \in Known
          <5>1. Before(Last(k[2]), old)
            BY <3>1, <3>2, <4>3 DEF Grown
          <5> QED
            BY <1>1, <1>7, <2>2, <4>1, <5>1, BeforeStays
        <4> QED
          BY <1>2, <4>2, <4>3
      <3>3. \A v \in Workers : v # w /\ Busy(worker[v]) =>
                     KeyOf(worker[v].item) # KeyOf(new.item)
        BY <3>1 DEF Grown
      <3> QED
        BY <3>2, <3>3
    <2> QED
      BY <2>1, <2>2
  <1>8. ASSUME NEW v \in Workers, Busy(worker'[v])
        PROVE  /\ \A k \in Known' :
                     IsChild(k[2], worker'[v].item) => Before(Last(k[2]), worker'[v])
               /\ \A u \in Workers : u # v /\ Busy(worker'[u]) =>
                     KeyOf(worker'[u].item) # KeyOf(worker'[v].item)
    <2>1. CASE v = w
      <3>1. \A u \in Workers : u # w => worker'[u] = worker[u]
        BY <1>1 DEF Alone
      <3> QED
        BY <1>7, <1>8, <2>1, <3>1
    <2>2. CASE v # w
      <3>1. worker'[v] = worker[v] /\ Busy(worker[v])
        BY <1>1, <1>8, <2>2 DEF Alone
      <3>2. \A u \in Workers : u # w => worker'[u] = worker[u]
        BY <1>1 DEF Alone
      <3>3. ASSUME NEW u \in Workers, u # v, Busy(worker'[u])
            PROVE  KeyOf(worker'[u].item) # KeyOf(worker'[v].item)
        <4>1. CASE u = w
          BY <1>7, <2>2, <3>1, <3>3, <4>1
        <4>2. CASE u # w
          BY <3>1, <3>2, <3>3, <4>2 DEF Grown
        <4> QED
          BY <4>1, <4>2
      <3> QED
        BY <1>6, <2>2, <3>1, <3>3
    <2> QED
      BY <2>1, <2>2
  <1> QED
    BY <1>5, <1>8 DEF Grown
-----------------------------------------------------------------------------
(***************************************************************************)
(* The proofs kept.                                                        *)
(***************************************************************************)

\* A leaf put in its slot keeps the order.
LEMMA SlotKeepsOrder ==
    ASSUME NEW q \in Seq(StepType), NEW s \in StepType, NEW p, IsSlot(q, s, p),
           \A i, j \in DOMAIN q : i < j => q[i].sim >= q[j].sim,
           NEW t, t = InsertAt(q, p, s) \/ t = Front(InsertAt(q, p, s))
    PROVE  /\ t \in Seq(StepType)
           /\ Len(t) = IF t = InsertAt(q, p, s) THEN Len(q) + 1 ELSE Len(q)
           /\ \A i, j \in DOMAIN t : i < j => t[i].sim >= t[j].sim
  <1> DEFINE u == InsertAt(q, p, s)
             n == Len(q)
  <1>1. /\ n \in Nat /\ DOMAIN q = 1 .. n /\ p \in 1 .. n + 1
        /\ \A i \in 1 .. n : q[i] \in StepType
    BY DEF IsSlot
  <1>2. /\ \A x \in StepType : x.sim \in Int
    BY SimsAboveThreshold DEF StepType
  <1>3. /\ u \in Seq(StepType) /\ Len(u) = n + 1
        /\ \A i \in 1 .. n + 1 : u[i] = IF i < p THEN q[i] ELSE IF i = p THEN s ELSE q[i - 1]
    BY <1>1, InsertAtElements
  <1>4. /\ \A i \in 1 .. n : i < p => q[i].sim >= s.sim
        /\ \A i \in 1 .. n : i >= p => s.sim >= q[i].sim
    <2>1. ASSUME NEW i \in 1 .. n, i < p PROVE q[i].sim >= s.sim
      <3>1. i \in 1 .. p - 1
        BY <1>1, <2>1
      <3>2. ~ (s.sim > q[i].sim)
        BY <3>1 DEF IsSlot, Precedes
      <3> QED
        BY <1>1, <1>2, <3>2
    <2>2. ASSUME NEW i \in 1 .. n, i >= p PROVE s.sim >= q[i].sim
      <3>1. i \in p .. n
        BY <1>1, <2>2
      <3>2. Precedes(s, q[i])
        BY <3>1 DEF IsSlot
      <3> QED
        BY <1>1, <1>2, <3>2 DEF Precedes
    <2> QED
      BY <2>1, <2>2
  <1> HIDE DEF u
  <1>5. ASSUME NEW i \in 1 .. n + 1, NEW j \in 1 .. n + 1, i < j
        PROVE  u[i].sim >= u[j].sim
    <2>1. p \in Nat /\ s.sim \in Int /\ \A k \in 1 .. n : q[k].sim \in Int
      BY <1>1, <1>2
    <2>2. CASE j < p
      <3>1. u[i] = q[i] /\ u[j] = q[j] /\ i \in DOMAIN q /\ j \in DOMAIN q
        BY <1>1, <1>3, <1>5, <2>1, <2>2
      <3> QED
        BY <1>5, <3>1
    <2>3. CASE j = p
      <3>1. u[i] = q[i] /\ u[j] = s /\ i \in 1 .. n /\ i < p
        BY <1>1, <1>3, <1>5, <2>1, <2>3
      <3> QED
        BY <1>4, <3>1
    <2>4. CASE j > p
      <3>1. u[j] = q[j - 1] /\ j - 1 \in 1 .. n /\ j - 1 >= p
        BY <1>1, <1>3, <2>1, <2>4
      <3>2. CASE i < p
        <4>1. u[i] = q[i] /\ i \in 1 .. n /\ i < j - 1
          BY <1>1, <1>3, <1>5, <2>1, <2>4, <3>1, <3>2
        <4> QED
          BY <1>1, <3>1, <4>1
      <3>3. CASE i = p
        <4>1. u[i] = s
          BY <1>3, <3>3, <2>1
        <4> QED
          BY <1>4, <3>1, <4>1
      <3>4. CASE i > p
        <4>1. u[i] = q[i - 1] /\ i - 1 \in 1 .. n /\ i - 1 < j - 1
          BY <1>1, <1>3, <1>5, <2>1, <3>1, <3>4
        <4> QED
          BY <1>1, <3>1, <4>1
      <3> QED
        BY <1>1, <3>2, <3>3, <3>4
    <2> QED
      BY <1>1, <2>2, <2>3, <2>4
  <1>6. CASE t = u
    BY <1>1, <1>3, <1>5, <1>6 DEF u
  <1>7. CASE t = Front(u)
    <2>1. /\ t \in Seq(StepType) /\ Len(t) = n /\ \A i \in 1 .. n : t[i] = u[i]
      <3>1. Len(u) > 0 /\ Len(u) - 1 = n
        BY <1>1, <1>3
      <3> HIDE DEF n
      <3> QED
        BY <1>3, <1>7, <3>1, FrontElements
    <2>2. t # u
      BY <1>1, <1>3, <2>1
    <2>3. DOMAIN t = 1 .. n /\ 1 .. n \subseteq 1 .. n + 1
      BY <1>1, <2>1
    <2> QED
      BY <1>5, <2>1, <2>2, <2>3 DEF u
  <1> QED
    BY <1>6, <1>7 DEF u

\* What record_leaf_proof keeps true.
LEMMA LeavesStep ==
    ASSUME Typed, Shaped, LeavesKept, NEW w \in Workers, WorkerStep(w)
    PROVE  LeavesKept'
  <1> DEFINE old == worker[w]
             new == worker'[w]
  <1>1. Alone(w) /\ Moved(old, new)
    BY StepMoves
  <1>2. /\ leaves \in Seq(StepType) /\ Len(leaves) \in Nat /\ stats \in StatsType
        /\ MaxProofs \in (Nat \cup {NoLimit}) \ {0} /\ NoLimit \notin Int
    BY SearchAssumption DEF Typed, TypeOK, Limits
  <1>3. CASE UNCHANGED <<leaves, threshold>> /\ stats'.discarded = stats.discarded
    BY <1>3 DEF LeavesKept
  <1>4. CASE RecordedLeaf(old, new)
    <2> DEFINE s == Head(old.found)
    <2>1. s \in StepType
      BY <1>4, WorkerFields DEF RecordedLeaf, DoneWithStep
    <2>2. PICK p \in 1 .. Len(leaves) + 1 :
             /\ IsSlot(leaves, s, p)
             /\ leaves' = IF Full THEN Front(InsertAt(leaves, p, s))
                          ELSE InsertAt(leaves, p, s)
      BY <1>4 DEF RecordedLeaf
    <2>3. /\ threshold' = IF Full THEN Last(leaves').sim ELSE threshold
          /\ stats' = IF Full THEN [stats EXCEPT !.discarded = @ + 1] ELSE stats
      BY <1>4 DEF RecordedLeaf
    <2> HIDE DEF s
    <2>4. /\ leaves' \in Seq(StepType)
          /\ Len(leaves') = IF leaves' = InsertAt(leaves, p, s) THEN Len(leaves) + 1
                            ELSE Len(leaves)
          /\ \A i, j \in DOMAIN leaves' : i < j => leaves'[i].sim >= leaves'[j].sim
      BY <1>2, <2>1, <2>2, SlotKeepsOrder DEF LeavesKept
    <2>5. CASE Full
      <3>1. Len(leaves) = MaxProofs /\ MaxProofs # NoLimit
        BY <1>2, <2>5 DEF Full, AtLimit, LeavesKept
      <3>2. leaves' # InsertAt(leaves, p, s)
        <4>1. InsertAt(leaves, p, s) \in Seq(StepType)
              /\ Len(InsertAt(leaves, p, s)) = Len(leaves) + 1
          BY <1>2, <2>1, InsertAtElements
        <4>2. Len(Front(InsertAt(leaves, p, s))) = Len(leaves)
          BY <1>2, <4>1, FrontElements
        <4> QED
          BY <1>2, <2>2, <2>5, <4>1, <4>2
      <3>3. Len(leaves') = MaxProofs
        BY <2>4, <3>1, <3>2
      <3>4. threshold' = leaves'[Len(leaves')].sim
        BY <2>3, <2>5 DEF Last
      <3> QED
        BY <1>2, <2>4, <3>1, <3>3, <3>4 DEF LeavesKept
    <2>6. CASE ~ Full
      <3>1. MaxProofs # NoLimit => Len(leaves) < MaxProofs
        BY <1>2, <2>6 DEF Full, AtLimit
      <3>2. Len(leaves) # MaxProofs
        BY <1>2, <3>1
      <3>3. Len(leaves') = Len(leaves) + 1 /\ threshold' = threshold /\ stats' = stats
        BY <2>2, <2>3, <2>4, <2>6
      <3>4. threshold' = InitialThreshold /\ ~ (stats'.discarded > 0)
        BY <3>2, <3>3 DEF LeavesKept
      <3> QED
        BY <1>2, <2>4, <3>1, <3>3, <3>4 DEF LeavesKept
    <2> QED
      BY <2>5, <2>6
  <1>5. CASE EndedBatch(old, new)
    BY <1>2, <1>3, <1>5 DEF EndedBatch, Synced, StatsType
  <1>6. CASE ~ RecordedLeaf(old, new) /\ ~ EndedBatch(old, new)
    <2> HIDE DEF old, new
    <2>1. UNCHANGED <<leaves, threshold, stats>>
      BY <1>1, <1>6 DEF Moved, Started, DroppedGoal, ReachedQuota, TookGoal, Skipped,
         BeganClause, TriedLiteral, GotSteps, DroppedStep, PushedStep, AboutToInsert,
         LeftClause, LeftGoal, SpawnedBatch, SharedKept
    <2> QED
      BY <1>3, <2>1
  <1> QED
    BY <1>4, <1>5, <1>6

\* A sequence that is ordered is sorted already.
LEMMA SortOrdered ==
    ASSUME NEW q \in Seq(StepType),
           \A i, j \in DOMAIN q : i < j => q[i].sim >= q[j].sim
    PROVE  SortedBySimilarity(q) = q
  <1>1. /\ Len(q) \in Nat /\ DOMAIN q = 1 .. Len(q)
        /\ \A i \in DOMAIN q : q[i].sim \in Int
    <2>1. \A x \in StepType : x.sim \in Int
      BY SimsAboveThreshold DEF StepType
    <2> QED
      BY <2>1
  <1>2. ASSUME NEW i \in DOMAIN q PROVE Rank(q, i) = i
    <2> DEFINE B == { j \in DOMAIN q : \/ q[j].sim > q[i].sim
                                      \/ (q[j].sim = q[i].sim /\ j <= i) }
    <2>1. ASSUME NEW j \in DOMAIN q PROVE j \in B <=> j \in 1 .. i
      <3>1. j < i => q[j].sim >= q[i].sim
        OBVIOUS
      <3>2. i < j => q[i].sim >= q[j].sim
        OBVIOUS
      <3>3. i \in Nat /\ j \in Nat /\ j >= 1 /\ q[i].sim \in Int /\ q[j].sim \in Int
        BY <1>1
      <3> QED
        BY <3>1, <3>2, <3>3
    <2>2. 1 .. i \subseteq DOMAIN q /\ B \subseteq DOMAIN q
      BY <1>1
    <2>3. B = 1 .. i
      BY <2>1, <2>2
    <2>4. Cardinality(1 .. i) = i
      <3>1. i \in Int /\ 1 \in Int /\ i >= 1
        BY <1>1
      <3>2. Cardinality(1 .. i) = i - 1 + 1
        BY <3>1, FS_Interval
      <3> QED
        BY <3>1, <3>2
    <2> QED
      BY <2>3, <2>4 DEF Rank
  <1>3. ASSUME NEW k \in DOMAIN q
        PROVE  (CHOOSE i \in DOMAIN q : Rank(q, i) = k) = k
    BY <1>2
  <1>4. SortedBySimilarity(q) = [k \in DOMAIN q |-> q[k]]
    <2> DEFINE at(k) == CHOOSE i \in DOMAIN q : Rank(q, i) = k
    <2>1. \A k \in DOMAIN q : at(k) = k
      BY <1>3
    <2>2. SortedBySimilarity(q) = [k \in DOMAIN q |-> q[at(k)]]
      BY DEF SortedBySimilarity
    <2> HIDE DEF at
    <2> QED
      BY <2>1, <2>2
  <1>5. q = [k \in DOMAIN q |-> q[k]]
    OBVIOUS
  <1> QED
    BY <1>4, <1>5

\* The end of the scope.
LEMMA CollectStep ==
    ASSUME Typed, Shaped, LeavesKept, Collect
    PROVE  /\ result' = [stats |-> stats, proofs |-> leaves]
           /\ jobs = {} /\ \A w \in Workers : worker[w] = Idle
           /\ UNCHANGED <<resolutions, jobs, worker, leaves, threshold, seen, stats,
                          expanded>>
  <1>1. /\ leaves \in Seq(StepType) /\ Len(leaves) \in Nat
        /\ MaxProofs \in (Nat \cup {NoLimit}) \ {0} /\ NoLimit \notin Int
    BY SearchAssumption DEF Typed, TypeOK, Limits
  <1>2. SortedBySimilarity(leaves) = leaves
    BY <1>1, SortOrdered DEF LeavesKept
  <1>3. CutTo(MaxProofs, leaves) = leaves
    <2>1. CASE AtLimit(Len(leaves), MaxProofs)
      <3>1. MaxProofs = Len(leaves)
        BY <1>1, <2>1 DEF AtLimit, LeavesKept
      <3> HIDE DEF AtLimit
      <3>2. SubSeq(leaves, 1, Len(leaves)) = leaves
        <4>1. /\ SubSeq(leaves, 1, Len(leaves)) \in Seq(StepType)
              /\ Len(SubSeq(leaves, 1, Len(leaves))) = Len(leaves)
              /\ \A i \in 1 .. Len(leaves) : SubSeq(leaves, 1, Len(leaves))[i] = leaves[i]
          BY <1>1
        <4> QED
          BY <1>1, <4>1, SeqEqual
      <3> QED
        BY <3>1, <3>2 DEF CutTo
    <2> QED
      BY <2>1 DEF CutTo
  <1>4. \A w \in Workers : worker[w] = Idle
    BY DEF Collect, At, Shaped, Shape
  <1> QED
    BY <1>2, <1>3, <1>4 DEF Collect, shared

\* Nothing moves after the end.
LEMMA StepWhilePending ==
    ASSUME Typed, Shaped, ResultKept, NEW w \in Workers, WorkerStep(w)
    PROVE  result = Pending /\ result' = Pending
  <1> DEFINE old == worker[w]
             new == worker'[w]
  <1>1. Alone(w) /\ Moved(old, new)
    BY StepMoves
  <1>2. ASSUME result # Pending PROVE FALSE
    <2>1. old.pc = "idle" /\ jobs = {}
      BY <1>2 DEF ResultKept
    <2> HIDE DEF old, new
    <2> QED
      BY <1>1, <2>1 DEF Moved, Started, DroppedGoal, ReachedQuota, TookGoal, Skipped,
         BeganClause, TriedLiteral, GotSteps, RecordedLeaf, DroppedStep, PushedStep,
         AboutToInsert, LeftClause, LeftGoal, SpawnedBatch, EndedBatch, DoneWithStep
  <1> QED
    BY <1>1, <1>2 DEF Alone
-----------------------------------------------------------------------------
(***************************************************************************)
(* The invariant.                                                          *)
(***************************************************************************)

\* The search starts with the inverted goals.
LEMMA SoundInit == Init => SoundInv
  <1> SUFFICES ASSUME Init PROVE SoundInv
    OBVIOUS
  <1>1. Typed
    BY TypeInit
  <1>2. /\ jobs = {FirstBatch} /\ \A w \in Workers : worker[w] = Idle
        /\ leaves = <<>> /\ threshold = InitialThreshold /\ stats = NoStats
        /\ result = Pending /\ expanded = {}
    BY DEF Init
  <1>3. /\ Idle.batch = <<>> /\ Idle.acc = <<>> /\ Idle.found = <<>> /\ Idle.pc = "idle"
    BY DEF Idle
  <1>4. Shaped
    BY <1>2, <1>3 DEF Shaped, Shape, Busy, Trying
  <1>5. Traced
    BY <1>2, <1>3 DEF Traced
  <1>6. /\ FirstBatch \in Seq(DerivedItems) /\ Distinct(FirstBatch)
        /\ \A i \in DOMAIN FirstBatch : KeyOf(FirstBatch[i])[2] = <<>>
    <2>1. /\ Goals \in Seq(Disjunctions) /\ DOMAIN Goals = 1 .. Len(Goals)
          /\ Len(Goals) \in Nat /\ \A i, j \in DOMAIN Goals : Goals[i] = Goals[j] => i = j
      BY SearchAssumption DEF IsInjective
    <2>2. /\ DOMAIN FirstBatch = 1 .. Len(Goals)
          /\ \A i \in 1 .. Len(Goals) :
                FirstBatch[i] = [goal |-> Goals[i], parent |-> NoParent]
      BY <2>1 DEF FirstBatch
    <2>3. ASSUME NEW i \in 1 .. Len(Goals)
          PROVE  [goal |-> Goals[i], parent |-> NoParent] \in DerivedItems
      <3>1. Goals[i] \in Disjunctions /\ Goals[i] \in ToSet(Goals)
        BY <2>1 DEF ToSet
      <3> QED
        BY <3>1 DEF DerivedItems, ItemType, IsRoot
    <2>4. FirstBatch \in Seq(DerivedItems)
      <3>1. FirstBatch \in [1 .. Len(Goals) -> DerivedItems]
        BY <2>1, <2>2, <2>3 DEF FirstBatch
      <3> QED
        BY <2>1, <3>1
    <2>5. \A i \in 1 .. Len(Goals) : KeyOf(FirstBatch[i]) = <<Goals[i], <<>>>>
      BY <2>2 DEF KeyOf, NoParent
    <2>6. Distinct(FirstBatch)
      BY <2>1, <2>2, <2>5 DEF Distinct
    <2> QED
      BY <2>2, <2>4, <2>5, <2>6
  <1>7. AllDerived
    <2>1. <<>> \in Seq(DerivedItems) /\ <<>> \in Seq(DerivedSteps)
          /\ <<>> \in Seq(DerivedProofs)
      OBVIOUS
    <2> QED
      BY <1>2, <1>3, <1>6, <2>1 DEF AllDerived
  <1>8. /\ Held(Idle) = {} /\ HeldOnce(Idle) /\ ExpandedKeys = {} /\ LeafKeys = {}
        /\ AsItems(leaves) = <<>>
    <2>1. AsItems(<<>>) = <<>>
      BY DEF AsItems
    <2> QED
      BY <1>2, <1>3, <2>1, KeysEmpty
      DEF Held, HeldOnce, BatchKeys, AccKeys, FoundKeys, Apart, ExpandedKeys, LeafKeys
  <1>9. Unique
    BY <1>2, <1>6, <1>8, KeysEmpty DEF Unique, Apart
  <1>10. Grown
    <2>1. \A k \in Known : k[2] = <<>>
      BY <1>2, <1>6, <1>8 DEF Known, KeysOf
    <2> QED
      BY <1>2, <1>3, <2>1 DEF Grown, Busy
  <1>11. LeavesKept /\ ResultKept
    BY <1>2, SearchAssumption DEF LeavesKept, ResultKept, NoStats, Limits
  <1> QED
    BY <1>1, <1>4, <1>5, <1>7, <1>9, <1>10, <1>11 DEF SoundInv

\* Every step keeps it.
LEMMA SoundStep == SoundInv /\ [Next]_vars => SoundInv'
  <1> SUFFICES ASSUME SoundInv, [Next]_vars PROVE SoundInv'
    OBVIOUS
  <1>0. Typed /\ Shaped /\ Traced /\ AllDerived /\ Unique /\ Grown /\ LeavesKept /\ ResultKept
    BY DEF SoundInv
  <1>1. Typed'
    BY <1>0, TypeStep
  <1>2. ASSUME NEW w \in Workers, WorkerStep(w) PROVE SoundInv'
    <2>1. Shaped' /\ Traced' /\ AllDerived' /\ Unique' /\ Grown' /\ LeavesKept'
      BY <1>0, <1>2, ShapeStep, TracedStep, DerivedStep, UniqueStep, GrownStep, LeavesStep
    <2>2. ResultKept'
      BY <1>0, <1>2, StepWhilePending DEF ResultKept, Pending
    <2> QED
      BY <1>1, <2>1, <2>2 DEF SoundInv
  <1>3. ASSUME UNCHANGED <<resolutions, jobs, worker, leaves, threshold, stats, expanded>>
        PROVE  Shaped' /\ Traced' /\ AllDerived' /\ Unique' /\ Grown' /\ LeavesKept'
    <2>1. Shaped'
      BY <1>0, <1>3 DEF Shaped, Shape
    <2>2. Traced'
      BY <1>0, <1>3 DEF Traced, MadeOf
    <2>3. AllDerived'
      BY <1>0, <1>3, DerivedKept DEF AllDerived
    <2>4. ExpandedKeys' = ExpandedKeys /\ LeafKeys' = LeafKeys
      BY <1>3 DEF ExpandedKeys, LeafKeys
    <2>5. Unique'
      BY <1>0, <1>3, <2>4 DEF Unique
    <2>6. Known' = Known
      BY <1>3, <2>4 DEF Known
    <2>7. Grown'
      BY <1>0, <1>3, <2>6 DEF Grown
    <2>8. LeavesKept'
      BY <1>0, <1>3 DEF LeavesKept
    <2> QED
      BY <2>1, <2>2, <2>3, <2>5, <2>7, <2>8
  <1>4. CASE Collect
    <2>1. /\ result' = [stats |-> stats, proofs |-> leaves]
          /\ jobs = {} /\ \A w \in Workers : worker[w] = Idle
          /\ UNCHANGED <<resolutions, jobs, worker, leaves, threshold, seen, stats,
                         expanded>>
      BY <1>0, <1>4, CollectStep
    <2>2. ResultKept'
      BY <2>1 DEF ResultKept, Idle
    <2> QED
      BY <1>1, <1>3, <2>1, <2>2 DEF SoundInv
  <1>5. CASE Done \/ UNCHANGED vars
    <2>1. UNCHANGED <<resolutions, jobs, worker, leaves, threshold, stats, expanded, result>>
      BY <1>5 DEF Done, vars, shared
    <2>2. ResultKept'
      BY <1>0, <2>1 DEF ResultKept
    <2> QED
      BY <1>1, <1>3, <2>1, <2>2 DEF SoundInv
  <1> QED
    BY <1>2, <1>4, <1>5 DEF Next

\* The invariant holds in every state of every search.
THEOREM SoundInvariant == Spec => []SoundInv
  BY SoundInit, SoundStep, PTL DEF Spec
-----------------------------------------------------------------------------
(***************************************************************************)
(* What follows.                                                           *)
(***************************************************************************)

\* Items with different keys are different.
LEMMA KeysApart ==
    ASSUME NEW p, NEW q, Apart(KeysOf(p), KeysOf(q))
    PROVE  ToSet(p) \cap ToSet(q) = {}
  BY DEF Apart, KeysOf, ToSet

\* The items of a thread, in one sequence.
LEMMA ItemsOfThread ==
    ASSUME NEW S, NEW p \in Seq(S), NEW q \in Seq(S)
    PROVE  /\ KeysOf(p \o q) = KeysOf(p) \cup KeysOf(q)
           /\ Distinct(p) /\ Distinct(q) /\ Apart(KeysOf(p), KeysOf(q)) => Distinct(p \o q)
  <1> DEFINE t == p \o q
             m == Len(p)
             n == Len(q)
  <1>1. /\ m \in Nat /\ n \in Nat /\ DOMAIN p = 1 .. m /\ DOMAIN q = 1 .. n
        /\ DOMAIN t = 1 .. m + n
        /\ \A i \in 1 .. m + n : t[i] = IF i <= m THEN p[i] ELSE q[i - m]
    OBVIOUS
  <1> HIDE DEF t, m, n
  <1>2. /\ \A i \in 1 .. m : i \in 1 .. m + n /\ t[i] = p[i]
        /\ \A i \in 1 .. n : i + m \in 1 .. m + n /\ t[i + m] = q[i]
        /\ \A i \in 1 .. m + n : i \in 1 .. m \/ (i - m \in 1 .. n /\ t[i] = q[i - m])
    BY <1>1
  <1>3. KeysOf(t) \subseteq KeysOf(p) \cup KeysOf(q)
    BY <1>1, <1>2 DEF KeysOf
  <1>4. KeysOf(p) \subseteq KeysOf(t) /\ KeysOf(q) \subseteq KeysOf(t)
    BY <1>1, <1>2 DEF KeysOf
  <1>5. ASSUME Distinct(p), Distinct(q), Apart(KeysOf(p), KeysOf(q)) PROVE Distinct(t)
    <2>1. ASSUME NEW i \in 1 .. m + n, NEW j \in 1 .. m + n, KeyOf(t[i]) = KeyOf(t[j])
          PROVE  i = j
      <3>1. CASE i \in 1 .. m /\ j \in 1 .. m
        BY <1>1, <1>2, <1>5, <2>1, <3>1 DEF Distinct
      <3>2. CASE i \in 1 .. m /\ j \notin 1 .. m
        <4>1. KeyOf(t[i]) \in KeysOf(p)
          BY <1>1, <1>2, <3>2 DEF KeysOf
        <4>2. KeyOf(t[j]) \in KeysOf(q)
          BY <1>1, <1>2, <2>1, <3>2 DEF KeysOf
        <4> QED
          BY <1>5, <2>1, <4>1, <4>2 DEF Apart
      <3>3. CASE i \notin 1 .. m /\ j \in 1 .. m
        <4>1. KeyOf(t[j]) \in KeysOf(p)
          BY <1>1, <1>2, <3>3 DEF KeysOf
        <4>2. KeyOf(t[i]) \in KeysOf(q)
          BY <1>1, <1>2, <2>1, <3>3 DEF KeysOf
        <4> QED
          BY <1>5, <2>1, <4>1, <4>2 DEF Apart
      <3>4. CASE i \notin 1 .. m /\ j \notin 1 .. m
        <4>1. i - m \in DOMAIN q /\ j - m \in DOMAIN q /\ t[i] = q[i - m] /\ t[j] = q[j - m]
          BY <1>1, <1>2, <2>1, <3>4
        <4>2. i - m = j - m
          BY <1>5, <2>1, <4>1 DEF Distinct
        <4> QED
          BY <1>1, <4>2
      <3> QED
        BY <3>1, <3>2, <3>3, <3>4
    <2> QED
      BY <1>1, <2>1 DEF Distinct
  <1> QED
    BY <1>3, <1>4, <1>5 DEF t

\* However the threads split their work and take it from each other, no work
\* item is in two places at a time, and none is resolved again (search_batch_inner
\* and the spawns of prove_all_with_stats).
THEOREM WorkIsDoneOnce == Spec => []WorkIsNotDuplicated
  <1>1. SoundInv => WorkIsNotDuplicated
    <2> SUFFICES ASSUME SoundInv PROVE WorkIsNotDuplicated
      OBVIOUS
    <2>1. Typed /\ Unique
      BY DEF SoundInv
    <2>2. ASSUME NEW q, Distinct(q) PROVE IsInjective(q)
      BY <2>2 DEF Distinct, IsInjective
    <2>3. ASSUME NEW q, Apart(KeysOf(q), ExpandedKeys) PROVE ToSet(q) \cap expanded = {}
      BY <2>3 DEF Apart, KeysOf, ExpandedKeys, ToSet
    <2>4. ASSUME NEW w \in Workers
          PROVE  Distinct(ItemsOf(w)) /\ KeysOf(ItemsOf(w)) \subseteq Held(worker[w])
      <3>1. worker[w].batch \in Seq(ItemType) /\ worker[w].acc \in Seq(ItemType)
        BY <2>1, WorkerFields
      <3>2. HeldOnce(worker[w])
        BY <2>1 DEF Unique
      <3> QED
        BY <3>1, <3>2, ItemsOfThread DEF ItemsOf, HeldOnce, Held, BatchKeys, AccKeys
    <2>5. ASSUME NEW w \in Workers
          PROVE  /\ IsInjective(ItemsOf(w)) /\ ToSet(ItemsOf(w)) \cap expanded = {}
                 /\ \A b \in jobs : ToSet(ItemsOf(w)) \cap ToSet(b) = {}
                 /\ \A v \in Workers \ {w} : ToSet(ItemsOf(w)) \cap ToSet(ItemsOf(v)) = {}
      <3>1. ToSet(ItemsOf(w)) \cap expanded = {}
        <4>1. Apart(KeysOf(ItemsOf(w)), ExpandedKeys)
          BY <2>1, <2>4 DEF Unique, Apart
        <4> QED
          BY <2>3, <4>1
      <3>2. ASSUME NEW b \in jobs PROVE ToSet(ItemsOf(w)) \cap ToSet(b) = {}
        <4>1. Apart(KeysOf(ItemsOf(w)), KeysOf(b))
          BY <2>1, <2>4 DEF Unique, Apart
        <4> QED
          BY <4>1, KeysApart
      <3>3. ASSUME NEW v \in Workers \ {w} PROVE ToSet(ItemsOf(w)) \cap ToSet(ItemsOf(v)) = {}
        <4>1. Apart(KeysOf(ItemsOf(w)), KeysOf(ItemsOf(v)))
          BY <2>1, <2>4, <3>3 DEF Unique, Apart
        <4> QED
          BY <4>1, KeysApart
      <3> QED
        BY <2>2, <2>4, <3>1, <3>2, <3>3
    <2>6. \A b \in jobs : IsInjective(b) /\ ToSet(b) \cap expanded = {}
      BY <2>1, <2>2, <2>3 DEF Unique
    <2>7. \A b, c \in jobs : b # c => ToSet(b) \cap ToSet(c) = {}
      BY <2>1, KeysApart DEF Unique
    <2> QED
      BY <2>5, <2>6, <2>7 DEF WorkIsNotDuplicated
  <1> QED
    BY <1>1, SoundInvariant, PTL

\* Whatever the threads do, and whenever the search is cut short, what
\* prove_all_with_stats returns are proofs, none of them twice, best first.
THEOREM ResultIsProofs == Spec => []ResultIsSound
  <1>1. SoundInv => ResultIsSound
    <2> SUFFICES ASSUME SoundInv, Returned PROVE
            /\ Found \subseteq AllProofs
            /\ Cardinality(Found) = Len(result.proofs)
            /\ \A i, j \in DOMAIN result.proofs :
                  i < j => result.proofs[i].sim >= result.proofs[j].sim
            /\ MaxProofs # NoLimit => Len(result.proofs) <= MaxProofs
      BY DEF ResultIsSound
    <2>1. /\ result.proofs = leaves /\ LeavesKept /\ Unique
          /\ leaves \in Seq(DerivedProofs)
      BY DEF SoundInv, Returned, ResultKept, AllDerived
    <2>2. /\ DOMAIN leaves = 1 .. Len(leaves) /\ Len(leaves) \in Nat
          /\ \A i \in DOMAIN leaves : leaves[i] \in DerivedProofs
      BY <2>1
    <2>3. ASSUME NEW i \in DOMAIN leaves PROVE Shown(leaves[i]) \in AllProofs
      <3> DEFINE s == leaves[i]
      <3>1. /\ s \in StepType /\ s.depth + 1 \in 1 .. LongestProof /\ s.resolvent = Empty
        BY <2>2 DEF DerivedProofs, DerivedSteps, Derived
      <3>2. PICK d \in Derivations[s.depth + 1] :
               d.end = s.resolvent /\ d.path = s.path /\ IsLeast(s.sim, d.sims)
        BY <2>2 DEF DerivedProofs, DerivedSteps, Derived
      <3>3. Min(d.sims) = s.sim
        <4>1. \A x \in d.sims : (\A y \in d.sims : x =< y) => x = s.sim
          BY <3>2 DEF IsLeast
        <4>2. s.sim \in d.sims /\ \A y \in d.sims : s.sim =< y
          BY <3>2 DEF IsLeast
        <4> HIDE DEF s
        <4> QED
          BY <4>1, <4>2 DEF Min
      <3>4. s.sim > InitialThreshold
        BY <3>1, SimsAboveThreshold DEF StepType
      <3>5. Shown(s) = ProofOf(d)
        BY <3>2, <3>3 DEF Shown, ProofOf
      <3> HIDE DEF s
      <3>6. d \in UNION { Derivations[n] : n \in 1 .. LongestProof }
        BY <3>1, <3>2
      <3>7. ProofOf(d).sim > InitialThreshold
        BY <3>3, <3>4 DEF ProofOf
      <3>8. ProofOf(d) \in AllProofs
        BY <3>1, <3>2, <3>6, <3>7 DEF AllProofs
      <3> QED
        BY <3>5, <3>8 DEF s
    <2>4. Found \subseteq AllProofs
      BY <2>1, <2>3 DEF Found
    <2>5. Cardinality(Found) = Len(result.proofs)
      <3> DEFINE f == [i \in 1 .. Len(leaves) |-> Shown(leaves[i])]
      <3>1. \A i, j \in 1 .. Len(leaves) : f[i] = f[j] => i = j
        <4>1. ASSUME NEW i \in DOMAIN leaves, NEW j \in DOMAIN leaves,
                     Shown(leaves[i]) = Shown(leaves[j])
              PROVE  i = j
          <5>1. leaves[i].path = leaves[j].path
            BY <4>1 DEF Shown
          <5>2. leaves[i].resolvent = Empty /\ leaves[j].resolvent = Empty
            BY <2>2 DEF DerivedProofs
          <5>3. KeyOf(AsItems(leaves)[i]) = KeyOf(AsItems(leaves)[j])
            BY <5>1, <5>2 DEF KeyOf, AsItems, ItemOf
          <5>4. Distinct(AsItems(leaves)) /\ DOMAIN AsItems(leaves) = DOMAIN leaves
            BY <2>1 DEF Unique, AsItems
          <5> QED
            BY <5>3, <5>4 DEF Distinct
        <4> QED
          BY <2>2, <4>1
      <3>2. /\ f \in [1 .. Len(leaves) -> Found]
            /\ \A p \in Found : \E i \in 1 .. Len(leaves) : f[i] = p
        BY <2>1, <2>2 DEF Found
      <3> HIDE DEF f
      <3>3. f \in Bijection(1 .. Len(leaves), Found)
        BY <3>1, <3>2 DEF Bijection, Injection, Surjection, IsInjective
      <3>4. /\ IsFiniteSet(1 .. Len(leaves))
            /\ Cardinality(1 .. Len(leaves)) = Len(leaves)
        <4>1. Len(leaves) \in Nat /\ 1 \in Int /\ Len(leaves) \in Int
          BY <2>2
        <4>2. /\ IsFiniteSet(1 .. Len(leaves))
              /\ Cardinality(1 .. Len(leaves)) =
                    IF 1 > Len(leaves) THEN 0 ELSE Len(leaves) - 1 + 1
          BY <4>1, FS_Interval
        <4> QED
          BY <4>1, <4>2
      <3>5. ExistsBijection(1 .. Len(leaves), Found)
        BY <3>3 DEF ExistsBijection
      <3> QED
        BY <2>1, <3>4, <3>5, FS_Bijection
    <2> QED
      BY <2>1, <2>4, <2>5 DEF LeavesKept
  <1> QED
    BY <1>1, SoundInvariant, PTL
-----------------------------------------------------------------------------
(***************************************************************************)
(* The statistics.  Every item that was resolved is accounted for by one   *)
(* thread, until its batch ends, and then by the shared statistics.        *)
(***************************************************************************)

\* n is one more than the depth of the deepest of the items.
Deepest(n, items) ==
    /\ n \in Nat /\ \A i \in items : Depth(i) + 1 <= n
    /\ n = 0 \/ \E i \in items : n = Depth(i) + 1

\* What the statistics say of the items that they account for.
Counted(s, items) ==
    /\ s.attempted = NumClauses * Cardinality(items)
    /\ s.successful <= s.attempted
    /\ Deepest(s.depth, items)

\* All but the item in hand.
Through(me, items) == IF Busy(me) THEN items \ {me.item} ELSE items

\* A thread's account: of the item in hand, it has tried the clauses up to the
\* current one.
Account(me, items) ==
    /\ me.pc = "idle" => items = {}
    /\ Busy(me) => me.item \in items
    /\ me.stats.attempted = NumClauses * Cardinality(Through(me, items))
    /\ me.stats.successful <= me.stats.attempted
    /\ Deepest(me.stats.depth, items)
    /\ me.pc \in {"clauses", "resolve"} => me.successes <= me.clause - 1
    /\ me.pc \in {"steps", "insert"} => me.successes <= me.clause

Shares(all, synced, own) ==
    /\ all = synced \cup (UNION { own[w] : w \in Workers })
    /\ \A w \in Workers : Apart(own[w], synced)
    /\ \A v, w \in Workers : v # w => Apart(own[v], own[w])

Accounted ==
    /\ IsFiniteSet(expanded)
    /\ \E synced \in SUBSET expanded, own \in [Workers -> SUBSET expanded] :
          /\ Shares(expanded, synced, own)
          /\ Counted(stats, synced)
          /\ \A w \in Workers : Account(worker[w], own[w])

\* The depths of work items are numbers.
LEMMA DepthType == \A i \in ItemType : Depth(i) + 1 \in Nat
  <1> SUFFICES ASSUME NEW i \in ItemType PROVE Depth(i) + 1 \in Nat
    OBVIOUS
  <1>1. IsRoot(i) \/ i.parent \in StepType
    BY DEF ItemType, IsRoot
  <1>2. i.parent \in StepType => i.parent.depth \in Nat
    BY SearchAssumption DEF StepType, Depths
  <1> QED
    BY <1>1, <1>2 DEF Depth

\* The deepest of the items of two sets.
LEMMA DeepestOfBoth ==
    ASSUME NEW S \in SUBSET ItemType, NEW T \in SUBSET ItemType, NEW m, NEW n,
           Deepest(m, S), Deepest(n, T)
    PROVE  Deepest(MaxOf(m, n), S \cup T)
  <1>1. m \in Nat /\ n \in Nat /\ \A i \in S \cup T : Depth(i) + 1 \in Nat
    BY DepthType DEF Deepest
  <1>2. \A i \in S \cup T : Depth(i) + 1 <= MaxOf(m, n)
    BY <1>1 DEF Deepest, MaxOf
  <1>3. MaxOf(m, n) = 0 \/ \E i \in S \cup T : MaxOf(m, n) = Depth(i) + 1
    BY <1>1 DEF Deepest, MaxOf
  <1> QED
    BY <1>1, <1>2, <1>3 DEF Deepest, MaxOf

\* A single item.
LEMMA DeepestOfOne == \A i \in ItemType : Deepest(Depth(i) + 1, {i})
  BY DepthType DEF Deepest

\* The statistics of two sets of items add up.
LEMMA CountedBoth ==
    ASSUME NEW S \in SUBSET ItemType, NEW T \in SUBSET ItemType,
           IsFiniteSet(S), IsFiniteSet(T), Apart(T, S),
           NEW s \in StatsType, NEW t \in StatsType, Counted(s, S), Counted(t, T)
    PROVE  Counted([s EXCEPT !.attempted = @ + t.attempted,
                             !.successful = @ + t.successful,
                             !.width = MaxOf(@, t.width),
                             !.depth = MaxOf(@, t.depth)], S \cup T)
  <1> DEFINE sum == [s EXCEPT !.attempted = @ + t.attempted,
                              !.successful = @ + t.successful,
                              !.width = MaxOf(@, t.width),
                              !.depth = MaxOf(@, t.depth)]
             m == Cardinality(S)
             n == Cardinality(T)
  <1>1. /\ sum.attempted = s.attempted + t.attempted
        /\ sum.successful = s.successful + t.successful
        /\ sum.depth = MaxOf(s.depth, t.depth)
    BY DEF StatsType
  <1>2. Cardinality(S \cup T) = m + n
    <2>1. S \cap T = {}
      BY DEF Apart
    <2>2. Cardinality(S \cup T) = m + n - Cardinality(S \cap T)
      BY FS_Union
    <2>3. m \in Nat /\ n \in Nat /\ Cardinality(S \cap T) = 0
      BY <2>1, FS_EmptySet, FS_CardinalityType
    <2> QED
      BY <2>2, <2>3
  <1>3. NumClauses \in Nat /\ m \in Nat /\ n \in Nat
    BY SearchAssumption, FS_CardinalityType
  <1>4. /\ s.attempted \in Nat /\ s.successful \in Nat
        /\ t.attempted \in Nat /\ t.successful \in Nat
    BY DEF StatsType
  <1>5. s.attempted = NumClauses * m /\ t.attempted = NumClauses * n
    BY DEF Counted
  <1> HIDE DEF sum, m, n
  <1>6. NumClauses * (m + n) = NumClauses * m + NumClauses * n
    BY <1>3
  <1>7. sum.attempted = NumClauses * Cardinality(S \cup T)
    BY <1>1, <1>2, <1>5, <1>6
  <1>8. sum.successful <= sum.attempted
    BY <1>1, <1>4 DEF Counted
  <1>9. Deepest(sum.depth, S \cup T)
    BY <1>1, DeepestOfBoth DEF Counted
  <1> QED
    BY <1>7, <1>8, <1>9 DEF Counted, sum

\* The end of a batch.
EndsAccount(old, new) ==
    /\ ~ Busy(old) /\ ~ Busy(new) /\ new.stats = NoStats
    /\ stats' = Synced(old.stats) /\ UNCHANGED expanded

\* A goal is resolved.
OpensAccount(old, new) ==
    LET item == Head(old.batch) IN
    /\ ~ Busy(old) /\ old.batch # <<>> /\ item \notin expanded
    /\ new.pc = "clauses" /\ new.item = item /\ new.clause = 1 /\ new.successes = 0
    /\ new.stats = [old.stats EXCEPT !.depth = MaxOf(@, Depth(item) + 1)]
    /\ expanded' = expanded \cup {item}
    /\ UNCHANGED stats

\* The account stays as it is or gets what the thread had in hand.
GoesOnWithAccount(old, new) ==
    /\ UNCHANGED expanded
    /\ stats'.attempted = stats.attempted /\ stats'.successful = stats.successful
    /\ stats'.depth = stats.depth
    /\ \A items : Account(old, items) /\ IsFiniteSet(items) => Account(new, items)

\* What the steps of a thread do to the statistics.
LEMMA StepAccounts ==
    ASSUME SoundInv, NEW w \in Workers, WorkerStep(w)
    PROVE  /\ Alone(w)
           /\ \/ EndsAccount(worker[w], worker'[w])
              \/ OpensAccount(worker[w], worker'[w])
              \/ GoesOnWithAccount(worker[w], worker'[w])
  <1> DEFINE old == worker[w]
             new == worker'[w]
  <1>1. Typed /\ Shaped /\ Unique
    BY DEF SoundInv
  <1>2. Alone(w) /\ Moved(old, new)
    BY <1>1, StepMoves
  <1>3. /\ old.successes \in Nat /\ old.clause \in 1 .. NumClauses + 1
        /\ old.stats \in StatsType /\ stats \in StatsType /\ NumClauses \in Nat
        /\ old.batch \in Seq(ItemType)
        /\ old.stats.attempted \in Nat /\ old.stats.successful \in Nat
        /\ Shape(old) /\ Placed(old)
    BY <1>1, SearchAssumption DEF Typed, TypeOK, WorkerType, StatsType, Shaped
  <1>4. old.pc \in {"steps", "insert"} => old.clause \in 1 .. NumClauses
    BY <1>3 DEF Placed, Clauses
  <1>5. old.pc = "idle" => old.stats = NoStats
    BY <1>3 DEF Shape, Idle
  <1> HIDE DEF old, new
  <1>10. CASE Started(old, new)
    <2>1. /\ ~ Busy(old) /\ ~ Busy(new) /\ new.pc = "goals" /\ old.pc = "idle"
          /\ new.stats = old.stats /\ UNCHANGED <<expanded, stats>>
      BY <1>5, <1>10 DEF Started, Busy, SharedKept
    <2> QED
      BY <1>2, <2>1 DEF GoesOnWithAccount, Account, Through, old, new
  <1>11. CASE DroppedGoal(old, new) \/ ReachedQuota(old, new) \/ SpawnedBatch(old, new)
    <2>1. /\ ~ Busy(old) /\ ~ Busy(new) /\ new.pc \in {"return", "quota", "goals"}
          /\ new.stats = old.stats /\ UNCHANGED <<expanded, stats>>
      BY <1>11 DEF DroppedGoal, ReachedQuota, SpawnedBatch, Busy, SharedKept
    <2> QED
      BY <1>2, <2>1 DEF GoesOnWithAccount, Account, Through, old, new
  <1>12. CASE TookGoal(old, new)
    <2>1. Head(old.batch) \notin expanded
      <3>1. KeyOf(Head(old.batch)) \in Held(old)
        BY <1>3, <1>12, KeysTail DEF TookGoal, Held, BatchKeys
      <3> QED
        BY <1>1, <3>1 DEF Unique, Apart, ExpandedKeys, old
    <2>2. OpensAccount(old, new)
      BY <1>12, <2>1 DEF TookGoal, OpensAccount, Busy, SharedKept
    <2> QED
      BY <1>2, <2>2 DEF old, new
  <1>13. CASE Skipped(old, new) \/ BeganClause(old, new) \/ TriedLiteral(old, new)
    <2>1. /\ old.pc \in {"clauses", "resolve"} /\ new.pc \in {"clauses", "resolve"}
          /\ new.clause \in {old.clause, old.clause + 1} /\ new.successes = old.successes
          /\ new.stats = old.stats /\ new.item = old.item /\ UNCHANGED <<expanded, stats>>
      BY <1>13 DEF Skipped, BeganClause, TriedLiteral, SameGoal, SharedKept
    <2>2. old.successes <= old.clause - 1 => new.successes <= new.clause - 1
      BY <1>3, <2>1
    <2> QED
      BY <1>2, <2>1, <2>2 DEF GoesOnWithAccount, Account, Through, Busy, old, new
  <1>14. CASE GotSteps(old, new)
    <2>1. /\ old.pc = "resolve" /\ new.pc = "steps" /\ new.clause = old.clause
          /\ new.successes \in {old.successes, old.successes + 1}
          /\ new.stats = old.stats /\ new.item = old.item /\ UNCHANGED <<expanded, stats>>
      BY <1>14 DEF GotSteps, SameGoal, SharedKept
    <2>2. old.successes <= old.clause - 1 => new.successes <= new.clause
      BY <1>3, <2>1
    <2> QED
      BY <1>2, <2>1, <2>2 DEF GoesOnWithAccount, Account, Through, Busy, old, new
  <1>15. CASE RecordedLeaf(old, new) \/ DroppedStep(old, new) \/ PushedStep(old, new)
              \/ AboutToInsert(old, new)
    <2>1. /\ old.pc \in {"steps", "insert"} /\ new.pc \in {"steps", "insert"}
          /\ new.clause = old.clause /\ new.successes = old.successes
          /\ new.item = old.item /\ UNCHANGED expanded
          /\ new.stats.attempted = old.stats.attempted
          /\ new.stats.successful = old.stats.successful
          /\ new.stats.depth = old.stats.depth
      BY <1>15 DEF RecordedLeaf, DroppedStep, PushedStep, AboutToInsert, SameGoal, DoneWithStep
    <2>2. /\ stats'.attempted = stats.attempted /\ stats'.depth = stats.depth
          /\ stats'.successful = stats.successful
      <3>1. stats' = stats \/ stats' = [stats EXCEPT !.discarded = @ + 1]
        BY <1>15 DEF RecordedLeaf, DroppedStep, PushedStep, AboutToInsert, SharedKept
      <3> QED
        BY <1>3, <3>1 DEF StatsType
    <2> QED
      BY <1>2, <2>1, <2>2 DEF GoesOnWithAccount, Account, Through, Busy, old, new
  <1>16. CASE LeftClause(old, new)
    <2>1. /\ old.pc = "steps" /\ new.pc = "clauses" /\ new.clause = old.clause + 1
          /\ new.successes = old.successes
          /\ new.stats = old.stats /\ new.item = old.item /\ UNCHANGED <<expanded, stats>>
      BY <1>16 DEF LeftClause, SameGoal, SharedKept
    <2>2. old.successes <= old.clause => new.successes <= new.clause - 1
      BY <1>3, <2>1
    <2> QED
      BY <1>2, <2>1, <2>2 DEF GoesOnWithAccount, Account, Through, Busy, old, new
  <1>17. CASE LeftGoal(old, new)
    <2>1. /\ old.pc = "clauses" /\ old.clause = NumClauses + 1 /\ new.pc = "return"
          /\ new.stats.attempted = old.stats.attempted + NumClauses
          /\ new.stats.successful = old.stats.successful + old.successes
          /\ new.stats.depth = old.stats.depth
          /\ UNCHANGED <<expanded, stats>>
      BY <1>3, <1>17 DEF LeftGoal, SharedKept, StatsType
    <2>2. Busy(old) /\ ~ Busy(new)
      BY <2>1 DEF Busy
    <2>3. ASSUME NEW items, Account(old, items), IsFiniteSet(items)
          PROVE  Account(new, items)
      <3> DEFINE n == Cardinality(items \ {old.item})
      <3>1. /\ old.item \in items
            /\ old.stats.attempted = NumClauses * n
            /\ old.stats.successful <= old.stats.attempted
            /\ old.successes <= old.clause - 1
        BY <2>1, <2>2, <2>3 DEF Account, Through
      <3>2. Cardinality(items) \in Nat /\ n = Cardinality(items) - 1
        BY <2>3, <3>1, FS_RemoveElement, FS_CardinalityType
      <3> HIDE DEF n
      <3>3. NumClauses * Cardinality(items) = NumClauses * n + NumClauses
        <4>1. n + 1 = Cardinality(items) /\ n \in Int
          BY <3>2
        <4>2. NumClauses * (n + 1) = NumClauses * n + NumClauses
          BY <1>3, <4>1
        <4> QED
          BY <4>1, <4>2
      <3>4. new.stats.attempted = NumClauses * Cardinality(Through(new, items))
        BY <2>1, <2>2, <3>1, <3>3 DEF Through
      <3>5. new.stats.successful <= new.stats.attempted
        BY <1>3, <2>1, <3>1
      <3> QED
        BY <2>1, <2>2, <2>3, <3>4, <3>5 DEF Account
    <2> QED
      BY <1>2, <2>1, <2>3 DEF GoesOnWithAccount, old, new
  <1>18. CASE EndedBatch(old, new)
    <2>1. EndsAccount(old, new)
      BY <1>18 DEF EndedBatch, EndsAccount, Busy, Idle
    <2> QED
      BY <1>2, <2>1 DEF old, new
  <1> QED
    BY <1>2, <1>10, <1>11, <1>12, <1>13, <1>14, <1>15, <1>16, <1>17, <1>18 DEF Moved

\* At the start nothing is to be accounted for.
LEMMA AccountedInit == Init => Accounted
  <1> SUFFICES ASSUME Init PROVE Accounted
    OBVIOUS
  <1> DEFINE own == [w \in Workers |-> {}]
  <1>1. /\ expanded = {} /\ stats = NoStats /\ \A w \in Workers : worker[w] = Idle
        /\ NumClauses \in Nat
    BY SearchAssumption DEF Init
  <1>2. IsFiniteSet({}) /\ Cardinality({}) = 0
    BY FS_EmptySet
  <1>3. Counted(NoStats, {})
    BY <1>1, <1>2 DEF Counted, NoStats, Deepest
  <1>4. Account(Idle, {})
    BY <1>1, <1>2 DEF Account, Through, Busy, Idle, NoStats, Deepest
  <1>5. /\ own \in [Workers -> SUBSET expanded] /\ \A w \in Workers : own[w] = {}
        /\ {} \in SUBSET expanded
    OBVIOUS
  <1>6. Shares(expanded, {}, own)
    BY <1>1, <1>5 DEF Shares, Apart
  <1> QED
    BY <1>1, <1>2, <1>3, <1>4, <1>5, <1>6 DEF Accounted

\* Every step keeps the account.
LEMMA AccountedStep == SoundInv /\ Accounted /\ [Next]_vars => Accounted'
  <1> SUFFICES ASSUME SoundInv, Accounted, [Next]_vars PROVE Accounted'
    OBVIOUS
  <1>1. PICK synced \in SUBSET expanded, own \in [Workers -> SUBSET expanded] :
           /\ Shares(expanded, synced, own)
           /\ Counted(stats, synced)
           /\ \A w \in Workers : Account(worker[w], own[w])
    BY DEF Accounted
  <1>2. /\ IsFiniteSet(expanded) /\ expanded \subseteq ItemType
        /\ stats \in StatsType /\ worker \in [Workers -> WorkerType]
    BY DEF Accounted, SoundInv, Typed, TypeOK
  <1>3. \A S \in SUBSET expanded : IsFiniteSet(S) /\ S \in SUBSET ItemType
    BY <1>2, FS_Subset
  <1>4. ASSUME UNCHANGED <<expanded, stats, worker>> PROVE Accounted'
    BY <1>1, <1>2, <1>4 DEF Accounted, Shares
  <1>5. ASSUME NEW w \in Workers, WorkerStep(w) PROVE Accounted'
    <2> DEFINE old == worker[w]
               new == worker'[w]
    <2>1. Alone(w) /\ (EndsAccount(old, new) \/ OpensAccount(old, new)
                          \/ GoesOnWithAccount(old, new))
      BY <1>5, StepAccounts
    <2>2. /\ Account(old, own[w]) /\ own[w] \in SUBSET expanded /\ IsFiniteSet(own[w])
          /\ old.stats \in StatsType
          /\ \A v \in Workers : v # w => worker'[v] = worker[v]
      BY <1>1, <1>2, <1>3, <2>1 DEF Alone, WorkerType
    <2> HIDE DEF old, new
    <2>3. CASE EndsAccount(old, new)
      <3> DEFINE both == synced \cup own[w]
                 left == [own EXCEPT ![w] = {}]
      <3>1. Counted(old.stats, own[w])
        BY <2>2, <2>3 DEF EndsAccount, Account, Through, Counted
      <3>2. Apart(own[w], synced)
        BY <1>1 DEF Shares
      <3>3. Counted(stats', both)
        BY <1>1, <1>2, <1>3, <2>2, <2>3, <3>1, <3>2, CountedBoth DEF EndsAccount, Synced
      <3>4. /\ left \in [Workers -> SUBSET expanded] /\ left[w] = {}
            /\ \A v \in Workers : v # w => left[v] = own[v]
        BY <1>1
      <3>5. both \in SUBSET expanded
        BY <2>2
      <3>6. Shares(expanded, both, left)
        <4> HIDE DEF left
        <4>1. expanded = both \cup (UNION { left[v] : v \in Workers })
          BY <1>1, <3>4 DEF Shares
        <4>2. \A v \in Workers : Apart(left[v], both)
          BY <1>1, <3>4 DEF Shares, Apart
        <4>3. \A u, v \in Workers : u # v => Apart(left[u], left[v])
          BY <1>1, <3>4 DEF Shares, Apart
        <4> QED
          BY <4>1, <4>2, <4>3 DEF Shares
      <3>7. Account(new, {})
        BY <2>3, SearchAssumption, FS_EmptySet
        DEF EndsAccount, Account, Through, NoStats, Deepest, Busy
      <3> HIDE DEF both, left
      <3>8. \A v \in Workers : Account(worker'[v], left[v])
        BY <1>1, <2>2, <3>4, <3>7 DEF new
      <3> QED
        BY <1>2, <2>3, <3>3, <3>4, <3>5, <3>6, <3>8 DEF Accounted, EndsAccount, Shares
    <2>4. CASE OpensAccount(old, new)
      <3> DEFINE item == Head(old.batch)
                 more == [own EXCEPT ![w] = @ \cup {item}]
      <3>1. item \in ItemType
        <4>1. old.batch \in Seq(ItemType) /\ old.batch # <<>>
          BY <1>2, <2>4 DEF OpensAccount, WorkerType, old
        <4> QED
          BY <4>1
      <3>2. item \notin expanded /\ expanded' = expanded \cup {item}
        BY <2>4 DEF OpensAccount
      <3>3. /\ more \in [Workers -> SUBSET (expanded \cup {item})]
            /\ more[w] = own[w] \cup {item}
            /\ \A v \in Workers : v # w => more[v] = own[v]
        BY <1>1
      <3>4. Account(new, own[w] \cup {item})
        <4>1. /\ ~ Busy(old) /\ Busy(new) /\ new.pc = "clauses" /\ new.item = item
              /\ new.clause = 1 /\ new.successes = 0
              /\ new.stats.attempted = old.stats.attempted
              /\ new.stats.successful = old.stats.successful
              /\ new.stats.depth = MaxOf(old.stats.depth, Depth(item) + 1)
          BY <2>2, <2>4 DEF OpensAccount, Busy, StatsType
        <4>2. (own[w] \cup {item}) \ {item} = own[w]
          BY <2>2, <3>2
        <4>3. Deepest(new.stats.depth, own[w] \cup {item})
          <5>1. Deepest(old.stats.depth, own[w]) /\ Deepest(Depth(item) + 1, {item})
            BY <2>2, <3>1, DeepestOfOne DEF Account
          <5> HIDE DEF item
          <5>2. own[w] \in SUBSET ItemType /\ {item} \in SUBSET ItemType
            BY <1>3, <2>2, <3>1
          <5> QED
            BY <4>1, <5>1, <5>2, DeepestOfBoth
        <4> HIDE DEF item
        <4> QED
          BY <2>2, <4>1, <4>2, <4>3 DEF Account, Through
      <3> HIDE DEF item, more
      <3>5. Shares(expanded', synced, more)
        <4>1. expanded' = synced \cup (UNION { more[v] : v \in Workers })
          BY <1>1, <3>2, <3>3 DEF Shares
        <4>2. \A v \in Workers : Apart(more[v], synced)
          BY <1>1, <3>2, <3>3 DEF Shares, Apart
        <4>3. \A u, v \in Workers : u # v => Apart(more[u], more[v])
          BY <1>1, <3>2, <3>3 DEF Shares, Apart
        <4> QED
          BY <4>1, <4>2, <4>3 DEF Shares
      <3>6. \A v \in Workers : Account(worker'[v], more[v])
        BY <1>1, <2>2, <3>3, <3>4 DEF new
      <3>7. IsFiniteSet(expanded') /\ Counted(stats', synced)
        BY <1>1, <1>2, <2>4, <3>2, FS_AddElement DEF OpensAccount
      <3>8. synced \in SUBSET expanded' /\ more \in [Workers -> SUBSET expanded']
        BY <3>2, <3>3
      <3> QED
        BY <3>5, <3>6, <3>7, <3>8 DEF Accounted
    <2>5. CASE GoesOnWithAccount(old, new)
      <3>1. Account(new, own[w]) /\ expanded' = expanded
        BY <2>2, <2>5 DEF GoesOnWithAccount
      <3>2. Counted(stats', synced)
        BY <1>1, <2>5 DEF GoesOnWithAccount, Counted
      <3>3. \A v \in Workers : Account(worker'[v], own[v])
        BY <1>1, <2>2, <3>1 DEF new
      <3> QED
        BY <1>1, <1>2, <3>1, <3>2, <3>3 DEF Accounted, Shares
    <2> QED
      BY <2>1, <2>3, <2>4, <2>5
  <1>6. CASE Collect
    BY <1>4, <1>6 DEF Collect, shared
  <1>7. CASE Done \/ UNCHANGED vars
    BY <1>4, <1>7 DEF Done, vars, shared
  <1> QED
    BY <1>5, <1>6, <1>7 DEF Next

\* No attempt is lost between a thread's own count and the shared one: when the
\* search returns, the statistics account for every goal that was resolved,
\* once, and for every proof that was dropped (search_proof_step and
\* sync_with_shared_ctx).
THEOREM StatisticsAddUp == Spec => []StatsAddUp
  <1>1. SoundInv /\ Accounted => StatsAddUp
    <2> SUFFICES ASSUME SoundInv, Accounted, Returned PROVE
            /\ result.stats.attempted = NumClauses * Cardinality(expanded)
            /\ result.stats.depth = Max({ Depth(i) + 1 : i \in expanded } \cup {0})
            /\ result.stats.successful <= result.stats.attempted
            /\ result.stats.discarded > 0 => Len(result.proofs) = MaxProofs
      BY DEF StatsAddUp
    <2>1. /\ result.stats = stats /\ result.proofs = leaves /\ LeavesKept
          /\ \A w \in Workers : worker[w].pc = "idle"
          /\ expanded \subseteq ItemType
      BY DEF SoundInv, Returned, ResultKept, Typed, TypeOK
    <2>2. PICK synced \in SUBSET expanded, own \in [Workers -> SUBSET expanded] :
             /\ Shares(expanded, synced, own)
             /\ Counted(stats, synced)
             /\ \A w \in Workers : Account(worker[w], own[w])
      BY DEF Accounted
    <2>3. expanded = synced
      <3>1. \A w \in Workers : own[w] = {}
        BY <2>1, <2>2 DEF Account
      <3> QED
        BY <2>2, <3>1 DEF Shares
    <2>4. stats.depth = Max({ Depth(i) + 1 : i \in expanded } \cup {0})
      <3> DEFINE S == { Depth(i) + 1 : i \in expanded } \cup {0}
                 n == stats.depth
      <3>1. Deepest(n, expanded)
        BY <2>2, <2>3 DEF Counted
      <3>2. \A x \in S : x \in Nat
        BY <2>1, DepthType
      <3>3. n \in S /\ \A x \in S : n >= x
        BY <3>1, <3>2 DEF Deepest
      <3> HIDE DEF S, n
      <3>4. \A x \in S : (\A y \in S : x >= y) => x = n
        BY <3>2, <3>3
      <3>5. Max(S) = n
        BY <3>3, <3>4 DEF Max
      <3> QED
        BY <3>5 DEF S, n
    <2> QED
      BY <2>1, <2>2, <2>3, <2>4 DEF Counted, LeavesKept
  <1>2. Init => Accounted
    BY AccountedInit
  <1>3. SoundInv /\ Accounted /\ [Next]_vars => Accounted'
    BY AccountedStep
  <1>4. Spec => []SoundInv
    BY SoundInvariant
  <1> QED
    BY <1>1, <1>2, <1>3, <1>4, PTL DEF Spec
=============================================================================
