---------------------------- MODULE ProofSearch ----------------------------
(***************************************************************************)
(* The search of ResolutionProverBackend::prove_all_with_stats: the threads *)
(* of a rayon pool take batches of goals, resolve each goal with every     *)
(* clause of the knowledge, record the steps whose resolvent is empty as   *)
(* proofs and collect the others, which they go on with themselves or      *)
(* spawn as new batches.  They share the proofs kept, the threshold that   *)
(* prunes, the resolvents seen and the statistics (SharedProofContext).    *)
(*                                                                         *)
(* What resolve() finds is the input: for a goal and a clause, the list of *)
(* resolvents with the similarity of the unification.  It depends on no    *)
(* state of the search but the threshold.  Clauses are told apart by their *)
(* hash, as in seen_resolvents.                                            *)
(*                                                                         *)
(* Every action makes at most one access to the shared state.              *)
(***************************************************************************)
EXTENDS LeafOrder, FiniteSets

CONSTANTS
    Workers,            \* the threads of the pool
    NoLimit,            \* None
    MaxProofDepth, MaxAttempts, MaxWidth, MaxProofs,
    InitialThreshold,
    SkipSeen, FindHighest, EvalBatchSize,
    Disjunctions,       \* the CNF disjunctions that come up, but the empty one
    Empty,              \* the empty disjunction
    Goals,              \* the inverted goals, in the order of the BTreeSet
    NumClauses,         \* the clauses of the knowledge are 1 .. NumClauses
    Width,              \* number of literals of a disjunction
    ClauseWidth,        \* number of literals of a clause
    Problems            \* what resolve() may find: see ResolutionsType

Clauses == 1 .. NumClauses
Limits == Nat \cup {NoLimit}

ResolutionsType(S) ==
    [Disjunctions -> [Clauses -> Seq([resolvent : Disjunctions \cup {Empty},
                                      sim : S])]]

\* max_proofs = Some(0) and a NaN similarity end in a panic: see ProofContext.
ASSUME SearchAssumption ==
    /\ NoLimit \notin Int
    /\ MaxProofDepth \in Nat /\ EvalBatchSize \in Nat
    /\ MaxAttempts \in Limits /\ MaxWidth \in Limits
    /\ MaxProofs \in Limits \ {0}
    /\ InitialThreshold \in Int
    /\ SkipSeen \in BOOLEAN /\ FindHighest \in BOOLEAN
    /\ Empty \notin Disjunctions
    /\ Goals \in Seq(Disjunctions) /\ IsInjective(Goals)
    /\ NumClauses \in Nat
    /\ Width \in [Disjunctions -> Nat \ {0}]
    /\ ClauseWidth \in [Clauses -> Nat \ {0}]
    /\ \A p \in Problems : p \in ResolutionsType(Int)

VARIABLES
    resolutions,    \* what resolve() finds in this problem
    jobs,           \* batches spawned and not yet started
    worker,         \* the state of each thread
    leaves,         \* scored_leaf_proof_steps
    threshold,      \* min_similarity_threshold
    seen,           \* seen_resolvents
    stats,          \* SharedProofStats
    result,         \* what prove_all_with_stats returns, or Pending
    expanded        \* history: the work items that were resolved

shared == <<leaves, threshold, seen, stats>>
vars == <<resolutions, jobs, worker, shared, result, expanded>>

NoStats == [attempted |-> 0, successful |-> 0, width |-> 0, depth |-> 0,
            discarded |-> 0]
Pending == [stats |-> NoStats]
NoParent == [path |-> <<>>]
NoItem == [goal |-> Empty, parent |-> NoParent]
Unseen == [depth |-> NoLimit]

\* A thread between two jobs.
Idle ==
    [pc |-> "idle", batch |-> <<>>, acc |-> <<>>, item |-> NoItem,
     clause |-> 1, literal |-> 1, found |-> <<>>, successes |-> 0,
     bar |-> InitialThreshold, stats |-> NoStats]

\* The first batch: every inverted goal, without a parent step.
FirstBatch ==
    [i \in DOMAIN Goals |-> [goal |-> Goals[i], parent |-> NoParent]]

Init ==
    /\ resolutions \in Problems
    /\ jobs = {FirstBatch}
    /\ worker = [w \in Workers |-> Idle]
    /\ leaves = <<>>
    /\ threshold = InitialThreshold
    /\ seen = [d \in Disjunctions |-> Unseen]
    /\ stats = NoStats
    /\ result = Pending
    /\ expanded = {}
-----------------------------------------------------------------------------
(***************************************************************************)
(* A proof step: the similarity is that of the step and all its parents;   *)
(* path is the chain of parents and the step itself, each the source, the  *)
(* clause and the position of the literal it was resolved on.              *)
(***************************************************************************)
IsRoot(item) == item.parent = NoParent

Depth(item) == IF IsRoot(item) THEN 0 ELSE item.parent.depth

\* A mistake: the parents' similarities are forgotten.
SimilarityOfStep(item, r) == r.sim

RunningSimilarity(item, r) ==
    IF IsRoot(item) \/ r.sim < item.parent.sim THEN r.sim ELSE item.parent.sim

StepOf(item, c, l, r) ==
    LET edge == [source |-> item.goal, clause |-> c, literal |-> l] IN
    [resolvent |-> r.resolvent,
     sim |-> RunningSimilarity(item, r),
     depth |-> IF IsRoot(item) THEN 0 ELSE item.parent.depth + 1,
     path |-> Append(item.parent.path, edge)]

ItemOf(s) == [goal |-> s.resolvent, parent |-> s]

AtLimit(n, limit) == limit # NoLimit /\ n >= limit

\* The work item is not resolved at all: it is too deep.
TooDeep(item) == ~ IsRoot(item) /\ Depth(item) >= MaxProofDepth

\* Its steps may become work items themselves.
GoesOn(item) == Depth(item) + 1 < MaxProofDepth

TooWide(goal, c) ==
    MaxWidth # NoLimit /\ ClauseWidth[c] + Width[goal] - 2 > MaxWidth

\* A mistake: the similarity of the entry is not looked at.
CoversByDepth(entry, s) == entry # Unseen /\ entry.depth <= s.depth

\* The resolvent was seen at this depth or below and with this similarity or a
\* better one.
Covers(entry, s) ==
    entry # Unseen /\ entry.depth <= s.depth /\ entry.sim >= s.sim

MaxOf(a, b) == IF a >= b THEN a ELSE b
-----------------------------------------------------------------------------
At(w, pc) == worker[w].pc = pc

\* A thread of the pool takes a spawned batch, with a fresh local context.
StartJob(w) ==
    \E b \in jobs :
        /\ At(w, "idle")
        /\ jobs' = jobs \ {b}
        /\ worker' = [worker EXCEPT ![w] =
                         [Idle EXCEPT !.pc = "goals", !.batch = b]]
        /\ UNCHANGED <<resolutions, shared, result, expanded>>

HasGoal(w) == At(w, "goals") /\ worker[w].batch # <<>>

\* A mistake: the clauses are counted from zero.
ExpandingFromZero(w) ==
    [worker[w] EXCEPT !.pc = "clauses", !.batch = Tail(@),
                      !.item = Head(worker[w].batch), !.clause = 0]

\* The worker's state once it has entered the loop over the clauses.
Expanding(w) ==
    LET item == Head(worker[w].batch) IN
    [worker[w] EXCEPT
        !.pc = "clauses", !.batch = Tail(@), !.item = item, !.clause = 1,
        !.successes = 0, !.stats.depth = MaxOf(@, Depth(item) + 1)]

Refused(w) == [worker[w] EXCEPT !.pc = "return", !.batch = Tail(@)]

\* The attempts that the threads have reported are up to the limit.
AttemptsSpent == AtLimit(stats.attempted, MaxAttempts)

\* search_proof_step returns early: too deep, or too many attempts so far.
RefuseGoal(w) ==
    /\ HasGoal(w)
    /\ \/ TooDeep(Head(worker[w].batch))
       \/ AttemptsSpent
    /\ worker' = [worker EXCEPT ![w] = Refused(w)]
    /\ UNCHANGED <<resolutions, jobs, shared, result, expanded>>

AdmitGoal(w) ==
    /\ HasGoal(w)
    /\ ~ TooDeep(Head(worker[w].batch))
    /\ ~ AttemptsSpent
    /\ IF MaxProofs # NoLimit /\ ~ FindHighest
       THEN /\ worker' = [worker EXCEPT ![w].pc = "quota"]
            /\ UNCHANGED expanded
       ELSE /\ worker' = [worker EXCEPT ![w] = Expanding(w)]
            /\ expanded' = expanded \cup {Head(worker[w].batch)}
    /\ UNCHANGED <<resolutions, jobs, shared, result>>

\* A mistake: one proof less is thought enough.
QuotaMetTooSoon == Len(leaves) + 1 >= MaxProofs

QuotaMet == Len(leaves) >= MaxProofs

\* Without find_highest_similarity_proofs, enough proofs end the search.
CheckQuota(w) ==
    /\ At(w, "quota")
    /\ IF QuotaMet
       THEN /\ worker' = [worker EXCEPT ![w] = Refused(w)]
            /\ UNCHANGED expanded
       ELSE /\ worker' = [worker EXCEPT ![w] = Expanding(w)]
            /\ expanded' = expanded \cup {Head(worker[w].batch)}
    /\ UNCHANGED <<resolutions, jobs, shared, result>>
-----------------------------------------------------------------------------
InClauses(w) == At(w, "clauses") /\ worker[w].clause <= NumClauses

SkipWideClause(w) ==
    /\ InClauses(w)
    /\ TooWide(worker[w].item.goal, worker[w].clause)
    /\ worker' = [worker EXCEPT ![w].clause = @ + 1]
    /\ UNCHANGED <<resolutions, jobs, shared, result, expanded>>

BeginResolve(w) ==
    /\ InClauses(w)
    /\ ~ TooWide(worker[w].item.goal, worker[w].clause)
    /\ worker' = [worker EXCEPT ![w].pc = "resolve", ![w].literal = 1,
                                ![w].found = <<>>]
    /\ UNCHANGED <<resolutions, jobs, shared, result, expanded>>

Outcomes(w) == resolutions[worker[w].item.goal][worker[w].clause]

\* resolve() tries the next literal of the clause: unify() compares the
\* similarity with the threshold it loads.
UnifyLiteral(w) ==
    /\ At(w, "resolve")
    /\ LET me == worker[w] IN
        /\ me.literal <= Len(Outcomes(w))
        /\ LET r == Outcomes(w)[me.literal] IN
           worker' = [worker EXCEPT
               ![w].literal = @ + 1,
               ![w].found = IF r.sim <= threshold THEN @
                            ELSE Append(@, StepOf(me.item, me.clause,
                                                  me.literal, r))]
    /\ UNCHANGED <<resolutions, jobs, shared, result, expanded>>

\* resolve() has returned; the threshold is loaded once for all its steps.
LoadThreshold(w) ==
    /\ At(w, "resolve")
    /\ worker[w].literal > Len(Outcomes(w))
    /\ worker' = [worker EXCEPT
           ![w].pc = "steps",
           ![w].successes = IF worker[w].found # <<>> THEN @ + 1 ELSE @,
           ![w].bar = threshold]
    /\ UNCHANGED <<resolutions, jobs, shared, result, expanded>>
-----------------------------------------------------------------------------
HasStep(w) == At(w, "steps") /\ worker[w].found # <<>>

Dropped(w) == [worker[w] EXCEPT !.pc = "steps", !.found = Tail(@)]

\* The step joins results_accumulator.
Pushed(w) ==
    LET s == Head(worker[w].found) IN
    [Dropped(w) EXCEPT !.acc = Append(@, ItemOf(s)),
                       !.stats.width = MaxOf(@, Width[s.resolvent])]

\* A mistake: the vector is cut when it is only as long as max_proofs, unless it
\* would be empty then.
FullTooSoon == leaves # <<>> /\ AtLimit(Len(leaves) + 1, MaxProofs)

\* One more leaf makes the vector longer than max_proofs.
Full == AtLimit(Len(leaves), MaxProofs)

\* An empty resolvent: record_leaf_proof, whose critical section is atomic.
RecordLeafProof(w) ==
    /\ HasStep(w)
    /\ LET s == Head(worker[w].found) IN
        /\ s.resolvent = Empty
        /\ \E p \in 1 .. Len(leaves) + 1 :
              LET sorted == InsertAt(leaves, p, s) IN
                 /\ IsSlot(leaves, s, p)
                 /\ leaves' = IF Full THEN Front(sorted) ELSE sorted
        /\ threshold' = IF Full THEN Last(leaves').sim ELSE threshold
        /\ stats' = IF Full THEN [stats EXCEPT !.discarded = @ + 1] ELSE stats
    /\ worker' = [worker EXCEPT ![w] = Dropped(w)]
    /\ UNCHANGED <<resolutions, jobs, seen, result, expanded>>

\* A step that is not worth a work item: too deep, or not above the threshold.
Passes(w, s) == GoesOn(worker[w].item) /\ s.sim > worker[w].bar

DropStep(w) ==
    /\ HasStep(w)
    /\ LET s == Head(worker[w].found) IN s.resolvent # Empty /\ ~ Passes(w, s)
    /\ worker' = [worker EXCEPT ![w] = Dropped(w)]
    /\ UNCHANGED <<resolutions, jobs, shared, result, expanded>>

\* check_resolvent: its look-up in seen_resolvents, or none without
\* skip_seen_resolvents.
CheckResolvent(w) ==
    /\ HasStep(w)
    /\ LET s == Head(worker[w].found) IN
        /\ s.resolvent # Empty /\ Passes(w, s)
        /\ worker' = [worker EXCEPT ![w] =
                         IF ~ SkipSeen THEN Pushed(w)
                         ELSE IF Covers(seen[s.resolvent], s) THEN Dropped(w)
                         ELSE [@ EXCEPT !.pc = "insert"]]
    /\ UNCHANGED <<resolutions, jobs, shared, result, expanded>>

\* check_resolvent: its insertion, whatever the entry is by now.
InsertSeen(w) ==
    /\ At(w, "insert")
    /\ LET s == Head(worker[w].found) IN
       seen' = [seen EXCEPT ![s.resolvent] = [depth |-> s.depth, sim |-> s.sim]]
    /\ worker' = [worker EXCEPT ![w] = Pushed(w)]
    /\ UNCHANGED <<resolutions, jobs, leaves, threshold, stats, result, expanded>>

NextClause(w) ==
    /\ At(w, "steps") /\ worker[w].found = <<>>
    /\ worker' = [worker EXCEPT ![w].pc = "clauses", ![w].clause = @ + 1]
    /\ UNCHANGED <<resolutions, jobs, shared, result, expanded>>
-----------------------------------------------------------------------------
\* The end of search_proof_step: the local statistics, in bulk.
EndGoal(w) ==
    /\ At(w, "clauses") /\ worker[w].clause > NumClauses
    /\ worker' = [worker EXCEPT
           ![w].pc = "return",
           ![w].item = NoItem,
           ![w].stats.attempted = @ + NumClauses,
           ![w].stats.successful = @ + worker[w].successes]
    /\ UNCHANGED <<resolutions, jobs, shared, result, expanded>>

\* A mistake: what was split off is not drained.
Undrained(acc) == acc

\* What drain leaves behind.
Drained(acc) == SubSeq(acc, EvalBatchSize + 1, Len(acc))

\* After each goal, one batch of the accumulated steps is split off if there
\* are enough of them.
SpawnBatch(w) ==
    /\ At(w, "return")
    /\ LET acc == worker[w].acc IN
       IF Len(acc) >= EvalBatchSize
       THEN /\ jobs' = jobs \cup {SubSeq(acc, 1, EvalBatchSize)}
            /\ worker' = [worker EXCEPT
                  ![w].pc = "goals",
                  ![w].acc = Drained(acc)]
       ELSE /\ worker' = [worker EXCEPT ![w].pc = "goals"]
            /\ UNCHANGED jobs
    /\ UNCHANGED <<resolutions, shared, result, expanded>>

Synced(s) ==
    [stats EXCEPT !.attempted = @ + s.attempted,
                  !.successful = @ + s.successful,
                  !.width = MaxOf(@, s.width),
                  !.depth = MaxOf(@, s.depth)]

\* A mistake: the local statistics are not reset after they were added.
KeepingStats(w) ==
    IF worker[w].acc = <<>> THEN Idle
    ELSE [Idle EXCEPT !.pc = "goals", !.batch = worker[w].acc,
                      !.stats = worker[w].stats]

\* A mistake: the loop does not end when nothing is left.
NeverIdle(w) == [Idle EXCEPT !.pc = "goals", !.batch = worker[w].acc]

\* The steps that were not split off are the next batch; without any, the job
\* ends.
NextBatch(w) ==
    IF worker[w].acc = <<>> THEN Idle
    ELSE [Idle EXCEPT !.pc = "goals", !.batch = worker[w].acc]

\* The end of the batch: sync_with_shared_ctx, which resets the local
\* statistics, and the next round.
EndBatch(w) ==
    /\ At(w, "goals") /\ worker[w].batch = <<>>
    /\ stats' = Synced(worker[w].stats)
    /\ worker' = [worker EXCEPT ![w] = NextBatch(w)]
    /\ UNCHANGED <<resolutions, jobs, leaves, threshold, seen, result, expanded>>
-----------------------------------------------------------------------------
\* Where sort_by, which is stable, moves a proof: behind the better ones and
\* those of its similarity that were before it.
Rank(s, i) ==
    Cardinality({ j \in DOMAIN s : \/ s[j].sim > s[i].sim
                                  \/ (s[j].sim = s[i].sim /\ j <= i) })

SortedBySimilarity(s) ==
    [k \in DOMAIN s |-> s[CHOOSE i \in DOMAIN s : Rank(s, i) = k]]

\* truncate
CutTo(limit, s) ==
    IF AtLimit(Len(s), limit) THEN SubSeq(s, 1, limit) ELSE s

\* The scope has joined every job: the proofs are collected, sorted and cut.
Collect ==
    /\ result = Pending
    /\ jobs = {}
    /\ \A w \in Workers : At(w, "idle")
    /\ result' = [stats |-> stats,
                  proofs |-> CutTo(MaxProofs, SortedBySimilarity(leaves))]
    /\ UNCHANGED <<resolutions, jobs, worker, shared, expanded>>

Done == result # Pending /\ UNCHANGED vars

WorkerStep(w) ==
    \/ StartJob(w) \/ RefuseGoal(w) \/ AdmitGoal(w) \/ CheckQuota(w)
    \/ SkipWideClause(w) \/ BeginResolve(w) \/ UnifyLiteral(w)
    \/ LoadThreshold(w) \/ RecordLeafProof(w) \/ DropStep(w)
    \/ CheckResolvent(w) \/ InsertSeen(w) \/ NextClause(w) \/ EndGoal(w)
    \/ SpawnBatch(w) \/ EndBatch(w)

Next == (\E w \in Workers : WorkerStep(w)) \/ Collect \/ Done

Spec == Init /\ [][Next]_vars

\* The operating system runs every thread, and a free thread of the pool takes
\* a spawned job.
FairSpec ==
    /\ Spec
    /\ \A w \in Workers : WF_vars(WorkerStep(w))
    /\ WF_vars(Collect)
-----------------------------------------------------------------------------
(***************************************************************************)
(* What the search is to find, said without it: the derivations from the   *)
(* goals, step by step, each with the similarities met on the way.         *)
(***************************************************************************)
Edges(goal) ==
    UNION { { [source |-> goal, clause |-> c, literal |-> l] :
                l \in DOMAIN resolutions[goal][c] } :
            c \in { c \in Clauses : ~ TooWide(goal, c) } }

Outcome(e) == resolutions[e.source][e.clause][e.literal]

Extended(d, e) ==
    [end |-> Outcome(e).resolvent, path |-> Append(d.path, e),
     sims |-> d.sims \cup {Outcome(e).sim}]

Beginnings ==
    { [end |-> g, path |-> <<>>, sims |-> {}] : g \in ToSet(Goals) }

Lengthened(D) ==
    UNION { { Extended(d, e) : e \in Edges(d.end) } :
            d \in { d \in D : d.end # Empty } }

\* The derivations of exactly n steps, for n up to the longest that
\* search_proof_step can make.
LongestProof == IF MaxProofDepth <= 1 THEN 1 ELSE MaxProofDepth + 1

Derivations ==
    LET D[n \in 0 .. LongestProof] ==
          IF n = 0 THEN Beginnings ELSE Lengthened(D[n - 1])
    IN D

\* The proofs above the prover's threshold, as the result shows them.
ProofOf(d) == [path |-> d.path, sim |-> Min(d.sims)]

AllProofs ==
    { p \in { ProofOf(d) :
               d \in { d \in UNION { Derivations[n] : n \in 1 .. LongestProof } :
                        d.end = Empty } } :
        p.sim > InitialThreshold }

Shown(s) == [path |-> s.path, sim |-> s.sim]
Found == { Shown(result.proofs[i]) : i \in DOMAIN result.proofs }

Returned == result # Pending

\* Work items wherever they are: in a spawned batch, in the batch of a thread
\* or in its accumulator, in that order.
ItemsOf(w) == worker[w].batch \o worker[w].acc
-----------------------------------------------------------------------------
(***************************************************************************)
(* Properties.                                                             *)
(***************************************************************************)

\* The similarities above the prover's threshold that resolve() may find.
SimsIn(outcomes) == { outcomes[l].sim : l \in DOMAIN outcomes }

Sims ==
    { s \in UNION { SimsIn(p[g][c]) :
                     p \in Problems, g \in Disjunctions, c \in Clauses } :
        s > InitialThreshold }

Depths == 0 .. MaxProofDepth

StepType == [resolvent : Disjunctions \cup {Empty}, sim : Sims, depth : Depths,
             path : Seq([source : Disjunctions, clause : Clauses,
                         literal : Nat \ {0}])]
ItemType == [goal : Disjunctions, parent : {NoParent} \cup StepType]
StatsType == [attempted : Nat, successful : Nat, width : Nat, depth : Nat,
              discarded : Nat]
PCs == {"idle", "goals", "quota", "clauses", "resolve", "steps", "insert",
        "return"}

WorkerType ==
    [pc : PCs, batch : Seq(ItemType), acc : Seq(ItemType),
     item : ItemType \cup {NoItem}, clause : 1 .. NumClauses + 1,
     literal : Nat \ {0}, found : Seq(StepType), successes : Nat, bar : Int,
     stats : StatsType]

\* Every variable stays in its type; the steps of proofs are above the prover's
\* threshold and at most at depth max_proof_depth.
TypeOK ==
    /\ resolutions \in Problems
    /\ jobs \subseteq Seq(ItemType)
    /\ worker \in [Workers -> WorkerType]
    /\ leaves \in Seq(StepType)
    /\ threshold \in Sims \cup {InitialThreshold}
    /\ seen \in [Disjunctions -> {Unseen} \cup [depth : Depths, sim : Sims]]
    /\ stats \in StatsType
    /\ expanded \subseteq ItemType

\* Whatever the threads do, what is returned are proofs: derivations of the
\* empty disjunction above the prover's threshold, each with the least
\* similarity on its way, none of them twice, best first, at most max_proofs.
ResultIsSound ==
    Returned =>
        /\ Found \subseteq AllProofs
        /\ Cardinality(Found) = Len(result.proofs)
        /\ \A i, j \in DOMAIN result.proofs :
              i < j => result.proofs[i].sim >= result.proofs[j].sim
        /\ MaxProofs # NoLimit => Len(result.proofs) <= MaxProofs

\* The limit of attempts is compared with a counter that lags.
UsedUpAttempts == AtLimit(result.stats.attempted, MaxAttempts)

\* Without skip_seen_resolvents, pruning with a threshold that other threads
\* raise meanwhile costs no proof that belongs to the best max_proofs: one that
\* is not returned has lost to max_proofs others that are as good or better.
\* (The depths and the choice among equals are left open: see README.md.)
ResultIsTop ==
    (Returned /\ FindHighest /\ ~ UsedUpAttempts /\ (SkipSeen => MaxProofs = 1)) =>
        \A p \in AllProofs \ Found :
            /\ Len(result.proofs) = MaxProofs
            /\ \A q \in Found : q.sim >= p.sim

\* With skip_seen_resolvents, although the look-up and the insertion of two
\* threads may interleave and entries be overwritten, the best similarity is
\* found (README: "still guaranteed to find the proof with the highest
\* similarity score").
ResultHasTheBest ==
    (Returned /\ FindHighest /\ ~ UsedUpAttempts /\ AllProofs # {}) =>
        \E p \in Found : \A q \in AllProofs : p.sim >= q.sim

\* Without find_highest_similarity_proofs the search stops early, but only when
\* it has max_proofs proofs, or all there are, or has used up
\* max_resolution_attempts: neither count, read while others add to it, ends it
\* too soon.  prove(), which wants one proof and skips what was seen, finds one
\* if there is one.
EarlyStopHasEnough ==
    (Returned /\ ~ FindHighest /\ ~ UsedUpAttempts /\ (SkipSeen => MaxProofs = 1)) =>
        AtLimit(Len(result.proofs), MaxProofs) \/ AllProofs \subseteq Found

\* When a batch is split off while the thread goes on with the rest, no work
\* item is in two places, and none is resolved again.
WorkIsNotDuplicated ==
    /\ \A b \in jobs : IsInjective(b) /\ ToSet(b) \cap expanded = {}
    /\ \A b, c \in jobs : b # c => ToSet(b) \cap ToSet(c) = {}
    /\ \A w \in Workers :
        /\ IsInjective(ItemsOf(w)) /\ ToSet(ItemsOf(w)) \cap expanded = {}
        /\ \A b \in jobs : ToSet(ItemsOf(w)) \cap ToSet(b) = {}
        /\ \A v \in Workers \ {w} : ToSet(ItemsOf(w)) \cap ToSet(ItemsOf(v)) = {}

\* The statistics the threads add up, each when its batch ends, account for
\* every item that was resolved, once, and for every proof that was dropped.
StatsAddUp ==
    Returned =>
        /\ result.stats.attempted = NumClauses * Cardinality(expanded)
        /\ result.stats.depth = Max({ Depth(i) + 1 : i \in expanded } \cup {0})
        /\ result.stats.successful <= result.stats.attempted
        /\ result.stats.discarded > 0 => Len(result.proofs) = MaxProofs

\* Every search returns: a derivation ends at the depth limit, and every batch
\* that is spawned is taken.
SearchReturns == <>Returned
=============================================================================
