# A verification project for tensor-theorem-prover

tensor-theorem-prover proves goals of first-order logic by input resolution, where symbols may match by similarity of
their embeddings instead of equality. A Python package parses and normalises formulas; a Rust backend searches for
proofs with a pool of threads. This directory holds TLA+ modules of that program, the TLC configurations that check
them, and theorems about them that TLAPS proves.

- `tlc -config MCProofContext_calls.cfg MCProofContext` checks a run (module and configuration are in `PROJECT.json`),
- `tlapm ProofContext_proofs.tla` checks the proofs.

## 1. Inventory

| Component | Source | State | Operations | Called by |
|---|---|---|---|---|
| Facade `ResolutionProver` | `tensor_theorem_prover/prover/ResolutionProver.py` | a Skolemizer, the backend | `extend_knowledge`, `prove`, `prove_all`, `prove_all_with_stats`, `purge_similarity_cache`, `reset` | the user |
| Normalisation | `tensor_theorem_prover/normalize/*.py` | the counter of Skolem symbols | `to_cnf` = NNF, variables renamed apart, quantifiers to the front, Skolemisation, conjunctions | the facade |
| Search | `src/prover/resolution_prover.rs` | base knowledge, configuration, the similarity cache; per thread: a batch of goals, an accumulator of new goals, a local context | `prove_all_with_stats`, `search_for_proofs_batch`, `search_proof_step` | the facade; itself, through rayon |
| Shared context | `src/prover/proof_context.rs` | leaf proofs (`RwLock<Vec>`), threshold (atomic), resolvents seen (`DashMap`), statistics (atomics), similarity cache (`DashMap`) | `record_leaf_proof`, `check_resolvent`, `total_leaf_proofs`, `leaf_proof_steps_with_stats`, `calc_similarity`, `sync_with_shared_ctx` | every thread of the search |
| Statistics | `src/prover/proof_stats.rs` | five counters, shared and local | `copy_and_freeze`, `sync_with_shared_ctx` | search, `record_leaf_proof` |
| Resolution | `src/prover/operations/resolve.rs` | none | `resolve`, `build_resolvent` | `search_proof_step` |
| Unification | `src/prover/operations/unify.rs` | a substitution, during a call | `unify`, `unify_terms`, `unify_term_pair`, the occurs check | `resolve` |
| Similarity caches | `src/prover/similarity_cache.rs`, `proof_context.rs` | key to similarity, shared and per batch | look-up, insertion, `purge_similarity_cache` | unification |
| Proof results | `src/prover/proof.rs`, `prover/Proof.py` | none | `proof_steps`, `depth`, `substitutions` | the user |
| Types | `src/types.rs`, `tensor_theorem_prover/types/*.py` | none | constructors, conversions | all |
| Similarity functions | `tensor_theorem_prover/similarity.py` | none | cosine, symbol equality, maximum | unification, through the interpreter lock |

How they interact. The facade normalises the negated goal and calls the backend, which builds a shared context and a
thread pool and starts one job with all inverted goals. A job resolves each goal with every clause; a step whose
resolvent is empty is recorded as a leaf proof, the others are accumulated. After each goal, `eval_batch_size` of the
accumulated steps may be spawned as a new job; the job goes on with the rest until nothing is left. The jobs share the
context only. When all have ended the leaf proofs are read, sorted and cut.

What is hard. The threads raise one another's pruning threshold, look up and overwrite one another's entries of seen
resolvents without a lock across both, test limits against counters that lag, and read lengths that are old when used.
Nothing is persisted, no message is sent and nothing times out: crash recovery, loss and timeouts are no hazards here,
but a thread may panic with the lock held. The Python side adds threads of the user's program that share a prover. `PROJECT.json` lists every hazard at its line.

What makes each part correct.

- *Shared context*: it keeps the best `max_proofs` of all leaf proofs; its threshold prunes nothing better than what is
  kept; a resolvent is skipped only if one as good was let through.
- *Search*: it returns proofs only, and, within its limits, the best ones; work is neither lost nor repeated; it ends.
- *Statistics*: what the threads report adds up to what was done.
- *Unification and resolution*: the unifier unifies and is most general; the resolvent follows from its parents.
- *Caches*: a cached similarity is that of the pair asked for.
- *Normalisation*: the CNF is satisfiable exactly when the formula is.
- *Results*: a proof is one, as good as it says, and the goal follows with the substitutions shown.
- *Facade*: a call takes effect as a whole or not at all, and a search answers for the knowledge that is there.

## 2. Modules

| Module | What it is |
|---|---|
| `LeafOrder` | The comparator of `record_leaf_proof` and where a new leaf lands in the sorted vector; shared by the next two. |
| `ProofContext` | The shared context, with callers that make any calls: the leaf proofs, the threshold, the resolvents seen, panics and the poisoned lock. |
| `ProofSearch` | The search with its threads, batches, limits and statistics. |
| `SimilarityCache` | The caches in front of the similarity function, with the interpreter lock the function needs. |
| `SearchContext` | `ProofSearch` with a record of the calls it makes, and the mapping under which it implements `ProofContext`. |
| `Unify` | `unify()`: the algorithm round by round, and the ground instances it is held against. |
| `Resolve` | `resolve()` of two clauses, on top of `Unify`: the loop over the literals, and `build_resolvent` with its new names. |
| `Derivation` | A chain of resolutions, on top of `Resolve`, the `Proof` made of it, and what clauses mean. |
| `Normalize` | `to_cnf()`: its passes as operators, and what formulas and disjunctions mean. |
| `ResolutionProver` | The facade and the backend behind it, called by threads of the Python program, on top of `Normalize`. |
| `ProofStats` | The shared counters, added to and copied one by one. |
| `LeafOrder_proofs`, `ProofContext_proofs`, `SearchContext_proofs`, `SimilarityCache_proofs`, `ProofStats_proofs` | Lemmas and theorems. |
| `Derivation_proofs` | Theorems about `unify()`, about `resolve()`, and about the chains of steps that proofs are made of. |
| `ProofSearch_proofs`, `ProofSearchComplete_proofs` | Theorems about the search: its types and that it does and returns nothing wrong; and, on top of that, that it loses nothing. |
| `MCProofContext`, `MCProofSearch` with `MCSettings`, `MCSearchContext`, `MCSimilarityCache`, `MCUnify`, `MCDerivation`, `MCResolutionProver`, `MCProofStats` | Small instances for TLC. |

**ProofContext.** The variables are the fields of `SharedProofContext`: `leaves` is `scored_leaf_proof_steps` (a leaf
is its similarity, its depth, and the number under which it arrived, for the identity of the step), `poisoned` the state
of its RwLock, `threshold`, `discarded`, `skip_seen_resolvents`
(never changed) and `seen`. `call` is where each thread stands in `check_resolvent`; `offered`,
`passed` and `skipped` are histories the properties talk about. `record_leaf_proof` runs under the write lock and
publishes one value outside it, so it is one action, in three cases: `KeepLeaf` (there is room), `DisplaceLeaf` (push,
sort, pop, count, raise the threshold) and `PanicInRecord` (the two `unwrap`s). The sort is modelled by the slot where a
stable sort puts the new last element of a vector that was sorted before. `PanicOnPoison` is every later
`.unwrap()` of the lock. `check_resolvent` takes no lock across its look-up and its insertion: `SkipResolvent` or
`MissResolvent`, then `InsertResolvent`; without `skip_seen_resolvents` it is `PassUnchecked`.

**ProofSearch.** `worker[w]` is a thread: its program counter, the batch it is working on, its accumulator, its local
statistics, and the locals of `search_proof_step` and `resolve`. Every action makes at most one access to shared state:

| Action | Code |
|---|---|
| `StartJob` | a thread of the pool takes a spawned batch |
| `RefuseGoal`, `AdmitGoal`, `CheckQuota` | the early returns of `search_proof_step`, in their order |
| `SkipWideClause`, `BeginResolve`, `NextClause` | the loop over the clauses |
| `UnifyLiteral` | one round of `resolve()`: the threshold loaded by `unify` |
| `LoadThreshold` | the one load of the threshold for all steps of a clause |
| `RecordLeafProof`, `DropStep`, `CheckResolvent`, `InsertSeen` | the loop over the steps |
| `EndGoal`, `SpawnBatch`, `EndBatch` | the local statistics, the batch split off, the sync and the next round |
| `Collect` | after the scope: freeze the statistics, read, sort, truncate |

What `resolve()` finds for a goal and a clause does not depend on the search but for the threshold, so it is an input:
`resolutions`, chosen among `Problems` at the start. The disjunctions are named; the seen map is keyed by them, as the
code keys it by their hash. The stable sort of the result is written as the place each proof gets (`Rank`): as many
proofs are better, or as good and before it.

What the result is held against is `Derivations`: which chains of steps there are from the inverted goals, by length and
without any thread, limit or threshold. `ResultIsSound` says that only such chains are returned, and `ResultIsTop` that
one that is not returned has lost to `max_proofs` others.

**SearchContext.** `ProofContext` leaves its callers free, `ProofSearch` writes out what they do. That the two speak
of the same context is a refinement, `ImplementsContext`: a step of the search is a call that `ProofContext` allows, or
changes nothing that it has. `AuxSpec` is the search with four auxiliary variables, the histories of `ProofContext`
(`recorded`, `passed`, `skipped`) and the number of every leaf (`arrival`), which constrain no step. A thread at
`InsertSeen` is a caller that is inserting; the bounds on calls are `NoLimit`.

**SimilarityCache.** `backend` is the cache of the `ResolutionProverBackend`, `shared` that of the
`SharedProofContext` (a clone of the first: a `DashMap` is copied, not shared), `local` the map of each thread's batch.
`call[w]` is where a thread stands in `calc_similarity`: `LookUp` (the local map), `GetShared`, then `TakeGil` and
`ReturnFromPython` or `RaiseInPython` if there is a `similarity_func`, else `CompareSymbols`, then `Insert` and
`Return`. `guards` are the read guards of the shared map, `gil` the holder of the interpreter lock, which `StartSearch`
gives up and `EndSearch` takes again. The key is modelled as it is computed: a hash is a bit of its own, named by the
symbol and the address of the embedding (`Token`), and XOR is the symmetric difference of sets of bits (`Xor`). So
collisions of single hashes are left out and those of the XOR are all there. `StartSearch` places the embeddings
of the search's items at different addresses, any that are free now; nothing keeps those of the last search alive. The
whole map is taken as one shard, which is the worst case for the locks. While the function runs the interpreter may
switch to another thread; it is modelled as one piece, since no property is about what else Python does then.

**Unify.** The variables are the locals of a call: `rest` is what the `zip` of `unify_terms` has left, `pairs_stack`,
`similarity` and `substitutions` are those of `unify_term_pair`, and `threshold` is the shared one, which
`RaiseThreshold` may raise between any two rounds. A round pops a pair and is one of:

| Action | Branch of `unify_term_pair` |
|---|---|
| `MatchConstants` | both constants: equal, or compared, and the threshold read |
| `MatchVariables` | both variables: the target's is bound to the source's |
| `BindVariable` | one variable: the occurs check, then bound or refused |
| `MatchFunctions` | both functions: their arguments are pushed |
| `PassOver` | a constant and a function: no branch is for them |

`_resolve_labeled_term` is `Resolved`, a chain followed as often as there are variables bound; if it has not ended
then, it never does. `check_var_occurrence` is the closure `Met`. The code hangs, or overflows its stack, where a chain
or the check comes back to where it was: `GetStuck`. `Call` is `unify` up to `unify_terms`; `ReturnUnification` is the
splitting of the substitutions by side, in which the values lose their label, as they do in the code.
`Predicates` are the names an atom may have.

**Resolve.** `literal` and `steps` are the loop of `resolve()`; `UnifyLiterals` makes the call, the actions of `Unify`
run it, and `NoteAnswer` builds the resolvent. A clause is given as a sequence in any order, since the order of the
`BTreeSet` depends on addresses; a resolvent is a set. Names are data: `BaseName` is what `VAR_NAME_REGEX` leaves of a
name, `NumberedName` what `format!` makes of a base and a counter. A new name is `Numbered` with the least counter for which
it is not taken (`IsNewName`), as the loop finds it. Several overlapping names are renamed in any order
(`Renamings`), as a hash set yields them. `Replaced` looks at the terms of a literal only, not below functions: the code
neither renames nor substitutes a variable there.

**Derivation.** `chain` is what `proof_steps` returns of the last step. After a call of `resolve()` the search goes on
with every step of it; here it goes on with one (`TakeStep`), and with the next clause and any order of the resolvent's
literals, so that the behaviours are the branches of the search. `GoesOn` is the depth limit. A step of an empty
resolvent makes a `Proof`: `Goal` and `ShownSubstitutions` are its getters, `ValueFrom` is `resolve_var_value`. The
meaning is not in the code: an interpretation gives constants, functions and predicates over `Elements`, and two symbols
that are similar enough for the proof's own similarity, in either order, must mean the same in it (`Same`). `Elements`
is any set that is not empty.

**Normalize.** A formula is a tree of nodes. `And` and `Or` flatten as their constructors do. Each pass is the recursive
operator of that name; the passes that have a state thread it through: `Renamed` the names used, `Skolemized` the
counter. A disjunction is the set of its literals; the Skolem function's arguments are in any fixed order, not sorted.
`Satisfiable` says that some values of the Skolem functions make the disjunctions true.

**ResolutionProver.** `call[t]` is a call in the making: `InvertGoal` and `ParseClause` are `to_cnf` of one formula, after
which the interpreter may switch to another thread; `ExtendBackend`, `Reset` and `StartSearch` are the calls of the
backend, which hold the interpreter lock; `EndSearch` is its return. PyO3 borrows the backend for the time of a
search, so that `extend_knowledge` and `reset` raise then (`AlreadyBorrowed`); `base_knowledge` is changed by them alone.
A formula that `to_nnf` does not know (`Malformed`) raises out of the loop. `accepted` is a history: the clauses of the
calls of `extend_knowledge` that returned, since the last reset. What happens between start and end is `ProofSearch`.

**ProofStats.** What `ProofSearch` does in one step, the sync of a round and the copy that a proof carries, is taken apart
here: `AddTo` and `Load` are single accesses to single counters, in any order, which is what relaxed atomics allow of
different locations. `lock` is the write lock of the leaf proofs, under which the copy is made and `discarded_proofs` is
incremented. What the steps of the search report is the input (`StepStats`).

Abstractions of the first two. Similarities are integers (only compared; `NaN` is a value that compares with nothing, in
`ProofContext`). The atomics are `Relaxed`; each is a single location and no property relates the values of two of
them read at one moment, so they are modelled as sequentially consistent. Rayon's order of jobs is over-approximated:
any idle thread takes any batch. `unify` compares the similarity with the threshold several times while it decreases
and the threshold rises; the last comparison, that of the final similarity, decides, and is the one modelled.

## 3. Runs

All bounds are constants of the modules: `MaxOffers` and `MaxChecks` bound the calls in `ProofContext`, `MaxLookups`,
`MaxBatches` and `MaxSearches` those in `SimilarityCache`; `Counters` is the numbers that `Resolve` may try for a
new name (the model would deadlock if they were too few). In `ProofSearch` the depth limit bounds the behaviours and nothing else
has to.

| Run | Instance | Shows |
|---|---|---|
| `context_calls` | 2 threads, 4 leaves, 2 similarities and NaN, 2 depths, `max_proofs` 2, 3 checks of one resolvent, with skipping and without | `KeptAreTheBest`, `EveryLeafAccounted`, `ThresholdIsTheBar`, `ThresholdNeverFalls`, `PanicHasACause`, `SkippedIsCovered` |
| `search_settings` | 2 threads, two settings: `prove()` with `find_highest_similarity_proofs = False`, skipping, `max_resolution_attempts` 8 and a width limit; `prove_all()` with `max_proofs` 2, no skipping and no limit but the depth; fairness | `EarlyStopHasEnough`, `TopTwoAreReturned` (that is `ResultIsTop`), `SearchReturns` |
| `search_best` | 2 threads, two goals, depth 4, `max_proofs` 1, skipping: what `prove()` asks for | `ResultIsSound`, `ResultHasTheBest`, `WorkIsNotDuplicated`, `StatsAddUp`, `ImplementsContext` |
| `stats` | 2 threads, 2 steps that report something, 3 proofs of which 1 is kept | `LaterReportsMore`, `DiscardsAreExact`, `NothingIsLost` |
| `cache_hits` | 2 threads, 2 searches, 2 batches per thread, one look-up per batch, fairness | `AnswersAreRight`, `ThreadsComputeAPairOnce`, `SearchesEnd` |
| `cache_choosy` | the same, a function that gives two predicates different similarities with themselves | **violated**: `AnyFunctionIsRespected` |
| `derivation` | 4146 single resolutions (36 source clauses with 90 target clauses; with functions 25 with 26, and 16 with 16 whose function of two terms may repeat a variable), 168 problems with a goal, a rule and facts, depth 3, the threshold raised at any moment, fairness | `UnifierUnifies`, `UnifierIsMostGeneral`, `StuckOnRepeatsOnly`, `ResolventFollows`, `ApartIsMostGeneral`, `EveryLiteralIsTried`, `ProofRefutes`, `AnswerFollows`, `DerivationEnds` |
| `derivation_names` | the clauses without functions | **violated**: `ResolventIsMostGeneral` |
| `derivation_functions` | a goal of two literals, two facts, a function | **violated**: `ProofsAreProofs` |
| `unify_repeats` | two variables and a constant, all atoms of two terms | **violated**: `NeverStuck` |
| `unify_rounds` | atoms of three terms, variables against variables and `f(f(X))`, fairness | **violated**: `RoundsEnd` |
| `prover_calls` | 2 threads, 139 scenarios, a domain of two elements | `KnowledgeMeansWhatWasAdded`, `SearchMeansTheGoal`, `PanicsOnEmptyOnly` |

Why the bounds are enough. Four leaves for a vector of two let one leaf be popped at once, another displace two, and
equal leaves arrive in both orders. Three checks let one thread look up between the look-up and the insertion of the
other, and one of them again after both. The problems of `MCProofSearch` are a family of graphs (`Detour`) over four
disjunctions and two clauses: one disjunction is reached directly and by a detour, with every choice of similarities, so
that it is met first with the lower depth and the lower similarity, or the other way round; a second literal of a clause
leads back into a cycle, from `b` to `b`; proofs of all lengths up to the limit exist. In the setting of `prove_all()` nothing but
the depth limit ends that cycle: no resolvent is skipped, no attempts are counted, no clause is too wide, and where the way
on from `b` has the similarity 1 the two leaves that would raise the threshold to that of the cycle, 2, are never there. So
the search does meet steps that `GoesOn` refuses, and with a larger `MaxProofDepth` it has more states. In the setting of
`prove()` the cycle is too wide; it has two goals instead, and attempts that may be used up. Both settings are in one run,
chosen at the start (`setting`): `MCSettings` extends `ProofSearch` with the constants of the first and instantiates it
with those of the second. In the states of the second `EarlyStopHasEnough` says that a proof is found. A batch size of 1
spawns a job after every goal, which is the most interleaving there can be, and the rest of an accumulator longer than
one stays with the thread.

For the caches two searches are what an address needs to be given away, and two batches what a thread needs to ask a
second time with an empty map of its own; the two threads then miss, hit and insert in every order. The items are a
predicate and a constant with the same symbol, and two items with an embedding of which each search has one, at the one
address there is: the pairs of both searches have the same keys.

The literals of `MCDerivation` that are resolved upon have two terms, in all the patterns that matter for a pair: repeated and
different variables, on one side, on both, shared by name or not; a constant against the same, a similar and a
different one; a name that is taken already (`x_1`), so that a new name needs the second number; a literal before the
one that unifies that does not. `Universe` has every constant, so that an instance exists of whatever is bound. Chains of
two links exist with two pairs of terms; a third pair adds longer ones, of the same kind.

The problems for whole proofs have goals of one or two literals, with repeated variables and with variables in the order
that a second step must not mix up, a rule that uses the names of the goal, and facts with a constant that is only
similar, with variables, and with predicates that are only similar. A rule `p(X,Y)` if `p(Y,X)` makes chains as long as
the depth lets them be.

The formulas of `MCResolutionProver` are three families: all prefixes of two or three quantifiers in which a name may
be bound twice or not at all; names bound twice next to the same name unbound, and next to the name that would be
given instead; every connective above every other, with negations, implications, a function, and empty `And` and `Or`.
Each is added, and asked for, by itself. A domain of two elements tells `All` from `Exists` and one Skolem function from
two. The scenarios of several calls have two existential formulas that contradict each other if they share a Skolem
function, a clause that is none after one that has taken a Skolem function, and resets and extensions during a search.

Three proofs and one that is kept let two be discarded; two steps and two threads let each counter be added to by both,
before, between and after the loads of a copy.

The models of the context, of the caches and of the facade let callers stop (their calls are bounded), so those runs do not check
deadlock; that no call waits for ever is `SearchesEnd`. Those of `ProofSearch` do:
only a search that has returned may stand still (`Done`).

Fairness. `FairSpec` has weak fairness of every thread's steps and of `Collect`: the operating system runs every
thread, no step of one waits for another but on locks held for one action, and the scope returns when all jobs have.
No order or choice of the code is assumed fair. In `SimilarityCache` a thread need not make a look-up, but one it has
made goes on, and `EndSearch` is fair. Weak fairness of `TakeGil` suffices in a bounded model: a thread that is kept from
the lock is kept by others that run out of look-ups. In `Derivation` and in `UnifyFairSpec` the one thread that resolves
goes on; the threshold need never rise. Symmetry is used for safety only (`search_best`).

### What the violated properties say

- `cache_choosy`: the README invites a function that calculates "however you wish". With the caches, which are on by
  default, the function must suit the key (`CosineLike`): symmetric, the same similarity of every item with itself, and
  blind to whether an item is a constant or a predicate. A product of vectors that are not normalised does not.
- `unify_repeats`: `p(X,X)` against `p(Y,Y)`. The second pair is `X` and `X`; the code has no test for equal variables
  and inserts `X` for `X`, and collecting the substitutions then follows that chain for ever. `StuckOnRepeatsOnly`
  says that both atoms must have a repeated variable for this, maybe within one of their terms (`RepeatsVariable`); with
  different variables throughout one of the two clauses a call never gets stuck, which is proved for all terms.
- `unify_rounds`: `p(Y,Y,Y)` against `p(f(f(X)),X,X)`. `Y` is bound to `f(f(X))`. Then `X` is compared with it, and the occurs
  check lets `X` be bound to `f(f(X))`: it looks at the terms of the function only, not at theirs, and takes the term to be of
  the side opposite to `X`'s. Then both are `f(f(X))`, which is compared with itself, down to `X` against `X` and round again,
  for ever: no chain is stuck, but the stack of pairs is never empty.
- `derivation_functions`: the goal that some `X` has `p(X,a)` and `q(X)`, with `p(f(Y),Y)` and `q(f(b))`. Unification gives `X`
  the value `f(Y)` and `Y` the value `a`, but nothing is substituted below `f`, and `¬q(f(Y))` is left, with `Y` free, which
  resolves with `q(f(b))`. What is derived does not follow: `q(f(a))` is not known. (That the occurs check lets
  `p(X,X)` and `p(f(Y),Y)` unify, and that a constant unifies with a function, `PassOver`, are other ways to the same; no run
  shows them.)
- `derivation_names`: `p(X,Y)` with `¬p(X,X) ∨ ¬q(X) ∨ r(Y)` gives `¬q(Y) ∨ r(Y)`: the `Y` of the source, which a
  substitution brings in, is in no remaining literal of the source, so the `Y` of the target is not renamed. The resolvent
  still follows from the clauses (`ResolventFollows`); it is a special case of the one it should be.

### What the passing ones do not say

A step has a depth from 0 up to `max_proof_depth` (`TypeOK`, proved as well): proofs of `max_proof_depth + 1` steps are
returned, where the project's README says that a search aborts proofs "after a depth of 10" and that `proof.depth` is
"the number of steps".

`ResultIsTop` is about the similarities of the result. Among proofs of equal similarity the choice depends on the order
of the threads: a step whose similarity equals the threshold is pruned, also if it would end in a shallower proof. With
`skip_seen_resolvents` only the best similarity is guaranteed, which is what the project's README promises.

What is said of unifiers and resolvents is said of clauses without functions (`Flat`, `FlatClauses`). With functions
it does not hold: a value loses the label of its side, a variable below a function is neither renamed nor
substituted, and `PassOver` unifies what is different. `TypeOK`, `StuckOnRepeatsOnly` and `EveryLiteralIsTried`
are checked with functions too; `ProofRefutes`, `AnswerFollows` and `DerivationEnds` are for problems without. `ApartIsMostGeneral` is about the clauses for which the names that `build_resolvent` looks at are
all there are (`NamesAreKnown`). `DerivationEnds` is termination up to the calls that get stuck (`NeverStuck`); without
functions a round pops a pair and pushes none, and with them the rounds need not end (`RoundsEnd`).

`AnswerFollows` leaves out proofs that come back to an inverted goal: such a proof shows that one of several instances of
the goal is true, and the substitutions shown are of one of them.

A copy of the counters is not one of a moment: it may have the successes of a round without its attempts, and so more
successes than attempts. `LaterReportsMore` and `DiscardsAreExact` are what can be relied on.

A goal that is or has an empty `Or` or `And` may have an inverse without literals. The first access to it, before any clause
is resolved, panics (`Panics`), unless a limit ends the search first; with `max_resolvent_width` the subtraction two lines
earlier underflows against clauses of one literal, which panics in a debug build and skips the clause in a release one.
`PanicsOnEmptyOnly` says that no other goal gets there.

Threads of the Python program are switched between formulas, not within `to_cnf`. CPython before 3.10 may switch between
the two lines of the Skolemizer that increment and read the counter; two clauses could then share a Skolem function.

## 4. Theorems

`ProofContext_proofs` proves, for any set of callers, any `max_proofs`, any similarities and depths, and any bounds:

| Theorem | Property |
|---|---|
| `TypeCorrect` | `TypeOK` |
| `KeepsTheBest` | `KeptAreTheBest` |
| `AccountsForEveryLeaf` | `EveryLeafAccounted` |
| `ThresholdIsExact` | `ThresholdIsTheBar` |
| `ThresholdIsMonotone` | `ThresholdNeverFalls` |
| `PanicsHaveACause` | `PanicHasACause` |
| `SkipsAreCovered` | `SkippedIsCovered` |

The one assumption is `ContextAssumption`, the types of the constants and that what is recorded lies above the
prover's threshold or is NaN, which `unify` ensures.

The argument. `KeptAreTheBest` is not inductive: when a leaf is displaced, it must be outranked by the leaves that stay,
and so must every leaf displaced before. `LeafInv` says this of each leaf of the history by its number
(`DiscardedAreOutranked`), with: the numbers follow the arrival (`History`), what is kept was offered
(`KeptWereOffered`), all kept similarities are numbers once there are two (`AllNumbers`), the vector is strictly
sorted by the full order, arrival included (`Sorted`), counts add up and the vector is full when a leaf has been
discarded (`Counted`), and the threshold is the last similarity (`Bar`). `Sorted` needs `IsSlot` to put a leaf behind
its equals, that is, the stability of `sort_by`. `LeafOrder_proofs` has the facts on sequences: insertion at a slot
keeps a vector sorted, every element of it remains, and dropping the last keeps it sorted. A leaf popped is outranked
by the new last one, which is outranked by all before (transitivity). Monotonicity follows because the new last leaf
is one of the old ones or precedes the old last one.

For the seen map the invariant is `EntriesWerePassed`: an entry is exactly the depth and similarity of one step that
was let through. It does not say the best of them, and that is all `SkippedIsCovered` needs; merging entries would
break it (one of the mutations checked).

`ProofSearch_proofs` and `SearchContext_proofs` prove, for any threads, limits, batch size, goals and knowledge, and
anything that `resolve()` may find:

| Theorem | Property |
|---|---|
| `ProofSearch_proofs!TypeCorrect` | `TypeOK` |
| `ContextIsImplemented` | `ImplementsContext` |

The assumption is `SearchAssumption`, which excludes `max_proofs = 0` and similarities that are no numbers. `TypeOK`
says of the steps of proofs that they are above the prover's threshold and at most at depth `max_proof_depth`; it
becomes inductive with `Placed`, which says of each program counter what the thread holds there: within the loops the
item is one that was not too deep, a thread at the quota has a goal left, one that inserts has a step whose resolvent
is not empty.

For the refinement every leaf must have its number (`AuxTyped`); that the numbered vector is inserted
into and cut as the vector of steps is (`NumberedInsertAt`, `NumberedFront`), that a leaf has one slot only
(`SlotIsUnique`), and that the code's test for a full vector is that of `ProofContext` give the case of
`record_leaf_proof`. `ContextAssumed` is the assumption of `ProofContext` for the search, so its theorems carry over:
the search keeps the best leaf proofs, its threshold never falls, and what it skips was covered.

`ProofSearch_proofs` and `ProofSearchComplete_proofs` also prove, from the same assumption, what the search returns:

| Theorem | Property |
|---|---|
| `ProofSearch_proofs!WorkIsDoneOnce` | `WorkIsNotDuplicated` |
| `ProofSearch_proofs!ResultIsProofs` | `ResultIsSound` |
| `ProofSearch_proofs!StatisticsAddUp` | `StatsAddUp` |
| `ProofSearchComplete_proofs!TopIsReturned` | `ResultIsTop` (in its run `TopTwoAreReturned`) |
| `ProofSearchComplete_proofs!BestIsReturned` | `ResultHasTheBest` |
| `ProofSearchComplete_proofs!StopHasEnough` | `EarlyStopHasEnough` |

*What is there is right.* The invariant is `SoundInv` (theorem `SoundInvariant`). None of its parts is inductive by itself:
that a step found is the end of a derivation (`AllDerived`) needs that a thread's steps come from the item and the clause
it holds (`Traced`), which needs what a thread holds at each of its program counters (`Shaped`). That no item is
in two places (`Unique`) needs more than that the places are disjoint: a step made now must be new everywhere. What makes it new
is its path. An item that is waiting was made by an item that is expanded, from a literal that its maker is past
(`Grown`), so the literal a thread is at has made none, and a path tells which item, clause and literal made it. The leaves are
ordered and at most `max_proofs`, and the threshold was raised to the last of them only (`LeavesKept`); so the stable sort and the cut
at the end change nothing, and what is returned are the leaves (`ResultKept`). `StatsAddUp` needs `Accounted`: the expanded items are split into shares, one
for what the shared statistics count and one for what each thread counts itself; the numbers of a share are its
`Account`, a sync moves a share, and a thread without a job has none.

*Nothing is lost.* The invariant is `Closed` (theorem `ClosedInvariant`). Until a limit has cut the search short
(`Exhausted`), every inverted goal is an item (`Begun`), and everything an expanded item leads to is either awaited by the
thread that holds the item or settled (`Followed`): it is not above the threshold of now, or recorded, or too deep, or there is
an item that stands for it. With `skip_seen_resolvents` an item stands for a step if it has the same goal, no more depth and no less
similarity; an entry that was seen has such an item (`SeenKept`), whichever of two threads inserted last, since an item
that was let through stays when the entry is replaced. A thread that looked a resolvent up and has not inserted yet
adds the item in the same step as the entry. `BarsKept` is that the threshold a thread goes by is too low at most:
what it prunes with an old one is pruned by the present one as well. That a settled step stays settled needs that the threshold
never falls, that a leaf leaves the vector only when the threshold rises to it or above it (`LeavesRise`), and that no item
gets lost on its way from an accumulator into a job, a batch and `expanded` (`ItemsStay`).

At the end no thread awaits anything, so by induction on the length of a derivation (`AllAccomplished`) each one has an
item that stands for its end, or has fallen to the threshold on its way, where the threshold is that of a full vector. The induction is
written with a least counterexample, from the well-foundedness of `<` on the natural numbers; the recursive function
`Derivations` is shown to be one in the same way (`DerivationsExist`).

`SimilarityCache_proofs` proves, for any threads, any items and addresses, and any bounds:

| Theorem | Property |
|---|---|
| `TypeCorrect` | `TypeOK` |
| `AnswersCorrect` | `AnswersAreRight` |
| `PairsComputedOnce` | `ThreadsComputeAPairOnce` |

The assumption is `CacheAssumption`: the types of the constants, the names that are different, and that a prover
without a `similarity_func` compares symbols. The heart of `AnswersCorrect` is `KeySuits`: two pairs of live items with
the same key have the same similarity. XOR tells pairs apart up to their order, and up to the pairs of an item with
itself (`XorTellsApart`); a token tells live items apart up to their kind, because live embeddings have addresses of
their own (`TokenTellsApart`); the rest is `CosineLike`. The invariant `Right` is then that the caches are `Sound`, that
a call holds the right similarity, and that the cache of the backend is empty: without that last part nothing holds
across searches, for a reused address makes an old entry wrong. `PairsComputedOnce` has, for every thread, `ComputedOnce`:
each key it has computed is in the shared cache or is the one it is about to insert, and is not the one it computes. A thread starts
to compute only where the shared cache lacks the key and it has nothing to insert, and nothing leaves that cache during a search.
The calls that count are those that have returned a similarity; one that raises stores nothing, and the next batch may ask again.

`ProofStats_proofs` proves, for any threads, any `max_proofs` from 1 on, any statistics of steps, and any bounds:

| Theorem | Property |
|---|---|
| `TypeCorrect` | `TypeOK` |
| `ReportsGrow` | `LaterReportsMore` |
| `DiscardsExact` | `DiscardsAreExact` |
| `AllIsCounted` | `NothingIsLost` |

The assumption is `StatsAssumption`. `LaterReportsMore` becomes inductive with `CopiesLocked` and `CopiesBetween`: only
the holder of the lock copies, and a counter it has read lies between that of the last proof recorded and the shared
one, which never falls; one it has yet to read is no less than the last proof's because the shared one is not.
`DiscardsAreExact` rests on `DiscardsCounted`: of all counters `discarded_proofs` changes under the lock only, so that
the shared one is exact, and a copy of it still is when the proof is recorded.

`NothingIsLost` is about the end; its invariant is `Outstanding`: what has been reported and is not in a shared counter yet
is what the threads have `Pending`. For the counters that are added up that is a sum over the threads. It is written as the
number of units that they have between them (`Units`, a set of pairs), which changes by the difference when one thread's
number changes (`UnitsOfAll`), so no sum need be defined, and the set of threads need not be finite. For the greatest numbers it is that
some thread has the greatest one pending if the counter lacks it.

`Derivation_proofs` proves, for any atoms and clauses of any length, with any repetitions and names, any similarities, and
any other threads that raise the threshold:

| Theorem | Property | of | about |
|---|---|---|---|
| `UnifyTypesHold` | `UnifyTypeOK` | `UnifySpec` | all terms |
| `UnificationUnifies`, `ChainUnifies` | `UnifierUnifies` | `UnifySpec`, `Spec` | atoms without functions |
| `UnificationIsMostGeneral`, `ChainUnifiesMostGenerally` | `UnifierIsMostGeneral` | `UnifySpec`, `Spec` | atoms without functions |
| `RepeatsOnlyGetStuck`, `ChainStuckOnRepeatsOnly` | `StuckOnRepeatsOnly` | `UnifySpec`, `Spec` | all terms |
| `DerivationTyped` | `TypeOK` | `Spec` | all terms |
| `AllLiteralsAreTried` | `EveryLiteralIsTried` | `Spec` | clauses without functions |
| `ResolventsFollow` | `ResolventFollows` | `Spec` | clauses without functions |
| `ResolventsAreMostGeneral` | `ApartIsMostGeneral` | `Spec` | clauses without functions whose names are known |
| `ProofsRefute` | `ProofRefutes` | `Spec` | problems without functions |
| `AnswersFollow` | `AnswerFollows` | `Spec` | problems without functions |

In `UnifySpec` calls of `unify` with any atoms follow each other; `Spec` is that of `Derivation`, in which the calls are those of
`resolve`, and the calls of `resolve` those of a branch of the search. That the properties leave out terms with functions is no
weakness of the proofs: with functions they are false (section 3).

The assumptions. `UnifyAssumption`: the types of the constants, that terms contain their parts only and other terms than functions have
none, as the types of `types.rs` say, and that the similarities of what is compared are numbers. `ResolveAssumption`: a
numbered variable is a term like any other, and there are ground terms, every constant among them, for the instances. That a
new name is found is not assumed: a resolvent is only built with one (`Renamings`), and where `Counters` had none left the model would
stop, which `derivation`, with deadlock checked, shows it does not; the code counts on. `DerivationAssumption`: the types of the problems, that an inverted goal has a literal (the code panics
otherwise, `Panics`), and that an interpretation has an element.

The argument. While the pairs are gone through, the substitutions link variables in chains. That each chain ends is
`IsForest`: bound variables have heights, at most as many as there are bound variables, that fall along every link, so
`Resolved`, which follows that many links, gives the end. A new link is made from an end to an end; all that came to the first then ends where the other does
(`WithIsForest`), unless both are the same variable. The invariant `PairsDone` of the loop is, after n pairs: only variables of
the atoms are bound, to constants or to the source's variables, in a way every common instance agrees with (`Kept`); every variable of
the target met so far is bound (`TargetsBound`); and, unless a variable is bound to itself (`SelfBound`), the first n pairs are the
same at the end of their chains or are two constants, and the running similarity is the least of those (`Solved`).
A self-bound variable never gets away, since only ends are bound anew; so the call cannot return, and the answer need
only be right of the other case. `UnifierUnifies` follows as a bound target variable ends in a value, and values are of
the source's side (`TargetsShown`); that the answer is most general follows from `Kept` (`FinishedIsGeneral`). A call that
gives up has met two different constants, so that there is no common instance, or a threshold no lower than the predicates' similarity.
(That the variables of a term are a recursive function over terms is no obstacle: such a function is built as the least one that has
what it must have, in `VariablesExist`, and the ground instance of a term without parts is defined without the recursion.)

`EveryLiteralIsTried` has the invariant `ResolveInv`: a literal that is passed and `Due` has its step, and the steps are in
order. The threshold only rises, so that nothing passed becomes due later, and a literal whose unification failed at a lower
threshold is not due now. Only for the literal in hand is the answer of `unify` looked at, for which
`UnifierIsMostGeneral` is the invariant.

*Resolvents.* The invariant of the chain is `DerivationInv`, that is `ResolveInv` with `StepsAre`, `FollowsOn` and `ChainIs`.
`StepsAre` says of every step that is noted how it came about: with the renaming of the target's names that was chosen, it is what `DerivedBy` makes of the
two clauses, the substitutions unify the two literals, and they are most general. (It names the substitutions of the target as
they were, which the step does not keep; TLC cannot look for them, and checks what follows from it.) From there the
properties are about one step, without state. `ResolventFollows`: an instance of the resolvent under
a grounding is an instance of each clause under the substitution followed by the grounding (`Then`, `Grounding`), so whoever
satisfies the clauses satisfies it. `ApartIsMostGeneral`: any two instances that can be resolved agree with the unifier, and since the names are apart
after the renaming (`NamedApart`) one substitution of the resolvent's variables gives both (`InstanceReplaced`); here a new name must
be new, which is what `IsNewName` says.

*Proofs.* `FollowsOn`: the clauses at hand are the last resolvent, in any order, and one of the problem's.
`ChainIs`: the running similarity is no more than that of any step, and each step has the resolvent of the one before as its source.
A model of all the clauses, in which symbols mean the same if they are as similar as the proof says, is a model of each
resolvent by induction along the chain; the empty one has no model (`ProofRefutes`). For `AnswerFollows`
the value of a variable of the goal is followed through the substitutions of the steps (`ValueFrom`). Let the variables before a step
stand for what their values do (`Valued`). Backward along the chain every literal of a step's source is then false: those
that remain are in the resolvent, where they are false, and the one resolved upon must be, since the step's target is a clause of the
knowledge, which is true, and its other literals are in the resolvent too. So every literal of the inverted goal is false.

*Calls that get stuck.* `StuckOnRepeatsOnly` is about all terms, so chains lead into terms, and terms into chains. If the atom
of one side has no variable twice, this holds throughout (`LinearAt`): every piece of that side that is still to be compared
(`Pieces`) has variables that are in no other piece, not bound yet, and in nothing that is bound to a variable (`Outside`). What is compared is then never
the same variable, so that a new link keeps the chains a forest (`IsForest`); and the bound variables can be ordered so that
the values of each are above it (`Ordered`), which the occurs check follows: whatever it meets is below the piece in hand, so it ends.
If either side is without repetitions, one of the two cases holds throughout a call (`LinearSides`).

Every safety property of the runs `context_calls`, `search_settings`, `search_best`, `stats`, `cache_hits` and `derivation` is
thereby proved for every value of the constants. Only model-checked are:

- `SearchReturns`, `SearchesEnd` and `DerivationEnds`, being liveness under fairness, which the prover does not do;
- `TypeOK`, `KnowledgeMeansWhatWasAdded`, `SearchMeansTheGoal` and `PanicsOnEmptyOnly` of `ResolutionProver`: what the passes
  of `Normalize` do is defined by RECURSIVE operators over formulas (no module that reaches one can be proved about), and
  would need induction over formulas, which the installed provers cannot instantiate.

## 5. Not modelled

Floating-point arithmetic, hashing, the conversion of objects between Python and Rust, printing and pickling. Panics of
a search thread are modelled in `ProofContext` and excluded by assumption in `ProofSearch` (`max_proofs` is not 0, no
similarity is NaN). The number of workers, `max(6, cpu_count)` where the comment above it and the project's README
say a maximum of 6, is an expression of the constructor on which no property depends. Switches of Python threads
within `to_cnf`, and the width limit with a goal that has no literals, are described above.

## 6. What could follow

1. `TopProofs`, an abstract specification of the leaf proofs as a bounded set of the best, and `ProofContext` shown to
   implement it, by TLC and by proof.
2. `ResolutionProver`: the calls of the backend on sets of disjunctions taken as given, with a theorem that a search
   runs on the knowledge of the calls that returned.
