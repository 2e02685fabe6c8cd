---------------------------- MODULE ProofContext ----------------------------
(***************************************************************************)
(* SharedProofContext: what the search threads share while they look for   *)
(* proofs.  It keeps the best max_proofs leaf proofs in a sorted vector    *)
(* behind an RwLock, raises the similarity threshold that prunes the       *)
(* search, and remembers the resolvents already seen in a concurrent map.  *)
(* The callers are threads that make any sequence of calls.                *)
(*                                                                         *)
(* record_leaf_proof is one action: it works under the write lock, and the *)
(* only thing that others can read without the lock, the threshold, is     *)
(* written once.  check_resolvent takes no lock between its look-up and    *)
(* its insertion, so these are two actions.                                *)
(***************************************************************************)
EXTENDS LeafOrder, FiniteSets

CONSTANTS
    Callers,            \* the threads
    NoLimit,            \* max_proofs = None
    MaxProofs,          \* max_proofs: a number or NoLimit
    InitialThreshold,   \* min_similarity_threshold of the prover
    Similarities,       \* running similarities the steps may have
    NaN,                \* the f64 that compares with nothing
    Depths,             \* depths the steps may have
    Resolvents,         \* resolvents, told apart by their hash
    MaxOffers,          \* bound on calls of record_leaf_proof, or NoLimit
    MaxChecks           \* bound on calls of check_resolvent, or NoLimit

\* unify() only lets through a similarity s unless s <= threshold, and the
\* threshold starts at InitialThreshold: what reaches the context is a number
\* above it, or NaN, of which s <= threshold is false.
ASSUME ContextAssumption ==
    /\ MaxProofs \in Nat \cup {NoLimit}
    /\ NoLimit \notin Nat
    /\ InitialThreshold \in Int
    /\ NaN \notin Int
    /\ \A s \in Similarities \ {NaN} : s \in Int /\ s > InitialThreshold
    /\ Depths \subseteq Nat
    /\ MaxOffers \in Nat \cup {NoLimit}
    /\ MaxChecks \in Nat \cup {NoLimit}

VARIABLES
    leaves,     \* scored_leaf_proof_steps
    poisoned,   \* a thread panicked while it held the write lock
    threshold,  \* min_similarity_threshold
    discarded,  \* stats.discarded_proofs
    skip_seen_resolvents,   \* whether check_resolvent is asked to skip any
    seen,       \* seen_resolvents: the entry of a resolvent, or none
    call,       \* per caller: the step it is about to insert, or its state
    offered,    \* history: the leaves recorded, in order of arrival
    passed,     \* history: the steps check_resolvent returned true for
    skipped     \* history: the steps check_resolvent returned false for

leafVars == <<leaves, poisoned, threshold, discarded, offered>>
seenVars == <<skip_seen_resolvents, seen, passed, skipped>>
vars == <<leafVars, seenVars, call>>

Numbers == Similarities \ {NaN}
Leaf == [sim : Similarities, depth : Depths, nr : Nat]
Step == [resolvent : Resolvents, depth : Depths, sim : Similarities]

Unseen == [state |-> "unseen"]
Entry == [state : {"seen"}, depth : Depths, sim : Similarities]

Ready == [state |-> "ready"]
Panicked == [state |-> "panicked"]
Inserting(s) == [state |-> "inserting", step |-> s]

Init ==
    /\ leaves = <<>>
    /\ poisoned = FALSE
    /\ threshold = InitialThreshold
    /\ discarded = 0
    /\ skip_seen_resolvents \in BOOLEAN
    /\ seen = [r \in Resolvents |-> Unseen]
    /\ call = [c \in Callers |-> Ready]
    /\ offered = <<>>
    /\ passed = <<>>
    /\ skipped = {}
-----------------------------------------------------------------------------
\* A mistake: one leaf less than max_proofs is kept.
OverflowsTooSoon(n) == MaxProofs # NoLimit /\ n >= MaxProofs

\* The vector of n leaves is longer than max_proofs.
Overflows(n) == MaxProofs # NoLimit /\ n > MaxProofs

\* A mistake: the similarity of the leaf that is popped.
BarBeforePop(sorted) == Last(sorted).sim

\* The new threshold: last() after the pop.
BarAfterPop(sorted) == sorted[Len(sorted) - 1].sim

\* A mistake: a lone NaN would panic too.
SortPanicsAlone(e) == e.sim = NaN

\* partial_cmp(..).unwrap() panics when it meets NaN: sort_by compares every
\* element of a vector of two or more.
SortPanics(e) ==
    \E i \in 1 .. Len(leaves) : e.sim = NaN \/ leaves[i].sim = NaN

\* last().unwrap() panics when the pop emptied the vector.
PopPanics == Overflows(1)

\* A mistake: the number of parents is taken for the depth of the parent.
NewLeafTooShallow(s, d) ==
    [sim |-> s, depth |-> d - 1, nr |-> Len(offered) + 1]

\* What record_leaf_proof pushes.
NewLeaf(s, d) == [sim |-> s, depth |-> d, nr |-> Len(offered) + 1]

CanOffer(c) ==
    /\ call[c] = Ready /\ ~ poisoned
    /\ MaxOffers = NoLimit \/ Len(offered) < MaxOffers

\* record_leaf_proof while there is room: push and sort.
KeepLeaf(c) ==
    \E s \in Similarities, d \in Depths : LET e == NewLeaf(s, d) IN
        /\ CanOffer(c)
        /\ ~ SortPanics(e)
        /\ ~ Overflows(Len(leaves) + 1)
        /\ \E p \in 1 .. Len(leaves) + 1 :
              /\ IsSlot(leaves, e, p)
              /\ leaves' = InsertAt(leaves, p, e)
        /\ offered' = Append(offered, e)
        /\ UNCHANGED <<poisoned, threshold, discarded, seenVars, call>>

\* record_leaf_proof when the vector is full: push, sort, pop the worst,
\* count it, and raise the threshold to the worst leaf that stays.
DisplaceLeaf(c) ==
    \E s \in Similarities, d \in Depths : LET e == NewLeaf(s, d) IN
        /\ CanOffer(c)
        /\ ~ SortPanics(e)
        /\ Overflows(Len(leaves) + 1)
        /\ ~ PopPanics
        /\ \E p \in 1 .. Len(leaves) + 1 :
              LET sorted == InsertAt(leaves, p, e) IN
                 /\ IsSlot(leaves, e, p)
                 /\ leaves' = Front(sorted)
                 /\ threshold' = BarAfterPop(sorted)
        /\ discarded' = discarded + 1
        /\ offered' = Append(offered, e)
        /\ UNCHANGED <<poisoned, seenVars, call>>

\* record_leaf_proof that unwinds with the write guard held: the RwLock is
\* poisoned.  What the vector holds then is never read again.
PanicInRecord(c) ==
    \E s \in Similarities, d \in Depths : LET e == NewLeaf(s, d) IN
        /\ CanOffer(c)
        /\ SortPanics(e) \/ PopPanics
        /\ poisoned' = TRUE
        /\ discarded' = IF SortPanics(e) THEN discarded ELSE discarded + 1
        /\ offered' = Append(offered, e)
        /\ call' = [call EXCEPT ![c] = Panicked]
        /\ UNCHANGED <<leaves, threshold, seenVars>>

\* The next thread that asks for the lock unwraps the poison and panics too.
PanicOnPoison(c) ==
    /\ call[c] = Ready
    /\ poisoned
    /\ call' = [call EXCEPT ![c] = Panicked]
    /\ UNCHANGED <<leafVars, seenVars>>
-----------------------------------------------------------------------------
Checks ==
    Len(passed) + Cardinality(skipped)
      + Cardinality({c \in Callers : call[c].state = "inserting"})

CanCheck(c) == call[c] = Ready /\ (MaxChecks = NoLimit \/ Checks < MaxChecks)

AtLeast(a, b) == a # NaN /\ b # NaN /\ a >= b

\* The entry of a resolvent was reached at this depth or below, and with this
\* similarity or a better one.
Covers(entry, s) == entry.depth <= s.depth /\ AtLeast(entry.sim, s.sim)

\* check_resolvent without skip_seen_resolvents.
PassUnchecked(c) ==
    \E s \in Step :
        /\ CanCheck(c)
        /\ ~ skip_seen_resolvents
        /\ passed' = Append(passed, s)
        /\ UNCHANGED <<leafVars, skip_seen_resolvents, seen, skipped, call>>

\* seen_resolvents.get finds an entry that covers the step: return false.
SkipResolvent(c) ==
    \E s \in Step :
        /\ CanCheck(c)
        /\ skip_seen_resolvents
        /\ seen[s.resolvent] # Unseen /\ Covers(seen[s.resolvent], s)
        /\ skipped' = skipped \cup {s}
        /\ UNCHANGED <<leafVars, skip_seen_resolvents, seen, passed, call>>

\* seen_resolvents.get finds no such entry; its guard is dropped.
MissResolvent(c) ==
    \E s \in Step :
        /\ CanCheck(c)
        /\ skip_seen_resolvents
        /\ ~ (seen[s.resolvent] # Unseen /\ Covers(seen[s.resolvent], s))
        /\ call' = [call EXCEPT ![c] = Inserting(s)]
        /\ UNCHANGED <<leafVars, seenVars>>

\* A mistake: the entry keeps the best depth and the best similarity met, and
\* covers steps that no single step did.
EntryMerged(old, s) ==
    IF old = Unseen THEN [state |-> "seen", depth |-> s.depth, sim |-> s.sim]
    ELSE [state |-> "seen",
          depth |-> IF old.depth < s.depth THEN old.depth ELSE s.depth,
          sim |-> IF AtLeast(old.sim, s.sim) THEN old.sim ELSE s.sim]

\* The entry that a step leaves behind: its own.
EntryOf(old, s) == [state |-> "seen", depth |-> s.depth, sim |-> s.sim]

\* seen_resolvents.insert, whatever is there by now, and return true.
InsertResolvent(c) ==
    /\ call[c].state = "inserting"
    /\ LET s == call[c].step IN
        /\ seen' = [seen EXCEPT ![s.resolvent] = EntryOf(@, s)]
        /\ passed' = Append(passed, s)
    /\ call' = [call EXCEPT ![c] = Ready]
    /\ UNCHANGED <<leafVars, skip_seen_resolvents, skipped>>
-----------------------------------------------------------------------------
RecordLeafProof(c) == KeepLeaf(c) \/ DisplaceLeaf(c) \/ PanicInRecord(c)

CheckResolvent(c) ==
    PassUnchecked(c) \/ SkipResolvent(c) \/ MissResolvent(c)
      \/ InsertResolvent(c)

Next ==
    \E c \in Callers :
        RecordLeafProof(c) \/ PanicOnPoison(c) \/ CheckResolvent(c)

Spec == Init /\ [][Next]_vars
-----------------------------------------------------------------------------
(***************************************************************************)
(* Properties.                                                             *)
(***************************************************************************)

\* Every variable stays in its type.
TypeOK ==
    /\ leaves \in Seq(Leaf)
    /\ offered \in Seq(Leaf)
    /\ poisoned \in BOOLEAN
    /\ threshold \in Int
    /\ discarded \in Nat
    /\ skip_seen_resolvents \in BOOLEAN
    /\ seen \in [Resolvents -> {Unseen} \cup Entry]
    /\ call \in [Callers -> {Ready, Panicked} \cup
                            [state : {"inserting"}, step : Step]]
    /\ passed \in Seq(Step)
    /\ skipped \subseteq Step

\* However the calls interleave, the vector is strictly sorted by similarity,
\* depth and arrival, and every leaf that is not in it is outranked by every
\* leaf that is: record_leaf_proof keeps the first max_proofs of all leaves.
KeptAreTheBest ==
    ~ poisoned =>
        /\ \A i, j \in 1 .. Len(leaves) :
              i < j => Outranks(leaves[i], leaves[j])
        /\ \A i \in 1 .. Len(leaves) : leaves[i] \in ToSet(offered)
        /\ \A d \in ToSet(offered) \ ToSet(leaves) :
              \A i \in 1 .. Len(leaves) : Outranks(leaves[i], d)

\* No leaf is lost or counted twice, and none is discarded before max_proofs
\* others are kept.
EveryLeafAccounted ==
    ~ poisoned =>
        /\ Len(leaves) + discarded = Len(offered)
        /\ discarded > 0 => Len(leaves) = MaxProofs

\* The threshold is the prover's own until a leaf is discarded, and from then
\* on the similarity of the worst leaf kept, so that a step at or below it
\* cannot lead to a proof that improves the similarities kept.
ThresholdIsTheBar ==
    ~ poisoned =>
        threshold = IF discarded = 0 THEN InitialThreshold
                    ELSE leaves[Len(leaves)].sim

\* No call lowers the threshold: a thread that holds an old value of it prunes
\* less than it could, never more than it may.
ThresholdNeverFalls == [][threshold' >= threshold]_vars

\* A panic of a thread that uses the context comes from max_proofs = 0 or from
\* a similarity that is NaN, met while another leaf was there.
PanicHasACause ==
    (poisoned \/ \E c \in Callers : call[c] = Panicked) =>
        /\ poisoned
        /\ \/ MaxProofs = 0
           \/ Len(offered) > 1 /\ \E e \in ToSet(offered) : e.sim = NaN

\* The get and the insert of two threads may interleave, and an insert may
\* replace an entry that says more than the new one: even so, a step is skipped
\* only if a step with the same resolvent was let through at its depth or
\* below, with its similarity or a better one.
SkippedIsCovered ==
    \A s \in skipped : \E i \in 1 .. Len(passed) :
        /\ passed[i].resolvent = s.resolvent
        /\ Covers(passed[i], s)
=============================================================================
