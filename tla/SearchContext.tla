--------------------------- MODULE SearchContext ---------------------------
(***************************************************************************)
(* The search uses its shared context as ProofContext describes it: what   *)
(* the threads of ProofSearch do to the proofs kept, the threshold, the    *)
(* resolvents seen and the count of discarded proofs are calls of          *)
(* record_leaf_proof and check_resolvent, and so everything that is proved *)
(* of ProofContext holds of the search.                                    *)
(*                                                                         *)
(* ProofContext remembers the calls made.  Three auxiliary variables do    *)
(* the same here; they change nothing that ProofSearch can do.             *)
(***************************************************************************)
EXTENDS ProofSearch

VARIABLES
    recorded,   \* the steps recorded as leaf proofs, in order of arrival
    arrival,    \* of every step in leaves, its place in recorded
    passed,     \* the steps check_resolvent returned true for
    skipped     \* the steps check_resolvent returned false for

aux == <<recorded, arrival, passed, skipped>>

HeadStep(w) == Head(worker[w].found)

\* A step as check_resolvent looks at it.
Checked(s) == [resolvent |-> s.resolvent, depth |-> s.depth, sim |-> s.sim]

AuxInit ==
    /\ Init
    /\ recorded = <<>> /\ arrival = <<>> /\ passed = <<>> /\ skipped = {}

RecordLeaf(w) ==
    /\ RecordLeafProof(w)
    /\ recorded' = Append(recorded, HeadStep(w))
    /\ \E p \in 1 .. Len(leaves) + 1 :
          LET numbers == InsertAt(arrival, p, Len(recorded) + 1) IN
             /\ IsSlot(leaves, HeadStep(w), p)
             /\ arrival' = IF Full THEN Front(numbers) ELSE numbers
    /\ UNCHANGED <<passed, skipped>>

\* The step is let through at once, is skipped, or is still to be put into
\* seen_resolvents.
LookUpResolvent(w) ==
    LET s == HeadStep(w) IN
    /\ CheckResolvent(w)
    /\ passed' = IF ~ SkipSeen THEN Append(passed, Checked(s)) ELSE passed
    /\ skipped' = IF SkipSeen /\ Covers(seen[s.resolvent], s)
                  THEN skipped \cup {Checked(s)} ELSE skipped
    /\ UNCHANGED <<recorded, arrival>>

InsertResolvent(w) ==
    /\ InsertSeen(w)
    /\ passed' = Append(passed, Checked(HeadStep(w)))
    /\ UNCHANGED <<recorded, arrival, skipped>>

\* The steps that call neither.
OtherStep(w) ==
    /\ \/ StartJob(w) \/ RefuseGoal(w) \/ AdmitGoal(w) \/ CheckQuota(w)
       \/ SkipWideClause(w) \/ BeginResolve(w) \/ UnifyLiteral(w)
       \/ LoadThreshold(w) \/ DropStep(w) \/ NextClause(w) \/ EndGoal(w)
       \/ SpawnBatch(w) \/ EndBatch(w)
    /\ UNCHANGED aux

AuxNext ==
    \/ \E w \in Workers :
          \/ RecordLeaf(w) \/ LookUpResolvent(w) \/ InsertResolvent(w)
          \/ OtherStep(w)
    \/ (Collect \/ Done) /\ UNCHANGED aux

AuxSpec == AuxInit /\ [][AuxNext]_<<vars, aux>>
-----------------------------------------------------------------------------
(***************************************************************************)
(* The refinement mapping.                                                 *)
(***************************************************************************)

LeafOf(s, n) == [sim |-> s.sim, depth |-> s.depth, nr |-> n]

\* Steps as the leaves of ProofContext, given the order in which they arrived.
Numbered(steps, numbers) ==
    [i \in DOMAIN steps |-> LeafOf(steps[i], numbers[i])]

EntryIn(d) ==
    IF seen[d] = Unseen THEN [state |-> "unseen"]
    ELSE [state |-> "seen", depth |-> seen[d].depth, sim |-> seen[d].sim]

CallOf(w) ==
    IF At(w, "insert")
    THEN [state |-> "inserting", step |-> Checked(HeadStep(w))]
    ELSE [state |-> "ready"]

Context ==
    INSTANCE ProofContext WITH
        Callers <- Workers,
        Similarities <- Sims,
        NaN <- NoLimit,
        Depths <- Depths,
        Resolvents <- Disjunctions,
        MaxOffers <- NoLimit,
        MaxChecks <- NoLimit,
        leaves <- Numbered(leaves, arrival),
        poisoned <- FALSE,
        discarded <- stats.discarded,
        skip_seen_resolvents <- SkipSeen,
        seen <- [d \in Disjunctions |-> EntryIn(d)],
        call <- [w \in Workers |-> CallOf(w)],
        offered <- Numbered(recorded, [i \in DOMAIN recorded |-> i])
-----------------------------------------------------------------------------
\* Every step of every thread is, for the context, one call or one part of a
\* call that its specification allows, or none: the search never touches the
\* leaf proofs, the threshold, the resolvents seen or the number of discarded
\* proofs in any other way.
ImplementsContext == Context!Spec
=============================================================================
