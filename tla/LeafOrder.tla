----------------------------- MODULE LeafOrder -----------------------------
(***************************************************************************)
(* The order in which SharedProofContext::record_leaf_proof keeps the leaf *)
(* proofs, and the place a new one takes in the sorted vector.  A leaf is a *)
(* record with its running similarity (sim), its depth, and nr, the order  *)
(* in which it arrived (the identity of the ProofStepNode it stands for).  *)
(***************************************************************************)
EXTENDS Integers, Sequences, SequencesExt

\* A mistake: a comparator that puts depth before similarity.
PrecedesByDepth(a, b) ==
    \/ a.depth < b.depth
    \/ a.depth = b.depth /\ a.sim > b.sim

\* The comparator given to sort_by: similarity descending, then depth
\* ascending; it leaves every other pair unordered.
Precedes(a, b) ==
    \/ a.sim > b.sim
    \/ a.sim = b.sim /\ a.depth < b.depth

\* The order that is meant: arrival decides between leaves that are equal
\* otherwise, because sort_by is stable.
Outranks(a, b) ==
    \/ a.sim > b.sim
    \/ a.sim = b.sim /\ a.depth < b.depth
    \/ a.sim = b.sim /\ a.depth = b.depth /\ a.nr < b.nr

\* A mistake: a sort that is not stable, where the new leaf goes before its
\* equals.
IsSlotBeforeEquals(s, e, p) ==
    /\ p \in 1 .. Len(s) + 1
    /\ \A i \in 1 .. p - 1 : Precedes(s[i], e)
    /\ \A i \in p .. Len(s) : ~ Precedes(s[i], e)

\* push and sort_by move a new last leaf e to slot p of the sorted vector s:
\* behind every leaf that e does not precede, before all the others.
IsSlot(s, e, p) ==
    /\ p \in 1 .. Len(s) + 1
    /\ \A i \in 1 .. p - 1 : ~ Precedes(e, s[i])
    /\ \A i \in p .. Len(s) : Precedes(e, s[i])
=============================================================================
