--------------------------- MODULE MCProofContext ---------------------------
(***************************************************************************)
(* Small instances of ProofContext for TLC.                                *)
(***************************************************************************)
EXTENDS ProofContext

\* Two similarities above the prover's threshold, so that a leaf can be worse
\* than, equal to or better than another, and the one that is no number.
MCNumbers == {1, 2}
MCWithNaN == MCNumbers \cup {NaN}

MCDepths == {0, 1}

\* The callers and the resolvents are interchangeable.
MCSymmetry == Permutations(Callers) \cup Permutations(Resolvents)
=============================================================================
