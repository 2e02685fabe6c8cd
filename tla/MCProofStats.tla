---------------------------- MODULE MCProofStats ----------------------------
(***************************************************************************)
(* A small instance of ProofStats for TLC.                                 *)
(***************************************************************************)
EXTENDS ProofStats, TLC

Step(n, k, w, d) ==
    ("attempted_resolutions" :> n) @@ ("successful_resolutions" :> k)
    @@ ("max_resolvent_width_seen" :> w) @@ ("max_depth_seen" :> d)
    @@ ("discarded_proofs" :> 0)

MCStepStats == {Step(1, 0, 0, 2), Step(1, 1, 1, 1)}

MCSymmetry == Permutations(Threads)
=============================================================================
