----------------------------- MODULE MCSettings -----------------------------
(***************************************************************************)
(* ProofSearch with two settings of the prover, of which a behaviour has   *)
(* one: prove() that stops early, as the constants of the configuration    *)
(* say, and prove_all() that looks for the highest similarities.           *)
(***************************************************************************)
EXTENDS MCProofSearch

VARIABLE setting

ForAll ==
    INSTANCE ProofSearch WITH
        MaxAttempts <- NoLimit, MaxWidth <- NoLimit, MaxProofs <- 2,
        SkipSeen <- FALSE, FindHighest <- TRUE,
        Goals <- MCOneGoal, Problems <- MCDetours

MCInit ==
    \/ setting = "prove" /\ Init
    \/ setting = "prove_all" /\ ForAll!Init

MCWorkerStep(w) ==
    /\ \/ setting = "prove" /\ WorkerStep(w)
       \/ setting = "prove_all" /\ ForAll!WorkerStep(w)
    /\ UNCHANGED setting

MCCollect ==
    /\ \/ setting = "prove" /\ Collect
       \/ setting = "prove_all" /\ ForAll!Collect
    /\ UNCHANGED setting

MCDone == Done /\ UNCHANGED setting

MCNext == (\E w \in Workers : MCWorkerStep(w)) \/ MCCollect \/ MCDone

\* The fairness of ProofSearch, in both settings.
MCFairSpec ==
    /\ MCInit /\ [][MCNext]_<<vars, setting>>
    /\ \A w \in Workers : WF_<<vars, setting>>(MCWorkerStep(w))
    /\ WF_<<vars, setting>>(MCCollect)

\* prove_all() with max_proofs = 2 returns the best two, although it prunes with
\* a threshold that other threads raise meanwhile: see ResultIsTop.
TopTwoAreReturned == setting = "prove_all" => ForAll!ResultIsTop
=============================================================================
