--------------------------- MODULE MCProofSearch ---------------------------
(***************************************************************************)
(* Small instances of ProofSearch for TLC: families of problems over three *)
(* disjunctions and two clauses, with every choice of some similarities.   *)
(***************************************************************************)
EXTENDS ProofSearch

MCDisjunctions == {"g", "h", "a", "b"}
MCOneGoal == <<"g">>
MCTwoGoals == <<"g", "h">>
MCWidth == [d \in MCDisjunctions |-> IF d = "b" THEN 2 ELSE 1]
MCClauseWidth == <<2, 3>>

To(r, s) == [resolvent |-> r, sim |-> s]

\* a is reached from the goal g at once and by way of b, which gives it any
\* order of similarity and depth; the second clause has two literals that
\* unify with b, one of which leads back to b: for ever, but for the depth.
Detour(direct, first, second, last) ==
    [g |-> <<<<To("a", direct)>>, <<To("b", first)>>>>,
     h |-> <<<<>>, <<To("b", 3)>>>>,
     a |-> <<<<To("empty", last)>>, <<>>>>,
     b |-> <<<<To("a", second)>>, <<To("empty", 1), To("b", 2)>>>>]

MCDetours ==
    { Detour(d, f, s, 3) : d \in 1 .. 3, f \in 1 .. 3, s \in 1 .. 3 }
MCFewDetours ==
    { Detour(d, 2, s, l) : d \in 1 .. 2, s \in 2 .. 3, l \in 2 .. 3 }

MCSymmetry == Permutations(Workers)
=============================================================================
