---------------------------- MODULE MCDerivation ----------------------------
(***************************************************************************)
(* Small instances of Derivation for TLC: single resolutions of source     *)
(* clauses of one or two literals with target clauses of one to three, and *)
(* proofs of a few steps.                                                  *)
(***************************************************************************)
EXTENDS Derivation

x == Variable("x")
y == Variable("y")
a == Constant("a")
b == Constant("b")
c == Constant("c")
f(t) == BoundFunction("f", <<t>>)
g(t) == BoundFunction("g", <<t>>)
h(t, u) == BoundFunction("h", <<t, u>>)

Bases == {"x", "y"}
MCNumberedName == [p \in Bases \X (1 .. 2) |-> p[1] \o "_" \o ToString(p[2])]
NumberedNames(v) == { MCNumberedName[v, i] : i \in 1 .. 2 }
Names == Bases \cup UNION { NumberedNames(v) : v \in Bases }
MCBaseName ==
    [n \in Names |-> CHOOSE v \in Bases : n \in {v} \cup NumberedNames(v)]

MCSymbols == {"p", "s", "q", "r", "a", "b", "c"}
MCSimilarity ==
    [pair \in MCSymbols \X MCSymbols |->
        IF pair[1] = pair[2] THEN 3
        ELSE IF {pair[1], pair[2]} = {"p", "s"} THEN 1
        ELSE IF {pair[1], pair[2]} = {"a", "b"} THEN 2 ELSE 0]

\* Every constant, so that what is bound to one has instances.
MCUniverse == {a, b, c}
MCTerms ==
    { Variable(n) : n \in Names }
      \cup {a, b, c, f(a), f(b), f(x), f(y), f(f(x)), f(f(a)), g(x),
             h(x, x), h(x, y)}

P(S) == { <<s, t>> : s \in S, t \in S }
One(p, terms, sign) == Literal(sign, p, terms)

\* Flat clauses: the goal first has a literal of p, then one of q.
MCFlatSources ==
    { <<One("p", ts, TRUE)>> : ts \in P({x, y, a}) }
      \cup { <<One("p", ts, TRUE), One("q", <<t>>, TRUE)>> :
               ts \in P({x, y, a}), t \in {x, Variable("x_1"), b} }

\* One literal of p and two others, or two that both may unify.
MCFlatTargets ==
    { <<One("p", ts, FALSE), One("q", <<t>>, FALSE), One("r", <<u>>, TRUE)>> :
        ts \in P({x, y, b}), t \in {x, y}, u \in {x, y, Variable("x_1")} }
      \cup { <<One("p", ts, FALSE), One("s", us, FALSE), One("p", us, TRUE)>> :
               ts \in P({x, y, c}), us \in P({x, b}) }

\* Atoms with functions, and one of another length.
MCNestedSources ==
    { <<One("p", ts, TRUE)>> : ts \in P({x, a, f(a), f(x), f(f(a))}) }

MCNestedTargets ==
    { <<One("p", ts, FALSE)>> : ts \in P({x, y, f(x), f(f(x)), g(x)}) }
      \cup {<<One("p", <<a>>, FALSE)>>}

\* Atoms in which a term has a variable twice.
MCPairedSources == { <<One("p", ts, TRUE)>> : ts \in P({x, f(x), h(x, x), h(x, y)}) }

MCPairedTargets == { <<One("p", ts, FALSE)>> : ts \in P({x, y, h(x, x), h(x, y)}) }

Resolution(S, T) ==
    { [goals |-> {s}, knowledge |-> {t}, max_proof_depth |-> 1] :
        s \in S, t \in T }

MCFlatResolutions == Resolution(MCFlatSources, MCFlatTargets)

MCResolutions ==
    MCFlatResolutions \cup Resolution(MCNestedSources, MCNestedTargets)
      \cup Resolution(MCPairedSources, MCPairedTargets)

NotP(s, t) == One("p", <<s, t>>, FALSE)
NotQ(t) == One("q", <<t>>, FALSE)

\* Inverted goals, of one literal or two.
MCGoals ==
    {<<NotP(x, y)>>, <<NotP(x, x)>>, <<NotP(y, b)>>, <<NotP(x, y), NotQ(y)>>,
     <<NotQ(x), NotP(x, b)>>, <<NotP(x, y), NotP(y, x)>>}

\* A rule, whose variables have the names of the goal's, and the facts.
MCRules ==
    { <<One("p", ts, TRUE), NotQ(t)>> :
        ts \in {<<x, y>>, <<y, y>>, <<y, a>>}, t \in {x, y} }
      \cup {<<One("p", <<x, y>>, TRUE), NotP(y, x)>>}

MCFacts ==
    LET P2(s, t) == <<One("p", <<s, t>>, TRUE)>>
        S2(s, t) == <<One("s", <<s, t>>, TRUE)>>
        Q(t) == <<One("q", <<t>>, TRUE)>>
    IN {{Q(a)}, {Q(b), P2(a, x)}, {Q(x), P2(b, a)}, {S2(a, b), Q(y)}}

MCProofs ==
    { [goals |-> {goal}, knowledge |-> {rule} \cup facts,
       max_proof_depth |-> 3] :
        goal \in MCGoals, rule \in MCRules, facts \in MCFacts }

\* A goal of two literals that a fact for a function of anything meets halfway.
MCNestedProofs ==
    { [goals |-> {<<NotP(x, t), NotQ(x)>>},
       knowledge |-> {<<One("p", us, TRUE)>>, <<One("q", <<v>>, TRUE)>>},
       max_proof_depth |-> 2] :
        t \in {a, y}, us \in {<<f(y), y>>, <<f(x), a>>}, v \in {f(a), f(b)} }

MCProblems == MCResolutions \cup MCProofs
=============================================================================
