------------------------- MODULE MCResolutionProver -------------------------
(***************************************************************************)
(* Small instances of ResolutionProver for TLC: many formulas, each added  *)
(* or asked for by itself, and a few scenarios in which calls follow one   *)
(* another and threads interleave.                                         *)
(***************************************************************************)
EXTENDS ResolutionProver

MCMalformed == Variable("x")

P(x) == Atom("p", <<Variable(x)>>)
R(x, y) == Atom("r", <<Variable(x), Variable(y)>>)
Pf(x) == Atom("p", <<BoundFunction("f", <<Variable(x)>>)>>)
Pa == Atom("p", <<BoundFunction("a", <<>>)>>)

Quantified(q, x, f) == Node(q, x, <<f>>)

\* Quantifiers in front of a formula, the same name bound twice and a name
\* without a quantifier among them.
Prefixed ==
    { Quantified(q1, x, Quantified(q2, "y", m)) :
        q1, q2 \in Quantifiers, x \in {"x", "y"},
        m \in {R("x", "y"), Implies(And(<<P("x"), P("y")>>), R("y", "x"))}
              \cup { Quantified(q3, z, Or(<<R("x", "y"), Not(R("y", z))>>)) :
                      q3 \in Quantifiers, z \in {"x", "z"} } }

\* A name bound twice, next to itself unbound or to the name given instead.
Clashing ==
    { Connective(op, <<Quantified(q1, "x", P("x")),
                       Quantified(q2, "x", R("x", z)), Not(P(z))>>) :
        op \in Connectives, q1, q2 \in Quantifiers, z \in {"x", "x_1"} }

\* Every connective above every other, with a function or a negation below.
Nested ==
    { Exists("x", Not(Connective(op, <<f, Implies(g, P("y"))>>))) :
        op \in Connectives,
        f, g \in {P("x"), Not(Pf("y")), And(<<>>), Or(<<>>),
                  And(<<P("x"), Not(Pa)>>), Or(<<Pf("x"), P("y")>>)} }

Alone(f) == [clauses |-> {<<f>>}, goals |-> {f}, calls |-> 1]

Some(op) == Exists("x", IF op = "not" THEN Not(P("x")) ELSE P("x"))

Together ==
    { [clauses |-> {<<Some("p"), Some("not")>>}, goals |-> {P("x")}, calls |-> 4],
      [clauses |-> {<<Some("p")>>, <<Some("not"), MCMalformed>>},
       goals |-> {Some("p"), And(<<>>)}, calls |-> 3],
      [clauses |-> {<<All("x", Exists("y", R("x", y)))>> : y \in {"x", "y"}},
       goals |-> {Exists("x", All("y", R("x", "y")))}, calls |-> 3] }

MCSymmetry == Permutations(Callers)

MCScenarios == { Alone(f) : f \in Prefixed \cup Clashing \cup Nested } \cup Together
=============================================================================
