------------------------------ MODULE MCUnify ------------------------------
(***************************************************************************)
(* Small instances of Unify for TLC: atoms of two terms over two variables *)
(* and a constant, and atoms of three terms with functions.                *)
(***************************************************************************)
EXTENDS Unify

x == Variable("x")
y == Variable("y")
a == Constant("a")
b == Constant("b")
f(t) == BoundFunction("f", <<t>>)

MCUniverse == {a, b}
MCSimilarity ==
    [p \in {"p", "a", "b"} \X {"p", "a", "b"} |-> IF p[1] = p[2] THEN 1 ELSE 0]

Pairs(S) == { [predicate |-> "p", terms |-> <<s, t>>] : s \in S, t \in S }

MCFlat == {x, y, a}
MCFlatAtoms == Pairs(MCFlat)

MCNested == {x, y, f(x), f(f(x))}
Triples(S) ==
    { [predicate |-> "p", terms |-> <<s, t, u>>] :
        s \in S, t \in {x, y}, u \in {x, y} }
MCVariableAtoms == Triples({y})
MCNestedAtoms == Triples({f(f(x))})
=============================================================================
