----------------------------- MODULE Normalize -----------------------------
(***************************************************************************)
(* to_cnf(): a formula becomes a set of disjunctions in four passes:       *)
(* negations are moved inwards, variables get different names, quantifiers *)
(* go with the help of Skolem functions, and conjunctions are moved        *)
(* outwards.  And what formulas and disjunctions mean, which the passes do *)
(* not know.                                                               *)
(*                                                                         *)
(* A term or a formula is a node of a tree.  The order of disjunctions and *)
(* of their literals is left out: the prover makes sets of them.           *)
(***************************************************************************)
EXTENDS Naturals, Sequences, FiniteSets, SequencesExt

CONSTANT Elements   \* what the interpretations are about

Node(op, symbol, args) == [op |-> op, symbol |-> symbol, args |-> args]

Variable(x) == Node("variable", x, <<>>)
BoundFunction(f, ts) == Node("function", f, ts)
Atom(p, ts) == Node("atom", p, ts)
Not(f) == Node("not", "", <<f>>)
Implies(f, g) == Node("implies", "", <<f, g>>)
All(x, f) == Node("all", x, <<f>>)
Exists(x, f) == Node("exists", x, <<f>>)

Quantifiers == {"all", "exists"}
Connectives == {"and", "or"}

\* The arguments of And in an And, and of Or in an Or, become its own.
Connective(op, fs) ==
    Node(op, "", FlattenSeq([i \in DOMAIN fs |->
                    IF fs[i].op = op THEN fs[i].args ELSE <<fs[i]>>]))
And(fs) == Connective("and", fs)
Or(fs) == Connective("or", fs)
-----------------------------------------------------------------------------
(***************************************************************************)
(* to_nnf                                                                  *)
(***************************************************************************)
DualConnective(op) == IF op = "and" THEN "or" ELSE "and"

DualQuantifier(op) == IF op = "all" THEN "exists" ELSE "all"

Negations(fs) == [i \in DOMAIN fs |-> Not(fs[i])]

\* A mistake: the antecedent is negated, and the negation left there.
ImpliesUntouched(f) == Or(<<Not(f.args[1]), f.args[2]>>)

RECURSIVE ToNNF(_), NotToNNF(_), ImpliesToNNF(_)

EachToNNF(fs) == [i \in DOMAIN fs |-> ToNNF(fs[i])]

ToNNF(f) ==
    CASE f.op = "not" -> NotToNNF(f.args[1])
      [] f.op \in Connectives -> Connective(f.op, EachToNNF(f.args))
      [] f.op = "implies" -> ImpliesToNNF(f)
      [] f.op \in Quantifiers -> Node(f.op, f.symbol, EachToNNF(f.args))
      [] f.op = "atom" -> f

ImpliesToNNF(f) == Or(EachToNNF(Or(<<Not(f.args[1]), f.args[2]>>).args))

\* The negation of f.
NotToNNF(f) ==
    CASE f.op \in Connectives ->
            Connective(DualConnective(f.op),
                EachToNNF(Connective(DualConnective(f.op), Negations(f.args)).args))
      [] f.op = "not" -> ToNNF(f.args[1])
      [] f.op = "implies" -> NotToNNF(ImpliesToNNF(f))
      [] f.op \in Quantifiers ->
            Node(DualQuantifier(f.op), f.symbol, <<NotToNNF(f.args[1])>>)
      [] f.op = "atom" -> Not(f)
-----------------------------------------------------------------------------
(***************************************************************************)
(* normalize_variables                                                     *)
(***************************************************************************)

\* find_unbound_var_names
RECURSIVE Unbound(_)
Unbound(f) ==
    IF f.op = "variable" THEN {f.symbol}
    ELSE UNION { Unbound(f.args[i]) : i \in DOMAIN f.args }
           \ (IF f.op \in Quantifiers THEN {f.symbol} ELSE {})

\* A mistake: the name with a number is not looked up again.
FirstNumberedName(name, used) ==
    IF name \in used THEN name \o "_" \o ToString(1) ELSE name

\* VarNameGenerator: the name, or the first of name_1, name_2, ... not used.
UnusedName(name, used) ==
    LET Numbered(i) == name \o "_" \o ToString(i) IN
    IF name \notin used THEN name
    ELSE Numbered(CHOOSE i \in 1 .. Cardinality(used) + 1 :
                    /\ Numbered(i) \notin used
                    /\ \A j \in 1 .. i - 1 : Numbered(j) \in used)

\* A term with its variables replaced by the terms that map has for them.
RECURSIVE Substituted(_, _)
Substituted(t, map) ==
    IF t.op = "variable"
    THEN IF t.symbol \in DOMAIN map THEN map[t.symbol] ELSE t
    ELSE [t EXCEPT !.args = [i \in DOMAIN @ |-> Substituted(@[i], map)]]

\* The formula with new names for what is bound, and the names used then.
RECURSIVE Renamed(_, _, _)
Renamed(f, map, used) ==
    LET Then(done, g) ==
          LET r == Renamed(g, done.map, done.used) IN
          [done EXCEPT !.args = Append(@, r.formula), !.used = r.used]
        \* The arguments from left to right.
        Through(m, u) ==
          FoldLeft(Then, [args |-> <<>>, used |-> u, map |-> m], f.args)
        name == UnusedName(f.symbol, used)
        rest == IF f.op \in Quantifiers
                THEN Through((f.symbol :> Variable(name)) @@ map, used \cup {name})
                ELSE Through(map, used)
    IN IF f.op = "atom" THEN [formula |-> Substituted(f, map), used |-> used]
       ELSE [formula |-> Node(f.op, IF f.op \in Quantifiers THEN name ELSE "",
                              rest.args),
             used |-> rest.used]

NormalizeVariables(f) ==
    Renamed(f, [x \in Unbound(f) |-> Variable(x)], Unbound(f)).formula
-----------------------------------------------------------------------------
(***************************************************************************)
(* normalize_quantifiers                                                   *)
(***************************************************************************)

\* Skolemizer: a function of the universal variables, in any fixed order.
SkolemTerm(n, universal) ==
    LET names == SetToSeq(universal) IN
    BoundFunction("_SK_" \o ToString(n),
                  [i \in DOMAIN names |-> Variable(names[i])])

\* The formula without quantifiers, and the counter of Skolem functions.
RECURSIVE Skolemized(_, _, _, _)
Skolemized(f, universal, map, counter) ==
    LET Then(done, g) ==
          LET s == Skolemized(g, universal, map, done.counter) IN
          [args |-> Append(done.args, s.formula), counter |-> s.counter]
        rest == FoldLeft(Then, [args |-> <<>>, counter |-> counter], f.args)
        term == SkolemTerm(counter + 1, universal)
    IN CASE f.op = "all" ->
              Skolemized(f.args[1], universal \cup {f.symbol}, map, counter)
         [] f.op = "exists" ->
              Skolemized(f.args[1], universal, (f.symbol :> term) @@ map,
                         counter + 1)
         [] f.op = "atom" ->
              [formula |-> Substituted(f, map), counter |-> counter]
         [] OTHER ->
              [formula |-> Node(f.op, "", rest.args), counter |-> rest.counter]

NormalizeQuantifiers(f, counter) ==
    Skolemized(f, Unbound(f), [x \in {} |-> x], counter)
-----------------------------------------------------------------------------
(***************************************************************************)
(* normalize_conjunctions and _norm_clause_to_cnf.  A disjunction is the   *)
(* set of its literals, which are atoms and negations of atoms.            *)
(***************************************************************************)
IsLiteral(f) == f.op = "atom" \/ (f.op = "not" /\ f.args[1].op = "atom")

\* A mistake: literals next to disjunctions are lost on the way.
LiteralsLost(f) == {{}}

LiteralAlone(f) == {{f}}

RECURSIVE Disjunctions(_)
Disjunctions(f) ==
    LET Product(done, g) == { d \cup e : d \in done, e \in Disjunctions(g) } IN
    CASE f.op = "or" -> FoldLeft(Product, {{}}, f.args)
      [] f.op = "and" -> UNION { Disjunctions(f.args[i]) : i \in DOMAIN f.args }
      [] OTHER -> LiteralAlone(f)

\* The disjunctions of a formula, and the Skolemizer's counter afterwards.
ToCNF(f, counter) ==
    LET simplified ==
          NormalizeQuantifiers(NormalizeVariables(ToNNF(f)), counter)
    IN [disjunctions |-> Disjunctions(simplified.formula),
        counter |-> simplified.counter]
-----------------------------------------------------------------------------
(***************************************************************************)
(* What they mean.  An interpretation says which atoms are true of which   *)
(* elements, and what the functions do.                                    *)
(***************************************************************************)
RECURSIVE Element(_, _, _)
Element(t, I, g) ==
    IF t.op = "variable" THEN g[t.symbol]
    ELSE I.functions[t.symbol][[i \in DOMAIN t.args |-> Element(t.args[i], I, g)]]

RECURSIVE Holds(_, _, _)
Holds(f, I, g) ==
    LET Arg(i, h) == Holds(f.args[i], I, h)
        With(e) == (f.symbol :> e) @@ g
    IN CASE f.op = "atom" ->
              <<f.symbol, [i \in DOMAIN f.args |-> Element(f.args[i], I, g)]>>
                \in I.true
         [] f.op = "not" -> ~ Arg(1, g)
         [] f.op = "and" -> \A i \in DOMAIN f.args : Arg(i, g)
         [] f.op = "or" -> \E i \in DOMAIN f.args : Arg(i, g)
         [] f.op = "implies" -> Arg(1, g) => Arg(2, g)
         [] f.op = "all" -> \A e \in Elements : Arg(1, With(e))
         [] f.op = "exists" -> \E e \in Elements : Arg(1, With(e))

\* A formula is true if it is so whatever its unbound variables are.
IsTrue(f, I) == \A g \in [Unbound(f) -> Elements] : Holds(f, I, g)

\* A node below f, or f itself.
RECURSIVE Parts(_)
Parts(f) == {f} \cup UNION { Parts(f.args[i]) : i \in DOMAIN f.args }

FunctionsIn(fs) ==
    { [symbol |-> t.symbol, arity |-> Len(t.args)] :
        t \in { t \in UNION { Parts(f) : f \in fs } : t.op = "function" } }

\* Some values of these functions make all of the formulas true.
RECURSIVE TrueForSome(_, _, _)
TrueForSome(functions, fs, I) ==
    IF functions = {} THEN \A f \in fs : IsTrue(f, I)
    ELSE LET h == CHOOSE h \in functions : TRUE IN
         \E value \in [[1 .. h.arity -> Elements] -> Elements] :
            TrueForSome(functions \ {h}, fs,
                        [I EXCEPT !.functions = (h.symbol :> value) @@ @])

\* The disjunctions are true for some values of the Skolem functions, which are
\* those that I does not know.
Satisfiable(disjunctions, I) ==
    LET fs == { Or(SetToSeq(d)) : d \in disjunctions }
        unknown == { h \in FunctionsIn(fs) : h.symbol \notin DOMAIN I.functions }
    IN TrueForSome(unknown, fs, I)
=============================================================================
