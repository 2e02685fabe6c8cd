------------------------------- MODULE Unify -------------------------------
(***************************************************************************)
(* unify(): the unification of the atoms of two literals, in which symbols *)
(* match if their similarity is above a threshold that other threads may   *)
(* raise meanwhile.  Variables of the two atoms are told apart by a label; *)
(* the terms are compared pair by pair, with a stack for the arguments of  *)
(* functions, and what a variable is bound to is kept in substitutions,    *)
(* whose chains are followed whenever a term is looked at.                 *)
(*                                                                         *)
(* Following a chain, or the occurrence check, never ends if it comes back *)
(* to where it was: the call is then "stuck".  An action is one round of a *)
(* loop.                                                                   *)
(***************************************************************************)
EXTENDS Integers, Sequences, FiniteSets, SequencesExt

CONSTANTS
    Similarity,         \* calc_similarity, of two predicates or two constants
    InitialThreshold,   \* min_similarity_threshold of the prover
    Thresholds,         \* what other threads may raise it to
    Predicates,
    Terms,              \* the terms that come up, with all their parts
    Universe,           \* ground terms, for what the properties say
    SourceAtoms, TargetAtoms    \* what unify is called with

Atoms == [predicate : Predicates, terms : Seq(Terms)]

ASSUME UnifyAssumption ==
    /\ InitialThreshold \in Int /\ Thresholds \subseteq Int
    /\ \A t \in Terms :
          /\ t.kind \in {"variable", "constant", "function"}
          /\ t.terms \in Seq(Terms)
          /\ t.kind # "function" => t.terms = <<>>
    /\ SourceAtoms \cup TargetAtoms \subseteq Atoms
    /\ \A p, q \in Predicates : Similarity[p, q] \in Int
    /\ \A c, d \in { t \in Terms : t.kind = "constant" } :
          Similarity[c.symbol, d.symbol] \in Int

\* The terms: a variable, a constant, or a function bound to terms.
Variable(x) == [kind |-> "variable", symbol |-> x, terms |-> <<>>]
Constant(c) == [kind |-> "constant", symbol |-> c, terms |-> <<>>]
BoundFunction(f, ts) == [kind |-> "function", symbol |-> f, terms |-> ts]

Labels == {"source", "target"}
Opposite(label) == IF label = "source" THEN "target" ELSE "source"

LabeledTerm(l, t) == [label |-> l, term |-> t]
HasKind(l, kind) == l.term.kind = kind

VARIABLES
    source, target,     \* the two atoms
    pc,                 \* "idle", "pairs", "returned" or "stuck"
    rest,               \* the pairs of terms that unify_terms has yet to unify
    pairs_stack,
    similarity,         \* cur_similarity
    substitutions,      \* from labeled variables to labeled terms
    answer,             \* what unify returned last
    threshold           \* min_similarity_threshold, shared with other threads

unifyVars == <<source, target, pc, rest, pairs_stack, similarity,
               substitutions, answer, threshold>>

None == [some |-> FALSE]
NoAtom == [predicate |-> "none", terms |-> <<>>]
NoSubstitutions == [v \in {} |-> v]

UnifyInit ==
    /\ source = NoAtom /\ target = NoAtom
    /\ pc = "idle"
    /\ rest = <<>> /\ pairs_stack = <<>>
    /\ similarity = InitialThreshold
    /\ substitutions = NoSubstitutions
    /\ answer = None
    /\ threshold = InitialThreshold
-----------------------------------------------------------------------------
(***************************************************************************)
(* _resolve_labeled_term.  A chain that ends has at most one link for each *)
(* variable that is bound.                                                 *)
(***************************************************************************)
Resolved(l) ==
    LET At[n \in 0 .. Cardinality(DOMAIN substitutions)] ==
          IF n = 0 THEN l
          ELSE LET before == At[n - 1] IN
               IF before \in DOMAIN substitutions THEN substitutions[before]
               ELSE before
    IN At[Cardinality(DOMAIN substitutions)]

ChainEnds(l) == Resolved(l) \notin DOMAIN substitutions

(***************************************************************************)
(* check_var_occurrence.  Of a function only the terms that are variables  *)
(* themselves are looked at, not those inside of further functions.        *)
(***************************************************************************)
ComparisonVars(l) ==
    IF HasKind(l, "variable") THEN {l}
    ELSE { LabeledTerm(l.label, t) :
             t \in { t \in ToSet(l.term.terms) : t.kind = "variable" } }

\* The variables that the check comes by when it starts with l.
Met(l) ==
    LET By[n \in 0 .. Cardinality(DOMAIN substitutions) + 1] ==
          IF n = 0 THEN ComparisonVars(Resolved(l))
          ELSE LET before == By[n - 1] IN
               before \cup UNION { ComparisonVars(Resolved(substitutions[v])) :
                                   v \in before \cap DOMAIN substitutions }
    IN By[Cardinality(DOMAIN substitutions) + 1]

\* The term, whatever its label is, is taken for one of the other side.
OtherTerm(var, l) == LabeledTerm(Opposite(var.label), l.term)

Occurs(var, l) == var \in Met(OtherTerm(var, l))

\* The check may meet a variable again and again.
CheckMayLoop(var, l) ==
    \E v \in Met(OtherTerm(var, l)) \cap DOMAIN substitutions :
        v \in Met(substitutions[v])
-----------------------------------------------------------------------------
ZippedTerms(s, t) == [i \in DOMAIN s |-> [source |-> s[i], target |-> t[i]]]

Return(result) ==
    /\ pc' = "returned"
    /\ answer' = result
    /\ rest' = <<>> /\ pairs_stack' = <<>>

\* A mistake: the substitutions of the last call are still there.
SubstitutionsLeft == substitutions

FreshSubstitutions == NoSubstitutions

\* The call: the atoms must have as many terms and similar predicates.
Call(s, t) ==
    LET sim == Similarity[s.predicate, t.predicate] IN
    /\ source' = s /\ target' = t
    /\ substitutions' = FreshSubstitutions
    /\ similarity' = sim
    /\ IF Len(s.terms) # Len(t.terms) \/ sim <= threshold
       THEN Return(None)
       ELSE /\ pc' = "pairs"
            /\ rest' = ZippedTerms(s.terms, t.terms)
            /\ pairs_stack' = <<>>
            /\ UNCHANGED answer
    /\ UNCHANGED threshold

\* unify_terms goes on to the next pair of terms.
NextTerms ==
    /\ pc = "pairs" /\ pairs_stack = <<>> /\ rest # <<>>
    /\ pairs_stack' = <<[source |-> LabeledTerm("source", Head(rest).source),
                         target |-> LabeledTerm("target", Head(rest).target)]>>
    /\ rest' = Tail(rest)
    /\ UNCHANGED <<source, target, pc, similarity, substitutions, answer,
                   threshold>>

Popped == Last(pairs_stack)
SourceTerm == Resolved(Popped.source)
TargetTerm == Resolved(Popped.target)

\* A pair is popped from the stack and the chains of both terms end.
Popping ==
    /\ pc = "pairs" /\ pairs_stack # <<>>
    /\ ChainEnds(Popped.source) /\ ChainEnds(Popped.target)

\* A mistake: the last comparison is taken for that of the whole atom.
LastSimilarity(a, b) == b

LowestSimilarity(a, b) == IF a <= b THEN a ELSE b

MatchConstants ==
    /\ Popping /\ HasKind(SourceTerm, "constant") /\ HasKind(TargetTerm, "constant")
    /\ LET s == SourceTerm.term
           t == TargetTerm.term
           sim == LowestSimilarity(similarity, Similarity[s.symbol, t.symbol])
       IN IF s = t
          THEN /\ pairs_stack' = Front(pairs_stack)
               /\ UNCHANGED <<pc, rest, similarity, answer>>
          ELSE /\ similarity' = sim
               /\ IF sim <= threshold THEN Return(None)
                  ELSE /\ pairs_stack' = Front(pairs_stack)
                       /\ UNCHANGED <<pc, rest, answer>>
    /\ UNCHANGED <<source, target, substitutions, threshold>>

\* A mistake: key and value are swapped.
BoundBackwards(var, l) ==
    [v \in DOMAIN substitutions \cup {l} |->
        IF v = l THEN var ELSE substitutions[v]]

\* substitutions.insert: what the variable was bound to is replaced.
Bound(var, l) ==
    [v \in DOMAIN substitutions \cup {var} |->
        IF v = var THEN l ELSE substitutions[v]]

Insert(var, l) ==
    /\ substitutions' = Bound(var, l)
    /\ pairs_stack' = Front(pairs_stack)
    /\ UNCHANGED <<source, target, pc, rest, similarity, answer, threshold>>

\* A mistake: the source is replaced with the target.
BindSourceToTarget(s, t) == Insert(s, t)

\* Both are variables: the target is replaced with the source, even if they
\* are the same variable by now.
BindTargetToSource(s, t) == Insert(t, s)

MatchVariables ==
    /\ Popping /\ HasKind(SourceTerm, "variable") /\ HasKind(TargetTerm, "variable")
    /\ BindTargetToSource(SourceTerm, TargetTerm)

\* One is a variable, the other is not: it is bound if the check lets it.
BindVariable(var, l) ==
    /\ Popping /\ HasKind(var, "variable") /\ ~ HasKind(l, "variable")
    /\ \/ /\ ~ Occurs(var, l) /\ ~ CheckMayLoop(var, l)
          /\ Insert(var, l)
       \/ /\ Occurs(var, l)
          /\ Return(None)
          /\ UNCHANGED <<source, target, similarity, substitutions, threshold>>

MatchFunctions ==
    /\ Popping /\ HasKind(SourceTerm, "function") /\ HasKind(TargetTerm, "function")
    /\ LET s == SourceTerm
           t == TargetTerm
           pairs == [i \in DOMAIN s.term.terms |->
                        [source |-> LabeledTerm(s.label, s.term.terms[i]),
                         target |-> LabeledTerm(t.label, t.term.terms[i])]]
       IN IF s.term.symbol # t.term.symbol
             \/ Len(s.term.terms) # Len(t.term.terms)
          THEN Return(None)
          ELSE /\ pairs_stack' = Front(pairs_stack) \o pairs
               /\ UNCHANGED <<pc, rest, answer>>
    /\ UNCHANGED <<source, target, similarity, substitutions, threshold>>

\* A constant and a function: no branch is for them, and the loop goes on.
PassOver ==
    /\ Popping
    /\ {SourceTerm.term.kind, TargetTerm.term.kind} = {"constant", "function"}
    /\ pairs_stack' = Front(pairs_stack)
    /\ UNCHANGED <<source, target, pc, rest, similarity, substitutions, answer,
                   threshold>>

AllPairsDone == pc = "pairs" /\ pairs_stack = <<>> /\ rest = <<>>

\* The substitutions of one side, as they are returned: without the labels, and
\* as far as the chain of each variable goes.
SubstitutionsOf(label) ==
    LET keys == { v \in DOMAIN substitutions : v.label = label } IN
    [t \in { v.term : v \in keys } |-> Resolved(LabeledTerm(label, t)).term]

ReturnUnification ==
    /\ AllPairsDone
    /\ \A v \in DOMAIN substitutions : ChainEnds(v)
    /\ Return([some |-> TRUE,
               source_substitutions |-> SubstitutionsOf("source"),
               target_substitutions |-> SubstitutionsOf("target"),
               similarity |-> similarity])
    /\ UNCHANGED <<source, target, similarity, substitutions, threshold>>

\* A chain that is followed, or the occurrence check, does not end.
GetStuck ==
    /\ \/ /\ pc = "pairs" /\ pairs_stack # <<>>
          /\ ~ ChainEnds(Popped.source) \/ ~ ChainEnds(Popped.target)
       \/ /\ Popping
          /\ \E p \in {<<SourceTerm, TargetTerm>>, <<TargetTerm, SourceTerm>>} :
                /\ HasKind(p[1], "variable") /\ ~ HasKind(p[2], "variable")
                /\ CheckMayLoop(p[1], p[2])
       \/ AllPairsDone /\ \E v \in DOMAIN substitutions : ~ ChainEnds(v)
    /\ pc' = "stuck"
    /\ UNCHANGED <<source, target, rest, pairs_stack, similarity, substitutions,
                   answer, threshold>>

UnifyStep ==
    \/ NextTerms \/ MatchConstants \/ MatchVariables
    \/ BindVariable(SourceTerm, TargetTerm)
    \/ BindVariable(TargetTerm, SourceTerm)
    \/ MatchFunctions \/ PassOver \/ ReturnUnification \/ GetStuck

\* Another thread records a leaf proof that raises the threshold.
RaiseThreshold ==
    /\ pc \notin {"returned", "stuck"}
    /\ \E x \in Thresholds : x > threshold /\ threshold' = x
    /\ UNCHANGED <<source, target, pc, rest, pairs_stack, similarity,
                   substitutions, answer>>

\* resolve() calls once, and again when the call has returned.
UnifyNext ==
    \/ /\ pc \in {"idle", "returned"}
       /\ \E s \in SourceAtoms, t \in TargetAtoms : Call(s, t)
    \/ UnifyStep
    \/ RaiseThreshold
    \/ pc = "stuck" /\ UNCHANGED unifyVars

UnifySpec == UnifyInit /\ [][UnifyNext]_unifyVars

\* The thread that unifies goes on.
UnifyFairSpec == UnifySpec /\ WF_unifyVars(UnifyStep)
-----------------------------------------------------------------------------
(***************************************************************************)
(* What a unification is to be, said without the algorithm: the ground     *)
(* instances of the two atoms that are the same.                           *)
(***************************************************************************)

Applied(t, subs) == IF t \in DOMAIN subs THEN subs[t] ELSE t

\* The ground instance of a term under g, which maps variables to Universe.  (A
\* term without parts does not need the recursion.)
Ground(t, g) ==
    LET G[u \in Terms] ==
          IF u.terms = <<>> THEN Applied(u, g)
          ELSE [u EXCEPT !.terms = [i \in DOMAIN u.terms |-> G[u.terms[i]]]]
    IN IF t.terms = <<>> THEN Applied(t, g) ELSE G[t]

VariablesOf(ts) ==
    LET V[t \in Terms] ==
          IF t.kind = "variable" THEN {t}
          ELSE UNION { V[t.terms[i]] : i \in DOMAIN t.terms }
    IN UNION { V[t] : t \in ToSet(ts) }

Groundings(ts) == [VariablesOf(ts) -> Universe]

Agree(s, t, g, h) ==
    /\ Len(s.terms) = Len(t.terms)
    /\ \A i \in DOMAIN s.terms : Ground(s.terms[i], g) = Ground(t.terms[i], h)

Solutions(s, t) ==
    { p \in Groundings(s.terms) \X Groundings(t.terms) :
        Agree(s, t, p[1], p[2]) }

\* The values of the variables that are bound are instances of what they are
\* bound to, whose variables are those that g maps.
IsInstance(subs, values, g) ==
    \A v \in DOMAIN subs :
        /\ VariablesOf(<<subs[v]>>) \subseteq DOMAIN g
        /\ values[v] = Ground(subs[v], g)

Flat(atom) == \A t \in ToSet(atom.terms) : t.kind # "function"

\* The terms, with all their parts.
PartsOf(ts) ==
    LET P[t \in Terms] == {t} \cup UNION { P[t.terms[i]] : i \in DOMAIN t.terms }
    IN UNION { P[t] : t \in ToSet(ts) }

\* Two of the terms have a variable in common.
ShareVariable(ts) ==
    \E i, j \in DOMAIN ts :
        i # j /\ VariablesOf(<<ts[i]>>) \cap VariablesOf(<<ts[j]>>) # {}

\* A variable occurs twice in the atom, maybe in one of its terms.
RepeatsVariable(atom) ==
    \E ts \in {atom.terms} \cup { t.terms : t \in PartsOf(atom.terms) } :
        ShareVariable(ts)

Unified == pc = "returned" /\ answer.some
-----------------------------------------------------------------------------
(***************************************************************************)
(* Properties.                                                             *)
(***************************************************************************)

LabeledTerms == [label : Labels, term : Terms]
PairType == [source : LabeledTerms, target : LabeledTerms]

\* Every variable of the unification stays in its type.
UnifyTypeOK ==
    /\ pc \in {"idle", "pairs", "returned", "stuck"}
    /\ rest \in Seq([source : Terms, target : Terms])
    /\ pairs_stack \in Seq(PairType)
    /\ similarity \in Int /\ threshold \in Int
    /\ \A v \in DOMAIN substitutions :
          /\ v \in LabeledTerms /\ HasKind(v, "variable")
          /\ substitutions[v] \in LabeledTerms
    /\ answer.some =>
          /\ answer.similarity \in Int
          /\ \A subs \in {answer.source_substitutions,
                          answer.target_substitutions} :
             \A v \in DOMAIN subs :
                v \in Terms /\ v.kind = "variable" /\ subs[v] \in Terms

\* Without functions, what unify returns makes the two atoms the same but for
\* constants that are similar: every variable of the target is bound, and to a
\* term of the source's side; and the similarity is the least of all those
\* that the two atoms then show, above the prover's threshold.
UnifierUnifies ==
    (Unified /\ Flat(source) /\ Flat(target)) =>
        LET s == [i \in DOMAIN source.terms |->
                     Applied(source.terms[i], answer.source_substitutions)]
            t == [i \in DOMAIN target.terms |->
                     Applied(target.terms[i], answer.target_substitutions)]
            differ == { i \in DOMAIN s : s[i] # t[i] }
        IN /\ \A i \in differ : s[i].kind = "constant" /\ t[i].kind = "constant"
           /\ VariablesOf(target.terms) \subseteq
                 DOMAIN answer.target_substitutions
           /\ VariablesOf(t) \subseteq VariablesOf(source.terms)
           /\ answer.similarity =
                 Min({ Similarity[s[i].symbol, t[i].symbol] : i \in differ }
                       \cup {Similarity[source.predicate, target.predicate]})
           /\ answer.similarity > InitialThreshold

\* Without functions, unify gives up only if the atoms have no common instance,
\* or their predicates are not above the threshold; and what it returns is
\* most general: every common instance is an instance of it.
UnifierIsMostGeneral ==
    (pc = "returned" /\ Flat(source) /\ Flat(target)) =>
        IF answer.some
        THEN \A p \in Solutions(source, target) :
                /\ IsInstance(answer.source_substitutions, p[1], p[1])
                /\ IsInstance(answer.target_substitutions, p[2], p[1])
        ELSE \/ Solutions(source, target) = {}
             \/ Similarity[source.predicate, target.predicate] <= threshold

\* A call gets stuck only if both atoms have a variable twice.
StuckOnRepeatsOnly ==
    pc = "stuck" => RepeatsVariable(source) /\ RepeatsVariable(target)

\* unify is said to be Robinson's algorithm: it always returns.
NeverStuck == pc # "stuck"

\* And so the loop over the pairs of terms comes to an end: the occurrence check
\* keeps every variable out of its own value.
RoundsEnd == (pc = "pairs") ~> (pc # "pairs")
=============================================================================
