----------------------------- MODULE Derivation -----------------------------
(***************************************************************************)
(* A chain of resolutions, from an inverted goal to the empty resolvent,   *)
(* as the search follows it, and the Proof that is made of it: the goal,   *)
(* the steps and the values of the goal's variables.                       *)
(*                                                                         *)
(* One chain is followed at a time and every choice that the search makes  *)
(* by trying all is free here: the goal, the clause, which of resolve's    *)
(* steps is gone on with, and the order of a resolvent's literals, of      *)
(* which the first is resolved upon.  ProofSearch has what the search does *)
(* with all of them.                                                       *)
(***************************************************************************)
EXTENDS Resolve

CONSTANTS
    Problems,   \* what is asked: inverted goals and knowledge, sets of clauses
                \* that are sequences of literals, and max_proof_depth
    Elements    \* what the interpretations are about

\* An inverted goal has a literal to resolve upon.
ASSUME DerivationAssumption ==
    /\ Elements # {}
    /\ \A p \in Problems :
          /\ p.goals \subseteq Seq(LiteralType) \ {<<>>}
          /\ p.knowledge \subseteq Seq(LiteralType)
          /\ p.max_proof_depth \in Nat

VARIABLES
    problem,
    chain       \* the steps so far, from the first: proof_steps

vars == <<unifyVars, resolveVars, problem, chain>>

\* knowledge.extend(arc_inverted_goals)
AllKnowledge == problem.knowledge \cup problem.goals

Init ==
    /\ problem \in Problems
    /\ chain = <<>>
    /\ \E goal \in problem.goals, clause \in AllKnowledge :
          ResolveInit(goal, clause)

Proved == chain # <<>> /\ Last(chain).resolvent = {}

\* A mistake: the parent's similarity is forgotten.
SimilarityAlone(step) == step.similarity

RunningSimilarity(step) ==
    IF chain = <<>> THEN step.similarity
    ELSE LowestSimilarity(step.similarity, Last(chain).running_similarity)

\* The clause as a set's iterator may give it: any literal may be the first.
Orders(literals) ==
    { <<l>> \o SetToSeq(literals \ {l}) : l \in literals }

NewStep(step) ==
    [source |-> clauses.source, target |-> clauses.target,
     source_substitutions |-> step.source_substitutions,
     resolvent |-> step.resolvent, similarity |-> step.similarity,
     running_similarity |-> RunningSimilarity(step)]

\* The depth of the last step; that of the first step is 0.
Depth == IF chain = <<>> THEN 0 ELSE Len(chain) - 1

\* A step with literals left is gone on with as long as the depth allows.
GoesOn(step) == step.resolvent = {} \/ Depth + 1 < problem.max_proof_depth

\* The search goes on with a step; the next call of resolve is for its
\* resolvent and a clause.
TakeStep ==
    /\ Finished /\ ~ Proved
    /\ \E i \in DOMAIN steps :
          /\ GoesOn(steps[i])
          /\ chain' = Append(chain, NewStep(steps[i]))
          /\ IF steps[i].resolvent = {} THEN UNCHANGED resolveVars
             ELSE /\ clauses' \in [source : Orders(steps[i].resolvent),
                                   target : AllKnowledge]
                  /\ literal' = 1
                  /\ steps' = <<>>
    /\ UNCHANGED <<unifyVars, problem>>

Over ==
    \/ Proved \/ pc = "stuck"
    \/ Finished /\ \A i \in DOMAIN steps : ~ GoesOn(steps[i])

Next ==
    \/ ~ Proved /\ ResolveStep /\ UNCHANGED <<problem, chain>>
    \/ TakeStep
    \/ RaiseThreshold /\ ~ Over /\ UNCHANGED <<resolveVars, problem, chain>>
    \/ Over /\ UNCHANGED vars

Spec == Init /\ [][Next]_vars

\* The thread that resolves goes on.
FairSpec ==
    /\ Spec
    /\ WF_vars(ResolveStep /\ UNCHANGED <<problem, chain>>) /\ WF_vars(TakeStep)
-----------------------------------------------------------------------------
(***************************************************************************)
(* The Proof: its getters, once there is one.                              *)
(***************************************************************************)
Goal == ToSet(chain[1].source)

\* A mistake: a value that is a variable is not looked up in later steps.
FirstValue(t, i) ==
    IF i <= Len(chain) /\ t \in DOMAIN chain[i].source_substitutions
    THEN chain[i].source_substitutions[t] ELSE t

\* resolve_var_value: the value that the steps from the i-th on give a term.
\* Of a function that a variable is bound to, the terms that are functions
\* again stay as they are.
ValueFrom(t, i) ==
    LET V[j \in 1 .. Len(chain) + 1] ==
          [u \in Terms |->
              IF j > Len(chain) \/ u.kind # "variable" THEN u
              ELSE LET new == Applied(u, chain[j].source_substitutions) IN
                   IF new.kind = "function"
                   THEN [new EXCEPT !.terms =
                            [k \in DOMAIN @ |-> V[j + 1][@[k]]]]
                   ELSE V[j + 1][new]]
    IN V[i][t]

\* Proof.substitutions
ShownSubstitutions == [v \in VariablesIn(Goal) |-> ValueFrom(v, 1)]
-----------------------------------------------------------------------------
(***************************************************************************)
(* What the formulas mean.  An interpretation gives every constant an      *)
(* element, every function (of one argument) a function of elements, and   *)
(* says which atoms are true of which elements.                            *)
(***************************************************************************)
Literals(cls) == UNION { ToSet(c) : c \in cls }

SymbolsOf(cls, kind) ==
    LET S[t \in Terms] ==
          (IF t.kind = kind THEN {t.symbol} ELSE {})
            \cup UNION { S[t.terms[i]] : i \in DOMAIN t.terms }
    IN UNION { S[t] : t \in TermsOf(Literals(cls)) }

Facts(cls) ==
    UNION { { <<l.atom.predicate, e>> :
                e \in [DOMAIN l.atom.terms -> Elements] } : l \in Literals(cls) }

\* The interpretations in which symbols as similar as that mean the same.
Interpretations(cls, sim) ==
    LET facts == Facts(cls)
        Alike(c, d) == Similarity[c, d] >= sim
        Same(f1, f2) == f1[2] = f2[2] /\ Alike(f1[1], f2[1])
    IN { I \in [constants : [SymbolsOf(cls, "constant") -> Elements],
                functions : [SymbolsOf(cls, "function") -> [Elements -> Elements]],
                true : SUBSET facts] :
          /\ \A c, d \in DOMAIN I.constants :
                Alike(c, d) => I.constants[c] = I.constants[d]
          /\ \A f1, f2 \in facts :
                Same(f1, f2) => (f1 \in I.true <=> f2 \in I.true) }

\* The element that a term stands for where g gives the variables' elements.  (A
\* term without parts does not need the recursion.)
Element(t, I, g) ==
    LET Alone(u) == IF u.kind = "variable" THEN g[u] ELSE I.constants[u.symbol]
        E[u \in Terms] ==
          IF u.kind = "function" THEN I.functions[u.symbol][E[u.terms[1]]]
          ELSE Alone(u)
    IN IF t.kind = "function" THEN E[t] ELSE Alone(t)

IsTrue(l, I, g) ==
    LET fact == <<l.atom.predicate,
                  [i \in DOMAIN l.atom.terms |-> Element(l.atom.terms[i], I, g)]>>
    IN l.polarity <=> fact \in I.true

\* All of the clauses are true, whatever the variables stand for.
IsModel(I, cls) ==
    \A c \in cls : \A g \in [VariablesIn(ToSet(c)) -> Elements] :
        \E l \in ToSet(c) : IsTrue(l, I, g)

Shown(l) == CHOOSE k \in Replaced({l}, ShownSubstitutions) : TRUE

\* The goal, as the negation of its inverse, with the values that are shown
\* for its variables, is true whatever the variables of the values stand for.
AnswerHolds(I) ==
    LET shown == { Shown(l) : l \in Goal } IN
    \A g \in [VariablesIn(shown) -> Elements] :
        \A l \in shown : ~ IsTrue(l, I, g)

\* The proof came back to an inverted goal: it shows that one of several
\* instances of the goal is true, not which.
OneGoalOnly == \A i \in DOMAIN chain : chain[i].target \notin problem.goals

FlatProblem == \A l \in Literals(AllKnowledge) : Flat(l.atom)
-----------------------------------------------------------------------------
(***************************************************************************)
(* Properties.                                                             *)
(***************************************************************************)

\* Every variable stays in its type: a chain links resolvents to sources and is
\* at most one longer than max_proof_depth.
TypeOK ==
    /\ ResolveTypeOK
    /\ problem \in Problems
    /\ Len(chain) <= problem.max_proof_depth + 1
    /\ \A i \in DOMAIN chain :
          /\ chain[i].target \in AllKnowledge
          /\ i > 1 => ToSet(chain[i].source) = chain[i - 1].resolvent

\* Without functions, a proof is one: inverted goal and knowledge are true in
\* no interpretation in which symbols as similar as the proof says mean the
\* same.
ProofRefutes ==
    (Proved /\ FlatProblem) =>
        \A I \in Interpretations(AllKnowledge, Last(chain).running_similarity) :
            ~ IsModel(I, AllKnowledge)

\* Without functions, the goal with the substitutions that the proof shows
\* follows from the knowledge, in the same sense.
AnswerFollows ==
    (Proved /\ FlatProblem /\ OneGoalOnly) =>
        \A I \in Interpretations(AllKnowledge, Last(chain).running_similarity) :
            IsModel(I, problem.knowledge) => AnswerHolds(I)

\* Without functions the chain comes to its end, or a unification gets stuck
\* where StuckOnRepeatsOnly says.  With functions the rounds of one unification
\* need not end: see RoundsEnd.
DerivationEnds == FlatProblem => <>Over

\* A Proof is documented as the representation of a successful proof of a
\* goal, and the prover as one for full first-order logic.
ProofsAreProofs ==
    Proved =>
        \A I \in Interpretations(AllKnowledge, Last(chain).running_similarity) :
            ~ IsModel(I, AllKnowledge)
=============================================================================
