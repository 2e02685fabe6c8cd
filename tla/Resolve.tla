------------------------------ MODULE Resolve ------------------------------
(***************************************************************************)
(* resolve(): the first literal of a source clause is unified with every   *)
(* literal of a target clause that has the opposite polarity, and each     *)
(* unification gives a resolvent: the other literals of both clauses, under *)
(* the substitutions.  The two clauses may use the same names for          *)
(* variables, which build_resolvent tells apart by new names.              *)
(*                                                                         *)
(* The literals of a clause are listed in the order of its BTreeSet, which *)
(* may depend on the addresses of embeddings: any order is an input.  A    *)
(* resolvent is a set of literals.  What calls resolve is in Derivation.   *)
(***************************************************************************)
EXTENDS Unify

CONSTANTS
    BaseName,       \* of a variable's name: the name without _1, _2, ...
    NumberedName,   \* of a base name and a number: the name with _1, _2, ...
    Counters        \* a bound: the numbers that are tried for a new name

\* A variable with a number for its name.
Numbered(v, n) == Variable(NumberedName[BaseName[v.symbol], n])

ASSUME ResolveAssumption ==
    /\ \A t \in Terms : t.kind = "variable" =>
          \A n \in Counters : Numbered(t, n) \in Terms
    /\ { t \in Terms : t.kind = "constant" } \subseteq Universe /\ Universe # {}

VARIABLES
    clauses,    \* the arguments of resolve
    literal,    \* the literal of the target that is next
    steps       \* next_steps

resolveVars == <<clauses, literal, steps>>

Literal(positive, predicate, terms) ==
    [polarity |-> positive,
     atom |-> [predicate |-> predicate, terms |-> terms]]

SourceLiteral == Head(clauses.source)
TargetLiteral == clauses.target[literal]

ResolveInit(s, t) ==
    /\ UnifyInit
    /\ clauses = [source |-> s, target |-> t]
    /\ literal = 1
    /\ steps = <<>>
-----------------------------------------------------------------------------
(***************************************************************************)
(* build_resolvent.  Only the terms of a literal itself are looked at, not *)
(* those inside of functions.                                              *)
(***************************************************************************)
TermsOf(literals) == UNION { ToSet(l.atom.terms) : l \in literals }

UnusedVariables(literals, subs) ==
    { t \in TermsOf(literals) \ DOMAIN subs : t.kind = "variable" }

\* A name with the first number for which it is not taken.
IsNewName(new, v, taken) ==
    \E n \in Counters :
        /\ new = Numbered(v, n) /\ new \notin taken
        /\ \A m \in Counters : m < n => Numbered(v, m) \in taken

\* find_non_overlapping_var_names, which goes through the variables in any
\* order: the maps from the variables to new names.
Renamings(overlapping, taken) ==
    LET names == { Numbered(v, n) : v \in overlapping, n \in Counters }
        orders == { o \in [1 .. Cardinality(overlapping) -> overlapping] :
                      IsInjective(o) }
    IN { r \in [overlapping -> names] :
         \E o \in orders : \A i \in DOMAIN o :
            IsNewName(r[o[i]], o[i], taken \cup { r[o[j]] : j \in 1 .. i - 1 }) }

\* rename_variables_in_literals and perform_substitution.
Replaced(literals, map) ==
    { [l EXCEPT !.atom.terms =
          [i \in DOMAIN @ |-> Applied(@[i], map)]] : l \in literals }

\* A mistake: variables that both sides have keep their names.
SharedNothing(source_vars, target_vars) == {}

SharedVariables(source_vars, target_vars) == source_vars \cap target_vars

\* A mistake: the names that the substitutions bring in are renamed too.
RenamedAfterwards(literals, renaming, subs) ==
    Replaced(Replaced(literals, subs), renaming)

\* What becomes of the target's other literals.
RenamedFirst(literals, renaming, subs) ==
    Replaced(Replaced(literals, renaming), subs)

\* The resolvents that may be built from the literals that remain.
Resolvents(source_literals, target_literals, unification) ==
    LET source_subs == unification.source_substitutions
        target_subs == unification.target_substitutions
        source_vars == UnusedVariables(source_literals, source_subs)
        target_vars == UnusedVariables(target_literals, target_subs)
        all_vars == source_vars \cup target_vars
                      \cup DOMAIN source_subs \cup DOMAIN target_subs
        renamings == Renamings(SharedVariables(source_vars, target_vars), all_vars)
    IN { Replaced(source_literals, source_subs)
           \cup RenamedFirst(target_literals, r, target_subs) : r \in renamings }
-----------------------------------------------------------------------------
MoreLiterals == pc = "idle" /\ literal <= Len(clauses.target)

SkipPolarity ==
    /\ MoreLiterals
    /\ SourceLiteral.polarity = TargetLiteral.polarity
    /\ literal' = literal + 1
    /\ UNCHANGED <<unifyVars, clauses, steps>>

UnifyLiterals ==
    /\ MoreLiterals
    /\ SourceLiteral.polarity # TargetLiteral.polarity
    /\ Call(SourceLiteral.atom, TargetLiteral.atom)
    /\ UNCHANGED resolveVars

\* What is left of a clause when the literal is removed.
Others(clause, l) == ToSet(clause) \ {l}

\* A mistake: resolve stops at the first literal that does not unify.
NextIfUnified == IF answer.some THEN literal + 1 ELSE Len(clauses.target) + 1

\* A mistake: a literal that does not unify is tried again.
RetryLiteral == IF answer.some THEN literal + 1 ELSE literal

NextLiteral == literal + 1

\* unify has returned: a resolvent is built if there is a unification.
NoteAnswer ==
    /\ pc = "returned"
    /\ IF answer.some
       THEN \E r \in Resolvents(Others(clauses.source, SourceLiteral),
                                Others(clauses.target, TargetLiteral), answer) :
               steps' = Append(steps,
                   [literal |-> literal, resolvent |-> r,
                    source_substitutions |-> answer.source_substitutions,
                    similarity |-> answer.similarity])
       ELSE UNCHANGED steps
    /\ literal' = NextLiteral
    /\ pc' = "idle" /\ answer' = None
    /\ UNCHANGED <<clauses, source, target, rest, pairs_stack, similarity,
                   substitutions, threshold>>

Finished == pc = "idle" /\ literal > Len(clauses.target)

ResolveStep ==
    \/ SkipPolarity \/ UnifyLiterals \/ NoteAnswer
    \/ UnifyStep /\ UNCHANGED resolveVars
-----------------------------------------------------------------------------
(***************************************************************************)
(* What a resolvent is to be, said by the ground instances of clauses.     *)
(***************************************************************************)
VariablesIn(literals) == UNION { VariablesOf(l.atom.terms) : l \in literals }

InstancesBy(literals) == [VariablesIn(literals) -> Universe]

Instance(literals, g) ==
    { [l EXCEPT !.atom.terms = [i \in DOMAIN @ |-> Ground(@[i], g)]] :
      l \in literals }

FlatClauses ==
    \A l \in ToSet(clauses.source) \cup ToSet(clauses.target) : Flat(l.atom)

Rests(s) ==
    [source |-> Others(clauses.source, SourceLiteral),
     target |-> Others(clauses.target, clauses.target[s.literal])]

\* Ground atoms match if their constants are that similar.
Matches(l, k, sim) ==
    \A i \in DOMAIN l.atom.terms :
        LET c == l.atom.terms[i]
            d == k.atom.terms[i]
        IN c = d \/ Similarity[c.symbol, d.symbol] >= sim

\* Every ground instance of the resolvent contains what is left of instances
\* of the two clauses whose literals match.
Follows(s) ==
    \A r \in InstancesBy(s.resolvent) :
    \E g \in InstancesBy(ToSet(clauses.source)),
       h \in InstancesBy(ToSet(clauses.target)) :
        /\ Matches(CHOOSE l \in Instance({SourceLiteral}, g) : TRUE,
                   CHOOSE k \in Instance({clauses.target[s.literal]}, h) : TRUE,
                   s.similarity)
        /\ Instance(Rests(s).source, g) \cup Instance(Rests(s).target, h)
             \subseteq Instance(s.resolvent, r)

\* Every resolvent of ground instances of the two clauses, on instances of the
\* two literals that are the same, is an instance of the resolvent.
IsMostGeneral(s) ==
    \A g \in InstancesBy(ToSet(clauses.source)),
       h \in InstancesBy(ToSet(clauses.target)) :
        Agree(SourceLiteral.atom, clauses.target[s.literal].atom, g, h) =>
            Instance(Rests(s).source, g) \cup Instance(Rests(s).target, h)
              \in { Instance(s.resolvent, r) : r \in InstancesBy(s.resolvent) }

\* The cases in which the names that build_resolvent looks at are all there
\* are: the clauses share no variable, or every variable of the source literal
\* is in another literal of the source too.
NamesAreKnown ==
    \/ VariablesIn(ToSet(clauses.source))
         \cap VariablesIn(ToSet(clauses.target)) = {}
    \/ VariablesIn({SourceLiteral})
         \subseteq VariablesIn(Others(clauses.source, SourceLiteral))
-----------------------------------------------------------------------------
(***************************************************************************)
(* Properties.                                                             *)
(***************************************************************************)

LiteralType == [polarity : BOOLEAN, atom : Atoms]

\* Every variable stays in its type; a resolvent is built from known terms.
ResolveTypeOK ==
    /\ UnifyTypeOK
    /\ literal \in 1 .. Len(clauses.target) + 1
    /\ \A i \in DOMAIN steps :
          /\ steps[i].literal \in DOMAIN clauses.target
          /\ steps[i].resolvent \subseteq LiteralType
          /\ steps[i].similarity \in Int

\* Without functions, a resolvent follows from the two clauses, up to the
\* similarity of the step, whatever names the clauses share.
ResolventFollows ==
    (Finished /\ FlatClauses) => \A i \in DOMAIN steps : Follows(steps[i])

\* Without functions, a resolvent is the most general one where the names that
\* must be told apart are known.
ApartIsMostGeneral ==
    (Finished /\ FlatClauses /\ NamesAreKnown) =>
        \A i \in DOMAIN steps : IsMostGeneral(steps[i])

\* Without functions, every literal of the target that has a common instance
\* with the source literal and a predicate above the threshold is resolved
\* upon, in order and once.
EveryLiteralIsTried ==
    (Finished /\ FlatClauses) =>
        /\ \A i, j \in DOMAIN steps : i < j => steps[i].literal < steps[j].literal
        /\ \A k \in DOMAIN clauses.target :
              LET s == SourceLiteral
                  t == clauses.target[k]
              IN (/\ s.polarity # t.polarity
                  /\ Similarity[s.atom.predicate, t.atom.predicate] > threshold
                  /\ Solutions(s.atom, t.atom) # {})
                 => \E i \in DOMAIN steps : steps[i].literal = k

\* The comment in build_resolvent: the variables that are not substituted are
\* looked up "to avoid overlapping names", so that a resolvent is the most
\* general one whatever names the clauses use.
ResolventIsMostGeneral ==
    (Finished /\ FlatClauses) => \A i \in DOMAIN steps : IsMostGeneral(steps[i])
=============================================================================
