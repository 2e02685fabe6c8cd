------------------------- MODULE Derivation_proofs -------------------------
(***************************************************************************)
(* What is proved about unify, resolve and the proofs that are made of     *)
(* their steps, for any atoms, clauses, similarities and thresholds.       *)
(*                                                                         *)
(* unify: the types of its variables and, for atoms without functions,     *)
(* that what it returns is a most general unifier; and, for all atoms,     *)
(* that it gets stuck only if both repeat a variable.  resolve: for        *)
(* clauses without functions, it misses no resolvent, and what it builds   *)
(* follows from the two clauses and is most general where it can know the  *)
(* names.  A chain of steps: for problems without functions, one that      *)
(* comes to the empty resolvent refutes the clauses, and the values that   *)
(* are shown for the goal's variables make the goal true.                  *)
(***************************************************************************)
EXTENDS Derivation, TLAPS, FiniteSetTheorems, NaturalsInduction, WellFoundedInduction

\* A set of natural numbers has a least element.
LEMMA LeastNumber ==
    ASSUME NEW S \in SUBSET Nat, S # {}
    PROVE  \E n \in S : \A m \in S : n <= m
  <1>1. PICK n \in S : \A m \in S : ~ (<<m, n>> \in OpToRel(<, Nat))
    BY WFMin, NatLessThanWellFounded, Zenon
  <1>2. ASSUME NEW m \in S PROVE n <= m
    <2>1. m \in Nat /\ n \in Nat
      OBVIOUS
    <2>2. ~ (m < n)
      <3>1. m < n => <<m, n>> \in OpToRel(<, Nat)
        BY <2>1 DEF OpToRel
      <3> QED
        BY <1>1, <3>1
    <2> QED
      BY <2>1, <2>2
  <1> QED
    BY <1>2
-----------------------------------------------------------------------------
(***************************************************************************)
(* Chains.  The end of a chain does not depend on the state but for the    *)
(* substitutions.                                                          *)
(***************************************************************************)

\* The next link.
Link(S, l) == IF l \in DOMAIN S THEN S[l] ELSE l

End(S, l) ==
    LET At[n \in 0 .. Cardinality(DOMAIN S)] ==
          IF n = 0 THEN l
          ELSE LET before == At[n - 1] IN
               IF before \in DOMAIN S THEN S[before] ELSE before
    IN At[Cardinality(DOMAIN S)]

LEMMA ResolvedIsEnd == \A l : Resolved(l) = End(substitutions, l)
  BY DEF Resolved, End

\* The first n links of a chain.
Walk(S, l, n, A) ==
    A = [i \in 0 .. n |-> IF i = 0 THEN l ELSE Link(S, A[i - 1])]

LEMMA WalkExists ==
    ASSUME NEW S, NEW l
    PROVE  \A n \in Nat : \E A : Walk(S, l, n, A)
  <1> DEFINE Missing == { n \in Nat : ~ \E A : Walk(S, l, n, A) }
  <1> SUFFICES ASSUME Missing # {} PROVE FALSE
    OBVIOUS
  <1>1. PICK n \in Missing : \A m \in Missing : n <= m
    BY LeastNumber
  <1>2. n # 0
    <2> DEFINE A == [i \in 0 .. 0 |-> l]
    <2>1. A = [i \in 0 .. 0 |-> IF i = 0 THEN l ELSE Link(S, A[i - 1])]
      OBVIOUS
    <2> HIDE DEF A
    <2>2. Walk(S, l, 0, A)
      BY <2>1 DEF Walk
    <2> QED
      BY <1>1, <2>2
  <1>3. n \in Nat /\ n - 1 \in Nat /\ n - 1 \notin Missing
    BY <1>1, <1>2
  <1>4. PICK A : Walk(S, l, n - 1, A)
    BY <1>3
  <1> DEFINE B == [i \in 0 .. n |-> IF i = n THEN Link(S, A[n - 1]) ELSE A[i]]
  <1>5. ASSUME NEW i \in 0 .. n
        PROVE  B[i] = IF i = 0 THEN l ELSE Link(S, B[i - 1])
    <2>1. CASE i = n
      <3>1. B[n - 1] = A[n - 1]
        BY <1>3
      <3> QED
        BY <1>2, <1>3, <2>1, <3>1
    <2>2. CASE i # n
      <3>1. i \in 0 .. n - 1 /\ B[i] = A[i]
        BY <1>3, <2>2
      <3>2. A[i] = IF i = 0 THEN l ELSE Link(S, A[i - 1])
        BY <1>4, <3>1 DEF Walk
      <3>3. i # 0 => B[i - 1] = A[i - 1]
        BY <1>3, <3>1
      <3> QED
        BY <3>1, <3>2, <3>3
    <2> QED
      BY <2>1, <2>2
  <1>6. B = [i \in 0 .. n |-> IF i = 0 THEN l ELSE Link(S, B[i - 1])]
    <2>1. B = [i \in 0 .. n |-> B[i]]
      OBVIOUS
    <2> HIDE DEF B
    <2> QED
      BY <1>5, <2>1
  <1> HIDE DEF B
  <1>7. Walk(S, l, n, B)
    BY <1>6 DEF Walk
  <1> QED
    BY <1>1, <1>7

LEMMA EndIsWalked ==
    ASSUME NEW S, NEW l, IsFiniteSet(DOMAIN S)
    PROVE  \E A : /\ Walk(S, l, Cardinality(DOMAIN S), A)
                  /\ End(S, l) = A[Cardinality(DOMAIN S)]
  <1> DEFINE n == Cardinality(DOMAIN S)
             A == CHOOSE A : Walk(S, l, n, A)
  <1>1. n \in Nat
    BY FS_CardinalityType
  <1>2. Walk(S, l, n, A)
    BY <1>1, WalkExists
  <1>3. End(S, l) = A[n]
    BY DEF End, Walk, Link
  <1> QED
    BY <1>2, <1>3

\* What holds of a term, and of a variable's value if it holds of the variable,
\* holds of the end of the term's chain.
LEMMA EndStays ==
    ASSUME NEW S, IsFiniteSet(DOMAIN S), NEW C, NEW l \in C,
           \A v \in DOMAIN S \cap C : S[v] \in C
    PROVE  End(S, l) \in C
  <1> DEFINE n == Cardinality(DOMAIN S)
  <1>1. n \in Nat
    BY FS_CardinalityType
  <1>2. PICK A : Walk(S, l, n, A) /\ End(S, l) = A[n]
    BY EndIsWalked
  <1> HIDE DEF n
  <1> DEFINE Out == { i \in 0 .. n : A[i] \notin C }
  <1>3. Out = {}
    <2> SUFFICES ASSUME Out # {} PROVE FALSE
      OBVIOUS
    <2>0. Out \in SUBSET Nat
      BY <1>1
    <2>1. PICK i \in Out : \A j \in Out : i <= j
      <3> HIDE DEF Out
      <3> QED
        BY <2>0, LeastNumber
    <2>2. i \in 0 .. n /\ A[i] = IF i = 0 THEN l ELSE Link(S, A[i - 1])
      BY <1>2 DEF Walk
    <2>3. i # 0
      BY <2>2
    <2>4. A[i - 1] \in C
      BY <1>1, <2>1, <2>2, <2>3
    <2> QED
      BY <2>2, <2>3, <2>4 DEF Link
  <1> QED
    BY <1>1, <1>2, <1>3

\* A term that is not bound, or is bound to itself, is its own end.
LEMMA EndOfRoot ==
    ASSUME NEW S, IsFiniteSet(DOMAIN S), NEW l, l \in DOMAIN S => S[l] = l
    PROVE  End(S, l) = l
  <1> DEFINE C == {l}
  <1>1. End(S, l) \in C
    BY EndStays
  <1> QED
    BY <1>1
-----------------------------------------------------------------------------
(***************************************************************************)
(* Substitutions whose chains all end: h falls along every link, so that   *)
(* a chain is no longer than h, and R gives the end of every chain.        *)
(***************************************************************************)

IsForest(S, h, R) ==
    /\ \A v \in DOMAIN S : h[v] \in 1 .. Cardinality(DOMAIN S)
    /\ \A v \in DOMAIN S : S[v] \in DOMAIN S => h[S[v]] < h[v]
    /\ \A v \in DOMAIN S : R[v] = R[S[v]]
    /\ \A l \in LabeledTerms \ DOMAIN S : R[l] = l

\* What is bound, and to what.
Typed(S) ==
    /\ IsFiniteSet(DOMAIN S) /\ DOMAIN S \subseteq LabeledTerms
    /\ \A v \in DOMAIN S : S[v] \in LabeledTerms

LEMMA EndInForest ==
    ASSUME NEW S, Typed(S), NEW h, NEW R, IsForest(S, h, R), NEW l \in LabeledTerms
    PROVE  End(S, l) = R[l] /\ R[l] \in LabeledTerms \ DOMAIN S
  <1> DEFINE n == Cardinality(DOMAIN S)
  <1>1. n \in Nat /\ IsFiniteSet(DOMAIN S)
    BY FS_CardinalityType DEF Typed
  <1>2. PICK A : Walk(S, l, n, A) /\ End(S, l) = A[n]
    BY <1>1, EndIsWalked
  <1>3. \A v \in DOMAIN S : h[v] \in 1 .. n
    BY DEF IsForest
  <1> HIDE DEF n
  <1> DEFINE Good(i) == /\ A[i] \in LabeledTerms /\ R[A[i]] = R[l]
                        /\ A[i] \in DOMAIN S => h[A[i]] + i <= n
             Bad == { i \in 0 .. n : ~ Good(i) }
  <1>4. Bad = {}
    <2> SUFFICES ASSUME Bad # {} PROVE FALSE
      OBVIOUS
    <2>0. Bad \in SUBSET Nat
      BY <1>1
    <2>1. PICK i \in Bad : \A j \in Bad : i <= j
      <3> HIDE DEF Bad
      <3> QED
        BY <2>0, LeastNumber
    <2>2. i \in 0 .. n /\ A[i] = IF i = 0 THEN l ELSE Link(S, A[i - 1])
      BY <1>2 DEF Walk
    <2>3. i # 0
      BY <1>1, <1>3, <2>2, <2>1
    <2>4. i - 1 \in 0 .. n /\ Good(i - 1)
      BY <1>1, <2>1, <2>2, <2>3
    <2>5. CASE A[i - 1] \in DOMAIN S
      <3>1. A[i] = S[A[i - 1]] /\ A[i] \in LabeledTerms
        BY <2>2, <2>3, <2>5 DEF Link, Typed
      <3>2. R[A[i]] = R[l]
        BY <2>4, <2>5, <3>1 DEF IsForest
      <3>3. A[i] \in DOMAIN S => h[A[i]] < h[A[i - 1]]
        BY <2>5, <3>1 DEF IsForest
      <3>4. A[i] \in DOMAIN S => h[A[i]] + i <= n
        BY <1>1, <1>3, <2>2, <2>4, <2>5, <3>3
      <3> QED
        BY <2>1, <3>1, <3>2, <3>4
    <2>6. CASE A[i - 1] \notin DOMAIN S
      <3>1. A[i] = A[i - 1]
        BY <2>2, <2>3, <2>6 DEF Link
      <3> QED
        BY <2>1, <2>4, <2>6, <3>1
    <2> QED
      BY <2>5, <2>6
  <1>5. Good(n) /\ n \in 0 .. n
    BY <1>1, <1>4
  <1>6. A[n] \notin DOMAIN S
    BY <1>1, <1>3, <1>5
  <1>7. R[A[n]] = A[n]
    BY <1>5, <1>6 DEF IsForest
  <1> QED
    BY <1>2, <1>5, <1>6, <1>7

\* substitutions.insert, whatever the state.
With(S, var, l) ==
    [v \in DOMAIN S \cup {var} |-> IF v = var THEN l ELSE S[v]]

LEMMA BoundIsWith == \A var, l : Bound(var, l) = With(substitutions, var, l)
  BY DEF Bound, With

LEMMA WithIsTyped ==
    ASSUME NEW S, Typed(S), NEW var \in LabeledTerms \ DOMAIN S, NEW l \in LabeledTerms
    PROVE  /\ DOMAIN With(S, var, l) = DOMAIN S \cup {var}
           /\ With(S, var, l)[var] = l
           /\ \A v \in DOMAIN S : With(S, var, l)[v] = S[v]
           /\ Typed(With(S, var, l))
           /\ Cardinality(DOMAIN With(S, var, l)) = Cardinality(DOMAIN S) + 1
  <1>1. /\ DOMAIN With(S, var, l) = DOMAIN S \cup {var}
        /\ With(S, var, l)[var] = l
        /\ \A v \in DOMAIN S : With(S, var, l)[v] = S[v]
    BY DEF With
  <1>2. /\ IsFiniteSet(DOMAIN S \cup {var})
        /\ Cardinality(DOMAIN S \cup {var}) = Cardinality(DOMAIN S) + 1
    BY FS_AddElement DEF Typed
  <1> QED
    BY <1>1, <1>2 DEF Typed

\* The new link is from an end of chains to another.
NewEnds(R, var, l) ==
    [x \in LabeledTerms |-> IF R[x] = var THEN l ELSE R[x]]

NewHeights(S, h, var) == [v \in DOMAIN S \cup {var} |-> IF v = var THEN 1 ELSE h[v] + 1]

LEMMA WithIsForest ==
    ASSUME NEW S, Typed(S), NEW h, NEW R, IsForest(S, h, R),
           NEW var \in LabeledTerms \ DOMAIN S, NEW l \in LabeledTerms \ DOMAIN S,
           l # var
    PROVE  IsForest(With(S, var, l), NewHeights(S, h, var), NewEnds(R, var, l))
  <1> DEFINE T == With(S, var, l)
             k == NewHeights(S, h, var)
             Q == NewEnds(R, var, l)
             n == Cardinality(DOMAIN S)
  <1>0. /\ DOMAIN T = DOMAIN S \cup {var}
        /\ T[var] = l
        /\ \A v \in DOMAIN S : T[v] = S[v]
        /\ Cardinality(DOMAIN T) = n + 1
    BY WithIsTyped
  <1>1. n \in Nat
    BY FS_CardinalityType DEF Typed
  <1>2. \A v \in DOMAIN S : h[v] \in 1 .. n
    BY DEF IsForest
  <1>3. k[var] = 1 /\ \A v \in DOMAIN S : k[v] = h[v] + 1
    BY DEF NewHeights
  <1>4. \A x \in LabeledTerms : Q[x] = IF R[x] = var THEN l ELSE R[x]
    BY DEF NewEnds
  <1>5. R[var] = var /\ R[l] = l
    BY DEF IsForest
  <1> HIDE DEF T, k, Q, n
  <1>6. \A v \in DOMAIN T : k[v] \in 1 .. Cardinality(DOMAIN T)
    BY <1>0, <1>1, <1>2, <1>3
  <1>7. ASSUME NEW v \in DOMAIN T, T[v] \in DOMAIN T PROVE k[T[v]] < k[v]
    <2>1. v # var
      BY <1>0, <1>7
    <2>2. CASE v # var
      <3>1. v \in DOMAIN S /\ T[v] = S[v]
        BY <1>0, <2>2
      <3>2. CASE S[v] = var
        BY <1>1, <1>2, <1>3, <3>1, <3>2
      <3>3. CASE S[v] \in DOMAIN S
        <4>1. h[S[v]] < h[v]
          BY <3>1, <3>3 DEF IsForest
        <4> QED
          BY <1>1, <1>2, <1>3, <3>1, <3>3, <4>1
      <3> QED
        BY <1>0, <1>7, <3>1, <3>2, <3>3
    <2> QED
      BY <2>1, <2>2
  <1>8. ASSUME NEW v \in DOMAIN T PROVE Q[v] = Q[T[v]]
    <2>1. CASE v = var
      BY <1>0, <1>4, <1>5, <2>1
    <2>2. CASE v # var
      <3>1. v \in DOMAIN S /\ T[v] = S[v] /\ S[v] \in LabeledTerms
        BY <1>0, <2>2 DEF Typed
      <3>2. R[v] = R[S[v]]
        BY <3>1 DEF IsForest
      <3>3. v \in LabeledTerms
        BY <3>1 DEF Typed
      <3> QED
        BY <1>4, <3>1, <3>2, <3>3
    <2> QED
      BY <2>1, <2>2
  <1>9. ASSUME NEW x \in LabeledTerms \ DOMAIN T PROVE Q[x] = x
    <2>1. x # var /\ R[x] = x
      BY <1>0 DEF IsForest
    <2> QED
      BY <1>4, <2>1
  <1>10. IsForest(T, k, Q)
    BY <1>6, <1>7, <1>8, <1>9 DEF IsForest
  <1> QED
    BY <1>10 DEF T, k, Q
-----------------------------------------------------------------------------
LEMMA SeqElements ==
    ASSUME NEW T, NEW q \in Seq(T)
    PROVE  /\ Len(q) \in Nat /\ DOMAIN q = 1 .. Len(q)
           /\ \A i \in 1 .. Len(q) : q[i] \in T
           /\ ToSet(q) \subseteq T /\ ToSet(q) = { q[i] : i \in 1 .. Len(q) }
  BY DEF ToSet

(***************************************************************************)
(* The parts of terms.  A recursive definition that collects something     *)
(* from a term and all its parts has a value: the least function that has  *)
(* all it must have.                                                       *)
(***************************************************************************)

Collected(Own, V, t) == Own[t] \cup (UNION { V[t.terms[i]] : i \in DOMAIN t.terms })

LEMMA CollectionExists ==
    ASSUME NEW D, NEW Own \in [Terms -> SUBSET D]
    PROVE  \E V : V = [t \in Terms |-> Collected(Own, V, t)]
  <1> DEFINE HasAll(V) == \A t \in Terms : Collected(Own, V, t) \subseteq V[t]
             All == { V \in [Terms -> SUBSET D] : HasAll(V) }
             Least == [t \in Terms |-> { x \in D : \A V \in All : x \in V[t] }]
             Next1 == [t \in Terms |-> Collected(Own, Least, t)]
  <1>1. \A t \in Terms : \A i \in DOMAIN t.terms : t.terms[i] \in Terms
    <2>1. \A t \in Terms : t.terms \in Seq(Terms)
      BY UnifyAssumption
    <2> QED
      BY <2>1, SeqElements
  <1>2. ASSUME NEW t \in Terms PROVE Collected(Own, Least, t) \subseteq Least[t]
    <2>0. \A i \in DOMAIN t.terms : t.terms[i] \in Terms
      BY <1>1
    <2>4. Collected(Own, Least, t) \subseteq D
      <3>1. \A i \in DOMAIN t.terms : Least[t.terms[i]] \subseteq D
        BY <2>0
      <3>2. Own[t] \subseteq D
        OBVIOUS
      <3> HIDE DEF Least
      <3> QED
        BY <3>1, <3>2 DEF Collected
    <2> SUFFICES ASSUME NEW x \in Collected(Own, Least, t), NEW V \in All
                 PROVE  x \in V[t]
      BY <2>4
    <2>1. Collected(Own, V, t) \subseteq V[t]
      OBVIOUS
    <2>2. CASE x \in Own[t]
      BY <2>1, <2>2 DEF Collected
    <2>3. CASE x \notin Own[t]
      <3>0. \E i \in DOMAIN t.terms : x \in Least[t.terms[i]]
        <4> HIDE DEF Least
        <4> QED
          BY <2>3 DEF Collected
      <3>1. PICK i \in DOMAIN t.terms : x \in Least[t.terms[i]]
        BY <3>0
      <3>2. x \in V[t.terms[i]]
        BY <2>0, <3>1
      <3>3. x \in Collected(Own, V, t)
        BY <3>2 DEF Collected
      <3> QED
        BY <2>1, <3>3
    <2> QED
      BY <2>2, <2>3
  <1>3. Next1 \in All
    <2>1. \A t \in Terms : Next1[t] \subseteq Least[t]
      BY <1>2
    <2>2. Next1 \in [Terms -> SUBSET D]
      BY <2>1
    <2>3. ASSUME NEW t \in Terms PROVE Collected(Own, Next1, t) \subseteq Next1[t]
      <3>1. \A i \in DOMAIN t.terms : Next1[t.terms[i]] \subseteq Least[t.terms[i]]
        BY <1>1, <2>1
      <3>2. Next1[t] = Collected(Own, Least, t)
        OBVIOUS
      <3> HIDE DEF Next1, Least
      <3> QED
        BY <3>1, <3>2 DEF Collected
    <2> HIDE DEF Next1
    <2> QED
      BY <2>2, <2>3
  <1>4. \A t \in Terms : Least[t] \subseteq Next1[t]
    BY <1>3
  <1>5. \A t \in Terms : Least[t] = Collected(Own, Least, t)
    BY <1>2, <1>4
  <1>6. Least = [t \in Terms |-> Least[t]]
    OBVIOUS
  <1> HIDE DEF Least
  <1>7. Least = [t \in Terms |-> Collected(Own, Least, t)]
    BY <1>5, <1>6
  <1> QED
    BY <1>7

VariablesAt(V, t) ==
    IF t.kind = "variable" THEN {t}
    ELSE UNION { V[t.terms[i]] : i \in DOMAIN t.terms }

LEMMA VariablesExist == \E V : V = [t \in Terms |-> VariablesAt(V, t)]
  <1> DEFINE Own == [t \in Terms |-> IF t.kind = "variable" THEN {t} ELSE {}]
  <1>1. Own \in [Terms -> SUBSET Terms]
    OBVIOUS
  <1>2. PICK V : V = [t \in Terms |-> Collected(Own, V, t)]
    BY <1>1, CollectionExists
  <1>3. ASSUME NEW t \in Terms PROVE Collected(Own, V, t) = VariablesAt(V, t)
    <2>1. t.kind = "variable" => DOMAIN t.terms = {}
      <3>1. t.kind = "variable" => t.terms = <<>>
        BY UnifyAssumption
      <3> QED
        BY <3>1
    <2> QED
      BY <2>1 DEF Collected, VariablesAt
  <1> HIDE DEF Own
  <1>4. V = [t \in Terms |-> VariablesAt(V, t)]
    BY <1>2, <1>3
  <1> QED
    BY <1>4

\* A variable or a constant.
Plain == { t \in Terms : t.kind # "function" }

LEMMA PlainTerm ==
    ASSUME NEW t \in Plain
    PROVE  t.terms = <<>> /\ t.kind \in {"variable", "constant"}
  BY UnifyAssumption DEF Plain

LEMMA VariablesOfPlain ==
    ASSUME NEW ts, ToSet(ts) \subseteq Plain
    PROVE  VariablesOf(ts) = { t \in ToSet(ts) : t.kind = "variable" }
  <1> DEFINE V == CHOOSE V : V = [t \in Terms |-> VariablesAt(V, t)]
  <1>1. VariablesOf(ts) = UNION { V[t] : t \in ToSet(ts) }
    BY DEF VariablesOf, VariablesAt
  <1>2. V = [t \in Terms |-> VariablesAt(V, t)]
    BY VariablesExist
  <1> HIDE DEF V
  <1>3. ASSUME NEW t \in ToSet(ts)
        PROVE  V[t] = IF t.kind = "variable" THEN {t} ELSE {}
    <2>1. t \in Terms /\ t.terms = <<>>
      BY PlainTerm DEF Plain
    <2>2. V[t] = VariablesAt(V, t)
      BY <1>2, <2>1
    <2>3. DOMAIN t.terms = {}
      BY <2>1
    <2> QED
      BY <2>2, <2>3 DEF VariablesAt
  <1>4. ASSUME NEW x PROVE x \in VariablesOf(ts) <=> x \in ToSet(ts) /\ x.kind = "variable"
    BY <1>1, <1>3
  <1> QED
    BY <1>4
-----------------------------------------------------------------------------
(***************************************************************************)
(* Two atoms without functions and their solutions.                        *)
(***************************************************************************)

PlainAtoms(s, t) ==
    /\ s.terms \in Seq(Plain) /\ t.terms \in Seq(Plain)
    /\ Len(s.terms) = Len(t.terms)
    /\ Similarity[s.predicate, t.predicate] \in Int

Sources(s) == { LabeledTerm("source", s.terms[i]) : i \in 1 .. Len(s.terms) }
Targets(t) == { LabeledTerm("target", t.terms[i]) : i \in 1 .. Len(t.terms) }
AtomTerms(s, t) == Sources(s) \cup Targets(t)

\* What variables are bound to: a constant, or a variable of the source.
Values(s, t) == { l \in AtomTerms(s, t) : l.label = "source" \/ ~ HasKind(l, "variable") }

\* What a solution makes of a labeled term.
ValueOf(l, p) == Ground(l.term, IF l.label = "source" THEN p[1] ELSE p[2])

LEMMA AtomTermsType ==
    ASSUME NEW s, NEW t, PlainAtoms(s, t), NEW l \in AtomTerms(s, t)
    PROVE  /\ l \in LabeledTerms /\ l.term \in Plain
           /\ l.label = "source" => l.term \in ToSet(s.terms)
           /\ l.label = "target" => l.term \in ToSet(t.terms)
  <1>0. s.terms \in Seq(Plain) /\ t.terms \in Seq(Plain)
    BY DEF PlainAtoms
  <1>1. \A q \in {s.terms, t.terms} : \A i \in 1 .. Len(q) : q[i] \in Plain /\ q[i] \in ToSet(q)
    BY <1>0, SeqElements
  <1>2. CASE l \in Sources(s)
    BY <1>1, <1>2 DEF Sources, LabeledTerm, LabeledTerms, Labels, Plain
  <1>3. CASE l \in Targets(t)
    BY <1>1, <1>3 DEF Targets, LabeledTerm, LabeledTerms, Labels, Plain
  <1> QED
    BY <1>2, <1>3 DEF AtomTerms

LEMMA GroundingsOf ==
    ASSUME NEW s, NEW t, PlainAtoms(s, t), NEW p \in Solutions(s, t)
    PROVE  /\ DOMAIN p[1] = { u \in ToSet(s.terms) : u.kind = "variable" }
           /\ DOMAIN p[2] = { u \in ToSet(t.terms) : u.kind = "variable" }
           /\ \A i \in 1 .. Len(s.terms) :
                 ValueOf(LabeledTerm("source", s.terms[i]), p)
                   = ValueOf(LabeledTerm("target", t.terms[i]), p)
  <1>1. ToSet(s.terms) \subseteq Plain /\ ToSet(t.terms) \subseteq Plain
    BY SeqElements DEF PlainAtoms
  <1>2. p \in Groundings(s.terms) \X Groundings(t.terms) /\ Agree(s, t, p[1], p[2])
    BY DEF Solutions
  <1>3. /\ VariablesOf(s.terms) = { u \in ToSet(s.terms) : u.kind = "variable" }
        /\ VariablesOf(t.terms) = { u \in ToSet(t.terms) : u.kind = "variable" }
    BY <1>1, VariablesOfPlain
  <1>4. DOMAIN p[1] = VariablesOf(s.terms) /\ DOMAIN p[2] = VariablesOf(t.terms)
    BY <1>2 DEF Groundings
  <1>5. DOMAIN s.terms = 1 .. Len(s.terms)
    BY SeqElements DEF PlainAtoms
  <1> QED
    BY <1>2, <1>3, <1>4, <1>5 DEF Agree, ValueOf, LabeledTerm

\* A constant stands for itself, a variable for what the solution maps it to.
LEMMA ValueOfPlain ==
    ASSUME NEW s, NEW t, PlainAtoms(s, t), NEW p \in Solutions(s, t),
           NEW l \in AtomTerms(s, t)
    PROVE  /\ HasKind(l, "constant") => ValueOf(l, p) = l.term
           /\ HasKind(l, "variable") =>
                ValueOf(l, p) = (IF l.label = "source" THEN p[1] ELSE p[2])[l.term]
  <1> DEFINE g == IF l.label = "source" THEN p[1] ELSE p[2]
  <1>1. l \in LabeledTerms /\ l.term \in Plain /\ l.term.terms = <<>>
    BY AtomTermsType, PlainTerm
  <1>2. ValueOf(l, p) = Applied(l.term, g)
    BY <1>1 DEF ValueOf, Ground
  <1>3. HasKind(l, "variable") => l.term \in DOMAIN g
    BY AtomTermsType, GroundingsOf, <1>1 DEF HasKind, LabeledTerms, Labels
  <1>4. HasKind(l, "constant") => l.term \notin DOMAIN g
    BY GroundingsOf DEF HasKind
  <1> QED
    BY <1>2, <1>3, <1>4 DEF Applied
-----------------------------------------------------------------------------
(***************************************************************************)
(* The invariant of the loop over the pairs: what the substitutions are    *)
(* after the first n pairs of two atoms without functions.                 *)
(***************************************************************************)

SourceOf(s, i) == LabeledTerm("source", s.terms[i])
TargetOf(t, i) == LabeledTerm("target", t.terms[i])

\* Only the atoms' variables are bound, in no solution to anything else than
\* what they are in the solution.
Kept(s, t, S) ==
    /\ IsFiniteSet(DOMAIN S)
    /\ \A v \in DOMAIN S :
          v \in AtomTerms(s, t) /\ HasKind(v, "variable") /\ S[v] \in Values(s, t)
    /\ \A p \in Solutions(s, t) :
          \A v \in DOMAIN S : ValueOf(v, p) = ValueOf(S[v], p)

\* Every variable of the target is bound.
TargetsBound(t, S, n) ==
    \A i \in 1 .. n : HasKind(TargetOf(t, i), "variable") => TargetOf(t, i) \in DOMAIN S

\* A variable bound to itself: its chain does not end.
SelfBound(S) == \E v \in DOMAIN S : S[v] = v

BothConstant(k, l) == HasKind(k, "constant") /\ HasKind(l, "constant")

Matched(s, t, R, n) ==
    \A i \in 1 .. n : \/ R[SourceOf(s, i)] = R[TargetOf(t, i)]
                      \/ BothConstant(R[SourceOf(s, i)], R[TargetOf(t, i)])

Differ(s, t, R, n) ==
    { i \in 1 .. n : R[SourceOf(s, i)].term # R[TargetOf(t, i)].term }

Compared(s, t, R, i) ==
    Similarity[R[SourceOf(s, i)].term.symbol, R[TargetOf(t, i)].term.symbol]

Similarities(s, t, R, n) ==
    { Compared(s, t, R, i) : i \in Differ(s, t, R, n) }
        \cup {Similarity[s.predicate, t.predicate]}

IsLeast(x, X) == x \in X /\ \A y \in X : x <= y

Solved(s, t, S, n, sim) ==
    \E h, R : /\ IsForest(S, h, R)
              /\ Matched(s, t, R, n)
              /\ IsLeast(sim, Similarities(s, t, R, n))

PairsDone(s, t, S, n, sim) ==
    /\ Kept(s, t, S)
    /\ TargetsBound(t, S, n)
    /\ SelfBound(S) \/ Solved(s, t, S, n, sim)

LEMMA AtomTermsAre ==
    ASSUME NEW s, NEW t, PlainAtoms(s, t)
    PROVE  /\ Len(s.terms) \in Nat
           /\ \A i \in 1 .. Len(s.terms) :
                 /\ SourceOf(s, i) \in AtomTerms(s, t) /\ SourceOf(s, i) \in Values(s, t)
                 /\ TargetOf(t, i) \in AtomTerms(s, t)
                 /\ SourceOf(s, i) \in LabeledTerms /\ TargetOf(t, i) \in LabeledTerms
                 /\ SourceOf(s, i).label = "source" /\ TargetOf(t, i).label = "target"
                 /\ SourceOf(s, i).term = s.terms[i] /\ TargetOf(t, i).term = t.terms[i]
  <1>1. Len(s.terms) \in Nat /\ Len(t.terms) = Len(s.terms)
    BY SeqElements DEF PlainAtoms
  <1>2. \A i \in 1 .. Len(s.terms) :
           /\ SourceOf(s, i) \in AtomTerms(s, t) /\ TargetOf(t, i) \in AtomTerms(s, t)
           /\ SourceOf(s, i).label = "source" /\ TargetOf(t, i).label = "target"
           /\ SourceOf(s, i).term = s.terms[i] /\ TargetOf(t, i).term = t.terms[i]
    BY <1>1 DEF SourceOf, TargetOf, AtomTerms, Sources, Targets, LabeledTerm
  <1> QED
    BY <1>1, <1>2, AtomTermsType DEF Values

\* Following a chain stays with the values and with what a solution makes of it.
LEMMA EndIsKept ==
    ASSUME NEW s, NEW t, PlainAtoms(s, t), NEW S, Kept(s, t, S),
           NEW l \in AtomTerms(s, t)
    PROVE  /\ End(S, l) \in AtomTerms(s, t)
           /\ End(S, l) \in Values(s, t) \/ End(S, l) = l
           /\ \A p \in Solutions(s, t) : ValueOf(End(S, l), p) = ValueOf(l, p)
           /\ l \notin DOMAIN S => End(S, l) = l
  <1>1. IsFiniteSet(DOMAIN S) /\ Values(s, t) \subseteq AtomTerms(s, t)
    BY DEF Kept, Values
  <1>2. End(S, l) \in Values(s, t) \cup {l}
    <2> DEFINE C == Values(s, t) \cup {l}
    <2>1. \A v \in DOMAIN S \cap C : S[v] \in C
      BY DEF Kept
    <2> QED
      BY <1>1, <2>1, EndStays
  <1>3. ASSUME NEW p \in Solutions(s, t) PROVE ValueOf(End(S, l), p) = ValueOf(l, p)
    <2> DEFINE C == { k \in AtomTerms(s, t) : ValueOf(k, p) = ValueOf(l, p) }
    <2>1. \A v \in DOMAIN S \cap C : S[v] \in C
      BY <1>1 DEF Kept
    <2>2. l \in C
      OBVIOUS
    <2> HIDE DEF C
    <2>3. End(S, l) \in C
      BY <1>1, <2>1, <2>2, EndStays
    <2> QED
      BY <2>3 DEF C
  <1>4. l \notin DOMAIN S => End(S, l) = l
    BY <1>1, EndOfRoot
  <1> QED
    BY <1>1, <1>2, <1>3, <1>4

LEMMA KeptIsTyped ==
    ASSUME NEW s, NEW t, PlainAtoms(s, t), NEW S, Kept(s, t, S)
    PROVE  Typed(S)
  <1>1. Values(s, t) \subseteq AtomTerms(s, t) /\ AtomTerms(s, t) \subseteq LabeledTerms
    BY AtomTermsType DEF Values
  <1> QED
    BY <1>1 DEF Kept, Typed

LEMMA SimilarityIsInt ==
    ASSUME NEW k \in LabeledTerms, NEW l \in LabeledTerms, BothConstant(k, l)
    PROVE  Similarity[k.term.symbol, l.term.symbol] \in Int
  <1>1. k.term \in Terms /\ l.term \in Terms
    BY DEF LabeledTerms
  <1> QED
    BY <1>1, UnifyAssumption DEF BothConstant, HasKind

LEMMA SimilaritiesAreInts ==
    ASSUME NEW s, NEW t, PlainAtoms(s, t), NEW R,
           \A l \in LabeledTerms : R[l] \in LabeledTerms,
           NEW n \in 0 .. Len(s.terms), Matched(s, t, R, n)
    PROVE  Similarities(s, t, R, n) \subseteq Int
  <1>1. ASSUME NEW i \in Differ(s, t, R, n) PROVE Compared(s, t, R, i) \in Int
    <2>1. i \in 1 .. n /\ i \in 1 .. Len(s.terms)
      BY AtomTermsAre DEF Differ
    <2>2. BothConstant(R[SourceOf(s, i)], R[TargetOf(t, i)])
      BY <2>1 DEF Matched, Differ
    <2>3. R[SourceOf(s, i)] \in LabeledTerms /\ R[TargetOf(t, i)] \in LabeledTerms
      BY <2>1, AtomTermsAre
    <2> QED
      BY <2>2, <2>3, SimilarityIsInt DEF Compared
  <1> QED
    BY <1>1 DEF Similarities, PlainAtoms

\* Before the first pair.
LEMMA NothingDone ==
    ASSUME NEW s, NEW t, PlainAtoms(s, t)
    PROVE  PairsDone(s, t, NoSubstitutions, 0, Similarity[s.predicate, t.predicate])
  <1> DEFINE R == [l \in LabeledTerms |-> l]
             sim == Similarity[s.predicate, t.predicate]
  <1>1. DOMAIN NoSubstitutions = {}
    BY DEF NoSubstitutions
  <1>2. Kept(s, t, NoSubstitutions)
    BY <1>1, FS_EmptySet DEF Kept
  <1>3. IsForest(NoSubstitutions, NoSubstitutions, R)
    BY <1>1 DEF IsForest
  <1>4. Similarities(s, t, R, 0) = {sim}
    BY DEF Similarities, Differ
  <1>5. Matched(s, t, R, 0) /\ TargetsBound(t, NoSubstitutions, 0)
    BY DEF Matched, TargetsBound
  <1>6. IsLeast(sim, Similarities(s, t, R, 0))
    <2>1. sim \in Int
      BY DEF PlainAtoms
    <2> HIDE DEF R, sim
    <2> QED
      BY <1>4, <2>1 DEF IsLeast
  <1> QED
    BY <1>2, <1>3, <1>5, <1>6 DEF PairsDone, Solved

\* The ends of a pair's chains.
SourceEnd(s, S, i) == End(S, SourceOf(s, i))
TargetEnd(t, S, i) == End(S, TargetOf(t, i))

\* The next pair is looked at and the chains of both terms end.
Meets(s, t, S, n) ==
    /\ n \in 0 .. Len(s.terms) - 1
    /\ SourceEnd(s, S, n + 1) \notin DOMAIN S
    /\ TargetEnd(t, S, n + 1) \notin DOMAIN S

LEMMA MeetsAre ==
    ASSUME NEW s, NEW t, PlainAtoms(s, t), NEW S, Kept(s, t, S), NEW n, Meets(s, t, S, n)
    PROVE  /\ n \in Nat /\ n + 1 \in 1 .. Len(s.terms)
           /\ SourceEnd(s, S, n + 1) \in Values(s, t)
           /\ TargetEnd(t, S, n + 1) \in AtomTerms(s, t)
           /\ TargetOf(t, n + 1) \in DOMAIN S => TargetEnd(t, S, n + 1) \in Values(s, t)
           /\ TargetOf(t, n + 1) \notin DOMAIN S =>
                 TargetEnd(t, S, n + 1) = TargetOf(t, n + 1)
           /\ \A p \in Solutions(s, t) :
                 ValueOf(SourceEnd(s, S, n + 1), p) = ValueOf(TargetEnd(t, S, n + 1), p)
  <1>1. n \in Nat /\ n + 1 \in 1 .. Len(s.terms)
    BY AtomTermsAre DEF Meets
  <1>2. /\ SourceOf(s, n + 1) \in AtomTerms(s, t) /\ SourceOf(s, n + 1) \in Values(s, t)
        /\ TargetOf(t, n + 1) \in AtomTerms(s, t)
    BY <1>1, AtomTermsAre
  <1>3. /\ SourceEnd(s, S, n + 1) \in Values(s, t)
        /\ TargetEnd(t, S, n + 1) \in AtomTerms(s, t)
        /\ TargetEnd(t, S, n + 1) \in Values(s, t)
             \/ TargetEnd(t, S, n + 1) = TargetOf(t, n + 1)
        /\ TargetOf(t, n + 1) \notin DOMAIN S =>
              TargetEnd(t, S, n + 1) = TargetOf(t, n + 1)
    BY <1>2, EndIsKept DEF SourceEnd, TargetEnd
  <1>4. ASSUME NEW p \in Solutions(s, t)
        PROVE  ValueOf(SourceEnd(s, S, n + 1), p) = ValueOf(TargetEnd(t, S, n + 1), p)
    <2>1. /\ ValueOf(SourceEnd(s, S, n + 1), p) = ValueOf(SourceOf(s, n + 1), p)
          /\ ValueOf(TargetEnd(t, S, n + 1), p) = ValueOf(TargetOf(t, n + 1), p)
      BY <1>2, EndIsKept DEF SourceEnd, TargetEnd
    <2>2. ValueOf(SourceOf(s, n + 1), p) = ValueOf(TargetOf(t, n + 1), p)
      BY <1>1, GroundingsOf DEF SourceOf, TargetOf
    <2> QED
      BY <2>1, <2>2
  <1>5. TargetOf(t, n + 1) \in DOMAIN S => TargetEnd(t, S, n + 1) \in Values(s, t)
    BY <1>3 DEF Meets
  <1> QED
    BY <1>1, <1>3, <1>4, <1>5

\* One end is a variable and is bound to the other.
Binds(s, t, S, n, var, l) ==
    /\ Meets(s, t, S, n)
    /\ \/ var = SourceEnd(s, S, n + 1) /\ l = TargetEnd(t, S, n + 1)
       \/ l = SourceEnd(s, S, n + 1) /\ var = TargetEnd(t, S, n + 1)
    /\ HasKind(var, "variable") /\ l \in Values(s, t)

LEMMA BindsAre ==
    ASSUME NEW s, NEW t, PlainAtoms(s, t), NEW S, Kept(s, t, S),
           NEW n, NEW var, NEW l, Binds(s, t, S, n, var, l)
    PROVE  /\ var \in AtomTerms(s, t) /\ var \in LabeledTerms \ DOMAIN S
           /\ l \in LabeledTerms \ DOMAIN S
           /\ n \in Nat /\ n + 1 \in 1 .. Len(s.terms)
  BY MeetsAre, AtomTermsType DEF Binds, Meets, Values

LEMMA BindingIsKept ==
    ASSUME NEW s, NEW t, PlainAtoms(s, t), NEW S, Kept(s, t, S),
           NEW n, NEW var, NEW l, Binds(s, t, S, n, var, l)
    PROVE  Kept(s, t, With(S, var, l))
  <1>1. /\ var \in AtomTerms(s, t) /\ var \in LabeledTerms \ DOMAIN S
        /\ l \in LabeledTerms /\ l \in Values(s, t) /\ HasKind(var, "variable")
    BY BindsAre DEF Binds
  <1>2. IsFiniteSet(DOMAIN S \cup {var})
    BY FS_AddElement DEF Kept
  <1>3. /\ DOMAIN With(S, var, l) = DOMAIN S \cup {var}
        /\ With(S, var, l)[var] = l
        /\ \A v \in DOMAIN S : With(S, var, l)[v] = S[v]
    BY <1>1 DEF With
  <1>4. \A p \in Solutions(s, t) : ValueOf(var, p) = ValueOf(l, p)
    BY MeetsAre DEF Binds
  <1> QED
    BY <1>1, <1>2, <1>3, <1>4 DEF Kept

LEMMA BindingBindsTarget ==
    ASSUME NEW s, NEW t, PlainAtoms(s, t), NEW S, Kept(s, t, S),
           NEW n, NEW var, NEW l, Binds(s, t, S, n, var, l), TargetsBound(t, S, n)
    PROVE  TargetsBound(t, With(S, var, l), n + 1)
  <1>1. DOMAIN With(S, var, l) = DOMAIN S \cup {var}
    BY DEF With
  <1>2. n \in Nat /\ n + 1 \in 1 .. Len(s.terms) /\ Meets(s, t, S, n)
    BY BindsAre DEF Binds
  <1>3. ASSUME HasKind(TargetOf(t, n + 1), "variable"), TargetOf(t, n + 1) \notin DOMAIN S
        PROVE  TargetOf(t, n + 1) = var
    <2>1. TargetEnd(t, S, n + 1) = TargetOf(t, n + 1)
      BY <1>2, <1>3, MeetsAre
    <2>2. TargetOf(t, n + 1) \notin Values(s, t)
      BY <1>2, <1>3, AtomTermsAre DEF Values
    <2> QED
      BY <2>1, <2>2 DEF Binds
  <1>4. ASSUME NEW i \in 1 .. n + 1, HasKind(TargetOf(t, i), "variable")
        PROVE  TargetOf(t, i) \in DOMAIN S \cup {var}
    <2>1. CASE i = n + 1
      BY <1>3, <1>4, <2>1
    <2>2. CASE i # n + 1
      BY <1>2, <1>4, <2>2 DEF TargetsBound
    <2> QED
      BY <2>1, <2>2
  <1> QED
    BY <1>1, <1>4 DEF TargetsBound

LEMMA BindingSolves ==
    ASSUME NEW s, NEW t, PlainAtoms(s, t), NEW S, Kept(s, t, S),
           NEW n, NEW var, NEW l, Binds(s, t, S, n, var, l), l # var,
           NEW sim, Solved(s, t, S, n, sim)
    PROVE  Solved(s, t, With(S, var, l), n + 1, sim)
  <1>1. PICK h, R : /\ IsForest(S, h, R) /\ Matched(s, t, R, n)
                    /\ IsLeast(sim, Similarities(s, t, R, n))
    BY DEF Solved
  <1> DEFINE Q == NewEnds(R, var, l)
  <1>2. /\ var \in LabeledTerms \ DOMAIN S /\ l \in LabeledTerms \ DOMAIN S
        /\ n \in Nat /\ n + 1 \in 1 .. Len(s.terms)
    BY BindsAre
  <1>3. Typed(S)
    BY KeptIsTyped
  <1>4. IsForest(With(S, var, l), NewHeights(S, h, var), Q)
    BY <1>1, <1>2, <1>3, WithIsForest
  <1>5. \A x \in LabeledTerms : Q[x] = IF R[x] = var THEN l ELSE R[x]
    BY DEF NewEnds
  <1> HIDE DEF Q
  <1>6. \A i \in 1 .. n + 1 : SourceOf(s, i) \in LabeledTerms /\ TargetOf(t, i) \in LabeledTerms
    BY <1>2, AtomTermsAre
  <1>7. Q[SourceOf(s, n + 1)] = Q[TargetOf(t, n + 1)]
    <2>1. n + 1 \in 1 .. n + 1
      BY <1>2
    <2>2. /\ R[SourceOf(s, n + 1)] = SourceEnd(s, S, n + 1)
          /\ R[TargetOf(t, n + 1)] = TargetEnd(t, S, n + 1)
      BY <1>1, <1>3, <1>6, <2>1, EndInForest DEF SourceEnd, TargetEnd
    <2>3. R[SourceOf(s, n + 1)] \in {var, l} /\ R[TargetOf(t, n + 1)] \in {var, l}
      BY <2>2 DEF Binds
    <2> QED
      BY <1>5, <1>6, <2>1, <2>3
  <1>8. ASSUME NEW i \in 1 .. n
        PROVE  \/ R[SourceOf(s, i)] = R[TargetOf(t, i)] /\ Q[SourceOf(s, i)] = Q[TargetOf(t, i)]
               \/ /\ BothConstant(R[SourceOf(s, i)], R[TargetOf(t, i)])
                  /\ Q[SourceOf(s, i)] = R[SourceOf(s, i)]
                  /\ Q[TargetOf(t, i)] = R[TargetOf(t, i)]
    <2>1. SourceOf(s, i) \in LabeledTerms /\ TargetOf(t, i) \in LabeledTerms
      BY <1>2, <1>6
    <2>2. HasKind(var, "variable")
      BY DEF Binds
    <2>3. BothConstant(R[SourceOf(s, i)], R[TargetOf(t, i)]) =>
             R[SourceOf(s, i)] # var /\ R[TargetOf(t, i)] # var
      BY <2>2 DEF BothConstant, HasKind
    <2> QED
      BY <1>1, <1>5, <2>1, <2>3 DEF Matched
  <1>9. Matched(s, t, Q, n + 1)
    <2> SUFFICES ASSUME NEW i \in 1 .. n + 1
                 PROVE  \/ Q[SourceOf(s, i)] = Q[TargetOf(t, i)]
                        \/ BothConstant(Q[SourceOf(s, i)], Q[TargetOf(t, i)])
      BY DEF Matched
    <2>1. CASE i = n + 1
      BY <1>7, <2>1
    <2>2. CASE i # n + 1
      <3>1. i \in 1 .. n
        BY <1>2, <2>2
      <3> QED
        BY <1>8, <3>1
    <2> QED
      BY <2>1, <2>2
  <1>10. Differ(s, t, Q, n + 1) = Differ(s, t, R, n)
    <2>1. ASSUME NEW i
          PROVE  i \in Differ(s, t, Q, n + 1) <=> i \in Differ(s, t, R, n)
      <3>1. CASE i = n + 1
        <4>1. i \notin 1 .. n
          BY <1>2, <3>1
        <4> QED
          BY <1>7, <3>1, <4>1 DEF Differ
      <3>2. CASE i # n + 1
        <4>1. i \in 1 .. n + 1 <=> i \in 1 .. n
          BY <1>2, <3>2
        <4>2. CASE i \in 1 .. n
          BY <1>8, <4>1, <4>2 DEF Differ
        <4>3. CASE i \notin 1 .. n
          BY <4>1, <4>3 DEF Differ
        <4> QED
          BY <4>2, <4>3
      <3> QED
        BY <3>1, <3>2
    <2> QED
      BY <2>1
  <1>11. \A i \in Differ(s, t, R, n) : Compared(s, t, Q, i) = Compared(s, t, R, i)
    <2> SUFFICES ASSUME NEW i \in Differ(s, t, R, n)
                 PROVE  Compared(s, t, Q, i) = Compared(s, t, R, i)
      OBVIOUS
    <2>1. i \in 1 .. n /\ R[SourceOf(s, i)] # R[TargetOf(t, i)]
      BY DEF Differ
    <2>2. Q[SourceOf(s, i)] = R[SourceOf(s, i)] /\ Q[TargetOf(t, i)] = R[TargetOf(t, i)]
      BY <1>8, <2>1
    <2> QED
      BY <2>2 DEF Compared
  <1>12. Similarities(s, t, Q, n + 1) = Similarities(s, t, R, n)
    BY <1>10, <1>11 DEF Similarities
  <1>13. IsLeast(sim, Similarities(s, t, Q, n + 1))
    BY <1>1, <1>12
  <1> QED
    BY <1>4, <1>9, <1>13 DEF Solved

LEMMA BindingDone ==
    ASSUME NEW s, NEW t, PlainAtoms(s, t), NEW S, NEW n, NEW var, NEW l,
           Binds(s, t, S, n, var, l), NEW sim, PairsDone(s, t, S, n, sim)
    PROVE  PairsDone(s, t, With(S, var, l), n + 1, sim)
  <1>1. Kept(s, t, S) /\ TargetsBound(t, S, n)
    BY DEF PairsDone
  <1>2. Kept(s, t, With(S, var, l))
    BY <1>1, BindingIsKept
  <1>3. TargetsBound(t, With(S, var, l), n + 1)
    BY <1>1, BindingBindsTarget
  <1>4. /\ DOMAIN With(S, var, l) = DOMAIN S \cup {var}
        /\ With(S, var, l)[var] = l
        /\ \A v \in DOMAIN S : v # var => With(S, var, l)[v] = S[v]
    BY DEF With
  <1>5. var \notin DOMAIN S
    BY <1>1, BindsAre
  <1>6. CASE l = var
    BY <1>2, <1>3, <1>4, <1>6 DEF PairsDone, SelfBound
  <1>7. CASE SelfBound(S)
    <2>1. SelfBound(With(S, var, l))
      BY <1>4, <1>5, <1>7 DEF SelfBound
    <2> QED
      BY <1>2, <1>3, <2>1 DEF PairsDone
  <1>8. CASE l # var /\ Solved(s, t, S, n, sim)
    <2>1. Solved(s, t, With(S, var, l), n + 1, sim)
      BY <1>1, <1>8, BindingSolves
    <2> QED
      BY <1>2, <1>3, <2>1 DEF PairsDone
  <1> QED
    BY <1>6, <1>7, <1>8 DEF PairsDone

\* Both ends are constants.
MeetsConstants(s, t, S, n) ==
    /\ Meets(s, t, S, n)
    /\ BothConstant(SourceEnd(s, S, n + 1), TargetEnd(t, S, n + 1))

\* The similarity after them.
SimilarityWith(s, t, S, n, sim) ==
    LET c == SourceEnd(s, S, n + 1).term
        d == TargetEnd(t, S, n + 1).term
    IN IF c = d THEN sim ELSE LowestSimilarity(sim, Similarity[c.symbol, d.symbol])

\* Constants that differ have no solution.
LEMMA DifferentConstants ==
    ASSUME NEW s, NEW t, PlainAtoms(s, t), NEW S, Kept(s, t, S), NEW n,
           MeetsConstants(s, t, S, n),
           SourceEnd(s, S, n + 1).term # TargetEnd(t, S, n + 1).term
    PROVE  Solutions(s, t) = {}
  <1> SUFFICES ASSUME NEW p \in Solutions(s, t) PROVE FALSE
    OBVIOUS
  <1>1. /\ SourceEnd(s, S, n + 1) \in AtomTerms(s, t)
        /\ TargetEnd(t, S, n + 1) \in AtomTerms(s, t)
        /\ ValueOf(SourceEnd(s, S, n + 1), p) = ValueOf(TargetEnd(t, S, n + 1), p)
    BY MeetsAre DEF MeetsConstants, Values
  <1>2. /\ ValueOf(SourceEnd(s, S, n + 1), p) = SourceEnd(s, S, n + 1).term
        /\ ValueOf(TargetEnd(t, S, n + 1), p) = TargetEnd(t, S, n + 1).term
    BY <1>1, ValueOfPlain DEF MeetsConstants, BothConstant
  <1> QED
    BY <1>1, <1>2

LEMMA ConstantsSolve ==
    ASSUME NEW s, NEW t, PlainAtoms(s, t), NEW S, Kept(s, t, S), NEW n,
           MeetsConstants(s, t, S, n), NEW sim, Solved(s, t, S, n, sim)
    PROVE  Solved(s, t, S, n + 1, SimilarityWith(s, t, S, n, sim))
  <1>1. PICK h, R : /\ IsForest(S, h, R) /\ Matched(s, t, R, n)
                    /\ IsLeast(sim, Similarities(s, t, R, n))
    BY DEF Solved
  <1>2. n \in Nat /\ n + 1 \in 1 .. Len(s.terms) /\ n \in 0 .. Len(s.terms)
    BY MeetsAre, AtomTermsAre DEF MeetsConstants
  <1>3. \A l \in LabeledTerms : R[l] = End(S, l) /\ R[l] \in LabeledTerms
    BY <1>1, KeptIsTyped, EndInForest
  <1> DEFINE c == SourceEnd(s, S, n + 1)
             d == TargetEnd(t, S, n + 1)
             x == Similarity[c.term.symbol, d.term.symbol]
  <1>4. /\ R[SourceOf(s, n + 1)] = c /\ R[TargetOf(t, n + 1)] = d
        /\ c \in LabeledTerms /\ d \in LabeledTerms
    BY <1>2, <1>3, AtomTermsAre DEF SourceEnd, TargetEnd
  <1>5. Matched(s, t, R, n + 1)
    <2> SUFFICES ASSUME NEW i \in 1 .. n + 1
                 PROVE  \/ R[SourceOf(s, i)] = R[TargetOf(t, i)]
                        \/ BothConstant(R[SourceOf(s, i)], R[TargetOf(t, i)])
      BY DEF Matched
    <2>1. CASE i = n + 1
      BY <1>4, <2>1 DEF MeetsConstants
    <2>2. CASE i # n + 1
      <3>1. i \in 1 .. n
        BY <1>2, <2>2
      <3> QED
        BY <1>1, <3>1 DEF Matched
    <2> QED
      BY <2>1, <2>2
  <1>6. x \in Int
    BY <1>4, SimilarityIsInt DEF MeetsConstants
  <1>7. Similarities(s, t, R, n) \subseteq Int
    BY <1>1, <1>2, <1>3, SimilaritiesAreInts
  <1>8. 1 .. n + 1 = (1 .. n) \cup {n + 1}
    BY <1>2
  <1>9. Compared(s, t, R, n + 1) = x
    BY <1>4 DEF Compared
  <1> HIDE DEF x, c, d
  <1>10. CASE c.term = d.term
    <2>1. Differ(s, t, R, n + 1) = Differ(s, t, R, n)
      BY <1>4, <1>8, <1>10 DEF Differ
    <2>2. Similarities(s, t, R, n + 1) = Similarities(s, t, R, n)
      BY <2>1 DEF Similarities
    <2>3. SimilarityWith(s, t, S, n, sim) = sim
      BY <1>10 DEF SimilarityWith, c, d
    <2> QED
      BY <1>1, <1>5, <2>2, <2>3 DEF Solved
  <1>11. CASE c.term # d.term
    <2>1. Differ(s, t, R, n + 1) = Differ(s, t, R, n) \cup {n + 1}
      BY <1>4, <1>8, <1>11 DEF Differ
    <2>2. Similarities(s, t, R, n + 1) = Similarities(s, t, R, n) \cup {x}
      BY <1>9, <2>1 DEF Similarities
    <2>3. SimilarityWith(s, t, S, n, sim) = LowestSimilarity(sim, x)
      BY <1>11 DEF SimilarityWith, c, d, x
    <2>4. sim \in Similarities(s, t, R, n) /\ \A y \in Similarities(s, t, R, n) : sim <= y
      BY <1>1 DEF IsLeast
    <2>5. IsLeast(LowestSimilarity(sim, x), Similarities(s, t, R, n + 1))
      BY <1>6, <1>7, <2>2, <2>4 DEF IsLeast, LowestSimilarity
    <2> QED
      BY <1>1, <1>5, <2>3, <2>5 DEF Solved
  <1> QED
    BY <1>10, <1>11

LEMMA ConstantsDone ==
    ASSUME NEW s, NEW t, PlainAtoms(s, t), NEW S, NEW n, MeetsConstants(s, t, S, n),
           NEW sim, PairsDone(s, t, S, n, sim)
    PROVE  PairsDone(s, t, S, n + 1, SimilarityWith(s, t, S, n, sim))
  <1>1. Kept(s, t, S) /\ TargetsBound(t, S, n)
    BY DEF PairsDone
  <1>2. TargetsBound(t, S, n + 1)
    <2> SUFFICES ASSUME NEW i \in 1 .. n + 1, HasKind(TargetOf(t, i), "variable")
                 PROVE  TargetOf(t, i) \in DOMAIN S
      BY DEF TargetsBound
    <2>0. n \in Nat /\ Meets(s, t, S, n)
      BY <1>1, MeetsAre DEF MeetsConstants
    <2>1. CASE i = n + 1
      <3>1. HasKind(TargetEnd(t, S, n + 1), "constant")
        BY DEF MeetsConstants, BothConstant
      <3>2. TargetOf(t, n + 1) \notin DOMAIN S => TargetEnd(t, S, n + 1) = TargetOf(t, n + 1)
        BY <1>1, <2>0, MeetsAre
      <3> QED
        BY <2>1, <3>1, <3>2 DEF HasKind
    <2>2. CASE i # n + 1
      <3>1. i \in 1 .. n
        BY <2>0, <2>2
      <3> QED
        BY <1>1, <3>1 DEF TargetsBound
    <2> QED
      BY <2>1, <2>2
  <1>3. CASE SelfBound(S)
    BY <1>1, <1>2, <1>3 DEF PairsDone
  <1>4. CASE Solved(s, t, S, n, sim)
    <2>1. Solved(s, t, S, n + 1, SimilarityWith(s, t, S, n, sim))
      BY <1>1, <1>4, ConstantsSolve
    <2> QED
      BY <1>1, <1>2, <2>1 DEF PairsDone
  <1> QED
    BY <1>3, <1>4 DEF PairsDone
-----------------------------------------------------------------------------
(***************************************************************************)
(* What is returned after the last pair.                                   *)
(***************************************************************************)

\* SubstitutionsOf, whatever the state.
SideOf(S, label) ==
    LET keys == { v \in DOMAIN S : v.label = label } IN
    [u \in { v.term : v \in keys } |-> End(S, LabeledTerm(label, u)).term]

LEMMA SideIsOf == \A label : SubstitutionsOf(label) = SideOf(substitutions, label)
  BY ResolvedIsEnd DEF SubstitutionsOf, SideOf

LEMMA SideGivesEnd ==
    ASSUME NEW s, NEW t, PlainAtoms(s, t), NEW S, Kept(s, t, S),
           NEW l \in AtomTerms(s, t)
    PROVE  /\ l \in DOMAIN S <=> l.term \in DOMAIN SideOf(S, l.label)
           /\ Applied(l.term, SideOf(S, l.label)) = End(S, l).term
  <1>1. l \in LabeledTerms /\ DOMAIN S \subseteq LabeledTerms
    BY AtomTermsType, KeptIsTyped DEF Typed
  <1>2. LabeledTerm(l.label, l.term) = l
    BY <1>1 DEF LabeledTerm, LabeledTerms
  <1>3. \A v \in DOMAIN S : v.label = l.label /\ v.term = l.term => v = l
    BY <1>1 DEF LabeledTerms
  <1>4. DOMAIN SideOf(S, l.label) =
          { v.term : v \in { v \in DOMAIN S : v.label = l.label } }
    BY DEF SideOf
  <1>5. l \in DOMAIN S <=> l.term \in DOMAIN SideOf(S, l.label)
    BY <1>3, <1>4
  <1>6. CASE l \in DOMAIN S
    <2>1. SideOf(S, l.label)[l.term] = End(S, l).term
      BY <1>2, <1>4, <1>5, <1>6 DEF SideOf
    <2> QED
      BY <1>5, <1>6, <2>1 DEF Applied
  <1>7. CASE l \notin DOMAIN S
    <2>1. End(S, l) = l
      BY <1>7, EndIsKept
    <2> QED
      BY <1>5, <1>7, <2>1 DEF Applied
  <1> QED
    BY <1>5, <1>6, <1>7

\* The keys of a side's substitutions are variables of the side's atom.
LEMMA SideKeys ==
    ASSUME NEW s, NEW t, PlainAtoms(s, t), NEW S, Kept(s, t, S),
           NEW label \in Labels, NEW u \in DOMAIN SideOf(S, label)
    PROVE  LabeledTerm(label, u) \in DOMAIN S
  <1>1. PICK v \in DOMAIN S : v.label = label /\ v.term = u
    BY DEF SideOf
  <1>2. v \in LabeledTerms
    BY KeptIsTyped DEF Typed
  <1>3. v = LabeledTerm(label, u)
    BY <1>1, <1>2 DEF LabeledTerm, LabeledTerms
  <1> QED
    BY <1>1, <1>3

\* All pairs are done and all chains end.
Finishes(s, t, S, sim) ==
    /\ PlainAtoms(s, t)
    /\ PairsDone(s, t, S, Len(s.terms), sim)
    /\ \A v \in DOMAIN S : End(S, v) \notin DOMAIN S

LEMMA FinishedIsSolved ==
    ASSUME NEW s, NEW t, NEW S, NEW sim, Finishes(s, t, S, sim)
    PROVE  PlainAtoms(s, t) /\ Kept(s, t, S) /\ Solved(s, t, S, Len(s.terms), sim)
  <1>1. Kept(s, t, S)
    BY DEF Finishes, PairsDone
  <1>2. ~ SelfBound(S)
    <2> SUFFICES ASSUME NEW v \in DOMAIN S, S[v] = v PROVE FALSE
      BY DEF SelfBound
    <2>1. End(S, v) = v
      BY <1>1, EndOfRoot DEF Kept
    <2> QED
      BY <2>1 DEF Finishes
  <1> QED
    BY <1>1, <1>2 DEF Finishes, PairsDone

\* A variable of a solution is what the variable's value is in the solution.
LEMMA FinishedIsGeneral ==
    ASSUME NEW s, NEW t, NEW S, NEW sim, Finishes(s, t, S, sim),
           NEW p \in Solutions(s, t), NEW label \in Labels
    PROVE  IsInstance(SideOf(S, label), IF label = "source" THEN p[1] ELSE p[2], p[1])
  <1> DEFINE subs == SideOf(S, label)
             values == IF label = "source" THEN p[1] ELSE p[2]
  <1>0. PlainAtoms(s, t) /\ Kept(s, t, S)
    BY FinishedIsSolved
  <1>1. ASSUME NEW u \in DOMAIN subs
        PROVE  VariablesOf(<<subs[u]>>) \subseteq DOMAIN p[1] /\ values[u] = Ground(subs[u], p[1])
    <2> DEFINE v == LabeledTerm(label, u)
               e == End(S, v)
    <2>1. v \in DOMAIN S
      BY <1>0, <1>1, SideKeys
    <2>2. v \in AtomTerms(s, t) /\ HasKind(v, "variable") /\ v.label = label /\ v.term = u
      BY <1>0, <2>1 DEF Kept, LabeledTerm
    <2>3. e \notin DOMAIN S
      BY <2>1 DEF Finishes
    <2>4. e \in Values(s, t) /\ e \in AtomTerms(s, t) /\ ValueOf(e, p) = ValueOf(v, p)
      BY <1>0, <2>1, <2>2, <2>3, EndIsKept
    <2>5. subs[u] = e.term
      BY DEF SideOf
    <2>6. ValueOf(v, p) = values[u]
      BY <1>0, <2>2, ValueOfPlain
    <2> HIDE DEF subs, values, e, v
    <2>7. e.label = "source" \/ HasKind(e, "constant")
      BY <1>0, <2>4, AtomTermsType, PlainTerm DEF Values, HasKind
    <2>8. e.term \in Plain /\ e.term.terms = <<>>
      BY <1>0, <2>4, AtomTermsType, PlainTerm
    <2>9. /\ DOMAIN p[1] = { x \in ToSet(s.terms) : x.kind = "variable" }
          /\ DOMAIN p[2] = { x \in ToSet(t.terms) : x.kind = "variable" }
      BY <1>0, GroundingsOf
    <2>10. Ground(e.term, p[1]) = ValueOf(e, p)
      <3>1. CASE e.label = "source"
        BY <3>1 DEF ValueOf
      <3>2. CASE HasKind(e, "constant")
        BY <2>8, <2>9, <3>2 DEF ValueOf, Ground, Applied, HasKind
      <3> QED
        BY <2>7, <3>1, <3>2
    <2>11. VariablesOf(<<e.term>>) \subseteq DOMAIN p[1]
      <3>1. ToSet(<<e.term>>) = {e.term}
        BY DEF ToSet
      <3>2. VariablesOf(<<e.term>>) = { x \in {e.term} : x.kind = "variable" }
        BY <2>8, <3>1, VariablesOfPlain
      <3>3. e.term.kind = "variable" => e.term \in ToSet(s.terms)
        BY <1>0, <2>4, <2>7, AtomTermsType DEF HasKind
      <3> QED
        BY <2>9, <3>2, <3>3
    <2> QED
      BY <2>4, <2>5, <2>6, <2>10, <2>11
  <1> QED
    BY <1>1 DEF IsInstance

\* What unify returns for atoms without functions: variables of the atoms are
\* replaced, by constants of the atoms or by variables of the source that are not
\* replaced.
FlatAnswer(s, t, a, b) ==
    LET IsValue(u) == /\ u \in Plain /\ u \in ToSet(s.terms) \cup ToSet(t.terms)
                      /\ u.kind = "variable" => u \in ToSet(s.terms) \ DOMAIN a
    IN /\ \A v \in DOMAIN a :
             v \in ToSet(s.terms) /\ v.kind = "variable" /\ IsValue(a[v])
       /\ \A v \in DOMAIN b :
             v \in ToSet(t.terms) /\ v.kind = "variable" /\ IsValue(b[v])

LEMMA FinishedIsFlat ==
    ASSUME NEW s, NEW t, NEW S, NEW sim, Finishes(s, t, S, sim)
    PROVE  FlatAnswer(s, t, SideOf(S, "source"), SideOf(S, "target"))
  <1> DEFINE a == SideOf(S, "source")
  <1>0. PlainAtoms(s, t) /\ Kept(s, t, S)
    BY FinishedIsSolved
  <1>1. ASSUME NEW label \in Labels, NEW u \in DOMAIN SideOf(S, label)
        PROVE  /\ LabeledTerm(label, u) \in AtomTerms(s, t) /\ u.kind = "variable"
               /\ label = "source" => u \in ToSet(s.terms)
               /\ label = "target" => u \in ToSet(t.terms)
               /\ SideOf(S, label)[u] \in Plain
               /\ SideOf(S, label)[u] \in ToSet(s.terms) \cup ToSet(t.terms)
               /\ SideOf(S, label)[u].kind = "variable" =>
                    SideOf(S, label)[u] \in ToSet(s.terms) \ DOMAIN a
    <2> DEFINE v == LabeledTerm(label, u)
               e == End(S, v)
    <2>1. v \in DOMAIN S /\ v.label = label /\ v.term = u
      BY <1>0, <1>1, SideKeys DEF LabeledTerm
    <2>2. v \in AtomTerms(s, t) /\ HasKind(v, "variable")
      BY <1>0, <2>1 DEF Kept
    <2>3. e \notin DOMAIN S
      BY <2>1 DEF Finishes
    <2>4. e \in Values(s, t) /\ e \in AtomTerms(s, t)
      BY <1>0, <2>1, <2>2, <2>3, EndIsKept
    <2>5. SideOf(S, label)[u] = e.term
      BY DEF SideOf
    <2> HIDE DEF v, e
    <2>6. u.kind = "variable"
      BY <2>1, <2>2 DEF HasKind
    <2>7. /\ label = "source" => u \in ToSet(s.terms)
          /\ label = "target" => u \in ToSet(t.terms)
      BY <1>0, <2>1, <2>2, AtomTermsType
    <2>8. e.term \in Plain /\ e.term \in ToSet(s.terms) \cup ToSet(t.terms)
      <3>1. e.label \in {"source", "target"}
        BY <1>0, <2>4, AtomTermsType DEF LabeledTerms, Labels
      <3> QED
        BY <1>0, <2>4, <3>1, AtomTermsType
    <2>9. ASSUME e.term.kind = "variable"
          PROVE  e.term \in ToSet(s.terms) /\ e.term \notin DOMAIN a
      <3>1. e.label = "source"
        BY <2>4, <2>9 DEF Values, HasKind
      <3>2. e.term \in ToSet(s.terms)
        BY <1>0, <2>4, <3>1, AtomTermsType
      <3>3. e \in DOMAIN S <=> e.term \in DOMAIN SideOf(S, e.label)
        BY <1>0, <2>4, SideGivesEnd
      <3> QED
        BY <2>3, <3>1, <3>2, <3>3
    <2> QED
      BY <2>1, <2>2, <2>5, <2>6, <2>7, <2>8, <2>9 DEF v
  <1>2. "source" \in Labels /\ "target" \in Labels
    BY DEF Labels
  <1> HIDE DEF a
  <1>3. \A v \in DOMAIN SideOf(S, "source") :
           /\ v \in ToSet(s.terms) /\ v.kind = "variable"
           /\ SideOf(S, "source")[v] \in Plain
           /\ SideOf(S, "source")[v] \in ToSet(s.terms) \cup ToSet(t.terms)
           /\ SideOf(S, "source")[v].kind = "variable" =>
                 SideOf(S, "source")[v] \in ToSet(s.terms) \ DOMAIN a
    BY <1>1, <1>2
  <1>4. \A v \in DOMAIN SideOf(S, "target") :
           /\ v \in ToSet(t.terms) /\ v.kind = "variable"
           /\ SideOf(S, "target")[v] \in Plain
           /\ SideOf(S, "target")[v] \in ToSet(s.terms) \cup ToSet(t.terms)
           /\ SideOf(S, "target")[v].kind = "variable" =>
                 SideOf(S, "target")[v] \in ToSet(s.terms) \ DOMAIN a
    BY <1>1, <1>2
  <1> QED
    BY <1>3, <1>4 DEF FlatAnswer, a

\* The terms of the atom, and of the answer, on one side.
ShownTerms(terms, subs) == [i \in DOMAIN terms |-> Applied(terms[i], subs)]

LEMMA ShownEnds ==
    ASSUME NEW s, NEW t, NEW S, NEW sim, Finishes(s, t, S, sim)
    PROVE  LET a == ShownTerms(s.terms, SideOf(S, "source"))
               b == ShownTerms(t.terms, SideOf(S, "target")) IN
           /\ DOMAIN a = 1 .. Len(s.terms) /\ DOMAIN b = 1 .. Len(s.terms)
           /\ \A i \in 1 .. Len(s.terms) :
                 /\ a[i] = SourceEnd(s, S, i).term
                 /\ b[i] = TargetEnd(t, S, i).term
  <1>1. PlainAtoms(s, t) /\ Kept(s, t, S)
    BY FinishedIsSolved
  <1>2. DOMAIN s.terms = 1 .. Len(s.terms) /\ DOMAIN t.terms = 1 .. Len(s.terms)
    BY <1>1, SeqElements DEF PlainAtoms
  <1>3. ASSUME NEW i \in 1 .. Len(s.terms)
        PROVE  /\ Applied(s.terms[i], SideOf(S, "source")) = SourceEnd(s, S, i).term
               /\ Applied(t.terms[i], SideOf(S, "target")) = TargetEnd(t, S, i).term
    <2>1. /\ SourceOf(s, i) \in AtomTerms(s, t) /\ TargetOf(t, i) \in AtomTerms(s, t)
          /\ SourceOf(s, i).label = "source" /\ TargetOf(t, i).label = "target"
          /\ SourceOf(s, i).term = s.terms[i] /\ TargetOf(t, i).term = t.terms[i]
      BY <1>1, AtomTermsAre
    <2>2. /\ Applied(SourceOf(s, i).term, SideOf(S, SourceOf(s, i).label)) = End(S, SourceOf(s, i)).term
          /\ Applied(TargetOf(t, i).term, SideOf(S, TargetOf(t, i).label)) = End(S, TargetOf(t, i)).term
      BY <1>1, <2>1, SideGivesEnd
    <2> QED
      BY <2>1, <2>2 DEF SourceEnd, TargetEnd
  <1> QED
    BY <1>2, <1>3 DEF ShownTerms

\* Every variable of the target is bound, to a term of the source's side.
LEMMA TargetsShown ==
    ASSUME NEW s, NEW t, NEW S, NEW sim, Finishes(s, t, S, sim)
    PROVE  /\ VariablesOf(t.terms) \subseteq DOMAIN SideOf(S, "target")
           /\ VariablesOf(ShownTerms(t.terms, SideOf(S, "target"))) \subseteq VariablesOf(s.terms)
  <1> DEFINE b == ShownTerms(t.terms, SideOf(S, "target"))
             n == Len(s.terms)
  <1>1. PlainAtoms(s, t) /\ Kept(s, t, S) /\ TargetsBound(t, S, n)
    BY FinishedIsSolved DEF Finishes, PairsDone
  <1>2. DOMAIN b = 1 .. n /\ \A i \in 1 .. n : b[i] = TargetEnd(t, S, i).term
    BY ShownEnds
  <1>3. ASSUME NEW i \in 1 .. n
        PROVE  /\ TargetOf(t, i) \in AtomTerms(s, t)
               /\ TargetOf(t, i).label = "target" /\ TargetOf(t, i).term = t.terms[i]
    BY <1>1, AtomTermsAre
  <1>4. /\ ToSet(t.terms) = { t.terms[i] : i \in 1 .. n } /\ ToSet(t.terms) \subseteq Plain
        /\ ToSet(s.terms) \subseteq Plain
    BY <1>1, SeqElements DEF PlainAtoms
  <1>5. VariablesOf(t.terms) \subseteq DOMAIN SideOf(S, "target")
    <2> SUFFICES ASSUME NEW i \in 1 .. n, t.terms[i].kind = "variable"
                 PROVE  t.terms[i] \in DOMAIN SideOf(S, "target")
      BY <1>4, VariablesOfPlain
    <2>1. TargetOf(t, i) \in DOMAIN S
      BY <1>1, <1>3 DEF TargetsBound, HasKind
    <2> QED
      BY <1>1, <1>3, <2>1, SideGivesEnd
  <1>6. ASSUME NEW i \in 1 .. n
        PROVE  b[i] \in Plain /\ (b[i].kind = "variable" => b[i] \in ToSet(s.terms))
    <2> DEFINE e == TargetEnd(t, S, i)
    <2>1. e \in AtomTerms(s, t) /\ (e \in Values(s, t) \/ e = TargetOf(t, i))
      BY <1>1, <1>3, EndIsKept DEF TargetEnd
    <2>2. HasKind(e, "variable") => e \in Values(s, t)
      <3> SUFFICES ASSUME e = TargetOf(t, i), HasKind(e, "variable") PROVE FALSE
        BY <2>1
      <3>1. TargetOf(t, i) \in DOMAIN S
        BY <1>1 DEF TargetsBound
      <3>2. End(S, TargetOf(t, i)) \notin DOMAIN S
        BY <3>1 DEF Finishes
      <3> QED
        BY <3>1, <3>2 DEF TargetEnd
    <2>3. e.term \in Plain /\ (e.label = "source" => e.term \in ToSet(s.terms))
      BY <1>1, <2>1, AtomTermsType
    <2>4. b[i] = e.term
      BY <1>2
    <2> HIDE DEF b, e
    <2> QED
      BY <2>2, <2>3, <2>4 DEF Values, HasKind
  <1> HIDE DEF b
  <1>7. ToSet(b) = { b[i] : i \in 1 .. n }
    BY <1>2 DEF ToSet
  <1>8. ToSet(b) \subseteq Plain
    BY <1>6, <1>7
  <1>9. VariablesOf(b) = { x \in ToSet(b) : x.kind = "variable" }
    BY <1>8, VariablesOfPlain
  <1>10. VariablesOf(s.terms) = { x \in ToSet(s.terms) : x.kind = "variable" }
    BY <1>4, VariablesOfPlain
  <1>11. VariablesOf(b) \subseteq VariablesOf(s.terms)
    BY <1>6, <1>7, <1>9, <1>10
  <1> QED
    BY <1>5, <1>11 DEF b

LEMMA LeastIsMin ==
    ASSUME NEW X \in SUBSET Int, NEW x, IsLeast(x, X)
    PROVE  x = Min(X)
  <1>1. x \in X /\ x \in Int /\ \A y \in X : x <= y
    BY DEF IsLeast
  <1>2. Min(X) \in X /\ \A y \in X : Min(X) <= y
    BY <1>1 DEF Min
  <1>3. Min(X) \in Int
    BY <1>2
  <1>4. x <= Min(X) /\ Min(X) <= x
    BY <1>1, <1>2
  <1> QED
    BY <1>1, <1>3, <1>4

\* Where the two sides differ are two constants, and the similarity is the least.
Differences(s, t, a, b, sim) ==
    LET differ == { i \in DOMAIN a : a[i] # b[i] }
    IN /\ \A i \in differ : a[i].kind = "constant" /\ b[i].kind = "constant"
       /\ sim = Min({ Similarity[a[i].symbol, b[i].symbol] : i \in differ }
                      \cup {Similarity[s.predicate, t.predicate]})

\* The same as bounds.
IsAlike(s, t, a, b, sim) ==
    /\ DOMAIN s.terms = DOMAIN t.terms
    /\ sim <= Similarity[s.predicate, t.predicate]
    /\ \A i \in DOMAIN s.terms :
          \/ a[i] = b[i]
          \/ /\ a[i].kind = "constant" /\ b[i].kind = "constant"
             /\ sim <= Similarity[a[i].symbol, b[i].symbol]

LEMMA DifferencesShown ==
    ASSUME NEW s, NEW t, NEW S, NEW sim, Finishes(s, t, S, sim)
    PROVE  /\ Differences(s, t, ShownTerms(s.terms, SideOf(S, "source")),
                          ShownTerms(t.terms, SideOf(S, "target")), sim)
           /\ IsAlike(s, t, ShownTerms(s.terms, SideOf(S, "source")),
                      ShownTerms(t.terms, SideOf(S, "target")), sim)
  <1> DEFINE a == ShownTerms(s.terms, SideOf(S, "source"))
             b == ShownTerms(t.terms, SideOf(S, "target"))
             differ == { i \in DOMAIN a : a[i] # b[i] }
             n == Len(s.terms)
  <1>1. PlainAtoms(s, t) /\ Kept(s, t, S) /\ Solved(s, t, S, n, sim)
    BY FinishedIsSolved
  <1>2. PICK h, R : /\ IsForest(S, h, R) /\ Matched(s, t, R, n)
                    /\ IsLeast(sim, Similarities(s, t, R, n))
    BY <1>1 DEF Solved
  <1>3. Typed(S)
    BY <1>1, KeptIsTyped
  <1>4. \A l \in LabeledTerms : R[l] = End(S, l) /\ R[l] \in LabeledTerms
    BY <1>2, <1>3, EndInForest
  <1>5. \A i \in 1 .. n : SourceOf(s, i) \in LabeledTerms /\ TargetOf(t, i) \in LabeledTerms
    BY <1>1, AtomTermsAre
  <1>6. /\ DOMAIN a = 1 .. n
        /\ \A i \in 1 .. n : /\ a[i] = R[SourceOf(s, i)].term
                             /\ b[i] = R[TargetOf(t, i)].term
    BY <1>4, <1>5, ShownEnds DEF SourceEnd, TargetEnd
  <1> HIDE DEF a, b
  <1>7. differ = Differ(s, t, R, n)
    BY <1>6 DEF Differ
  <1>8. ASSUME NEW i \in differ PROVE a[i].kind = "constant" /\ b[i].kind = "constant"
    BY <1>2, <1>6, <1>8 DEF Matched, BothConstant, HasKind
  <1>9. \A i \in differ : Similarity[a[i].symbol, b[i].symbol] = Compared(s, t, R, i)
    BY <1>6 DEF Compared
  <1>10. { Similarity[a[i].symbol, b[i].symbol] : i \in differ }
           = { Compared(s, t, R, i) : i \in Differ(s, t, R, n) }
    BY <1>7, <1>9
  <1>11. n \in 0 .. Len(s.terms)
    BY <1>1, AtomTermsAre
  <1>12. Similarities(s, t, R, n) \subseteq Int
    BY <1>1, <1>2, <1>4, <1>11, SimilaritiesAreInts
  <1>13. sim = Min(Similarities(s, t, R, n))
    BY <1>2, <1>12, LeastIsMin
  <1>14. DOMAIN s.terms = 1 .. n /\ DOMAIN t.terms = 1 .. n
    <2>1. /\ s.terms \in Seq(Plain) /\ t.terms \in Seq(Plain)
          /\ Len(s.terms) = Len(t.terms)
      BY <1>1 DEF PlainAtoms
    <2> QED
      BY <2>1, SeqElements
  <1>15. \A i \in differ : sim <= Similarity[a[i].symbol, b[i].symbol]
    BY <1>2, <1>7, <1>9 DEF IsLeast, Similarities
  <1>16. sim <= Similarity[s.predicate, t.predicate]
    BY <1>2 DEF IsLeast, Similarities
  <1>17. IsAlike(s, t, a, b, sim)
    BY <1>6, <1>8, <1>14, <1>15, <1>16 DEF IsAlike
  <1> QED
    BY <1>8, <1>10, <1>13, <1>17 DEF Differences, Similarities, a, b

\* UnifierUnifies, of the substitutions of two sides and a similarity.
UnifiedBy(s, t, a, b, sim) ==
    /\ VariablesOf(t.terms) \subseteq DOMAIN b
    /\ VariablesOf(ShownTerms(t.terms, b)) \subseteq VariablesOf(s.terms)
    /\ Differences(s, t, ShownTerms(s.terms, a), ShownTerms(t.terms, b), sim)
    /\ sim > InitialThreshold

UnifiedByAnswer ==
    UnifiedBy(source, target, answer.source_substitutions,
              answer.target_substitutions, answer.similarity)

LEMMA UnifierUnifiesIs ==
    UnifierUnifies <=> (Unified /\ Flat(source) /\ Flat(target) => UnifiedByAnswer)
  <1> DEFINE a == ShownTerms(source.terms, answer.source_substitutions)
             b == ShownTerms(target.terms, answer.target_substitutions)
             differ == { i \in DOMAIN a : a[i] # b[i] }
  <1>1. UnifierUnifies <=>
          (Unified /\ Flat(source) /\ Flat(target) =>
             /\ \A i \in differ : a[i].kind = "constant" /\ b[i].kind = "constant"
             /\ VariablesOf(target.terms) \subseteq DOMAIN answer.target_substitutions
             /\ VariablesOf(b) \subseteq VariablesOf(source.terms)
             /\ answer.similarity =
                   Min({ Similarity[a[i].symbol, b[i].symbol] : i \in differ }
                         \cup {Similarity[source.predicate, target.predicate]})
             /\ answer.similarity > InitialThreshold)
    BY Zenon DEF UnifierUnifies, ShownTerms
  <1>2. UnifiedByAnswer <=>
          /\ VariablesOf(target.terms) \subseteq DOMAIN answer.target_substitutions
          /\ VariablesOf(b) \subseteq VariablesOf(source.terms)
          /\ Differences(source, target, a, b, answer.similarity)
          /\ answer.similarity > InitialThreshold
    BY Zenon DEF UnifiedByAnswer, UnifiedBy
  <1> HIDE DEF a, b
  <1>3. Differences(source, target, a, b, answer.similarity) <=>
          /\ \A i \in differ : a[i].kind = "constant" /\ b[i].kind = "constant"
          /\ answer.similarity =
                Min({ Similarity[a[i].symbol, b[i].symbol] : i \in differ }
                      \cup {Similarity[source.predicate, target.predicate]})
    BY Zenon DEF Differences
  <1> HIDE DEF differ
  <1> QED
    BY <1>1, <1>2, <1>3, Zenon
-----------------------------------------------------------------------------
(***************************************************************************)
(* The types of unify's variables, whatever the atoms.                     *)
(***************************************************************************)

UnifyTypes == UnifyTypeOK /\ IsFiniteSet(DOMAIN substitutions)

\* The substitutions of an answer.
SubsType(subs) ==
    \A v \in DOMAIN subs : v \in Terms /\ v.kind = "variable" /\ subs[v] \in Terms

ResultType(result) ==
    result.some => /\ result.similarity \in Int
                   /\ SubsType(result.source_substitutions)
                   /\ SubsType(result.target_substitutions)

LEMMA NoResult == ResultType(None) /\ ~ None.some
  BY DEF ResultType, None

LEMMA FunctionIsSeq ==
    ASSUME NEW T, NEW n \in Nat, NEW f \in [1 .. n -> T]
    PROVE  f \in Seq(T) /\ Len(f) = n
  OBVIOUS

LEMMA HeadAndTail ==
    ASSUME NEW T, NEW q \in Seq(T), q # <<>>
    PROVE  Head(q) \in T /\ Tail(q) \in Seq(T)
  OBVIOUS

LEMMA LastAndFront ==
    ASSUME NEW T, NEW q \in Seq(T), q # <<>>
    PROVE  Last(q) \in T /\ Front(q) \in Seq(T)
  BY DEF Last, Front

LEMMA ResolvedType ==
    ASSUME UnifyTypes, NEW l \in LabeledTerms
    PROVE  Resolved(l) \in LabeledTerms
  <1>1. /\ IsFiniteSet(DOMAIN substitutions)
        /\ \A v \in DOMAIN substitutions : substitutions[v] \in LabeledTerms
    BY DEF UnifyTypes, UnifyTypeOK
  <1>2. End(substitutions, l) \in LabeledTerms
    BY <1>1, EndStays
  <1> QED
    BY <1>2, ResolvedIsEnd

LEMMA PoppedType ==
    ASSUME UnifyTypes, pairs_stack # <<>>
    PROVE  /\ SourceTerm \in LabeledTerms /\ TargetTerm \in LabeledTerms
           /\ Front(pairs_stack) \in Seq(PairType)
  <1>1. Popped \in PairType /\ Front(pairs_stack) \in Seq(PairType)
    BY LastAndFront DEF UnifyTypes, UnifyTypeOK, Popped
  <1>2. Popped.source \in LabeledTerms /\ Popped.target \in LabeledTerms
    BY <1>1 DEF PairType
  <1> QED
    BY <1>1, <1>2, ResolvedType DEF SourceTerm, TargetTerm

LEMMA InsertTypes ==
    ASSUME UnifyTypes, pairs_stack # <<>>, NEW var \in LabeledTerms,
           HasKind(var, "variable"), NEW l \in LabeledTerms, Insert(var, l)
    PROVE  UnifyTypes'
  <1>1. substitutions' = With(substitutions, var, l)
    BY BoundIsWith DEF Insert
  <1>2. DOMAIN substitutions' = DOMAIN substitutions \cup {var}
    BY <1>1 DEF With
  <1>3. \A v \in DOMAIN substitutions' :
           substitutions'[v] = IF v = var THEN l ELSE substitutions[v]
    BY <1>1, <1>2 DEF With
  <1>4. IsFiniteSet(DOMAIN substitutions')
    BY <1>2, FS_AddElement DEF UnifyTypes
  <1>5. pairs_stack' \in Seq(PairType)
    BY PoppedType DEF Insert
  <1>6. UNCHANGED <<pc, rest, similarity, threshold, answer>>
    BY DEF Insert
  <1> QED
    BY <1>2, <1>3, <1>4, <1>5, <1>6 DEF UnifyTypes, UnifyTypeOK, HasKind

LEMMA ZippedType ==
    ASSUME NEW T, NEW s \in Seq(T), NEW t \in Seq(T), Len(s) = Len(t)
    PROVE  ZippedTerms(s, t) \in Seq([source : T, target : T])
  <1>1. /\ DOMAIN s = 1 .. Len(s) /\ Len(s) \in Nat
        /\ \A i \in 1 .. Len(s) : s[i] \in T /\ t[i] \in T
    BY SeqElements
  <1>2. ZippedTerms(s, t) \in [1 .. Len(s) -> [source : T, target : T]]
    BY <1>1 DEF ZippedTerms
  <1> QED
    BY <1>1, <1>2, FunctionIsSeq

\* What a call is given.
LEMMA AtomsAre ==
    ASSUME NEW s \in Atoms, NEW t \in Atoms
    PROVE  /\ s.terms \in Seq(Terms) /\ t.terms \in Seq(Terms)
           /\ Similarity[s.predicate, t.predicate] \in Int
  BY UnifyAssumption DEF Atoms

LEMMA CallTypes ==
    ASSUME UnifyTypes, NEW s \in Atoms, NEW t \in Atoms, Call(s, t)
    PROVE  UnifyTypes'
  <1>1. /\ DOMAIN substitutions' = {} /\ threshold' = threshold
        /\ similarity' \in Int
    BY AtomsAre DEF Call, FreshSubstitutions, NoSubstitutions
  <1>2. /\ pc' \in {"pairs", "returned"}
        /\ rest' \in Seq([source : Terms, target : Terms])
        /\ pairs_stack' \in Seq(PairType)
        /\ answer' = answer \/ answer' = None
    <2>1. CASE \/ Len(s.terms) # Len(t.terms)
               \/ Similarity[s.predicate, t.predicate] <= threshold
      <3>1. /\ pc' = "returned" /\ rest' = <<>> /\ pairs_stack' = <<>>
            /\ answer' = None
        BY <2>1 DEF Call, Return
      <3> QED
        BY <3>1
    <2>2. CASE ~ (\/ Len(s.terms) # Len(t.terms)
                  \/ Similarity[s.predicate, t.predicate] <= threshold)
      <3>1. /\ pc' = "pairs" /\ rest' = ZippedTerms(s.terms, t.terms)
            /\ pairs_stack' = <<>> /\ answer' = answer
        BY <2>2 DEF Call
      <3>2. ZippedTerms(s.terms, t.terms) \in Seq([source : Terms, target : Terms])
        BY <2>2, AtomsAre, ZippedType
      <3> QED
        BY <3>1, <3>2
    <2> QED
      BY <2>1, <2>2
  <1> QED
    BY <1>1, <1>2, NoResult, FS_EmptySet DEF UnifyTypes, UnifyTypeOK

LEMMA ReturnTypes ==
    ASSUME UnifyTypes, NEW result, Return(result), ResultType(result), UNCHANGED <<substitutions, threshold>>,
           similarity' \in Int
    PROVE  UnifyTypes'
  <1>1. pc' = "returned" /\ rest' = <<>> /\ pairs_stack' = <<>> /\ answer' = result
    BY DEF Return
  <1>2. ResultType(answer')
    BY <1>1
  <1> QED
    BY <1>1, <1>2 DEF UnifyTypes, UnifyTypeOK, ResultType, SubsType

LEMMA NextTermsTypes ==
    ASSUME UnifyTypes, NextTerms
    PROVE  UnifyTypes'
  <1>1. /\ rest \in Seq([source : Terms, target : Terms]) /\ rest # <<>>
        /\ Head(rest) \in [source : Terms, target : Terms]
        /\ rest' \in Seq([source : Terms, target : Terms])
    BY HeadAndTail DEF UnifyTypes, UnifyTypeOK, NextTerms
  <1>2. /\ LabeledTerm("source", Head(rest).source) \in LabeledTerms
        /\ LabeledTerm("target", Head(rest).target) \in LabeledTerms
    BY <1>1 DEF LabeledTerm, LabeledTerms, Labels
  <1>3. pairs_stack' \in Seq(PairType)
    BY <1>2 DEF NextTerms, PairType
  <1> QED
    BY <1>1, <1>3 DEF UnifyTypes, UnifyTypeOK, NextTerms

LEMMA MatchConstantsTypes ==
    ASSUME UnifyTypes, MatchConstants
    PROVE  UnifyTypes'
  <1> DEFINE x == Similarity[SourceTerm.term.symbol, TargetTerm.term.symbol]
  <1>1. pairs_stack # <<>> /\ BothConstant(SourceTerm, TargetTerm)
    BY DEF MatchConstants, Popping, BothConstant
  <1>2. x \in Int /\ Front(pairs_stack) \in Seq(PairType)
    BY <1>1, PoppedType, SimilarityIsInt
  <1>3. LowestSimilarity(similarity, x) \in Int
    BY <1>2 DEF LowestSimilarity, UnifyTypes, UnifyTypeOK
  <1>4. similarity' \in Int
    BY <1>3 DEF MatchConstants, UnifyTypes, UnifyTypeOK
  <1>5. UNCHANGED <<substitutions, threshold>>
    BY DEF MatchConstants
  <1>6. Return(None) \/ (pairs_stack' = Front(pairs_stack) /\ UNCHANGED <<pc, rest, answer>>)
    BY DEF MatchConstants
  <1>7. CASE Return(None)
    BY <1>4, <1>5, <1>7, ReturnTypes, NoResult
  <1>8. CASE pairs_stack' = Front(pairs_stack) /\ UNCHANGED <<pc, rest, answer>>
    BY <1>2, <1>4, <1>5, <1>8 DEF UnifyTypes, UnifyTypeOK
  <1> QED
    BY <1>6, <1>7, <1>8

LEMMA MatchFunctionsTypes ==
    ASSUME UnifyTypes, MatchFunctions
    PROVE  UnifyTypes'
  <1> DEFINE s == SourceTerm
             t == TargetTerm
             pairs == [i \in DOMAIN s.term.terms |->
                        [source |-> LabeledTerm(s.label, s.term.terms[i]),
                         target |-> LabeledTerm(t.label, t.term.terms[i])]]
  <1>1. /\ s \in LabeledTerms /\ t \in LabeledTerms
        /\ Front(pairs_stack) \in Seq(PairType)
    BY PoppedType DEF MatchFunctions, Popping
  <1>2. UNCHANGED <<similarity, substitutions, threshold>>
    BY DEF MatchFunctions
  <1>3. \/ Return(None)
        \/ /\ Len(s.term.terms) = Len(t.term.terms)
           /\ pairs_stack' = Front(pairs_stack) \o pairs
           /\ UNCHANGED <<pc, rest, answer>>
    BY DEF MatchFunctions
  <1>4. CASE Return(None)
    <2>1. similarity' \in Int
      BY <1>2 DEF UnifyTypes, UnifyTypeOK
    <2> QED
      BY <1>2, <1>4, <2>1, ReturnTypes, NoResult
  <1>5. CASE /\ Len(s.term.terms) = Len(t.term.terms)
             /\ pairs_stack' = Front(pairs_stack) \o pairs
             /\ UNCHANGED <<pc, rest, answer>>
    <2>0. s.term \in Terms /\ t.term \in Terms /\ s.label \in Labels /\ t.label \in Labels
      BY <1>1 DEF LabeledTerms
    <2>1. s.term.terms \in Seq(Terms) /\ t.term.terms \in Seq(Terms)
      BY <2>0, UnifyAssumption
    <2> DEFINE n == Len(s.term.terms)
    <2>2. /\ n \in Nat /\ DOMAIN s.term.terms = 1 .. n
          /\ \A i \in 1 .. n : s.term.terms[i] \in Terms /\ t.term.terms[i] \in Terms
      BY <1>5, <2>1, SeqElements
    <2> HIDE DEF s, t
    <2>3. \A i \in 1 .. n : pairs[i] \in PairType
      BY <2>0, <2>2 DEF LabeledTerm, LabeledTerms, PairType
    <2>4. pairs \in Seq(PairType)
      <3>1. pairs \in [1 .. n -> PairType]
        BY <2>2, <2>3
      <3> QED
        BY <2>2, <3>1, FunctionIsSeq
    <2> HIDE DEF pairs
    <2>5. pairs_stack' \in Seq(PairType)
      BY <1>1, <1>5, <2>4
    <2> QED
      BY <1>2, <1>5, <2>5 DEF UnifyTypes, UnifyTypeOK
  <1> QED
    BY <1>3, <1>4, <1>5

LEMMA SidesTyped ==
    ASSUME UnifyTypes
    PROVE  SubsType(SubstitutionsOf("source")) /\ SubsType(SubstitutionsOf("target"))
  <1> SUFFICES ASSUME NEW label PROVE SubsType(SubstitutionsOf(label))
    OBVIOUS
  <1> SUFFICES ASSUME NEW t \in DOMAIN SubstitutionsOf(label)
      PROVE  t \in Terms /\ t.kind = "variable" /\ SubstitutionsOf(label)[t] \in Terms
    BY DEF SubsType
  <1>1. PICK v \in DOMAIN substitutions : v.label = label /\ t = v.term
    BY DEF SubstitutionsOf
  <1>2. v \in LabeledTerms /\ HasKind(v, "variable")
    BY DEF UnifyTypes, UnifyTypeOK
  <1>3. v = LabeledTerm(label, t) /\ t \in Terms /\ t.kind = "variable"
    BY <1>1, <1>2 DEF LabeledTerms, LabeledTerm, HasKind
  <1>4. Resolved(v) \in LabeledTerms
    BY <1>2, ResolvedType
  <1>5. SubstitutionsOf(label)[t] = Resolved(v).term
    BY <1>3 DEF SubstitutionsOf
  <1> QED
    BY <1>3, <1>4, <1>5 DEF LabeledTerms

LEMMA TypesStep ==
    ASSUME UnifyTypes, [UnifyNext]_unifyVars
    PROVE  UnifyTypes'
  <1>0. SourceAtoms \subseteq Atoms /\ TargetAtoms \subseteq Atoms
    BY UnifyAssumption
  <1>1. ASSUME NEW s \in Atoms, NEW t \in Atoms, Call(s, t)
        PROVE  UnifyTypes'
    BY <1>1, CallTypes
  <1>2. CASE NextTerms
    BY <1>2, NextTermsTypes
  <1>3. CASE MatchConstants
    BY <1>3, MatchConstantsTypes
  <1>4. CASE MatchVariables
    <2>1. /\ pairs_stack # <<>> /\ HasKind(TargetTerm, "variable")
          /\ Insert(TargetTerm, SourceTerm)
      BY <1>4 DEF MatchVariables, Popping, BindTargetToSource
    <2> QED
      BY <2>1, PoppedType, InsertTypes
  <1>5. ASSUME NEW var \in LabeledTerms, NEW l \in LabeledTerms, BindVariable(var, l)
        PROVE  UnifyTypes'
    <2>1. pairs_stack # <<>> /\ HasKind(var, "variable")
      BY <1>5 DEF BindVariable, Popping
    <2>2. CASE Insert(var, l)
      BY <2>1, <2>2, InsertTypes
    <2>3. CASE Return(None) /\ UNCHANGED <<source, target, similarity, substitutions, threshold>>
      <3>1. similarity' \in Int
        BY <2>3 DEF UnifyTypes, UnifyTypeOK
      <3> QED
        BY <2>3, <3>1, ReturnTypes, NoResult
    <2> QED
      BY <1>5, <2>2, <2>3 DEF BindVariable
  <1>6. CASE BindVariable(SourceTerm, TargetTerm) \/ BindVariable(TargetTerm, SourceTerm)
    <2>1. pairs_stack # <<>>
      BY <1>6 DEF BindVariable, Popping
    <2> QED
      BY <1>5, <1>6, <2>1, PoppedType
  <1>7. CASE MatchFunctions
    BY <1>7, MatchFunctionsTypes
  <1>8. CASE PassOver
    <2>1. pairs_stack' \in Seq(PairType)
      BY <1>8, PoppedType DEF PassOver, Popping
    <2> QED
      BY <1>8, <2>1 DEF PassOver, UnifyTypes, UnifyTypeOK
  <1>9. CASE ReturnUnification
    <2> DEFINE a == SubstitutionsOf("source")
               b == SubstitutionsOf("target")
               result == [some |-> TRUE, source_substitutions |-> a,
                          target_substitutions |-> b, similarity |-> similarity]
    <2>1. UNCHANGED <<similarity, substitutions, threshold>> /\ Return(result)
      BY <1>9 DEF ReturnUnification
    <2>2. similarity \in Int
      BY DEF UnifyTypes, UnifyTypeOK
    <2>3. SubsType(a) /\ SubsType(b)
      BY SidesTyped
    <2> HIDE DEF a, b
    <2>4. ResultType(result)
      BY <2>2, <2>3 DEF ResultType
    <2> HIDE DEF result
    <2> QED
      BY <2>1, <2>2, <2>4, ReturnTypes
  <1>10. CASE GetStuck
    BY <1>10 DEF GetStuck, UnifyTypes, UnifyTypeOK
  <1>11. CASE RaiseThreshold
    <2>1. threshold' \in Int
            /\ UNCHANGED <<pc, rest, pairs_stack, similarity, substitutions, answer>>
      BY <1>11, UnifyAssumption DEF RaiseThreshold
    <2> QED
      BY <2>1 DEF UnifyTypes, UnifyTypeOK
  <1>12. CASE UNCHANGED unifyVars
    BY <1>12 DEF unifyVars, UnifyTypes, UnifyTypeOK
  <1> QED
    BY <1>0, <1>1, <1>2, <1>3, <1>4, <1>6, <1>7, <1>8, <1>9, <1>10, <1>11, <1>12
       DEF UnifyNext, UnifyStep

LEMMA TypesInit == UnifyInit => UnifyTypes
  <1> SUFFICES ASSUME UnifyInit PROVE UnifyTypes
    OBVIOUS
  <1>1. DOMAIN substitutions = {}
    BY DEF UnifyInit, NoSubstitutions
  <1>2. InitialThreshold \in Int
    BY UnifyAssumption
  <1>3. rest = <<>> /\ pairs_stack = <<>> /\ pc = "idle" /\ ~ answer.some
    BY NoResult DEF UnifyInit
  <1> QED
    BY <1>1, <1>2, <1>3, FS_EmptySet DEF UnifyInit, UnifyTypes, UnifyTypeOK

\* Every variable of a unification stays in its type, whatever the atoms are: what
\* is on the stack is a pair of the terms' parts, and only variables are bound.
THEOREM UnifyTypesHold == UnifySpec => []UnifyTypeOK
  <1>1. UnifyTypes /\ [UnifyNext]_unifyVars => UnifyTypes'
    BY TypesStep
  <1>2. UnifyTypes => UnifyTypeOK
    BY DEF UnifyTypes
  <1> QED
    BY TypesInit, <1>1, <1>2, PTL DEF UnifySpec
-----------------------------------------------------------------------------
(***************************************************************************)
(* The steps of a call with atoms without functions.                       *)
(***************************************************************************)

Plainly == Flat(source) /\ Flat(target)

\* How many pairs unify_terms has gone on to.
Taken == Len(source.terms) - Len(rest)

RestIs(s, t, r) ==
    /\ Len(r) <= Len(s.terms)
    /\ \A i \in 1 .. Len(r) :
          r[i] = [source |-> s.terms[Len(s.terms) - Len(r) + i],
                  target |-> t.terms[Len(s.terms) - Len(r) + i]]

\* On the stack there is the last pair at most.
StackIs(s, t, n) == <<[source |-> SourceOf(s, n), target |-> TargetOf(t, n)]>>

AtPairs ==
    /\ PlainAtoms(source, target)
    /\ InitialThreshold < similarity
    /\ RestIs(source, target, rest)
    /\ \/ /\ pairs_stack = <<>>
          /\ PairsDone(source, target, substitutions, Taken, similarity)
       \/ /\ Taken >= 1 /\ pairs_stack = StackIs(source, target, Taken)
          /\ PairsDone(source, target, substitutions, Taken - 1, similarity)

AnswerIsFlat ==
    Unified /\ Plainly =>
        /\ FlatAnswer(source, target, answer.source_substitutions,
                      answer.target_substitutions)
        /\ IsAlike(source, target, ShownTerms(source.terms, answer.source_substitutions),
                   ShownTerms(target.terms, answer.target_substitutions),
                   answer.similarity)

UnifyInv ==
    /\ UnifyTypes
    /\ InitialThreshold <= threshold
    /\ pc = "pairs" /\ Plainly => AtPairs
    /\ UnifierUnifies
    /\ UnifierIsMostGeneral
    /\ AnswerIsFlat

LEMMA FlatIsPlain ==
    ASSUME NEW s \in Atoms, NEW t \in Atoms, Flat(s), Flat(t),
           Len(s.terms) = Len(t.terms)
    PROVE  PlainAtoms(s, t)
  <1>1. ASSUME NEW q \in Seq(Terms), \A u \in ToSet(q) : u.kind # "function"
        PROVE  q \in Seq(Plain)
    <2>1. Len(q) \in Nat /\ \A i \in 1 .. Len(q) : q[i] \in Plain
      BY <1>1, SeqElements DEF Plain
    <2> QED
      BY <2>1
  <1> QED
    BY <1>1, AtomsAre DEF PlainAtoms, Flat

\* A step that stays in the loop changes nothing that the properties are about.
LEMMA NotReturned ==
    ASSUME pc' # "returned"
    PROVE  UnifierUnifies' /\ UnifierIsMostGeneral' /\ AnswerIsFlat'
  BY DEF UnifierUnifies, UnifierIsMostGeneral, AnswerIsFlat, Unified

\* unify gives up: there is no solution, or the predicates are not similar.
LEMMA GivesUp ==
    ASSUME Return(None),
           Plainly' => \/ Solutions(source, target)' = {}
                       \/ (Similarity[source.predicate, target.predicate] <= threshold)'
    PROVE  UnifierUnifies' /\ UnifierIsMostGeneral' /\ AnswerIsFlat' /\ pc' = "returned"
  <1>1. pc' = "returned" /\ answer' = None /\ ~ answer'.some
    BY DEF Return, None
  <1> QED
    BY <1>1 DEF UnifierUnifies, UnifierIsMostGeneral, AnswerIsFlat, Unified, Plainly

LEMMA CallInv ==
    ASSUME UnifyInv, NEW s \in Atoms, NEW t \in Atoms, Call(s, t)
    PROVE  UnifyInv'
  <1> DEFINE sim == Similarity[s.predicate, t.predicate]
  <1>1. UnifyTypes' /\ threshold' = threshold /\ InitialThreshold <= threshold
    BY CallTypes DEF UnifyInv, Call
  <1>2. source' = s /\ target' = t /\ similarity' = sim /\ substitutions' = NoSubstitutions
    BY DEF Call, FreshSubstitutions
  <1>3. CASE Len(s.terms) # Len(t.terms) \/ sim <= threshold
    <2>1. Return(None)
      BY <1>3 DEF Call
    <2>2. Len(s.terms) # Len(t.terms) => Solutions(s, t) = {}
      BY DEF Solutions, Agree
    <2>3. \/ Solutions(source, target)' = {}
          \/ (Similarity[source.predicate, target.predicate] <= threshold)'
      BY <1>1, <1>2, <1>3, <2>2
    <2> QED
      BY <1>1, <2>1, <2>3, GivesUp DEF UnifyInv
  <1>4. CASE ~ (Len(s.terms) # Len(t.terms) \/ sim <= threshold)
    <2>1. pc' = "pairs" /\ rest' = ZippedTerms(s.terms, t.terms) /\ pairs_stack' = <<>>
      BY <1>4 DEF Call
    <2>2. /\ Len(s.terms) = Len(t.terms) /\ Len(s.terms) \in Nat
          /\ DOMAIN s.terms = 1 .. Len(s.terms)
      BY <1>4, AtomsAre, SeqElements
    <2>3. Len(rest') = Len(s.terms) /\ RestIs(s, t, rest')
      BY <2>1, <2>2 DEF RestIs, ZippedTerms
    <2>4. sim \in Int /\ InitialThreshold \in Int /\ threshold \in Int
      BY AtomsAre, UnifyAssumption DEF UnifyInv, UnifyTypes, UnifyTypeOK
    <2>5. InitialThreshold < sim
      <3>1. ~ (sim <= threshold)
        BY <1>4
      <3> HIDE DEF sim
      <3> QED
        BY <1>1, <2>4, <3>1
    <2>6. ASSUME Plainly' PROVE AtPairs'
      <3>1. PlainAtoms(s, t)
        BY <1>2, <2>2, <2>6, FlatIsPlain DEF Plainly
      <3>2. PairsDone(s, t, NoSubstitutions, 0, sim)
        BY <3>1, NothingDone
      <3>3. Taken' = 0
        <4>1. Taken' = Len(source'.terms) - Len(rest')
          BY DEF Taken
        <4>2. source'.terms = s.terms
          BY <1>2
        <4>3. Taken' = Len(s.terms) - Len(s.terms)
          BY <2>3, <4>1, <4>2
        <4> QED
          BY <2>2, <4>3
      <3> QED
        BY <1>2, <2>1, <2>3, <2>5, <3>1, <3>2, <3>3 DEF AtPairs
    <2> QED
      BY <1>1, <2>1, <2>6, NotReturned DEF UnifyInv
  <1> QED
    BY <1>3, <1>4

LEMMA NextTermsInv ==
    ASSUME UnifyInv, NextTerms
    PROVE  UnifyInv'
  <1>1. UnifyTypes' /\ InitialThreshold <= threshold'
    BY NextTermsTypes DEF UnifyInv, NextTerms
  <1>2. /\ pc = "pairs" /\ pc' = "pairs" /\ pairs_stack = <<>> /\ rest # <<>>
        /\ rest' = Tail(rest)
        /\ UNCHANGED <<source, target, similarity, substitutions>>
    BY DEF NextTerms
  <1>3. ASSUME Plainly' PROVE AtPairs'
    <2>1. Plainly
      BY <1>2, <1>3 DEF Plainly
    <2>2. /\ PlainAtoms(source, target) /\ InitialThreshold < similarity
          /\ RestIs(source, target, rest)
          /\ PairsDone(source, target, substitutions, Taken, similarity)
      BY <1>2, <2>1 DEF UnifyInv, AtPairs, StackIs
    <2> DEFINE n == Len(source.terms)
               m == Len(rest)
    <2>3. /\ m \in Nat /\ m >= 1 /\ n \in Nat /\ m <= n
          /\ Len(Tail(rest)) = m - 1 /\ Head(rest) = rest[1]
          /\ \A i \in 1 .. m - 1 : Tail(rest)[i] = rest[i + 1]
      <3>1. rest \in Seq([source : Terms, target : Terms])
        BY DEF UnifyInv, UnifyTypes, UnifyTypeOK
      <3>2. n \in Nat /\ m <= n
        BY <2>2, AtomTermsAre DEF RestIs
      <3> QED
        BY <1>2, <3>1, <3>2
    <2>4. \A i \in 1 .. m : rest[i] = [source |-> source.terms[n - m + i],
                                       target |-> target.terms[n - m + i]]
      BY <2>2 DEF RestIs
    <2>5. Taken' = Taken + 1 /\ Taken = n - m /\ Taken' >= 1 /\ Taken' - 1 = Taken
      BY <1>2, <2>3 DEF Taken
    <2> HIDE DEF n, m
    <2>6. Head(rest) = [source |-> source.terms[Taken'], target |-> target.terms[Taken']]
      <3>1. 1 \in 1 .. m /\ n - m + 1 = Taken'
        BY <2>3, <2>5
      <3> QED
        BY <2>3, <2>4, <3>1
    <2>7. pairs_stack' = StackIs(source, target, Taken')
      BY <2>6 DEF NextTerms, StackIs, SourceOf, TargetOf
    <2>8. RestIs(source, target, rest')
      <3>1. ASSUME NEW i \in 1 .. m - 1
            PROVE  Tail(rest)[i] = [source |-> source.terms[n - (m - 1) + i],
                                    target |-> target.terms[n - (m - 1) + i]]
        <4>1. i + 1 \in 1 .. m /\ n - m + (i + 1) = n - (m - 1) + i
          BY <2>3
        <4> QED
          BY <2>3, <2>4, <4>1
      <3>2. Len(rest') = m - 1 /\ m - 1 <= n
        BY <1>2, <2>3
      <3> QED
        BY <1>2, <3>1, <3>2 DEF RestIs, n
    <2> QED
      BY <1>2, <2>2, <2>5, <2>7, <2>8 DEF AtPairs
  <1> QED
    BY <1>1, <1>2, <1>3, NotReturned DEF UnifyInv

\* The pair that is popped.
LEMMA PoppedIs ==
    ASSUME UnifyInv, Popping, Plainly
    PROVE  /\ AtPairs /\ PlainAtoms(source, target) /\ Taken - 1 + 1 = Taken
           /\ Front(pairs_stack) = <<>>
           /\ SourceTerm = SourceEnd(source, substitutions, Taken)
           /\ TargetTerm = TargetEnd(target, substitutions, Taken)
           /\ Meets(source, target, substitutions, Taken - 1)
           /\ PairsDone(source, target, substitutions, Taken - 1, similarity)
           /\ Kept(source, target, substitutions)
  <1>1. AtPairs /\ pairs_stack # <<>>
    BY DEF Popping, UnifyInv
  <1>2. /\ PlainAtoms(source, target) /\ Taken >= 1
        /\ pairs_stack = StackIs(source, target, Taken)
        /\ PairsDone(source, target, substitutions, Taken - 1, similarity)
    BY <1>1 DEF AtPairs
  <1>3. /\ Popped.source = SourceOf(source, Taken) /\ Popped.target = TargetOf(target, Taken)
        /\ Front(pairs_stack) = <<>>
    BY <1>2 DEF StackIs, Popped, Last, Front
  <1>4. /\ SourceTerm = SourceEnd(source, substitutions, Taken)
        /\ TargetTerm = TargetEnd(target, substitutions, Taken)
    BY <1>3, ResolvedIsEnd DEF SourceTerm, TargetTerm, SourceEnd, TargetEnd
  <1>5. SourceTerm \notin DOMAIN substitutions /\ TargetTerm \notin DOMAIN substitutions
    BY DEF Popping, ChainEnds, SourceTerm, TargetTerm
  <1>6. Len(rest) \in Nat /\ Len(source.terms) \in Nat
    <2>1. rest \in Seq([source : Terms, target : Terms])
      BY DEF UnifyInv, UnifyTypes, UnifyTypeOK
    <2> QED
      BY <1>2, <2>1, AtomTermsAre
  <1>7. Taken - 1 \in 0 .. Len(source.terms) - 1 /\ (Taken - 1) + 1 = Taken
    BY <1>2, <1>6 DEF Taken
  <1> QED
    BY <1>1, <1>2, <1>3, <1>4, <1>5, <1>7 DEF Meets, PairsDone

\* A pair is done.
LEMMA PairInv ==
    ASSUME UnifyInv, Popping, Plainly, UnifyTypes',
           pairs_stack' = Front(pairs_stack),
           UNCHANGED <<source, target, pc, rest, threshold>>,
           InitialThreshold < similarity',
           PairsDone(source, target, substitutions', Taken, similarity')
    PROVE  UnifyInv'
  <1>1. AtPairs /\ Front(pairs_stack) = <<>> /\ pc = "pairs"
    BY PoppedIs DEF Popping
  <1>2. Taken' = Taken
    BY DEF Taken
  <1>3. AtPairs'
    BY <1>1, <1>2 DEF AtPairs
  <1>4. pc' # "returned"
    BY <1>1
  <1> QED
    BY <1>3, <1>4, NotReturned DEF UnifyInv

\* Of atoms with functions the types are all that is said.
LEMMA NotPlainInv ==
    ASSUME UnifyTypes', (InitialThreshold <= threshold)', ~ Plainly'
    PROVE  UnifyInv'
  BY DEF UnifyInv, UnifierUnifies, UnifierIsMostGeneral, AnswerIsFlat, Plainly

LEMMA MatchConstantsInv ==
    ASSUME UnifyInv, MatchConstants
    PROVE  UnifyInv'
  <1>1. UnifyTypes' /\ (InitialThreshold <= threshold)' /\ InitialThreshold <= threshold
    BY MatchConstantsTypes DEF UnifyInv, MatchConstants
  <1>2. /\ UNCHANGED <<source, target, substitutions, threshold>> /\ Popping
        /\ BothConstant(SourceTerm, TargetTerm)
    BY DEF MatchConstants, BothConstant
  <1>3. CASE ~ Plainly
    BY <1>1, <1>2, <1>3, NotPlainInv DEF Plainly
  <1>4. CASE Plainly
    <2> DEFINE n == Taken - 1
               c == SourceTerm.term
               d == TargetTerm.term
               x == LowestSimilarity(similarity, Similarity[c.symbol, d.symbol])
    <2>1. /\ PlainAtoms(source, target) /\ n + 1 = Taken /\ InitialThreshold < similarity
          /\ SourceTerm = SourceEnd(source, substitutions, n + 1)
          /\ TargetTerm = TargetEnd(target, substitutions, n + 1)
          /\ Meets(source, target, substitutions, n)
          /\ PairsDone(source, target, substitutions, n, similarity)
          /\ Kept(source, target, substitutions)
      BY <1>2, <1>4, PoppedIs DEF AtPairs
    <2> HIDE DEF n
    <2>2. MeetsConstants(source, target, substitutions, n)
      BY <1>2, <2>1 DEF MeetsConstants
    <2>3. PairsDone(source, target, substitutions, Taken,
                    SimilarityWith(source, target, substitutions, n, similarity))
      BY <2>1, <2>2, ConstantsDone
    <2>4. SimilarityWith(source, target, substitutions, n, similarity)
            = IF c = d THEN similarity ELSE x
      BY <2>1 DEF SimilarityWith
    <2>5. CASE c = d
      <3>1. similarity' = similarity /\ pairs_stack' = Front(pairs_stack) /\ UNCHANGED <<pc, rest>>
        BY <2>5 DEF MatchConstants
      <3> QED
        BY <1>1, <1>2, <1>4, <2>1, <2>3, <2>4, <2>5, <3>1, PairInv
    <2>6. CASE c # d /\ x <= threshold
      <3>1. Return(None)
        BY <2>6 DEF MatchConstants
      <3>2. Solutions(source, target) = {}
        BY <2>1, <2>2, <2>6, DifferentConstants
      <3>3. Solutions(source, target)' = {}
        BY <1>2, <3>2
      <3> QED
        BY <1>1, <3>1, <3>3, GivesUp DEF UnifyInv
    <2>7. CASE c # d /\ ~ (x <= threshold)
      <3>1. similarity' = x /\ pairs_stack' = Front(pairs_stack) /\ UNCHANGED <<pc, rest>>
        BY <2>7 DEF MatchConstants
      <3>2. similarity' \in Int /\ threshold \in Int /\ InitialThreshold \in Int
        BY <1>1, UnifyAssumption DEF UnifyInv, UnifyTypes, UnifyTypeOK
      <3>3. InitialThreshold < similarity'
        <4> HIDE DEF x
        <4> QED
          BY <1>1, <2>7, <3>1, <3>2
      <3> QED
        BY <1>1, <1>2, <1>4, <2>3, <2>4, <2>7, <3>1, <3>3, PairInv
    <2> QED
      BY <2>5, <2>6, <2>7
  <1> QED
    BY <1>3, <1>4

\* A variable is bound to the other end of the pair.
LEMMA InsertInv ==
    ASSUME UnifyInv, Popping, Plainly, UnifyTypes', NEW var, NEW l, Insert(var, l),
           Binds(source, target, substitutions, Taken - 1, var, l)
    PROVE  UnifyInv'
  <1>1. /\ substitutions' = With(substitutions, var, l) /\ pairs_stack' = Front(pairs_stack)
        /\ UNCHANGED <<source, target, pc, rest, similarity, threshold>>
    BY BoundIsWith DEF Insert
  <1> DEFINE n == Taken - 1
  <1>2. /\ PlainAtoms(source, target) /\ n + 1 = Taken /\ InitialThreshold < similarity
        /\ PairsDone(source, target, substitutions, n, similarity)
        /\ Binds(source, target, substitutions, n, var, l)
    BY PoppedIs DEF AtPairs
  <1> HIDE DEF n
  <1>3. PairsDone(source, target, With(substitutions, var, l), n + 1, similarity)
    BY <1>2, BindingDone
  <1>4. PairsDone(source, target, substitutions', Taken, similarity')
    BY <1>1, <1>2, <1>3
  <1> QED
    BY <1>1, <1>2, <1>4, PairInv

LEMMA MatchVariablesAtv ==
    ASSUME UnifyInv, MatchVariables
    PROVE  UnifyInv'
  <1>1. /\ Popping /\ HasKind(TargetTerm, "variable") /\ Insert(TargetTerm, SourceTerm)
        /\ pairs_stack # <<>> /\ UnifyTypes
    BY DEF MatchVariables, BindTargetToSource, Popping, UnifyInv
  <1>2. UnifyTypes' /\ UNCHANGED <<source, target, threshold>>
    BY <1>1, PoppedType, InsertTypes DEF Insert
  <1>3. CASE ~ Plainly
    BY <1>2, <1>3, NotPlainInv DEF Plainly, UnifyInv
  <1>4. CASE Plainly
    <2> DEFINE n == Taken - 1
    <2>1. /\ PlainAtoms(source, target) /\ n + 1 = Taken
          /\ SourceTerm = SourceEnd(source, substitutions, n + 1)
          /\ TargetTerm = TargetEnd(target, substitutions, n + 1)
          /\ Meets(source, target, substitutions, n)
          /\ Kept(source, target, substitutions)
      BY <1>1, <1>4, PoppedIs
    <2> HIDE DEF n
    <2>2. SourceTerm \in Values(source, target)
      BY <2>1, MeetsAre
    <2>3. Binds(source, target, substitutions, n, TargetTerm, SourceTerm)
      BY <1>1, <2>1, <2>2 DEF Binds
    <2> QED
      BY <1>1, <1>2, <1>4, <2>3, InsertInv DEF n
  <1> QED
    BY <1>3, <1>4

\* Without functions the occurrence check looks at nothing: the other term is a
\* constant.
LEMMA NothingIsMet ==
    ASSUME UnifyTypes, NEW l, HasKind(l, "constant"), l.term.terms = <<>>,
           \A label : LabeledTerm(label, l.term) \notin DOMAIN substitutions,
           NEW var
    PROVE  Met(OtherTerm(var, l)) = {}
  <1> DEFINE k == OtherTerm(var, l)
             n == Cardinality(DOMAIN substitutions) + 1
  <1>1. IsFiniteSet(DOMAIN substitutions) /\ n \in Nat /\ n # 0
    BY FS_CardinalityType DEF UnifyTypes
  <1>2. k \notin DOMAIN substitutions /\ k.term = l.term
    BY DEF OtherTerm, LabeledTerm
  <1>3. Resolved(k) = k
    BY <1>1, <1>2, EndOfRoot, ResolvedIsEnd
  <1>4. ComparisonVars(k) = {}
    <2>1. ~ HasKind(k, "variable") /\ ToSet(k.term.terms) = {}
      BY <1>2 DEF HasKind, ToSet
    <2> QED
      BY <2>1 DEF ComparisonVars
  <1> DEFINE Further(B) == B \cup UNION { ComparisonVars(Resolved(substitutions[v])) :
                                          v \in B \cap DOMAIN substitutions }
             IsMet(B) == B = [i \in 0 .. n |->
                                IF i = 0 THEN ComparisonVars(Resolved(k))
                                ELSE Further(B[i - 1])]
             By == CHOOSE B : IsMet(B)
  <1>5. Met(k) = By[n]
    BY DEF Met
  <1>6. Further({}) = {}
    OBVIOUS
  <1> HIDE DEF Further
  <1>7. IsMet(By)
    <2> DEFINE B == [i \in 0 .. n |-> {}]
    <2>1. \A i \in 0 .. n : i # 0 => B[i - 1] = {}
      BY <1>1
    <2>2. B = [i \in 0 .. n |-> IF i = 0 THEN ComparisonVars(Resolved(k))
                                ELSE Further(B[i - 1])]
      BY <1>3, <1>4, <1>6, <2>1
    <2> HIDE DEF B, k, n
    <2>3. IsMet(B)
      BY <2>2
    <2> HIDE DEF IsMet
    <2> QED
      BY <2>3
  <1> HIDE DEF By, n
  <1> DEFINE Some == { i \in 0 .. n : By[i] # {} }
  <1>8. Some = {}
    <2> SUFFICES ASSUME Some # {} PROVE FALSE
      OBVIOUS
    <2>0. Some \in SUBSET Nat
      BY <1>1
    <2>1. PICK i \in Some : \A j \in Some : i <= j
      <3> HIDE DEF Some
      <3> QED
        BY <2>0, LeastNumber
    <2>2. i \in 0 .. n /\ By[i] = IF i = 0 THEN ComparisonVars(Resolved(k)) ELSE Further(By[i - 1])
      BY <1>7
    <2>3. i # 0
      BY <1>3, <1>4, <2>1, <2>2
    <2>4. By[i - 1] = {}
      BY <1>1, <2>1, <2>2, <2>3
    <2> QED
      BY <1>6, <2>1, <2>2, <2>3, <2>4
  <1> QED
    BY <1>1, <1>5, <1>8

Ends(var, l) ==
    \/ var = SourceTerm /\ l = TargetTerm
    \/ var = TargetTerm /\ l = SourceTerm

LEMMA BindVariableInv ==
    ASSUME UnifyInv, NEW var, NEW l, BindVariable(var, l), Ends(var, l)
    PROVE  UnifyInv'
  <1>1. /\ Popping /\ HasKind(var, "variable") /\ ~ HasKind(l, "variable")
        /\ pairs_stack # <<>> /\ UnifyTypes
        /\ var \in LabeledTerms /\ l \in LabeledTerms
    BY PoppedType DEF BindVariable, Popping, UnifyInv, Ends
  <1>2. \/ Insert(var, l)
        \/ /\ Occurs(var, l) /\ Return(None)
           /\ UNCHANGED <<source, target, similarity, substitutions, threshold>>
    BY DEF BindVariable
  <1>3. UNCHANGED <<source, target, threshold>>
    BY <1>2 DEF Insert
  <1>4. UnifyTypes'
    <2>1. similarity \in Int
      BY <1>1 DEF UnifyTypes, UnifyTypeOK
    <2> QED
      BY <1>1, <1>2, <2>1, InsertTypes, ReturnTypes, NoResult
  <1>5. CASE ~ Plainly
    BY <1>3, <1>4, <1>5, NotPlainInv DEF Plainly, UnifyInv
  <1>6. CASE Plainly
    <2> DEFINE n == Taken - 1
    <2>1. /\ PlainAtoms(source, target) /\ n + 1 = Taken
          /\ SourceTerm = SourceEnd(source, substitutions, n + 1)
          /\ TargetTerm = TargetEnd(target, substitutions, n + 1)
          /\ Meets(source, target, substitutions, n)
          /\ Kept(source, target, substitutions)
      BY <1>1, <1>6, PoppedIs
    <2> HIDE DEF n
    <2>2. SourceTerm \in AtomTerms(source, target) /\ TargetTerm \in AtomTerms(source, target)
      BY <2>1, MeetsAre DEF Values
    <2>3. l \in Values(source, target)
      BY <1>1, <2>2 DEF Values, Ends
    <2>4. Binds(source, target, substitutions, n, var, l)
      BY <1>1, <2>1, <2>3 DEF Binds, Ends
    <2>5. HasKind(l, "constant") /\ l.term.terms = <<>>
      BY <1>1, <2>1, <2>2, AtomTermsType, PlainTerm DEF HasKind, Ends
    <2>6. \A label : LabeledTerm(label, l.term) \notin DOMAIN substitutions
      BY <2>1, <2>5 DEF Kept, HasKind, LabeledTerm
    <2>7. Met(OtherTerm(var, l)) = {}
      BY <1>1, <2>5, <2>6, NothingIsMet
    <2>8. Insert(var, l)
      BY <1>2, <2>7 DEF Occurs
    <2> QED
      BY <1>1, <1>4, <1>6, <2>4, <2>8, InsertInv DEF n
  <1> QED
    BY <1>5, <1>6

\* Functions are popped only if an atom has one.
LEMMA NoFunctions ==
    ASSUME UnifyInv, Popping, Plainly
    PROVE  ~ HasKind(SourceTerm, "function") /\ ~ HasKind(TargetTerm, "function")
  <1> DEFINE n == Taken - 1
  <1>1. /\ PlainAtoms(source, target) /\ n + 1 = Taken
        /\ SourceTerm = SourceEnd(source, substitutions, n + 1)
        /\ TargetTerm = TargetEnd(target, substitutions, n + 1)
        /\ Meets(source, target, substitutions, n)
        /\ Kept(source, target, substitutions)
    BY PoppedIs
  <1> HIDE DEF n
  <1>2. SourceTerm \in AtomTerms(source, target) /\ TargetTerm \in AtomTerms(source, target)
    BY <1>1, MeetsAre DEF Values
  <1> QED
    BY <1>1, <1>2, AtomTermsType, PlainTerm DEF HasKind

LEMMA FunctionsInv ==
    ASSUME UnifyInv, MatchFunctions \/ PassOver, UnifyTypes'
    PROVE  UnifyInv'
  <1>1. Popping /\ UNCHANGED <<source, target, threshold>>
    BY DEF MatchFunctions, PassOver
  <1>2. HasKind(SourceTerm, "function") \/ HasKind(TargetTerm, "function")
    BY DEF MatchFunctions, PassOver, HasKind
  <1>3. ~ Plainly'
    BY <1>1, <1>2, NoFunctions DEF Plainly
  <1> QED
    BY <1>1, <1>3, NotPlainInv DEF UnifyInv

LEMMA ReturnUnificationInv ==
    ASSUME UnifyInv, ReturnUnification, UnifyTypes'
    PROVE  UnifyInv'
  <1>1. /\ UNCHANGED <<source, target, similarity, substitutions, threshold>>
        /\ pc = "pairs" /\ pairs_stack = <<>> /\ rest = <<>>
        /\ \A v \in DOMAIN substitutions : ChainEnds(v)
        /\ pc' = "returned"
        /\ answer' = [some |-> TRUE,
                      source_substitutions |-> SubstitutionsOf("source"),
                      target_substitutions |-> SubstitutionsOf("target"),
                      similarity |-> similarity]
    BY DEF ReturnUnification, Return, AllPairsDone
  <1>2. CASE ~ Plainly
    BY <1>1, <1>2, NotPlainInv DEF Plainly, UnifyInv
  <1>3. CASE Plainly
    <2> DEFINE a == SideOf(substitutions, "source")
               b == SideOf(substitutions, "target")
               s == source.terms
               t == target.terms
    <2>1. /\ answer'.some /\ answer'.similarity = similarity
          /\ answer'.source_substitutions = a /\ answer'.target_substitutions = b
      BY <1>1, SideIsOf
    <2>2. AtPairs /\ PlainAtoms(source, target) /\ InitialThreshold < similarity
      BY <1>1, <1>3 DEF UnifyInv, AtPairs
    <2>3. Taken = Len(source.terms)
      <3>1. Len(rest) = 0 /\ Len(source.terms) \in Nat
        BY <1>1, <2>2, AtomTermsAre
      <3> QED
        BY <3>1 DEF Taken
    <2>4. PairsDone(source, target, substitutions, Len(source.terms), similarity)
      BY <1>1, <2>2, <2>3 DEF AtPairs, StackIs
    <2>5. Finishes(source, target, substitutions, similarity)
      BY <1>1, <2>2, <2>4, ResolvedIsEnd DEF Finishes, ChainEnds
    <2>6. /\ VariablesOf(t) \subseteq DOMAIN b
          /\ VariablesOf(ShownTerms(t, b)) \subseteq VariablesOf(s)
      BY <2>5, TargetsShown
    <2>7. /\ Differences(source, target, ShownTerms(s, a), ShownTerms(t, b), similarity)
          /\ IsAlike(source, target, ShownTerms(s, a), ShownTerms(t, b), similarity)
      BY <2>5, DifferencesShown
    <2>8. UnifiedBy(source, target, a, b, similarity)
      <3>1. similarity \in Int /\ InitialThreshold \in Int
        BY UnifyAssumption DEF UnifyInv, UnifyTypes, UnifyTypeOK
      <3> HIDE DEF a, b
      <3> QED
        BY <2>2, <2>6, <2>7, <3>1 DEF UnifiedBy
    <2>9. \A p \in Solutions(source, target) : IsInstance(a, p[1], p[1]) /\ IsInstance(b, p[2], p[1])
      <3>1. "source" \in Labels /\ "target" \in Labels
        BY DEF Labels
      <3>2. ASSUME NEW p \in Solutions(source, target), NEW label \in Labels
            PROVE  IsInstance(SideOf(substitutions, label),
                              IF label = "source" THEN p[1] ELSE p[2], p[1])
        BY <2>5, FinishedIsGeneral
      <3> QED
        BY <3>1, <3>2
    <2>12. FlatAnswer(source, target, a, b)
      BY <2>5, FinishedIsFlat
    <2> HIDE DEF a, b
    <2>13. AnswerIsFlat'
      BY <1>1, <2>1, <2>7, <2>12 DEF AnswerIsFlat
    <2>10. UnifierUnifies'
      <3>1. UnifiedByAnswer'
        BY <1>1, <2>1, <2>8 DEF UnifiedByAnswer
      <3> QED
        BY <3>1, UnifierUnifiesIs, PTL
    <2>11. UnifierIsMostGeneral'
      BY <1>1, <2>1, <2>9 DEF UnifierIsMostGeneral
    <2> QED
      BY <1>1, <2>10, <2>11, <2>13 DEF UnifyInv
  <1> QED
    BY <1>2, <1>3

LEMMA UnifyInvStep ==
    ASSUME UnifyInv, [UnifyNext]_unifyVars
    PROVE  UnifyInv'
  <1>0. SourceAtoms \subseteq Atoms /\ TargetAtoms \subseteq Atoms
    BY UnifyAssumption
  <1>1. UnifyTypes'
    BY TypesStep DEF UnifyInv
  <1>2. ASSUME NEW s \in Atoms, NEW t \in Atoms, Call(s, t)
        PROVE  UnifyInv'
    BY <1>2, CallInv
  <1>3. CASE NextTerms
    BY <1>3, NextTermsInv
  <1>4. CASE MatchConstants
    BY <1>4, MatchConstantsInv
  <1>5. CASE MatchVariables
    BY <1>5, MatchVariablesAtv
  <1>6. CASE BindVariable(SourceTerm, TargetTerm) \/ BindVariable(TargetTerm, SourceTerm)
    <2>0. Ends(SourceTerm, TargetTerm) /\ Ends(TargetTerm, SourceTerm)
      BY DEF Ends
    <2>1. CASE BindVariable(SourceTerm, TargetTerm)
      BY <2>1, <2>0, BindVariableInv
    <2>2. CASE BindVariable(TargetTerm, SourceTerm)
      BY <2>2, <2>0, BindVariableInv
    <2> QED
      BY <1>6, <2>1, <2>2
  <1>7. CASE MatchFunctions \/ PassOver
    BY <1>1, <1>7, FunctionsInv
  <1>8. CASE ReturnUnification
    BY <1>1, <1>8, ReturnUnificationInv
  <1>9. CASE GetStuck
    <2>1. pc' = "stuck" /\ UNCHANGED threshold
      BY <1>9 DEF GetStuck
    <2> QED
      BY <1>1, <2>1, NotReturned DEF UnifyInv
  <1>10. CASE RaiseThreshold
    <2>1. /\ pc # "returned" /\ threshold' \in Int /\ threshold < threshold'
          /\ UNCHANGED <<source, target, pc, rest, pairs_stack, similarity, substitutions>>
      BY <1>10, UnifyAssumption DEF RaiseThreshold
    <2>2. InitialThreshold \in Int /\ threshold \in Int /\ InitialThreshold <= threshold
      BY UnifyAssumption DEF UnifyInv, UnifyTypes, UnifyTypeOK
    <2>3. InitialThreshold <= threshold'
      BY <2>1, <2>2
    <2>4. (pc = "pairs" /\ Plainly => AtPairs)'
      BY <2>1 DEF UnifyInv, AtPairs, Plainly, Taken
    <2> QED
      BY <1>1, <2>1, <2>3, <2>4, NotReturned DEF UnifyInv
  <1>11. CASE UNCHANGED unifyVars
    <2>1. (pc = "pairs" /\ Plainly => AtPairs)' /\ (InitialThreshold <= threshold)'
      BY <1>11 DEF unifyVars, UnifyInv, AtPairs, Plainly, Taken
    <2>2. UnifierUnifies'
      <3>1. UnifiedByAnswer' <=> UnifiedByAnswer
        BY <1>11 DEF unifyVars, UnifiedByAnswer
      <3>2. (Unified /\ Flat(source) /\ Flat(target))' <=> (Unified /\ Flat(source) /\ Flat(target))
        BY <1>11 DEF unifyVars, Unified
      <3>3. UnifierUnifies
        BY DEF UnifyInv
      <3> QED
        BY <3>1, <3>2, <3>3, UnifierUnifiesIs, PTL
    <2>3. UnifierIsMostGeneral'
      BY <1>11 DEF unifyVars, UnifyInv, UnifierIsMostGeneral
    <2>4. AnswerIsFlat'
      BY <1>11 DEF unifyVars, UnifyInv, AnswerIsFlat, Unified, Plainly
    <2> QED
      BY <1>1, <2>1, <2>2, <2>3, <2>4 DEF UnifyInv
  <1> QED
    BY <1>0, <1>2, <1>3, <1>4, <1>5, <1>6, <1>7, <1>8, <1>9, <1>10, <1>11
       DEF UnifyNext, UnifyStep

LEMMA UnifyInvInit == UnifyInit => UnifyInv
  <1>1. UnifyInit => UnifyTypes
    BY TypesInit
  <1>2. UnifyInit => pc = "idle" /\ threshold = InitialThreshold
    BY DEF UnifyInit
  <1>3. InitialThreshold <= InitialThreshold
    <2>1. InitialThreshold \in Int
      BY UnifyAssumption
    <2> QED
      BY <2>1
  <1> QED
    BY <1>1, <1>2, <1>3 DEF UnifyInv, UnifierUnifies, UnifierIsMostGeneral,
                            AnswerIsFlat, Unified

LEMMA UnifyInvHolds == UnifySpec => []UnifyInv
  BY UnifyInvInit, UnifyInvStep, PTL DEF UnifySpec

\* What unify returns for any two atoms without functions makes them the same but
\* for constants that are similar, with every variable of the target bound to the
\* source's side and the least of the similarities, whatever threads do to the
\* threshold meanwhile: the chains of substitutions are never cut, bound over or
\* followed to a variable that is bound itself.
THEOREM UnificationUnifies == UnifySpec => []UnifierUnifies
  <1>1. UnifyInv => UnifierUnifies
    BY DEF UnifyInv
  <1> QED
    BY UnifyInvHolds, <1>1, PTL

\* For any two atoms without functions, unify gives up only if they have no common
\* instance or too little similarity, and what it returns is most general: every
\* common instance is an instance of it.
THEOREM UnificationIsMostGeneral == UnifySpec => []UnifierIsMostGeneral
  <1>1. UnifyInv => UnifierIsMostGeneral
    BY DEF UnifyInv
  <1> QED
    BY UnifyInvHolds, <1>1, PTL
-----------------------------------------------------------------------------
(***************************************************************************)
(* A call of resolve: no literal of the target is passed over.             *)
(***************************************************************************)

\* Lists, whatever they are of.
IsList(q) == q \in Seq(ToSet(q))

LEMMA ListAppend ==
    ASSUME NEW q, IsList(q), NEW e
    PROVE  /\ IsList(Append(q, e)) /\ Len(q) \in Nat /\ DOMAIN q = 1 .. Len(q)
           /\ DOMAIN Append(q, e) = 1 .. Len(q) + 1
           /\ \A i \in 1 .. Len(q) : Append(q, e)[i] = q[i]
           /\ Append(q, e)[Len(q) + 1] = e
  <1> DEFINE T == ToSet(q) \cup {e}
             r == Append(q, e)
  <1>1. q \in Seq(ToSet(q))
    BY DEF IsList
  <1>2. Len(q) \in Nat /\ DOMAIN q = 1 .. Len(q) /\ \A i \in 1 .. Len(q) : q[i] \in T
    BY <1>1, SeqElements
  <1> HIDE DEF T
  <1>3. q \in Seq(T)
    BY <1>1, <1>2
  <1>7. e \in T
    BY DEF T
  <1>4. /\ r \in Seq(T) /\ Len(r) = Len(q) + 1 /\ DOMAIN r = 1 .. Len(q) + 1
        /\ \A i \in 1 .. Len(q) : r[i] = q[i]
        /\ r[Len(q) + 1] = e
    BY <1>3, <1>7
  <1> HIDE DEF r
  <1>5. \A i \in 1 .. Len(r) : r[i] \in ToSet(r)
    BY <1>2, <1>4 DEF ToSet
  <1>6. r \in Seq(ToSet(r))
    BY <1>2, <1>4, <1>5
  <1> QED
    BY <1>2, <1>4, <1>6 DEF IsList, r

\* What resolve is called with: lists of literals, the source's with a first one.
CallOf(s, t) ==
    /\ s \in Seq(LiteralType) /\ s # <<>>
    /\ t \in Seq(LiteralType)

LEMMA FirstLiteral ==
    ASSUME NEW q \in Seq(LiteralType), q # <<>>
    PROVE  /\ Head(q) \in LiteralType /\ Head(q).atom \in Atoms
           /\ Head(q) \in ToSet(q)
  <1>1. Head(q) = q[1] /\ 1 \in 1 .. Len(q) /\ Head(q) \in LiteralType
    BY HeadAndTail
  <1>2. Head(q) \in ToSet(q)
    BY <1>1, SeqElements
  <1> QED
    BY <1>1, <1>2 DEF LiteralType

\* A literal that must be resolved upon.
Due(k) ==
    /\ SourceLiteral.polarity # clauses.target[k].polarity
    /\ Similarity[SourceLiteral.atom.predicate, clauses.target[k].atom.predicate] > threshold
    /\ Solutions(SourceLiteral.atom, clauses.target[k].atom) # {}

StepFor(k) == \E i \in DOMAIN steps : steps[i].literal = k

ResolveInv ==
    /\ UnifyInv
    /\ CallOf(clauses.source, clauses.target)
    /\ literal \in 1 .. Len(clauses.target) + 1
    /\ pc \in {"pairs", "returned"} =>
          /\ literal <= Len(clauses.target)
          /\ source = SourceLiteral.atom /\ target = TargetLiteral.atom
          /\ SourceLiteral.polarity # TargetLiteral.polarity
    /\ IsList(steps)
    /\ \A i \in DOMAIN steps : steps[i].literal \in 1 .. literal - 1
    /\ \A i, j \in DOMAIN steps : i < j => steps[i].literal < steps[j].literal
    /\ FlatClauses => \A k \in 1 .. literal - 1 : Due(k) => StepFor(k)

\* How far resolve is.
LEMMA LiteralIs ==
    ResolveInv => /\ Len(clauses.target) \in Nat
                  /\ DOMAIN clauses.target = 1 .. Len(clauses.target)
                  /\ literal \in Nat /\ 1 <= literal /\ literal <= Len(clauses.target) + 1
                  /\ threshold \in Int
  <1> SUFFICES ASSUME ResolveInv
               PROVE  /\ Len(clauses.target) \in Nat
                      /\ DOMAIN clauses.target = 1 .. Len(clauses.target)
                      /\ literal \in Nat /\ 1 <= literal /\ literal <= Len(clauses.target) + 1
                      /\ threshold \in Int
    OBVIOUS
  <1>1. CallOf(clauses.source, clauses.target) /\ literal \in 1 .. Len(clauses.target) + 1
    BY DEF ResolveInv
  <1>2. Len(clauses.target) \in Nat /\ DOMAIN clauses.target = 1 .. Len(clauses.target)
    BY <1>1, SeqElements DEF CallOf
  <1>3. threshold \in Int
    BY DEF ResolveInv, UnifyInv, UnifyTypes, UnifyTypeOK
  <1> QED
    BY <1>1, <1>2, <1>3

\* What is compared.
LEMMA LiteralsAre ==
    ASSUME ResolveInv, NEW k \in 1 .. Len(clauses.target)
    PROVE  /\ SourceLiteral.atom \in Atoms /\ clauses.target[k].atom \in Atoms
           /\ SourceLiteral \in ToSet(clauses.source)
           /\ clauses.target[k] \in ToSet(clauses.target)
           /\ Similarity[SourceLiteral.atom.predicate,
                         clauses.target[k].atom.predicate] \in Int
  <1>1. CallOf(clauses.source, clauses.target)
    BY DEF ResolveInv
  <1>2. clauses.target[k] \in ToSet(clauses.target)
    BY <1>1, SeqElements DEF CallOf
  <1>3. SourceLiteral \in ToSet(clauses.source) /\ SourceLiteral.atom \in Atoms
    BY <1>1, FirstLiteral DEF CallOf, SourceLiteral
  <1>4. clauses.target[k].atom \in Atoms
    <2>1. clauses.target[k] \in LiteralType
      BY <1>1, SeqElements DEF CallOf
    <2> QED
      BY <2>1 DEF LiteralType
  <1> QED
    BY <1>2, <1>3, <1>4, AtomsAre

LEMMA SkipPolarityInv ==
    ASSUME ResolveInv, SkipPolarity
    PROVE  ResolveInv'
  <1>1. /\ pc = "idle" /\ literal <= Len(clauses.target) /\ literal' = literal + 1
        /\ SourceLiteral.polarity = clauses.target[literal].polarity
        /\ UNCHANGED <<unifyVars, clauses, steps>>
    BY DEF SkipPolarity, MoreLiterals, TargetLiteral
  <1>2. UnifyInv'
    BY <1>1, UnifyInvStep DEF ResolveInv
  <1>3. pc' = "idle" /\ threshold' = threshold
    BY <1>1 DEF unifyVars
  <1>4. /\ literal' \in 1 .. Len(clauses.target) + 1
        /\ 1 .. literal' - 1 = (1 .. literal - 1) \cup {literal}
    BY <1>1, LiteralIs
  <1>5. ~ Due(literal)
    BY <1>1 DEF Due
  <1>6. \A k : Due(k)' <=> Due(k)
    BY <1>1, <1>3 DEF Due, SourceLiteral
  <1>7. FlatClauses' => \A k \in 1 .. literal' - 1 : Due(k)' => StepFor(k)'
    BY <1>1, <1>4, <1>5, <1>6 DEF ResolveInv, FlatClauses, StepFor
  <1>8. \A i \in DOMAIN steps : steps[i].literal \in 1 .. literal' - 1
    BY <1>4 DEF ResolveInv
  <1> QED
    BY <1>1, <1>2, <1>3, <1>4, <1>7, <1>8 DEF ResolveInv

LEMMA UnifyLiteralsInv ==
    ASSUME ResolveInv, UnifyLiterals
    PROVE  ResolveInv'
  <1>1. /\ pc = "idle" /\ literal <= Len(clauses.target)
        /\ SourceLiteral.polarity # TargetLiteral.polarity
        /\ Call(SourceLiteral.atom, TargetLiteral.atom)
        /\ UNCHANGED <<clauses, literal, steps>>
    BY DEF UnifyLiterals, MoreLiterals, resolveVars
  <1>2. SourceLiteral.atom \in Atoms /\ TargetLiteral.atom \in Atoms
    <2>1. literal \in 1 .. Len(clauses.target)
      BY <1>1, LiteralIs
    <2> QED
      BY <2>1, LiteralsAre DEF TargetLiteral
  <1>3. UnifyInv'
    BY <1>1, <1>2, CallInv DEF ResolveInv
  <1>4. /\ source' = SourceLiteral.atom /\ target' = TargetLiteral.atom
        /\ threshold' = threshold
    BY <1>1 DEF Call
  <1>5. SourceLiteral' = SourceLiteral /\ TargetLiteral' = TargetLiteral
    BY <1>1 DEF SourceLiteral, TargetLiteral
  <1>6. \A k : Due(k)' <=> Due(k)
    BY <1>1, <1>4, <1>5 DEF Due
  <1>7. FlatClauses' => \A k \in 1 .. literal' - 1 : Due(k)' => StepFor(k)'
    BY <1>1, <1>6 DEF ResolveInv, FlatClauses, StepFor
  <1> QED
    BY <1>1, <1>3, <1>4, <1>5, <1>7 DEF ResolveInv

LEMMA NoteAnswerInv ==
    ASSUME ResolveInv, NoteAnswer
    PROVE  ResolveInv'
  <1>1. /\ pc = "returned" /\ pc' = "idle" /\ answer' = None
        /\ literal' = literal + 1
        /\ UNCHANGED <<clauses, source, target, rest, pairs_stack, similarity,
                       substitutions, threshold>>
    BY DEF NoteAnswer, NextLiteral
  <1>2. /\ literal <= Len(clauses.target)
        /\ source = SourceLiteral.atom /\ target = clauses.target[literal].atom
    BY <1>1 DEF ResolveInv, TargetLiteral
  <1>3. UnifyInv'
    <2>1. UnifyTypes' /\ (InitialThreshold <= threshold)'
      BY <1>1, NoResult DEF ResolveInv, UnifyInv, UnifyTypes, UnifyTypeOK
    <2> QED
      BY <1>1, <2>1, NotReturned DEF UnifyInv
  <1>4. /\ literal' \in 1 .. Len(clauses.target) + 1
        /\ literal \in Nat \ {0} /\ literal' - 1 = literal
        /\ 1 .. literal' - 1 = (1 .. literal - 1) \cup {literal}
    BY <1>1, <1>2, LiteralIs
  <1>5. SourceLiteral' = SourceLiteral
    BY <1>1 DEF SourceLiteral
  <1>6. \A k : Due(k)' <=> Due(k)
    BY <1>1, <1>5 DEF Due
  <1>7. FlatClauses' <=> FlatClauses
    BY <1>1 DEF FlatClauses
  <1>8. \A i \in DOMAIN steps : steps[i].literal \in 1 .. literal - 1
    BY DEF ResolveInv
  <1>9. CASE ~ answer.some
    <2>1. steps' = steps
      BY <1>9 DEF NoteAnswer
    <2>2. FlatClauses => ~ Due(literal)
      <3> SUFFICES ASSUME FlatClauses, Due(literal) PROVE FALSE
        OBVIOUS
      <3>0. literal \in 1 .. Len(clauses.target)
        BY <1>2, <1>4
      <3>1. SourceLiteral \in ToSet(clauses.source)
              /\ clauses.target[literal] \in ToSet(clauses.target)
        BY <3>0, LiteralsAre
      <3>2. Flat(source) /\ Flat(target)
        BY <1>2, <3>1 DEF FlatClauses
      <3>3. \/ Solutions(source, target) = {}
            \/ Similarity[source.predicate, target.predicate] <= threshold
        BY <1>1, <1>9, <3>2 DEF ResolveInv, UnifyInv, UnifierIsMostGeneral
      <3> DEFINE x == Similarity[SourceLiteral.atom.predicate,
                                 clauses.target[literal].atom.predicate]
      <3>4. x \in Int /\ threshold \in Int
        BY <3>0, LiteralIs, LiteralsAre
      <3>5. x > threshold /\ Solutions(SourceLiteral.atom, clauses.target[literal].atom) # {}
        BY DEF Due
      <3>6. x <= threshold
        BY <1>2, <3>3, <3>5
      <3> HIDE DEF x
      <3> QED
        BY <3>4, <3>5, <3>6
    <2>3. FlatClauses' => \A k \in 1 .. literal' - 1 : Due(k)' => StepFor(k)'
      BY <1>4, <1>6, <1>7, <2>1, <2>2 DEF ResolveInv, StepFor
    <2>4. \A i \in DOMAIN steps : steps[i].literal \in 1 .. literal' - 1
      BY <1>4, <1>8
    <2> QED
      BY <1>1, <1>3, <1>4, <2>1, <2>3, <2>4 DEF ResolveInv
  <1>10. CASE answer.some
    <2>1. PICK e : steps' = Append(steps, e) /\ e.literal = literal
      <3>1. PICK r : steps' = Append(steps, [literal |-> literal, resolvent |-> r,
                              source_substitutions |-> answer.source_substitutions,
                              similarity |-> answer.similarity])
        BY <1>10 DEF NoteAnswer
      <3> DEFINE d == [literal |-> literal, resolvent |-> r,
                       source_substitutions |-> answer.source_substitutions,
                       similarity |-> answer.similarity]
      <3>2. d.literal = literal
        OBVIOUS
      <3> HIDE DEF d
      <3>3. steps' = Append(steps, d)
        BY <3>1 DEF d
      <3> QED
        BY <3>2, <3>3
    <2> DEFINE n == Len(steps)
    <2>2. /\ IsList(steps') /\ n \in Nat /\ DOMAIN steps = 1 .. n
          /\ DOMAIN steps' = 1 .. n + 1
          /\ \A i \in 1 .. n : steps'[i] = steps[i]
          /\ steps'[n + 1] = e
      BY <2>1, ListAppend DEF ResolveInv
    <2> HIDE DEF n
    <2>3. \A i \in DOMAIN steps' : steps'[i].literal \in 1 .. literal' - 1
      <3> SUFFICES ASSUME NEW i \in 1 .. n + 1 PROVE steps'[i].literal \in 1 .. literal' - 1
        BY <2>2
      <3>1. CASE i = n + 1
        BY <1>4, <2>1, <2>2, <3>1
      <3>2. CASE i # n + 1
        <4>1. i \in 1 .. n
          BY <2>2, <3>2
        <4> QED
          BY <1>4, <1>8, <2>2, <4>1
      <3> QED
        BY <3>1, <3>2
    <2>4. ASSUME NEW i \in DOMAIN steps', NEW j \in DOMAIN steps', i < j
          PROVE  steps'[i].literal < steps'[j].literal
      <3>1. i \in 1 .. n
        BY <2>2, <2>4
      <3>2. CASE j = n + 1
        BY <1>4, <1>8, <2>1, <2>2, <3>1, <3>2
      <3>3. CASE j # n + 1
        <4>1. j \in 1 .. n
          BY <2>2, <3>3
        <4> QED
          BY <2>2, <2>4, <3>1, <4>1 DEF ResolveInv
      <3> QED
        BY <3>2, <3>3
    <2>5. \A k : StepFor(k) => StepFor(k)'
      BY <2>2 DEF StepFor
    <2>6. \A k : k = literal => StepFor(k)'
      <3>1. n + 1 \in DOMAIN steps' /\ steps'[n + 1].literal = literal
        BY <2>1, <2>2
      <3> QED
        BY <3>1 DEF StepFor
    <2>7. FlatClauses' => \A k \in 1 .. literal' - 1 : Due(k)' => StepFor(k)'
      BY <1>4, <1>6, <1>7, <2>5, <2>6 DEF ResolveInv
    <2> QED
      BY <1>1, <1>3, <1>4, <2>2, <2>3, <2>4, <2>7 DEF ResolveInv
  <1> QED
    BY <1>9, <1>10

\* A step of unify leaves the clauses and what is noted of them alone.
LEMMA UnifyStepInv ==
    ASSUME ResolveInv, UnifyStep \/ RaiseThreshold, UNCHANGED resolveVars
    PROVE  ResolveInv'
  <1>1. UNCHANGED <<clauses, literal, steps>>
    BY DEF resolveVars
  <1>2. UnifyInv'
    BY UnifyInvStep DEF ResolveInv, UnifyNext
  <1>3. /\ source' = source /\ target' = target
        /\ pc' \in {"pairs", "returned"} => pc \in {"pairs", "returned"}
    <2>1. CASE RaiseThreshold
      BY <2>1 DEF RaiseThreshold
    <2>2. CASE NextTerms \/ MatchConstants \/ MatchVariables \/ MatchFunctions \/ PassOver
      BY <2>2 DEF NextTerms, MatchConstants, MatchVariables, MatchFunctions, PassOver,
                  Popping, BindTargetToSource, Insert
    <2>3. CASE BindVariable(SourceTerm, TargetTerm) \/ BindVariable(TargetTerm, SourceTerm)
      BY <2>3 DEF BindVariable, Popping, Insert
    <2>4. CASE ReturnUnification \/ GetStuck
      BY <2>4 DEF ReturnUnification, GetStuck, AllPairsDone
    <2> QED
      BY <2>1, <2>2, <2>3, <2>4 DEF UnifyStep
  <1>4. threshold' \in Int /\ threshold <= threshold'
    <2>1. CASE RaiseThreshold
      <3>1. threshold' \in Thresholds /\ threshold < threshold'
        BY <2>1 DEF RaiseThreshold
      <3>2. threshold' \in Int
        BY <3>1, UnifyAssumption
      <3> QED
        BY <3>1, <3>2, LiteralIs
    <2>2. CASE UnifyStep
      <3>1. threshold' = threshold
        BY <2>2 DEF UnifyStep, NextTerms, MatchConstants, MatchVariables, MatchFunctions,
                    PassOver, BindTargetToSource, Insert, BindVariable, ReturnUnification,
                    GetStuck
      <3> QED
        BY <3>1, LiteralIs
    <2> QED
      BY <2>1, <2>2
  <1>5. SourceLiteral' = SourceLiteral /\ TargetLiteral' = TargetLiteral
    BY <1>1 DEF SourceLiteral, TargetLiteral
  <1>6. ASSUME NEW k \in 1 .. literal - 1 PROVE Due(k)' => Due(k)
    <2>1. k \in 1 .. Len(clauses.target)
      BY LiteralIs
    <2>2. /\ Similarity[SourceLiteral.atom.predicate, clauses.target[k].atom.predicate] \in Int
          /\ threshold \in Int
      BY <2>1, LiteralIs, LiteralsAre
    <2> DEFINE x == Similarity[SourceLiteral.atom.predicate,
                               clauses.target[k].atom.predicate]
    <2>3. x \in Int /\ threshold \in Int
      BY <2>2
    <2> HIDE DEF x
    <2>4. x > threshold' => x > threshold
      BY <1>4, <2>3
    <2> USE DEF x
    <2>5. ASSUME Due(k)' PROVE x > threshold'
      BY <1>1, <1>5, <2>5 DEF Due
    <2> QED
      BY <1>1, <1>5, <2>4, <2>5 DEF Due
  <1>7. FlatClauses' => \A k \in 1 .. literal' - 1 : Due(k)' => StepFor(k)'
    BY <1>1, <1>6 DEF ResolveInv, FlatClauses, StepFor
  <1> QED
    BY <1>1, <1>2, <1>3, <1>5, <1>7 DEF ResolveInv


\* A step that changes nothing of resolve.
LEMMA ResolveInvKept ==
    ASSUME ResolveInv, UNCHANGED <<unifyVars, resolveVars>>
    PROVE  ResolveInv'
  <1>1. UNCHANGED <<clauses, literal, steps, pc, source, target, threshold>>
    BY DEF unifyVars, resolveVars
  <1>2. UnifyInv'
    BY UnifyInvStep DEF ResolveInv
  <1>3. \A k : Due(k)' <=> Due(k)
    BY <1>1 DEF Due, SourceLiteral
  <1>4. FlatClauses' => \A k \in 1 .. literal' - 1 : Due(k)' => StepFor(k)'
    BY <1>1, <1>3 DEF ResolveInv, FlatClauses, StepFor
  <1> QED
    BY <1>1, <1>2, <1>4 DEF ResolveInv, SourceLiteral, TargetLiteral

LEMMA ResolveInvInit ==
    ASSUME NEW s, NEW t, CallOf(s, t), ResolveInit(s, t)
    PROVE  ResolveInv
  <1>1. /\ UnifyInv /\ pc = "idle" /\ literal = 1 /\ steps = <<>>
        /\ clauses.source = s /\ clauses.target = t
    BY UnifyInvInit DEF ResolveInit, UnifyInit
  <1>2. Len(t) \in Nat
    BY SeqElements DEF CallOf, IsList
  <1>3. DOMAIN steps = {} /\ IsList(steps)
    BY <1>1 DEF IsList
  <1> QED
    BY <1>1, <1>2, <1>3 DEF ResolveInv

\* The next call.
LEMMA ResolveInvNext ==
    ASSUME ResolveInv, pc = "idle", UNCHANGED unifyVars,
           CallOf(clauses'.source, clauses'.target), literal' = 1, steps' = <<>>
    PROVE  ResolveInv'
  <1>1. UnifyInv' /\ pc' = "idle"
    BY UnifyInvStep DEF ResolveInv, unifyVars
  <1>2. Len(clauses'.target) \in Nat
    BY SeqElements DEF CallOf
  <1>3. DOMAIN steps' = {} /\ IsList(steps')
    BY DEF IsList
  <1> QED
    BY <1>1, <1>2, <1>3 DEF ResolveInv

LEMMA ResolveInvTries == ResolveInv => EveryLiteralIsTried
  <1> SUFFICES ASSUME ResolveInv, Finished, FlatClauses PROVE EveryLiteralIsTried
    BY DEF EveryLiteralIsTried
  <1>1. DOMAIN clauses.target = 1 .. literal - 1
    BY LiteralIs DEF Finished
  <1>2. \A k \in DOMAIN clauses.target : Due(k) => StepFor(k)
    BY <1>1 DEF ResolveInv
  <1> QED
    BY <1>2 DEF EveryLiteralIsTried, ResolveInv, Due, StepFor
-----------------------------------------------------------------------------
(***************************************************************************)
(* Literals without functions and what substitutions make of them.         *)
(***************************************************************************)

PlainLiterals == { l \in LiteralType : l.atom.terms \in Seq(Plain) }

LEMMA FlatLiteral ==
    ASSUME NEW l \in LiteralType, Flat(l.atom)
    PROVE  l \in PlainLiterals
  <1> DEFINE q == l.atom.terms
  <1>1. q \in Seq(Terms) /\ \A u \in ToSet(q) : u.kind # "function"
    BY DEF LiteralType, Atoms, Flat
  <1> HIDE DEF q
  <1>2. Len(q) \in Nat /\ \A i \in 1 .. Len(q) : q[i] \in Plain
    BY <1>1, SeqElements DEF Plain
  <1>3. q \in Seq(Plain)
    BY <1>1, <1>2
  <1> QED
    BY <1>3 DEF PlainLiterals, q

\* The terms of a literal without functions.
LEMMA PlainLiteral ==
    ASSUME NEW l \in PlainLiterals
    PROVE  /\ l \in LiteralType /\ l.polarity \in BOOLEAN
           /\ l.atom.predicate \in Predicates
           /\ l.atom.terms \in Seq(Plain) /\ Len(l.atom.terms) \in Nat
           /\ DOMAIN l.atom.terms = 1 .. Len(l.atom.terms)
           /\ ToSet(l.atom.terms) \subseteq Plain
           /\ \A i \in DOMAIN l.atom.terms :
                 l.atom.terms[i] \in Plain /\ l.atom.terms[i] \in ToSet(l.atom.terms)
  <1> DEFINE q == l.atom.terms
  <1>1. l \in LiteralType /\ q \in Seq(Plain)
    BY DEF PlainLiterals
  <1>2. l.polarity \in BOOLEAN /\ l.atom.predicate \in Predicates
    BY <1>1 DEF LiteralType, Atoms
  <1> HIDE DEF q
  <1>3. /\ Len(q) \in Nat /\ DOMAIN q = 1 .. Len(q)
        /\ \A i \in 1 .. Len(q) : q[i] \in Plain /\ q[i] \in ToSet(q)
    BY <1>1, SeqElements
  <1>4. ToSet(q) \subseteq Plain
    BY <1>3 DEF ToSet
  <1> QED
    BY <1>1, <1>2, <1>3, <1>4 DEF q

\* A literal with other terms.
WithTerms(l, ts) ==
    [polarity |-> l.polarity, atom |-> [predicate |-> l.atom.predicate, terms |-> ts]]

LEMMA ReplacedIs ==
    ASSUME NEW L, L \subseteq LiteralType, NEW m
    PROVE  Replaced(L, m) = { WithTerms(l, ShownTerms(l.atom.terms, m)) : l \in L }
  <1> DEFINE Old(l) == [l EXCEPT !.atom.terms = [i \in DOMAIN @ |-> Applied(@[i], m)]]
             New(l) == WithTerms(l, ShownTerms(l.atom.terms, m))
  <1>1. ASSUME NEW l \in L PROVE Old(l) = New(l)
    BY <1>1 DEF LiteralType, Atoms, WithTerms, ShownTerms
  <1>2. Replaced(L, m) = { Old(l) : l \in L }
    BY Zenon DEF Replaced
  <1> HIDE DEF Old, New
  <1>3. { Old(l) : l \in L } = { New(l) : l \in L }
    BY <1>1
  <1> QED
    BY <1>2, <1>3, Zenon DEF New

GroundTerms(terms, g) == [i \in DOMAIN terms |-> Ground(terms[i], g)]

LEMMA InstanceIs ==
    ASSUME NEW L, L \subseteq LiteralType, NEW g
    PROVE  Instance(L, g) = { WithTerms(l, GroundTerms(l.atom.terms, g)) : l \in L }
  <1> DEFINE Old(l) == [l EXCEPT !.atom.terms = [i \in DOMAIN @ |-> Ground(@[i], g)]]
             New(l) == WithTerms(l, GroundTerms(l.atom.terms, g))
  <1>1. ASSUME NEW l \in L PROVE Old(l) = New(l)
    BY <1>1 DEF LiteralType, Atoms, WithTerms, GroundTerms
  <1>2. Instance(L, g) = { Old(l) : l \in L }
    BY Zenon DEF Instance
  <1> HIDE DEF Old, New
  <1>3. { Old(l) : l \in L } = { New(l) : l \in L }
    BY <1>1
  <1> QED
    BY <1>2, <1>3, Zenon DEF New

\* A substitution of variables by terms that are no functions.
PlainSubs(m) ==
    \A v \in DOMAIN m : v \in Plain /\ v.kind = "variable" /\ m[v] \in Plain

LEMMA AppliedPlain ==
    ASSUME NEW m, PlainSubs(m), NEW t \in Plain
    PROVE  Applied(t, m) \in Plain /\ (t.kind # "variable" => Applied(t, m) = t)
  BY DEF PlainSubs, Applied

LEMMA ReplacedPlain ==
    ASSUME NEW L, L \subseteq PlainLiterals, NEW m, PlainSubs(m)
    PROVE  Replaced(L, m) \subseteq PlainLiterals
  <1>1. L \subseteq LiteralType
    BY DEF PlainLiterals
  <1>2. ASSUME NEW l \in L
        PROVE  WithTerms(l, ShownTerms(l.atom.terms, m)) \in PlainLiterals
    <2> DEFINE q == l.atom.terms
               r == ShownTerms(q, m)
    <2>1. /\ Len(q) \in Nat /\ DOMAIN q = 1 .. Len(q)
          /\ \A i \in DOMAIN q : q[i] \in Plain
          /\ l.polarity \in BOOLEAN /\ l.atom.predicate \in Predicates
      BY <1>2, PlainLiteral
    <2> HIDE DEF q
    <2>2. r \in [1 .. Len(q) -> Plain]
      BY <2>1, AppliedPlain DEF ShownTerms
    <2> HIDE DEF r
    <2>3. r \in Seq(Plain)
      BY <2>1, <2>2, FunctionIsSeq
    <2>4. r \in Seq(Terms)
      BY <2>1, <2>2, FunctionIsSeq DEF Plain
    <2> QED
      BY <2>1, <2>3, <2>4 DEF q, r, WithTerms, PlainLiterals, LiteralType, Atoms
  <1> QED
    BY <1>1, <1>2, ReplacedIs

LEMMA TermsOfPlain ==
    ASSUME NEW L, L \subseteq PlainLiterals
    PROVE  /\ TermsOf(L) \subseteq Plain
           /\ \A l \in L : \A i \in DOMAIN l.atom.terms : l.atom.terms[i] \in TermsOf(L)
           /\ VariablesIn(L) = { t \in TermsOf(L) : t.kind = "variable" }
  <1>1. TermsOf(L) \subseteq Plain
    BY PlainLiteral DEF TermsOf
  <1>2. \A l \in L : \A i \in DOMAIN l.atom.terms : l.atom.terms[i] \in TermsOf(L)
    BY PlainLiteral DEF TermsOf
  <1>3. \A l \in L : VariablesOf(l.atom.terms)
                       = { t \in ToSet(l.atom.terms) : t.kind = "variable" }
    BY PlainLiteral, VariablesOfPlain
  <1>4. VariablesIn(L) = { t \in TermsOf(L) : t.kind = "variable" }
    BY <1>3 DEF VariablesIn, TermsOf
  <1> QED
    BY <1>1, <1>2, <1>4

LEMMA GroundPlain ==
    ASSUME NEW t \in Plain, NEW g
    PROVE  Ground(t, g) = Applied(t, g)
  BY PlainTerm DEF Ground
-----------------------------------------------------------------------------
(***************************************************************************)
(* What a resolvent without functions is made of: the maps of the two      *)
(* clauses' variables, after which the two literals match.                 *)
(***************************************************************************)

Matching(l, k, a, b, sim) ==
    /\ l.polarity # k.polarity
    /\ Similarity[l.atom.predicate, k.atom.predicate] >= sim
    /\ DOMAIN l.atom.terms = DOMAIN k.atom.terms
    /\ \A i \in DOMAIN l.atom.terms :
          LET c == Applied(l.atom.terms[i], a)
              d == Applied(k.atom.terms[i], b)
          IN \/ c = d
             \/ /\ c.kind = "constant" /\ d.kind = "constant"
                /\ Similarity[c.symbol, d.symbol] >= sim

\* A substitution that brings in no constants but those of the clauses.
SubsOf(src, tgt, m) ==
    /\ PlainSubs(m)
    /\ \A v \in DOMAIN m : m[v].kind = "constant" =>
          m[v] \in TermsOf(ToSet(src)) \cup TermsOf(ToSet(tgt))

\* The step d is upon the k-th literal of its target, whose variables b maps.
DerivedBy(d, k, b) ==
    /\ SubsOf(d.source, d.target, d.source_substitutions)
    /\ SubsOf(d.source, d.target, b)
    /\ Matching(Head(d.source), d.target[k], d.source_substitutions, b, d.similarity)
    /\ d.resolvent = Replaced(Others(d.source, Head(d.source)), d.source_substitutions)
                       \cup Replaced(Others(d.target, d.target[k]), b)

Derived(d) == \E k \in DOMAIN d.target : \E b : DerivedBy(d, k, b)

PlainClause(c) == c \in Seq(PlainLiterals)

LEMMA PlainClauseIs ==
    ASSUME NEW c, PlainClause(c)
    PROVE  /\ ToSet(c) \subseteq PlainLiterals
           /\ \A k \in DOMAIN c : c[k] \in ToSet(c) /\ c[k] \in PlainLiterals
           /\ c # <<>> => Head(c) \in ToSet(c) /\ Head(c) \in PlainLiterals
  <1>1. c \in Seq(PlainLiterals)
    BY DEF PlainClause
  <1>2. /\ ToSet(c) \subseteq PlainLiterals /\ DOMAIN c = 1 .. Len(c) /\ Len(c) \in Nat
        /\ \A k \in 1 .. Len(c) : c[k] \in ToSet(c)
    BY <1>1, SeqElements
  <1>3. c # <<>> => 1 \in 1 .. Len(c) /\ Head(c) = c[1]
    BY <1>1
  <1> QED
    BY <1>2, <1>3
-----------------------------------------------------------------------------
(***************************************************************************)
(* What literals without functions mean.                                   *)
(***************************************************************************)

PlainVariables == { t \in Plain : t.kind = "variable" }

ElementOf(t, I, g) == IF t.kind = "variable" THEN g[t] ELSE I.constants[t.symbol]

LEMMA ElementPlain ==
    ASSUME NEW t \in Plain, NEW I, NEW g
    PROVE  Element(t, I, g) = ElementOf(t, I, g)
  BY DEF Plain, Element, ElementOf

Fact(l, I, g) ==
    <<l.atom.predicate,
      [i \in DOMAIN l.atom.terms |-> ElementOf(l.atom.terms[i], I, g)]>>

LEMMA TruthPlain ==
    ASSUME NEW l \in PlainLiterals, NEW I, NEW g
    PROVE  IsTrue(l, I, g) <=> (l.polarity <=> Fact(l, I, g) \in I.true)
  <1>1. \A i \in DOMAIN l.atom.terms :
           Element(l.atom.terms[i], I, g) = ElementOf(l.atom.terms[i], I, g)
    BY PlainLiteral, ElementPlain
  <1>2. [i \in DOMAIN l.atom.terms |-> Element(l.atom.terms[i], I, g)]
          = [i \in DOMAIN l.atom.terms |-> ElementOf(l.atom.terms[i], I, g)]
    BY <1>1
  <1> QED
    BY <1>2 DEF IsTrue, Fact

\* The elements of the variables after a substitution.
Composed(m, I, g) == [v \in PlainVariables |-> ElementOf(Applied(v, m), I, g)]

LEMMA ElementComposed ==
    ASSUME NEW m, PlainSubs(m), NEW t \in Plain, NEW I, NEW g
    PROVE  ElementOf(Applied(t, m), I, g) = ElementOf(t, I, Composed(m, I, g))
  <1>1. CASE t.kind = "variable"
    BY <1>1 DEF ElementOf, Composed, PlainVariables
  <1>2. CASE t.kind # "variable"
    BY <1>2, AppliedPlain DEF ElementOf
  <1> QED
    BY <1>1, <1>2

LEMMA FactReplaced ==
    ASSUME NEW m, PlainSubs(m), NEW l \in PlainLiterals, NEW I, NEW g
    PROVE  Fact(WithTerms(l, ShownTerms(l.atom.terms, m)), I, g)
             = Fact(l, I, Composed(m, I, g))
  <1>1. \A i \in DOMAIN l.atom.terms :
           ElementOf(Applied(l.atom.terms[i], m), I, g)
             = ElementOf(l.atom.terms[i], I, Composed(m, I, g))
    BY PlainLiteral, ElementComposed
  <1> DEFINE q == l.atom.terms
             k == WithTerms(l, ShownTerms(q, m))
  <1>2. k.atom.predicate = l.atom.predicate /\ k.atom.terms = ShownTerms(q, m)
    BY DEF WithTerms
  <1>3. DOMAIN ShownTerms(q, m) = DOMAIN q
          /\ \A i \in DOMAIN q : ShownTerms(q, m)[i] = Applied(q[i], m)
    BY DEF ShownTerms
  <1> HIDE DEF k
  <1>4. [i \in DOMAIN k.atom.terms |-> ElementOf(k.atom.terms[i], I, g)]
          = [i \in DOMAIN q |-> ElementOf(q[i], I, Composed(m, I, g))]
    BY <1>1, <1>2, <1>3
  <1> QED
    BY <1>2, <1>4 DEF Fact, k

\* Of the assignment only the literal's variables matter.
LEMMA FactAgrees ==
    ASSUME NEW l, NEW I, NEW g, NEW h,
           \A i \in DOMAIN l.atom.terms :
              l.atom.terms[i].kind = "variable" => g[l.atom.terms[i]] = h[l.atom.terms[i]]
    PROVE  Fact(l, I, g) = Fact(l, I, h)
  <1>1. [i \in DOMAIN l.atom.terms |-> ElementOf(l.atom.terms[i], I, g)]
          = [i \in DOMAIN l.atom.terms |-> ElementOf(l.atom.terms[i], I, h)]
    BY DEF ElementOf
  <1> QED
    BY <1>1 DEF Fact

\* The literals L have no predicate and no constant but those of K.
Known(K, L) ==
    /\ L \subseteq PlainLiterals
    /\ \A l \in L : \E k \in K : /\ k.atom.predicate = l.atom.predicate
                                 /\ DOMAIN k.atom.terms = DOMAIN l.atom.terms
    /\ \A t \in TermsOf(L) : t.kind = "constant" => t \in TermsOf(K)

LEMMA SymbolsAre ==
    ASSUME NEW cls, NEW kind, NEW t \in TermsOf(Literals(cls)), t \in Terms,
           t.kind = kind
    PROVE  t.symbol \in SymbolsOf(cls, kind)
  <1> DEFINE Own == [u \in Terms |-> IF u.kind = kind THEN {u.symbol} ELSE {}]
             V == CHOOSE V : V = [u \in Terms |->
                     (IF u.kind = kind THEN {u.symbol} ELSE {})
                       \cup UNION { V[u.terms[i]] : i \in DOMAIN u.terms }]
  <1>1. SymbolsOf(cls, kind) = UNION { V[u] : u \in TermsOf(Literals(cls)) }
    BY DEF SymbolsOf
  <1>2. \E W : W = [u \in Terms |-> Collected(Own, W, u)]
    <2>1. Own \in [Terms -> SUBSET { u.symbol : u \in Terms }]
      OBVIOUS
    <2> QED
      BY <2>1, CollectionExists
  <1>3. \A W : \A u \in Terms :
           Collected(Own, W, u) = (IF u.kind = kind THEN {u.symbol} ELSE {})
                                    \cup UNION { W[u.terms[i]] : i \in DOMAIN u.terms }
    BY DEF Collected
  <1>4. \E W : W = [u \in Terms |-> (IF u.kind = kind THEN {u.symbol} ELSE {})
                       \cup UNION { W[u.terms[i]] : i \in DOMAIN u.terms }]
    <2> HIDE DEF Own, V
    <2>1. PICK W : W = [u \in Terms |-> Collected(Own, W, u)]
      BY <1>2
    <2>2. [u \in Terms |-> Collected(Own, W, u)]
            = [u \in Terms |-> (IF u.kind = kind THEN {u.symbol} ELSE {})
                       \cup UNION { W[u.terms[i]] : i \in DOMAIN u.terms }]
      BY <1>3
    <2> QED
      BY <2>1, <2>2
  <1>5. V = [u \in Terms |-> (IF u.kind = kind THEN {u.symbol} ELSE {})
                       \cup UNION { V[u.terms[i]] : i \in DOMAIN u.terms }]
    BY <1>4
  <1> HIDE DEF V
  <1>6. t.symbol \in V[t]
    BY <1>5
  <1> QED
    BY <1>1, <1>6

SameConstants(I, sim) ==
    \A c, d \in DOMAIN I.constants :
        Similarity[c, d] >= sim => I.constants[c] = I.constants[d]

SameFacts(cls, I, sim) ==
    \A f1, f2 \in Facts(cls) :
        f1[2] = f2[2] /\ Similarity[f1[1], f2[1]] >= sim =>
           (f1 \in I.true <=> f2 \in I.true)

LEMMA InterpretationIs ==
    ASSUME NEW cls, NEW sim, NEW I \in Interpretations(cls, sim),
           Literals(cls) \subseteq PlainLiterals
    PROVE  /\ \A t \in TermsOf(Literals(cls)) : t.kind = "constant" =>
                 t.symbol \in DOMAIN I.constants /\ I.constants[t.symbol] \in Elements
           /\ SameConstants(I, sim) /\ SameFacts(cls, I, sim)
  <1>1. /\ I.constants \in [SymbolsOf(cls, "constant") -> Elements]
        /\ SameConstants(I, sim) /\ SameFacts(cls, I, sim)
    BY DEF Interpretations, SameConstants, SameFacts
  <1>2. ASSUME NEW t \in TermsOf(Literals(cls)), t.kind = "constant"
        PROVE  t.symbol \in SymbolsOf(cls, "constant")
    <2>1. t \in Terms
      BY TermsOfPlain DEF Plain
    <2> QED
      BY <1>2, <2>1, SymbolsAre
  <1> QED
    BY <1>1, <1>2

\* Elements are given to the variables and to the constants that are known.
LEMMA ElementsAre ==
    ASSUME NEW cls, NEW sim, NEW I \in Interpretations(cls, sim),
           Literals(cls) \subseteq PlainLiterals,
           NEW g \in [PlainVariables -> Elements],
           NEW t \in Plain, t.kind = "constant" => t \in TermsOf(Literals(cls))
    PROVE  ElementOf(t, I, g) \in Elements
  <1>1. CASE t.kind = "variable"
    BY <1>1 DEF ElementOf, PlainVariables
  <1>2. CASE t.kind = "constant"
    BY <1>2, InterpretationIs DEF ElementOf
  <1> QED
    BY <1>1, <1>2, PlainTerm

LEMMA ComposedType ==
    ASSUME NEW cls, NEW sim, NEW I \in Interpretations(cls, sim),
           Literals(cls) \subseteq PlainLiterals,
           NEW src, Known(Literals(cls), ToSet(src)),
           NEW tgt, Known(Literals(cls), ToSet(tgt)),
           NEW m, SubsOf(src, tgt, m),
           NEW g \in [PlainVariables -> Elements]
    PROVE  Composed(m, I, g) \in [PlainVariables -> Elements]
  <1> SUFFICES ASSUME NEW v \in PlainVariables
               PROVE  ElementOf(Applied(v, m), I, g) \in Elements
    BY DEF Composed
  <1>1. Applied(v, m) \in Plain
    BY AppliedPlain DEF SubsOf, PlainVariables
  <1>2. Applied(v, m).kind = "constant" => Applied(v, m) \in TermsOf(Literals(cls))
    BY DEF SubsOf, Known, Applied, PlainVariables
  <1> QED
    BY <1>1, <1>2, ElementsAre

\* What is known is possible as a fact.
LEMMA FactIsKnown ==
    ASSUME NEW cls, NEW sim, NEW I \in Interpretations(cls, sim),
           Literals(cls) \subseteq PlainLiterals,
           NEW L, Known(Literals(cls), L), NEW l \in L,
           NEW g \in [PlainVariables -> Elements]
    PROVE  Fact(l, I, g) \in Facts(cls)
  <1>1. l \in PlainLiterals
    BY DEF Known
  <1>2. PICK k \in Literals(cls) : /\ k.atom.predicate = l.atom.predicate
                                   /\ DOMAIN k.atom.terms = DOMAIN l.atom.terms
    BY DEF Known
  <1> DEFINE e == [i \in DOMAIN l.atom.terms |-> ElementOf(l.atom.terms[i], I, g)]
  <1>3. \A i \in DOMAIN l.atom.terms : ElementOf(l.atom.terms[i], I, g) \in Elements
    <2> SUFFICES ASSUME NEW i \in DOMAIN l.atom.terms
                 PROVE  ElementOf(l.atom.terms[i], I, g) \in Elements
      OBVIOUS
    <2> DEFINE t == l.atom.terms[i]
    <2>1. t \in Plain /\ t \in TermsOf(L)
      BY <1>1, PlainLiteral, TermsOfPlain DEF Known
    <2>2. t.kind = "constant" => t \in TermsOf(Literals(cls))
      BY <2>1 DEF Known
    <2> HIDE DEF t
    <2>3. ElementOf(t, I, g) \in Elements
      BY <2>1, <2>2, ElementsAre
    <2> QED
      BY <2>3 DEF t
  <1>4. e \in [DOMAIN k.atom.terms -> Elements]
    BY <1>2, <1>3
  <1>5. Fact(l, I, g) = <<k.atom.predicate, e>>
    BY <1>2 DEF Fact
  <1> HIDE DEF e
  <1> QED
    BY <1>4, <1>5 DEF Facts

\* Literals that match are about facts that mean the same.
LEMMA MatchingFacts ==
    ASSUME NEW cls, NEW sim \in Int, NEW I \in Interpretations(cls, sim),
           Literals(cls) \subseteq PlainLiterals,
           NEW src, Known(Literals(cls), ToSet(src)), NEW l \in ToSet(src),
           NEW tgt, Known(Literals(cls), ToSet(tgt)), NEW k \in ToSet(tgt),
           NEW a, SubsOf(src, tgt, a), NEW b, SubsOf(src, tgt, b),
           NEW s \in Int, sim <= s, Matching(l, k, a, b, s),
           NEW g \in [PlainVariables -> Elements]
    PROVE  Fact(l, I, Composed(a, I, g)) \in I.true
             <=> Fact(k, I, Composed(b, I, g)) \in I.true
  <1> DEFINE ga == Composed(a, I, g)
             gb == Composed(b, I, g)
             p == l.atom.predicate
             q == k.atom.predicate
             u == l.atom.terms
             v == k.atom.terms
  <1>0. ga \in [PlainVariables -> Elements] /\ gb \in [PlainVariables -> Elements]
    BY ComposedType
  <1>8. SameConstants(I, sim) /\ SameFacts(cls, I, sim)
    BY InterpretationIs
  <1>1. l \in PlainLiterals /\ k \in PlainLiterals
    BY DEF Known
  <1>2. Fact(l, I, ga) \in Facts(cls) /\ Fact(k, I, gb) \in Facts(cls)
    BY <1>0, FactIsKnown
  <1>3. Similarity[p, q] >= sim
    <2> DEFINE x == Similarity[p, q]
    <2>1. x \in Int /\ x >= s
      BY <1>1, PlainLiteral, UnifyAssumption DEF Matching
    <2> HIDE DEF x
    <2>2. x >= sim
      BY <2>1
    <2> QED
      BY <2>2 DEF x
  <1>4. DOMAIN u = DOMAIN v
    BY DEF Matching
  <1>5. ASSUME NEW i \in DOMAIN u
        PROVE  ElementOf(u[i], I, ga) = ElementOf(v[i], I, gb)
    <2> DEFINE c == Applied(u[i], a)
               d == Applied(v[i], b)
    <2>0. u[i] \in Plain /\ v[i] \in Plain /\ PlainSubs(a) /\ PlainSubs(b)
      BY <1>1, <1>4, <1>5, PlainLiteral DEF SubsOf
    <2>1. ElementOf(c, I, g) = ElementOf(u[i], I, ga) /\ ElementOf(d, I, g) = ElementOf(v[i], I, gb)
      BY <2>0, ElementComposed
    <2>2. c = d \/ (c.kind = "constant" /\ d.kind = "constant" /\ Similarity[c.symbol, d.symbol] >= s)
      BY <1>5 DEF Matching
    <2>3. CASE c = d
      BY <2>1, <2>3
    <2>4. CASE c.kind = "constant" /\ d.kind = "constant" /\ Similarity[c.symbol, d.symbol] >= s
      <3>0. /\ u[i] \in TermsOf(ToSet(src)) /\ v[i] \in TermsOf(ToSet(tgt))
            /\ c \in Plain /\ d \in Plain
        <4>1. /\ ToSet(src) \subseteq PlainLiterals /\ ToSet(tgt) \subseteq PlainLiterals
              /\ i \in DOMAIN v
          BY <1>4, <1>5 DEF Known
        <4> QED
          BY <1>5, <2>0, <4>1, TermsOfPlain, AppliedPlain
      <3>1. /\ c \in TermsOf(ToSet(src)) \cup TermsOf(ToSet(tgt))
            /\ d \in TermsOf(ToSet(src)) \cup TermsOf(ToSet(tgt))
        BY <2>4, <3>0 DEF SubsOf, Applied
      <3> HIDE DEF c, d
      <3>2. c \in TermsOf(Literals(cls)) /\ d \in TermsOf(Literals(cls))
        BY <2>4, <3>1 DEF Known
      <3>3. Similarity[c.symbol, d.symbol] >= sim
        <4> DEFINE x == Similarity[c.symbol, d.symbol]
        <4>1. x \in Int /\ x >= s
          BY <2>4, <3>0, UnifyAssumption DEF Plain
        <4> HIDE DEF x
        <4>2. x >= sim
          BY <4>1
        <4> QED
          BY <4>2 DEF x
      <3>4. I.constants[c.symbol] = I.constants[d.symbol]
        <4>1. c.symbol \in DOMAIN I.constants /\ d.symbol \in DOMAIN I.constants
          BY <2>4, <3>2, InterpretationIs
        <4> QED
          BY <1>8, <3>3, <4>1 DEF SameConstants
      <3>5. ElementOf(c, I, g) = ElementOf(d, I, g)
        BY <2>4, <3>4 DEF ElementOf
      <3> QED
        BY <2>1, <3>5
    <2> QED
      BY <2>2, <2>3, <2>4
  <1>6. /\ Fact(l, I, ga)[1] = p /\ Fact(k, I, gb)[1] = q
        /\ Fact(l, I, ga)[2] = Fact(k, I, gb)[2]
    <2>1. [i \in DOMAIN u |-> ElementOf(u[i], I, ga)]
            = [i \in DOMAIN v |-> ElementOf(v[i], I, gb)]
      BY <1>4, <1>5
    <2> QED
      BY <2>1 DEF Fact
  <1> HIDE DEF ga, gb, p, q
  <1>7. Fact(l, I, ga) \in I.true <=> Fact(k, I, gb) \in I.true
    BY <1>2, <1>3, <1>6, <1>8 DEF SameFacts
  <1> QED
    BY <1>7 DEF ga, gb

\* Literals without functions of which one is true, whatever variables stand for.
Valid(I, L) == \A g \in [PlainVariables -> Elements] : \E l \in L : IsTrue(l, I, g)

LEMMA ModelIsValid ==
    ASSUME NEW cls, NEW I, IsModel(I, cls), NEW c \in cls, ToSet(c) \subseteq PlainLiterals
    PROVE  Valid(I, ToSet(c))
  <1> SUFFICES ASSUME NEW g \in [PlainVariables -> Elements]
               PROVE  \E l \in ToSet(c) : IsTrue(l, I, g)
    BY DEF Valid
  <1> DEFINE vs == VariablesIn(ToSet(c))
             h == [v \in vs |-> g[v]]
  <1>1. vs = { t \in TermsOf(ToSet(c)) : t.kind = "variable" }
          /\ TermsOf(ToSet(c)) \subseteq Plain
    BY TermsOfPlain
  <1>2. h \in [vs -> Elements]
    BY <1>1 DEF PlainVariables
  <1>3. PICK l \in ToSet(c) : IsTrue(l, I, h)
    BY <1>2 DEF IsModel
  <1>4. \A i \in DOMAIN l.atom.terms :
           l.atom.terms[i].kind = "variable" => h[l.atom.terms[i]] = g[l.atom.terms[i]]
    BY <1>1, TermsOfPlain
  <1> HIDE DEF h
  <1>5. Fact(l, I, h) = Fact(l, I, g)
    BY <1>4, FactAgrees
  <1>6. IsTrue(l, I, g)
    BY <1>3, <1>5, TruthPlain
  <1> QED
    BY <1>6

\* Where the target's clause is true and all literals of the resolvent are false,
\* so are all literals of the source.
LEMMA StepRefutes ==
    ASSUME NEW cls, NEW sim \in Int, NEW I \in Interpretations(cls, sim),
           Literals(cls) \subseteq PlainLiterals,
           NEW d, Derived(d), PlainClause(d.source), d.source # <<>>,
           PlainClause(d.target),
           Known(Literals(cls), ToSet(d.source)), Known(Literals(cls), ToSet(d.target)),
           d.similarity \in Int, sim <= d.similarity,
           Valid(I, ToSet(d.target)),
           NEW g \in [PlainVariables -> Elements],
           \A l \in d.resolvent : ~ IsTrue(l, I, g)
    PROVE  \A l \in ToSet(d.source) :
              ~ IsTrue(l, I, Composed(d.source_substitutions, I, g))
  <1>0. PICK k \in DOMAIN d.target : \E b : DerivedBy(d, k, b)
    BY DEF Derived
  <1>1. PICK b : k \in DOMAIN d.target /\ DerivedBy(d, k, b)
    BY <1>0
  <1> DEFINE a == d.source_substitutions
             ga == Composed(a, I, g)
             gb == Composed(b, I, g)
             S == Head(d.source)
             T == d.target[k]
  <1>2. /\ SubsOf(d.source, d.target, a) /\ SubsOf(d.source, d.target, b)
        /\ Matching(S, T, a, b, d.similarity)
        /\ d.resolvent = Replaced(Others(d.source, S), a) \cup Replaced(Others(d.target, T), b)
    BY <1>1 DEF DerivedBy
  <1>3. /\ ToSet(d.source) \subseteq PlainLiterals /\ ToSet(d.target) \subseteq PlainLiterals
        /\ S \in ToSet(d.source) /\ T \in ToSet(d.target)
        /\ PlainSubs(a) /\ PlainSubs(b)
    BY <1>1, <1>2, PlainClauseIs DEF SubsOf
  <1>4. gb \in [PlainVariables -> Elements]
    BY <1>2, ComposedType
  <1> HIDE DEF a, S, T
  \* What becomes of a literal is true if the literal was.
  <1>5. ASSUME NEW L, L \subseteq PlainLiterals, NEW m, PlainSubs(m), NEW l \in L,
               Replaced(L, m) \subseteq d.resolvent
        PROVE  ~ IsTrue(l, I, Composed(m, I, g))
    <2> DEFINE r == WithTerms(l, ShownTerms(l.atom.terms, m))
    <2>1. r \in Replaced(L, m) /\ r \in PlainLiterals
      <3>1. L \subseteq LiteralType
        BY <1>5 DEF PlainLiterals
      <3>2. r \in Replaced(L, m)
        BY <1>5, <3>1, ReplacedIs
      <3> QED
        BY <1>5, <3>2, ReplacedPlain
    <2>2. r.polarity = l.polarity /\ Fact(r, I, g) = Fact(l, I, Composed(m, I, g))
      BY <1>5, FactReplaced DEF WithTerms
    <2> HIDE DEF r
    <2>3. ~ IsTrue(r, I, g)
      BY <1>5, <2>1
    <2> QED
      BY <1>5, <2>1, <2>2, <2>3, TruthPlain
  <1>6. \A l \in ToSet(d.source) : l # S => ~ IsTrue(l, I, ga)
    <2>1. Others(d.source, S) \subseteq PlainLiterals
            /\ Replaced(Others(d.source, S), a) \subseteq d.resolvent
      BY <1>2, <1>3 DEF Others
    <2>2. \A l \in Others(d.source, S) : ~ IsTrue(l, I, Composed(a, I, g))
      BY <1>3, <1>5, <2>1
    <2> QED
      BY <2>2 DEF Others
  <1>7. \A l \in ToSet(d.target) : l # T => ~ IsTrue(l, I, gb)
    <2>1. Others(d.target, T) \subseteq PlainLiterals
            /\ Replaced(Others(d.target, T), b) \subseteq d.resolvent
      BY <1>2, <1>3 DEF Others
    <2>2. \A l \in Others(d.target, T) : ~ IsTrue(l, I, Composed(b, I, g))
      BY <1>3, <1>5, <2>1
    <2> QED
      BY <2>2 DEF Others
  <1> HIDE DEF ga, gb
  <1>8. IsTrue(T, I, gb)
    <2>1. PICK l \in ToSet(d.target) : IsTrue(l, I, gb)
      BY <1>4 DEF Valid
    <2> QED
      BY <1>7, <2>1
  <1>9. ~ IsTrue(S, I, ga)
    <2>1. Fact(S, I, ga) \in I.true <=> Fact(T, I, gb) \in I.true
      BY <1>2, <1>3, MatchingFacts DEF ga, gb
    <2>2. S.polarity # T.polarity /\ S.polarity \in BOOLEAN /\ T.polarity \in BOOLEAN
      BY <1>2, <1>3, PlainLiteral DEF Matching
    <2> QED
      BY <1>3, <1>8, <2>1, <2>2, TruthPlain
  <1> QED
    BY <1>6, <1>9 DEF ga, a

\* A resolvent brings in nothing that was not known.
LEMMA ResolventKnown ==
    ASSUME NEW K, NEW d, Derived(d), PlainClause(d.source), d.source # <<>>,
           PlainClause(d.target),
           Known(K, ToSet(d.source)), Known(K, ToSet(d.target))
    PROVE  Known(K, d.resolvent)
  <1>0. PICK k \in DOMAIN d.target : \E b : DerivedBy(d, k, b)
    BY DEF Derived
  <1>1. PICK b : k \in DOMAIN d.target /\ DerivedBy(d, k, b)
    BY <1>0
  <1> DEFINE a == d.source_substitutions
             S == Head(d.source)
             T == d.target[k]
  <1>2. /\ SubsOf(d.source, d.target, a) /\ SubsOf(d.source, d.target, b)
        /\ d.resolvent = Replaced(Others(d.source, S), a) \cup Replaced(Others(d.target, T), b)
    BY <1>1 DEF DerivedBy
  <1>3. /\ Others(d.source, S) \subseteq PlainLiterals /\ Known(K, Others(d.source, S))
        /\ Others(d.target, T) \subseteq PlainLiterals /\ Known(K, Others(d.target, T))
    BY PlainClauseIs DEF Others, Known, TermsOf
  <1> HIDE DEF a, S, T
  <1>4. ASSUME NEW L, L \subseteq PlainLiterals, Known(K, L),
               NEW m, SubsOf(d.source, d.target, m)
        PROVE  Known(K, Replaced(L, m))
    <2>1. PlainSubs(m) /\ L \subseteq LiteralType
      BY <1>4 DEF SubsOf, PlainLiterals
    <2>2. Replaced(L, m) \subseteq PlainLiterals
      BY <1>4, <2>1, ReplacedPlain
    <2>3. ASSUME NEW r \in Replaced(L, m)
          PROVE  /\ \E l \in K : /\ l.atom.predicate = r.atom.predicate
                                 /\ DOMAIN l.atom.terms = DOMAIN r.atom.terms
                 /\ \A t \in ToSet(r.atom.terms) : t.kind = "constant" => t \in TermsOf(K)
      <3>1. PICK l \in L : r = WithTerms(l, ShownTerms(l.atom.terms, m))
        BY <2>1, ReplacedIs
      <3> DEFINE q == l.atom.terms
      <3>2. /\ r.atom.predicate = l.atom.predicate /\ DOMAIN r.atom.terms = DOMAIN q
            /\ \A i \in DOMAIN q : r.atom.terms[i] = Applied(q[i], m)
        BY <3>1 DEF WithTerms, ShownTerms
      <3>3. \A i \in DOMAIN q : q[i] \in Plain /\ q[i] \in TermsOf(L)
        BY <1>4, PlainLiteral, TermsOfPlain
      <3> HIDE DEF q
      <3>4. \E l0 \in K : /\ l0.atom.predicate = r.atom.predicate
                          /\ DOMAIN l0.atom.terms = DOMAIN r.atom.terms
        BY <1>4, <3>2 DEF Known, q
      <3>5. ASSUME NEW i \in DOMAIN q, Applied(q[i], m).kind = "constant"
            PROVE  Applied(q[i], m) \in TermsOf(K)
        <4>1. CASE q[i] \in DOMAIN m
          <5>1. m[q[i]] \in TermsOf(ToSet(d.source)) \cup TermsOf(ToSet(d.target))
            BY <1>4, <3>5, <4>1 DEF SubsOf, Applied
          <5> QED
            BY <3>5, <4>1, <5>1 DEF Applied, Known
        <4>2. CASE q[i] \notin DOMAIN m
          BY <1>4, <3>3, <3>5, <4>2 DEF Applied, Known
        <4> QED
          BY <4>1, <4>2
      <3>6. ToSet(r.atom.terms) = { r.atom.terms[i] : i \in DOMAIN q }
        BY <3>2 DEF ToSet
      <3> QED
        BY <3>2, <3>4, <3>5, <3>6
    <2> QED
      BY <2>2, <2>3 DEF Known, TermsOf
  <1>5. Known(K, Replaced(Others(d.source, S), a)) /\ Known(K, Replaced(Others(d.target, T), b))
    BY <1>2, <1>3, <1>4
  <1> QED
    BY <1>2, <1>5 DEF Known, TermsOf
-----------------------------------------------------------------------------
(***************************************************************************)
(* A chain that comes to the empty resolvent.                              *)
(***************************************************************************)

LEMMA UpFrom ==
    ASSUME NEW n \in Nat, NEW S, 1 \in S, \A i \in 1 .. n - 1 : i \in S => i + 1 \in S
    PROVE  \A i \in 1 .. n : i \in S
  <1> SUFFICES ASSUME NEW i \in 1 .. n, i \notin S PROVE FALSE
    OBVIOUS
  <1> DEFINE B == { j \in 1 .. n : j \notin S }
  <1>1. B \in SUBSET Nat /\ B # {}
    OBVIOUS
  <1>2. PICK j \in B : \A k \in B : j <= k
    BY <1>1, LeastNumber
  <1>3. j # 1 /\ j \in 2 .. n
    BY <1>2
  <1>4. j - 1 \in 1 .. n - 1 /\ j - 1 \in 1 .. n /\ (j - 1) + 1 = j
    BY <1>3
  <1>5. j - 1 \notin B
    BY <1>2, <1>4
  <1> QED
    BY <1>2, <1>4, <1>5

LEMMA DownFrom ==
    ASSUME NEW n \in Nat, NEW S, n + 1 \in S, \A i \in 1 .. n : i + 1 \in S => i \in S
    PROVE  \A i \in 1 .. n + 1 : i \in S
  <1> DEFINE R == { j \in 1 .. n + 1 : n + 2 - j \in S }
  <1>1. n + 1 \in Nat /\ 1 \in R
    OBVIOUS
  <1>2. ASSUME NEW i \in 1 .. n, i \in R PROVE i + 1 \in R
    <2>1. n + 1 - i \in 1 .. n /\ (n + 1 - i) + 1 = n + 2 - i
      OBVIOUS
    <2>2. n + 1 - i \in S
      BY <1>2, <2>1
    <2>3. n + 2 - (i + 1) = n + 1 - i /\ i + 1 \in 1 .. n + 1
      OBVIOUS
    <2> QED
      BY <2>2, <2>3
  <1>3. \A i \in 1 .. (n + 1) - 1 : i \in R => i + 1 \in R
    BY <1>2
  <1> HIDE DEF R
  <1>4. \A j \in 1 .. n + 1 : j \in R
    BY <1>1, <1>3, UpFrom
  <1> SUFFICES ASSUME NEW i \in 1 .. n + 1 PROVE i \in S
    OBVIOUS
  <1>5. n + 2 - i \in 1 .. n + 1 /\ n + 2 - (n + 2 - i) = i
    OBVIOUS
  <1>6. n + 2 - i \in R
    BY <1>4, <1>5
  <1> QED
    BY <1>5, <1>6 DEF R

\* A step whose clauses have no functions.
PlainStep(d) ==
    /\ Derived(d)
    /\ PlainClause(d.source) /\ d.source # <<>>
    /\ PlainClause(d.target)

\* The steps are linked, and their similarities are kept.
ChainIs ==
    /\ \A i \in DOMAIN chain :
          /\ chain[i].target \in AllKnowledge
          /\ i = 1 => chain[i].source \in problem.goals
          /\ i > 1 => ToSet(chain[i].source) = chain[i - 1].resolvent
          /\ chain[i].similarity \in Int /\ chain[i].running_similarity \in Int
    /\ \A i, j \in DOMAIN chain :
          i <= j => chain[j].running_similarity <= chain[i].similarity
    /\ IsList(chain)
    /\ FlatProblem => \A i \in DOMAIN chain : PlainStep(chain[i])

\* What the properties of a proof are about.
LEMMA ProofIs ==
    ASSUME ChainIs, Proved, FlatProblem,
           Literals(AllKnowledge) \subseteq LiteralType
    PROVE  LET n == Len(chain) IN
           /\ n \in Nat /\ n >= 1 /\ DOMAIN chain = 1 .. n /\ Last(chain) = chain[n]
           /\ chain[n].resolvent = {} /\ chain[n].running_similarity \in Int
           /\ \A i \in 1 .. n :
                 PlainStep(chain[i]) /\ chain[n].running_similarity <= chain[i].similarity
           /\ Literals(AllKnowledge) \subseteq PlainLiterals
           /\ \A c \in AllKnowledge : Known(Literals(AllKnowledge), ToSet(c))
  <1> DEFINE n == Len(chain)
  <1>1. chain \in Seq(ToSet(chain)) /\ chain # <<>> /\ Last(chain).resolvent = {}
    BY DEF ChainIs, IsList, Proved
  <1>2. n \in Nat /\ n >= 1 /\ DOMAIN chain = 1 .. n /\ Last(chain) = chain[n]
    BY <1>1 DEF Last
  <1> HIDE DEF n
  <1>3. /\ chain[n].running_similarity \in Int
        /\ \A i \in 1 .. n :
              PlainStep(chain[i]) /\ chain[n].running_similarity <= chain[i].similarity
    BY <1>2 DEF ChainIs
  <1>4. Literals(AllKnowledge) \subseteq PlainLiterals
    BY FlatLiteral DEF FlatProblem
  <1>5. ASSUME NEW c \in AllKnowledge PROVE Known(Literals(AllKnowledge), ToSet(c))
    <2>1. ToSet(c) \subseteq Literals(AllKnowledge)
      BY DEF Literals
    <2> QED
      BY <1>4, <2>1 DEF Known, TermsOf
  <1> QED
    BY <1>1, <1>2, <1>3, <1>4, <1>5 DEF n

LEMMA ChainKnown ==
    ASSUME ChainIs, Proved, FlatProblem,
           Literals(AllKnowledge) \subseteq LiteralType
    PROVE  \A i \in 1 .. Len(chain) :
              /\ Known(Literals(AllKnowledge), ToSet(chain[i].source))
              /\ Known(Literals(AllKnowledge), ToSet(chain[i].target))
  <1> DEFINE n == Len(chain)
             K == Literals(AllKnowledge)
             S == { i \in 1 .. n : Known(K, ToSet(chain[i].source)) }
  <1>1. /\ n \in Nat /\ n >= 1 /\ DOMAIN chain = 1 .. n
        /\ \A i \in 1 .. n : PlainStep(chain[i])
        /\ \A c \in AllKnowledge : Known(K, ToSet(c))
    BY ProofIs
  <1> HIDE DEF n
  <1>2. \A i \in 1 .. n : Known(K, ToSet(chain[i].target))
    BY <1>1 DEF ChainIs
  <1>3. 1 \in S
    <2>1. 1 \in 1 .. n /\ chain[1].source \in AllKnowledge
      BY <1>1 DEF ChainIs, AllKnowledge
    <2> QED
      BY <1>1, <2>1
  <1>4. ASSUME NEW i \in 1 .. n - 1, i \in S PROVE i + 1 \in S
    <2>1. i + 1 \in 1 .. n /\ i + 1 > 1 /\ (i + 1) - 1 = i /\ i \in 1 .. n
      BY <1>1
    <2>2. ToSet(chain[i + 1].source) = chain[i].resolvent
      BY <1>1, <2>1 DEF ChainIs
    <2> DEFINE d == chain[i]
    <2>3. /\ Derived(d) /\ PlainClause(d.source) /\ d.source # <<>> /\ PlainClause(d.target)
          /\ Known(K, ToSet(d.source)) /\ Known(K, ToSet(d.target))
      BY <1>1, <1>2, <1>4, <2>1 DEF PlainStep
    <2> HIDE DEF d, K
    <2>4. Known(K, d.resolvent)
      BY <2>3, ResolventKnown
    <2> QED
      BY <2>1, <2>2, <2>4 DEF d
  <1> HIDE DEF S
  <1>5. \A i \in 1 .. n : i \in S
    BY <1>1, <1>3, <1>4, UpFrom
  <1> QED
    BY <1>2, <1>5 DEF S, n

LEMMA ChainRefutes ==
    ASSUME ChainIs, Proved, FlatProblem,
           Literals(AllKnowledge) \subseteq LiteralType,
           NEW I \in Interpretations(AllKnowledge, Last(chain).running_similarity),
           IsModel(I, AllKnowledge)
    PROVE  FALSE
  <1> DEFINE n == Len(chain)
             sim == chain[n].running_similarity
             K == Literals(AllKnowledge)
             S == { i \in 1 .. n : Valid(I, chain[i].resolvent) }
  <1>1. /\ n \in Nat /\ n >= 1 /\ DOMAIN chain = 1 .. n /\ Last(chain) = chain[n]
        /\ chain[n].resolvent = {} /\ sim \in Int
        /\ \A i \in 1 .. n : PlainStep(chain[i]) /\ sim <= chain[i].similarity
        /\ K \subseteq PlainLiterals
        /\ \A c \in AllKnowledge : Known(K, ToSet(c))
    BY ProofIs
  <1>2. I \in Interpretations(AllKnowledge, sim)
    BY <1>1
  <1> HIDE DEF n, sim
  <1>3. ASSUME NEW c \in AllKnowledge PROVE Valid(I, ToSet(c))
    BY <1>1, ModelIsValid DEF Known
  <1>4. ASSUME NEW i \in 1 .. n, Valid(I, ToSet(chain[i].source)) PROVE i \in S
    <2> DEFINE d == chain[i]
    <2>1. /\ PlainStep(d) /\ d.target \in AllKnowledge
          /\ d.similarity \in Int /\ sim <= d.similarity
      BY <1>1 DEF ChainIs
    <2>2. /\ Known(K, ToSet(d.source)) /\ Known(K, ToSet(d.target))
          /\ Valid(I, ToSet(d.source)) /\ Valid(I, ToSet(d.target))
      BY <1>3, <1>4, <2>1, ChainKnown DEF n
    <2>3. /\ Derived(d) /\ PlainClause(d.source) /\ d.source # <<>> /\ PlainClause(d.target)
      BY <2>1 DEF PlainStep
    <2> HIDE DEF d
    <2>4. Valid(I, d.resolvent)
      <3> SUFFICES ASSUME NEW g \in [PlainVariables -> Elements],
                          \A l \in d.resolvent : ~ IsTrue(l, I, g)
                   PROVE  FALSE
        BY DEF Valid
      <3>1. \A l \in ToSet(d.source) : ~ IsTrue(l, I, Composed(d.source_substitutions, I, g))
        BY <1>1, <1>2, <2>1, <2>2, <2>3, StepRefutes
      <3>2. Composed(d.source_substitutions, I, g) \in [PlainVariables -> Elements]
        <4>1. SubsOf(d.source, d.target, d.source_substitutions)
          BY <2>3 DEF Derived, DerivedBy
        <4> QED
          BY <1>1, <1>2, <2>2, <4>1, ComposedType
      <3> QED
        BY <2>2, <3>1, <3>2 DEF Valid
    <2> QED
      BY <2>4 DEF d
  <1>5. 1 \in S
    <2>1. 1 \in 1 .. n /\ chain[1].source \in AllKnowledge
      BY <1>1 DEF ChainIs, AllKnowledge
    <2> QED
      BY <1>3, <1>4, <2>1
  <1>6. ASSUME NEW i \in 1 .. n - 1, i \in S PROVE i + 1 \in S
    <2>1. i + 1 \in 1 .. n /\ i + 1 > 1 /\ (i + 1) - 1 = i
      BY <1>1
    <2>2. ToSet(chain[i + 1].source) = chain[i].resolvent
      BY <1>1, <2>1 DEF ChainIs
    <2> QED
      BY <1>4, <1>6, <2>1, <2>2
  <1>7. n \in 1 .. n
    BY <1>1
  <1>8. n \in S
    <2> HIDE DEF S
    <2> QED
      BY <1>1, <1>5, <1>6, <1>7, UpFrom
  <1>9. Valid(I, {})
    BY <1>1, <1>8
  <1>10. PICK e : e \in Elements
    BY DerivationAssumption
  <1>11. [v \in PlainVariables |-> e] \in [PlainVariables -> Elements]
    BY <1>10
  <1> QED
    BY <1>9, <1>11 DEF Valid
-----------------------------------------------------------------------------
(***************************************************************************)
(* The values that a proof shows.  The recursive definition has a value:   *)
(* it can be built from the last step back to the first.                   *)
(***************************************************************************)

ValueAt(V, j, u) ==
    IF j > Len(chain) \/ u.kind # "variable" THEN u
    ELSE LET new == Applied(u, chain[j].source_substitutions) IN
         IF new.kind = "function"
         THEN [new EXCEPT !.terms = [k \in DOMAIN @ |-> V[j + 1][@[k]]]]
         ELSE V[j + 1][new]

ValuesFrom(V, i) ==
    V = [j \in i .. Len(chain) + 1 |-> [u \in Terms |-> ValueAt(V, j, u)]]

LEMMA ValuesExist ==
    ASSUME Len(chain) \in Nat
    PROVE  \E V : ValuesFrom(V, 1)
  <1> DEFINE n == Len(chain)
             S == { i \in 1 .. n + 1 : \E V : ValuesFrom(V, i) }
  <1>1. n + 1 \in S
    <2> DEFINE V == [j \in n + 1 .. n + 1 |-> [u \in Terms |-> u]]
    <2>1. \A j \in n + 1 .. n + 1 : \A u : ValueAt(V, j, u) = u
      BY DEF ValueAt
    <2> HIDE DEF V
    <2>2. [j \in n + 1 .. n + 1 |-> [u \in Terms |-> ValueAt(V, j, u)]]
            = [j \in n + 1 .. n + 1 |-> [u \in Terms |-> u]]
      BY <2>1
    <2>3. ValuesFrom(V, n + 1)
      BY <2>2 DEF V, ValuesFrom
    <2> QED
      BY <2>3
  <1>2. ASSUME NEW i \in 1 .. n, i + 1 \in S PROVE i \in S
    <2>1. PICK V : ValuesFrom(V, i + 1)
      BY <1>2
    <2> DEFINE W == [j \in i .. n + 1 |-> IF j = i THEN [u \in Terms |-> ValueAt(V, i, u)]
                                         ELSE V[j]]
    <2>2. \A j \in i + 1 .. n + 1 : W[j] = V[j] /\ V[j] = [u \in Terms |-> ValueAt(V, j, u)]
      <3>1. \A j \in i + 1 .. n + 1 : W[j] = V[j]
        OBVIOUS
      <3> HIDE DEF W
      <3>2. \A j \in i + 1 .. n + 1 : V[j] = [u \in Terms |-> ValueAt(V, j, u)]
        BY <2>1 DEF ValuesFrom
      <3> QED
        BY <3>1, <3>2
    <2>3. \A j \in i .. n + 1 : \A u : ValueAt(W, j, u) = ValueAt(V, j, u)
      <3> SUFFICES ASSUME NEW j \in i .. n + 1, NEW u
                   PROVE  ValueAt(W, j, u) = ValueAt(V, j, u)
        OBVIOUS
      <3>1. j <= n => W[j + 1] = V[j + 1]
        BY <2>2
      <3> HIDE DEF W
      <3> QED
        BY <3>1 DEF ValueAt
    <2>4. \A j \in i .. n + 1 : W[j] = [u \in Terms |-> ValueAt(V, j, u)]
      <3>1. W[i] = [u \in Terms |-> ValueAt(V, i, u)]
        OBVIOUS
      <3>2. \A j \in i .. n + 1 : j # i => j \in i + 1 .. n + 1
        OBVIOUS
      <3> HIDE DEF W
      <3> QED
        BY <2>2, <3>1, <3>2
    <2>5. W = [j \in i .. n + 1 |-> W[j]]
      OBVIOUS
    <2> HIDE DEF W
    <2>6. \A j \in i .. n + 1 : W[j] = [u \in Terms |-> ValueAt(W, j, u)]
      BY <2>3, <2>4
    <2>7. ValuesFrom(W, i)
      BY <2>5, <2>6 DEF ValuesFrom
    <2> QED
      BY <2>7
  <1> HIDE DEF S
  <1>3. 1 \in S
    BY <1>1, <1>2, DownFrom
  <1> QED
    BY <1>3 DEF S

LEMMA ValueFromIs ==
    ASSUME Len(chain) \in Nat
    PROVE  \A i \in 1 .. Len(chain) + 1 : \A t \in Terms :
              LET new == Applied(t, chain[i].source_substitutions) IN
              /\ i > Len(chain) \/ t.kind # "variable" => ValueFrom(t, i) = t
              /\ i <= Len(chain) /\ t.kind = "variable" /\ new.kind # "function" =>
                    ValueFrom(t, i) = ValueFrom(new, i + 1)
  <1> DEFINE V == CHOOSE V : ValuesFrom(V, 1)
  <1>1. \A t, i : ValueFrom(t, i) = V[i][t]
    BY DEF ValueFrom, ValuesFrom, ValueAt
  <1>2. ValuesFrom(V, 1)
    BY ValuesExist
  <1> HIDE DEF V
  <1>3. \A i \in 1 .. Len(chain) + 1 : \A t \in Terms : V[i][t] = ValueAt(V, i, t)
    BY <1>2 DEF ValuesFrom
  <1> SUFFICES ASSUME NEW i \in 1 .. Len(chain) + 1, NEW t \in Terms
      PROVE  LET new == Applied(t, chain[i].source_substitutions) IN
             /\ i > Len(chain) \/ t.kind # "variable" => ValueFrom(t, i) = t
             /\ i <= Len(chain) /\ t.kind = "variable" /\ new.kind # "function" =>
                   ValueFrom(t, i) = ValueFrom(new, i + 1)
    OBVIOUS
  <1>4. ValueFrom(t, i) = ValueAt(V, i, t)
    BY <1>1, <1>3
  <1>5. i > Len(chain) \/ t.kind # "variable" => ValueFrom(t, i) = t
    BY <1>4 DEF ValueAt
  <1> DEFINE new == Applied(t, chain[i].source_substitutions)
  <1>6. ASSUME i <= Len(chain), t.kind = "variable", new.kind # "function"
        PROVE  ValueFrom(t, i) = ValueFrom(new, i + 1)
    <2>1. ~ (i > Len(chain))
      BY <1>6
    <2>2. ValueAt(V, i, t) = V[i + 1][new]
      BY <1>6, <2>1 DEF ValueAt
    <2> QED
      BY <1>1, <1>4, <2>2
  <1> QED
    BY <1>5, <1>6

\* Of a chain without functions, the value of a variable is that of what the step
\* puts for it.
LEMMA ValueIs ==
    ASSUME Len(chain) \in Nat, NEW i \in 1 .. Len(chain), NEW t \in Plain,
           PlainSubs(chain[i].source_substitutions)
    PROVE  ValueFrom(t, i) = ValueFrom(Applied(t, chain[i].source_substitutions), i + 1)
  <1> DEFINE new == Applied(t, chain[i].source_substitutions)
  <1>1. new \in Plain /\ (t.kind # "variable" => new = t)
    BY AppliedPlain
  <1>2. t \in Terms /\ new \in Terms /\ new.kind # "function"
    BY <1>1 DEF Plain
  <1> HIDE DEF new
  <1>3. i \in 1 .. Len(chain) + 1 /\ ~ (i > Len(chain)) /\ i + 1 \in 1 .. Len(chain) + 1
    OBVIOUS
  <1>4. CASE t.kind = "variable"
    <2>1. i <= Len(chain)
      OBVIOUS
    <2> QED
      BY <1>2, <1>3, <1>4, <2>1, ValueFromIs DEF new
  <1>5. CASE t.kind # "variable"
    <2>1. ValueFrom(t, i) = t /\ ValueFrom(t, i + 1) = t
      BY <1>2, <1>3, <1>5, ValueFromIs
    <2> QED
      BY <1>1, <1>5, <2>1 DEF new
  <1> QED
    BY <1>4, <1>5

\* What the variables stand for before the i-th step, when g says what those of the
\* values stand for.
Valued(i, I, g) == [v \in PlainVariables |-> ElementOf(ValueFrom(v, i), I, g)]

LEMMA ValuedComposes ==
    ASSUME Len(chain) \in Nat, NEW i \in 1 .. Len(chain),
           PlainSubs(chain[i].source_substitutions), NEW I, NEW g
    PROVE  Valued(i, I, g)
             = Composed(chain[i].source_substitutions, I, Valued(i + 1, I, g))
  <1> SUFFICES ASSUME NEW v \in PlainVariables
               PROVE  ElementOf(ValueFrom(v, i), I, g)
                        = ElementOf(Applied(v, chain[i].source_substitutions), I,
                                    Valued(i + 1, I, g))
    BY DEF Valued, Composed
  <1> DEFINE new == Applied(v, chain[i].source_substitutions)
  <1>1. v \in Plain /\ new \in Plain
    BY AppliedPlain DEF PlainVariables
  <1>2. ValueFrom(v, i) = ValueFrom(new, i + 1)
    BY <1>1, ValueIs
  <1> HIDE DEF new
  <1>3. CASE new.kind = "variable"
    BY <1>1, <1>2, <1>3 DEF Valued, ElementOf, PlainVariables, new
  <1>4. CASE new.kind # "variable"
    <2>1. i + 1 \in 1 .. Len(chain) + 1 /\ new \in Terms
      BY <1>1 DEF Plain
    <2>2. ValueFrom(new, i + 1) = new
      BY <1>4, <2>1, ValueFromIs
    <2> QED
      BY <1>2, <1>4, <2>2 DEF ElementOf, new
  <1> QED
    BY <1>3, <1>4

LEMMA ChainAnswers ==
    ASSUME ChainIs, Proved, FlatProblem, OneGoalOnly,
           Literals(AllKnowledge) \subseteq LiteralType,
           NEW I \in Interpretations(AllKnowledge, Last(chain).running_similarity),
           IsModel(I, problem.knowledge),
           NEW g \in [PlainVariables -> Elements]
    PROVE  \A l \in Goal : ~ IsTrue(l, I, Valued(1, I, g))
  <1> DEFINE n == Len(chain)
             sim == chain[n].running_similarity
             K == Literals(AllKnowledge)
             G(i) == Valued(i, I, g)
             S == { i \in 1 .. n + 1 :
                      /\ G(i) \in [PlainVariables -> Elements]
                      /\ i <= n => \A l \in ToSet(chain[i].source) : ~ IsTrue(l, I, G(i)) }
  <1>1. /\ n \in Nat /\ n >= 1 /\ DOMAIN chain = 1 .. n /\ Last(chain) = chain[n]
        /\ chain[n].resolvent = {} /\ sim \in Int
        /\ \A i \in 1 .. n : PlainStep(chain[i]) /\ sim <= chain[i].similarity
        /\ K \subseteq PlainLiterals
        /\ \A c \in AllKnowledge : Known(K, ToSet(c))
    BY ProofIs
  <1>2. I \in Interpretations(AllKnowledge, sim)
    BY <1>1
  <1>3. n + 1 \in S
    <2>0. n + 1 \in 1 .. Len(chain) + 1 /\ n + 1 > Len(chain)
      BY <1>1
    <2>1. \A v \in PlainVariables : ValueFrom(v, n + 1) = v
      BY <1>1, <2>0, ValueFromIs DEF PlainVariables, Plain
    <2>2. G(n + 1) \in [PlainVariables -> Elements]
      BY <2>1 DEF Valued, ElementOf, PlainVariables
    <2> QED
      BY <1>1, <2>2
  <1>6. n \in Nat /\ 1 \in 1 .. n + 1 /\ 1 <= n
    BY <1>1
  <1> HIDE DEF sim, n
  <1>4. ASSUME NEW i \in 1 .. n, i + 1 \in S PROVE i \in S
    <2> DEFINE d == chain[i]
               h == G(i + 1)
    <2>1. /\ Derived(d) /\ PlainClause(d.source) /\ d.source # <<>> /\ PlainClause(d.target)
          /\ d.target \in AllKnowledge /\ d.target \notin problem.goals
          /\ d.similarity \in Int /\ sim <= d.similarity
      BY <1>1 DEF ChainIs, PlainStep, OneGoalOnly
    <2>2. Known(K, ToSet(d.source)) /\ Known(K, ToSet(d.target))
      BY ChainKnown DEF n
    <2>3. Valid(I, ToSet(d.target))
      <3>1. d.target \in problem.knowledge
        BY <2>1 DEF AllKnowledge
      <3> QED
        BY <2>2, <3>1, ModelIsValid DEF Known
    <2>4. h \in [PlainVariables -> Elements]
      BY <1>4
    <2>5. \A l \in d.resolvent : ~ IsTrue(l, I, h)
      <3>1. CASE i = n
        BY <1>1, <3>1
      <3>2. CASE i # n
        <4>1. i + 1 \in 1 .. n /\ i + 1 <= n /\ i + 1 > 1 /\ (i + 1) - 1 = i
          BY <1>6, <3>2
        <4>2. ToSet(chain[i + 1].source) = d.resolvent
          BY <1>1, <4>1 DEF ChainIs
        <4> QED
          BY <1>4, <4>1, <4>2
      <3> QED
        BY <3>1, <3>2
    <2>6. SubsOf(d.source, d.target, d.source_substitutions) /\ PlainSubs(d.source_substitutions)
      BY <2>1 DEF Derived, DerivedBy, SubsOf
    <2>7. G(i) = Composed(d.source_substitutions, I, h)
      BY <1>1, <2>6, ValuedComposes DEF n
    <2> HIDE DEF d, h, K
    <2>8. Composed(d.source_substitutions, I, h) \in [PlainVariables -> Elements]
      BY <1>1, <1>2, <2>2, <2>4, <2>6, ComposedType DEF K
    <2>9. \A l \in ToSet(d.source) : ~ IsTrue(l, I, Composed(d.source_substitutions, I, h))
      BY <1>1, <1>2, <2>1, <2>2, <2>3, <2>4, <2>5, StepRefutes DEF K
    <2>10. i \in 1 .. n + 1
      BY <1>6
    <2> QED
      BY <2>7, <2>8, <2>9, <2>10 DEF d
  <1> HIDE DEF S
  <1>5. \A i \in 1 .. n + 1 : i \in S
    BY <1>3, <1>4, <1>6, DownFrom
  <1> QED
    BY <1>5, <1>6 DEF S, Goal

\* The values that are shown are no functions either.
LEMMA ValuesPlain ==
    ASSUME ChainIs, Proved, FlatProblem,
           Literals(AllKnowledge) \subseteq LiteralType
    PROVE  \A v \in Plain : ValueFrom(v, 1) \in Plain
  <1> DEFINE n == Len(chain)
             S == { i \in 1 .. n + 1 : \A v \in Plain : ValueFrom(v, i) \in Plain }
  <1>1. n \in Nat /\ DOMAIN chain = 1 .. n /\ \A i \in 1 .. n : PlainStep(chain[i])
    BY ProofIs
  <1>2. n + 1 \in S
    <2>1. n + 1 \in 1 .. Len(chain) + 1 /\ n + 1 > Len(chain)
      BY <1>1
    <2> QED
      BY <1>1, <2>1, ValueFromIs DEF Plain
  <1>3. ASSUME NEW i \in 1 .. n, i + 1 \in S PROVE i \in S
    <2>1. PlainSubs(chain[i].source_substitutions)
      BY <1>1 DEF PlainStep, Derived, DerivedBy, SubsOf
    <2>2. \A v \in Plain : ValueFrom(v, i) \in Plain
      BY <1>1, <1>3, <2>1, ValueIs, AppliedPlain
    <2>3. i \in 1 .. n + 1
      BY <1>1
    <2> QED
      BY <2>2, <2>3
  <1>4. 1 \in 1 .. n + 1
    BY <1>1
  <1>5. 1 \in S
    <2> HIDE DEF S, n
    <2> QED
      BY <1>1, <1>2, <1>3, <1>4, DownFrom
  <1> QED
    BY <1>5

LEMMA ShownIs ==
    ASSUME NEW l \in PlainLiterals
    PROVE  Shown(l) = WithTerms(l, ShownTerms(l.atom.terms, ShownSubstitutions))
  <1>1. l \in LiteralType
    BY DEF PlainLiterals
  <1>2. Replaced({l}, ShownSubstitutions)
          = {WithTerms(l, ShownTerms(l.atom.terms, ShownSubstitutions))}
    BY <1>1, ReplacedIs
  <1> QED
    BY <1>2 DEF Shown

LEMMA AnswerIs ==
    ASSUME ChainIs, Proved, FlatProblem, OneGoalOnly,
           Literals(AllKnowledge) \subseteq LiteralType,
           NEW I \in Interpretations(AllKnowledge, Last(chain).running_similarity),
           IsModel(I, problem.knowledge)
    PROVE  AnswerHolds(I)
  <1> DEFINE shown == { Shown(l) : l \in Goal }
  <1>1. Goal \subseteq PlainLiterals
    <2>1. 1 \in DOMAIN chain /\ PlainStep(chain[1])
      BY ProofIs
    <2> QED
      BY <2>1, PlainClauseIs DEF PlainStep, Goal
  <1>2. PlainSubs(ShownSubstitutions) /\ DOMAIN ShownSubstitutions = VariablesIn(Goal)
        /\ VariablesIn(Goal) = { t \in TermsOf(Goal) : t.kind = "variable" }
        /\ TermsOf(Goal) \subseteq Plain
    <2>1. /\ VariablesIn(Goal) = { t \in TermsOf(Goal) : t.kind = "variable" }
          /\ TermsOf(Goal) \subseteq Plain
      BY <1>1, TermsOfPlain
    <2>2. DOMAIN ShownSubstitutions = VariablesIn(Goal)
            /\ \A v \in VariablesIn(Goal) : ShownSubstitutions[v] = ValueFrom(v, 1)
      BY DEF ShownSubstitutions
    <2> QED
      BY <2>1, <2>2, ValuesPlain DEF PlainSubs
  <1>3. shown \subseteq PlainLiterals
    <2> SUFFICES ASSUME NEW l \in Goal PROVE Shown(l) \in PlainLiterals
      OBVIOUS
    <2>1. {l} \subseteq PlainLiterals /\ {l} \subseteq LiteralType
      BY <1>1 DEF PlainLiterals
    <2>2. Replaced({l}, ShownSubstitutions) \subseteq PlainLiterals
      BY <1>2, <2>1, ReplacedPlain
    <2>3. WithTerms(l, ShownTerms(l.atom.terms, ShownSubstitutions)) \in Replaced({l}, ShownSubstitutions)
      BY <2>1, ReplacedIs
    <2> QED
      BY <2>1, <2>2, <2>3, ShownIs
  <1> SUFFICES ASSUME NEW g \in [VariablesIn(shown) -> Elements], NEW l \in Goal
               PROVE  ~ IsTrue(Shown(l), I, g)
    BY DEF AnswerHolds
  <1>4. PICK e : e \in Elements
    BY DerivationAssumption
  <1> DEFINE r == Shown(l)
             h == [v \in PlainVariables |-> IF v \in VariablesIn(shown) THEN g[v] ELSE e]
  <1>5. h \in [PlainVariables -> Elements]
    BY <1>4
  <1>6. r \in shown /\ r \in PlainLiterals /\ l \in PlainLiterals
        /\ r = WithTerms(l, ShownTerms(l.atom.terms, ShownSubstitutions))
    BY <1>1, <1>3, ShownIs
  <1> HIDE DEF r
  <1>7. Fact(r, I, g) = Fact(r, I, h)
    <2>1. /\ VariablesIn(shown) = { t \in TermsOf(shown) : t.kind = "variable" }
          /\ TermsOf(shown) \subseteq Plain
      BY <1>3, TermsOfPlain
    <2>2. \A i \in DOMAIN r.atom.terms : r.atom.terms[i] \in TermsOf(shown)
      BY <1>3, <1>6, TermsOfPlain
    <2> HIDE DEF shown
    <2>3. \A i \in DOMAIN r.atom.terms :
             r.atom.terms[i].kind = "variable" => g[r.atom.terms[i]] = h[r.atom.terms[i]]
      BY <2>1, <2>2 DEF PlainVariables
    <2> HIDE DEF h
    <2> QED
      BY <2>3, FactAgrees
  <1> HIDE DEF h, shown
  <1>8. Fact(r, I, h) = Fact(l, I, Composed(ShownSubstitutions, I, h))
    BY <1>2, <1>6, FactReplaced
  <1>9. Fact(l, I, Composed(ShownSubstitutions, I, h)) = Fact(l, I, Valued(1, I, h))
    <2>1. \A i \in DOMAIN l.atom.terms : l.atom.terms[i] \in TermsOf(Goal)
      BY <1>1, TermsOfPlain
    <2>2. \A v \in VariablesIn(Goal) : Composed(ShownSubstitutions, I, h)[v] = Valued(1, I, h)[v]
      BY <1>2 DEF Composed, Valued, Applied, PlainVariables, ShownSubstitutions
    <2> QED
      BY <1>2, <2>1, <2>2, FactAgrees
  <1>10. ~ IsTrue(l, I, Valued(1, I, h))
    BY <1>5, ChainAnswers
  <1>11. r.polarity = l.polarity
    BY <1>6 DEF WithTerms
  <1>12. Fact(r, I, g) = Fact(l, I, Valued(1, I, h))
    BY <1>7, <1>8, <1>9
  <1>13. ~ IsTrue(r, I, g)
    BY <1>6, <1>10, <1>11, <1>12, TruthPlain
  <1> QED
    BY <1>13 DEF r
-----------------------------------------------------------------------------
(***************************************************************************)
(* What resolve builds from the answer of unify.                           *)
(***************************************************************************)

LEMMA RenamingSubs ==
    ASSUME NEW overlapping, overlapping \subseteq PlainVariables, NEW taken,
           NEW r \in Renamings(overlapping, taken)
    PROVE  /\ DOMAIN r = overlapping /\ PlainSubs(r)
           /\ \A v \in overlapping : r[v] \in PlainVariables
  <1> DEFINE names == { Numbered(v, n) : v \in overlapping, n \in Counters }
  <1>1. r \in [overlapping -> names]
    BY DEF Renamings
  <1>2. names \subseteq PlainVariables
    <2> SUFFICES ASSUME NEW v \in overlapping, NEW n \in Counters
                 PROVE  Numbered(v, n) \in PlainVariables
      OBVIOUS
    <2>1. v \in Terms /\ v.kind = "variable"
      BY DEF PlainVariables, Plain
    <2>2. Numbered(v, n) \in Terms
      BY <2>1, ResolveAssumption
    <2>3. Numbered(v, n).kind = "variable"
      BY DEF Numbered, Variable
    <2> QED
      BY <2>2, <2>3 DEF PlainVariables, Plain
  <1> HIDE DEF names
  <1> QED
    BY <1>1, <1>2 DEF PlainSubs, PlainVariables

\* One substitution after another.
Then(r, m) == [v \in DOMAIN r \cup DOMAIN m |-> Applied(Applied(v, r), m)]

LEMMA AppliedThen ==
    \A r, m, t : Applied(t, Then(r, m)) = Applied(Applied(t, r), m)
  BY DEF Then, Applied

LEMMA ReplacedThen ==
    ASSUME NEW L, L \subseteq PlainLiterals, NEW r, PlainSubs(r), NEW m
    PROVE  Replaced(Replaced(L, r), m) = Replaced(L, Then(r, m))
  <1>1. /\ L \subseteq LiteralType /\ Replaced(L, r) \subseteq LiteralType
    BY ReplacedPlain DEF PlainLiterals
  <1>2. ASSUME NEW l
        PROVE  LET k == WithTerms(l, ShownTerms(l.atom.terms, r)) IN
               WithTerms(k, ShownTerms(k.atom.terms, m))
                 = WithTerms(l, ShownTerms(l.atom.terms, Then(r, m)))
    <2> DEFINE q == l.atom.terms
               k == WithTerms(l, ShownTerms(q, r))
    <2>1. /\ k.polarity = l.polarity /\ k.atom.predicate = l.atom.predicate
          /\ k.atom.terms = ShownTerms(q, r)
      BY DEF WithTerms
    <2>2. ShownTerms(ShownTerms(q, r), m) = ShownTerms(q, Then(r, m))
      BY AppliedThen DEF ShownTerms
    <2> HIDE DEF k, q
    <2>3. WithTerms(k, ShownTerms(k.atom.terms, m)) = WithTerms(l, ShownTerms(q, Then(r, m)))
      BY <2>1, <2>2 DEF WithTerms
    <2> QED
      BY <2>3 DEF k, q
  <1> DEFINE R(l) == WithTerms(l, ShownTerms(l.atom.terms, r))
             M(k) == WithTerms(k, ShownTerms(k.atom.terms, m))
  <1>3. Replaced(Replaced(L, r), m) = { M(k) : k \in { R(l) : l \in L } }
    <2> DEFINE X == Replaced(L, r)
    <2>1. X = { R(l) : l \in L }
      BY <1>1, ReplacedIs
    <2>2. X \subseteq LiteralType
      BY <1>1
    <2> HIDE DEF X, R
    <2>3. Replaced(X, m) = { M(k) : k \in X }
      BY <2>2, ReplacedIs
    <2> QED
      BY <2>1, <2>3 DEF X
  <1>4. Replaced(L, Then(r, m)) = { WithTerms(l, ShownTerms(l.atom.terms, Then(r, m))) : l \in L }
    BY <1>1, ReplacedIs
  <1>5. \A l : M(R(l)) = WithTerms(l, ShownTerms(l.atom.terms, Then(r, m)))
    BY <1>2
  <1> HIDE DEF R, M
  <1>6. { M(k) : k \in { R(l) : l \in L } } = { M(R(l)) : l \in L }
    OBVIOUS
  <1> QED
    BY <1>3, <1>4, <1>5, <1>6

\* The variables of the target that are renamed are not replaced.
Overlap(source_literals, target_literals, a, b) ==
    SharedVariables(UnusedVariables(source_literals, a),
                    UnusedVariables(target_literals, b))

AllNames(source_literals, target_literals, a, b) ==
    UnusedVariables(source_literals, a) \cup UnusedVariables(target_literals, b)
      \cup DOMAIN a \cup DOMAIN b

\* What resolve notes of an answer for the k-th literal of the target.
BuiltFrom(d, k, b, r) ==
    LET a == d.source_substitutions
        source_literals == Others(d.source, Head(d.source))
        target_literals == Others(d.target, d.target[k])
    IN /\ r \in Renamings(Overlap(source_literals, target_literals, a, b),
                          AllNames(source_literals, target_literals, a, b))
       /\ d.resolvent = Replaced(source_literals, a)
                          \cup RenamedFirst(target_literals, r, b)

\* The answer of unify for two literals.
AnswerFor(l, k, a, b, sim) ==
    /\ FlatAnswer(l.atom, k.atom, a, b)
    /\ VariablesOf(k.atom.terms) \subseteq DOMAIN b
    /\ IsAlike(l.atom, k.atom, ShownTerms(l.atom.terms, a), ShownTerms(k.atom.terms, b), sim)

LEMMA BuiltIsDerived ==
    ASSUME NEW d, PlainClause(d.source), d.source # <<>>, PlainClause(d.target),
           NEW k \in DOMAIN d.target, NEW b, NEW r, BuiltFrom(d, k, b, r),
           Head(d.source).polarity # d.target[k].polarity,
           d.similarity \in Int,
           AnswerFor(Head(d.source), d.target[k], d.source_substitutions, b, d.similarity)
    PROVE  DerivedBy(d, k, Then(r, b))
  <1> DEFINE a == d.source_substitutions
             S == Head(d.source)
             T == d.target[k]
             R1 == Others(d.source, S)
             R2 == Others(d.target, T)
             c == Then(r, b)
             s == S.atom.terms
             t == T.atom.terms
  <1>1. /\ S \in PlainLiterals /\ T \in PlainLiterals
        /\ S \in ToSet(d.source) /\ T \in ToSet(d.target)
        /\ R1 \subseteq PlainLiterals /\ R2 \subseteq PlainLiterals
    BY PlainClauseIs DEF Others
  <1>2. /\ ToSet(s) \subseteq TermsOf(ToSet(d.source)) /\ ToSet(t) \subseteq TermsOf(ToSet(d.target))
        /\ ToSet(s) \subseteq Plain /\ ToSet(t) \subseteq Plain
    BY <1>1, PlainLiteral DEF TermsOf
  <1>3. /\ FlatAnswer(S.atom, T.atom, a, b) /\ VariablesOf(t) \subseteq DOMAIN b
        /\ IsAlike(S.atom, T.atom, ShownTerms(s, a), ShownTerms(t, b), d.similarity)
    BY DEF AnswerFor
  <1> HIDE DEF S, T, a
  <1>4. SubsOf(d.source, d.target, a) /\ SubsOf(d.source, d.target, b)
    <2>1. /\ \A v \in DOMAIN a : /\ v \in ToSet(s) /\ v.kind = "variable" /\ a[v] \in Plain
                                 /\ a[v] \in ToSet(s) \cup ToSet(t)
          /\ \A v \in DOMAIN b : /\ v \in ToSet(t) /\ v.kind = "variable" /\ b[v] \in Plain
                                 /\ b[v] \in ToSet(s) \cup ToSet(t)
      BY <1>3 DEF FlatAnswer
    <2> HIDE DEF s, t
    <2> QED
      BY <1>2, <2>1 DEF SubsOf, PlainSubs
  <1> DEFINE overlap == Overlap(R1, R2, a, b)
  <1>5. overlap \subseteq PlainVariables /\ overlap \cap DOMAIN b = {}
    <2>1. TermsOf(R2) \subseteq Plain
      BY <1>1, TermsOfPlain
    <2> QED
      BY <2>1 DEF Overlap, SharedVariables, UnusedVariables, PlainVariables
  <1>6. r \in Renamings(overlap, AllNames(R1, R2, a, b))
          /\ d.resolvent = Replaced(R1, a) \cup RenamedFirst(R2, r, b)
    BY DEF BuiltFrom, a, S, T
  <1> HIDE DEF overlap, R1, R2
  <1>7. DOMAIN r = overlap /\ PlainSubs(r) /\ \A v \in overlap : r[v] \in PlainVariables
    BY <1>5, <1>6, RenamingSubs
  <1>8. d.resolvent = Replaced(R1, a) \cup Replaced(R2, c)
    BY <1>1, <1>6, <1>7, ReplacedThen DEF RenamedFirst
  <1>9. \A v : Applied(v, c) = Applied(Applied(v, r), b)
    BY AppliedThen
  <1>10. DOMAIN c = overlap \cup DOMAIN b /\ \A v \in DOMAIN c : c[v] = Applied(Applied(v, r), b)
    BY <1>7 DEF Then
  <1> HIDE DEF c
  <1>11. SubsOf(d.source, d.target, c)
    <2> SUFFICES ASSUME NEW v \in DOMAIN c
                 PROVE  /\ v \in Plain /\ v.kind = "variable" /\ c[v] \in Plain
                        /\ c[v].kind = "constant" =>
                             c[v] \in TermsOf(ToSet(d.source)) \cup TermsOf(ToSet(d.target))
      BY DEF SubsOf, PlainSubs
    <2>1. v \in Plain /\ v.kind = "variable"
      BY <1>4, <1>5, <1>10 DEF SubsOf, PlainSubs, PlainVariables
    <2>2. Applied(v, r) \in Plain /\ Applied(v, r).kind = "variable"
      BY <1>7, <2>1 DEF Applied, PlainVariables
    <2>3. c[v] = Applied(Applied(v, r), b)
      BY <1>10
    <2>4. c[v] \in Plain
      BY <1>4, <2>2, <2>3, AppliedPlain DEF SubsOf
    <2>5. ASSUME c[v].kind = "constant"
          PROVE  c[v] \in TermsOf(ToSet(d.source)) \cup TermsOf(ToSet(d.target))
      BY <1>4, <2>2, <2>3, <2>5 DEF SubsOf, Applied
    <2> QED
      BY <2>1, <2>4, <2>5
  <1>12. \A i \in DOMAIN t : Applied(t[i], c) = Applied(t[i], b)
    <2> SUFFICES ASSUME NEW i \in DOMAIN t PROVE Applied(t[i], c) = Applied(t[i], b)
      OBVIOUS
    <2>1. t[i] \in ToSet(t) /\ t[i] \in Plain
      BY <1>1, PlainLiteral
    <2>2. t[i] \notin overlap
      <3>1. VariablesOf(t) = { u \in ToSet(t) : u.kind = "variable" }
        BY <1>2, VariablesOfPlain
      <3> QED
        BY <1>3, <1>5, <2>1, <3>1 DEF PlainVariables
    <2>3. Applied(t[i], r) = t[i]
      BY <1>7, <2>2 DEF Applied
    <2> QED
      BY <1>9, <2>3
  <1>13. Matching(S, T, a, c, d.similarity)
    <2>1. DOMAIN s = DOMAIN t
      BY <1>3 DEF IsAlike
    <2>2. Similarity[S.atom.predicate, T.atom.predicate] >= d.similarity
      <3> DEFINE x == Similarity[S.atom.predicate, T.atom.predicate]
      <3>1. x \in Int
        BY <1>1, PlainLiteral, UnifyAssumption
      <3>2. d.similarity <= x
        BY <1>3 DEF IsAlike
      <3> HIDE DEF x
      <3>3. x >= d.similarity
        BY <3>1, <3>2
      <3> QED
        BY <3>3 DEF x
    <2>3. ASSUME NEW i \in DOMAIN s
          PROVE  LET x == Applied(s[i], a)
                     y == Applied(t[i], c)
                 IN x = y \/ /\ x.kind = "constant" /\ y.kind = "constant"
                             /\ Similarity[x.symbol, y.symbol] >= d.similarity
      <3> DEFINE x == Applied(s[i], a)
                 y == Applied(t[i], c)
      <3>1. y = Applied(t[i], b)
        BY <1>12, <2>1, <2>3
      <3>2. \/ x = y
            \/ /\ x.kind = "constant" /\ y.kind = "constant"
               /\ d.similarity <= Similarity[x.symbol, y.symbol]
        BY <1>3, <2>1, <2>3, <3>1 DEF IsAlike, ShownTerms
      <3>3. x \in Plain /\ y \in Plain
        <4>1. s[i] \in Plain /\ t[i] \in Plain
          BY <1>1, <2>1, <2>3, PlainLiteral
        <4> QED
          BY <1>4, <1>11, <4>1, AppliedPlain DEF SubsOf
      <3> HIDE DEF x, y
      <3>4. ASSUME x.kind = "constant", y.kind = "constant",
                   d.similarity <= Similarity[x.symbol, y.symbol]
            PROVE  Similarity[x.symbol, y.symbol] >= d.similarity
        <4> DEFINE z == Similarity[x.symbol, y.symbol]
        <4>1. z \in Int /\ d.similarity <= z
          BY <3>3, <3>4, UnifyAssumption DEF Plain
        <4> HIDE DEF z
        <4>2. z >= d.similarity
          BY <4>1
        <4> QED
          BY <4>2 DEF z
      <3>5. x = y \/ /\ x.kind = "constant" /\ y.kind = "constant"
                     /\ Similarity[x.symbol, y.symbol] >= d.similarity
        BY <3>2, <3>4
      <3> QED
        BY <3>5 DEF x, y
    <2>4. S.polarity # T.polarity
      BY DEF S, T
    <2> HIDE DEF s, t
    <2> QED
      BY <2>1, <2>2, <2>3, <2>4 DEF Matching, s, t
  <1> HIDE DEF s, t
  <1>14. /\ SubsOf(d.source, d.target, c) /\ SubsOf(d.source, d.target, a)
         /\ Matching(S, T, a, c, d.similarity)
         /\ d.resolvent = Replaced(R1, a) \cup Replaced(R2, c)
    BY <1>4, <1>8, <1>11, <1>13
  <1> QED
    BY <1>14 DEF DerivedBy, S, T, a, c, R1, R2
-----------------------------------------------------------------------------
(***************************************************************************)
(* The ground instances of what is resolved and of the resolvent.          *)
(***************************************************************************)

\* What is given to the variables of the literals L, if the substitution m is
\* made first and its variables are given f.
Grounding(L, m, f) == [v \in VariablesIn(L) |-> Applied(Applied(v, m), f)]

\* Every variable is given something.
Completed(r, u) == [v \in PlainVariables |-> IF v \in DOMAIN r THEN r[v] ELSE u]

LEMMA GroundUniverse ==
    ASSUME NEW f \in [PlainVariables -> Universe], NEW t \in Plain
    PROVE  Applied(t, f) \in Universe /\ (t.kind = "constant" => Applied(t, f) = t)
  <1>1. CASE t.kind = "variable"
    BY <1>1 DEF Applied, PlainVariables
  <1>2. CASE t.kind # "variable"
    <2>1. t.kind = "constant" /\ t \in Universe
      BY <1>2, PlainTerm, ResolveAssumption DEF Plain
    <2>2. Applied(t, f) = t
      BY <1>2 DEF Applied, PlainVariables
    <2> QED
      BY <2>1, <2>2
  <1> QED
    BY <1>1, <1>2

LEMMA GroundingIs ==
    ASSUME NEW L, L \subseteq PlainLiterals, NEW m, PlainSubs(m),
           NEW f \in [PlainVariables -> Universe]
    PROVE  /\ Grounding(L, m, f) \in InstancesBy(L)
           /\ \A t \in TermsOf(L) :
                 Applied(t, Grounding(L, m, f)) = Applied(Applied(t, m), f)
  <1>1. TermsOf(L) \subseteq Plain
        /\ VariablesIn(L) = { t \in TermsOf(L) : t.kind = "variable" }
    BY TermsOfPlain
  <1>2. \A t \in TermsOf(L) : Applied(Applied(t, m), f) \in Universe
    BY <1>1, AppliedPlain, GroundUniverse
  <1>3. Grounding(L, m, f) \in InstancesBy(L)
    BY <1>1, <1>2 DEF Grounding, InstancesBy
  <1>4. ASSUME NEW t \in TermsOf(L), t.kind # "variable"
        PROVE  Applied(t, Grounding(L, m, f)) = Applied(Applied(t, m), f)
    <2>1. Applied(t, m) = t
      BY <1>1, <1>4, AppliedPlain
    <2>2. t \notin DOMAIN f /\ t \notin DOMAIN Grounding(L, m, f)
      BY <1>1, <1>4 DEF PlainVariables, Grounding
    <2> QED
      BY <2>1, <2>2 DEF Applied
  <1>5. ASSUME NEW t \in TermsOf(L), t.kind = "variable"
        PROVE  Applied(t, Grounding(L, m, f)) = Applied(Applied(t, m), f)
    <2>1. t \in DOMAIN Grounding(L, m, f)
            /\ Grounding(L, m, f)[t] = Applied(Applied(t, m), f)
      BY <1>1, <1>5 DEF Grounding
    <2> HIDE DEF Grounding
    <2> QED
      BY <2>1 DEF Applied
  <1> QED
    BY <1>3, <1>4, <1>5

\* The instance of a literal is the instance of what it is replaced with.
LEMMA GroundReplaced ==
    ASSUME NEW L, L \subseteq PlainLiterals, NEW m, PlainSubs(m), NEW l \in L,
           NEW f \in [PlainVariables -> Universe],
           NEW R, R \subseteq PlainLiterals, NEW r \in InstancesBy(R),
           \A v \in DOMAIN r : f[v] = r[v],
           WithTerms(l, ShownTerms(l.atom.terms, m)) \in R
    PROVE  LET k == WithTerms(l, ShownTerms(l.atom.terms, m)) IN
           WithTerms(l, GroundTerms(l.atom.terms, Grounding(L, m, f)))
             = WithTerms(k, GroundTerms(k.atom.terms, r))
  <1> DEFINE k == WithTerms(l, ShownTerms(l.atom.terms, m))
             q == l.atom.terms
             g == Grounding(L, m, f)
  <1>1. /\ k.polarity = l.polarity /\ k.atom.predicate = l.atom.predicate
        /\ k.atom.terms = ShownTerms(q, m)
    BY DEF WithTerms
  <1>2. DOMAIN ShownTerms(q, m) = DOMAIN q
          /\ \A i \in DOMAIN q : ShownTerms(q, m)[i] = Applied(q[i], m)
    BY DEF ShownTerms
  <1>3. k \in R /\ k \in PlainLiterals /\ l \in PlainLiterals
    OBVIOUS
  <1>4. /\ TermsOf(R) \subseteq Plain /\ VariablesIn(R) = { t \in TermsOf(R) : t.kind = "variable" }
        /\ \A i \in DOMAIN k.atom.terms : k.atom.terms[i] \in TermsOf(R)
    BY <1>3, TermsOfPlain
  <1>5. \A i \in DOMAIN q : q[i] \in TermsOf(L) /\ q[i] \in Plain
    BY <1>3, TermsOfPlain, PlainLiteral
  <1> HIDE DEF k, q
  <1>6. ASSUME NEW i \in DOMAIN q
        PROVE  Ground(q[i], g) = Ground(ShownTerms(q, m)[i], r)
    <2> DEFINE t == ShownTerms(q, m)[i]
    <2>1. t \in TermsOf(R) /\ t \in Plain /\ t = Applied(q[i], m)
      BY <1>1, <1>2, <1>4
    <2>2. Ground(q[i], g) = Applied(Applied(q[i], m), f)
      BY <1>5, GroundPlain, GroundingIs
    <2>3. DOMAIN r = VariablesIn(R)
      BY DEF InstancesBy
    <2> HIDE DEF t
    <2>4. Applied(t, f) = Applied(t, r)
      BY <1>4, <2>1, <2>3 DEF Applied, PlainVariables
    <2>5. Ground(t, r) = Applied(t, r)
      BY <2>1, GroundPlain
    <2> QED
      BY <2>1, <2>2, <2>4, <2>5 DEF t
  <1>7. GroundTerms(q, g) = GroundTerms(k.atom.terms, r)
    BY <1>1, <1>2, <1>6 DEF GroundTerms
  <1> HIDE DEF g
  <1>8. WithTerms(l, GroundTerms(q, g)) = WithTerms(k, GroundTerms(k.atom.terms, r))
    BY <1>1, <1>7 DEF WithTerms
  <1> QED
    BY <1>8 DEF k, q, g

\* What resolve has noted, as a step of the chain would have it.
StepOf(s) ==
    [source |-> clauses.source, target |-> clauses.target,
     source_substitutions |-> s.source_substitutions,
     resolvent |-> s.resolvent, similarity |-> s.similarity]

LEMMA DerivedFollows ==
    ASSUME PlainClause(clauses.source), clauses.source # <<>>, PlainClause(clauses.target),
           NEW s, s.literal \in DOMAIN clauses.target, NEW b,
           DerivedBy(StepOf(s), s.literal, b)
    PROVE  Follows(s)
  <1> DEFINE src == ToSet(clauses.source)
             tgt == ToSet(clauses.target)
             S == Head(clauses.source)
             T == clauses.target[s.literal]
             R1 == Others(clauses.source, S)
             R2 == Others(clauses.target, T)
             a == s.source_substitutions
  <1>1. /\ PlainSubs(a) /\ PlainSubs(b) /\ Matching(S, T, a, b, s.similarity)
        /\ s.resolvent = Replaced(R1, a) \cup Replaced(R2, b)
    BY DEF DerivedBy, StepOf, SubsOf
  <1>2. /\ src \subseteq PlainLiterals /\ tgt \subseteq PlainLiterals
        /\ S \in src /\ T \in tgt /\ R1 \subseteq src /\ R2 \subseteq tgt
    BY PlainClauseIs DEF Others
  <1>3. s.resolvent \subseteq PlainLiterals
    BY <1>1, <1>2, ReplacedPlain
  <1>4. PICK u : u \in Universe
    BY ResolveAssumption
  <1>5. SourceLiteral = S /\ Rests(s) = [source |-> R1, target |-> R2]
    BY DEF SourceLiteral, Rests
  <1> HIDE DEF S, T, R1, R2, src, tgt, a
  <1> SUFFICES ASSUME NEW r \in InstancesBy(s.resolvent)
               PROVE  \E g \in InstancesBy(ToSet(clauses.source)),
                         h \in InstancesBy(ToSet(clauses.target)) :
                         /\ Matches(CHOOSE l \in Instance({SourceLiteral}, g) : TRUE,
                                    CHOOSE k \in Instance({clauses.target[s.literal]}, h) : TRUE,
                                    s.similarity)
                         /\ Instance(Rests(s).source, g) \cup Instance(Rests(s).target, h)
                              \subseteq Instance(s.resolvent, r)
    BY DEF Follows
  <1> DEFINE f == Completed(r, u)
             g == Grounding(src, a, f)
             h == Grounding(tgt, b, f)
  <1>6. f \in [PlainVariables -> Universe] /\ \A v \in DOMAIN r : f[v] = r[v]
    <2>1. VariablesIn(s.resolvent) \subseteq PlainVariables
      BY <1>3, TermsOfPlain DEF PlainVariables
    <2>2. r \in [VariablesIn(s.resolvent) -> Universe]
      BY DEF InstancesBy
    <2> QED
      BY <1>4, <2>1, <2>2 DEF Completed
  <1> HIDE DEF f
  <1>7. /\ g \in InstancesBy(src) /\ h \in InstancesBy(tgt)
        /\ \A t \in TermsOf(src) : Applied(t, g) = Applied(Applied(t, a), f)
        /\ \A t \in TermsOf(tgt) : Applied(t, h) = Applied(Applied(t, b), f)
    BY <1>1, <1>2, <1>6, GroundingIs
  <1>8. Instance(R1, g) \subseteq Instance(s.resolvent, r)
    <2>1. R1 \subseteq LiteralType /\ s.resolvent \subseteq LiteralType
      BY <1>2, <1>3 DEF PlainLiterals
    <2> SUFFICES ASSUME NEW l \in R1
                 PROVE  WithTerms(l, GroundTerms(l.atom.terms, g)) \in Instance(s.resolvent, r)
      BY <2>1, InstanceIs
    <2> DEFINE k == WithTerms(l, ShownTerms(l.atom.terms, a))
    <2>2. k \in s.resolvent
      BY <1>1, <2>1, ReplacedIs
    <2>3. WithTerms(l, GroundTerms(l.atom.terms, g)) = WithTerms(k, GroundTerms(k.atom.terms, r))
      BY <1>1, <1>2, <1>3, <1>6, <2>2, GroundReplaced
    <2> QED
      BY <2>1, <2>2, <2>3, InstanceIs
  <1>9. Instance(R2, h) \subseteq Instance(s.resolvent, r)
    <2>1. R2 \subseteq LiteralType /\ s.resolvent \subseteq LiteralType
      BY <1>2, <1>3 DEF PlainLiterals
    <2> SUFFICES ASSUME NEW l \in R2
                 PROVE  WithTerms(l, GroundTerms(l.atom.terms, h)) \in Instance(s.resolvent, r)
      BY <2>1, InstanceIs
    <2> DEFINE k == WithTerms(l, ShownTerms(l.atom.terms, b))
    <2>2. k \in s.resolvent
      BY <1>1, <2>1, ReplacedIs
    <2>3. WithTerms(l, GroundTerms(l.atom.terms, h)) = WithTerms(k, GroundTerms(k.atom.terms, r))
      BY <1>1, <1>2, <1>3, <1>6, <2>2, GroundReplaced
    <2> QED
      BY <2>1, <2>2, <2>3, InstanceIs
  <1> HIDE DEF g, h
  <1> DEFINE l == WithTerms(S, GroundTerms(S.atom.terms, g))
             k == WithTerms(T, GroundTerms(T.atom.terms, h))
  <1>10. (CHOOSE x \in Instance({S}, g) : TRUE) = l /\ (CHOOSE x \in Instance({T}, h) : TRUE) = k
    <2>1. {S} \subseteq LiteralType /\ {T} \subseteq LiteralType
      BY <1>2 DEF PlainLiterals
    <2>2. /\ Instance({S}, g) = { WithTerms(x, GroundTerms(x.atom.terms, g)) : x \in {S} }
          /\ Instance({T}, h) = { WithTerms(x, GroundTerms(x.atom.terms, h)) : x \in {T} }
      BY <2>1, InstanceIs
    <2>3. Instance({S}, g) = {l} /\ Instance({T}, h) = {k}
      BY <2>2
    <2> QED
      BY <2>3
  <1>11. Matches(l, k, s.similarity)
    <2>1. /\ DOMAIN l.atom.terms = DOMAIN S.atom.terms
          /\ \A i \in DOMAIN S.atom.terms : l.atom.terms[i] = Ground(S.atom.terms[i], g)
          /\ DOMAIN k.atom.terms = DOMAIN T.atom.terms
          /\ \A i \in DOMAIN T.atom.terms : k.atom.terms[i] = Ground(T.atom.terms[i], h)
      BY DEF WithTerms, GroundTerms
    <2> HIDE DEF l, k
    <2> SUFFICES ASSUME NEW i \in DOMAIN S.atom.terms
                 PROVE  \/ l.atom.terms[i] = k.atom.terms[i]
                        \/ Similarity[l.atom.terms[i].symbol, k.atom.terms[i].symbol] >= s.similarity
      BY <2>1 DEF Matches
    <2> DEFINE x == Applied(S.atom.terms[i], a)
               y == Applied(T.atom.terms[i], b)
    <2>2. i \in DOMAIN T.atom.terms
          /\ \/ x = y
             \/ /\ x.kind = "constant" /\ y.kind = "constant"
                /\ Similarity[x.symbol, y.symbol] >= s.similarity
      BY <1>1 DEF Matching
    <2>3. /\ S.atom.terms[i] \in TermsOf(src) /\ T.atom.terms[i] \in TermsOf(tgt)
          /\ S.atom.terms[i] \in Plain /\ T.atom.terms[i] \in Plain
      BY <1>2, <2>2, TermsOfPlain, PlainLiteral
    <2>4. x \in Plain /\ y \in Plain
      BY <1>1, <2>3, AppliedPlain
    <2>5. l.atom.terms[i] = Applied(x, f) /\ k.atom.terms[i] = Applied(y, f)
      BY <1>7, <2>1, <2>2, <2>3, GroundPlain
    <2> HIDE DEF x, y
    <2>6. x.kind = "constant" => Applied(x, f) = x
      BY <1>6, <2>4, GroundUniverse
    <2>7. y.kind = "constant" => Applied(y, f) = y
      BY <1>6, <2>4, GroundUniverse
    <2> QED
      BY <2>2, <2>5, <2>6, <2>7
  <1> HIDE DEF l, k
  <1>12. Matches(CHOOSE x \in Instance({SourceLiteral}, g) : TRUE,
                 CHOOSE x \in Instance({clauses.target[s.literal]}, h) : TRUE, s.similarity)
    BY <1>5, <1>10, <1>11 DEF T
  <1>13. Rests(s).source = R1 /\ Rests(s).target = R2
    BY <1>5
  <1>14. Instance(Rests(s).source, g) \cup Instance(Rests(s).target, h)
           \subseteq Instance(s.resolvent, r)
    BY <1>8, <1>9, <1>13
  <1> QED
    BY <1>7, <1>12, <1>14 DEF src, tgt
-----------------------------------------------------------------------------
(***************************************************************************)
(* The new names are told apart from all that are known.                   *)
(***************************************************************************)

LEMMA FiniteList ==
    ASSUME NEW T, NEW q \in Seq(T)
    PROVE  IsFiniteSet(ToSet(q))
  <1>1. Len(q) \in Nat /\ DOMAIN q = 1 .. Len(q) /\ ToSet(q) = { q[i] : i \in 1 .. Len(q) }
        /\ q \in [1 .. Len(q) -> T]
    BY SeqElements
  <1> DEFINE n == Len(q)
             S == ToSet(q)
  <1>2. q \in [1 .. n -> S] /\ \A e \in S : \E i \in 1 .. n : q[i] = e
    BY <1>1
  <1>3. q \in Surjection(1 .. n, S)
    BY <1>2 DEF Surjection
  <1>4. IsFiniteSet(1 .. n)
    BY <1>1, FS_Interval
  <1> HIDE DEF n, S
  <1>5. IsFiniteSet(S)
    BY <1>3, <1>4, FS_Surjection
  <1> QED
    BY <1>5 DEF S

LEMMA FiniteTerms ==
    ASSUME NEW L, IsFiniteSet(L), L \subseteq PlainLiterals
    PROVE  IsFiniteSet(TermsOf(L))
  <1> DEFINE f == [l \in L |-> ToSet(l.atom.terms)]
             S == { ToSet(l.atom.terms) : l \in L }
  <1>1. f \in Surjection(L, S)
    BY DEF Surjection
  <1>2. IsFiniteSet(S)
    <2> HIDE DEF f, S
    <2> QED
      BY <1>1, FS_Surjection
  <1>3. \A T \in S : IsFiniteSet(T)
    <2>1. ASSUME NEW l \in L PROVE IsFiniteSet(ToSet(l.atom.terms))
      <3>1. l.atom.terms \in Seq(Plain)
        BY PlainLiteral
      <3> QED
        BY <3>1, FiniteList
    <2> QED
      BY <2>1
  <1>4. IsFiniteSet(UNION S)
    <2> HIDE DEF S
    <2> QED
      BY <1>2, <1>3, FS_UNION
  <1> QED
    BY <1>4 DEF TermsOf

LEMMA NewNames ==
    ASSUME NEW overlapping, IsFiniteSet(overlapping), NEW taken,
           NEW r \in Renamings(overlapping, taken)
    PROVE  /\ \A v \in overlapping : r[v] \notin taken
           /\ \A v, w \in overlapping : r[v] = r[w] => v = w
  <1> DEFINE n == Cardinality(overlapping)
             orders == { o \in [1 .. n -> overlapping] : IsInjective(o) }
             names == { Numbered(v, m) : v \in overlapping, m \in Counters }
             Given(q, o) == \A i \in DOMAIN o :
                IsNewName(q[o[i]], o[i], taken \cup { q[o[j]] : j \in 1 .. i - 1 })
  <1>0. \E o \in orders : Given(r, o)
    <2>1. Renamings(overlapping, taken)
            = { q \in [overlapping -> names] : \E o \in orders : Given(q, o) }
      BY DEF Renamings
    <2> HIDE DEF orders, names, Given
    <2> QED
      BY <2>1, Zenon
  <1>1. PICK o : /\ o \in [1 .. n -> overlapping] /\ IsInjective(o)
                 /\ \A i \in DOMAIN o :
                      IsNewName(r[o[i]], o[i], taken \cup { r[o[j]] : j \in 1 .. i - 1 })
    BY <1>0, Zenon
  <1>2. n \in Nat
    BY FS_CardinalityType
  <1>3. IsFiniteSet(1 .. n) /\ Cardinality(1 .. n) = n
    <2>1. 1 \in Int /\ n \in Int /\ (IF 1 > n THEN 0 ELSE n - 1 + 1) = n
      BY <1>2
    <2> HIDE DEF n
    <2> QED
      BY <2>1, FS_Interval
  <1>4. \A v \in overlapping : \E i \in 1 .. n : o[i] = v
    <2>1. o \in Injection(1 .. n, overlapping)
      BY <1>1 DEF Injection
    <2>2. Cardinality(1 .. n) = Cardinality(overlapping)
      BY <1>3
    <2>3. o \in Surjection(1 .. n, overlapping)
      <3> HIDE DEF n
      <3> QED
        BY <2>1, <2>2, FS_Injection
    <2> QED
      BY <2>3 DEF Surjection
  <1> HIDE DEF n, orders, Given
  <1>5. \A new, v, S : IsNewName(new, v, S) => new \notin S
    BY DEF IsNewName
  <1>6. \A i \in 1 .. n : r[o[i]] \notin taken \cup { r[o[j]] : j \in 1 .. i - 1 }
    BY <1>1, <1>5
  <1>7. \A i, j \in 1 .. n : j < i => j \in 1 .. i - 1
    BY <1>2
  <1>8. \A i, j \in 1 .. n : j < i => r[o[i]] # r[o[j]]
    BY <1>6, <1>7
  <1>9. \A i, j \in 1 .. n : i < j \/ j < i \/ i = j
    BY <1>2
  <1>10. \A v, w \in overlapping : r[v] = r[w] => v = w
    BY <1>4, <1>8, <1>9
  <1> QED
    BY <1>4, <1>6, <1>10
-----------------------------------------------------------------------------
(***************************************************************************)
(* No resolvent of instances is missed.                                    *)
(***************************************************************************)

MostGeneral(s, t, a, b) ==
    \A p \in Solutions(s, t) : IsInstance(a, p[1], p[1]) /\ IsInstance(b, p[2], p[1])

\* Two literals of two clauses whose instances are the same.
SameInstances(S, T, a, b, src, g, tgt, h) ==
    /\ S \in PlainLiterals /\ T \in PlainLiterals
    /\ FlatAnswer(S.atom, T.atom, a, b) /\ MostGeneral(S.atom, T.atom, a, b)
    /\ src \subseteq PlainLiterals /\ S \in src /\ g \in InstancesBy(src)
    /\ tgt \subseteq PlainLiterals /\ T \in tgt /\ h \in InstancesBy(tgt)
    /\ Agree(S.atom, T.atom, g, h)

\* What the variables are given are instances of what they are bound to.
ValuesAre(a, b, g, h) ==
    /\ \A v \in DOMAIN a : g[v] = Applied(a[v], g)
    /\ \A v \in DOMAIN b : h[v] = Applied(b[v], g)

LEMMA SolutionValues ==
    ASSUME NEW S, NEW T, NEW a, NEW b, NEW src, NEW g, NEW tgt, NEW h,
           SameInstances(S, T, a, b, src, g, tgt, h)
    PROVE  ValuesAre(a, b, g, h)
  <1> DEFINE s == S.atom.terms
             t == T.atom.terms
             g1 == [v \in VariablesOf(s) |-> g[v]]
             h1 == [v \in VariablesOf(t) |-> h[v]]
  <1>0. /\ S \in PlainLiterals /\ T \in PlainLiterals
        /\ FlatAnswer(S.atom, T.atom, a, b) /\ MostGeneral(S.atom, T.atom, a, b)
        /\ src \subseteq PlainLiterals /\ S \in src /\ g \in InstancesBy(src)
        /\ tgt \subseteq PlainLiterals /\ T \in tgt /\ h \in InstancesBy(tgt)
        /\ Agree(S.atom, T.atom, g, h)
    BY DEF SameInstances
  <1> USE <1>0
  <1>1. /\ VariablesOf(s) = { u \in ToSet(s) : u.kind = "variable" }
        /\ VariablesOf(t) = { u \in ToSet(t) : u.kind = "variable" }
        /\ VariablesOf(s) \subseteq VariablesIn(src) /\ VariablesOf(t) \subseteq VariablesIn(tgt)
    BY PlainLiteral, VariablesOfPlain DEF VariablesIn
  <1>2. /\ DOMAIN g = VariablesIn(src) /\ DOMAIN h = VariablesIn(tgt)
        /\ \A u \in DOMAIN g \cup DOMAIN h : u.kind = "variable"
        /\ \A v \in DOMAIN g : g[v] \in Universe
        /\ \A v \in DOMAIN h : h[v] \in Universe
    BY TermsOfPlain DEF InstancesBy
  <1>3. \A u \in ToSet(s) : Ground(u, g1) = Applied(u, g) /\ Ground(u, g) = Applied(u, g)
    <2> SUFFICES ASSUME NEW u \in ToSet(s)
                 PROVE  Ground(u, g1) = Applied(u, g) /\ Ground(u, g) = Applied(u, g)
      OBVIOUS
    <2>1. u \in Plain
      BY PlainLiteral
    <2>2. Applied(u, g1) = Applied(u, g)
      BY <1>1, <1>2 DEF Applied
    <2> QED
      BY <2>1, <2>2, GroundPlain
  <1>4. \A u \in ToSet(t) : Ground(u, h1) = Ground(u, h)
    <2> SUFFICES ASSUME NEW u \in ToSet(t) PROVE Ground(u, h1) = Ground(u, h)
      OBVIOUS
    <2>1. u \in Plain
      BY PlainLiteral
    <2>2. Applied(u, h1) = Applied(u, h)
      BY <1>1, <1>2 DEF Applied
    <2> QED
      BY <2>1, <2>2, GroundPlain
  <1>5. g1 \in Groundings(s) /\ h1 \in Groundings(t)
    BY <1>1, <1>2 DEF Groundings
  <1> HIDE DEF g1, h1
  <1>6. Agree(S.atom, T.atom, g1, h1)
    <2>1. /\ Len(s) = Len(t)
          /\ \A i \in DOMAIN s : Ground(s[i], g) = Ground(t[i], h)
      BY DEF Agree
    <2>2. /\ DOMAIN s = DOMAIN t
          /\ \A i \in DOMAIN s : s[i] \in ToSet(s) /\ t[i] \in ToSet(t)
      BY <2>1, PlainLiteral
    <2>3. \A i \in DOMAIN s : Ground(s[i], g1) = Ground(t[i], h1)
      BY <1>3, <1>4, <2>1, <2>2
    <2> QED
      BY <2>1, <2>3 DEF Agree
  <1>7. <<g1, h1>> \in Solutions(S.atom, T.atom)
    BY <1>5, <1>6 DEF Solutions
  <1>8. IsInstance(a, g1, g1) /\ IsInstance(b, h1, g1)
    BY <1>7 DEF MostGeneral
  <1>9. \A u \in ToSet(s) \cup ToSet(t) :
           u \in Plain /\ (u.kind = "variable" => u \in ToSet(s)) => Ground(u, g1) = Applied(u, g)
    <2> SUFFICES ASSUME NEW u \in ToSet(s) \cup ToSet(t), u \in Plain,
                        u.kind = "variable" => u \in ToSet(s)
                 PROVE  Ground(u, g1) = Applied(u, g)
      OBVIOUS
    <2>1. CASE u.kind = "variable"
      BY <1>3, <2>1
    <2>2. CASE u.kind # "variable"
      <3>1. u \notin DOMAIN g /\ u \notin DOMAIN g1
        BY <1>1, <1>2, <2>2 DEF g1
      <3> QED
        BY <3>1, GroundPlain DEF Applied
    <2> QED
      BY <2>1, <2>2
  <1>10. ASSUME NEW v \in DOMAIN a PROVE g[v] = Applied(a[v], g)
    <2>1. v \in VariablesOf(s) /\ a[v] \in Plain /\ a[v] \in ToSet(s) \cup ToSet(t)
          /\ (a[v].kind = "variable" => a[v] \in ToSet(s))
      BY <1>1 DEF FlatAnswer
    <2>2. g1[v] = Ground(a[v], g1)
      BY <1>8 DEF IsInstance
    <2>3. g1[v] = g[v]
      BY <2>1 DEF g1
    <2> QED
      BY <1>9, <2>1, <2>2, <2>3
  <1>11. ASSUME NEW v \in DOMAIN b PROVE h[v] = Applied(b[v], g)
    <2>1. v \in VariablesOf(t) /\ b[v] \in Plain /\ b[v] \in ToSet(s) \cup ToSet(t)
          /\ (b[v].kind = "variable" => b[v] \in ToSet(s))
      BY <1>1 DEF FlatAnswer
    <2>2. h1[v] = Ground(b[v], g1)
      BY <1>8 DEF IsInstance
    <2>3. h1[v] = h[v]
      BY <2>1 DEF h1
    <2> QED
      BY <1>9, <2>1, <2>2, <2>3
  <1> QED
    BY <1>10, <1>11 DEF ValuesAre

\* A clause's instance is that of what it is replaced with, if the assignments
\* agree on its terms.
LEMMA InstanceReplaced ==
    ASSUME NEW L, L \subseteq PlainLiterals, NEW m, PlainSubs(m), NEW g,
           NEW f \in [PlainVariables -> Universe],
           NEW R, R \subseteq PlainLiterals, Replaced(L, m) \subseteq R,
           NEW r \in InstancesBy(R), \A v \in DOMAIN r : f[v] = r[v],
           \A t \in TermsOf(L) : Applied(Applied(t, m), f) = Applied(t, g)
    PROVE  Instance(L, g) = Instance(Replaced(L, m), r)
  <1> DEFINE k(l) == WithTerms(l, ShownTerms(l.atom.terms, m))
             Own(l) == WithTerms(l, GroundTerms(l.atom.terms, g))
             New(j) == WithTerms(j, GroundTerms(j.atom.terms, r))
             X == Replaced(L, m)
  <1>1. L \subseteq LiteralType /\ R \subseteq LiteralType /\ X \subseteq LiteralType
    BY DEF PlainLiterals
  <1>2. X = { k(l) : l \in L } /\ Instance(L, g) = { Own(l) : l \in L }
    BY <1>1, ReplacedIs, InstanceIs
  <1>3. Instance(X, r) = { New(j) : j \in X }
    <2> HIDE DEF X
    <2> QED
      BY <1>1, InstanceIs
  <1>4. ASSUME NEW l \in L PROVE Own(l) = New(k(l))
    <2>1. k(l) \in R
      BY <1>2
    <2>2. WithTerms(l, GroundTerms(l.atom.terms, Grounding(L, m, f))) = New(k(l))
      BY <2>1, GroundReplaced
    <2>3. GroundTerms(l.atom.terms, Grounding(L, m, f)) = GroundTerms(l.atom.terms, g)
      <3>1. ASSUME NEW i \in DOMAIN l.atom.terms
            PROVE  Ground(l.atom.terms[i], Grounding(L, m, f)) = Ground(l.atom.terms[i], g)
        <4>1. l.atom.terms[i] \in TermsOf(L) /\ l.atom.terms[i] \in Plain
          BY TermsOfPlain, PlainLiteral
        <4> QED
          BY <4>1, GroundingIs, GroundPlain
      <3> QED
        BY <3>1 DEF GroundTerms
    <2> QED
      BY <2>2, <2>3
  <1> HIDE DEF k, Own, New, X
  <1> QED
    BY <1>2, <1>3, <1>4 DEF X

\* The variables that remain of the source's literal and of its other literals.
SourceLeft(S, R1, a) == UnusedVariables(R1, a) \cup (VariablesOf(S.atom.terms) \ DOMAIN a)

\* What the variables that remain are given.
Inherited(g, h, left, target_vars, r, u) ==
    [x \in PlainVariables |->
        IF x \in left THEN g[x]
        ELSE IF \E t \in target_vars : Applied(t, r) = x
             THEN h[CHOOSE t \in target_vars : Applied(t, r) = x]
             ELSE u]

\* Every variable of the target that remains has a name of its own.
NamedApart(left, target_vars, r, b) ==
    /\ \A t \in target_vars : /\ Applied(t, r) \in PlainVariables
                              /\ Applied(t, r) \notin left
                              /\ Applied(t, r) \notin DOMAIN b
    /\ \A t, w \in target_vars : Applied(t, r) = Applied(w, r) => t = w

LEMMA NamesAreApart ==
    ASSUME PlainClause(clauses.source), clauses.source # <<>>, PlainClause(clauses.target),
           NamesAreKnown, NEW k \in DOMAIN clauses.target, NEW a, NEW b,
           NEW R1, R1 = Others(clauses.source, SourceLiteral),
           NEW R2, R2 = Others(clauses.target, clauses.target[k]),
           NEW r \in Renamings(Overlap(R1, R2, a, b), AllNames(R1, R2, a, b))
    PROVE  NamedApart(SourceLeft(SourceLiteral, R1, a), UnusedVariables(R2, b), r, b)
  <1> DEFINE src == ToSet(clauses.source)
             tgt == ToSet(clauses.target)
             S == SourceLiteral
             source_vars == UnusedVariables(R1, a)
             target_vars == UnusedVariables(R2, b)
             overlap == Overlap(R1, R2, a, b)
             taken == AllNames(R1, R2, a, b)
             left == SourceLeft(S, R1, a)
  <1>1. /\ src \subseteq PlainLiterals /\ tgt \subseteq PlainLiterals
        /\ S \in src /\ R1 \subseteq src /\ R2 \subseteq tgt
    BY PlainClauseIs DEF Others, SourceLiteral
  <1>2. /\ TermsOf(R1) \subseteq TermsOf(src) /\ TermsOf(R2) \subseteq TermsOf(tgt)
        /\ TermsOf(src) \subseteq Plain /\ TermsOf(tgt) \subseteq Plain
        /\ R1 \subseteq PlainLiterals /\ R2 \subseteq PlainLiterals
    BY <1>1, TermsOfPlain DEF TermsOf
  <1>3. IsFiniteSet(overlap)
    <2>1. IsFiniteSet(tgt)
      BY FiniteList DEF PlainClause
    <2>2. IsFiniteSet(R2)
      BY <1>1, <2>1, FS_Subset
    <2>3. IsFiniteSet(TermsOf(R2))
      BY <1>2, <2>2, FiniteTerms
    <2>4. overlap \subseteq TermsOf(R2)
      BY DEF Overlap, SharedVariables, UnusedVariables
    <2> QED
      BY <2>3, <2>4, FS_Subset
  <1>4. /\ overlap = source_vars \cap target_vars
        /\ source_vars \subseteq taken /\ target_vars \subseteq taken /\ DOMAIN b \subseteq taken
        /\ DOMAIN a \subseteq taken
    BY DEF Overlap, SharedVariables, AllNames
  <1>5. /\ target_vars \subseteq PlainVariables /\ target_vars \cap DOMAIN b = {}
        /\ source_vars = { t \in TermsOf(R1) \ DOMAIN a : t.kind = "variable" }
    BY <1>2 DEF UnusedVariables, PlainVariables
  <1>6. left = source_vars \cup ({ t \in ToSet(S.atom.terms) : t.kind = "variable" } \ DOMAIN a)
    BY <1>1, PlainLiteral, VariablesOfPlain DEF SourceLeft
  <1>7. CASE VariablesIn(src) \cap VariablesIn(tgt) = {}
    <2>1. /\ VariablesIn(src) = { t \in TermsOf(src) : t.kind = "variable" }
          /\ VariablesIn(tgt) = { t \in TermsOf(tgt) : t.kind = "variable" }
      BY <1>1, TermsOfPlain
    <2>2. ToSet(S.atom.terms) \subseteq TermsOf(src)
      BY <1>1 DEF TermsOf
    <2>3. left \subseteq VariablesIn(src) /\ source_vars \subseteq VariablesIn(src)
      BY <1>2, <1>5, <1>6, <2>1, <2>2
    <2>4. target_vars \subseteq VariablesIn(tgt)
      BY <1>2, <2>1 DEF UnusedVariables
    <2>5. overlap = {} /\ target_vars \cap left = {}
      BY <1>4, <1>7, <2>3, <2>4
    <2>6. DOMAIN r = {}
      BY <1>5, <1>4, <2>5, RenamingSubs
    <2>7. \A t : Applied(t, r) = t
      BY <2>6 DEF Applied
    <2> HIDE DEF target_vars, left
    <2> QED
      BY <1>5, <2>5, <2>7 DEF NamedApart, target_vars, left
  <1>8. CASE VariablesIn({S}) \subseteq VariablesIn(R1)
    <2>1. /\ VariablesIn(R1) = { t \in TermsOf(R1) : t.kind = "variable" }
          /\ VariablesIn({S}) = { t \in ToSet(S.atom.terms) : t.kind = "variable" }
      <3>1. TermsOf({S}) = ToSet(S.atom.terms) /\ {S} \subseteq PlainLiterals
        BY <1>1 DEF TermsOf
      <3> QED
        BY <1>2, <3>1, TermsOfPlain
    <2>2. left = source_vars
      BY <1>5, <1>6, <1>8, <2>1
    <2>3. /\ \A v \in overlap : r[v] \notin taken
          /\ \A v, w \in overlap : r[v] = r[w] => v = w
      BY <1>3, NewNames
    <2>4. DOMAIN r = overlap /\ \A v \in overlap : r[v] \in PlainVariables
      <3>1. overlap \subseteq PlainVariables
        BY <1>4, <1>5
      <3> QED
        BY <3>1, RenamingSubs
    <2> HIDE DEF target_vars, left, overlap, taken, source_vars
    <2>5. ASSUME NEW t \in target_vars
          PROVE  /\ Applied(t, r) \in PlainVariables
                 /\ Applied(t, r) \notin left
                 /\ Applied(t, r) \notin DOMAIN b
      <3>1. CASE t \in overlap
        BY <1>4, <2>2, <2>3, <2>4, <3>1 DEF Applied
      <3>2. CASE t \notin overlap
        BY <1>4, <1>5, <2>2, <2>4, <3>2 DEF Applied
      <3> QED
        BY <3>1, <3>2
    <2>6. ASSUME NEW t \in target_vars, NEW w \in target_vars, Applied(t, r) = Applied(w, r)
          PROVE  t = w
      BY <1>4, <2>3, <2>4, <2>6 DEF Applied
    <2> QED
      BY <2>5, <2>6 DEF NamedApart, target_vars, left
  <1> QED
    BY <1>7, <1>8 DEF NamesAreKnown

LEMMA BuiltIsMostGeneral ==
    ASSUME PlainClause(clauses.source), clauses.source # <<>>, PlainClause(clauses.target),
           NamesAreKnown, NEW s, s.literal \in DOMAIN clauses.target, NEW b, NEW r,
           BuiltFrom(StepOf(s), s.literal, b, r),
           FlatAnswer(SourceLiteral.atom, clauses.target[s.literal].atom,
                      s.source_substitutions, b),
           MostGeneral(SourceLiteral.atom, clauses.target[s.literal].atom,
                       s.source_substitutions, b)
    PROVE  IsMostGeneral(s)
  <1> DEFINE src == ToSet(clauses.source)
             tgt == ToSet(clauses.target)
             S == SourceLiteral
             T == clauses.target[s.literal]
             R1 == Others(clauses.source, S)
             R2 == Others(clauses.target, T)
             a == s.source_substitutions
             R == s.resolvent
  <1>1. /\ src \subseteq PlainLiterals /\ tgt \subseteq PlainLiterals
        /\ S \in src /\ T \in tgt /\ R1 \subseteq src /\ R2 \subseteq tgt
        /\ S \in PlainLiterals /\ T \in PlainLiterals
        /\ R1 \subseteq PlainLiterals /\ R2 \subseteq PlainLiterals
    BY PlainClauseIs DEF Others, SourceLiteral
  <1>2. /\ r \in Renamings(Overlap(R1, R2, a, b), AllNames(R1, R2, a, b))
        /\ R = Replaced(R1, a) \cup Replaced(Replaced(R2, r), b)
    BY DEF BuiltFrom, StepOf, SourceLiteral, RenamedFirst
  <1> DEFINE left == SourceLeft(S, R1, a)
             target_vars == UnusedVariables(R2, b)
             c == Then(r, b)
  <1>3. NamedApart(left, target_vars, r, b)
    BY <1>2, NamesAreApart
  <1>4. Rests(s).source = R1 /\ Rests(s).target = R2
    BY DEF Rests
  <1>5. /\ TermsOf(R1) \subseteq TermsOf(src) /\ TermsOf(R2) \subseteq TermsOf(tgt)
        /\ TermsOf(R1) \subseteq Plain /\ TermsOf(R2) \subseteq Plain
        /\ VariablesIn(src) = { t \in TermsOf(src) : t.kind = "variable" }
        /\ VariablesIn(tgt) = { t \in TermsOf(tgt) : t.kind = "variable" }
    BY <1>1, TermsOfPlain DEF TermsOf
  <1>6. left = { t \in TermsOf(R1) \ DOMAIN a : t.kind = "variable" }
                  \cup { t \in ToSet(S.atom.terms) \ DOMAIN a : t.kind = "variable" }
    BY <1>1, PlainLiteral, VariablesOfPlain DEF SourceLeft, UnusedVariables
  <1>7. target_vars = { t \in TermsOf(R2) \ DOMAIN b : t.kind = "variable" }
    BY DEF UnusedVariables
  <1>8. Overlap(R1, R2, a, b) \subseteq target_vars /\ target_vars \subseteq PlainVariables
    BY <1>5, <1>7 DEF Overlap, SharedVariables, PlainVariables
  <1>9. DOMAIN r \subseteq target_vars /\ PlainSubs(r)
    <2> DEFINE overlap == Overlap(R1, R2, a, b)
               taken == AllNames(R1, R2, a, b)
    <2>1. /\ overlap \subseteq PlainVariables /\ overlap \subseteq target_vars
          /\ r \in Renamings(overlap, taken)
      BY <1>2, <1>8
    <2> HIDE DEF overlap, taken, target_vars
    <2> QED
      BY <2>1, RenamingSubs
  <1>10. PlainSubs(a) /\ PlainSubs(b)
    <2>1. ToSet(S.atom.terms) \subseteq Plain /\ ToSet(T.atom.terms) \subseteq Plain
      BY <1>1, PlainLiteral
    <2> QED
      BY <2>1 DEF FlatAnswer, PlainSubs
  <1>11. \A t : Applied(t, c) = Applied(Applied(t, r), b)
    BY AppliedThen
  <1>12. PlainSubs(c)
    <2>1. \A v \in DOMAIN c : v \in Plain /\ v.kind = "variable" /\ c[v] = Applied(Applied(v, r), b)
      BY <1>9, <1>10 DEF Then, PlainSubs
    <2> HIDE DEF c
    <2>2. \A v \in DOMAIN c : c[v] \in Plain
      BY <1>9, <1>10, <2>1, AppliedPlain
    <2> QED
      BY <2>1, <2>2 DEF PlainSubs
  <1>13. R = Replaced(R1, a) \cup Replaced(R2, c)
    BY <1>1, <1>2, <1>9, ReplacedThen
  <1>14. R \subseteq PlainLiterals
    BY <1>1, <1>10, <1>12, <1>13, ReplacedPlain
  <1>15. ToSet(S.atom.terms) \subseteq TermsOf(src) /\ ToSet(T.atom.terms) \subseteq TermsOf(tgt)
    BY <1>1 DEF TermsOf
  <1>16. PICK u : u \in Universe
    BY ResolveAssumption
  <1>17. /\ \A v \in DOMAIN a : a[v].kind = "variable" => a[v] \in ToSet(S.atom.terms) \ DOMAIN a
         /\ \A v \in DOMAIN b : b[v].kind = "variable" => b[v] \in ToSet(S.atom.terms) \ DOMAIN a
    BY DEF FlatAnswer
  <1>0. FlatAnswer(S.atom, T.atom, a, b) /\ MostGeneral(S.atom, T.atom, a, b)
    OBVIOUS
  <1> HIDE DEF S, T, R1, R2, a, R, c, left, target_vars
  <1> SUFFICES ASSUME NEW g \in InstancesBy(src), NEW h \in InstancesBy(tgt),
                      Agree(S.atom, T.atom, g, h)
               PROVE  \E q \in InstancesBy(R) :
                         Instance(R1, g) \cup Instance(R2, h) = Instance(R, q)
    BY <1>4 DEF IsMostGeneral, S, T, R, src, tgt
  <1> HIDE DEF src, tgt
  <1>18. /\ \A v \in DOMAIN a : g[v] = Applied(a[v], g)
         /\ \A v \in DOMAIN b : h[v] = Applied(b[v], g)
    <2>1. /\ S \in PlainLiterals /\ T \in PlainLiterals
          /\ src \subseteq PlainLiterals /\ S \in src /\ g \in InstancesBy(src)
          /\ tgt \subseteq PlainLiterals /\ T \in tgt /\ h \in InstancesBy(tgt)
          /\ FlatAnswer(S.atom, T.atom, a, b) /\ MostGeneral(S.atom, T.atom, a, b)
          /\ Agree(S.atom, T.atom, g, h)
      BY <1>0, <1>1
    <2> QED
      <3>1. SameInstances(S, T, a, b, src, g, tgt, h)
        BY <2>1 DEF SameInstances
      <3>2. ValuesAre(a, b, g, h)
        BY <3>1, SolutionValues
      <3> QED
        BY <3>2 DEF ValuesAre
  <1>19. /\ DOMAIN g = VariablesIn(src) /\ \A v \in DOMAIN g : g[v] \in Universe
         /\ DOMAIN h = VariablesIn(tgt) /\ \A v \in DOMAIN h : h[v] \in Universe
    BY DEF InstancesBy
  <1> DEFINE f == Inherited(g, h, left, target_vars, r, u)
             q == [v \in VariablesIn(R) |-> f[v]]
  <1>20. left \subseteq DOMAIN g /\ target_vars \subseteq DOMAIN h
         /\ left \subseteq PlainVariables
    BY <1>1, <1>5, <1>6, <1>7, <1>15, <1>19, TermsOfPlain DEF PlainVariables
  <1>21. f \in [PlainVariables -> Universe]
    <2> SUFFICES ASSUME NEW x \in PlainVariables, x \notin left,
                        \E t \in target_vars : Applied(t, r) = x
                 PROVE  h[CHOOSE t \in target_vars : Applied(t, r) = x] \in Universe
      BY <1>16, <1>19, <1>20 DEF Inherited
    <2> QED
      BY <1>19, <1>20
  <1>22. \A x \in left : f[x] = g[x]
    BY <1>20 DEF Inherited
  <1>23. \A t \in target_vars : f[Applied(t, r)] = h[t]
    <2> SUFFICES ASSUME NEW t \in target_vars PROVE f[Applied(t, r)] = h[t]
      OBVIOUS
    <2> DEFINE x == Applied(t, r)
               w == CHOOSE w \in target_vars : Applied(w, r) = x
    <2>1. x \in PlainVariables /\ x \notin left
      BY <1>3 DEF NamedApart
    <2>2. w \in target_vars /\ Applied(w, r) = x
      OBVIOUS
    <2>3. w = t
      <3> HIDE DEF w
      <3> QED
        BY <1>3, <2>2 DEF NamedApart
    <2>4. f[x] = h[w]
      BY <2>1 DEF Inherited
    <2> QED
      BY <2>3, <2>4
  <1> HIDE DEF f
  <1>24. q \in InstancesBy(R) /\ \A v \in DOMAIN q : f[v] = q[v]
    <2>1. VariablesIn(R) \subseteq PlainVariables
      BY <1>14, TermsOfPlain DEF PlainVariables
    <2> QED
      BY <1>21, <2>1 DEF InstancesBy
  <1> HIDE DEF q
  <1>25. \A t \in Plain : t.kind # "variable" =>
            /\ Applied(t, f) = t /\ Applied(t, g) = t /\ Applied(t, h) = t
            /\ Applied(t, a) = t /\ Applied(t, c) = t
    <2>1. DOMAIN f = PlainVariables
      BY <1>21
    <2> QED
      BY <1>5, <1>10, <1>12, <1>19, <2>1 DEF Applied, PlainSubs, PlainVariables
  <1>26. \A t \in TermsOf(R1) : Applied(Applied(t, a), f) = Applied(t, g)
    <2> SUFFICES ASSUME NEW t \in TermsOf(R1) PROVE Applied(Applied(t, a), f) = Applied(t, g)
      OBVIOUS
    <2>1. CASE t.kind # "variable"
      BY <1>5, <1>25, <2>1
    <2>2. CASE t.kind = "variable" /\ t \notin DOMAIN a
      <3>1. t \in left
        BY <1>6, <2>2
      <3> QED
        BY <1>20, <1>21, <1>22, <2>2, <3>1 DEF Applied
    <2>3. CASE t.kind = "variable" /\ t \in DOMAIN a
      <3>1. t \in DOMAIN g /\ Applied(t, g) = Applied(a[t], g) /\ Applied(t, a) = a[t]
        BY <1>5, <1>18, <1>19, <2>3 DEF Applied
      <3>2. a[t] \in Plain
        BY <1>10, <2>3 DEF PlainSubs
      <3>3. CASE a[t].kind # "variable"
        BY <1>25, <3>1, <3>2, <3>3
      <3>4. CASE a[t].kind = "variable"
        <4>1. a[t] \in left
          BY <1>6, <1>17, <2>3, <3>4
        <4>2. Applied(a[t], f) = Applied(a[t], g)
          BY <1>20, <1>21, <1>22, <4>1 DEF Applied
        <4> QED
          BY <3>1, <4>2
      <3> QED
        BY <3>3, <3>4
    <2> QED
      BY <2>1, <2>2, <2>3
  <1>27. \A t \in TermsOf(R2) : Applied(Applied(t, c), f) = Applied(t, h)
    <2> SUFFICES ASSUME NEW t \in TermsOf(R2) PROVE Applied(Applied(t, c), f) = Applied(t, h)
      OBVIOUS
    <2>1. CASE t.kind # "variable"
      BY <1>5, <1>25, <2>1
    <2>2. CASE t.kind = "variable" /\ t \notin DOMAIN b
      <3>1. t \in target_vars
        BY <1>7, <2>2
      <3>2. Applied(t, r) \in PlainVariables /\ Applied(t, r) \notin DOMAIN b
        BY <1>3, <3>1 DEF NamedApart
      <3>3. Applied(t, c) = Applied(t, r)
        BY <1>11, <3>2 DEF Applied
      <3>4. Applied(Applied(t, r), f) = f[Applied(t, r)]
        BY <1>21, <3>2 DEF Applied
      <3>5. Applied(t, h) = h[t]
        BY <1>20, <3>1 DEF Applied
      <3> QED
        BY <1>23, <3>1, <3>3, <3>4, <3>5
    <2>3. CASE t.kind = "variable" /\ t \in DOMAIN b
      <3>1. t \notin DOMAIN r
        BY <1>7, <1>9, <2>3
      <3>2. Applied(t, c) = b[t]
        <4>1. Applied(t, r) = t
          BY <3>1 DEF Applied
        <4>2. Applied(t, c) = Applied(t, b)
          BY <1>11, <4>1
        <4> QED
          BY <2>3, <4>2 DEF Applied
      <3>3. t \in DOMAIN h /\ Applied(t, h) = Applied(b[t], g)
        BY <1>5, <1>18, <1>19, <2>3 DEF Applied
      <3>4. b[t] \in Plain
        BY <1>10, <2>3 DEF PlainSubs
      <3>5. CASE b[t].kind # "variable"
        BY <1>25, <3>2, <3>3, <3>4, <3>5
      <3>6. CASE b[t].kind = "variable"
        <4>1. b[t] \in left
          BY <1>6, <1>17, <2>3, <3>6
        <4>2. Applied(b[t], f) = Applied(b[t], g)
          BY <1>20, <1>21, <1>22, <4>1 DEF Applied
        <4> QED
          BY <3>2, <3>3, <4>2
      <3> QED
        BY <3>5, <3>6
    <2> QED
      BY <2>1, <2>2, <2>3
  <1>28. Instance(R1, g) = Instance(Replaced(R1, a), q)
    BY <1>1, <1>10, <1>13, <1>14, <1>21, <1>24, <1>26, InstanceReplaced
  <1>29. Instance(R2, h) = Instance(Replaced(R2, c), q)
    BY <1>1, <1>12, <1>13, <1>14, <1>21, <1>24, <1>27, InstanceReplaced
  <1>30. Instance(R, q) = Instance(Replaced(R1, a), q) \cup Instance(Replaced(R2, c), q)
    BY <1>13 DEF Instance
  <1> QED
    BY <1>24, <1>28, <1>29, <1>30
-----------------------------------------------------------------------------
(***************************************************************************)
(* What resolve has noted.                                                 *)
(***************************************************************************)

Noted(s) ==
    /\ s.literal \in DOMAIN clauses.target
    /\ s.similarity \in Int
    /\ s.resolvent \subseteq LiteralType /\ IsFiniteSet(s.resolvent)

NotedOfFlat(s) ==
    /\ \E b : DerivedBy(StepOf(s), s.literal, b)
    /\ NamesAreKnown => IsMostGeneral(s)

StepsAre ==
    /\ \A i \in DOMAIN steps : Noted(steps[i])
    /\ FlatClauses => \A i \in DOMAIN steps : NotedOfFlat(steps[i])

LEMMA ReplacedType ==
    ASSUME NEW L, L \subseteq LiteralType, IsFiniteSet(L), NEW m, SubsType(m)
    PROVE  Replaced(L, m) \subseteq LiteralType /\ IsFiniteSet(Replaced(L, m))
  <1> DEFINE New(l) == WithTerms(l, ShownTerms(l.atom.terms, m))
             f == [l \in L |-> New(l)]
             X == { New(l) : l \in L }
  <1>1. Replaced(L, m) = X
    BY ReplacedIs
  <1>2. f \in Surjection(L, X)
    <2> HIDE DEF New
    <2> QED
      BY DEF Surjection
  <1>3. IsFiniteSet(X)
    <2> HIDE DEF f, X
    <2> QED
      BY <1>2, FS_Surjection
  <1>4. ASSUME NEW l \in L PROVE New(l) \in LiteralType
    <2> DEFINE q == l.atom.terms
               r == ShownTerms(q, m)
    <2>1. /\ l.polarity \in BOOLEAN /\ l.atom.predicate \in Predicates /\ q \in Seq(Terms)
      BY DEF LiteralType, Atoms
    <2> HIDE DEF q
    <2>2. Len(q) \in Nat /\ DOMAIN q = 1 .. Len(q) /\ \A i \in 1 .. Len(q) : q[i] \in Terms
      BY <2>1, SeqElements
    <2>3. r \in [1 .. Len(q) -> Terms]
      BY <2>2 DEF ShownTerms, Applied, SubsType
    <2> HIDE DEF r
    <2>4. r \in Seq(Terms)
      BY <2>2, <2>3, FunctionIsSeq
    <2> QED
      BY <2>1, <2>4 DEF q, r, WithTerms, LiteralType, Atoms
  <1> HIDE DEF New
  <1> QED
    BY <1>1, <1>3, <1>4

\* The literals that are left of a clause.
LEMMA OthersType ==
    ASSUME NEW q \in Seq(LiteralType), NEW l
    PROVE  Others(q, l) \subseteq LiteralType /\ IsFiniteSet(Others(q, l))
  <1>1. ToSet(q) \subseteq LiteralType /\ IsFiniteSet(ToSet(q))
    BY SeqElements, FiniteList
  <1>2. Others(q, l) \subseteq ToSet(q)
    BY DEF Others
  <1> QED
    BY <1>1, <1>2, FS_Subset

LEMMA UnusedType ==
    ASSUME NEW L, L \subseteq LiteralType, NEW m
    PROVE  UnusedVariables(L, m) \subseteq PlainVariables
  <1>1. ASSUME NEW l \in L PROVE ToSet(l.atom.terms) \subseteq Terms
    <2>1. l.atom.terms \in Seq(Terms)
      BY DEF LiteralType, Atoms
    <2> QED
      BY <2>1, SeqElements
  <1> QED
    BY <1>1 DEF UnusedVariables, TermsOf, PlainVariables, Plain

LEMMA ResolventType ==
    ASSUME NEW L, L \subseteq LiteralType, IsFiniteSet(L),
           NEW K, K \subseteq LiteralType, IsFiniteSet(K),
           NEW a, SubsType(a), NEW b, SubsType(b), NEW taken,
           NEW r \in Renamings(Overlap(L, K, a, b), taken)
    PROVE  LET R == Replaced(L, a) \cup RenamedFirst(K, r, b) IN
           R \subseteq LiteralType /\ IsFiniteSet(R)
  <1>1. Overlap(L, K, a, b) \subseteq PlainVariables
    BY UnusedType DEF Overlap, SharedVariables
  <1>2. PlainSubs(r)
    BY <1>1, RenamingSubs
  <1>3. SubsType(r)
    BY <1>2 DEF PlainSubs, SubsType, Plain
  <1> DEFINE X == Replaced(L, a)
             Y == Replaced(K, r)
             Z == Replaced(Y, b)
  <1>4. X \subseteq LiteralType /\ IsFiniteSet(X)
    BY ReplacedType
  <1>5. Y \subseteq LiteralType /\ IsFiniteSet(Y)
    BY <1>3, ReplacedType
  <1> HIDE DEF Y
  <1>6. Z \subseteq LiteralType /\ IsFiniteSet(Z)
    BY <1>5, ReplacedType
  <1>7. Replaced(L, a) \cup RenamedFirst(K, r, b) = X \cup Z
    BY DEF RenamedFirst, Y
  <1> HIDE DEF X, Z
  <1>8. IsFiniteSet(X \cup Z)
    BY <1>4, <1>6, FS_Union
  <1> QED
    BY <1>4, <1>6, <1>7, <1>8

\* What is noted is about the clauses and the step only.
LEMMA NotedKept ==
    ASSUME UNCHANGED clauses, NEW s
    PROVE  (Noted(s)' <=> Noted(s)) /\ (NotedOfFlat(s)' <=> NotedOfFlat(s))
  <1>1. Noted(s)' <=> Noted(s)
    BY DEF Noted
  <1>2. SourceLiteral' = SourceLiteral /\ Rests(s)' = Rests(s) /\ StepOf(s)' = StepOf(s)
    BY DEF SourceLiteral, Rests, StepOf
  <1>3. (NamesAreKnown' <=> NamesAreKnown) /\ (IsMostGeneral(s)' <=> IsMostGeneral(s))
    BY <1>2 DEF NamesAreKnown, IsMostGeneral
  <1> QED
    BY <1>1, <1>2, <1>3 DEF NotedOfFlat

LEMMA StepsKept ==
    ASSUME StepsAre, UNCHANGED <<clauses, steps>>
    PROVE  StepsAre'
  <1>1. \A s : (Noted(s)' <=> Noted(s)) /\ (NotedOfFlat(s)' <=> NotedOfFlat(s))
    BY NotedKept
  <1>2. FlatClauses' <=> FlatClauses
    BY DEF FlatClauses
  <1> QED
    BY <1>1, <1>2 DEF StepsAre

LEMMA FlatClausesArePlain ==
    ASSUME ResolveInv, FlatClauses
    PROVE  PlainClause(clauses.source) /\ clauses.source # <<>> /\ PlainClause(clauses.target)
  <1>1. CallOf(clauses.source, clauses.target)
    BY DEF ResolveInv
  <1>2. ASSUME NEW q \in Seq(LiteralType), \A l \in ToSet(q) : Flat(l.atom)
        PROVE  PlainClause(q)
    <2>1. Len(q) \in Nat /\ \A i \in 1 .. Len(q) : q[i] \in LiteralType /\ q[i] \in ToSet(q)
      BY SeqElements
    <2>2. \A i \in 1 .. Len(q) : q[i] \in PlainLiterals
      BY <1>2, <2>1, FlatLiteral
    <2> QED
      BY <2>1, <2>2 DEF PlainClause
  <1> QED
    BY <1>1, <1>2 DEF CallOf, FlatClauses

\* What is noted of an answer.
LEMMA AnswerIsNoted ==
    ASSUME ResolveInv, pc = "returned", answer.some,
           NEW R \in Resolvents(Others(clauses.source, SourceLiteral),
                                Others(clauses.target, TargetLiteral), answer),
           NEW s, s = [literal |-> literal, resolvent |-> R,
                       source_substitutions |-> answer.source_substitutions,
                       similarity |-> answer.similarity]
    PROVE  Noted(s) /\ (FlatClauses => NotedOfFlat(s))
  <1> DEFINE L == Others(clauses.source, SourceLiteral)
             K == Others(clauses.target, TargetLiteral)
             a == answer.source_substitutions
             b == answer.target_substitutions
  <1>1. /\ CallOf(clauses.source, clauses.target)
        /\ literal <= Len(clauses.target)
        /\ source = SourceLiteral.atom /\ target = TargetLiteral.atom
        /\ SourceLiteral.polarity # TargetLiteral.polarity
        /\ UnifyInv
    BY DEF ResolveInv
  <1>2. literal \in DOMAIN clauses.target
    BY <1>1, LiteralIs
  <1>3. s.literal = literal /\ s.resolvent = R /\ s.source_substitutions = a
          /\ s.similarity = answer.similarity
    OBVIOUS
  <1>4. answer.similarity \in Int /\ SubsType(a) /\ SubsType(b)
    BY <1>1 DEF UnifyInv, UnifyTypes, UnifyTypeOK, SubsType
  <1>5. /\ L \subseteq LiteralType /\ IsFiniteSet(L)
        /\ K \subseteq LiteralType /\ IsFiniteSet(K)
    BY <1>1, OthersType DEF CallOf
  <1>6. \E r \in Renamings(Overlap(L, K, a, b), AllNames(L, K, a, b)) :
           R = Replaced(L, a) \cup RenamedFirst(K, r, b)
    BY DEF Resolvents, Overlap, AllNames
  <1> HIDE DEF L, K, a, b
  <1>7. PICK r \in Renamings(Overlap(L, K, a, b), AllNames(L, K, a, b)) :
           R = Replaced(L, a) \cup RenamedFirst(K, r, b)
    BY <1>6
  <1>8. R \subseteq LiteralType /\ IsFiniteSet(R)
    BY <1>4, <1>5, <1>7, ResolventType
  <1>9. Noted(s)
    BY <1>2, <1>3, <1>4, <1>8 DEF Noted
  <1>10. ASSUME FlatClauses PROVE NotedOfFlat(s)
    <2>1. PlainClause(clauses.source) /\ clauses.source # <<>> /\ PlainClause(clauses.target)
      BY <1>10, FlatClausesArePlain
    <2>2. Flat(source) /\ Flat(target)
      BY <1>1, <1>2, <1>10, LiteralIs, LiteralsAre DEF FlatClauses, TargetLiteral
    <2>3. /\ FlatAnswer(source, target, a, b)
          /\ IsAlike(source, target, ShownTerms(source.terms, a), ShownTerms(target.terms, b),
                     answer.similarity)
      BY <1>1, <2>2 DEF UnifyInv, AnswerIsFlat, Unified, Plainly, a, b
    <2>4. VariablesOf(target.terms) \subseteq DOMAIN b
      BY <1>1, <2>2, UnifierUnifiesIs DEF UnifyInv, Unified, UnifiedByAnswer, UnifiedBy, b
    <2>5. MostGeneral(source, target, a, b)
      BY <1>1, <2>2 DEF UnifyInv, UnifierIsMostGeneral, MostGeneral, a, b
    <2> DEFINE d == StepOf(s)
    <2>6. /\ d.source = clauses.source /\ d.target = clauses.target
          /\ d.source_substitutions = a /\ d.resolvent = R /\ d.similarity = answer.similarity
      BY <1>3 DEF StepOf
    <2> HIDE DEF d
    <2>7. BuiltFrom(d, literal, b, r)
      BY <1>7, <2>6 DEF BuiltFrom, L, K, SourceLiteral, TargetLiteral
    <2>8. AnswerFor(Head(d.source), d.target[literal], d.source_substitutions, b, d.similarity)
      BY <1>1, <2>3, <2>4, <2>6 DEF AnswerFor, SourceLiteral, TargetLiteral
    <2>9. DerivedBy(d, literal, Then(r, b))
      <3>1. /\ PlainClause(d.source) /\ d.source # <<>> /\ PlainClause(d.target)
            /\ literal \in DOMAIN d.target /\ d.similarity \in Int
            /\ Head(d.source).polarity # d.target[literal].polarity
        BY <1>1, <1>2, <1>4, <2>1, <2>6 DEF SourceLiteral, TargetLiteral
      <3> QED
        BY <2>7, <2>8, <3>1, BuiltIsDerived
    <2>10. \E c : DerivedBy(StepOf(s), s.literal, c)
      BY <1>3, <2>9 DEF d
    <2>11. ASSUME NamesAreKnown PROVE IsMostGeneral(s)
      <3>1. BuiltFrom(StepOf(s), s.literal, b, r)
        BY <1>3, <2>7 DEF d
      <3>2. /\ FlatAnswer(SourceLiteral.atom, clauses.target[s.literal].atom,
                          s.source_substitutions, b)
            /\ MostGeneral(SourceLiteral.atom, clauses.target[s.literal].atom,
                           s.source_substitutions, b)
        BY <1>1, <1>3, <2>3, <2>5 DEF TargetLiteral
      <3>3. s.literal \in DOMAIN clauses.target
        BY <1>2, <1>3
      <3> QED
        BY <2>1, <2>11, <3>1, <3>2, <3>3, BuiltIsMostGeneral
    <2> QED
      BY <2>10, <2>11 DEF NotedOfFlat
  <1> QED
    BY <1>9, <1>10

LEMMA NoteAnswerSteps ==
    ASSUME ResolveInv, StepsAre, NoteAnswer
    PROVE  StepsAre'
  <1>1. pc = "returned" /\ clauses' = clauses
    BY DEF NoteAnswer
  <1>2. \A s : (Noted(s)' <=> Noted(s)) /\ (NotedOfFlat(s)' <=> NotedOfFlat(s))
    BY <1>1, NotedKept
  <1>3. FlatClauses' <=> FlatClauses
    BY <1>1 DEF FlatClauses
  <1>4. CASE ~ answer.some
    <2>1. steps' = steps
      BY <1>4 DEF NoteAnswer
    <2> QED
      BY <1>1, <2>1, StepsKept
  <1>5. CASE answer.some
    <2>1. PICK R \in Resolvents(Others(clauses.source, SourceLiteral),
                                Others(clauses.target, TargetLiteral), answer) :
             steps' = Append(steps,
                [literal |-> literal, resolvent |-> R,
                 source_substitutions |-> answer.source_substitutions,
                 similarity |-> answer.similarity])
      BY <1>5 DEF NoteAnswer
    <2> DEFINE s == [literal |-> literal, resolvent |-> R,
                     source_substitutions |-> answer.source_substitutions,
                     similarity |-> answer.similarity]
               n == Len(steps)
    <2>2. Noted(s) /\ (FlatClauses => NotedOfFlat(s))
      BY <1>1, <1>5, AnswerIsNoted
    <2>3. steps' = Append(steps, s)
      BY <2>1
    <2> HIDE DEF s
    <2>4. /\ DOMAIN steps = 1 .. n /\ n \in Nat /\ DOMAIN steps' = 1 .. n + 1
          /\ \A i \in 1 .. n : steps'[i] = steps[i]
          /\ steps'[n + 1] = s
      BY <2>3, ListAppend DEF ResolveInv
    <2> HIDE DEF n
    <2>5. ASSUME NEW i \in DOMAIN steps'
          PROVE  Noted(steps'[i]) /\ (FlatClauses => NotedOfFlat(steps'[i]))
      <3>1. CASE i = n + 1
        BY <2>2, <2>4, <3>1
      <3>2. CASE i # n + 1
        <4>1. i \in 1 .. n
          BY <2>4, <3>2
        <4> QED
          BY <2>4, <4>1 DEF StepsAre
      <3> QED
        BY <3>1, <3>2
    <2>6. \A i \in DOMAIN steps' : \A e : e = steps'[i] =>
             Noted(e)' /\ (FlatClauses' => NotedOfFlat(e)')
      BY <1>2, <1>3, <2>5
    <2> QED
      BY <2>6 DEF StepsAre
  <1> QED
    BY <1>4, <1>5
-----------------------------------------------------------------------------
(***************************************************************************)
(* The chain, step by step.                                                *)
(***************************************************************************)

\* Which clauses are resolved, and how long the chain is.
FollowsOn ==
    /\ problem \in Problems
    /\ clauses.target \in AllKnowledge
    /\ chain = <<>> => clauses.source \in problem.goals
    /\ chain # <<>> /\ ~ Proved => ToSet(clauses.source) = Last(chain).resolvent
    /\ ~ Proved => Len(chain) <= problem.max_proof_depth
    /\ Len(chain) <= problem.max_proof_depth + 1
    /\ FlatProblem => PlainClause(clauses.source) /\ PlainClause(clauses.target)

DerivationInv == ResolveInv /\ StepsAre /\ FollowsOn /\ ChainIs

LEMMA ProblemIs ==
    ASSUME problem \in Problems
    PROVE  /\ problem.goals \subseteq Seq(LiteralType) \ {<<>>}
           /\ AllKnowledge \subseteq Seq(LiteralType)
           /\ Literals(AllKnowledge) \subseteq LiteralType
           /\ problem.max_proof_depth \in Nat
  <1>1. /\ problem.goals \subseteq Seq(LiteralType) \ {<<>>}
        /\ problem.knowledge \subseteq Seq(LiteralType)
        /\ problem.max_proof_depth \in Nat
    BY DerivationAssumption
  <1>2. AllKnowledge \subseteq Seq(LiteralType)
    BY <1>1 DEF AllKnowledge
  <1>3. \A c \in AllKnowledge : ToSet(c) \subseteq LiteralType
    BY <1>2, SeqElements
  <1> QED
    BY <1>1, <1>2, <1>3 DEF Literals

\* A clause of the problem has no functions if none has.
LEMMA KnowledgeIsPlain ==
    ASSUME problem \in Problems, FlatProblem, NEW c \in AllKnowledge
    PROVE  PlainClause(c)
  <1>1. c \in Seq(LiteralType) /\ ToSet(c) \subseteq Literals(AllKnowledge)
        /\ Literals(AllKnowledge) \subseteq LiteralType
    BY ProblemIs DEF Literals
  <1>2. Len(c) \in Nat /\ \A i \in 1 .. Len(c) : c[i] \in ToSet(c)
    BY <1>1, SeqElements
  <1>3. \A i \in 1 .. Len(c) : c[i] \in PlainLiterals
    BY <1>1, <1>2, FlatLiteral DEF FlatProblem
  <1> QED
    BY <1>1, <1>2, <1>3 DEF PlainClause

LEMMA PlainIsFlat ==
    ASSUME PlainClause(clauses.source), PlainClause(clauses.target)
    PROVE  FlatClauses
  <1>1. ASSUME NEW l \in PlainLiterals PROVE Flat(l.atom)
    BY PlainLiteral DEF Flat, Plain
  <1> QED
    BY <1>1, PlainClauseIs DEF FlatClauses

\* A resolvent's literals in some order.
LEMMA OrderIs ==
    ASSUME NEW T, NEW S, S \subseteq T, IsFiniteSet(S), NEW q \in Orders(S)
    PROVE  q \in Seq(T) /\ q # <<>> /\ ToSet(q) = S
  <1>1. PICK l \in S : q = <<l>> \o SetToSeq(S \ {l})
    BY DEF Orders
  <1> DEFINE X == S \ {l}
             n == Cardinality(X)
             f == SetToSeq(X)
  <1>2. IsFiniteSet(X) /\ n \in Nat
    BY FS_Subset, FS_CardinalityType
  <1>3. f \in Injection(1 .. n, X)
    <2>1. ExistsBijection(1 .. n, X)
      BY <1>2, FS_CardinalityType
    <2>2. \E e \in [1 .. n -> X] : IsInjective(e)
      BY <2>1 DEF ExistsBijection, Bijection, Injection
    <2>3. f \in [1 .. n -> X] /\ IsInjective(f)
      BY <2>2 DEF SetToSeq
    <2> QED
      BY <2>3 DEF Injection
  <1> HIDE DEF f
  <1>4. f \in [1 .. n -> X] /\ \A x \in X : \E i \in 1 .. n : f[i] = x
    <2>1. IsFiniteSet(1 .. n) /\ Cardinality(1 .. n) = n
      <3>1. 1 \in Int /\ n \in Int /\ (IF 1 > n THEN 0 ELSE n - 1 + 1) = n
        BY <1>2
      <3> HIDE DEF n
      <3> QED
        BY <3>1, FS_Interval
    <2>2. f \in Surjection(1 .. n, X)
      <3>1. Cardinality(1 .. n) = Cardinality(X)
        BY <2>1
      <3> HIDE DEF X, n
      <3> QED
        BY <1>2, <1>3, <3>1, FS_Injection
    <2> QED
      BY <1>3, <2>2 DEF Surjection, Injection
  <1> HIDE DEF n
  <1>5. f \in Seq(T) /\ Len(f) = n /\ f \in [1 .. n -> T]
    BY <1>2, <1>4, FunctionIsSeq
  <1>6. l \in T
    OBVIOUS
  <1> DEFINE p == <<l>> \o f
  <1>7. /\ p \in Seq(T) /\ p # <<>> /\ Len(p) = n + 1 /\ DOMAIN p = 1 .. n + 1
        /\ p[1] = l /\ \A i \in 1 .. n : p[i + 1] = f[i]
    BY <1>2, <1>5, <1>6
  <1> HIDE DEF p
  <1>8. ToSet(p) = S
    <2>1. ASSUME NEW x \in S PROVE x \in ToSet(p)
      <3>1. CASE x = l
        BY <1>2, <1>7, <3>1 DEF ToSet
      <3>2. CASE x # l
        <4>1. PICK i \in 1 .. n : f[i] = x
          BY <1>4, <3>2
        <4>2. i + 1 \in 1 .. n + 1
          BY <1>2
        <4> QED
          BY <1>7, <4>1, <4>2 DEF ToSet
      <3> QED
        BY <3>1, <3>2
    <2>2. ASSUME NEW i \in 1 .. n + 1 PROVE p[i] \in S
      <3>1. CASE i = 1
        BY <1>7, <3>1
      <3>2. CASE i # 1
        <4>1. i - 1 \in 1 .. n /\ i - 1 + 1 = i
          BY <1>2, <3>2
        <4> QED
          BY <1>4, <1>7, <4>1
      <3> QED
        BY <3>1, <3>2
    <2> QED
      BY <1>7, <2>1, <2>2 DEF ToSet
  <1> QED
    BY <1>1, <1>7, <1>8 DEF p, f, X

LEMMA DerivationInvInit == Init => DerivationInv
  <1> SUFFICES ASSUME Init PROVE DerivationInv
    OBVIOUS
  <1>1. PICK goal \in problem.goals, clause \in AllKnowledge :
           problem \in Problems /\ chain = <<>> /\ ResolveInit(goal, clause)
    BY DEF Init
  <1>2. CallOf(goal, clause)
    BY <1>1, ProblemIs DEF CallOf
  <1>3. ResolveInv /\ clauses.source = goal /\ clauses.target = clause /\ steps = <<>>
    BY <1>1, <1>2, ResolveInvInit DEF ResolveInit
  <1>4. StepsAre
    BY <1>3 DEF StepsAre
  <1>5. ChainIs
    BY <1>1 DEF ChainIs, IsList
  <1>6. FollowsOn
    <2>1. ~ Proved /\ Len(chain) = 0
      BY <1>1 DEF Proved
    <2>2. FlatProblem => PlainClause(clauses.source) /\ PlainClause(clauses.target)
      BY <1>1, <1>3, KnowledgeIsPlain DEF AllKnowledge
    <2> QED
      BY <1>1, <1>3, <2>1, <2>2, ProblemIs DEF FollowsOn
  <1> QED
    BY <1>3, <1>4, <1>5, <1>6 DEF DerivationInv

\* A step of resolve: the clauses stay.
LEMMA ChainKept ==
    ASSUME FollowsOn, ChainIs, UNCHANGED <<clauses, problem, chain>>
    PROVE  FollowsOn' /\ ChainIs'
  <1>1. AllKnowledge' = AllKnowledge
    BY DEF AllKnowledge
  <1>2. (FlatProblem' <=> FlatProblem) /\ (Proved' <=> Proved)
    BY <1>1 DEF FlatProblem, Proved
  <1>3. FollowsOn'
    BY <1>1, <1>2 DEF FollowsOn
  <1>4. ChainIs'
    BY <1>1, <1>2 DEF ChainIs
  <1> QED
    BY <1>3, <1>4

\* The search has gone on with the step s.
LongerChain(s) ==
    /\ GoesOn(s) /\ ~ Proved /\ Noted(s)
    /\ FlatClauses => NotedOfFlat(s)
    /\ chain' = Append(chain, NewStep(s)) /\ problem' = problem

LEMMA LongerChainIs ==
    ASSUME ChainIs, NEW s, LongerChain(s)
    PROVE  LET n == Len(chain) IN
           /\ n \in Nat /\ DOMAIN chain = 1 .. n /\ DOMAIN chain' = 1 .. n + 1
           /\ IsList(chain')
           /\ \A i \in 1 .. n : chain'[i] = chain[i]
           /\ chain'[n + 1] = NewStep(s)
           /\ chain = <<>> <=> n = 0
           /\ n > 0 => Last(chain) = chain[n]
           /\ Len(chain') = n + 1 /\ chain' # <<>> /\ Last(chain)' = NewStep(s)
           /\ (Proved' <=> s.resolvent = {})
  <1> DEFINE d == NewStep(s)
             n == Len(chain)
             new == chain'
  <1>1. IsList(chain) /\ new = Append(chain, d)
    BY DEF ChainIs, LongerChain
  <1>2. /\ IsList(new) /\ n \in Nat /\ DOMAIN chain = 1 .. n /\ DOMAIN new = 1 .. n + 1
        /\ \A i \in 1 .. n : new[i] = chain[i]
        /\ new[n + 1] = d
    <2> HIDE DEF d, new
    <2> QED
      BY <1>1, ListAppend
  <1>3. chain \in Seq(ToSet(chain)) /\ new \in Seq(ToSet(new))
    BY <1>1, <1>2 DEF IsList
  <1>4. (chain = <<>> <=> n = 0) /\ (n > 0 => Last(chain) = chain[n])
    BY <1>3 DEF Last
  <1>5. Len(new) \in Nat /\ DOMAIN new = 1 .. Len(new)
    <2> HIDE DEF new
    <2> QED
      BY <1>3
  <1>6. Len(new) = n + 1 /\ new # <<>>
    <2> HIDE DEF new, n
    <2>1. 1 .. Len(new) = 1 .. n + 1
      BY <1>2, <1>5
    <2>2. (n + 1 \in 1 .. Len(new) /\ Len(new) \in 1 .. n + 1) \/ Len(new) = 0
      BY <1>2, <1>5, <2>1
    <2>3. n + 1 \in 1 .. Len(new)
      BY <1>2, <2>1
    <2>4. Len(new) = n + 1
      BY <1>2, <1>5, <2>2, <2>3
    <2> QED
      BY <1>2, <1>3, <2>4
  <1>7. Last(chain)' = d
    BY <1>2, <1>6 DEF Last
  <1>8. d.resolvent = s.resolvent
    BY DEF NewStep
  <1>9. Proved' <=> s.resolvent = {}
    BY <1>6, <1>7, <1>8 DEF Proved
  <1> HIDE DEF d
  <1> QED
    BY <1>2, <1>4, <1>6, <1>7, <1>9 DEF d

LEMMA LongerChainInv ==
    ASSUME ResolveInv, FollowsOn, ChainIs, NEW s, LongerChain(s)
    PROVE  ChainIs'
  <1> DEFINE n == Len(chain)
             d == NewStep(s)
  <1>1. /\ n \in Nat /\ DOMAIN chain = 1 .. n /\ DOMAIN chain' = 1 .. n + 1
        /\ IsList(chain')
        /\ \A i \in 1 .. n : chain'[i] = chain[i]
        /\ chain'[n + 1] = d
        /\ (chain = <<>> <=> n = 0)
        /\ n > 0 => Last(chain) = chain[n]
    BY LongerChainIs
  <1>2. /\ d.source = clauses.source /\ d.target = clauses.target
        /\ d.source_substitutions = s.source_substitutions
        /\ d.resolvent = s.resolvent /\ d.similarity = s.similarity
        /\ d.running_similarity = RunningSimilarity(s)
    BY DEF NewStep
  <1>3. /\ problem' = problem /\ ~ Proved /\ s.similarity \in Int
        /\ s.literal \in DOMAIN clauses.target
        /\ FlatClauses => NotedOfFlat(s)
    BY DEF LongerChain, Noted
  <1> HIDE DEF n, d
  <1>4. AllKnowledge' = AllKnowledge /\ (FlatProblem' <=> FlatProblem)
    BY <1>3 DEF AllKnowledge, FlatProblem
  <1>5. /\ d.running_similarity \in Int /\ d.running_similarity <= s.similarity
        /\ \A i \in 1 .. n : d.running_similarity <= chain[i].similarity
    <2>1. CASE n = 0
      BY <1>1, <1>2, <1>3, <2>1 DEF RunningSimilarity
    <2>2. CASE n # 0
      <3> DEFINE x == s.similarity
                 y == chain[n].running_similarity
      <3>1. n \in 1 .. n /\ x \in Int /\ y \in Int
        BY <1>1, <1>3, <2>2 DEF ChainIs
      <3>2. d.running_similarity = IF x <= y THEN x ELSE y
        BY <1>1, <1>2, <2>2 DEF RunningSimilarity, LowestSimilarity
      <3>3. \A i \in 1 .. n : chain[i].similarity \in Int /\ y <= chain[i].similarity
        BY <1>1, <3>1 DEF ChainIs
      <3> HIDE DEF x, y
      <3>4. d.running_similarity \in Int /\ d.running_similarity <= x /\ d.running_similarity <= y
        BY <3>1, <3>2
      <3>5. ASSUME NEW i \in 1 .. n PROVE d.running_similarity <= chain[i].similarity
        <4> DEFINE z == chain[i].similarity
        <4>1. z \in Int /\ y <= z
          BY <3>3
        <4> HIDE DEF z
        <4>2. d.running_similarity <= z
          BY <3>1, <3>4, <4>1
        <4> QED
          BY <4>2 DEF z
      <3> QED
        BY <3>4, <3>5 DEF x
    <2> QED
      BY <2>1, <2>2
  <1>6. ASSUME NEW i \in 1 .. n + 1
        PROVE  /\ chain'[i].target \in AllKnowledge
               /\ i = 1 => chain'[i].source \in problem.goals
               /\ i > 1 => ToSet(chain'[i].source) = chain'[i - 1].resolvent
               /\ chain'[i].similarity \in Int /\ chain'[i].running_similarity \in Int
    <2>1. CASE i \in 1 .. n
      <3>1. i > 1 => i - 1 \in 1 .. n
        BY <1>1
      <3> QED
        BY <1>1, <2>1, <3>1 DEF ChainIs
    <2>2. CASE i \notin 1 .. n
      <3>1. i = n + 1 /\ i - 1 = n /\ (i = 1 <=> n = 0) /\ (i > 1 => n \in 1 .. n)
        BY <1>1, <2>2
      <3>2. d.target \in AllKnowledge
        BY <1>2 DEF FollowsOn
      <3>3. n = 0 => d.source \in problem.goals
        BY <1>1, <1>2 DEF FollowsOn
      <3>4. n \in 1 .. n => ToSet(d.source) = chain[n].resolvent
        BY <1>1, <1>2, <1>3 DEF FollowsOn
      <3>5. d.similarity \in Int
        BY <1>2, <1>3
      <3> QED
        BY <1>1, <1>5, <3>1, <3>2, <3>3, <3>4, <3>5
    <2> QED
      BY <2>1, <2>2
  <1>7. ASSUME NEW i \in 1 .. n + 1, NEW j \in 1 .. n + 1, i <= j
        PROVE  chain'[j].running_similarity <= chain'[i].similarity
    <2>1. CASE j \in 1 .. n
      <3>1. i \in 1 .. n
        BY <1>1, <1>7, <2>1
      <3> QED
        BY <1>1, <1>7, <2>1, <3>1 DEF ChainIs
    <2>2. CASE j \notin 1 .. n
      <3>1. j = n + 1 /\ (i \in 1 .. n \/ i = n + 1)
        BY <1>1, <2>2
      <3> QED
        BY <1>1, <1>2, <1>5, <3>1
    <2> QED
      BY <2>1, <2>2
  <1>8. ASSUME FlatProblem, NEW i \in 1 .. n + 1
        PROVE  PlainStep(chain'[i])
    <2>1. CASE i \in 1 .. n
      BY <1>1, <1>8, <2>1 DEF ChainIs
    <2>2. CASE i \notin 1 .. n
      <3>1. i = n + 1
        BY <1>1, <2>2
      <3>2. PlainClause(clauses.source) /\ PlainClause(clauses.target)
        BY <1>8 DEF FollowsOn
      <3>3. FlatClauses /\ clauses.source # <<>>
        BY <3>2, PlainIsFlat, FlatClausesArePlain
      <3>4. PICK b : DerivedBy(StepOf(s), s.literal, b)
        BY <1>3, <3>3 DEF NotedOfFlat
      <3>5. DerivedBy(d, s.literal, b)
        BY <1>2, <3>4 DEF DerivedBy, StepOf
      <3>6. PlainStep(d)
        BY <1>2, <1>3, <3>2, <3>3, <3>5 DEF PlainStep, Derived
      <3> QED
        BY <1>1, <3>1, <3>6
    <2> QED
      BY <2>1, <2>2
  <1> QED
    BY <1>1, <1>3, <1>4, <1>6, <1>7, <1>8 DEF ChainIs

\* How long the chain gets.
LEMMA LongerChainDepth ==
    ASSUME FollowsOn, ChainIs, NEW s, LongerChain(s)
    PROVE  /\ Len(chain)' <= problem.max_proof_depth + 1
           /\ s.resolvent # {} => Len(chain)' <= problem.max_proof_depth
  <1> DEFINE n == Len(chain)
             m == problem.max_proof_depth
  <1>1. /\ n \in Nat /\ Len(chain)' = n + 1 /\ (chain = <<>> <=> n = 0)
    BY LongerChainIs
  <1>2. m \in Nat /\ n <= m
    BY ProblemIs DEF FollowsOn, LongerChain
  <1>3. s.resolvent = {} \/ (IF n = 0 THEN 0 ELSE n - 1) + 1 < m
    BY <1>1 DEF LongerChain, GoesOn, Depth
  <1> HIDE DEF n, m
  <1>4. n + 1 <= m + 1 /\ (s.resolvent # {} => n + 1 <= m)
    BY <1>1, <1>2, <1>3
  <1> QED
    BY <1>1, <1>4 DEF m

LEMMA TakeStepInv ==
    ASSUME DerivationInv, TakeStep
    PROVE  DerivationInv'
  <1>1. ResolveInv /\ StepsAre /\ FollowsOn /\ ChainIs
    BY DEF DerivationInv
  <1>2. PICK i \in DOMAIN steps :
           /\ GoesOn(steps[i])
           /\ chain' = Append(chain, NewStep(steps[i]))
           /\ IF steps[i].resolvent = {} THEN UNCHANGED resolveVars
              ELSE /\ clauses' \in [source : Orders(steps[i].resolvent),
                                    target : AllKnowledge]
                   /\ literal' = 1
                   /\ steps' = <<>>
    BY DEF TakeStep
  <1> DEFINE s == steps[i]
  <1>3. LongerChain(s)
    BY <1>1, <1>2 DEF TakeStep, StepsAre, LongerChain
  <1>4. /\ pc = "idle" /\ UNCHANGED unifyVars /\ problem' = problem
        /\ Noted(s) /\ (FlatClauses => NotedOfFlat(s))
    BY <1>1 DEF TakeStep, Finished, StepsAre
  <1>5. ChainIs'
    BY <1>1, <1>3, LongerChainInv
  <1>6. /\ Len(chain)' <= problem.max_proof_depth + 1
        /\ s.resolvent # {} => Len(chain)' <= problem.max_proof_depth
    BY <1>1, <1>3, LongerChainDepth
  <1>7. chain' # <<>> /\ (Proved' <=> s.resolvent = {}) /\ Last(chain)' = NewStep(s)
    BY <1>1, <1>3, LongerChainIs
  <1>8. NewStep(s).resolvent = s.resolvent
    BY DEF NewStep
  <1>9. AllKnowledge' = AllKnowledge /\ (FlatProblem' <=> FlatProblem)
    BY <1>4 DEF AllKnowledge, FlatProblem
  <1>10. CASE s.resolvent = {}
    <2>1. UNCHANGED resolveVars
      BY <1>2, <1>10
    <2>2. ResolveInv'
      BY <1>1, <1>4, <2>1, ResolveInvKept
    <2>3. StepsAre'
      BY <1>1, <2>1, StepsKept DEF resolveVars
    <2>4. clauses' = clauses
      BY <2>1 DEF resolveVars
    <2>5. FollowsOn'
      BY <1>1, <1>4, <1>6, <1>7, <1>9, <1>10, <2>4 DEF FollowsOn
    <2> QED
      BY <1>5, <2>2, <2>3, <2>5 DEF DerivationInv
  <1>11. CASE s.resolvent # {}
    <2>1. /\ clauses'.source \in Orders(s.resolvent) /\ clauses'.target \in AllKnowledge
          /\ literal' = 1 /\ steps' = <<>>
      BY <1>2, <1>11
    <2>2. s.resolvent \subseteq LiteralType /\ IsFiniteSet(s.resolvent)
      BY <1>4 DEF Noted
    <2> HIDE DEF s
    <2>3. /\ clauses'.source \in Seq(LiteralType) /\ clauses'.source # <<>>
          /\ ToSet(clauses'.source) = s.resolvent
      BY <2>1, <2>2, OrderIs
    <2>4. CallOf(clauses'.source, clauses'.target)
      BY <1>1, <2>1, <2>3, ProblemIs DEF CallOf, FollowsOn
    <2>5. ResolveInv'
      BY <1>1, <1>4, <2>1, <2>4, ResolveInvNext
    <2>6. StepsAre'
      BY <2>1 DEF StepsAre
    <2>7. ASSUME FlatProblem PROVE PlainClause(clauses'.source) /\ PlainClause(clauses'.target)
      <3>1. PlainClause(clauses.source) /\ PlainClause(clauses.target) /\ clauses.source # <<>>
        BY <1>1, <2>7, PlainIsFlat, FlatClausesArePlain DEF FollowsOn
      <3>2. PICK b : DerivedBy(StepOf(s), s.literal, b)
        BY <1>4, <3>1, PlainIsFlat DEF NotedOfFlat
      <3> DEFINE S == Head(clauses.source)
                 T == clauses.target[s.literal]
                 R1 == Others(clauses.source, S)
                 R2 == Others(clauses.target, T)
                 a == s.source_substitutions
      <3>3. PlainSubs(a) /\ PlainSubs(b) /\ s.resolvent = Replaced(R1, a) \cup Replaced(R2, b)
        BY <3>2 DEF DerivedBy, StepOf, SubsOf
      <3>4. R1 \subseteq PlainLiterals /\ R2 \subseteq PlainLiterals
        BY <3>1, PlainClauseIs DEF Others
      <3> HIDE DEF R1, R2, a
      <3>5. s.resolvent \subseteq PlainLiterals
        BY <3>3, <3>4, ReplacedPlain
      <3>6. PlainClause(clauses'.source)
        BY <2>1, <2>2, <3>5, OrderIs DEF PlainClause
      <3>7. PlainClause(clauses'.target)
        BY <1>1, <2>1, <2>7, KnowledgeIsPlain DEF FollowsOn
      <3> QED
        BY <3>6, <3>7
    <2>8. FollowsOn'
      BY <1>1, <1>4, <1>6, <1>7, <1>8, <1>9, <1>11, <2>1, <2>3, <2>7 DEF FollowsOn
    <2> QED
      BY <1>5, <2>5, <2>6, <2>8 DEF DerivationInv
  <1> QED
    BY <1>10, <1>11

LEMMA ResolveStepInv ==
    ASSUME DerivationInv, ResolveStep \/ (RaiseThreshold /\ UNCHANGED resolveVars),
           UNCHANGED <<problem, chain>>
    PROVE  DerivationInv'
  <1>1. ResolveInv /\ StepsAre /\ FollowsOn /\ ChainIs
    BY DEF DerivationInv
  <1>2. CASE SkipPolarity
    <2>1. clauses' = clauses /\ steps' = steps
      BY <1>2 DEF SkipPolarity
    <2> QED
      BY <1>1, <1>2, <2>1, SkipPolarityInv, StepsKept, ChainKept DEF DerivationInv
  <1>3. CASE UnifyLiterals
    <2>1. clauses' = clauses /\ steps' = steps
      BY <1>3 DEF UnifyLiterals, resolveVars
    <2> QED
      BY <1>1, <1>3, <2>1, UnifyLiteralsInv, StepsKept, ChainKept DEF DerivationInv
  <1>4. CASE NoteAnswer
    <2>1. clauses' = clauses
      BY <1>4 DEF NoteAnswer
    <2> QED
      BY <1>1, <1>4, <2>1, NoteAnswerInv, NoteAnswerSteps, ChainKept DEF DerivationInv
  <1>5. CASE (UnifyStep \/ RaiseThreshold) /\ UNCHANGED resolveVars
    <2>1. clauses' = clauses /\ steps' = steps
      BY <1>5 DEF resolveVars
    <2> QED
      BY <1>1, <1>5, <2>1, UnifyStepInv, StepsKept, ChainKept DEF DerivationInv
  <1> QED
    BY <1>2, <1>3, <1>4, <1>5 DEF ResolveStep

LEMMA DerivationInvStep ==
    ASSUME DerivationInv, [Next]_vars
    PROVE  DerivationInv'
  <1>1. CASE ResolveStep /\ UNCHANGED <<problem, chain>>
    BY <1>1, ResolveStepInv
  <1>2. CASE TakeStep
    BY <1>2, TakeStepInv
  <1>3. CASE RaiseThreshold /\ UNCHANGED <<resolveVars, problem, chain>>
    BY <1>3, ResolveStepInv
  <1>4. CASE UNCHANGED vars
    <2>1. UNCHANGED <<unifyVars, resolveVars>> /\ UNCHANGED <<problem, chain>>
      BY <1>4 DEF vars
    <2>2. UNCHANGED <<clauses, steps>>
      BY <2>1 DEF resolveVars
    <2> QED
      BY <2>1, <2>2, ResolveInvKept, StepsKept, ChainKept DEF DerivationInv
  <1> QED
    BY <1>1, <1>2, <1>3, <1>4 DEF Next

LEMMA DerivationInvHolds == Spec => []DerivationInv
  BY DerivationInvInit, DerivationInvStep, PTL DEF Spec
-----------------------------------------------------------------------------
(***************************************************************************)
(* What holds of every chain, for any problems, similarities, thresholds   *)
(* and names.                                                              *)
(***************************************************************************)

LEMMA DerivationTypes == DerivationInv => TypeOK
  <1> SUFFICES ASSUME DerivationInv PROVE TypeOK
    OBVIOUS
  <1>1. ResolveInv /\ StepsAre /\ FollowsOn /\ ChainIs
    BY DEF DerivationInv
  <1>2. UnifyTypeOK
    BY <1>1 DEF ResolveInv, UnifyInv, UnifyTypes
  <1>3. ResolveTypeOK
    BY <1>1, <1>2 DEF ResolveTypeOK, ResolveInv, StepsAre, Noted
  <1> QED
    BY <1>1, <1>3 DEF TypeOK, FollowsOn, ChainIs

\* The types of Derivation's variables, for problems with clauses of any length
\* and functions in them: a chain links resolvents to sources and is at most
\* one longer than max_proof_depth, as resolve and the depth check leave it.
THEOREM DerivationTyped == Spec => []TypeOK
  BY DerivationInvHolds, DerivationTypes, PTL

\* In a chain too, whose clauses share names and are renamed, unify makes the two
\* literals the same but for constants that are similar, whenever they have no
\* functions.
THEOREM ChainUnifies == Spec => []UnifierUnifies
  <1>1. DerivationInv => UnifierUnifies
    BY DEF DerivationInv, ResolveInv, UnifyInv
  <1> QED
    BY <1>1, DerivationInvHolds, PTL

\* And what unify returns in a chain is most general.
THEOREM ChainUnifiesMostGenerally == Spec => []UnifierIsMostGeneral
  <1>1. DerivationInv => UnifierIsMostGeneral
    BY DEF DerivationInv, ResolveInv, UnifyInv
  <1> QED
    BY <1>1, DerivationInvHolds, PTL

\* Every call of resolve in a chain, with clauses of any length without functions,
\* resolves upon every literal of the target that has the other sign, a
\* predicate above the threshold and a common instance with the source literal;
\* in order and once, whatever other threads do to the threshold meanwhile.
THEOREM AllLiteralsAreTried == Spec => []EveryLiteralIsTried
  <1>1. DerivationInv => EveryLiteralIsTried
    BY ResolveInvTries DEF DerivationInv
  <1> QED
    BY <1>1, DerivationInvHolds, PTL

LEMMA ResolventsFollowNow == DerivationInv => ResolventFollows
  <1> SUFFICES ASSUME DerivationInv, FlatClauses, NEW i \in DOMAIN steps
               PROVE  Follows(steps[i])
    BY DEF ResolventFollows
  <1> DEFINE s == steps[i]
  <1>1. ResolveInv /\ Noted(s) /\ NotedOfFlat(s)
    BY DEF DerivationInv, StepsAre
  <1>2. PlainClause(clauses.source) /\ clauses.source # <<>> /\ PlainClause(clauses.target)
    BY <1>1, FlatClausesArePlain
  <1> HIDE DEF s
  <1>3. s.literal \in DOMAIN clauses.target
    BY <1>1 DEF Noted
  <1>4. PICK b : DerivedBy(StepOf(s), s.literal, b)
    BY <1>1 DEF NotedOfFlat
  <1>5. Follows(s)
    BY <1>2, <1>3, <1>4, DerivedFollows
  <1> QED
    BY <1>5 DEF s

\* build_resolvent is sound for clauses without functions: every ground instance
\* of what it builds contains what is left of ground instances of the two
\* clauses whose literals match, whatever names the clauses share.
THEOREM ResolventsFollow == Spec => []ResolventFollows
  BY DerivationInvHolds, ResolventsFollowNow, PTL

\* And it loses nothing where the names it looks at are all there are: every
\* resolvent of ground instances is an instance of what it builds.  This is
\* what the new names of find_non_overlapping_var_names are for.
THEOREM ResolventsAreMostGeneral == Spec => []ApartIsMostGeneral
  <1>1. DerivationInv => ApartIsMostGeneral
    BY DEF DerivationInv, StepsAre, NotedOfFlat, ApartIsMostGeneral
  <1> QED
    BY <1>1, DerivationInvHolds, PTL

LEMMA ProofsRefuteNow == DerivationInv => ProofRefutes
  <1> SUFFICES ASSUME DerivationInv, Proved, FlatProblem,
                      NEW I \in Interpretations(AllKnowledge, Last(chain).running_similarity),
                      IsModel(I, AllKnowledge)
               PROVE  FALSE
    BY DEF ProofRefutes
  <1>1. ChainIs /\ Literals(AllKnowledge) \subseteq LiteralType
    BY ProblemIs DEF DerivationInv, FollowsOn
  <1> QED
    BY <1>1, ChainRefutes

\* Soundness: for any knowledge and goals without functions, of any size and with
\* any similarities, a chain that comes to the empty resolvent refutes them in
\* every interpretation, over any elements, in which symbols as similar as the
\* running similarity of its last step mean the same.
THEOREM ProofsRefute == Spec => []ProofRefutes
  BY DerivationInvHolds, ProofsRefuteNow, PTL

LEMMA AnswersFollowNow == DerivationInv => AnswerFollows
  <1> SUFFICES ASSUME DerivationInv, Proved, FlatProblem, OneGoalOnly,
                      NEW I \in Interpretations(AllKnowledge, Last(chain).running_similarity),
                      IsModel(I, problem.knowledge)
               PROVE  AnswerHolds(I)
    BY DEF AnswerFollows
  <1>1. ChainIs /\ Literals(AllKnowledge) \subseteq LiteralType
    BY ProblemIs DEF DerivationInv, FollowsOn
  <1> QED
    BY <1>1, AnswerIs

\* The answer is right: the values that Proof.substitutions shows for the goal's
\* variables, which resolve_var_value collects along the chain, make the goal
\* true wherever the knowledge is, unless the proof came back to a goal.
THEOREM AnswersFollow == Spec => []AnswerFollows
  BY DerivationInvHolds, AnswersFollowNow, PTL
-----------------------------------------------------------------------------
(***************************************************************************)
(* Atoms of which one has no variable twice, with functions or without.    *)
(***************************************************************************)
VarsFn == CHOOSE V : V = [t \in Terms |-> VariablesAt(V, t)]

Vars(t) == VarsFn[t]

PartsAt(P, t) == {t} \cup UNION { P[t.terms[i]] : i \in DOMAIN t.terms }

PartsFn == CHOOSE P : P = [t \in Terms |-> PartsAt(P, t)]

Parts(t) == PartsFn[t]

LEMMA VarsAre ==
    /\ \A t \in Terms : Vars(t) = VariablesAt(VarsFn, t)
    /\ \A ts : VariablesOf(ts) = UNION { Vars(t) : t \in ToSet(ts) }
  <1>1. VarsFn = [t \in Terms |-> VariablesAt(VarsFn, t)]
    BY VariablesExist DEF VarsFn
  <1>2. ASSUME NEW t \in Terms PROVE VarsFn[t] = VariablesAt(VarsFn, t)
    <2> DEFINE W == VarsFn
    <2>1. W = [u \in Terms |-> VariablesAt(W, u)]
      BY <1>1
    <2> HIDE DEF W
    <2>2. W[t] = VariablesAt(W, t)
      BY <2>1
    <2> QED
      BY <2>2 DEF W
  <1>3. ASSUME NEW ts PROVE VariablesOf(ts) = UNION { VarsFn[t] : t \in ToSet(ts) }
    BY DEF VariablesOf, VarsFn, VariablesAt
  <1> QED
    BY <1>2, <1>3 DEF Vars

LEMMA PartsAre ==
    /\ \A t \in Terms : Parts(t) = PartsAt(PartsFn, t)
    /\ \A ts : PartsOf(ts) = UNION { Parts(t) : t \in ToSet(ts) }
  <1> DEFINE Own == [t \in Terms |-> {t}]
  <1>1. \E P : P = [t \in Terms |-> PartsAt(P, t)]
    <2>1. Own \in [Terms -> SUBSET Terms]
      OBVIOUS
    <2>2. PICK P : P = [t \in Terms |-> Collected(Own, P, t)]
      BY <2>1, CollectionExists
    <2>3. \A t \in Terms : Collected(Own, P, t) = PartsAt(P, t)
      BY DEF Collected, PartsAt
    <2> HIDE DEF Own
    <2>4. P = [t \in Terms |-> PartsAt(P, t)]
      BY <2>2, <2>3
    <2> QED
      BY <2>4
  <1>2. PartsFn = [t \in Terms |-> PartsAt(PartsFn, t)]
    BY <1>1 DEF PartsFn
  <1>3. ASSUME NEW t \in Terms PROVE PartsFn[t] = PartsAt(PartsFn, t)
    <2> DEFINE W == PartsFn
    <2>1. W = [u \in Terms |-> PartsAt(W, u)]
      BY <1>2
    <2> HIDE DEF W
    <2>2. W[t] = PartsAt(W, t)
      BY <2>1
    <2> QED
      BY <2>2 DEF W
  <1>4. ASSUME NEW ts PROVE PartsOf(ts) = UNION { PartsFn[t] : t \in ToSet(ts) }
    BY DEF PartsOf, PartsFn, PartsAt
  <1> QED
    BY <1>3, <1>4 DEF Parts

\* A term that has no variable twice.
LinearTerm(t) == t \in Terms /\ \A u \in Parts(t) : ~ ShareVariable(u.terms)

LEMMA ShareIs ==
    ASSUME NEW ts, ~ ShareVariable(ts), NEW i \in DOMAIN ts, NEW j \in DOMAIN ts, i # j
    PROVE  Vars(ts[i]) \cap Vars(ts[j]) = {}
  <1>1. ASSUME NEW t PROVE VariablesOf(<<t>>) = Vars(t)
    <2>1. ToSet(<<t>>) = {t}
      BY DEF ToSet
    <2>2. VariablesOf(<<t>>) = UNION { Vars(u) : u \in ToSet(<<t>>) }
      BY VarsAre
    <2> QED
      BY <2>1, <2>2
  <1>2. VariablesOf(<<ts[i]>>) = Vars(ts[i]) /\ VariablesOf(<<ts[j]>>) = Vars(ts[j])
    BY <1>1
  <1> QED
    BY <1>2 DEF ShareVariable

LEMMA LinearParts ==
    ASSUME NEW t, LinearTerm(t)
    PROVE  /\ ~ ShareVariable(t.terms)
           /\ \A i \in DOMAIN t.terms : LinearTerm(t.terms[i])
  <1>1. t \in Terms /\ Parts(t) = PartsAt(PartsFn, t)
    BY PartsAre DEF LinearTerm
  <1>2. t.terms \in Seq(Terms)
    BY <1>1, UnifyAssumption
  <1>3. t \in Parts(t) /\ \A i \in DOMAIN t.terms : Parts(t.terms[i]) \subseteq Parts(t)
    BY <1>1 DEF PartsAt, Parts
  <1>4. \A i \in DOMAIN t.terms : t.terms[i] \in Terms
    BY <1>2, SeqElements
  <1> QED
    BY <1>3, <1>4 DEF LinearTerm

LEMMA LinearAtom ==
    ASSUME NEW atom \in Atoms, ~ RepeatsVariable(atom)
    PROVE  /\ ~ ShareVariable(atom.terms)
           /\ \A i \in DOMAIN atom.terms : LinearTerm(atom.terms[i])
  <1>1. ~ ShareVariable(atom.terms)
    BY DEF RepeatsVariable
  <1>2. \A t \in PartsOf(atom.terms) : ~ ShareVariable(t.terms)
    BY DEF RepeatsVariable
  <1>3. PartsOf(atom.terms) = UNION { Parts(t) : t \in ToSet(atom.terms) }
    BY PartsAre
  <1>4. atom.terms \in Seq(Terms)
    BY DEF Atoms
  <1>5. ASSUME NEW i \in DOMAIN atom.terms PROVE LinearTerm(atom.terms[i])
    <2>1. atom.terms[i] \in Terms /\ atom.terms[i] \in ToSet(atom.terms)
      BY <1>4, SeqElements
    <2>2. Parts(atom.terms[i]) \subseteq PartsOf(atom.terms)
      BY <1>3, <2>1
    <2> QED
      BY <1>2, <2>1, <2>2 DEF LinearTerm
  <1> QED
    BY <1>1, <1>5

\* The variables of a labeled term.
LVars(l) == { LabeledTerm(l.label, v) : v \in Vars(l.term) }

LEMMA LVarsAre ==
    ASSUME NEW l \in LabeledTerms
    PROVE  /\ HasKind(l, "variable") => LVars(l) = {l}
           /\ ~ HasKind(l, "variable") =>
                 LVars(l) = UNION { LVars(LabeledTerm(l.label, l.term.terms[i])) :
                                      i \in DOMAIN l.term.terms }
  <1>1. l.term \in Terms /\ l = LabeledTerm(l.label, l.term)
    BY DEF LabeledTerms, LabeledTerm
  <1>2. Vars(l.term) = VariablesAt(VarsFn, l.term)
    BY <1>1, VarsAre
  <1>3. CASE HasKind(l, "variable")
    <2>1. Vars(l.term) = {l.term}
      BY <1>2, <1>3 DEF VariablesAt, HasKind
    <2> QED
      BY <1>1, <1>3, <2>1 DEF LVars
  <1>4. CASE ~ HasKind(l, "variable")
    <2>1. Vars(l.term) = UNION { Vars(l.term.terms[i]) : i \in DOMAIN l.term.terms }
      BY <1>2, <1>4 DEF VariablesAt, HasKind, Vars
    <2> DEFINE I == DOMAIN l.term.terms
               L(i) == LVars(LabeledTerm(l.label, l.term.terms[i]))
    <2>2. ASSUME NEW i \in I
          PROVE  L(i) = { LabeledTerm(l.label, v) : v \in Vars(l.term.terms[i]) }
      BY DEF LVars, LabeledTerm
    <2>3. ASSUME NEW x PROVE x \in LVars(l) <=> \E i \in I : x \in L(i)
      <3>1. x \in LVars(l) <=> \E v : v \in Vars(l.term) /\ x = LabeledTerm(l.label, v)
        BY DEF LVars
      <3>2. \A i \in I :
               x \in L(i) <=>
                  \E v : v \in Vars(l.term.terms[i]) /\ x = LabeledTerm(l.label, v)
        <4> HIDE DEF L
        <4> QED
          BY <2>2
      <3> HIDE DEF L
      <3> QED
        BY <2>1, <3>1, <3>2
    <2>4. LVars(l) = UNION { L(i) : i \in I }
      <3> HIDE DEF L, I
      <3> QED
        BY <2>3
    <2> QED
      BY <1>4, <2>4
  <1> QED
    BY <1>3, <1>4
-----------------------------------------------------------------------------
(***************************************************************************)
(* What unify has yet to do on the side of such an atom: its pieces.       *)
(***************************************************************************)
Side(p, side) == IF side = "source" THEN p.source ELSE p.target

Waiting(side, p) == LabeledTerm(side, Side(p, side))

\* The variables of all pieces.
Fresh(side, stack, r) ==
    (UNION { LVars(Side(stack[j], side)) : j \in DOMAIN stack })
      \cup (UNION { LVars(Waiting(side, r[i])) : i \in DOMAIN r })

\* No variable is in two of the pieces, or in one of them twice.
Pieces(side, stack, r) ==
    /\ \A j \in DOMAIN stack :
          Side(stack[j], side).label = side /\ LinearTerm(Side(stack[j], side).term)
    /\ \A i \in DOMAIN r : LinearTerm(Side(r[i], side))
    /\ \A j, k \in DOMAIN stack : j # k =>
          LVars(Side(stack[j], side)) \cap LVars(Side(stack[k], side)) = {}
    /\ \A i, k \in DOMAIN r : i # k =>
          LVars(Waiting(side, r[i])) \cap LVars(Waiting(side, r[k])) = {}
    /\ \A j \in DOMAIN stack, i \in DOMAIN r :
          LVars(Side(stack[j], side)) \cap LVars(Waiting(side, r[i])) = {}

\* They are nowhere else yet.
Outside(side, S, stack, F) ==
    /\ F \cap DOMAIN S = {}
    /\ \A v \in DOMAIN S : LVars(S[v]) \cap F = {}
    /\ \A j \in DOMAIN stack : LVars(Side(stack[j], Opposite(side))) \cap F = {}

\* B[v] has the variables of the value of v, and those of their values, and so
\* on; v itself is not among them.
Ordered(S, B, F) ==
    \A v \in DOMAIN S :
        /\ LVars(S[v]) \subseteq B[v]
        /\ \A w \in DOMAIN S : w \in B[v] => B[w] \subseteq B[v]
        /\ v \notin B[v]
        /\ B[v] \cap F = {}

LinearAt(side, S, stack, r) ==
    /\ Pieces(side, stack, r)
    /\ Outside(side, S, stack, Fresh(side, stack, r))
    /\ \E h, R : IsForest(S, h, R)
    /\ \E B : Ordered(S, B, Fresh(side, stack, r))

\* Fewer fresh variables.
LEMMA FewerFresh ==
    ASSUME NEW side, NEW S, NEW stack, NEW F, NEW G, G \subseteq F, NEW B
    PROVE  /\ Outside(side, S, stack, F) => Outside(side, S, stack, G)
           /\ Ordered(S, B, F) => Ordered(S, B, G)
  <1>1. ASSUME NEW X, X \cap F = {} PROVE X \cap G = {}
    BY <1>1
  <1>2. Outside(side, S, stack, F) => Outside(side, S, stack, G)
    <2>2. F \cap DOMAIN S = {} => G \cap DOMAIN S = {}
      OBVIOUS
    <2> QED
      BY <1>1, <2>2 DEF Outside
  <1>3. Ordered(S, B, F) => Ordered(S, B, G)
    BY <1>1 DEF Ordered
  <1> QED
    BY <1>2, <1>3

\* The variables L, with those of their values, and so on.
Under(S, B, L) == L \cup UNION { B[c] : c \in L \cap DOMAIN S }

Below(S, B, var, L) ==
    [v \in DOMAIN S \cup {var} |->
        IF v = var THEN Under(S, B, L)
        ELSE IF var \in B[v] THEN B[v] \cup Under(S, B, L) ELSE B[v]]

\* A new value in which, and in the values of whose variables, what is bound to
\* it is not.
LEMMA WithIsOrdered ==
    ASSUME NEW S, NEW B, NEW F, Ordered(S, B, F), NEW var, var \notin DOMAIN S,
           NEW l, var \notin Under(S, B, LVars(l)), LVars(l) \cap F = {}
    PROVE  Ordered(With(S, var, l), Below(S, B, var, LVars(l)), F)
  <1> DEFINE L == LVars(l)
             U == Under(S, B, L)
             T == With(S, var, l)
             C == Below(S, B, var, L)
  <1>1. /\ DOMAIN T = DOMAIN S \cup {var}
        /\ T[var] = l /\ \A v \in DOMAIN S : T[v] = S[v]
    BY DEF With
  <1>2. /\ C[var] = U
        /\ \A v \in DOMAIN S : C[v] = IF var \in B[v] THEN B[v] \cup U ELSE B[v]
    BY DEF Below
  <1>3. \A v \in DOMAIN S : LVars(S[v]) \subseteq B[v] /\ v \notin B[v] /\ B[v] \cap F = {}
    BY DEF Ordered
  <1>4. \A v, w \in DOMAIN S : w \in B[v] => B[w] \subseteq B[v]
    BY DEF Ordered
  <1>5. var \notin U /\ L \subseteq U
    BY DEF Under
  <1>6. ASSUME NEW w \in DOMAIN S, w \in U PROVE B[w] \subseteq U
    <2>1. CASE w \in L
      BY <2>1 DEF Under
    <2>2. CASE w \notin L
      <3>1. PICK c \in L \cap DOMAIN S : w \in B[c]
        BY <1>6, <2>2 DEF Under
      <3> QED
        BY <1>4, <3>1 DEF Under
    <2> QED
      BY <2>1, <2>2
  <1>7. U \cap F = {}
    BY <1>3 DEF Under
  <1> HIDE DEF U, C, T
  <1>8. \A w \in DOMAIN S : w \in U => C[w] = B[w] /\ w # var
    BY <1>2, <1>5, <1>6
  <1>9. ASSUME NEW v \in DOMAIN T
        PROVE  /\ LVars(T[v]) \subseteq C[v]
               /\ \A w \in DOMAIN T : w \in C[v] => C[w] \subseteq C[v]
               /\ v \notin C[v]
               /\ C[v] \cap F = {}
    <2>1. CASE v = var
      <3>1. C[v] = U /\ LVars(T[v]) = L
        BY <1>1, <1>2, <2>1
      <3>2. ASSUME NEW w \in DOMAIN T, w \in C[v] PROVE C[w] \subseteq C[v]
        <4>1. w \in DOMAIN S /\ w \in U
          BY <1>1, <1>5, <3>1, <3>2
        <4> QED
          BY <1>6, <1>8, <3>1, <4>1
      <3> QED
        BY <1>5, <1>7, <2>1, <3>1, <3>2
    <2>2. CASE v # var
      <3>1. v \in DOMAIN S /\ T[v] = S[v] /\ C[v] = IF var \in B[v] THEN B[v] \cup U ELSE B[v]
        BY <1>1, <1>2, <2>2
      <3>2. ASSUME NEW w \in DOMAIN T, w \in C[v] PROVE C[w] \subseteq C[v]
        <4>1. CASE w = var
          <5>1. var \in B[v]
            BY <1>5, <3>1, <3>2, <4>1
          <5> QED
            BY <1>2, <3>1, <4>1, <5>1
        <4>2. CASE w # var /\ w \in B[v]
          <5>1. w \in DOMAIN S /\ B[w] \subseteq B[v]
            BY <1>1, <1>4, <3>1, <4>2
          <5>2. C[w] = IF var \in B[w] THEN B[w] \cup U ELSE B[w]
            BY <1>2, <5>1
          <5> QED
            BY <3>1, <5>1, <5>2
        <4>3. CASE w # var /\ w \notin B[v]
          <5>1. w \in DOMAIN S /\ w \in U /\ var \in B[v]
            BY <1>1, <3>1, <3>2, <4>3
          <5> QED
            BY <1>6, <1>8, <3>1, <5>1
        <4> QED
          BY <4>1, <4>2, <4>3
      <3>3. v \notin C[v]
        <4>1. v \in U => var \notin B[v]
          BY <1>5, <1>6, <3>1
        <4> QED
          BY <1>3, <3>1, <4>1
      <3>4. LVars(T[v]) \subseteq C[v] /\ C[v] \cap F = {}
        BY <1>3, <1>7, <3>1
      <3> QED
        BY <3>2, <3>3, <3>4
    <2> QED
      BY <2>1, <2>2
  <1>10. Ordered(T, C, F)
    BY <1>9 DEF Ordered
  <1> QED
    BY <1>10 DEF T, C
-----------------------------------------------------------------------------
(***************************************************************************)
(* The occurrence check ends where there is such an order.                 *)
(***************************************************************************)
MetAt(S, l, M, n) ==
    IF n = 0 THEN ComparisonVars(End(S, l))
    ELSE M[n - 1] \cup UNION { ComparisonVars(End(S, S[v])) : v \in M[n - 1] \cap DOMAIN S }

IsMet(S, l, n, M) == M = [i \in 0 .. n |-> MetAt(S, l, M, i)]

LEMMA MetExists ==
    ASSUME NEW S, NEW l
    PROVE  \A n \in Nat : \E M : IsMet(S, l, n, M)
  <1> DEFINE Missing == { n \in Nat : ~ \E M : IsMet(S, l, n, M) }
  <1> SUFFICES ASSUME Missing # {} PROVE FALSE
    OBVIOUS
  <1>1. PICK n \in Missing : \A m \in Missing : n <= m
    BY LeastNumber
  <1>2. n # 0
    <2> DEFINE M == [i \in 0 .. 0 |-> ComparisonVars(End(S, l))]
    <2>1. M = [i \in 0 .. 0 |-> MetAt(S, l, M, i)]
      BY DEF MetAt
    <2> HIDE DEF M
    <2>2. IsMet(S, l, 0, M)
      BY <2>1 DEF IsMet
    <2> QED
      BY <1>1, <2>2
  <1>3. n \in Nat /\ n - 1 \in Nat /\ n - 1 \notin Missing
    BY <1>1, <1>2
  <1>4. PICK M : IsMet(S, l, n - 1, M)
    BY <1>3
  <1> DEFINE K == [i \in 0 .. n |-> IF i = n THEN MetAt(S, l, M, n) ELSE M[i]]
  <1>5. ASSUME NEW i \in 0 .. n
        PROVE  K[i] = MetAt(S, l, K, i)
    <2>1. i # 0 => K[i - 1] = M[i - 1]
      BY <1>3
    <2>2. MetAt(S, l, K, i) = MetAt(S, l, M, i)
      <3> HIDE DEF K
      <3> QED
        BY <2>1 DEF MetAt
    <2>3. CASE i = n
      BY <2>2, <2>3
    <2>4. CASE i # n
      <3>1. i \in 0 .. n - 1 /\ K[i] = M[i]
        BY <1>3, <2>4
      <3>2. M[i] = MetAt(S, l, M, i)
        <4> DEFINE f(j) == MetAt(S, l, M, j)
        <4>1. M = [j \in 0 .. n - 1 |-> f(j)]
          BY <1>4 DEF IsMet
        <4> HIDE DEF f
        <4>2. M[i] = f(i)
          BY <3>1, <4>1
        <4> QED
          BY <4>2 DEF f
      <3> QED
        BY <2>2, <3>1, <3>2
    <2> QED
      BY <2>3, <2>4
  <1>6. K = [i \in 0 .. n |-> MetAt(S, l, K, i)]
    <2>1. K = [i \in 0 .. n |-> K[i]]
      OBVIOUS
    <2> HIDE DEF K
    <2> QED
      BY <1>5, <2>1
  <1> HIDE DEF K
  <1>7. IsMet(S, l, n, K)
    BY <1>6 DEF IsMet
  <1> QED
    BY <1>1, <1>7

LEMMA MetIs ==
    ASSUME NEW l, IsFiniteSet(DOMAIN substitutions)
    PROVE  \E M : \E n \in Nat : IsMet(substitutions, l, n, M) /\ Met(l) = M[n]
  <1> DEFINE n == Cardinality(DOMAIN substitutions) + 1
             M == CHOOSE M : IsMet(substitutions, l, n, M)
  <1>1. n \in Nat
    BY FS_CardinalityType
  <1>2. IsMet(substitutions, l, n, M)
    BY <1>1, MetExists
  <1>3. Met(l) = M[n]
    BY DEF Met, IsMet, MetAt, Resolved, End
  <1> QED
    BY <1>1, <1>2, <1>3

LEMMA ComparisonVarsAre ==
    ASSUME NEW l \in LabeledTerms
    PROVE  ComparisonVars(l) \subseteq LVars(l)
  <1>1. CASE HasKind(l, "variable")
    BY <1>1, LVarsAre DEF ComparisonVars
  <1>2. CASE ~ HasKind(l, "variable")
    <2> SUFFICES ASSUME NEW t \in ToSet(l.term.terms), t.kind = "variable"
                 PROVE  LabeledTerm(l.label, t) \in LVars(l)
      BY <1>2 DEF ComparisonVars
    <2>1. l.term \in Terms /\ l.label \in Labels /\ l.term.terms \in Seq(Terms)
      BY UnifyAssumption DEF LabeledTerms
    <2>2. PICK i \in DOMAIN l.term.terms : t = l.term.terms[i]
      BY <2>1, SeqElements
    <2>3. t \in Terms
      BY <2>1, SeqElements
    <2> DEFINE k == LabeledTerm(l.label, t)
    <2>4. k \in LabeledTerms /\ HasKind(k, "variable")
      BY <2>1, <2>3 DEF LabeledTerm, LabeledTerms, HasKind
    <2>5. LVars(k) = {k}
      BY <2>4, LVarsAre
    <2> QED
      BY <1>2, <2>2, <2>5, LVarsAre
  <1> QED
    BY <1>1, <1>2

\* The end of a chain from a value has no other variables than are below it.
LEMMA EndIsBelow ==
    ASSUME NEW S, Typed(S), \A v \in DOMAIN S : HasKind(v, "variable"),
           NEW B, NEW F, Ordered(S, B, F), NEW v \in DOMAIN S
    PROVE  End(S, S[v]) \in LabeledTerms /\ LVars(End(S, S[v])) \subseteq B[v]
  <1> DEFINE C == { l \in LabeledTerms : LVars(l) \subseteq B[v] }
  <1>1. S[v] \in C
    BY DEF Ordered, Typed
  <1>2. ASSUME NEW w \in DOMAIN S \cap C PROVE S[w] \in C
    <2>1. w \in LabeledTerms /\ LVars(w) = {w} /\ S[w] \in LabeledTerms
      BY LVarsAre DEF Typed
    <2>2. w \in B[v]
      BY <2>1
    <2>3. LVars(S[w]) \subseteq B[w] /\ B[w] \subseteq B[v]
      BY <2>2 DEF Ordered
    <2> QED
      BY <2>1, <2>3
  <1>3. IsFiniteSet(DOMAIN S)
    BY DEF Typed
  <1> HIDE DEF C
  <1>4. End(S, S[v]) \in C
    BY <1>1, <1>2, <1>3, EndStays
  <1> QED
    BY <1>4 DEF C

LEMMA MetIsBelow ==
    ASSUME UnifyTypes, NEW B, NEW F, Ordered(substitutions, B, F),
           NEW v \in DOMAIN substitutions
    PROVE  Met(substitutions[v]) \subseteq B[v]
  <1> DEFINE S == substitutions
  <1>1. Typed(S) /\ \A w \in DOMAIN S : HasKind(w, "variable")
    BY DEF UnifyTypes, UnifyTypeOK, Typed
  <1>2. \A w \in DOMAIN S : ComparisonVars(End(S, S[w])) \subseteq B[w]
    BY <1>1, EndIsBelow, ComparisonVarsAre
  <1>0. PICK M : \E n \in Nat : IsMet(S, S[v], n, M) /\ Met(S[v]) = M[n]
    BY <1>1, MetIs DEF Typed
  <1>3. PICK n \in Nat : IsMet(S, S[v], n, M) /\ Met(S[v]) = M[n]
    BY <1>0
  <1>4. ASSUME NEW i \in 0 .. n PROVE M[i] = MetAt(S, S[v], M, i)
    <2> DEFINE f(j) == MetAt(S, S[v], M, j)
    <2>1. M = [j \in 0 .. n |-> f(j)]
      BY <1>3 DEF IsMet
    <2> HIDE DEF f
    <2>2. M[i] = f(i)
      BY <2>1
    <2> QED
      BY <2>2 DEF f
  <1> HIDE DEF S
  <1> DEFINE Bad == { i \in 0 .. n : ~ (M[i] \subseteq B[v]) }
  <1>5. Bad = {}
    <2> SUFFICES ASSUME Bad # {} PROVE FALSE
      OBVIOUS
    <2>0. Bad \in SUBSET Nat
      OBVIOUS
    <2>1. PICK i \in Bad : \A j \in Bad : i <= j
      <3> HIDE DEF Bad
      <3> QED
        BY <2>0, LeastNumber
    <2>2. i # 0
      BY <1>2, <1>4, <2>1 DEF MetAt, S
    <2>3. i - 1 \in 0 .. n /\ M[i - 1] \subseteq B[v]
      BY <2>1, <2>2
    <2>4. ASSUME NEW w \in M[i - 1] \cap DOMAIN S
          PROVE  ComparisonVars(End(S, S[w])) \subseteq B[v]
      <3>1. w \in B[v] /\ B[w] \subseteq B[v]
        BY <2>3 DEF Ordered, S
      <3> QED
        BY <1>2, <3>1
    <2>5. M[i] = M[i - 1] \cup UNION { ComparisonVars(End(S, S[w])) : w \in M[i - 1] \cap DOMAIN S }
      BY <1>4, <2>1, <2>2 DEF MetAt
    <2> QED
      BY <2>1, <2>3, <2>4, <2>5
  <1> QED
    BY <1>3, <1>5 DEF S

LEMMA CheckEnds ==
    ASSUME UnifyTypes, NEW B, NEW F, Ordered(substitutions, B, F), NEW var, NEW l
    PROVE  ~ CheckMayLoop(var, l)
  <1>1. \A v \in DOMAIN substitutions : Met(substitutions[v]) \subseteq B[v] /\ v \notin B[v]
    BY MetIsBelow DEF Ordered
  <1> QED
    BY <1>1 DEF CheckMayLoop
-----------------------------------------------------------------------------
(***************************************************************************)
(* The pair in hand: the piece P is not bound, and O, what the other term  *)
(* stands for, has none of the fresh variables.                            *)
(***************************************************************************)
InHand(side, S, stack, r, P, O) ==
    /\ P \in LabeledTerms \ DOMAIN S /\ P.label = side /\ LinearTerm(P.term)
    /\ O \in LabeledTerms \ DOMAIN S
    /\ LVars(P) \subseteq Fresh(side, stack, r)
    /\ LVars(P) \cap Fresh(side, Front(stack), r) = {}
    /\ LVars(O) \cap Fresh(side, stack, r) = {}

LEMMA InFresh ==
    ASSUME NEW side, NEW stack, NEW r, NEW x
    PROVE  x \in Fresh(side, stack, r) <=>
              \/ \E j \in DOMAIN stack : x \in LVars(Side(stack[j], side))
              \/ \E i \in DOMAIN r : x \in LVars(Waiting(side, r[i]))
  <1>1. ASSUME NEW U, NEW V PROVE x \in U \cup V <=> x \in U \/ x \in V
    OBVIOUS
  <1>2. x \in UNION { LVars(Side(stack[j], side)) : j \in DOMAIN stack } <=>
           \E j \in DOMAIN stack : x \in LVars(Side(stack[j], side))
    BY Zenon
  <1>3. x \in UNION { LVars(Waiting(side, r[i])) : i \in DOMAIN r } <=>
           \E i \in DOMAIN r : x \in LVars(Waiting(side, r[i]))
    BY Zenon
  <1> QED
    BY <1>1, <1>2, <1>3, Zenon DEF Fresh

LEMMA FrontIs ==
    ASSUME NEW T, NEW q \in Seq(T), q # <<>>
    PROVE  /\ Last(q) = q[Len(q)] /\ Len(q) \in DOMAIN q /\ DOMAIN q = 1 .. Len(q)
           /\ DOMAIN Front(q) = 1 .. Len(q) - 1 /\ Len(Front(q)) = Len(q) - 1
           /\ \A j \in DOMAIN Front(q) : Front(q)[j] = q[j] /\ j \in DOMAIN q /\ j # Len(q)
  <1>1. Len(q) \in Nat /\ Len(q) >= 1 /\ DOMAIN q = 1 .. Len(q)
    OBVIOUS
  <1> DEFINE f == Front(q)
  <1>2. Len(f) = Len(q) - 1 /\ DOMAIN f = 1 .. Len(q) - 1
    BY <1>1 DEF Front
  <1>3. \A j \in 1 .. Len(q) - 1 : f[j] = q[j]
    BY <1>1 DEF Front
  <1>4. Last(q) = q[Len(q)]
    BY DEF Last
  <1> HIDE DEF f
  <1>5. \A j \in DOMAIN f : f[j] = q[j] /\ j \in DOMAIN q /\ j # Len(q)
    BY <1>1, <1>2, <1>3
  <1>6. Len(q) \in DOMAIN q
    BY <1>1
  <1> QED
    BY <1>1, <1>2, <1>4, <1>5, <1>6 DEF f

LEMMA FrontPieces ==
    ASSUME NEW side, NEW stack \in Seq(PairType), stack # <<>>, NEW r,
           Pieces(side, stack, r)
    PROVE  /\ Pieces(side, Front(stack), r)
           /\ Fresh(side, Front(stack), r) \subseteq Fresh(side, stack, r)
           /\ LVars(Side(Last(stack), side)) \subseteq Fresh(side, stack, r)
           /\ LVars(Side(Last(stack), side)) \cap Fresh(side, Front(stack), r) = {}
  <1>1. /\ Last(stack) = stack[Len(stack)] /\ Len(stack) \in DOMAIN stack
        /\ \A j \in DOMAIN Front(stack) :
              Front(stack)[j] = stack[j] /\ j \in DOMAIN stack /\ j # Len(stack)
    BY FrontIs
  <1> DEFINE q == Front(stack)
             n == Len(stack)
             L(j) == LVars(Side(stack[j], side))
             W(i) == LVars(Waiting(side, r[i]))
  <1>2. /\ \A j \in DOMAIN stack : Side(stack[j], side).label = side /\ LinearTerm(Side(stack[j], side).term)
        /\ \A i \in DOMAIN r : LinearTerm(Side(r[i], side))
        /\ \A j, k \in DOMAIN stack : j # k => L(j) \cap L(k) = {}
        /\ \A i, k \in DOMAIN r : i # k => W(i) \cap W(k) = {}
        /\ \A j \in DOMAIN stack, i \in DOMAIN r : L(j) \cap W(i) = {}
    BY DEF Pieces
  <1>3. \A j \in DOMAIN q : LVars(Side(q[j], side)) = L(j)
    BY <1>1
  <1>6. LVars(Side(Last(stack), side)) = L(n)
    BY <1>1
  <1>7. Pieces(side, q, r)
    BY <1>1, <1>2 DEF Pieces
  <1> HIDE DEF L, W, q, n
  <1>8. \A x : x \in Fresh(side, q, r) <=>
                 (\E j \in DOMAIN q : x \in L(j)) \/ \E i \in DOMAIN r : x \in W(i)
    BY <1>3, InFresh DEF W
  <1>9. \A x : x \in Fresh(side, stack, r) <=>
                 (\E j \in DOMAIN stack : x \in L(j)) \/ \E i \in DOMAIN r : x \in W(i)
    BY InFresh DEF L, W
  <1>10. Fresh(side, q, r) \subseteq Fresh(side, stack, r)
    BY <1>1, <1>8, <1>9 DEF q
  <1>11. L(n) \subseteq Fresh(side, stack, r)
    BY <1>1, <1>9 DEF n
  <1>12. L(n) \cap Fresh(side, q, r) = {}
    BY <1>1, <1>2, <1>8 DEF q, n
  <1> QED
    BY <1>6, <1>7, <1>10, <1>11, <1>12 DEF q

LEMMA PieceInHand ==
    ASSUME UnifyTypes, NEW side \in Labels, pairs_stack # <<>>,
           LinearAt(side, substitutions, pairs_stack, rest)
    PROVE  /\ Resolved(Side(Popped, side)) = Side(Popped, side)
           /\ InHand(side, substitutions, pairs_stack, rest, Side(Popped, side),
                     Resolved(Side(Popped, Opposite(side))))
  <1> DEFINE S == substitutions
             P == Side(Popped, side)
             O == Side(Popped, Opposite(side))
             F == Fresh(side, pairs_stack, rest)
  <1>1. Typed(S) /\ (\A w \in DOMAIN S : HasKind(w, "variable")) /\ pairs_stack \in Seq(PairType)
    BY DEF UnifyTypes, UnifyTypeOK, Typed
  <1>2. /\ Pieces(side, pairs_stack, rest) /\ Outside(side, S, pairs_stack, F)
        /\ \E h, R : IsForest(S, h, R)
    BY DEF LinearAt
  <1>3. Popped = pairs_stack[Len(pairs_stack)] /\ Len(pairs_stack) \in DOMAIN pairs_stack
    BY <1>1, FrontIs DEF Popped
  <1>4. P \in LabeledTerms /\ O \in LabeledTerms
    <2>1. Popped \in PairType
      BY <1>1, LastAndFront DEF Popped
    <2> QED
      BY <2>1 DEF PairType, Side
  <1>5. LVars(P) \subseteq F /\ LVars(P) \cap Fresh(side, Front(pairs_stack), rest) = {}
    BY <1>1, <1>2, FrontPieces DEF Popped
  <1>6. P.label = side /\ LinearTerm(P.term)
    BY <1>2, <1>3 DEF Pieces
  <1>7. /\ F \cap DOMAIN S = {} /\ LVars(O) \cap F = {}
        /\ \A v \in DOMAIN S : LVars(S[v]) \cap F = {}
    BY <1>2, <1>3 DEF Outside
  <1>8. P \notin DOMAIN S
    <2>1. P \in DOMAIN S => LVars(P) = {P}
      BY <1>1, <1>4, LVarsAre
    <2> QED
      BY <1>5, <1>7, <2>1
  <1>9. End(S, P) = P
    BY <1>1, <1>8, EndOfRoot DEF Typed
  <1> DEFINE C == { l \in LabeledTerms : LVars(l) \cap F = {} }
  <1>10. End(S, O) \in C
    <2>1. O \in C
      BY <1>4, <1>7
    <2>2. \A v \in DOMAIN S \cap C : S[v] \in C
      BY <1>1, <1>7 DEF Typed
    <2>3. IsFiniteSet(DOMAIN S)
      BY <1>1 DEF Typed
    <2> HIDE DEF C
    <2> QED
      BY <2>1, <2>2, <2>3, EndStays
  <1>11. End(S, O) \notin DOMAIN S
    BY <1>1, <1>2, <1>4, EndInForest
  <1> QED
    BY <1>4, <1>5, <1>6, <1>8, <1>9, <1>10, <1>11, ResolvedIsEnd DEF InHand
-----------------------------------------------------------------------------
(***************************************************************************)
(* Every step keeps it so.                                                 *)
(***************************************************************************)
LEMMA LVarsApart ==
    ASSUME NEW label, NEW s, NEW t, Vars(s) \cap Vars(t) = {}
    PROVE  LVars(LabeledTerm(label, s)) \cap LVars(LabeledTerm(label, t)) = {}
  <1> SUFFICES ASSUME NEW v \in Vars(s), NEW w \in Vars(t),
                      LabeledTerm(label, v) = LabeledTerm(label, w)
               PROVE  FALSE
    BY DEF LVars, LabeledTerm
  <1>1. v = w
    BY DEF LabeledTerm
  <1> QED
    BY <1>1

LEMMA LVarsLabel ==
    ASSUME NEW l, NEW v \in LVars(l)
    PROVE  v.label = l.label
  BY DEF LVars, LabeledTerm

LEMMA FreshLabel ==
    ASSUME NEW side, NEW stack, NEW r, Pieces(side, stack, r),
           NEW v \in Fresh(side, stack, r)
    PROVE  v.label = side
  <1>1. CASE \E j \in DOMAIN stack : v \in LVars(Side(stack[j], side))
    BY <1>1, LVarsLabel DEF Pieces
  <1>2. CASE \E i \in DOMAIN r : v \in LVars(Waiting(side, r[i]))
    <2>1. v.label = side
      BY <1>2, LVarsLabel DEF Waiting, LabeledTerm
    <2> QED
      BY <2>1
  <1> QED
    BY <1>1, <1>2, InFresh

LEMMA CallLinear ==
    ASSUME NEW side \in Labels, NEW s \in Atoms, NEW t \in Atoms,
           Len(s.terms) = Len(t.terms),
           ~ RepeatsVariable(IF side = "source" THEN s ELSE t)
    PROVE  LinearAt(side, NoSubstitutions, <<>>, ZippedTerms(s.terms, t.terms))
  <1> DEFINE atom == IF side = "source" THEN s ELSE t
             r == ZippedTerms(s.terms, t.terms)
             S == NoSubstitutions
  <1>1. atom \in Atoms /\ ~ RepeatsVariable(atom)
    OBVIOUS
  <1>2. DOMAIN s.terms = DOMAIN t.terms
    BY AtomsAre, SeqElements
  <1>3. DOMAIN r = DOMAIN atom.terms /\ \A i \in DOMAIN r : Side(r[i], side) = atom.terms[i]
    BY <1>2 DEF ZippedTerms, Side
  <1> HIDE DEF atom, r
  <1>4. /\ ~ ShareVariable(atom.terms)
        /\ \A i \in DOMAIN atom.terms : LinearTerm(atom.terms[i])
    BY <1>1, LinearAtom
  <1>5. ASSUME NEW i \in DOMAIN r, NEW k \in DOMAIN r, i # k
        PROVE  LVars(Waiting(side, r[i])) \cap LVars(Waiting(side, r[k])) = {}
    <2>1. Vars(atom.terms[i]) \cap Vars(atom.terms[k]) = {}
      BY <1>3, <1>4, <1>5, ShareIs
    <2> QED
      BY <1>3, <2>1, LVarsApart DEF Waiting
  <1>6. \A i \in DOMAIN r : LinearTerm(Side(r[i], side))
    BY <1>3, <1>4
  <1>7. DOMAIN <<>> = {} /\ DOMAIN S = {}
    BY DEF NoSubstitutions
  <1>8. Pieces(side, <<>>, r)
    BY <1>5, <1>6, <1>7 DEF Pieces
  <1>9. Outside(side, S, <<>>, Fresh(side, <<>>, r))
    BY <1>7 DEF Outside
  <1>10. \E h, R : IsForest(S, h, R)
    <2> DEFINE R == [l \in LabeledTerms |-> l]
    <2>1. IsForest(S, S, R)
      BY <1>7 DEF IsForest
    <2> QED
      BY <2>1
  <1>11. Ordered(S, S, Fresh(side, <<>>, r))
    BY <1>7 DEF Ordered
  <1> QED
    BY <1>8, <1>9, <1>10, <1>11 DEF LinearAt, r

\* The first of the pairs that wait goes onto the stack.
LEMMA NextLinear ==
    ASSUME NEW side \in Labels, NEW S, NEW T, NEW r \in Seq(T), r # <<>>,
           LinearAt(side, S, <<>>, r), NEW p,
           Side(p, side) = Waiting(side, Head(r)),
           Side(p, Opposite(side)).label = Opposite(side)
    PROVE  LinearAt(side, S, <<p>>, Tail(r))
  <1> DEFINE q == Tail(r)
             stack == <<p>>
             W(i) == LVars(Waiting(side, r[i]))
             F == Fresh(side, <<>>, r)
             G == Fresh(side, stack, q)
  <1>1. /\ Head(r) = r[1] /\ 1 \in DOMAIN r
        /\ \A i \in DOMAIN q : q[i] = r[i + 1] /\ i + 1 \in DOMAIN r /\ i + 1 # 1 /\ i \in Nat
    <2>1. Len(r) \in Nat /\ Len(r) >= 1 /\ DOMAIN r = 1 .. Len(r)
      OBVIOUS
    <2>2. DOMAIN q = 1 .. Len(r) - 1 /\ \A i \in 1 .. Len(r) - 1 : q[i] = r[i + 1]
      OBVIOUS
    <2>3. Head(r) = r[1]
      OBVIOUS
    <2> HIDE DEF q
    <2> QED
      BY <2>1, <2>2, <2>3
  <1>2. DOMAIN stack = {1} /\ stack[1] = p
    OBVIOUS
  <1>3. /\ Pieces(side, <<>>, r) /\ Outside(side, S, <<>>, F)
        /\ \E h, R : IsForest(S, h, R)
    BY DEF LinearAt
  <1>4. PICK B : Ordered(S, B, F)
    BY DEF LinearAt
  <1>5. /\ \A i \in DOMAIN r : LinearTerm(Side(r[i], side))
        /\ \A i, k \in DOMAIN r : i # k => W(i) \cap W(k) = {}
    BY <1>3 DEF Pieces
  <1>6. LVars(Side(p, side)) = W(1)
    BY <1>1
  <1>7. Side(p, side).label = side /\ LinearTerm(Side(p, side).term)
    BY <1>1, <1>5 DEF Waiting, LabeledTerm
  <1> HIDE DEF q, stack
  <1>8. Pieces(side, stack, q)
    <2>1. ASSUME NEW j \in DOMAIN stack PROVE LVars(Side(stack[j], side)) = W(1)
      BY <1>2, <1>6
    <2>2. ASSUME NEW i \in DOMAIN q PROVE LVars(Waiting(side, q[i])) = W(i + 1)
      BY <1>1
    <2> HIDE DEF W
    <2>3. /\ \A j \in DOMAIN stack, i \in DOMAIN q :
                LVars(Side(stack[j], side)) \cap LVars(Waiting(side, q[i])) = {}
          /\ \A i, k \in DOMAIN q : i # k =>
                LVars(Waiting(side, q[i])) \cap LVars(Waiting(side, q[k])) = {}
      <3>1. ASSUME NEW i \in DOMAIN q, NEW k \in DOMAIN q, i # k
            PROVE  W(i + 1) \cap W(k + 1) = {}
        <4>1. i + 1 # k + 1
          BY <1>1, <3>1
        <4> QED
          BY <1>1, <1>5, <4>1
      <3>2. \A i \in DOMAIN q : W(1) \cap W(i + 1) = {}
        BY <1>1, <1>5
      <3> QED
        BY <2>1, <2>2, <3>1, <3>2
    <2>4. \A i \in DOMAIN q : LinearTerm(Side(q[i], side))
      BY <1>1, <1>5
    <2>5. \A j, k \in DOMAIN stack : j = k
      BY <1>2
    <2>6. \A j \in DOMAIN stack :
             Side(stack[j], side).label = side /\ LinearTerm(Side(stack[j], side).term)
      BY <1>2, <1>7
    <2> QED
      BY <2>3, <2>4, <2>5, <2>6 DEF Pieces
  <1>9. G \subseteq F
    <2> SUFFICES ASSUME NEW x \in G PROVE x \in F
      OBVIOUS
    <2>1. \/ \E j \in DOMAIN stack : x \in LVars(Side(stack[j], side))
          \/ \E i \in DOMAIN q : x \in LVars(Waiting(side, q[i]))
      BY InFresh
    <2>2. \E i \in DOMAIN r : x \in W(i)
      BY <1>1, <1>2, <1>6, <2>1
    <2> QED
      BY <2>2, InFresh
  <1>10. Outside(side, S, stack, G)
    <2>1. Outside(side, S, <<>>, G)
      BY <1>3, <1>9, FewerFresh
    <2>2. ASSUME NEW j \in DOMAIN stack
          PROVE  LVars(Side(stack[j], Opposite(side))) \cap G = {}
      <3> SUFFICES ASSUME NEW x \in LVars(Side(p, Opposite(side))), x \in G PROVE FALSE
        BY <1>2
      <3>1. x.label = Opposite(side)
        BY LVarsLabel
      <3>2. x.label = side
        BY <1>8, FreshLabel
      <3> QED
        BY <3>1, <3>2 DEF Opposite, Labels
    <2> QED
      BY <2>1, <2>2 DEF Outside
  <1>11. Ordered(S, B, G)
    BY <1>4, <1>9, FewerFresh
  <1> QED
    BY <1>3, <1>8, <1>10, <1>11 DEF LinearAt, q, stack

\* A pair is dropped.
LEMMA DropLinear ==
    ASSUME NEW side \in Labels, NEW S, NEW stack \in Seq(PairType), stack # <<>>, NEW r,
           LinearAt(side, S, stack, r)
    PROVE  LinearAt(side, S, Front(stack), r)
  <1> DEFINE q == Front(stack)
             F == Fresh(side, stack, r)
             G == Fresh(side, q, r)
  <1>1. /\ Pieces(side, stack, r) /\ Outside(side, S, stack, F)
        /\ \E h, R : IsForest(S, h, R)
    BY DEF LinearAt
  <1>2. PICK B : Ordered(S, B, F)
    BY DEF LinearAt
  <1>3. Pieces(side, q, r) /\ G \subseteq F
    BY <1>1, FrontPieces
  <1>4. Outside(side, S, stack, G) /\ Ordered(S, B, G)
    BY <1>1, <1>2, <1>3, FewerFresh
  <1>5. \A j \in DOMAIN q : q[j] = stack[j] /\ j \in DOMAIN stack
    BY FrontIs
  <1> HIDE DEF q, G
  <1>6. Outside(side, S, q, G)
    BY <1>4, <1>5 DEF Outside
  <1> QED
    BY <1>1, <1>3, <1>4, <1>6 DEF LinearAt, q, G

\* A variable is bound: the piece, or to it.
LEMMA BindLinear ==
    ASSUME NEW side \in Labels, NEW S, Typed(S), NEW stack \in Seq(PairType), stack # <<>>,
           NEW r, LinearAt(side, S, stack, r),
           NEW P, NEW O, InHand(side, S, stack, r, P, O),
           NEW var, NEW l, <<var, l>> \in {<<P, O>>, <<O, P>>}, HasKind(var, "variable")
    PROVE  LinearAt(side, With(S, var, l), Front(stack), r)
  <1> DEFINE q == Front(stack)
             F == Fresh(side, stack, r)
             G == Fresh(side, q, r)
             T == With(S, var, l)
  <1>0. /\ DOMAIN T = DOMAIN S \cup {var} /\ T[var] = l
         /\ \A v \in DOMAIN S : v # var => T[v] = S[v]
    <2> HIDE DEF q, F, G
    <2> QED
      BY DEF With
  <1>1. LinearAt(side, S, q, r)
    BY DropLinear
  <1>2. PICK h, R : IsForest(S, h, R)
    BY DEF LinearAt
  <1>3. PICK B : Ordered(S, B, F)
    BY DEF LinearAt
  <1>4. Outside(side, S, stack, F) /\ Pieces(side, stack, r)
    BY DEF LinearAt
  <1>5. Outside(side, S, q, G) /\ Pieces(side, q, r) /\ G \subseteq F
    BY <1>1, <1>4, FrontPieces DEF LinearAt
  <1>6. /\ P \in LabeledTerms \ DOMAIN S /\ O \in LabeledTerms \ DOMAIN S
        /\ LVars(P) \subseteq F /\ LVars(P) \cap G = {} /\ LVars(O) \cap F = {}
    BY DEF InHand
  <1>7. (var = P /\ l = O) \/ (var = O /\ l = P)
    OBVIOUS
  <1>8. LVars(var) = {var} /\ var \in LabeledTerms \ DOMAIN S /\ l \in LabeledTerms \ DOMAIN S
    BY <1>6, <1>7, LVarsAre
  <1> HIDE DEF q, F, G, T
  <1>9. var \notin LVars(l) /\ var # l
    <2>1. CASE var = P /\ l = O
      BY <1>6, <1>8, <2>1
    <2>2. CASE var = O /\ l = P
      BY <1>6, <1>8, <2>2
    <2> QED
      BY <1>7, <2>1, <2>2
  <1>10. LVars(l) \cap G = {} /\ var \notin G
    BY <1>5, <1>6, <1>7, <1>8
  <1>11. var \notin Under(S, B, LVars(l))
    <2>1. CASE var = P /\ l = O
      <3>1. var \in F /\ \A v \in DOMAIN S : var \notin B[v]
        BY <1>3, <1>6, <1>8, <2>1 DEF Ordered
      <3> QED
        BY <1>9, <3>1 DEF Under
    <2>2. CASE var = O /\ l = P
      <3>1. LVars(l) \cap DOMAIN S = {}
        BY <1>4, <1>6, <2>2 DEF Outside, F
      <3>2. Under(S, B, LVars(l)) = LVars(l)
        BY <3>1 DEF Under
      <3> QED
        BY <1>9, <3>2
    <2> QED
      BY <1>7, <2>1, <2>2
  <1>12. Ordered(S, B, G)
    BY <1>3, <1>5, FewerFresh
  <1>13. Ordered(T, Below(S, B, var, LVars(l)), G)
    BY <1>8, <1>10, <1>11, <1>12, WithIsOrdered DEF T
  <1>14. IsForest(T, NewHeights(S, h, var), NewEnds(R, var, l))
    BY <1>2, <1>8, <1>9, WithIsForest DEF T
  <1>15. Outside(side, T, q, G)
    <2>1. \A v \in DOMAIN T : LVars(T[v]) \cap G = {}
      BY <1>5, <1>10, <1>0 DEF Outside
    <2>2. G \cap DOMAIN T = {}
      BY <1>5, <1>10, <1>0 DEF Outside
    <2> QED
      BY <1>5, <2>1, <2>2 DEF Outside
  <1> QED
    BY <1>5, <1>13, <1>14, <1>15 DEF LinearAt, q, G, T

\* Two functions are taken apart: p are the pairs of their terms.
PairsOf(p, s, t) ==
    /\ DOMAIN p = 1 .. Len(s.term.terms) /\ Len(p) = Len(s.term.terms)
    /\ DOMAIN s.term.terms = DOMAIN p /\ DOMAIN t.term.terms = DOMAIN p
    /\ \A i \in DOMAIN p :
          /\ p[i].source = LabeledTerm(s.label, s.term.terms[i])
          /\ p[i].target = LabeledTerm(t.label, t.term.terms[i])

LEMMA ConcatIs ==
    ASSUME NEW T, NEW q \in Seq(T), NEW U, NEW p \in Seq(U)
    PROVE  /\ \A j \in DOMAIN q : j \in DOMAIN (q \o p) /\ (q \o p)[j] = q[j]
           /\ \A j \in DOMAIN (q \o p) :
                 \/ j \in DOMAIN q /\ (q \o p)[j] = q[j]
                 \/ /\ j \notin DOMAIN q /\ j - Len(q) \in DOMAIN p
                    /\ (q \o p)[j] = p[j - Len(q)]
           /\ \A j, k \in DOMAIN (q \o p) : j # k => j - Len(q) # k - Len(q)
  <1>1. /\ Len(q) \in Nat /\ Len(p) \in Nat
        /\ DOMAIN q = 1 .. Len(q) /\ DOMAIN p = 1 .. Len(p)
    OBVIOUS
  <1> DEFINE m == Len(q)
             n == Len(p)
             c == q \o p
  <1>2. /\ DOMAIN c = 1 .. m + n
        /\ \A j \in 1 .. m + n : c[j] = IF j <= m THEN q[j] ELSE p[j - m]
    OBVIOUS
  <1> HIDE DEF m, n, c
  <1>3. m \in Nat /\ n \in Nat /\ DOMAIN q = 1 .. m /\ DOMAIN p = 1 .. n
    BY <1>1 DEF m, n
  <1>4. \A j \in DOMAIN q : j \in DOMAIN c /\ c[j] = q[j]
    BY <1>2, <1>3
  <1>5. \A j \in DOMAIN c :
           \/ j \in DOMAIN q /\ c[j] = q[j]
           \/ j \notin DOMAIN q /\ j - m \in DOMAIN p /\ c[j] = p[j - m]
    BY <1>2, <1>3
  <1>6. \A j, k \in DOMAIN c : j # k => j - m # k - m
    BY <1>2, <1>3
  <1> QED
    BY <1>4, <1>5, <1>6 DEF c, m

LEMMA FunctionsLinear ==
    ASSUME NEW side \in Labels, NEW S, NEW stack \in Seq(PairType), stack # <<>>, NEW r,
           LinearAt(side, S, stack, r),
           NEW P, NEW O, InHand(side, S, stack, r, P, O),
           HasKind(P, "function"), HasKind(O, "function"),
           NEW U, NEW p \in Seq(U),
           PairsOf(p, IF side = "source" THEN P ELSE O, IF side = "source" THEN O ELSE P)
    PROVE  LinearAt(side, S, Front(stack) \o p, r)
  <1> DEFINE q == Front(stack)
             c == q \o p
             m == Len(q)
             F == Fresh(side, stack, r)
             G == Fresh(side, q, r)
             H == Fresh(side, c, r)
             L(i) == LVars(LabeledTerm(side, P.term.terms[i]))
             Q(j) == LVars(Side(q[j], side))
             W(i) == LVars(Waiting(side, r[i]))
  <1>1. LinearAt(side, S, q, r)
    BY DropLinear
  <1>2. PICK B : Ordered(S, B, F)
    BY DEF LinearAt
  <1>3. /\ Outside(side, S, stack, F) /\ Pieces(side, stack, r)
        /\ \E h, R : IsForest(S, h, R)
    BY DEF LinearAt
  <1>4. Outside(side, S, q, G) /\ Pieces(side, q, r) /\ G \subseteq F
    BY <1>1, <1>3, FrontPieces DEF LinearAt
  <1>5. /\ P \in LabeledTerms /\ O \in LabeledTerms /\ P.label = side /\ LinearTerm(P.term)
        /\ LVars(P) \subseteq F /\ LVars(P) \cap G = {} /\ LVars(O) \cap F = {}
    BY DEF InHand
  <1>6. /\ DOMAIN P.term.terms = DOMAIN p /\ DOMAIN O.term.terms = DOMAIN p
        /\ \A i \in DOMAIN p :
              /\ Side(p[i], side) = LabeledTerm(side, P.term.terms[i])
              /\ Side(p[i], Opposite(side)) = LabeledTerm(O.label, O.term.terms[i])
    BY <1>5 DEF PairsOf, Side, Opposite, Labels
  <1>7. ~ HasKind(P, "variable") /\ ~ HasKind(O, "variable")
    BY DEF HasKind
  <1>8. /\ \A i \in DOMAIN p : L(i) \subseteq LVars(P)
        /\ \A i \in DOMAIN p : LVars(Side(p[i], Opposite(side))) \subseteq LVars(O)
    <2>1. LVars(P) = UNION { LVars(LabeledTerm(P.label, P.term.terms[i])) : i \in DOMAIN P.term.terms }
      BY <1>5, <1>7, LVarsAre
    <2>2. LVars(O) = UNION { LVars(LabeledTerm(O.label, O.term.terms[i])) : i \in DOMAIN O.term.terms }
      BY <1>5, <1>7, LVarsAre
    <2> QED
      BY <1>5, <1>6, <2>1, <2>2
  <1>9. /\ ~ ShareVariable(P.term.terms)
        /\ \A i \in DOMAIN p : LinearTerm(P.term.terms[i])
    BY <1>5, <1>6, LinearParts
  <1>10. \A i, k \in DOMAIN p : i # k => L(i) \cap L(k) = {}
    BY <1>6, <1>9, ShareIs, LVarsApart
  <1>11. q \in Seq(PairType)
    BY LastAndFront
  <1>12. /\ \A j \in DOMAIN q : j \in DOMAIN c /\ c[j] = q[j]
         /\ \A j \in DOMAIN c :
               \/ j \in DOMAIN q /\ c[j] = q[j]
               \/ /\ j \notin DOMAIN q /\ j - m \in DOMAIN p /\ c[j] = p[j - m]
         /\ \A j, k \in DOMAIN c : j # k => j - m # k - m
    BY <1>11, ConcatIs
  <1>13. \A j \in DOMAIN c :
            LVars(Side(c[j], side)) = IF j \in DOMAIN q THEN Q(j) ELSE L(j - m)
    BY <1>6, <1>12
  <1>14. \A x : x \in G <=> (\E j \in DOMAIN q : x \in Q(j)) \/ \E i \in DOMAIN r : x \in W(i)
    BY InFresh
  <1>15. \A x : x \in H <=> \/ \E j \in DOMAIN c : x \in LVars(Side(c[j], side))
                            \/ \E i \in DOMAIN r : x \in W(i)
    BY InFresh
  <1>16. /\ \A j \in DOMAIN q : Side(q[j], side).label = side /\ LinearTerm(Side(q[j], side).term)
         /\ \A i \in DOMAIN r : LinearTerm(Side(r[i], side))
         /\ \A j, k \in DOMAIN q : j # k => Q(j) \cap Q(k) = {}
         /\ \A i, k \in DOMAIN r : i # k => W(i) \cap W(k) = {}
         /\ \A j \in DOMAIN q, i \in DOMAIN r : Q(j) \cap W(i) = {}
    BY <1>4 DEF Pieces
  <1>20. \A j \in DOMAIN c :
            Side(c[j], side).label = side /\ LinearTerm(Side(c[j], side).term)
    <2> SUFFICES ASSUME NEW j \in DOMAIN c
                 PROVE  Side(c[j], side).label = side /\ LinearTerm(Side(c[j], side).term)
      OBVIOUS
    <2>1. CASE j \in DOMAIN q
      BY <1>12, <1>16, <2>1
    <2>2. CASE j \notin DOMAIN q
      <3>1. /\ j - m \in DOMAIN p
            /\ Side(c[j], side) = LabeledTerm(side, P.term.terms[j - m])
        BY <1>6, <1>12, <2>2
      <3> QED
        BY <1>9, <3>1 DEF LabeledTerm
    <2> QED
      BY <2>1, <2>2
  <1> HIDE DEF q, c, m, F, G, H, L, Q, W
  <1>21. /\ \A j \in DOMAIN q, i \in DOMAIN p : Q(j) \cap L(i) = {}
         /\ \A i \in DOMAIN p, k \in DOMAIN r : L(i) \cap W(k) = {}
    <2>1. /\ \A j \in DOMAIN q : Q(j) \subseteq G
          /\ \A k \in DOMAIN r : W(k) \subseteq G
      BY <1>14
    <2> QED
      BY <1>5, <1>8, <2>1
  <1>22. ASSUME NEW j \in DOMAIN c, NEW k \in DOMAIN c, j # k
         PROVE  LVars(Side(c[j], side)) \cap LVars(Side(c[k], side)) = {}
    <2>1. CASE j \in DOMAIN q /\ k \in DOMAIN q
      BY <1>13, <1>16, <1>22, <2>1
    <2>2. CASE j \notin DOMAIN q /\ k \notin DOMAIN q
      <3>1. j - m \in DOMAIN p /\ k - m \in DOMAIN p /\ j - m # k - m
        BY <1>12, <1>22, <2>2
      <3> QED
        BY <1>10, <1>13, <2>2, <3>1
    <2>3. CASE j \in DOMAIN q /\ k \notin DOMAIN q
      BY <1>12, <1>13, <1>21, <2>3
    <2>4. CASE j \notin DOMAIN q /\ k \in DOMAIN q
      <3>1. Q(k) \cap L(j - m) = {}
        BY <1>12, <1>21, <2>4
      <3>2. L(j - m) \cap Q(k) = {}
        BY <3>1
      <3> QED
        BY <1>13, <2>4, <3>2
    <2> QED
      BY <2>1, <2>2, <2>3, <2>4
  <1>23. \A j \in DOMAIN c, i \in DOMAIN r : LVars(Side(c[j], side)) \cap W(i) = {}
    BY <1>12, <1>13, <1>16, <1>21
  <1>24. Pieces(side, c, r)
    BY <1>16, <1>20, <1>22, <1>23 DEF Pieces, W
  <1>25. H \subseteq F
    <2>1. ASSUME NEW x \in H PROVE x \in G \/ x \in LVars(P)
      BY <1>8, <1>12, <1>13, <1>14, <1>15
    <2> QED
      BY <1>4, <1>5, <2>1
  <1>26. Ordered(S, B, H)
    BY <1>2, <1>25, FewerFresh
  <1>27. Outside(side, S, stack, H)
    BY <1>3, <1>25, FewerFresh DEF F
  <1>28. ASSUME NEW j \in DOMAIN c
         PROVE  LVars(Side(c[j], Opposite(side))) \cap H = {}
    <2>1. CASE j \in DOMAIN q
      <3>1. q[j] = stack[j] /\ j \in DOMAIN stack
        BY <2>1, FrontIs DEF q
      <3> QED
        BY <1>12, <1>27, <2>1, <3>1 DEF Outside
    <2>2. CASE j \notin DOMAIN q
      <3>1. LVars(Side(c[j], Opposite(side))) \subseteq LVars(O)
        BY <1>8, <1>12, <2>2
      <3> QED
        BY <1>5, <1>25, <3>1
    <2> QED
      BY <2>1, <2>2
  <1>29. Outside(side, S, c, H)
    BY <1>27, <1>28 DEF Outside
  <1> QED
    BY <1>3, <1>24, <1>26, <1>29 DEF LinearAt, c, q, H

\* The atom of a side.
AtomOf(side) == IF side = "source" THEN source ELSE target

Goes(side) == pc # "stuck" /\ (pc = "pairs" => LinearAt(side, substitutions, pairs_stack, rest))

\* A side whose atom has no variable twice is enough.
LinearSides == \A side \in Labels : ~ RepeatsVariable(AtomOf(side)) => Goes(side)

LEMMA LinearSidesNext ==
    ASSUME LinearSides, UNCHANGED <<source, target>>,
           \A side \in Labels : Goes(side) => Goes(side)'
    PROVE  LinearSides'
  <1> SUFFICES ASSUME NEW side \in Labels, ~ RepeatsVariable(AtomOf(side)')
               PROVE  Goes(side)'
    BY DEF LinearSides
  <1>1. AtomOf(side)' = AtomOf(side)
    BY DEF AtomOf
  <1> QED
    BY <1>1 DEF LinearSides

LEMMA CallSides ==
    ASSUME NEW s \in Atoms, NEW t \in Atoms, Call(s, t)
    PROVE  LinearSides'
  <1> SUFFICES ASSUME NEW side \in Labels, ~ RepeatsVariable(AtomOf(side)')
               PROVE  Goes(side)'
    BY DEF LinearSides
  <1>1. AtomOf(side)' = IF side = "source" THEN s ELSE t
    BY DEF AtomOf, Call
  <1>2. CASE Len(s.terms) # Len(t.terms) \/ Similarity[s.predicate, t.predicate] <= threshold
    <2>1. pc' = "returned"
      BY <1>2 DEF Call, Return
    <2> QED
      BY <2>1 DEF Goes
  <1>3. CASE ~ (Len(s.terms) # Len(t.terms) \/ Similarity[s.predicate, t.predicate] <= threshold)
    <2>1. /\ pc' = "pairs" /\ rest' = ZippedTerms(s.terms, t.terms) /\ pairs_stack' = <<>>
          /\ substitutions' = NoSubstitutions /\ Len(s.terms) = Len(t.terms)
      BY <1>3 DEF Call, FreshSubstitutions
    <2>2. LinearAt(side, NoSubstitutions, <<>>, ZippedTerms(s.terms, t.terms))
      BY <1>1, <2>1, CallLinear
    <2> QED
      BY <2>1, <2>2 DEF Goes
  <1> QED
    BY <1>2, <1>3

\* No chain and no check goes round.
LEMMA NoSideIsStuck ==
    ASSUME UnifyTypes, NEW side \in Labels, Goes(side), GetStuck
    PROVE  FALSE
  <1> DEFINE S == substitutions
  <1>1. /\ Typed(S) /\ (\A w \in DOMAIN S : w \in LabeledTerms)
        /\ pairs_stack \in Seq(PairType)
    BY DEF UnifyTypes, UnifyTypeOK, Typed
  <1>2. pc = "pairs"
    BY DEF GetStuck, Popping, AllPairsDone
  <1>3. LinearAt(side, S, pairs_stack, rest)
    BY <1>2 DEF Goes
  <1>4. PICK h, R : IsForest(S, h, R)
    BY <1>3 DEF LinearAt
  <1>5. PICK B : Ordered(S, B, Fresh(side, pairs_stack, rest))
    BY <1>3 DEF LinearAt
  <1>6. \A l \in LabeledTerms : ChainEnds(l)
    BY <1>1, <1>4, EndInForest, ResolvedIsEnd DEF ChainEnds
  <1>7. \A var, l : ~ CheckMayLoop(var, l)
    BY <1>5, CheckEnds
  <1>8. pairs_stack # <<>> => Popped.source \in LabeledTerms /\ Popped.target \in LabeledTerms
    <2> SUFFICES ASSUME pairs_stack # <<>>
                 PROVE  Popped.source \in LabeledTerms /\ Popped.target \in LabeledTerms
      OBVIOUS
    <2>1. Popped \in PairType
      BY <1>1, LastAndFront DEF Popped
    <2> QED
      BY <2>1 DEF PairType
  <1>9. CASE /\ pairs_stack # <<>>
             /\ ~ ChainEnds(Popped.source) \/ ~ ChainEnds(Popped.target)
    BY <1>6, <1>8, <1>9
  <1>10. CASE \E p \in {<<SourceTerm, TargetTerm>>, <<TargetTerm, SourceTerm>>} :
                 CheckMayLoop(p[1], p[2])
    BY <1>7, <1>10
  <1>11. CASE \E v \in DOMAIN S : ~ ChainEnds(v)
    BY <1>1, <1>6, <1>11
  <1> QED
    BY <1>9, <1>10, <1>11 DEF GetStuck

\* The piece in hand is one of the two terms that are compared.
LEMMA HandIs ==
    ASSUME UnifyTypes, NEW side \in Labels, pairs_stack # <<>>,
           LinearAt(side, substitutions, pairs_stack, rest)
    PROVE  \E P, O :
              /\ InHand(side, substitutions, pairs_stack, rest, P, O)
              /\ SourceTerm = IF side = "source" THEN P ELSE O
              /\ TargetTerm = IF side = "source" THEN O ELSE P
  <1> DEFINE P == Side(Popped, side)
             O == Resolved(Side(Popped, Opposite(side)))
  <1>1. InHand(side, substitutions, pairs_stack, rest, P, O) /\ Resolved(P) = P
    BY PieceInHand
  <1>2. /\ SourceTerm = IF side = "source" THEN Resolved(P) ELSE O
        /\ TargetTerm = IF side = "source" THEN O ELSE Resolved(P)
    BY DEF SourceTerm, TargetTerm, Side, Opposite, Labels
  <1> HIDE DEF P, O
  <1>3. /\ SourceTerm = IF side = "source" THEN P ELSE O
        /\ TargetTerm = IF side = "source" THEN O ELSE P
    BY <1>1, <1>2
  <1> QED
    BY <1>1, <1>3

LEMMA InsertSides ==
    ASSUME UnifyTypes, LinearSides, pc = "pairs", pairs_stack # <<>>, NEW var, NEW l,
           <<var, l>> \in {<<SourceTerm, TargetTerm>>, <<TargetTerm, SourceTerm>>},
           HasKind(var, "variable"), Insert(var, l)
    PROVE  LinearSides'
  <1>1. /\ substitutions' = With(substitutions, var, l) /\ pairs_stack' = Front(pairs_stack)
        /\ UNCHANGED <<source, target, pc, rest>>
    BY BoundIsWith DEF Insert
  <1>2. Typed(substitutions) /\ pairs_stack \in Seq(PairType)
    BY DEF UnifyTypes, UnifyTypeOK, Typed
  <1>3. ASSUME NEW side \in Labels, Goes(side) PROVE Goes(side)'
    <2>1. LinearAt(side, substitutions, pairs_stack, rest)
      BY <1>3 DEF Goes
    <2>2. PICK P, O :
              /\ InHand(side, substitutions, pairs_stack, rest, P, O)
              /\ SourceTerm = IF side = "source" THEN P ELSE O
              /\ TargetTerm = IF side = "source" THEN O ELSE P
      BY <2>1, HandIs
    <2>3. <<var, l>> \in {<<P, O>>, <<O, P>>}
      BY <2>2
    <2>4. LinearAt(side, With(substitutions, var, l), Front(pairs_stack), rest)
      BY <1>2, <2>1, <2>2, <2>3, BindLinear
    <2> QED
      BY <1>1, <2>4 DEF Goes
  <1> QED
    BY <1>1, <1>3, LinearSidesNext

LEMMA FunctionsSides ==
    ASSUME UnifyTypes, LinearSides, MatchFunctions
    PROVE  LinearSides'
  <1> DEFINE s == SourceTerm
             t == TargetTerm
             p == [i \in DOMAIN s.term.terms |->
                        [source |-> LabeledTerm(s.label, s.term.terms[i]),
                         target |-> LabeledTerm(t.label, t.term.terms[i])]]
  <1>1. /\ pc = "pairs" /\ pairs_stack # <<>> /\ UNCHANGED <<source, target, substitutions>>
        /\ HasKind(s, "function") /\ HasKind(t, "function")
    BY DEF MatchFunctions, Popping
  <1>2. \/ Return(None)
        \/ /\ Len(s.term.terms) = Len(t.term.terms)
           /\ pairs_stack' = Front(pairs_stack) \o p
           /\ UNCHANGED <<pc, rest>>
    BY DEF MatchFunctions
  <1>3. CASE Return(None)
    <2>1. pc' = "returned"
      BY <1>3 DEF Return
    <2>2. \A side \in Labels : Goes(side)'
      BY <2>1 DEF Goes
    <2> QED
      BY <1>1, <2>2, LinearSidesNext
  <1>4. CASE /\ Len(s.term.terms) = Len(t.term.terms)
             /\ pairs_stack' = Front(pairs_stack) \o p
             /\ UNCHANGED <<pc, rest>>
    <2>1. Typed(substitutions) /\ pairs_stack \in Seq(PairType)
      BY DEF UnifyTypes, UnifyTypeOK, Typed
    <2>2. s.term \in Terms /\ t.term \in Terms /\ s.label \in Labels /\ t.label \in Labels
      BY <1>1, PoppedType DEF LabeledTerms
    <2>3. s.term.terms \in Seq(Terms) /\ t.term.terms \in Seq(Terms)
      BY <2>2, UnifyAssumption
    <2> DEFINE n == Len(s.term.terms)
               U == [source : LabeledTerms, target : LabeledTerms]
    <2>4. /\ n \in Nat /\ DOMAIN s.term.terms = 1 .. n /\ DOMAIN t.term.terms = 1 .. n
          /\ \A i \in 1 .. n : s.term.terms[i] \in Terms /\ t.term.terms[i] \in Terms
      BY <1>4, <2>3, SeqElements
    <2> HIDE DEF s, t
    <2>5. \A i \in 1 .. n : p[i] \in U
      BY <2>2, <2>4 DEF LabeledTerm, LabeledTerms
    <2>6. p \in Seq(U) /\ Len(p) = n
      <3>1. p \in [1 .. n -> U]
        BY <2>4, <2>5
      <3> QED
        BY <2>4, <3>1, FunctionIsSeq
    <2>7. PairsOf(p, s, t)
      BY <2>4, <2>6 DEF PairsOf
    <2> HIDE DEF p, U
    <2>8. ASSUME NEW side \in Labels, Goes(side) PROVE Goes(side)'
      <3>1. LinearAt(side, substitutions, pairs_stack, rest)
        BY <1>1, <2>8 DEF Goes
      <3>2. PICK P, O :
              /\ InHand(side, substitutions, pairs_stack, rest, P, O)
              /\ s = IF side = "source" THEN P ELSE O
              /\ t = IF side = "source" THEN O ELSE P
        BY <1>1, <3>1, HandIs DEF s, t
      <3>3. /\ HasKind(P, "function") /\ HasKind(O, "function")
            /\ s = IF side = "source" THEN P ELSE O
            /\ t = IF side = "source" THEN O ELSE P
        BY <1>1, <3>2
      <3>4. PairsOf(p, IF side = "source" THEN P ELSE O, IF side = "source" THEN O ELSE P)
        BY <2>7, <3>3
      <3>5. LinearAt(side, substitutions, Front(pairs_stack) \o p, rest)
        BY <1>1, <2>1, <2>6, <3>1, <3>2, <3>3, <3>4, FunctionsLinear
      <3> QED
        BY <1>1, <1>4, <3>5 DEF Goes
    <2> QED
      BY <1>1, <2>8, LinearSidesNext
  <1> QED
    BY <1>2, <1>3, <1>4

LEMMA NextTermsSides ==
    ASSUME UnifyTypes, LinearSides, NextTerms
    PROVE  LinearSides'
  <1> DEFINE p == [source |-> LabeledTerm("source", Head(rest).source),
                   target |-> LabeledTerm("target", Head(rest).target)]
  <1>1. /\ pc = "pairs" /\ pairs_stack = <<>> /\ rest # <<>>
        /\ pairs_stack' = <<p>> /\ rest' = Tail(rest)
        /\ UNCHANGED <<source, target, pc, substitutions>>
    BY DEF NextTerms
  <1>2. rest \in Seq([source : Terms, target : Terms])
    BY DEF UnifyTypes, UnifyTypeOK
  <1>3. ASSUME NEW side \in Labels
        PROVE  /\ Side(p, side) = Waiting(side, Head(rest))
               /\ Side(p, Opposite(side)).label = Opposite(side)
    BY DEF Side, Waiting, Opposite, Labels, LabeledTerm
  <1> HIDE DEF p
  <1>4. ASSUME NEW side \in Labels, Goes(side) PROVE Goes(side)'
    <2>1. LinearAt(side, substitutions, <<>>, rest)
      BY <1>1, <1>4 DEF Goes
    <2>2. LinearAt(side, substitutions, <<p>>, Tail(rest))
      BY <1>1, <1>2, <1>3, <2>1, NextLinear
    <2> QED
      BY <1>1, <2>2 DEF Goes
  <1> QED
    BY <1>1, <1>4, LinearSidesNext

LEMMA UnifySides ==
    ASSUME UnifyTypes, LinearSides, UnifyStep \/ RaiseThreshold \/ UNCHANGED unifyVars
    PROVE  LinearSides'
  <1>0. pairs_stack \in Seq(PairType)
    BY DEF UnifyTypes, UnifyTypeOK
  <1>1. CASE UNCHANGED <<source, target>> /\ pc' \notin {"pairs", "stuck"}
    BY <1>1, LinearSidesNext DEF Goes
  <1>2. CASE UNCHANGED <<source, target, pc, rest, pairs_stack, substitutions>>
    BY <1>2, LinearSidesNext DEF Goes
  <1>3. CASE /\ pc = "pairs" /\ pairs_stack # <<>> /\ pairs_stack' = Front(pairs_stack)
             /\ UNCHANGED <<source, target, pc, rest, substitutions>>
    <2>1. ASSUME NEW side \in Labels, Goes(side) PROVE Goes(side)'
      <3>1. LinearAt(side, substitutions, Front(pairs_stack), rest)
        BY <1>0, <1>3, <2>1, DropLinear DEF Goes
      <3> QED
        BY <1>3, <3>1 DEF Goes
    <2> QED
      BY <1>3, <2>1, LinearSidesNext
  <1>4. CASE NextTerms
    BY <1>4, NextTermsSides
  <1>5. CASE MatchConstants
    <2>1. /\ pc = "pairs" /\ pairs_stack # <<>> /\ UNCHANGED <<source, target, substitutions>>
          /\ Return(None) \/ (pairs_stack' = Front(pairs_stack) /\ UNCHANGED <<pc, rest>>)
      BY <1>5 DEF MatchConstants, Popping
    <2> QED
      BY <1>1, <1>3, <2>1 DEF Return
  <1>6. CASE MatchVariables
    <2>1. /\ pc = "pairs" /\ pairs_stack # <<>> /\ HasKind(TargetTerm, "variable")
          /\ Insert(TargetTerm, SourceTerm)
      BY <1>6 DEF MatchVariables, Popping, BindTargetToSource
    <2> QED
      BY <2>1, InsertSides
  <1>7. ASSUME NEW var, NEW l, BindVariable(var, l),
               <<var, l>> \in {<<SourceTerm, TargetTerm>>, <<TargetTerm, SourceTerm>>}
        PROVE  LinearSides'
    <2>1. pc = "pairs" /\ pairs_stack # <<>> /\ HasKind(var, "variable")
      BY <1>7 DEF BindVariable, Popping
    <2>2. CASE Insert(var, l)
      BY <1>7, <2>1, <2>2, InsertSides
    <2>3. CASE Return(None) /\ UNCHANGED <<source, target>>
      BY <1>1, <2>3 DEF Return
    <2> QED
      BY <1>7, <2>2, <2>3 DEF BindVariable
  <1>8. CASE MatchFunctions
    BY <1>8, FunctionsSides
  <1>9. CASE PassOver
    BY <1>3, <1>9 DEF PassOver, Popping
  <1>10. CASE ReturnUnification
    BY <1>1, <1>10 DEF ReturnUnification, Return
  <1>11. CASE GetStuck
    <2>1. \A side \in Labels : ~ Goes(side)
      BY <1>11, NoSideIsStuck
    <2>2. UNCHANGED <<source, target>>
      BY <1>11 DEF GetStuck
    <2> QED
      BY <2>1, <2>2, LinearSidesNext
  <1>12. CASE RaiseThreshold
    BY <1>2, <1>12 DEF RaiseThreshold
  <1>13. CASE UNCHANGED unifyVars
    BY <1>2, <1>13 DEF unifyVars
  <1> QED
    BY <1>4, <1>5, <1>6, <1>7, <1>8, <1>9, <1>10, <1>11, <1>12, <1>13 DEF UnifyStep

LEMMA SidesInit == UnifyInit => LinearSides
  BY DEF UnifyInit, LinearSides, Goes

LEMMA SidesAreEnough == LinearSides => StuckOnRepeatsOnly
  BY DEF LinearSides, Goes, AtomOf, Labels, StuckOnRepeatsOnly

LEMMA LinearSidesHold == UnifySpec => [](UnifyTypes /\ LinearSides)
  <1>0. SourceAtoms \subseteq Atoms /\ TargetAtoms \subseteq Atoms
    BY UnifyAssumption
  <1>1. UnifyTypes /\ LinearSides /\ [UnifyNext]_unifyVars => (UnifyTypes /\ LinearSides)'
    BY <1>0, TypesStep, CallSides, UnifySides DEF UnifyNext
  <1> QED
    BY TypesInit, SidesInit, <1>1, PTL DEF UnifySpec

\* Whatever the atoms are, with functions in functions too, unify can only get
\* stuck if both have some variable twice: while one side has each of its
\* variables once, no chain comes back to where it was and no check does.
THEOREM RepeatsOnlyGetStuck == UnifySpec => []StuckOnRepeatsOnly
  BY LinearSidesHold, SidesAreEnough, PTL

LEMMA DerivationSidesStep ==
    ASSUME DerivationInv, LinearSides, [Next]_vars
    PROVE  LinearSides'
  <1>1. ResolveInv /\ UnifyTypes
    BY DEF DerivationInv, ResolveInv, UnifyInv
  <1>2. CASE UNCHANGED unifyVars
    BY <1>1, <1>2, UnifySides
  <1>3. CASE UnifyLiterals
    <2>1. literal \in 1 .. Len(clauses.target)
      BY <1>1, <1>3, LiteralIs DEF UnifyLiterals, MoreLiterals
    <2>2. SourceLiteral.atom \in Atoms /\ TargetLiteral.atom \in Atoms
      BY <1>1, <2>1, LiteralsAre DEF TargetLiteral
    <2>3. Call(SourceLiteral.atom, TargetLiteral.atom)
      BY <1>3 DEF UnifyLiterals
    <2> QED
      BY <2>2, <2>3, CallSides
  <1>4. CASE NoteAnswer
    <2>1. pc' = "idle" /\ UNCHANGED <<source, target>>
      BY <1>4 DEF NoteAnswer
    <2> QED
      BY <2>1, LinearSidesNext DEF Goes
  <1>5. CASE UnifyStep \/ RaiseThreshold
    BY <1>1, <1>5, UnifySides
  <1> QED
    BY <1>2, <1>3, <1>4, <1>5 DEF Next, ResolveStep, SkipPolarity, TakeStep, vars

\* The same in a chain, for the clauses that resolution builds.
THEOREM ChainStuckOnRepeatsOnly == Spec => []StuckOnRepeatsOnly
  <1>1. Init => LinearSides
    BY SidesInit DEF Init, ResolveInit
  <1>2. DerivationInv /\ LinearSides /\ [Next]_vars => LinearSides'
    BY DerivationSidesStep
  <1>3. Spec => []LinearSides
    BY <1>1, <1>2, DerivationInvHolds, PTL DEF Spec
  <1> QED
    BY <1>3, SidesAreEnough, PTL
=============================================================================
