-------------------------- MODULE ResolutionProver --------------------------
(***************************************************************************)
(* The class ResolutionProver and the backend behind it, as threads of the *)
(* Python program call it.  A call parses its clauses one by one and hands *)
(* the result to the backend: knowledge is extended or cleared in one      *)
(* piece, a search runs for a while on a copy of it.                       *)
(*                                                                         *)
(* The interpreter lock is given up during a search only; the borrow of    *)
(* the backend is not.  A call that wants to change the backend then       *)
(* raises an exception.  Between two clauses the interpreter may switch to *)
(* another thread, which uses the same Skolemizer.                         *)
(***************************************************************************)
EXTENDS Normalize

CONSTANTS
    Callers,    \* threads of the Python program
    Scenarios,  \* what may be asked: clauses to add, goals, and how many calls
    Malformed   \* what is no clause, in place of one

VARIABLES
    scenario,
    counter,    \* of the Skolemizer
    base_knowledge,
    call,       \* of every thread: where it is in which method
    calls,      \* how many have been made
    accepted    \* history: the clauses added since the last reset

vars == <<scenario, counter, base_knowledge, call, calls, accepted>>

NoCall == [pc |-> "idle", outcome |-> "none"]

Init ==
    /\ scenario \in Scenarios
    /\ counter = 0
    /\ base_knowledge = {}
    /\ call = [t \in Callers |-> NoCall]
    /\ calls = 0
    /\ accepted = {}

Searching(t) == call[t].pc = "searching"

\* A mistake: the backend may change while it is borrowed.
NotBorrowed == FALSE

\* A method that changes the backend (&mut self) finds it borrowed by a search
\* (&self): PyO3 raises.
AlreadyBorrowed == \E t \in Callers : Searching(t)

Go(t, pc) == call' = [call EXCEPT ![t].pc = pc]

Return(t, outcome) == call' = [call EXCEPT ![t] = [NoCall EXCEPT !.outcome = outcome]]

Begin(t, what, clauses, pc) ==
    /\ call[t].pc = "idle" /\ calls < scenario.calls
    /\ calls' = calls + 1
    /\ call' = [call EXCEPT ![t] =
          [pc |-> pc, outcome |-> "none", clauses |-> clauses, todo |-> clauses,
           goal |-> what, inverted_goals |-> {}, parsed |-> {}, knowledge |-> {}]]
    /\ UNCHANGED <<scenario, counter, base_knowledge, accepted>>

NoGoal == Or(<<>>)

\* extend_knowledge
BeginExtend(t) ==
    \E clauses \in scenario.clauses : Begin(t, NoGoal, clauses, "extend")

\* prove_all_with_stats, or what calls it: prove, prove_all.
BeginProve(t) ==
    \E goal \in scenario.goals, extra \in scenario.clauses \cup {<<>>} :
        Begin(t, goal, extra, "prove")

\* to_cnf(Not(goal), ...)
InvertGoal(t) ==
    LET cnf == ToCNF(Not(call[t].goal), counter) IN
    /\ call[t].pc = "prove"
    /\ counter' = cnf.counter
    /\ call' = [call EXCEPT ![t].inverted_goals = cnf.disjunctions,
                            ![t].pc = "extra"]
    /\ UNCHANGED <<scenario, base_knowledge, calls, accepted>>

\* _parse_knowledge: one round of its loop, which raises if it is no clause.
ParseClause(t) ==
    /\ call[t].pc \in {"extend", "extra"} /\ call[t].todo # <<>>
    /\ LET clause == Head(call[t].todo) IN
       IF clause = Malformed
       THEN Return(t, "raised") /\ UNCHANGED counter
       ELSE LET cnf == ToCNF(clause, counter) IN
            /\ counter' = cnf.counter
            /\ call' = [call EXCEPT ![t].parsed = @ \cup cnf.disjunctions,
                                    ![t].todo = Tail(@)]
    /\ UNCHANGED <<scenario, base_knowledge, calls, accepted>>

\* backend.extend_knowledge
ExtendBackend(t) ==
    /\ call[t].pc = "extend" /\ call[t].todo = <<>>
    /\ IF AlreadyBorrowed
       THEN Return(t, "raised") /\ UNCHANGED <<base_knowledge, accepted>>
       ELSE /\ base_knowledge' = base_knowledge \cup call[t].parsed
            /\ accepted' = accepted \cup ToSet(call[t].clauses)
            /\ Return(t, "done")
    /\ UNCHANGED <<scenario, counter, calls>>

\* reset, which has nothing to parse.
Reset(t) ==
    /\ call[t].pc = "idle" /\ calls < scenario.calls
    /\ calls' = calls + 1
    /\ IF AlreadyBorrowed
       THEN Return(t, "raised") /\ UNCHANGED <<base_knowledge, accepted>>
       ELSE /\ base_knowledge' = {} /\ accepted' = {}
            /\ Return(t, "done")
    /\ UNCHANGED <<scenario, counter>>

\* backend.prove_all_with_stats, until the interpreter lock is given up.
StartSearch(t) ==
    /\ call[t].pc = "extra" /\ call[t].todo = <<>>
    /\ call' = [call EXCEPT
          ![t].pc = "searching",
          ![t].knowledge = base_knowledge \cup call[t].parsed
                             \cup call[t].inverted_goals]
    /\ UNCHANGED <<scenario, counter, base_knowledge, calls, accepted>>

\* An inverted goal without literals has no first literal to resolve upon: the
\* search unwraps it before anything else (unless a limit ends the search first).
Panics(t) == {} \in call[t].inverted_goals

EndSearch(t) ==
    /\ Searching(t)
    /\ Return(t, IF Panics(t) THEN "panicked" ELSE "done")
    /\ UNCHANGED <<scenario, counter, base_knowledge, calls, accepted>>

GoOn(t) ==
    \/ InvertGoal(t) \/ ParseClause(t) \/ ExtendBackend(t)
    \/ StartSearch(t) \/ EndSearch(t)

Next == \E t \in Callers : BeginExtend(t) \/ BeginProve(t) \/ Reset(t) \/ GoOn(t)

Spec == Init /\ [][Next]_vars
-----------------------------------------------------------------------------
(***************************************************************************)
(* Properties.                                                             *)
(***************************************************************************)

\* The interpretations of the symbols that the user's formulas have.
Formulas ==
    scenario.goals
        \cup (UNION { ToSet(c) : c \in scenario.clauses } \ {Malformed})

Facts ==
    UNION { { <<p.symbol, e>> : e \in [DOMAIN p.args -> Elements] } :
            p \in { p \in UNION { Parts(f) : f \in Formulas } : p.op = "atom" } }

Functions ==
    LET known == FunctionsIn(Formulas)
        values(n) == [[1 .. n -> Elements] -> Elements]
    IN { F \in [{ h.symbol : h \in known } -> UNION { values(h.arity) : h \in known }] :
         \A h \in known : F[h.symbol] \in values(h.arity) }

Interpretations == [true : SUBSET Facts, functions : Functions]

Means(disjunctions, formulas) ==
    \A I \in Interpretations :
        (\A f \in formulas : IsTrue(f, I)) <=> Satisfiable(disjunctions, I)

\* Every variable stays in its type: what is stored are sets of literals.
TypeOK ==
    /\ counter \in Nat /\ calls \in 0 .. scenario.calls
    /\ \A d \in base_knowledge : \A l \in d : IsLiteral(l)
    /\ \A t \in Callers :
          /\ call[t].pc \in {"idle", "extend", "prove", "extra", "searching"}
          /\ Searching(t) => \A d \in call[t].knowledge : \A l \in d : IsLiteral(l)

\* The knowledge of the prover says what the clauses added since the last reset
\* say, of every call all or none: in every interpretation they are true
\* exactly if its disjunctions are, for some Skolem functions.
KnowledgeMeansWhatWasAdded == Means(base_knowledge, accepted)

\* What a search tries to refute is false exactly if the goal follows from the
\* extra clauses of the call and from the knowledge of the prover, all the time
\* that the search runs.
SearchMeansTheGoal ==
    \A t \in Callers : Searching(t) =>
        Means(call[t].knowledge,
              accepted \cup ToSet(call[t].clauses) \cup {Not(call[t].goal)})

\* Only a goal with an And or Or of nothing in it can make a search panic.
PanicsOnEmptyOnly ==
    \A t \in Callers : (Searching(t) /\ Panics(t)) =>
        \E f \in Parts(call[t].goal) : f.op \in Connectives /\ f.args = <<>>
=============================================================================
