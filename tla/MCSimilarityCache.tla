------------------------- MODULE MCSimilarityCache -------------------------
(***************************************************************************)
(* Small instances of SimilarityCache for TLC: the predicate p and the     *)
(* constant c have the same symbol and no embedding; q1 and q2 have one    *)
(* symbol and an embedding each, for which there is one address: a search  *)
(* has either of them.                                                     *)
(***************************************************************************)
EXTENDS SimilarityCache, TLC

MCItems == {"p", "c", "q1", "q2"}
MCPredicates == {"p", "q1"}
MCSymbol == [i \in MCItems |-> IF i \in {"q1", "q2"} THEN "q" ELSE "p"]
MCEmbedding ==
    [i \in MCItems |-> IF i \in {"q1", "q2"} THEN i ELSE None]

\* A function with the similarity of an item with itself, that of a p or c and
\* a q, and that of the two q.
Function(self, p, q1q2) ==
    [pair \in MCItems \X MCItems |->
        LET a == pair[1]
            b == pair[2] IN
        IF a = b \/ {MCSymbol[a], MCSymbol[b]} = {"p"} THEN self
        ELSE IF MCSymbol[a] # MCSymbol[b] THEN p[IF MCSymbol[a] = "q" THEN a ELSE b]
        ELSE q1q2]

\* Functions the key suits: the two q have different similarities with p and c,
\* or the function fails on one of them.
MCCosine ==
    { Function(2, [q \in {"q1", "q2"} |-> IF q = "q1" THEN 0 ELSE 1], 1),
      Function(2, [q \in {"q1", "q2"} |-> IF q = "q1" THEN 0 ELSE Raises], 1) }

MCProvers ==
    [caching : BOOLEAN, python : {TRUE}, similar : MCCosine]
      \cup [caching : {TRUE}, python : {FALSE}, similar : {SymbolsEqual}]

\* A function that gives q1 another similarity with itself than p has, as a
\* product of vectors does.
MCChoosy ==
    [caching : {TRUE}, python : {TRUE},
     similar : {[Function(2, [q \in {"q1", "q2"} |-> 0], 1)
                    EXCEPT ![<<"q1", "q1">>] = 0]}]
=============================================================================
