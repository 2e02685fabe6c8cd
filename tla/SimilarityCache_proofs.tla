---------------------- MODULE SimilarityCache_proofs ----------------------
(***************************************************************************)
(* Theorems about SimilarityCache: for any number of threads, any items    *)
(* and any addresses, the caches cannot be told from a similarity function *)
(* that the key suits.                                                     *)
(***************************************************************************)
EXTENDS SimilarityCache, TLAPS

\* Pairs have the same XOR only if they are the same pair, in either order, or
\* each of two equal elements.
LEMMA XorTellsApart ==
    ASSUME NEW a, NEW b, NEW c, NEW d, Xor(a, b) = Xor(c, d)
    PROVE  \/ a = b /\ c = d
           \/ a = c /\ b = d
           \/ a = d /\ b = c
  <1>1. CASE a = b
    <2>1. \A x : x \notin Xor(c, d)
      BY <1>1 DEF Xor
    <2>2. c = d
      BY <2>1 DEF Xor
    <2> QED
      BY <1>1, <2>2
  <1>2. CASE a # b
    <2>1. a \in Xor(c, d) /\ b \in Xor(c, d)
      BY <1>2 DEF Xor
    <2> QED
      BY <1>2, <2>1 DEF Xor
  <1> QED
    BY <1>1, <1>2

\* The key of two items of the search is a key of the caches.
LEMMA KeyType ==
    ASSUME NEW a \in live, NEW b \in live,
           live \subseteq Items, address \in Placements(live)
    PROVE  Key(a, b) \in Keys
  <1>1. ASSUME NEW i \in live PROVE Token(i) \in Tokens
    <2>1. Symbol[i] \in Symbols
      BY DEF Symbols
    <2>2. CASE Embedding[i] = None
      BY <2>1, <2>2 DEF Token, Tokens
    <2>3. CASE Embedding[i] # None
      <3>1. Embedding[i] \in { Embedding[j] : j \in live } \ {None}
        BY <2>3
      <3>2. address[Embedding[i]] \in Addresses
        BY <3>1 DEF Placements
      <3> QED
        BY <2>1, <2>3, <3>2 DEF Token, Tokens
    <2> QED
      BY <2>2, <2>3
  <1>2. PICK s \in Tokens, t \in Tokens : s = Token(a) /\ t = Token(b)
    BY <1>1
  <1>3. Key(a, b) = Xor(s, t)
    BY <1>2 DEF Key
  <1> QED
    <2> DEFINE p == <<s, t>>
    <2>1. p \in Tokens \X Tokens /\ p[1] = s /\ p[2] = t
      OBVIOUS
    <2> HIDE DEF p
    <2>2. Xor(p[1], p[2]) \in Keys
      BY <2>1, Zenon DEF Keys
    <2> QED
      BY <1>3, <2>1, <2>2

\* Items of the search with the same token have the same symbol and the same
\* embedding: live embeddings have addresses of their own.
LEMMA TokenTellsApart ==
    ASSUME NEW a \in live, NEW b \in live, Token(a) = Token(b),
           live \subseteq Items, address \in Placements(live)
    PROVE  Alike(a, b)
  <1> DEFINE E == { Embedding[i] : i \in live } \ {None}
  <1>1. /\ address \in [E -> Addresses]
        /\ \A d, e \in E : d # e => address[d] # address[e]
    BY DEF Placements
  <1>2. Symbol[a] = Symbol[b]
    BY DEF Token
  <1>3. (IF Embedding[a] = None THEN None ELSE address[Embedding[a]])
          = (IF Embedding[b] = None THEN None ELSE address[Embedding[b]])
    BY DEF Token
  <1>4. \A i \in live : Embedding[i] # None =>
            Embedding[i] \in E /\ address[Embedding[i]] \in Addresses
    BY <1>1
  <1>5. None \notin Addresses
    BY CacheAssumption
  <1> HIDE DEF E
  <1>6. Embedding[a] = Embedding[b]
    BY <1>1, <1>3, <1>4, <1>5
  <1> QED
    BY <1>2, <1>6 DEF Alike

\* What the caches rest on: pairs with the same key have the same similarity.
LEMMA KeySuits ==
    ASSUME NEW a \in live, NEW b \in live, NEW c \in live, NEW d \in live,
           Key(a, b) = Key(c, d), CosineLike,
           live \subseteq Items, address \in Placements(live)
    PROVE  prover.similar[<<a, b>>] = prover.similar[<<c, d>>]
  <1> DEFINE s(x, y) == prover.similar[<<x, y>>]
  <1>1. /\ \A x, y \in Items : s(x, y) = s(y, x)
        /\ \A x, y \in Items : s(x, x) = s(y, y)
        /\ \A x, y, z \in Items : Alike(x, y) => s(x, z) = s(y, z)
    BY DEF CosineLike
  <1>2. a \in Items /\ b \in Items /\ c \in Items /\ d \in Items
    OBVIOUS
  <1>3. \/ Token(a) = Token(b) /\ Token(c) = Token(d)
        \/ Token(a) = Token(c) /\ Token(b) = Token(d)
        \/ Token(a) = Token(d) /\ Token(b) = Token(c)
    <2>1. Xor(Token(a), Token(b)) = Xor(Token(c), Token(d))
      BY DEF Key
    <2> QED
      BY ONLY <2>1, XorTellsApart
  <1>4. \/ Alike(a, b) /\ Alike(c, d)
        \/ Alike(a, c) /\ Alike(b, d)
        \/ Alike(a, d) /\ Alike(b, c)
    BY <1>3, TokenTellsApart
  <1> HIDE DEF s
  <1>5. s(a, b) = s(c, d)
    BY <1>1, <1>2, <1>4
  <1> QED
    BY <1>5 DEF s
-----------------------------------------------------------------------------
\* Between two searches no thread is in a call.
Resting == ~ searching => \A w \in Workers : call[w] = Idle

Typed == TypeOK /\ Resting

\* The first state is in the types of the variables.
LEMMA TypeInit == Init => Typed
  <1> SUFFICES ASSUME Init PROVE Typed
    OBVIOUS
  <1>1. Empty \in Cache
    BY DEF Empty, Cache
  <1>2. address \in Placements(live)
    BY DEF Init, Placements
  <1> QED
    BY <1>1, <1>2, CacheAssumption
    DEF Init, Typed, TypeOK, Resting, Idle, Calls

\* What a thread's call holds.
LEMMA CallFields ==
    ASSUME TypeOK, NEW w \in Workers
    PROVE  /\ call[w].pc \in PCs =>
                 call[w].a \in live /\ call[w].b \in live /\ KeyOf(w) \in Keys
           /\ call[w].pc \in {"insert", "answer"} =>
                 /\ call[w].a \in live /\ call[w].b \in live
                 /\ KeyOf(w) \in Keys
                 /\ call[w].sim \in Int
  <1>1. call[w] \in Calls
    BY DEF TypeOK
  <1>2. \A a, b \in live : Key(a, b) \in Keys
    BY KeyType DEF TypeOK
  <1> QED
    BY <1>1, <1>2 DEF Calls, PCs, KeyOf

\* What the function returns unless it fails.
LEMMA SimilarityType ==
    ASSUME TypeOK, NEW w \in Workers, call[w].pc \in PCs, ~ Fails(w)
    PROVE  Similarity(w) \in Int
  <1>1. call[w].a \in Items /\ call[w].b \in Items
    BY CallFields DEF TypeOK
  <1>2. prover.similar \in [Items \X Items -> Similarities]
    BY CacheAssumption DEF TypeOK, ProverType
  <1> QED
    BY <1>1, <1>2 DEF Similarity, Fails, Similarities

\* Every step stays in the types of the variables.
LEMMA TypeStep == Typed /\ [Next]_vars => Typed'
  <1> SUFFICES ASSUME Typed, [Next]_vars PROVE Typed'
    OBVIOUS
  <1>0. Empty \in Cache
    BY DEF Empty, Cache
  <1>a. TypeOK /\ Resting
    BY DEF Typed
  <1>1. CASE StartSearch
    <2>1. PICK items \in SUBSET Items :
            /\ live' = items
            /\ address' \in Placements(items)
      BY <1>1 DEF StartSearch
    <2>2. live' \subseteq Items /\ address' \in Placements(live)'
      BY <2>1 DEF Placements
    <2>3. call' \in [Workers -> Calls']
      BY <1>1, <1>a DEF StartSearch, TypeOK, Calls, Resting, Idle
    <2> QED
      BY <1>0, <1>1, <1>a, <2>2, <2>3, CacheAssumption
      DEF StartSearch, Typed, TypeOK, Resting, GilReleased
  <1>2. CASE EndSearch
    <2>1. \A w \in Workers : call[w] = Idle
      BY <1>2, <1>a DEF EndSearch, At, TypeOK, Calls, PCs, Idle
    <2>2. call' \in [Workers -> Calls'] /\ \A w \in Workers : call'[w] = Idle
      BY <1>2, <1>a, <2>1 DEF EndSearch, TypeOK, Calls, Idle
    <2>3. address' \in Placements(live)'
      BY <1>2 DEF EndSearch, Placements
    <2> QED
      BY <1>0, <1>2, <1>a, <2>2, <2>3
      DEF EndSearch, Typed, TypeOK, Resting, BackendUntouched
  <1>14. CASE PurgeSimilarityCache
    <2>1. UNCHANGED <<live, address>> /\ UNCHANGED call
      BY <1>14 DEF PurgeSimilarityCache
    <2>2. Calls' = Calls /\ Placements(live)' = Placements(live)
      BY <2>1 DEF Calls, Placements
    <2> QED
      BY <1>0, <1>14, <1>a, <2>1, <2>2
      DEF PurgeSimilarityCache, Typed, TypeOK, Resting
  <1>t. ASSUME UNCHANGED fixed, searching,
               shared' \in Cache, local' \in [Workers -> Cache],
               call' \in [Workers -> Calls],
               left' \in [Workers -> [lookups : Nat, batches : Nat]],
               gil' \in Workers \cup {Main, Nobody}, guards' \subseteq Workers,
               computed' \in [Workers -> SUBSET Keys]
        PROVE  Typed'
    <2>1. Calls' = Calls /\ Placements(live)' = Placements(live)
      BY <1>t DEF fixed, Calls, Placements
    <2>2. address' \in Placements(live)'
      BY <1>a, <1>t, <2>1 DEF fixed, TypeOK
    <2>3. call' \in [Workers -> Calls']
      BY <1>t, <2>1
    <2> QED
      BY <1>a, <1>t, <2>2, <2>3 DEF fixed, Typed, TypeOK, Resting
  <1>n. /\ shared \in Cache /\ local \in [Workers -> Cache]
        /\ call \in [Workers -> Calls]
        /\ left \in [Workers -> [lookups : Nat, batches : Nat]]
        /\ gil \in Workers \cup {Main, Nobody} /\ guards \subseteq Workers
        /\ computed \in [Workers -> SUBSET Keys]
    BY <1>a DEF TypeOK
  <1>3. ASSUME NEW w \in Workers, NewBatch(w) PROVE Typed'
    <2>1. local' \in [Workers -> Cache]
      BY <1>0, <1>3, <1>n DEF NewBatch
    <2>2. left' \in [Workers -> [lookups : Nat, batches : Nat]]
      <3>1. left[w] \in [lookups : Nat, batches : Nat] /\ left[w].batches > 0
        BY <1>3, <1>n DEF NewBatch
      <3>2. [lookups |-> MaxLookups, batches |-> left[w].batches - 1]
              \in [lookups : Nat, batches : Nat]
        BY <3>1, CacheAssumption
      <3> QED
        BY <1>3, <1>n, <3>2 DEF NewBatch
    <2> QED
      BY <1>3, <1>n, <1>t, <2>1, <2>2 DEF NewBatch
  <1>4. ASSUME NEW w \in Workers, LookUp(w) PROVE Typed'
    <2>1. PICK a \in live, b \in live :
            call' = [call EXCEPT ![w] =
               IF ~ prover.caching THEN [pc |-> "compute", a |-> a, b |-> b]
               ELSE IF local[w][Key(a, b)] = Absent
                    THEN [pc |-> "shared", a |-> a, b |-> b]
               ELSE [pc |-> "answer", a |-> a, b |-> b,
                     sim |-> local[w][Key(a, b)]]]
      BY <1>4 DEF LookUp
    <2>2. Key(a, b) \in Keys
      BY <1>a, KeyType DEF TypeOK
    <2>3. local[w][Key(a, b)] \in Int \cup {Absent}
      BY <1>n, <2>2 DEF Cache
    <2>4. call' \in [Workers -> Calls]
      BY <1>n, <2>1, <2>3 DEF Calls, PCs
    <2> QED
      BY <1>4, <1>n, <1>t, <2>4 DEF LookUp
  <1>5. ASSUME NEW w \in Workers, GetShared(w) PROVE Typed'
    <2>0. searching
      BY <1>5, <1>a DEF GetShared, At, Resting, Idle
    <2>1. /\ call[w].a \in live /\ call[w].b \in live /\ KeyOf(w) \in Keys
      BY <1>5, <1>a, CallFields DEF GetShared, At, PCs
    <2>2. shared[KeyOf(w)] \in Int \cup {Absent}
      BY <1>n, <2>1 DEF Cache
    <2>3. CASE shared[KeyOf(w)] = Absent
      <3>1. [call[w] EXCEPT !.pc = "compute"] \in Calls
        BY <1>5, <1>n DEF GetShared, At, Calls, PCs
      <3>2. call' \in [Workers -> Calls]
        BY <1>5, <1>n, <2>3, <3>1 DEF GetShared
      <3> QED
        BY <1>5, <1>n, <1>t, <2>0, <2>3, <3>2 DEF GetShared, GuardsAfterLookUp
    <2>4. CASE shared[KeyOf(w)] # Absent
      <3>1. call' \in [Workers -> Calls]
        BY <1>5, <1>n, <2>1, <2>2, <2>4 DEF GetShared, Calls
      <3>2. local' \in [Workers -> Cache]
        <4>1. [local[w] EXCEPT ![KeyOf(w)] = shared[KeyOf(w)]] \in Cache
          BY <1>n, <2>1, <2>2 DEF Cache
        <4>2. local' = [local EXCEPT ![w] =
                          [@ EXCEPT ![KeyOf(w)] = shared[KeyOf(w)]]]
          BY <1>5, <2>4 DEF GetShared
        <4> QED
          BY <1>n, <4>1, <4>2
      <3> QED
        BY <1>5, <1>n, <1>t, <2>0, <2>4, <3>1, <3>2 DEF GetShared
    <2> QED
      BY <2>3, <2>4
  <1>6. ASSUME NEW w \in Workers, TakeGil(w) PROVE Typed'
    <2>0. searching
      BY <1>6, <1>a DEF TakeGil, At, Resting, Idle
    <2>1. [call[w] EXCEPT !.pc = "python"] \in Calls
      BY <1>6, <1>n DEF TakeGil, At, Calls, PCs
    <2>2. call' \in [Workers -> Calls]
      BY <1>6, <1>n, <2>1 DEF TakeGil
    <2> QED
      BY <1>6, <1>n, <1>t, <2>0, <2>2 DEF TakeGil
  <1>7. ASSUME NEW w \in Workers, ReturnFromPython(w) \/ CompareSymbols(w), ~ Fails(w)
        PROVE  Typed'
    <2>0. call[w].pc \in PCs /\ searching
      BY <1>7, <1>a DEF ReturnFromPython, CompareSymbols, At, Resting, Idle, PCs
    <2>1. /\ call[w].a \in live /\ call[w].b \in live /\ KeyOf(w) \in Keys
          /\ Similarity(w) \in Int
      BY <1>7, <1>a, <2>0, CallFields, SimilarityType
    <2>2. Known(w, Similarity(w)) \in Calls
      BY <2>1 DEF Known, Calls
    <2>3. call' \in [Workers -> Calls]
      BY <1>7, <1>n, <2>2 DEF ReturnFromPython, CompareSymbols
    <2>4. computed' \in [Workers -> SUBSET Keys]
      BY <1>7, <1>n, <2>1 DEF ReturnFromPython, CompareSymbols, Remembered
    <2> QED
      BY <1>7, <1>n, <1>t, <2>0, <2>3, <2>4 DEF ReturnFromPython, CompareSymbols
  <1>8. ASSUME NEW w \in Workers, RaiseInPython(w) PROVE Typed'
    <2>0. searching
      BY <1>8, <1>a DEF RaiseInPython, At, Resting, Idle
    <2>1. call' \in [Workers -> Calls]
      BY <1>8, <1>n DEF RaiseInPython, Idle, Calls
    <2> QED
      BY <1>8, <1>n, <1>t, <2>0, <2>1 DEF RaiseInPython
  <1>9. ASSUME NEW w \in Workers, Insert(w) PROVE Typed'
    <2>0. searching
      BY <1>9, <1>a DEF Insert, At, Resting, Idle
    <2>1. KeyOf(w) \in Keys /\ call[w].sim \in Int
      BY <1>9, <1>a, CallFields DEF Insert, At
    <2>2. shared' \in Cache /\ local' \in [Workers -> Cache]
      BY <1>9, <1>n, <2>1 DEF Insert, SharedWith, Cache
    <2>3. [call[w] EXCEPT !.pc = "answer"] \in Calls
      BY <1>9, <1>n DEF Insert, At, Calls, PCs
    <2>4. call' \in [Workers -> Calls]
      BY <1>9, <1>n, <2>3 DEF Insert
    <2> QED
      BY <1>9, <1>n, <1>t, <2>0, <2>2, <2>4 DEF Insert
  <1>10. ASSUME NEW w \in Workers, Return(w) PROVE Typed'
    <2>0. searching
      BY <1>10, <1>a DEF Return, At, Resting, Idle
    <2>1. call' \in [Workers -> Calls]
      BY <1>10, <1>n DEF Return, Idle, Calls
    <2> QED
      BY <1>10, <1>n, <1>t, <2>0, <2>1 DEF Return
  <1>11. ASSUME NEW w \in Workers, CompareSymbols(w) PROVE ~ Fails(w)
    <2>1. call[w].a \in Items /\ call[w].b \in Items
      BY <1>11, <1>a, CallFields DEF CompareSymbols, At, PCs, TypeOK
    <2>2. prover.similar = SymbolsEqual
      BY <1>11, <1>a, CacheAssumption DEF CompareSymbols, TypeOK
    <2>3. Similarity(w) \in Int
      <3>1. <<call[w].a, call[w].b>> \in Items \X Items
        BY <2>1
      <3> QED
        BY <2>2, <3>1 DEF Similarity, SymbolsEqual
    <2> QED
      BY <2>3, CacheAssumption DEF Fails
  <1>12. ASSUME NEW w \in Workers, ReturnFromPython(w) PROVE ~ Fails(w)
    BY <1>12 DEF ReturnFromPython
  <1>13. CASE UNCHANGED vars
    BY <1>13, <1>a DEF vars, Typed, TypeOK, Resting, Calls, Placements
  <1> QED
    BY <1>1, <1>2, <1>3, <1>4, <1>5, <1>6, <1>7, <1>8, <1>9, <1>10, <1>11,
       <1>12, <1>13, <1>14
    DEF Next, WorkerStep

\* Type correctness, for every instance.
THEOREM TypeCorrect == Spec => []TypeOK
  <1>1. Spec => []Typed
    BY TypeInit, TypeStep, PTL DEF Spec
  <1> QED
    BY <1>1, PTL DEF Typed
-----------------------------------------------------------------------------
(***************************************************************************)
(* The caches hold nothing but what the function would answer.  The cache  *)
(* that a search starts from is empty: this is what makes a key that       *)
(* knows embeddings by their addresses safe from one search to the next.   *)
(***************************************************************************)
Sound(cache) ==
    \A k \in Keys, a, b \in live :
        k = Key(a, b) /\ cache[k] # Absent => cache[k] = prover.similar[<<a, b>>]

CachesSound ==
    /\ Sound(shared)
    /\ \A w \in Workers : Sound(local[w])

CallsRight ==
    \A w \in Workers :
        call[w].pc \in {"insert", "answer"} => call[w].sim = Similarity(w)

Right == backend = Empty /\ (CosineLike => CachesSound /\ CallsRight)

\* At the start there is nothing in the caches.
LEMMA RightInit == Init => Right
  BY DEF Init, Right, CachesSound, CallsRight, Sound, Empty, Idle

\* A cache stays sound when the similarity of a pair is put under its key.
LEMMA SoundInsert ==
    ASSUME TypeOK, CosineLike, NEW cache \in Cache, Sound(cache),
           NEW a \in live, NEW b \in live
    PROVE  Sound([cache EXCEPT ![Key(a, b)] = prover.similar[<<a, b>>]])
  <1> DEFINE new == [cache EXCEPT ![Key(a, b)] = prover.similar[<<a, b>>]]
  <1> SUFFICES ASSUME NEW k \in Keys, NEW c \in live, NEW d \in live,
                      k = Key(c, d), new[k] # Absent
               PROVE  new[k] = prover.similar[<<c, d>>]
    BY Zenon DEF Sound
  <1>1. CASE Key(c, d) = Key(a, b)
    <2>1. new[k] = prover.similar[<<a, b>>]
      BY <1>1 DEF Cache
    <2>2. prover.similar[<<a, b>>] = prover.similar[<<c, d>>]
      BY <1>1, KeySuits DEF TypeOK
    <2> QED
      BY <2>1, <2>2
  <1>2. CASE Key(c, d) # Key(a, b)
    BY <1>2 DEF Cache, Sound
  <1> QED
    BY <1>1, <1>2

\* Every step keeps the caches sound.
LEMMA RightStep == Typed /\ Right /\ [Next]_vars => Right'
  <1> SUFFICES ASSUME Typed, Right, [Next]_vars PROVE Right'
    OBVIOUS
  <1>a. TypeOK /\ Resting
    BY DEF Typed
  <1>1. CASE StartSearch
    <2>1. /\ backend' = Empty /\ shared' = Empty
          /\ \A w \in Workers : local'[w] = Empty /\ call'[w] = Idle
      BY <1>1, <1>a DEF StartSearch, Right, Resting
    <2> QED
      BY <2>1 DEF Right, CachesSound, CallsRight, Sound, Empty, Idle
  <1>2. CASE EndSearch
    <2>1. \A w \in Workers : call[w] = Idle
      BY <1>2, <1>a DEF EndSearch, At, TypeOK, Calls, PCs, Idle
    <2>2. /\ backend' = Empty /\ shared' = Empty
          /\ \A w \in Workers : local'[w] = Empty /\ call'[w] = Idle
      BY <1>2, <2>1 DEF EndSearch, Right, BackendUntouched
    <2> QED
      BY <2>2 DEF Right, CachesSound, CallsRight, Sound, Empty, Idle
  \* The other steps leave the prover, the items and their addresses alone.
  <1>t. ASSUME UNCHANGED fixed,
               CosineLike /\ CachesSound /\ CallsRight =>
                   /\ Sound(shared') /\ \A w \in Workers : Sound(local'[w])
                   /\ \A w \in Workers :
                         call'[w].pc \in {"insert", "answer"} =>
                            call'[w].sim = prover.similar[<<call'[w].a, call'[w].b>>]
        PROVE  Right'
    <2>1. prover' = prover /\ backend' = backend /\ live' = live /\ address' = address
      BY <1>t DEF fixed
    <2>2. CosineLike' = CosineLike
      BY <2>1 DEF CosineLike
    <2>3. \A a, b : Key(a, b)' = Key(a, b)
      BY <2>1 DEF Key, Token
    <2>4. ASSUME CosineLike'
          PROVE  CachesSound' /\ CallsRight'
      <3>1. /\ Sound(shared') /\ \A w \in Workers : Sound(local'[w])
            /\ \A w \in Workers :
                  call'[w].pc \in {"insert", "answer"} =>
                     call'[w].sim = prover.similar[<<call'[w].a, call'[w].b>>]
        BY <1>t, <2>2, <2>4 DEF Right
      <3>2. CachesSound'
        BY <2>1, <2>3, <3>1 DEF CachesSound, Sound
      <3>3. CallsRight'
        BY <2>1, <3>1 DEF CallsRight, Similarity
      <3> QED
        BY <3>2, <3>3
    <2> QED
      BY <2>1, <2>4 DEF Right, Empty
  <1>s. ASSUME NEW w \in Workers,
               UNCHANGED <<fixed, shared, local>>,
               \E c : /\ call' = [call EXCEPT ![w] = c]
                      /\ (/\ CosineLike /\ CachesSound /\ CallsRight
                          /\ c.pc \in {"insert", "answer"})
                            => c.sim = prover.similar[<<c.a, c.b>>]
        PROVE  Right'
    <2>1. \A v \in Workers : v # w => call'[v] = call[v]
      BY <1>s, <1>a DEF TypeOK
    <2>2. PICK c : /\ call' = [call EXCEPT ![w] = c]
                   /\ (/\ CosineLike /\ CachesSound /\ CallsRight
                       /\ c.pc \in {"insert", "answer"})
                         => c.sim = prover.similar[<<c.a, c.b>>]
      BY <1>s
    <2>3. call'[w] = c
      BY <1>a, <2>2 DEF TypeOK
    <2>4. ASSUME CosineLike, CachesSound, CallsRight, NEW v \in Workers,
                 call'[v].pc \in {"insert", "answer"}
          PROVE  call'[v].sim = prover.similar[<<call'[v].a, call'[v].b>>]
      BY <2>1, <2>2, <2>3, <2>4 DEF CallsRight, Similarity
    <2>5. CachesSound => Sound(shared') /\ \A v \in Workers : Sound(local'[v])
      BY <1>s DEF CachesSound
    <2> QED
      BY <1>s, <1>t, <2>4, <2>5
  <1>c. ASSUME NEW w \in Workers
        PROVE  /\ call[w].pc \in PCs =>
                     call[w].a \in live /\ call[w].b \in live /\ KeyOf(w) \in Keys
               /\ call[w].pc \in {"insert", "answer"} =>
                     call[w].a \in live /\ call[w].b \in live /\ KeyOf(w) \in Keys
    BY <1>a, CallFields
  <1>n. /\ shared \in Cache /\ local \in [Workers -> Cache]
        /\ call \in [Workers -> Calls]
    BY <1>a DEF TypeOK
  <1>3. ASSUME NEW w \in Workers, NewBatch(w) PROVE Right'
    <2>1. UNCHANGED <<fixed, shared, call>> /\ local' = [local EXCEPT ![w] = Empty]
      BY <1>3 DEF NewBatch
    <2>2. Sound(Empty)
      BY DEF Sound, Empty
    <2>3. CachesSound => \A v \in Workers : Sound(local'[v])
      BY <1>n, <2>1, <2>2 DEF CachesSound
    <2> QED
      BY <1>t, <2>1, <2>3 DEF CachesSound, CallsRight, Similarity
  <1>4. ASSUME NEW w \in Workers, LookUp(w) PROVE Right'
    <2>1. PICK a \in live, b \in live :
            call' = [call EXCEPT ![w] =
               IF ~ prover.caching THEN [pc |-> "compute", a |-> a, b |-> b]
               ELSE IF local[w][Key(a, b)] = Absent
                    THEN [pc |-> "shared", a |-> a, b |-> b]
               ELSE [pc |-> "answer", a |-> a, b |-> b,
                     sim |-> local[w][Key(a, b)]]]
      BY <1>4 DEF LookUp
    <2>2. Key(a, b) \in Keys
      BY <1>a, KeyType DEF TypeOK
    <2>3. CachesSound /\ local[w][Key(a, b)] # Absent =>
            local[w][Key(a, b)] = prover.similar[<<a, b>>]
      BY <2>2 DEF CachesSound, Sound
    <2>4. UNCHANGED <<fixed, shared, local>>
      BY <1>4 DEF LookUp
    <2> DEFINE c == IF ~ prover.caching THEN [pc |-> "compute", a |-> a, b |-> b]
                    ELSE IF local[w][Key(a, b)] = Absent
                         THEN [pc |-> "shared", a |-> a, b |-> b]
                    ELSE [pc |-> "answer", a |-> a, b |-> b,
                          sim |-> local[w][Key(a, b)]]
    <2>5. CachesSound /\ c.pc \in {"insert", "answer"} =>
            c.sim = prover.similar[<<c.a, c.b>>]
      BY <2>3
    <2>6. call' = [call EXCEPT ![w] = c]
      BY <2>1
    <2> HIDE DEF c
    <2> QED
      BY <1>s, <2>4, <2>5, <2>6
  <1>5. ASSUME NEW w \in Workers, GetShared(w) PROVE Right'
    <2>1. call[w].pc = "shared" /\ UNCHANGED <<fixed, shared>>
      BY <1>5 DEF GetShared, At
    <2>2. call[w].a \in live /\ call[w].b \in live /\ KeyOf(w) \in Keys
      BY <1>c, <2>1 DEF PCs
    <2>3. CASE shared[KeyOf(w)] = Absent
      <3>1. UNCHANGED local /\ call' = [call EXCEPT ![w] = [@ EXCEPT !.pc = "compute"]]
        BY <1>5, <2>3 DEF GetShared
      <3>2. [call[w] EXCEPT !.pc = "compute"].pc = "compute"
        BY <1>n, <2>1 DEF Calls, PCs
      <3> QED
        BY <1>s, <2>1, <3>1, <3>2
    <2>4. CASE shared[KeyOf(w)] # Absent
      <3>1. /\ call' = [call EXCEPT ![w] = [pc |-> "answer", a |-> call[w].a,
                            b |-> call[w].b, sim |-> shared[KeyOf(w)]]]
            /\ local' = [local EXCEPT ![w] =
                            [@ EXCEPT ![KeyOf(w)] = shared[KeyOf(w)]]]
        BY <1>5, <2>4 DEF GetShared
      <3>2. CachesSound => shared[KeyOf(w)] = prover.similar[<<call[w].a, call[w].b>>]
        BY <2>2, <2>4 DEF CachesSound, Sound, KeyOf
      <3>3. CosineLike /\ CachesSound =>
              Sound([local[w] EXCEPT ![KeyOf(w)] = shared[KeyOf(w)]])
        BY <1>a, <1>n, <2>2, <3>2, SoundInsert DEF CachesSound, KeyOf
      <3>4. CosineLike /\ CachesSound => \A v \in Workers : Sound(local'[v])
        BY <1>n, <3>1, <3>3 DEF CachesSound
      <3>5. CachesSound /\ CallsRight =>
              \A v \in Workers : call'[v].pc \in {"insert", "answer"} =>
                  call'[v].sim = prover.similar[<<call'[v].a, call'[v].b>>]
        BY <1>n, <3>1, <3>2 DEF CallsRight, Similarity
      <3>6. CachesSound => Sound(shared')
        BY <2>1 DEF CachesSound
      <3> QED
        BY <1>t, <2>1, <3>4, <3>5, <3>6
    <2> QED
      BY <2>3, <2>4
  <1>6. ASSUME NEW w \in Workers, TakeGil(w) PROVE Right'
    <2>1. /\ UNCHANGED <<fixed, shared, local>>
          /\ call' = [call EXCEPT ![w] = [@ EXCEPT !.pc = "python"]]
      BY <1>6 DEF TakeGil
    <2>2. [call[w] EXCEPT !.pc = "python"].pc = "python"
      BY <1>6, <1>n DEF TakeGil, At, Calls, PCs
    <2> QED
      BY <1>s, <2>1, <2>2
  <1>7. ASSUME NEW w \in Workers, ReturnFromPython(w) \/ CompareSymbols(w)
        PROVE  Right'
    <2>1. /\ UNCHANGED <<fixed, shared, local>>
          /\ call' = [call EXCEPT ![w] = Known(w, Similarity(w))]
      BY <1>7 DEF ReturnFromPython, CompareSymbols
    <2>2. /\ Known(w, Similarity(w)).sim = Similarity(w)
          /\ Known(w, Similarity(w)).a = call[w].a
          /\ Known(w, Similarity(w)).b = call[w].b
      BY DEF Known
    <2> QED
      BY <1>s, <2>1, <2>2 DEF Similarity
  <1>8. ASSUME NEW w \in Workers, RaiseInPython(w) \/ Return(w) PROVE Right'
    <2>1. UNCHANGED <<fixed, shared, local>> /\ call' = [call EXCEPT ![w] = Idle]
      BY <1>8 DEF RaiseInPython, Return
    <2>2. Idle.pc = "idle"
      BY DEF Idle
    <2> QED
      BY <1>s, <2>1, <2>2
  <1>9. ASSUME NEW w \in Workers, Insert(w) PROVE Right'
    <2>1. /\ call[w].pc = "insert" /\ UNCHANGED fixed
          /\ shared' = [shared EXCEPT ![KeyOf(w)] = call[w].sim]
          /\ local' = [local EXCEPT ![w] = [@ EXCEPT ![KeyOf(w)] = call[w].sim]]
          /\ call' = [call EXCEPT ![w] = [@ EXCEPT !.pc = "answer"]]
      BY <1>9 DEF Insert, At, SharedWith
    <2>2. call[w].a \in live /\ call[w].b \in live /\ KeyOf(w) \in Keys
      BY <1>c, <2>1
    <2>3. CallsRight => call[w].sim = prover.similar[<<call[w].a, call[w].b>>]
      BY <2>1 DEF CallsRight, Similarity
    <2>4. ASSUME CosineLike, CachesSound, CallsRight
          PROVE  Sound(shared') /\ \A v \in Workers : Sound(local'[v])
      <3>1. Sound(shared')
        BY <1>a, <1>n, <2>1, <2>2, <2>3, <2>4, SoundInsert DEF CachesSound, KeyOf
      <3>2. Sound([local[w] EXCEPT ![KeyOf(w)] = call[w].sim])
        BY <1>a, <1>n, <2>2, <2>3, <2>4, SoundInsert DEF CachesSound, KeyOf
      <3> QED
        BY <1>n, <2>1, <2>4, <3>1, <3>2 DEF CachesSound
    <2>5. CallsRight =>
            \A v \in Workers : call'[v].pc \in {"insert", "answer"} =>
                call'[v].sim = prover.similar[<<call'[v].a, call'[v].b>>]
      BY <1>n, <2>1, <2>3 DEF CallsRight, Similarity, Calls, PCs
    <2> QED
      BY <1>t, <2>1, <2>4, <2>5
  <1>11. CASE PurgeSimilarityCache
    <2>1. UNCHANGED fixed /\ UNCHANGED <<shared, local, call>>
      BY <1>11 DEF PurgeSimilarityCache, fixed, Right
    <2> QED
      BY <1>t, <2>1 DEF CachesSound, CallsRight, Similarity
  <1>10. CASE UNCHANGED vars
    BY <1>10, <1>t DEF vars, fixed, CachesSound, CallsRight, Similarity
  <1> QED
    BY <1>1, <1>2, <1>3, <1>4, <1>5, <1>6, <1>7, <1>8, <1>9, <1>10, <1>11
    DEF Next, WorkerStep

\* For a function that the key suits, calc_similarity answers what the function
\* would answer, with any number of threads, batches and searches.
THEOREM AnswersCorrect == Spec => []AnswersAreRight
  <1>1. Typed /\ Right => AnswersAreRight
    BY DEF Right, CallsRight, AnswersAreRight, At
  <1>2. Spec => [](Typed /\ Right)
    BY TypeInit, TypeStep, RightInit, RightStep, PTL DEF Spec
  <1> QED
    BY <1>1, <1>2, PTL
-----------------------------------------------------------------------------
(***************************************************************************)
(* Why no thread computes a pair twice: it looks into the shared cache     *)
(* first, and puts its answer there before its next look-up.               *)
(***************************************************************************)
Computing(w) == call[w].pc \in {"compute", "python"}
Inserting(w, k) == call[w].pc = "insert" /\ KeyOf(w) = k

\* What the thread has computed is in the shared cache, or it is about to put it
\* there; and it does not compute it again.
ComputedOnce(w) ==
    /\ \A k \in computed[w] : shared[k] # Absent \/ Inserting(w, k)
    /\ Computing(w) => KeyOf(w) \notin computed[w]

AllComputedOnce ==
    prover.caching /\ searching => \A w \in Workers : ComputedOnce(w)

\* At the start nothing was computed.
LEMMA OnceInit == Init => AllComputedOnce
  BY DEF Init, AllComputedOnce

\* No step makes a thread compute what it has computed.
LEMMA OnceStep == Typed /\ AllComputedOnce /\ [Next]_vars => AllComputedOnce'
  <1> SUFFICES ASSUME Typed, AllComputedOnce, [Next]_vars PROVE AllComputedOnce'
    OBVIOUS
  <1>a. TypeOK /\ Resting
    BY DEF Typed
  <1>n. /\ shared \in Cache /\ call \in [Workers -> Calls]
        /\ computed \in [Workers -> SUBSET Keys]
    BY <1>a DEF TypeOK
  <1>1. CASE StartSearch
    <2>1. \A w \in Workers : call'[w] = Idle /\ computed'[w] = {}
      BY <1>1, <1>a DEF StartSearch, Resting
    <2> QED
      BY <2>1 DEF AllComputedOnce, ComputedOnce, Computing, Idle
  <1>2. CASE EndSearch
    BY <1>2 DEF EndSearch, AllComputedOnce
  <1>3. CASE PurgeSimilarityCache
    BY <1>3 DEF PurgeSimilarityCache, AllComputedOnce
  \* A step of one thread: nothing leaves the shared cache, and the others are
  \* where they were.
  <1>s. ASSUME NEW w \in Workers, UNCHANGED fixed,
               \A v \in Workers \ {w} :
                   call'[v] = call[v] /\ computed'[v] = computed[v],
               \A k \in Keys : shared[k] # Absent => shared'[k] # Absent,
               prover.caching /\ searching /\ ComputedOnce(w) => ComputedOnce(w)'
        PROVE  AllComputedOnce'
    <2>1. \A a, b : Key(a, b)' = Key(a, b)
      BY <1>s DEF fixed, Key, Token
    <2>2. ASSUME NEW v \in Workers \ {w}, ComputedOnce(v) PROVE ComputedOnce(v)'
      <3>1. call'[v] = call[v] /\ KeyOf(v)' = KeyOf(v) /\ computed'[v] = computed[v]
        BY <1>s, <2>1 DEF KeyOf
      <3>2. \A k \in computed[v] : k \in Keys
        BY <1>n
      <3> QED
        BY <1>s, <2>2, <3>1, <3>2 DEF ComputedOnce, Computing, Inserting
    <2> QED
      BY <1>s, <2>2 DEF AllComputedOnce, fixed
  \* The thread goes on with the same pair.
  <1>p. ASSUME NEW w \in Workers, UNCHANGED fixed,
               call'[w].a = call[w].a, call'[w].b = call[w].b
        PROVE  KeyOf(w)' = KeyOf(w)
    BY <1>p DEF fixed, KeyOf, Key, Token
  <1>4. ASSUME NEW w \in Workers, NewBatch(w) PROVE AllComputedOnce'
    <2>1. UNCHANGED <<fixed, shared, call, computed>>
      BY <1>4 DEF NewBatch
    <2>2. KeyOf(w)' = KeyOf(w)
      BY <1>p, <2>1
    <2>3. ComputedOnce(w) => ComputedOnce(w)'
      BY <2>1, <2>2 DEF ComputedOnce, Computing, Inserting
    <2> QED
      BY <1>s, <2>1, <2>3
  \* A thread that was at no insertion and that does not compute now.
  <1>i. ASSUME NEW w \in Workers, UNCHANGED <<fixed, shared, computed>>,
               \A v \in Workers \ {w} : call'[v] = call[v],
               call[w].pc # "insert",
               prover.caching => call'[w].pc \notin {"compute", "python"}
        PROVE  AllComputedOnce'
    <2>1. prover.caching /\ ComputedOnce(w) => ComputedOnce(w)'
      BY <1>i DEF ComputedOnce, Computing, Inserting
    <2> QED
      BY <1>i, <1>s, <2>1
  <1>5. ASSUME NEW w \in Workers, LookUp(w) PROVE AllComputedOnce'
    <2>1. /\ call[w].pc = "idle" /\ UNCHANGED <<fixed, shared, computed>>
          /\ \A v \in Workers \ {w} : call'[v] = call[v]
      BY <1>5, <1>n DEF LookUp, At
    <2>2. prover.caching => call'[w].pc \in {"shared", "answer"}
      BY <1>5, <1>n DEF LookUp
    <2> QED
      BY <1>i, <2>1, <2>2
  <1>6. ASSUME NEW w \in Workers, GetShared(w) PROVE AllComputedOnce'
    <2>1. call[w].pc = "shared" /\ UNCHANGED <<fixed, shared, computed>>
      BY <1>6 DEF GetShared, At
    <2>2. CASE shared[KeyOf(w)] # Absent
      <3>1. /\ call'[w].pc = "answer"
            /\ \A v \in Workers \ {w} : call'[v] = call[v]
        BY <1>6, <1>n, <2>2 DEF GetShared
      <3> QED
        BY <1>i, <2>1, <3>1
    <2>3. CASE shared[KeyOf(w)] = Absent
      <3>1. call' = [call EXCEPT ![w] = [@ EXCEPT !.pc = "compute"]]
        BY <1>6, <2>3 DEF GetShared
      <3>2. /\ call'[w].pc = "compute" /\ call'[w].a = call[w].a
            /\ call'[w].b = call[w].b
            /\ \A v \in Workers \ {w} : call'[v] = call[v]
        BY <1>n, <2>1, <3>1 DEF Calls, PCs
      <3>3. KeyOf(w)' = KeyOf(w)
        BY <1>p, <2>1, <3>2
      <3>4. ComputedOnce(w) => ComputedOnce(w)'
        BY <2>1, <2>3, <3>2, <3>3 DEF ComputedOnce, Computing, Inserting
      <3> QED
        BY <1>s, <2>1, <3>2, <3>4
    <2> QED
      BY <2>2, <2>3
  <1>7. ASSUME NEW w \in Workers, TakeGil(w) PROVE AllComputedOnce'
    <2>1. /\ call[w].pc = "compute" /\ UNCHANGED <<fixed, shared, computed>>
          /\ call' = [call EXCEPT ![w] = [@ EXCEPT !.pc = "python"]]
      BY <1>7 DEF TakeGil, At
    <2>2. /\ call'[w].pc = "python" /\ call'[w].a = call[w].a
          /\ call'[w].b = call[w].b
          /\ \A v \in Workers \ {w} : call'[v] = call[v]
      BY <1>n, <2>1 DEF Calls, PCs
    <2>3. KeyOf(w)' = KeyOf(w)
      BY <1>p, <2>1, <2>2
    <2>4. ComputedOnce(w) => ComputedOnce(w)'
      BY <2>1, <2>2, <2>3 DEF ComputedOnce, Computing, Inserting
    <2> QED
      BY <1>s, <2>1, <2>2, <2>4
  <1>8. ASSUME NEW w \in Workers, ReturnFromPython(w) \/ CompareSymbols(w)
        PROVE  AllComputedOnce'
    <2>1. /\ call[w].pc \in {"compute", "python"} /\ UNCHANGED <<fixed, shared>>
          /\ call' = [call EXCEPT ![w] = Known(w, Similarity(w))]
          /\ computed' = [computed EXCEPT ![w] = @ \cup {KeyOf(w)}]
      BY <1>8 DEF ReturnFromPython, CompareSymbols, At, Remembered
    <2>2. /\ call'[w].a = call[w].a /\ call'[w].b = call[w].b
          /\ prover.caching => call'[w].pc = "insert"
          /\ computed'[w] = computed[w] \cup {KeyOf(w)}
          /\ \A v \in Workers \ {w} :
                call'[v] = call[v] /\ computed'[v] = computed[v]
      BY <1>n, <2>1 DEF Known
    <2>3. KeyOf(w)' = KeyOf(w)
      BY <1>p, <2>1, <2>2
    <2>4. prover.caching /\ ComputedOnce(w) => ComputedOnce(w)'
      BY <2>1, <2>2, <2>3 DEF ComputedOnce, Computing, Inserting
    <2> QED
      BY <1>s, <2>1, <2>2, <2>4
  <1>9. ASSUME NEW w \in Workers, RaiseInPython(w) PROVE AllComputedOnce'
    <2>1. /\ call[w].pc = "python" /\ UNCHANGED <<fixed, shared, computed>>
          /\ call' = [call EXCEPT ![w] = Idle]
      BY <1>9 DEF RaiseInPython, At
    <2>2. call'[w].pc = "idle" /\ \A v \in Workers \ {w} : call'[v] = call[v]
      BY <1>n, <2>1 DEF Idle
    <2> QED
      BY <1>i, <2>1, <2>2
  <1>10. ASSUME NEW w \in Workers, Insert(w) PROVE AllComputedOnce'
    <2>1. /\ call[w].pc = "insert" /\ UNCHANGED <<fixed, computed>>
          /\ shared' = [shared EXCEPT ![KeyOf(w)] = call[w].sim]
          /\ call' = [call EXCEPT ![w] = [@ EXCEPT !.pc = "answer"]]
      BY <1>10 DEF Insert, At, SharedWith
    <2>2. /\ call'[w].pc = "answer" /\ call[w].sim \in Int
          /\ \A v \in Workers \ {w} : call'[v] = call[v]
      BY <1>n, <2>1 DEF Calls, PCs
    <2>3. \A k \in Keys :
             shared'[k] = IF k = KeyOf(w) THEN call[w].sim ELSE shared[k]
      BY <1>n, <2>1 DEF Cache
    <2>4. call[w].sim # Absent
      BY <2>2, CacheAssumption DEF Similarities
    <2>5. ComputedOnce(w) => ComputedOnce(w)'
      <3>1. \A k \in computed[w] : k \in Keys
        BY <1>n
      <3> QED
        BY <2>1, <2>2, <2>3, <2>4, <3>1 DEF ComputedOnce, Computing, Inserting
    <2> QED
      BY <1>s, <2>1, <2>2, <2>3, <2>4, <2>5
  <1>11. ASSUME NEW w \in Workers, Return(w) PROVE AllComputedOnce'
    <2>1. /\ call[w].pc = "answer" /\ UNCHANGED <<fixed, shared, computed>>
          /\ call' = [call EXCEPT ![w] = Idle]
      BY <1>11 DEF Return, At
    <2>2. call'[w].pc = "idle" /\ \A v \in Workers \ {w} : call'[v] = call[v]
      BY <1>n, <2>1 DEF Idle
    <2> QED
      BY <1>i, <2>1, <2>2
  <1>12. CASE UNCHANGED vars
    <2>1. UNCHANGED <<fixed, shared, call, computed>>
      BY <1>12 DEF vars, fixed
    <2>2. \A w \in Workers : KeyOf(w)' = KeyOf(w)
      BY <1>p, <2>1
    <2> QED
      BY <2>1, <2>2
      DEF AllComputedOnce, ComputedOnce, Computing, Inserting, fixed
  <1> QED
    BY <1>1, <1>2, <1>3, <1>4, <1>5, <1>6, <1>7, <1>8, <1>9, <1>10, <1>11,
       <1>12
    DEF Next, WorkerStep

\* With the cache no thread of a search calls the similarity function for a pair
\* again that it has returned a similarity for to this thread, for any threads,
\* batches and functions.
THEOREM PairsComputedOnce == Spec => []ThreadsComputeAPairOnce
  <1>1. Typed /\ AllComputedOnce => ThreadsComputeAPairOnce
    <2> SUFFICES ASSUME Typed, AllComputedOnce, prover.caching, NEW w \in Workers,
                        At(w, "compute") \/ At(w, "python")
                 PROVE  KeyOf(w) \notin computed[w]
      BY DEF ThreadsComputeAPairOnce
    <2>1. searching
      BY DEF Typed, Resting, At, Idle
    <2> QED
      BY <2>1 DEF AllComputedOnce, ComputedOnce, Computing, At
  <1>2. Spec => [](Typed /\ AllComputedOnce)
    BY TypeInit, TypeStep, OnceInit, OnceStep, PTL DEF Spec
  <1> QED
    BY <1>1, <1>2, PTL
=============================================================================
