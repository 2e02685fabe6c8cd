-------------------------- MODULE SimilarityCache --------------------------
(***************************************************************************)
(* The two caches in front of the similarity function: a concurrent map    *)
(* that the threads of a search share (SharedProofContext) and a map of    *)
(* each batch (LocalProofContext).  The keys are the XOR of two hashes, of *)
(* a symbol and the address of its embedding.  The function is Python code *)
(* and needs the interpreter lock, which the thread that called the prover *)
(* gives up for the time of the search.                                    *)
(*                                                                         *)
(* Hashes are taken to be free of collisions of their own: the hash of a   *)
(* symbol and an address is a bit of its own, a word is a set of bits, and *)
(* XOR is the symmetric difference.                                        *)
(***************************************************************************)
EXTENDS Integers

CONSTANTS
    Workers,        \* the threads of the pool
    Main,           \* the Python thread that called the prover
    Nobody,
    Items,          \* constants and predicates
    Predicates,     \* those that are predicates
    Symbol,         \* the symbol of an item
    Embedding,      \* its embedding, or None
    None,
    Addresses,      \* where embeddings are placed
    Provers,        \* the provers: see ProverType
    Raises,         \* the similarity function raises an exception
    Absent,         \* no entry in a cache
    MaxLookups,     \* bound on the look-ups of a batch
    MaxBatches,     \* bound on the batches a thread starts in a search
    MaxSearches     \* bound on the searches

Embeddings == { Embedding[i] : i \in Items } \ {None}
Symbols == { Symbol[i] : i \in Items }
Similarities == Int \cup {Raises}

\* A prover: with cache_similarity, with a similarity_func, and the function.
ProverType ==
    [caching : BOOLEAN, python : BOOLEAN,
     similar : [Items \X Items -> Similarities]]

\* raw_calc_similarity without a similarity_func: equal symbols.
SymbolsEqual ==
    [p \in Items \X Items |-> IF Symbol[p[1]] = Symbol[p[2]] THEN 1 ELSE 0]

ASSUME CacheAssumption ==
    /\ Main \notin Workers /\ Nobody \notin Workers \cup {Main}
    /\ Predicates \subseteq Items
    /\ DOMAIN Symbol = Items /\ DOMAIN Embedding = Items
    /\ None \notin Addresses
    /\ Provers \subseteq ProverType
    /\ \A p \in Provers : ~ p.python => p.similar = SymbolsEqual
    /\ Raises \notin Int /\ Absent \notin Similarities
    /\ MaxLookups \in Nat /\ MaxBatches \in Nat /\ MaxSearches \in Nat

VARIABLES
    prover,     \* the prover of this behaviour
    backend,    \* similarity_cache of the ResolutionProverBackend
    live,       \* the items of the search: they keep their embeddings alive
    address,    \* the address of every embedding of a live item
    shared,     \* similarity_cache of the SharedProofContext
    local,      \* fallthrough_similarity_cache of each thread's batch
    call,       \* the call of calc_similarity each thread is in
    left,       \* look-ups and batches that remain for each thread
    gil,        \* who holds the interpreter lock
    guards,     \* the threads that hold a read guard of the shared map
    searches,   \* the number of searches started
    searching,  \* a search is on
    computed    \* history: the keys that each thread of the search computed

vars == <<prover, backend, live, address, shared, local, call, left, gil,
          guards, searches, searching, computed>>
fixed == <<prover, backend, live, address, searches, searching>>

Tokens == Symbols \X (Addresses \cup {None})
Xor(s, t) == ({s} \ {t}) \cup ({t} \ {s})
Keys == { Xor(p[1], p[2]) : p \in Tokens \X Tokens }
Empty == [k \in Keys |-> Absent]

Token(i) ==
    <<Symbol[i], IF Embedding[i] = None THEN None ELSE address[Embedding[i]]>>

\* source.similarity_key() ^ target.similarity_key()
Key(a, b) == Xor(Token(a), Token(b))

\* Equal symbols and embeddings: items of one kind are then equal.
Alike(a, b) == Symbol[a] = Symbol[b] /\ Embedding[a] = Embedding[b]

\* What unify compares: any two predicates, and constants that are not equal.
Compared(a, b) ==
    \/ a \in Predicates /\ b \in Predicates
    \/ a \notin Predicates /\ b \notin Predicates /\ ~ Alike(a, b)

Idle == [pc |-> "idle"]
At(w, pc) == call[w].pc = pc
KeyOf(w) == Key(call[w].a, call[w].b)

\* How live embeddings may be placed: each at an address of its own, which
\* one of an earlier search may have had.
Placements(items) ==
    LET embeddings == { Embedding[i] : i \in items } \ {None} IN
    { f \in [embeddings -> Addresses] :
        \A d, e \in embeddings : d # e => f[d] # f[e] }

Init ==
    /\ prover \in Provers
    /\ backend = Empty
    /\ live = {} /\ address = [e \in {} |-> None]
    /\ shared = Empty
    /\ local = [w \in Workers |-> Empty]
    /\ call = [w \in Workers |-> Idle]
    /\ left = [w \in Workers |-> [lookups |-> 0, batches |-> 0]]
    /\ gil = Main
    /\ guards = {}
    /\ searches = 0
    /\ searching = FALSE
    /\ computed = [w \in Workers |-> {}]
-----------------------------------------------------------------------------
\* A mistake: the interpreter lock is kept during the search.
GilKept == Main

\* py.allow_threads releases the interpreter lock.
GilReleased == Nobody

\* prove_all_with_stats: the context gets a clone of the backend's cache; the
\* items of the knowledge and the goal are whatever Python has now.
StartSearch ==
    \E items \in SUBSET Items : \E placed \in Placements(items) :
        /\ ~ searching /\ gil = Main
        /\ searches < MaxSearches
        /\ searches' = searches + 1
        /\ searching' = TRUE
        /\ live' = items
        /\ address' = placed
        /\ shared' = backend
        /\ local' = [w \in Workers |-> Empty]
        /\ left' = [w \in Workers |->
                       [lookups |-> 0, batches |-> MaxBatches]]
        /\ gil' = GilReleased
        /\ computed' = [w \in Workers |-> {}]
        /\ UNCHANGED <<prover, backend, call, guards>>

\* A mistake: the search fills the cache of the backend itself.
BackendAfterwards == shared

\* The search filled a copy.
BackendUntouched == backend

\* The scope has joined its jobs (and passes a panic on): the context is
\* dropped and the caller takes the interpreter lock again.
EndSearch ==
    /\ searching
    /\ \A w \in Workers : At(w, "idle")
    /\ gil = Nobody
    /\ gil' = Main
    /\ searching' = FALSE
    /\ live' = {} /\ address' = [e \in {} |-> None]
    /\ shared' = Empty
    /\ local' = [w \in Workers |-> Empty]
    /\ left' = [w \in Workers |-> [lookups |-> 0, batches |-> 0]]
    /\ backend' = BackendUntouched
    /\ UNCHANGED <<prover, call, guards, searches, computed>>

\* purge_similarity_cache: Python cannot call it during a search, which has
\* borrowed the backend.
PurgeSimilarityCache ==
    /\ ~ searching /\ gil = Main
    /\ backend' = Empty
    /\ UNCHANGED <<prover, live, address, shared, local, call, left, gil,
                   guards, searches, searching, computed>>

\* LocalProofContext::new for the next batch: an empty cache of its own.
NewBatch(w) ==
    /\ searching /\ At(w, "idle") /\ left[w].batches > 0
    /\ local' = [local EXCEPT ![w] = Empty]
    /\ left' = [left EXCEPT ![w] =
                   [lookups |-> MaxLookups, batches |-> @.batches - 1]]
    /\ UNCHANGED <<fixed, shared, call, gil, guards, computed>>
-----------------------------------------------------------------------------
\* calc_similarity is called for two items and looks into the local cache, if
\* there is one.
LookUp(w) ==
    \E a, b \in live :
        /\ Compared(a, b)
        /\ searching /\ At(w, "idle") /\ left[w].lookups > 0
        /\ left' = [left EXCEPT ![w].lookups = @ - 1]
        /\ LET hit == local[w][Key(a, b)] IN
           call' = [call EXCEPT ![w] =
               IF ~ prover.caching THEN [pc |-> "compute", a |-> a, b |-> b]
               ELSE IF hit = Absent THEN [pc |-> "shared", a |-> a, b |-> b]
               ELSE [pc |-> "answer", a |-> a, b |-> b, sim |-> hit]]
        /\ UNCHANGED <<fixed, shared, local, gil, guards, computed>>

\* A mistake: the guard of the look-up lives on in the else branch.
GuardsAfterMiss(w) == guards \cup {w}

\* The guard of the look-up is dropped where the function is called.
GuardsAfterLookUp(w) == guards

\* calc_similarity_cached looks into the shared cache.
GetShared(w) ==
    /\ At(w, "shared")
    /\ LET hit == shared[KeyOf(w)] IN
       IF hit = Absent
       THEN /\ call' = [call EXCEPT ![w].pc = "compute"]
            /\ guards' = GuardsAfterLookUp(w)
            /\ UNCHANGED local
       ELSE /\ call' = [call EXCEPT ![w] =
                  [pc |-> "answer", a |-> @.a, b |-> @.b, sim |-> hit]]
            /\ local' = [local EXCEPT ![w][KeyOf(w)] = hit]
            /\ UNCHANGED guards
    /\ UNCHANGED <<fixed, shared, left, gil, computed>>

\* Python::with_gil
TakeGil(w) ==
    /\ At(w, "compute") /\ prover.python
    /\ gil = Nobody
    /\ gil' = w
    /\ call' = [call EXCEPT ![w].pc = "python"]
    /\ UNCHANGED <<fixed, shared, local, left, guards, computed>>

\* The function has returned a similarity to the thread.
Remembered(w) == [computed EXCEPT ![w] = @ \cup {KeyOf(w)}]

\* The state after the similarity is known.
Known(w, s) ==
    [pc |-> IF prover.caching THEN "insert" ELSE "answer",
     a |-> call[w].a, b |-> call[w].b, sim |-> s]

Similarity(w) == prover.similar[<<call[w].a, call[w].b>>]

\* A mistake: the exception is not noticed.
NeverFails(w) == FALSE

\* The function raises, or what it returns is no float.
Fails(w) == Similarity(w) = Raises

\* The Python function returns.
ReturnFromPython(w) ==
    /\ At(w, "python")
    /\ ~ Fails(w)
    /\ gil' = Nobody
    /\ call' = [call EXCEPT ![w] = Known(w, Similarity(w))]
    /\ computed' = Remembered(w)
    /\ UNCHANGED <<fixed, shared, local, left, guards>>

\* The Python function raises: unwrap panics and the job of the thread is over;
\* unwinding drops the guards.
RaiseInPython(w) ==
    /\ At(w, "python")
    /\ Fails(w)
    /\ gil' = Nobody
    /\ call' = [call EXCEPT ![w] = Idle]
    /\ left' = [left EXCEPT ![w].lookups = 0]
    /\ guards' = guards \ {w}
    /\ UNCHANGED <<fixed, shared, local, computed>>

\* Without a similarity_func the symbols are compared, without any lock.
CompareSymbols(w) ==
    /\ At(w, "compute") /\ ~ prover.python
    /\ call' = [call EXCEPT ![w] = Known(w, Similarity(w))]
    /\ computed' = Remembered(w)
    /\ UNCHANGED <<fixed, shared, local, left, gil, guards>>

\* A mistake: the similarity is only kept in the cache of the batch.
SharedForgets(w) == shared

\* The shared cache with the new similarity.
SharedWith(w) == [shared EXCEPT ![KeyOf(w)] = call[w].sim]

\* cache.insert takes the write lock of the shard; the local cache follows.
Insert(w) ==
    /\ At(w, "insert")
    /\ guards = {}
    /\ shared' = SharedWith(w)
    /\ local' = [local EXCEPT ![w][KeyOf(w)] = call[w].sim]
    /\ call' = [call EXCEPT ![w].pc = "answer"]
    /\ UNCHANGED <<fixed, left, gil, guards, computed>>

\* calc_similarity returns to the unification.
Return(w) ==
    /\ At(w, "answer")
    /\ call' = [call EXCEPT ![w] = Idle]
    /\ UNCHANGED <<fixed, shared, local, left, gil, guards, computed>>
-----------------------------------------------------------------------------
WorkerStep(w) ==
    \/ GetShared(w) \/ TakeGil(w) \/ ReturnFromPython(w) \/ RaiseInPython(w)
    \/ CompareSymbols(w) \/ Insert(w) \/ Return(w)

Next ==
    \/ StartSearch
    \/ EndSearch
    \/ PurgeSimilarityCache
    \/ \E w \in Workers : NewBatch(w) \/ LookUp(w) \/ WorkerStep(w)

Spec == Init /\ [][Next]_vars

\* A call that was made goes on, and a scope that has joined its jobs returns;
\* nobody has to make a call.
FairSpec ==
    /\ Spec
    /\ \A w \in Workers : WF_vars(WorkerStep(w))
    /\ WF_vars(EndSearch)
-----------------------------------------------------------------------------
(***************************************************************************)
(* Properties.                                                             *)
(***************************************************************************)
\* What the key takes for granted of a similarity function: it is symmetric,
\* gives every item the same similarity with itself, and does not tell a
\* constant from a predicate.
CosineLike ==
    LET similar == prover.similar IN
    /\ \A a, b \in Items : similar[<<a, b>>] = similar[<<b, a>>]
    /\ \A a, b \in Items : similar[<<a, a>>] = similar[<<b, b>>]
    /\ \A a, b, c \in Items : Alike(a, b) => similar[<<a, c>>] = similar[<<b, c>>]

PCs == {"shared", "compute", "python"}
Calls ==
    [pc : {"idle"}]
      \cup [pc : PCs, a : live, b : live]
      \cup [pc : {"insert", "answer"}, a : live, b : live, sim : Int]
Cache == [Keys -> Int \cup {Absent}]

\* Every variable stays in its type.
TypeOK ==
    /\ prover \in Provers
    /\ backend \in Cache
    /\ live \subseteq Items
    /\ address \in Placements(live)
    /\ shared \in Cache
    /\ local \in [Workers -> Cache]
    /\ call \in [Workers -> Calls]
    /\ left \in [Workers -> [lookups : Nat, batches : Nat]]
    /\ gil \in Workers \cup {Main, Nobody}
    /\ guards \subseteq Workers
    /\ searches \in Nat /\ searching \in BOOLEAN
    /\ computed \in [Workers -> SUBSET Keys]

\* For a function that is CosineLike the caches cannot be told from it: what
\* calc_similarity returns is the similarity of its two items, although the
\* key knows an embedding only by an address that an earlier search may have
\* given to another one.
AnswersAreRight ==
    CosineLike =>
        \A w \in Workers :
            At(w, "answer") => call[w].sim = Similarity(w)

\* The README: a similarity function may calculate "however you wish".
AnyFunctionIsRespected ==
    \A w \in Workers : At(w, "answer") => call[w].sim = Similarity(w)

\* With the cache, a thread that the function has returned a similarity to does
\* not call it again for that pair in the search, in this batch or a later one,
\* whatever the call would do: threads that miss at the same time may all call
\* it, but each of them once.  (A call that raises leaves nothing behind, and
\* may be made again by the next batch.)
ThreadsComputeAPairOnce ==
    prover.caching =>
        \A w \in Workers :
            At(w, "compute") \/ At(w, "python") => KeyOf(w) \notin computed[w]

\* No look-up waits for ever on a guard or on the interpreter lock, and so the
\* search comes back to its caller.
SearchesEnd == searching ~> ~ searching
=============================================================================
