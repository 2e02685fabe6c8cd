SPECIFICATION FairSpec
CONSTANTS
    Workers = {w1, w2}
    Main = Main
    Nobody = Nobody
    Items <- MCItems
    Predicates <- MCPredicates
    Symbol <- MCSymbol
    Embedding <- MCEmbedding
    None = None
    Addresses = {a1}
    Provers <- MCProvers
    Raises = Raises
    Absent = Absent
    MaxLookups = 1
    MaxBatches = 2
    MaxSearches = 2
INVARIANT TypeOK
INVARIANT AnswersAreRight
INVARIANT ThreadsComputeAPairOnce
PROPERTY SearchesEnd
CHECK_DEADLOCK FALSE
