SPECIFICATION Spec
CONSTANTS
    Workers = {w1, w2}
    Main = Main
    Nobody = Nobody
    Items <- MCItems
    Predicates <- MCPredicates
    Symbol <- MCSymbol
    Embedding <- MCEmbedding
    None = None
    Addresses = {a1}
    Provers <- MCChoosy
    Raises = Raises
    Absent = Absent
    MaxLookups = 1
    MaxBatches = 2
    MaxSearches = 2
INVARIANT AnyFunctionIsRespected
CHECK_DEADLOCK FALSE
