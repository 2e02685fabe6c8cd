SPECIFICATION Spec
CONSTANTS
    Similarity <- MCSimilarity
    InitialThreshold = 0
    Thresholds = {}
    Predicates = {"p", "q", "r", "s"}
    Terms <- MCTerms
    Universe <- MCUniverse
    SourceAtoms = {}
    TargetAtoms = {}
    Problems <- MCNestedProofs
    Elements = {1, 2}
    BaseName <- MCBaseName
    NumberedName <- MCNumberedName
    Counters = {1, 2}

INVARIANT ProofsAreProofs
