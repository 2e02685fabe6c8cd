SPECIFICATION FairSpec
CONSTANTS
    Similarity <- MCSimilarity
    InitialThreshold = 0
    Thresholds = {2}
    Predicates = {"p", "q", "r", "s"}
    Terms <- MCTerms
    Universe <- MCUniverse
    SourceAtoms = {}
    TargetAtoms = {}
    Problems <- MCProblems
    Elements = {1, 2}
    BaseName <- MCBaseName
    NumberedName <- MCNumberedName
    Counters = {1, 2}

INVARIANT TypeOK
INVARIANT UnifierUnifies
INVARIANT UnifierIsMostGeneral
INVARIANT StuckOnRepeatsOnly
INVARIANT ResolventFollows
INVARIANT ApartIsMostGeneral
INVARIANT EveryLiteralIsTried
INVARIANT ProofRefutes
INVARIANT AnswerFollows
PROPERTY DerivationEnds
