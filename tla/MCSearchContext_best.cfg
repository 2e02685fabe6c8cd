SPECIFICATION AuxSpec
CONSTANTS
    Workers = {w1, w2}
    NoLimit = NoLimit
    MaxProofDepth = 4
    MaxAttempts = NoLimit
    MaxWidth = NoLimit
    MaxProofs = 1
    InitialThreshold = 0
    SkipSeen = TRUE
    FindHighest = TRUE
    EvalBatchSize = 1
    Disjunctions <- MCDisjunctions
    Empty = "empty"
    Goals <- MCTwoGoals
    NumClauses = 2
    Width <- MCWidth
    ClauseWidth <- MCClauseWidth
    Problems <- MCDetours
SYMMETRY MCSymmetry
INVARIANT TypeOK
INVARIANT ResultIsSound
INVARIANT ResultHasTheBest
INVARIANT WorkIsNotDuplicated
INVARIANT StatsAddUp
PROPERTY ImplementsContext
