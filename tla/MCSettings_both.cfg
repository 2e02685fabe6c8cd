SPECIFICATION MCFairSpec
CONSTANTS
    Workers = {w1, w2}
    NoLimit = NoLimit
    MaxProofDepth = 3
    MaxAttempts = 8
    MaxWidth = 2
    MaxProofs = 1
    InitialThreshold = 0
    SkipSeen = TRUE
    FindHighest = FALSE
    EvalBatchSize = 1
    Disjunctions <- MCDisjunctions
    Empty = "empty"
    Goals <- MCTwoGoals
    NumClauses = 2
    Width <- MCWidth
    ClauseWidth <- MCClauseWidth
    Problems <- MCFewDetours
INVARIANTS EarlyStopHasEnough TopTwoAreReturned
PROPERTY SearchReturns
