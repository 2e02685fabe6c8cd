SPECIFICATION Spec
CONSTANTS
    Callers = {c1, c2}
    NoLimit = NoLimit
    MaxProofs = 2
    InitialThreshold = 0
    Similarities <- MCWithNaN
    NaN = NaN
    Depths <- MCDepths
    Resolvents = {r1}
    MaxOffers = 4
    MaxChecks = 3
SYMMETRY MCSymmetry
INVARIANT TypeOK
INVARIANT KeptAreTheBest
INVARIANT EveryLeafAccounted
INVARIANT ThresholdIsTheBar
INVARIANT PanicHasACause
INVARIANT SkippedIsCovered
PROPERTY ThresholdNeverFalls
CHECK_DEADLOCK FALSE
