SPECIFICATION Spec
CONSTANTS
    Threads = {t1, t2}
    NoThread = NoThread
    MaxProofs = 1
    StepStats <- MCStepStats
    MaxSteps = 2
    MaxRecords = 3
SYMMETRY MCSymmetry
INVARIANT TypeOK
INVARIANT LaterReportsMore
INVARIANT DiscardsAreExact
INVARIANT NothingIsLost
