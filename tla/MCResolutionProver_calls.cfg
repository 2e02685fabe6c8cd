\* A call that is over leaves nothing to wait for: the calls of a scenario end.
CHECK_DEADLOCK FALSE
SPECIFICATION Spec
CONSTANTS
    Callers = {t1, t2}
    Elements = {1, 2}
    Scenarios <- MCScenarios
    Malformed <- MCMalformed
SYMMETRY MCSymmetry
INVARIANT TypeOK
INVARIANT KnowledgeMeansWhatWasAdded
INVARIANT SearchMeansTheGoal
INVARIANT PanicsOnEmptyOnly
