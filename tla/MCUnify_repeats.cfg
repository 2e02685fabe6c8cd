SPECIFICATION UnifySpec
CONSTANTS
    Similarity <- MCSimilarity
    InitialThreshold = 0
    Thresholds = {}
    Predicates = {"p"}
    Terms <- MCFlat
    Universe <- MCUniverse
    SourceAtoms <- MCFlatAtoms
    TargetAtoms <- MCFlatAtoms

INVARIANT NeverStuck
