SPECIFICATION UnifyFairSpec
CONSTANTS
    Similarity <- MCSimilarity
    InitialThreshold = 0
    Thresholds = {}
    Predicates = {"p"}
    Terms <- MCNested
    Universe <- MCUniverse
    SourceAtoms <- MCVariableAtoms
    TargetAtoms <- MCNestedAtoms
PROPERTY RoundsEnd
