SPECIFICATION Spec
CONSTANTS
    Patterns = {p1, p2}
    Places = {0, 1, 2}
    Areas = {1}
    Confidences = {1, 2, 3}
    CfMin = 2
    CountMax = 4
    MaxSquares = 2
    NoId = NoId
SYMMETRY PatternSymmetry
INVARIANTS OnePerPattern AddedBackRecent
PROPERTY MarkersPersist
