SPECIFICATION Spec
CONSTANTS
    Points = {p1}
    CoarseMin = 1
    CoarseMax = 2
    MaxPatches = 3
    LargeMin = 1
    QualityGood = 30
    QualityLost = 13
    KeyFrameGap = 1
    MaxTrails = 5
    MinTrails = 5
INVARIANT EnoughMatches
