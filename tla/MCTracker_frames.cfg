SPECIFICATION Spec
CONSTANTS
    Points = {p1, p2, p3, p4}
    CoarseMin = 1
    CoarseMax = 2
    MaxPatches = 3
    LargeMin = 1
    QualityGood = 30
    QualityLost = 13
    KeyFrameGap = 1
    MaxTrails = 3
    MinTrails = 2
SYMMETRY PointSymmetry
INVARIANTS TypeOK SearchedOnce CountsMatch GoodFrameMeasured PatchLimit
