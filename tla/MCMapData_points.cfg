SPECIFICATION Spec
CONSTANTS
    MapPoints = {p1, p2}
    KeyFrames = {k1, k2, k3}
    NoKeyFrame = NoKeyFrame
    MaxQueue = 1
    RecentMin = 3
    MaxOutliers = 2
SYMMETRY Symmetry
INVARIANTS
    MeasurementsRecorded
    RecordsExact
    RetryExcludesMeasured
    GoodPointsWellMeasured
    NoDanglingPoints
