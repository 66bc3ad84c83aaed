SPECIFICATION Spec
CONSTANTS
    MapPoints = {p1}
    KeyFrames = {k1, k2, k3}
    NoKeyFrame = NoKeyFrame
    MaxQueue = 1
    RecentMin = 3
    MaxOutliers = 2
INVARIANTS
    TrashNotMeasured
