SPECIFICATION FairSpec
CONSTANTS
    MapPoints = {p1}
    KeyFrames = {k1, k2, k3, k4}
    NoKeyFrame = NoKeyFrame
    MaxQueue = 2
    RecentMin = 3
    MaxOutliers = 2
PROPERTY BadPointsLeave
