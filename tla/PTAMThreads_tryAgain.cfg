SPECIFICATION Spec
CONSTANTS
    MaxQueue = 2
    RecentMin = 3
    MaxIterations = 2
    MaxKeyFrames = 4
    MaxCommands = 1
    MaxSaves = 0
INVARIANT
    UserCanTryAgain
