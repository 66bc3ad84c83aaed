SPECIFICATION FairSpec
CONSTANTS
    MaxQueue = 3
    RecentMin = 4
    MaxIterations = 2
    MaxKeyFrames = 6
    MaxCommands = 2
    MaxSaves = 1
INVARIANTS
    TypeOK
    WipeOnlyWhileTrackerWaits
    BuildExcludesMaintenance
    MapKeptDuringFrame
    QueueBelongsToMap
    NoMapOverMap
PROPERTIES
    ResetReturnsClean
    ImplementsLifecycle
    ResetServed
    QueueServed
