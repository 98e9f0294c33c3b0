\* API calls, processes that end and cluster starts interleave.
CONSTANTS
    MaxNodes = 3
    Fragile = {1}
    BatchSize = 1
    MaxStarts = 4
    MaxCalls = 2
SPECIFICATION FairSpec
CHECK_DEADLOCK FALSE
INVARIANTS
    TypeOK
    StoppedIsDead
    SharedPortIsRestarted
    StopIsUnderWay
PROPERTIES
    ToldClusterSize
    OnlyStoppingIsReplaced
    StopTakesEffect
    ClusterStartEnds
