SPECIFICATION FairSpec
CONSTANTS
    v1 = v1
    v2 = v2
    Video <- TwoVideos
    ChunksOf <- SpeechAndSilence
    SegmentsOf <- OneSegment
    MaxCrashes = 2
    MaxStarts = 3
    MaxResets = 1
    MaxPackageFaults = 1
INVARIANTS
    TypeOK
    RechunkBarrier
    RechunkedOnce
    RunningIsOwned
    CoroutinesOwnTheirRows
    DoneIsPackaged
    ManifestListsDone
    DiarizedFirst
PROPERTIES
    ImplementsLedger
    PendingIsSettled
    RunEnds
CHECK_DEADLOCK FALSE
