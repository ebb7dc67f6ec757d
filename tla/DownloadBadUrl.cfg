SPECIFICATION FairSpec
CONSTANTS
    v1 = v1
    d1 = d1
    Video = {v1}
    Worker = {d1}
    QueueMax = 1
    Sentinel = Sentinel
    NoVideo = NoVideo
    SourceRaises = TRUE
PROPERTIES
    StreamEnds
CHECK_DEADLOCK FALSE
