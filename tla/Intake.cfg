SPECIFICATION IntakeFairSpec
CONSTANTS
    v1 = v1
    v2 = v2
    v3 = v3
    c1 = c1
    c2 = c2
    d1 = d1
    d2 = d2
    Video = {v1, v2, v3}
    Channel = {c1, c2}
    Worker = {d1, d2}
    Catalog <- MCCatalog
    VideoUrls <- MCUrls
    Folder <- MCFolder
    KnownRows <- MCKnownRows
    KnownFile <- MCKnownFile
    SourceRaises = TRUE
    MaxConcurrency = 1
    FoundMax = 1
    QueueMax = 1
    Sentinel = Sentinel
    NoMore = NoMore
    DiscoverError = DiscoverError
    NoVideo = NoVideo
INVARIANTS
    PendingIsOnItsWay
    IntakeIsComplete
PROPERTIES
    ImplementsDownload
    StreamEndsUnlessRaised
CHECK_DEADLOCK FALSE
