SPECIFICATION Spec
CONSTANTS
    v1 = v1
    v2 = v2
    Video <- OneVideo
    ChunksOf <- TwoParts
    SegmentsOf <- TwoParts
    MaxCrashes = 1
    MaxStarts = 2
    MaxResets = 0
    MaxPackageFaults = 0
INVARIANTS
    ResumeFinishesTheWork
CHECK_DEADLOCK FALSE
