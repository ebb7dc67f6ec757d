SPECIFICATION Spec
CONSTANTS
    Segment <- MCSegment
    Speaker = {"ann", "bob"}
    MaxKills = 1
    MaxResets = 1
    MaxCommands = 4
INVARIANTS
    FinalNamesAreWhole
    ManifestIsCurrent
    JsonHasAudio
    OnlyUnwantedIsDeleted
CHECK_DEADLOCK FALSE
