SPECIFICATION TranscriptSpec
CONSTANTS
    MaxSuperchunk = 24
    Overlap = 18
    Grid = 12
    Horizon = 8
    NoSpeaker = NoSpeaker
    NoLanguage = NoLanguage
    None = None
    Studies <- MCStudies
INVARIANTS
    CutsAreCapped
    SpeechIsCovered
    WordsAreHeardWhole
    NothingLeftToMerge
    EveryWordOnce
    SentencesStayWhole
    OnlySentencesExceed
    CutsHaveAReason
    OneSpeakerWhenLabelled
    OverlapIsRejected
CHECK_DEADLOCK FALSE
