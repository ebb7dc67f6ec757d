SPECIFICATION FairSpec
CONSTANTS
    w1 = w1
    w2 = w2
    diarize1 = diarize1
    asr1 = asr1
    Worker = {w1, w2}
    Task = {diarize1, asr1}
    Diarize = {diarize1}
    NoTask = NoTask
    Poison = Poison
    Free = Free
    Lost = Lost
    Faults = {}
    MaxFaults = 0
PROPERTIES
    EveryTaskAnswered
CHECK_DEADLOCK FALSE
