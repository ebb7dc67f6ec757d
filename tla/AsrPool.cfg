SPECIFICATION TimelyFairSpec
CONSTANTS
    w1 = w1
    w2 = w2
    diarize1 = diarize1
    asr1 = asr1
    Worker = {w1, w2}
    Task = {diarize1, asr1}
    Diarize = {diarize1}
    NoTask = NoTask
    Poison = Poison
    Free = Free
    Lost = Lost
    Faults = {"crash_reported", "crash", "crash_idle", "crash_loading", "hang", "late"}
    MaxFaults = 1
CONSTRAINT Bounded
INVARIANTS
    TypeOK
    NoTaskLost
    ExclusiveExecution
    StopLeavesNoWaiter
PROPERTIES
    HealthyWorkIsSpared
    EveryTaskAnswered
    WorkersRecover
    ImplementsService
CHECK_DEADLOCK FALSE
