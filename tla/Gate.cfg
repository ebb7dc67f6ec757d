SPECIFICATION FairSpec
CONSTANTS
    c1 = c1
    c2 = c2
    c3 = c3
    ram = ram
    gpu0 = gpu0
    gpu9 = gpu9
    Caller = {c1, c2, c3}
    Pool = {ram, gpu0}
    AnyPool = {ram, gpu0, gpu9}
    Stage = {"asr", "vad", "diarize"}
    Duration <- SomeDurations
    CostPerSecond <- Rates
    Total <- SixUnits
    Floor = 1
    NoOverride = NoOverride
    BudgetOverride = NoOverride
    Outside = {0, 2}
INVARIANTS
    MemoryBounded
    NothingLeaks
PROPERTIES
    FittingIsAdmitted
CHECK_DEADLOCK FALSE
