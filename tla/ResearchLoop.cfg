SPECIFICATION AllSpec
CONSTANTS
    Workers = {w1}
    Blockers = {b1}
    None = None
    StaleLimit = 1
    DayLength = 2
    MaxFailures = 1
    MaxMisses = 2
    MaxWrites = 2
    MaxTime = 2
    MaxRestarts = 0
    MaxModelCalls = 5
    MaxToolCalls = 2
    MaxBatch = 2
    ToolIterations = 2
    TurnSeconds = 180
    Moments = {180, 120, 80, 50, 20, 0}
    Modes = {"suggest"}
CHECK_DEADLOCK FALSE
INVARIANTS
    FreshIsTruthful
    StaleIsBounded
    DoneIsWhole
PROPERTIES
    SnapshotAdvances
    
