SPECIFICATION AllSpec
CONSTANTS
    main = main
    preview = preview
    model = model
    PerDay = 2
    Envs = {main, preview}
    Preview = preview
    Users = {u1}
    Sessions = {}
    NoSession = NoSession
    Keys = {k1}
    Owners = {o1}
    TurnIds = {t1, t2}
    AttemptIds = {a1, a2}
    Models = {model}
    InputTokens = 2
    OutputTokens = 2
    Monthly = 3
    TurnCost = 2
    Attempts = 2
    Tools = 1
    Deadline = 2
    GuestMicros = 2
    GuestTurns = 1
    GuestCooldown = 1
    DayLength = 1
    MonthLength = 2
    MaxTime = 2
    InputRate <- MCInputRate
    OutputRate <- MCOutputRate
    PriceScale <- MCPriceScale
    Requests <- MCRequests
    Reports <- MCReports
    EnvMonthly <- MCEnvMonthly
    UserDaily <- MCUserDaily
    TurnsPerDay <- MCTurnsPerDay
    None = None
    call1 = call1
    call2 = call2
    call3 = call3
    ledger1 = ledger1
    Calls = {call1, call2, call3}
    Ledgers = {ledger1}
    LedgerOf <- SomeLedgers
    Wrappers <- SomeWrappers
    Permits = 1
    Ceiling = 2
    MaxRetries = 1
    MaxRepairs = 1
SYMMETRY Symmetry
INVARIANTS
    CapsHold
    OverrunStopsSpending
    AlertsPrecedeExposure
    
PROPERTIES
    LiabilityRetained
