SPECIFICATION Spec
CONSTANTS
    main = main
    preview = preview
    model = model
    PerDay = 2
    Envs = {preview}
    Preview = preview
    Users = {n1, n2}
    Sessions = {g1, g2}
    NoSession = NoSession
    Keys = {k1, k2}
    Owners = {o1}
    TurnIds = {t1, t2}
    AttemptIds = {a1, a2}
    Models = {model}
    InputTokens = 2
    OutputTokens = 2
    Monthly = 4
    TurnCost = 3
    Attempts = 2
    Tools = 1
    Deadline = 2
    GuestMicros = 2
    GuestTurns = 1
    GuestCooldown = 2
    DayLength = 2
    MonthLength = 2
    MaxTime = 2
    InputRate <- MCInputRate
    OutputRate <- MCOutputRate
    PriceScale <- MCPriceScale
    Requests <- MCRequests
    Reports <- MCReportsWithin
    EnvMonthly <- MCEnvMonthly
    UserDaily <- MCUserDaily
    TurnsPerDay <- MCTurnsPerDay
SYMMETRY Symmetry
INVARIANTS
    AllowancesHold
PROPERTIES
    ReplacedTurnCannotSpend
    KeepsLedger
