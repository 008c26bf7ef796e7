SPECIFICATION AllFair
CONSTANTS
    None = None
    a = a
    b = b
    c = c
    ledger1 = ledger1
    Decks = {d1, d2}
    Requests = {j1, j2}
    Processes = {p1}
    MaxActive = 2
    MaxRunning = 1
    Slots = 1
    MaxRevision = 0
    Callers = {}
    Lapsing = {j1, j2}
    Deletable = {}
    Calls = {a, b, c}
    Ledgers = {ledger1}
    LedgerOf <- SomeLedgers
    Wrappers <- SomeWrappers
    Permits = 1
    Ceiling = 1
    MaxRetries = 1
    MaxRepairs = 0
    BuildJobs = {m1, m2}
    Workers = 1
    MaxWriteFailures = 1
    LockLasts = FALSE
    MaxRestarts = 1
    Alternatives = 1
    Pages = {r1}
    MaxEdits = 1
CHECK_DEADLOCK FALSE
PROPERTIES
    
    GenerationsEnd
    
    ExperimentsEnd
