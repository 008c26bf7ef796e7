SPECIFICATION Spec
CONSTANTS
    Decks = {d1}
    Jobs = {j1, j2}
    Processes = {p1, p2}
    None = None
    MaxActive = 2
    MaxRunning = 1
    Slots = 1
    MaxRevision = 1
    Callers = {j1, j2}
    Lapsing = {j1, j2}
    Deletable = {d1}
SYMMETRY Symmetry
CHECK_DEADLOCK FALSE
INVARIANTS
    RunsOnce
    CallsOnRecord
PROPERTIES
    LateResultsDiscarded
