SPECIFICATION AllSpec
CONSTANTS
    None = None
    Alerts = {1}
    Runs = {r1, r2}
    Settings = {c1, c2}
    Limit = 1
    Lease = 2
    Backoff <- SomeBackoff
    Review = 4
    Window = 8
    Delay = 3
    Variants = {v1, v2}
    Offered = {o1, o2}
    Gone = Gone
    MaxTime = 3
    MaxImports = 3
    Upgrades = TRUE
    Controllers = {monitor, release}
    Ids = {i1, i2}
    Releases = {release}
    Lengths = {1}
    Count <- SomeCount
    Pin = 2
    Duration = 0
    Grace = 0
    LocalKept = 1
    End = 2
    MaxGivenUp = 1
    MaxCommit = 3
    MaxAttempts = 2
    MaxReleases = 1
    MaxSnapshots = 1
    MaxWrites = 0
    Safe <- SomeSafe
    OperatorWaits = TRUE
SYMMETRY Symmetry
CHECK_DEADLOCK FALSE
INVARIANTS
    EmailedOnce
    OnePayload
    NewestWins
    RecordedIsThere
    SavedFirst
