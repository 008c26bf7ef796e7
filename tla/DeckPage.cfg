SPECIFICATION AllSpec
CONSTANTS
    None = None
    alone = alone
    Tabs = {t1, t2}
    Adoptions = {}
    adopted = adopted
    Edits = {e1, e2}
    Alternatives = 2
    Visitors = {r1, r2}
    MaxRevision = 2
    l1 = l1
    l2 = l2
    l3 = l3
    Page = Page
    OtherPage = OtherPage
    Lists = {l1, l2, l3}
    Near <- SomeNear
    Workers = 2
    Askers = {Page}
    InOrder = TRUE
    MaxEdits = 1
    MaxRuns = 3
    MaxPolls = 1
    MaxLost = 0
    MaxRestarts = 0
SYMMETRY Symmetry
CHECK_DEADLOCK FALSE
INVARIANTS
    AppliedOnce
    ConflictedNeverLands
    PinnedBaselineStands
PROPERTIES
    AdoptsWhatWasMeasured
