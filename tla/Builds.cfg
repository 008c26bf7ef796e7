SPECIFICATION AllSpec
CONSTANTS
    a = a
    b = b
    c = c
    d = d
    e = e
    f = f
    land = land
    Basic = Basic
    Spells = {a, b, c, d, e, f}
    Lands = {land}
    Price <- SomePrices
    Face <- SomeFaces
    Roles <- SomeRoles
    Packages <- SomePackages
    Target <- SomeTargets
    LandTarget = 1
    LandShare = 3
    AutoLands = {}
    Staples = {a}
    Consensus = {c}
    Corroborated = {c, d}
    Excluded = {}
    OnType = {d, f}
    Floor = 1
    RoleMin <- SomeMinima
    Worths <- SomeWorths
    DeckSize = 5
    Budget = 12
    Reserve = 1
    ReserveCap = 1
    MinGain = 0
    MaxPasses = 2
    MaxUpgrades = 2
    MaxAudits = 3
    MaxTrials = 2
    None = None
    zone = zone
    Printings = {c1, c2}
    Unsorted = Unsorted
    MaxQuantity = 2
    Limit = 2
    MaxRevision = 4
SYMMETRY Symmetry
CHECK_DEADLOCK FALSE

    
    
PROPERTIES
    NeverStarves
