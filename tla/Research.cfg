SPECIFICATION AllFair
CONSTANTS
    d1 = d1
    d2 = d2
    s1 = s1
    s2 = s2
    Decks = {d1, d2}
    Submissions = {s1, s2}
    DeckOf <- OneDeck
    MaxEvents = 2
    Workers = {w1}
    Blockers = {b1}
    None = None
    StaleLimit = 1
    DayLength = 2
    MaxFailures = 1
    MaxMisses = 2
    MaxTime = 2
CHECK_DEADLOCK FALSE
INVARIANTS
    
    OneLateCall
PROPERTIES
    KeepsLedger
    
    PageBecomesFresh
