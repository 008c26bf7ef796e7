SPECIFICATION AllSpec
CONSTANTS
    None = None
    Reports = {q1, q2}
    Issues = {i1, i2, i3}
    Servers = {p1, p2}
    Pictured = {q1}
    Daily = 1
    Browsers = {browser1}
    Invites = {invite1}
    Threshold = 1
    Slots = 1
    Ttl = 1
    Hour = 2
    Day = 3
    HourLimit = 2
    DayLimit = 2
    End = 0
    MaxChanges = 3
SYMMETRY Symmetry
CHECK_DEADLOCK FALSE
INVARIANTS
    SessionsKnowPassword
    FiledOnce
PROPERTIES
    OldLinksDie
