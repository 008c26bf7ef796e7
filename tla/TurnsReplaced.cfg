SPECIFICATION Spec
CONSTANTS
    d1 = d1
    d2 = d2
    s1 = s1
    s2 = s2
    s3 = s3
    Decks = {d1}
    Submissions = {s1, s2}
    DeckOf <- MCOneDeck
    None = None
    MaxEvents = 0
CHECK_DEADLOCK FALSE
PROPERTIES
    ReplacementKeepsTurn
