--------------------------- MODULE MCResearchTurns ---------------------------
(* Small instances of ResearchTurns.                                        *)
EXTENDS ResearchTurns, TLC

CONSTANTS d1, d2, s1, s2, s3

\* Two decks of the user, so that a turn of one can exclude the other.
MCDeckOf == [s \in Submissions |-> IF s = s3 THEN d2 ELSE d1]
MCOneDeck == [s \in Submissions |-> d1]

\* On one deck the submissions are interchangeable.
Symmetry == Permutations(Submissions)
=============================================================================
