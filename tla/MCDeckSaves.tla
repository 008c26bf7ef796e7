----------------------------- MODULE MCDeckSaves -----------------------------
(* Small instances of DeckSaves.                                            *)
EXTENDS DeckSaves, TLC

Symmetry == Permutations(Tabs) \cup Permutations(Edits)
=============================================================================
