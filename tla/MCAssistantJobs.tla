--------------------------- MODULE MCAssistantJobs ---------------------------
(* Small instances of AssistantJobs.                                        *)
EXTENDS AssistantJobs, TLC

\* Identifiers are interchangeable.
Symmetry == Permutations(Decks) \cup Permutations(Jobs) \cup Permutations(Processes)
=============================================================================
