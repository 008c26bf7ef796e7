---------------------------- MODULE SnapshotTurns ----------------------------
(* A research turn, and the default snapshot that its tools read: ResearchLoop *)
(* and ResearchCache. The turn takes what a tool answers as a choice, so the  *)
(* two share no state.                                                       *)
EXTENDS ResearchCache

CONSTANTS
    MaxModelCalls, MaxToolCalls, MaxBatch, ToolIterations, TurnSeconds, Moments, Modes

VARIABLES
    turn, result, outside, iterations, failure

loopVars == <<turn, result, outside, iterations, failure>>

Loop == INSTANCE ResearchLoop WITH world <- outside

-----------------------------------------------------------------------------
\* A turn is done only with an answer that nothing found short: its counts, lists,
\* measurements and notes are there, and it does not stand in for one the checker
\* rejected.
DoneIsWhole == Loop!DoneIsWhole

\* Every call to the model, every tool, package and check begins in a turn
\* that nobody stopped, within its time, on the deck it is about.
WorkIsCurrent == Loop!WorkIsCurrent
=============================================================================
