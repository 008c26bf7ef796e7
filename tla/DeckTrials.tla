----------------------------- MODULE DeckTrials -----------------------------
(* A deck as it is edited and tried: DeckSaves, an experiment of the         *)
(* assistant about it, and its goldfish runs. Each has its own abstraction   *)
(* of the document, so they share nothing in the models.                     *)
EXTENDS DeckSaves

CONSTANTS
    Alternatives, Visitors, MaxRevision,
    Lists, Near, Workers, Askers, Page, InOrder, MaxEdits, MaxRuns, MaxPolls, MaxLost,
    MaxRestarts

VARIABLES
    deck, receipts, row, old, stop, worker, request, late,
    stored, runs, asking, pool, busy, screen, view, seen, seq, chain, polls, sent,
    inbox, asked, lost, restarts

experimentVars == <<deck, receipts, row, old, stop, worker, request, late>>
simulationVars == <<stored, runs, asking, pool, busy, screen, view, seen, seq, chain,
                    polls, sent, inbox, asked, lost, restarts>>

\* The page requests of an experiment are its visitors here.
Trials == INSTANCE Experiments WITH Requests <- Visitors
\* The deck the runs read, their requests and the page that follows them.
Goldfish == INSTANCE DeckSimulations WITH
    deck <- stored, request <- asking, page <- screen

-----------------------------------------------------------------------------
\* An adoption lands on the very deck that was measured, and only for an alternative
\* whose measurements finished.
AdoptsWhatWasMeasured == Trials!AdoptsWhatWasMeasured

\* The baseline a run is compared with stays what it was when the run was asked for: an
\* older successful run of a list near enough, whatever edits and runs came between.
PinnedBaselineStands == Goldfish!PinnedBaselineStands
=============================================================================
