----------------------------- MODULE MCDeckPage -----------------------------
(* Small instances of DeckTrials, in one run: its parts share nothing, so a  *)
(* behaviour is one of a part while the others rest. Saves are checked with  *)
(* two tabs, and with one tab and an adoption; goldfish runs with two        *)
(* workers, with another page of the owner, and with a restart. Of three     *)
(* lists in a row the first and the last are too far apart to be compared.   *)
EXTENDS DeckTrials, TLC

CONSTANTS alone, adopted, l1, l2, l3, OtherPage

VARIABLES part                         \* the component that acts

allVars == <<part, vars, experimentVars, simulationVars>>

SomeNear == {<<x, y>> \in {l1, l2, l3} \X {l1, l2, l3} : {x, y} # {l1, l3}}

Adopted == INSTANCE DeckSaves WITH
    Tabs <- {alone}, Adoptions <- {adopted}
Shared == INSTANCE DeckSimulations WITH
    Workers <- 1, Askers <- {Page, OtherPage}, MaxRuns <- 2,
    deck <- stored, request <- asking, page <- screen
Restarted == INSTANCE DeckSimulations WITH
    Lists <- {l1, l2}, Near <- {l1, l2} \X {l1, l2}, Workers <- 1, MaxRuns <- 2,
    MaxLost <- 1, MaxRestarts <- 1, deck <- stored, request <- asking, page <- screen

ASSUME Constants ==
    /\ SaveConstants
    /\ Adopted!SaveConstants
    /\ Trials!ExperimentsAssumption
    /\ Goldfish!SimulationsAssumption
    /\ Shared!SimulationsAssumption
    /\ Restarted!SimulationsAssumption

AllInit ==
    /\ part \in {"saves", "adoption", "experiment", "simulation", "shared", "restarts"}
    /\ IF part = "adoption" THEN Adopted!Init ELSE Init
    /\ Trials!Init
    /\ CASE part = "shared" -> Shared!Init
         [] part = "restarts" -> Restarted!Init
         [] OTHER -> Goldfish!Init
    /\ part \notin {"simulation", "shared", "restarts"} => stored.list = l1

Saving ==
    \/ part = "saves" /\ Next
    \/ part = "adoption" /\ Adopted!Next

Simulating ==
    \/ part = "simulation" /\ Goldfish!Next
    \/ part = "shared" /\ Shared!Next
    \/ part = "restarts" /\ Restarted!Next

AllNext ==
    \/ Saving /\ UNCHANGED <<part, experimentVars, simulationVars>>
    \/ part = "experiment" /\ Trials!Next /\ UNCHANGED <<part, vars, simulationVars>>
    \/ Simulating /\ UNCHANGED <<part, vars, experimentVars>>

AllSpec == AllInit /\ [][AllNext]_allVars

\* Identifiers are interchangeable.
Symmetry ==
    Permutations(Tabs) \cup Permutations(Edits) \cup Permutations(Visitors)
=============================================================================
