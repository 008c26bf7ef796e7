------------------------------ MODULE MCBuilds ------------------------------
(* Small instances of DeckPipeline and DeckHistory, how decks are built and  *)
(* how a page undoes changes, in one run: they share nothing, so a behaviour *)
(* is one of an instance while the other module rests. Decks of five slots   *)
(* are built from six cards, under six objectives and with a reserved card   *)
(* that the budget pays or one that breaks it. Histories are of one page     *)
(* and of one that another page interferes with.                             *)
EXTENDS DeckPipeline, TLC

CONSTANTS a, b, c, d, e, f, land, zone, Printings, Unsorted, MaxQuantity, Limit,
          MaxRevision, None

VARIABLES
    part,                              \* the component that acts
    server, shown, baseline, queue, failed, undo, redo, foreign, base, told, missed

historyVars == <<server, shown, baseline, queue, failed, undo, redo, foreign, base,
                 told, missed>>
allVars == <<part, vars, historyVars>>

\* a and b make mana, c and d draw, d and e are variants of one card; a pair of cards
\* is worth more than its parts.
SomePrices == a :> 2 @@ b :> 1 @@ c :> 4 @@ d :> 1 @@ e :> 1 @@ f :> 8 @@ land :> 1 @@ Basic :> 0
SomeFaces == [x \in {a, b, c, d, e, f, land, Basic} |-> IF x = e THEN d ELSE x]
SomeRoles == [x \in {a, b, c, d, e, f} |->
                IF x \in {a, b} THEN {"ramp"} ELSE IF x \in {c, d} THEN {"draw"} ELSE {}]
SomePackages == <<"ramp", "draw">>
SomeTargets == "ramp" :> 1 @@ "draw" :> 1
SomeMinima == "ramp" :> 1
SomeWorths ==
    [k \in {0, 1} \X {{a, f}, {b, c}, {d, f}} |->
        [S \in SUBSET {a, b, c, d, e, f} |->
            k[1] * Cardinality(S \cap {b, f}) + (IF k[2] \subseteq S THEN 2 ELSE 0)]]

\* The reserved card breaks the budget.
Short == INSTANCE DeckPipeline WITH Consensus <- {f}
History == INSTANCE DeckHistory WITH
    Cards <- Printings, Zones <- {Unsorted, zone}, Habits <- {"controls", "offline"}, MaxForeign <- 0
Shared == INSTANCE DeckHistory WITH
    Cards <- Printings, Zones <- {Unsorted, zone}, Habits <- {"offline"}, MaxRevision <- 3, MaxForeign <- 1

ASSUME Constants ==
    /\ PipelineConstants
    /\ Short!PipelineConstants
    /\ History!HistoryConstants
    /\ Shared!HistoryConstants

AllInit ==
    /\ part \in {"build", "short", "history", "shared"}
    /\ IF part = "short" THEN Short!Init ELSE Init
    /\ part \notin {"build", "short"} => worth = <<0, {a, f}>>
    /\ IF part = "shared" THEN Shared!Init ELSE History!Init

AllNext ==
    \/ part = "build" /\ Next /\ UNCHANGED <<part, historyVars>>
    \/ part = "short" /\ Short!Next /\ UNCHANGED <<part, historyVars>>
    \/ part = "history" /\ History!Next /\ UNCHANGED <<part, vars>>
    \/ part = "shared" /\ Shared!Next /\ UNCHANGED <<part, vars>>

AllSpec == AllInit /\ [][AllNext]_allVars

\* Identifiers are interchangeable.
Symmetry == Permutations(Printings)

-----------------------------------------------------------------------------
\* What the Undo button takes back leaves what the change found, and what the Redo
\* button repeats what it had made.
UndoRestores == History!UndoRestores
=============================================================================
