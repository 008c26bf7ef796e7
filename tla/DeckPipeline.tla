---------------------------- MODULE DeckPipeline ----------------------------
(* How a deck is generated: the stages of pipeline/deck_builder.py and         *)
(* pipeline/greedy_optimizer.py over one growing list of slots.  The role      *)
(* packages and the lands come first, then reserved staples, a greedy fill,    *)
(* swap refinement, budget rebalancing (upgrades, the audit of dear cards,     *)
(* downgrades), the repair of the type floor, the review by the language model *)
(* and the legality repair.                                                    *)
(*                                                                             *)
(* A card is its name.  What the properties tell apart of it is constant: its  *)
(* price in dollars, its roles, whether it is of the engine's type, played by  *)
(* real decks, flagged as excluded.  Scores are numbers no property compares,  *)
(* so a choice by score is a choice; the deck objective, which the refinement  *)
(* and the rebalancing are judged by, is an arbitrary function `worth` of the  *)
(* set of spells, fixed for the build.                                         *)
EXTENDS Integers, Sequences, FiniteSets, Functions

CONSTANTS
    Spells,          \* candidates that are not lands
    Lands,           \* candidates that are nonbasic lands
    Basic,           \* any basic land
    Price,           \* dollars: a function on Spells, Lands and Basic
    Face,            \* the name singleton counts ("X // X" is X)
    Roles,           \* the role tags of a spell
    Packages,        \* the role generators, in their order
    Target,          \* how many cards a package asks for
    LandTarget,      \* template.land_count
    LandShare,       \* dollars the template lets the lands cost
    AutoLands,       \* lands taken whatever they cost
    Staples,         \* auto-includes protected from swaps
    Consensus,       \* cards most decks of a reliable corpus play
    Corroborated,    \* cards some decks of the corpus play
    Excluded,        \* cards flagged _anti_engine
    OnType,          \* cards of the type the floor is about
    Floor,           \* the type floor, 0 when there is none
    RoleMin,         \* the minimum of each role that has a target
    Worths,          \* the objectives a build may have: functions of a set of spells
    DeckSize, Budget, Reserve, ReserveCap, MinGain,
    MaxPasses, MaxUpgrades, MaxAudits, MaxTrials

Cards == Spells \cup Lands \cup {Basic}

\* What the constants are assumed to be.
PipelineConstants ==
    /\ Spells \cap (Lands \cup {Basic}) = {} /\ Basic \notin Lands
    /\ AutoLands \subseteq Lands /\ IsFiniteSet(AutoLands)
    /\ Price \in [Cards -> Nat]
    /\ \A w \in DOMAIN Worths : Worths[w] \in [SUBSET Spells -> Int]
    /\ LandTarget \in Nat /\ ReserveCap \in Nat /\ DeckSize \in Nat

VARIABLES
    stage,           \* the stage that runs
    deck,            \* the slots: a sequence of cards
    worth,           \* which of Worths is the deck objective of this build
    guard,           \* _protected_names
    work,            \* the locals of the stage that runs
    vet              \* the review: who was seen, vetoed and put in, what failed

vars == <<stage, deck, worth, guard, work, vet>>

Stages == {"packages", "lands", "reserve", "greedy", "swap", "upgrade", "audit",
           "trial", "downgrade", "floor", "review", "replace", "legality", "done"}

Names(d) == {d[i] : i \in DOMAIN d}
Total(d) == FoldFunction(LAMBDA x, y : x + y, 0, [i \in DOMAIN d |-> Price[d[i]]])
Left == Budget - Total(deck)
Objective(d) == Worths[worth][Names(d) \cap Spells]
Put(d, i, c) == [d EXCEPT ![i] = c]
Count(d, r) == Cardinality({i \in DOMAIN d : d[i] \in Spells /\ r \in Roles[d[i]]})

\* Slots a stage after the fill may touch: no land and nothing protected.
Swappable(d) == {i \in DOMAIN d : d[i] \in Spells \ guard}

\* Cards the optimizer may bring in.
Pool(d) == Spells \ (Excluded \cup Names(d))

Enter(s, w) == stage' = s /\ work' = w

Init ==
    /\ stage = "packages"
    /\ deck = <<>>
    /\ worth \in DOMAIN Worths
    /\ guard = Staples
    /\ work = [n |-> 1, placed |-> 0, spent |-> 0]
    /\ vet = [seen |-> {}, vetoed |-> {}, put |-> {}, failed |-> FALSE, told |-> FALSE]

-----------------------------------------------------------------------------
(* Stage 4: the role packages and the lands.                                   *)

\* A package checks prices only while money is left when it starts.
PackageFits(c) ==
    LET remaining == Left + work.spent
    IN  remaining > 0 => work.spent + Price[c] =< remaining

PlaceInPackage(c) ==
    /\ stage = "packages"
    /\ work.n =< Len(Packages)
    /\ work.placed < Target[Packages[work.n]]
    /\ c \in Pool(deck)
    /\ Packages[work.n] \in Roles[c]
    /\ PackageFits(c)
    /\ deck' = Append(deck, c)
    /\ Enter("packages", [work EXCEPT !.placed = @ + 1, !.spent = @ + Price[c]])
    /\ UNCHANGED <<worth, guard, vet>>

\* A package ends full, or with what its own caps and curve checks let through.
EndPackage ==
    /\ stage = "packages"
    /\ work.n =< Len(Packages)
    /\ Enter("packages", [n |-> work.n + 1, placed |-> 0, spent |-> 0])
    /\ UNCHANGED <<deck, worth, guard, vet>>

\* The lands that are taken unasked, whatever they cost.
PlaceAutoLands ==
    /\ stage = "packages"
    /\ work.n > Len(Packages)
    /\ \E order \in [1 .. Cardinality(AutoLands) -> AutoLands] :
          /\ Names(order) = AutoLands
          /\ deck' = deck \o order
    /\ Enter("lands", [open  |-> LandTarget - Cardinality(AutoLands),
                       share |-> IF Left < LandShare THEN Left ELSE LandShare,
                       spent |-> 0])
    /\ UNCHANGED <<worth, guard, vet>>

\* No land may cost more than what is left of the share, nor a third of it.
PlaceLand(c) ==
    /\ stage = "lands"
    /\ work.open > 0
    /\ c \in Lands \ (Names(deck) \cup AutoLands)
    /\ work.spent + Price[c] =< work.share
    /\ 3 * Price[c] =< work.share
    /\ deck' = Append(deck, c)
    /\ Enter("lands", [work EXCEPT !.open = @ - 1, !.spent = @ + Price[c]])
    /\ UNCHANGED <<worth, guard, vet>>

FillWithBasics ==
    /\ stage = "lands"
    /\ deck' = deck \o [i \in 1 .. (IF work.open > 0 THEN work.open ELSE 0) |-> Basic]
    /\ Enter("reserve", [put |-> <<>>, spent |-> 0])
    /\ UNCHANGED <<worth, guard, vet>>

-----------------------------------------------------------------------------
(* Stage 4.5: the staples of the corpus, against the whole budget.             *)

Reservable ==
    {c \in Consensus \cap Spells :
        /\ c \notin Names(deck) \cup Staples \cup Names(work.put)
        /\ work.spent + Price[c] =< Budget}

ReserveStaple(c) ==
    /\ stage = "reserve"
    /\ Len(work.put) < ReserveCap
    /\ c \in Reservable
    /\ Enter("reserve", [put |-> Append(work.put, c), spent |-> work.spent + Price[c]])
    /\ UNCHANGED <<deck, worth, guard, vet>>

\* The reserved cards take the first slots and are protected from then on.
EndReserve ==
    /\ stage = "reserve"
    /\ Len(work.put) = ReserveCap \/ Reservable = {}
    /\ deck' = work.put \o deck
    /\ guard' = guard \cup Names(work.put)
    /\ Enter("greedy", [open |-> DeckSize - Len(deck')])
    /\ UNCHANGED <<worth, vet>>

-----------------------------------------------------------------------------
(* Stages 5 and 6: the greedy fill.                                            *)

SlipAffordable == {c \in Pool(deck) : Price[c] =< Left}

\* Affordable: every slot after this one keeps its reserve.
Affordable == {c \in Pool(deck) : Price[c] =< Left - (work.open - 1) * Reserve}

Cheapest ==
    LET within == {c \in Pool(deck) : Price[c] =< Left}
    IN  {c \in within : \A o \in within : Price[c] =< Price[o]}

\* The best card the reserve allows or, when it allows none, the cheapest card
\* the money left pays for.
GreedyChoices == IF Affordable # {} THEN Affordable
                 ELSE IF Left > 0 THEN Cheapest ELSE {}

GreedyPick(c) ==
    /\ stage = "greedy"
    /\ work.open > 0
    /\ c \in GreedyChoices
    /\ deck' = Append(deck, c)
    /\ Enter("greedy", [open |-> work.open - 1])
    /\ UNCHANGED <<worth, guard, vet>>

SwapPass(n, bench) == [pass |-> n, slot |-> 1, base |-> Objective(deck),
                       improved |-> FALSE, bench |-> bench]

GreedyStops ==
    /\ stage = "greedy"
    /\ work.open =< 0 \/ GreedyChoices = {}
    /\ Enter("swap", SwapPass(1, Pool(deck)))
    /\ UNCHANGED <<deck, worth, guard, vet>>

-----------------------------------------------------------------------------
(* Swap refinement.                                                            *)

\* A card may leave when no role it plays is at its minimum.
Removable(i) ==
    /\ i \in Swappable(deck)
    /\ \A r \in Roles[deck[i]] \cap DOMAIN RoleMin : Count(deck, r) > RoleMin[r]

SlipBetter(i) ==
    {c \in work.bench \ Names(deck) :
        /\ Total(Put(deck, i, c)) =< Budget
        /\ Objective(Put(deck, i, c)) > 0}

\* The objective a swap must beat is the one the pass began with.
Better(i) ==
    {c \in work.bench \ Names(deck) :
        /\ Total(Put(deck, i, c)) =< Budget
        /\ Objective(Put(deck, i, c)) > work.base}

BestOf(i, S) == {c \in S : \A o \in S : Objective(Put(deck, i, o)) =< Objective(Put(deck, i, c))}

SwapSlot ==
    /\ stage = "swap"
    /\ work.slot =< Len(deck)
    /\ Removable(work.slot)
    /\ \E c \in BestOf(work.slot, Better(work.slot)) : deck' = Put(deck, work.slot, c)
    /\ Enter("swap", [work EXCEPT !.slot = @ + 1, !.improved = TRUE])
    /\ UNCHANGED <<worth, guard, vet>>

KeepSlot ==
    /\ stage = "swap"
    /\ work.slot =< Len(deck)
    /\ Removable(work.slot) => Better(work.slot) = {}
    /\ Enter("swap", [work EXCEPT !.slot = @ + 1])
    /\ UNCHANGED <<deck, worth, guard, vet>>

NextPass ==
    /\ stage = "swap"
    /\ work.slot > Len(deck)
    /\ work.improved
    /\ work.pass < MaxPasses
    /\ Enter("swap", SwapPass(work.pass + 1, work.bench))
    /\ UNCHANGED <<deck, worth, guard, vet>>

EndSwaps ==
    /\ stage = "swap"
    /\ work.slot > Len(deck)
    /\ ~work.improved \/ work.pass >= MaxPasses
    /\ Enter("upgrade", [moves |-> 0, left |-> Left])
    /\ UNCHANGED <<deck, worth, guard, vet>>

-----------------------------------------------------------------------------
(* Budget rebalancing.  A move is a slot and the card that replaces its card.  *)

Moves(d) == {[slot |-> i, card |-> c] : i \in Swappable(d), c \in Pool(d)}
Moved(d, m) == Put(d, m.slot, m.card)
Cost(d, m) == Price[m.card] - Price[d[m.slot]]
Best(d, S) == {m \in S : \A o \in S : Objective(Moved(d, o)) =< Objective(Moved(d, m))}

\* The one-for-one upgrades that pay and that `left` pays for.
Upgrades(d, left) ==
    {m \in Moves(d) : /\ Cost(d, m) =< left
                      /\ Objective(Moved(d, m)) - Objective(d) > MinGain}

CanUpgrade == /\ work.moves < MaxUpgrades
              /\ work.left > 0
              /\ Upgrades(deck, work.left) # {}

Upgrade ==
    /\ stage = "upgrade"
    /\ CanUpgrade
    /\ \E m \in Best(deck, Upgrades(deck, work.left)) :
          /\ deck' = Moved(deck, m)
          /\ Enter("upgrade", [moves |-> work.moves + 1,
                               left  |-> work.left - Cost(deck, m)])
    /\ UNCHANGED <<worth, guard, vet>>

\* The dearest slots are listed once, with the cards they hold then.
StartAudit ==
    /\ stage = "upgrade"
    /\ ~CanUpgrade
    /\ \E S \in SUBSET Swappable(deck) :
          /\ \/ Cardinality(S) = MaxAudits
             \/ S = Swappable(deck) /\ Cardinality(S) =< MaxAudits
          /\ \A i \in S, j \in Swappable(deck) \ S : Price[deck[j]] =< Price[deck[i]]
          /\ Enter("audit", [todo |-> {[slot |-> i, card |-> deck[i]] : i \in S},
                             left |-> work.left])
    /\ UNCHANGED <<deck, worth, guard, vet>>

Dearest == {e \in work.todo : \A o \in work.todo : Price[o.card] =< Price[e.card]}

\* What may stand in for a dear card: at most a dollar and a quarter of its price.
Substitutes(e) ==
    {m \in [slot : {e.slot}, card : Pool(deck)] :
        Price[m.card] =< 1 /\ 4 * Price[m.card] =< Price[e.card]}

SkipAudit(e) ==
    /\ stage = "audit"
    /\ e \in Dearest
    /\ Price[e.card] > 1
    /\ Substitutes(e) = {}
    /\ Enter("audit", [work EXCEPT !.todo = @ \ {e}])
    /\ UNCHANGED <<deck, worth, guard, vet>>

\* The money freed is the price of the card the list remembers.
OpenTrial(e) ==
    /\ stage = "audit"
    /\ e \in Dearest
    /\ Price[e.card] > 1
    /\ \E m \in Best(deck, Substitutes(e)) :
          Enter("trial", [todo  |-> work.todo \ {e},
                          left  |-> work.left,
                          deck  |-> Moved(deck, m),
                          money |-> work.left + Price[e.card] - Price[m.card],
                          lost  |-> Objective(deck) - Objective(Moved(deck, m)),
                          gain  |-> 0,
                          moves |-> 0])
    /\ UNCHANGED <<deck, worth, guard, vet>>

CanSpend == /\ work.moves < MaxTrials
            /\ Upgrades(work.deck, work.money) # {}

SpendFreed ==
    /\ stage = "trial"
    /\ CanSpend
    /\ \E m \in Best(work.deck, Upgrades(work.deck, work.money)) :
          Enter("trial", [work EXCEPT
              !.deck  = Moved(@, m),
              !.money = @ - Cost(work.deck, m),
              !.gain  = @ + Objective(Moved(work.deck, m)) - Objective(work.deck),
              !.moves = @ + 1])
    /\ UNCHANGED <<deck, worth, guard, vet>>

\* Splitting the money pays: the trial becomes the deck.
Unbundle ==
    /\ stage = "trial"
    /\ ~CanSpend
    /\ work.gain > work.lost + MinGain
    /\ deck' = work.deck
    /\ Enter("audit", [todo |-> work.todo, left |-> work.money])
    /\ UNCHANGED <<worth, guard, vet>>

KeepDear ==
    /\ stage = "trial"
    /\ ~CanSpend
    /\ work.gain =< work.lost + MinGain
    /\ Enter("audit", [todo |-> work.todo, left |-> work.left])
    /\ UNCHANGED <<deck, worth, guard, vet>>

EndAudit ==
    /\ stage = "audit"
    /\ \A e \in Dearest : Price[e.card] =< 1
    /\ Enter("downgrade", [begun |-> TRUE])
    /\ UNCHANGED <<deck, worth, guard, vet>>

Savings == {m \in Moves(deck) : Cost(deck, m) < 0}

Downgrade ==
    /\ stage = "downgrade"
    /\ Total(deck) > Budget
    /\ \E m \in Best(deck, Savings) : deck' = Moved(deck, m)
    /\ UNCHANGED <<stage, worth, guard, work, vet>>

\* The types' floor begins with the candidates of the type that are not placed.
EndDowngrade ==
    /\ stage = "downgrade"
    /\ Total(deck) =< Budget \/ Savings = {}
    /\ Enter("floor", [pool |-> Pool(deck) \cap OnType])
    /\ UNCHANGED <<deck, worth, guard, vet>>

-----------------------------------------------------------------------------
(* The type floor.                                                             *)

OffType == {i \in Swappable(deck) : deck[i] \notin OnType}
OnTypeCount == Cardinality({i \in DOMAIN deck : deck[i] \in OnType})
FloorOpen == OnTypeCount < Floor /\ OffType # {} /\ work.pool # {}

RaiseFloor(c, i) ==
    /\ stage = "floor"
    /\ FloorOpen
    /\ c \in work.pool
    /\ i \in OffType
    /\ Price[c] - Price[deck[i]] =< Left
    /\ deck' = Put(deck, i, c)
    /\ Enter("floor", [pool |-> work.pool \ {c}])
    /\ UNCHANGED <<worth, guard, vet>>

TooDear(c, i) ==
    /\ stage = "floor"
    /\ FloorOpen
    /\ c \in work.pool
    /\ i \in OffType
    /\ Price[c] - Price[deck[i]] > Left
    /\ Enter("floor", [pool |-> work.pool \ {c}])
    /\ UNCHANGED <<deck, worth, guard, vet>>

EndFloor ==
    /\ stage = "floor"
    /\ ~FloorOpen
    /\ Enter("review", [round |-> 1, docket |-> Swappable(deck)])
    /\ UNCHANGED <<deck, worth, guard, vet>>

-----------------------------------------------------------------------------
(* The review.                                                                 *)

ToLegality == Enter("legality", [begun |-> TRUE])

\* One call scores the docket; it answers with the slots it rejects.
Review(rejected) ==
    /\ stage = "review"
    /\ work.docket # {}
    /\ rejected \in SUBSET work.docket
    /\ vet' = [vet EXCEPT !.seen = @ \cup {deck[i] : i \in work.docket}]
    /\ Enter("replace", [round |-> work.round, rejected |-> rejected, swapped |-> {}])
    /\ UNCHANGED <<deck, worth, guard>>

\* The call fails: the review's own handler logs it and the deck goes on.
ReviewFails ==
    /\ stage = "review"
    /\ work.docket # {}
    /\ vet' = [vet EXCEPT !.failed = TRUE]
    /\ ToLegality
    /\ UNCHANGED <<deck, worth, guard>>

\* An error before the call, in the summary of the profile, reaches the caller.
ReviewCrashes ==
    /\ stage = "review"
    /\ work.docket # {}
    /\ work.round = 1
    /\ vet' = [vet EXCEPT !.failed = TRUE, !.told = TRUE]
    /\ ToLegality
    /\ UNCHANGED <<deck, worth, guard>>

NothingToReview ==
    /\ stage = "review"
    /\ work.docket = {}
    /\ ToLegality
    /\ UNCHANGED <<deck, worth, guard, vet>>

\* Cards real decks play come first, and alone in the second round; a card this
\* review vetoed never comes back.
Replacements(i) ==
    LET spare == IF Left > 0 THEN Left ELSE 0
        fits == {c \in Pool(deck) \ vet.vetoed : Price[c] =< Price[deck[i]] + spare}
        played == fits \cap Corroborated
    IN  IF played # {} \/ work.round = 2 THEN played ELSE fits

Replace(i, c) ==
    /\ stage = "replace"
    /\ i \in work.rejected
    /\ c \in Replacements(i)
    /\ deck' = Put(deck, i, c)
    /\ vet' = [vet EXCEPT !.vetoed = @ \cup {deck[i]}, !.put = @ \cup {c}]
    /\ Enter("replace", [work EXCEPT !.rejected = @ \ {i}, !.swapped = @ \cup {i}])
    /\ UNCHANGED <<worth, guard>>

LeaveRejected(i) ==
    /\ stage = "replace"
    /\ i \in work.rejected
    /\ Replacements(i) = {}
    /\ Enter("replace", [work EXCEPT !.rejected = @ \ {i}])
    /\ UNCHANGED <<deck, worth, guard, vet>>

\* The cards the first round put in are reviewed once; nothing after that is.
EndRound ==
    /\ stage = "replace"
    /\ work.rejected = {}
    /\ IF work.round = 1 THEN Enter("review", [round |-> 2, docket |-> work.swapped])
       ELSE ToLegality
    /\ UNCHANGED <<deck, worth, guard, vet>>

-----------------------------------------------------------------------------
(* Stage 7b: legality.                                                         *)

\* Every basic land stays, and one slot of every other name.
OnePerName(kept) ==
    /\ \A i \in DOMAIN deck : deck[i] = Basic => i \in kept
    /\ \A i \in DOMAIN deck : deck[i] # Basic =>
          Cardinality({j \in kept : Face[deck[j]] = Face[deck[i]]}) = 1

\* The order of the trim: basics, other spells, other lands, protected cards.
TrimRank(c) == CASE c = Basic -> 0
                 [] c # Basic /\ c \in guard -> 3
                 [] c \in Spells \ guard -> 1
                 [] OTHER -> 2

Trimmed(kept, stay) ==
    /\ stay \subseteq kept
    /\ \/ stay = kept /\ Cardinality(kept) =< DeckSize
       \/ Cardinality(stay) = DeckSize
    /\ \A i \in kept \ stay, j \in stay : TrimRank(deck[i]) =< TrimRank(deck[j])

Listed(S) == CHOOSE q \in [1 .. Cardinality(S) -> S] :
                \A i, j \in DOMAIN q : i < j => q[i] < q[j]

EnforceLegality ==
    /\ stage = "legality"
    /\ \E kept \in SUBSET DOMAIN deck : \E stay \in SUBSET kept :
          /\ OnePerName(kept)
          /\ Trimmed(kept, stay)
          /\ deck' = [i \in 1 .. Cardinality(stay) |-> deck[Listed(stay)[i]]]
                        \o [i \in 1 .. DeckSize - Cardinality(stay) |-> Basic]
    /\ Enter("done", [begun |-> TRUE])
    /\ UNCHANGED <<worth, guard, vet>>

-----------------------------------------------------------------------------
Fill == \/ \E c \in Spells : PlaceInPackage(c) \/ ReserveStaple(c) \/ GreedyPick(c)
        \/ \E c \in Lands : PlaceLand(c)
        \/ EndPackage \/ PlaceAutoLands \/ FillWithBasics \/ EndReserve \/ GreedyStops

Refine == SwapSlot \/ KeepSlot \/ NextPass \/ EndSwaps

Audited == stage = "audit" /\ \E e \in work.todo : SkipAudit(e) \/ OpenTrial(e)

Rebalance == \/ Upgrade \/ StartAudit \/ SpendFreed \/ Unbundle \/ KeepDear
             \/ EndAudit \/ Downgrade \/ EndDowngrade \/ Audited

Repair == \/ \E c \in Spells, i \in DOMAIN deck : RaiseFloor(c, i) \/ TooDear(c, i)
          \/ EndFloor \/ EnforceLegality

ReviewDeck == \/ \E rejected \in SUBSET DOMAIN deck : Review(rejected)
              \/ \E i \in DOMAIN deck, c \in Spells : Replace(i, c)
              \/ \E i \in DOMAIN deck : LeaveRejected(i)
              \/ ReviewFails \/ ReviewCrashes \/ NothingToReview \/ EndRound

Next == Fill \/ Refine \/ Rebalance \/ Repair \/ ReviewDeck

\* A build is one call: it runs until it returns.
Spec == Init /\ [][Next]_vars /\ WF_vars(Next)
-----------------------------------------------------------------------------
(* Properties.                                                                 *)

\* The slots hold cards, each spell at most once, and the stage is one of the
\* pipeline's.
TypeOK ==
    /\ stage \in Stages
    /\ deck \in Seq(Cards)
    /\ \A i, j \in DOMAIN deck : i # j /\ deck[i] \in Spells => deck[i] # deck[j]
    /\ worth \in DOMAIN Worths
    /\ guard \subseteq Staples \cup Consensus
    /\ vet.seen \cup vet.vetoed \cup vet.put \subseteq Spells

\* A pass of the swap refinement never leaves the deck worse than it found it.
PassesPay == stage = "swap" => Objective(deck) >= work.base

\* A fill that can pay a reserve for every open slot, and finds a card at that
\* price for each, fills every slot: no dear pick on the way starves the rest.
CanFill == /\ Left >= work.open * Reserve
           /\ Cardinality({c \in Pool(deck) : Price[c] =< Reserve}) >= work.open
NeverStarves ==
    [][stage = "greedy" /\ CanFill =>
          IF stage' = "greedy" THEN CanFill' ELSE work.open =< 0]_vars

=============================================================================
