------------------------- MODULE DeckPipeline_proofs -------------------------
(***************************************************************************)
(* Proofs about DeckPipeline, for every value of its constants that        *)
(* PipelineConstants admits: any pool, prices, roles, objectives, budget   *)
(* and deck size.                                                          *)
(***************************************************************************)
EXTENDS DeckPipeline, FiniteSetTheorems, SequenceTheorems, WellFoundedInduction, TLAPS

\* No two slots hold one spell.
Single(d) == \A i, j \in DOMAIN d : i # j /\ d[i] \in Spells => d[i] # d[j]
Decks == {d \in Seq(Cards) : Single(d)}
SpellSlots(d) == {i \in DOMAIN d : d[i] \in Spells}
Vets == [seen : SUBSET Spells, vetoed : SUBSET Spells, put : SUBSET Spells,
         failed : BOOLEAN, told : BOOLEAN]

\* What the locals of each stage keep for it: what they would bring in is no second copy.
WorkFits(s, d, w) ==
    /\ s = "lands" => w \in [open : Int, share : {w.share}, spent : {w.spent}]
    /\ s = "reserve" => /\ w.put \in Seq(Spells \cap Consensus) /\ Single(w.put)
                        /\ Names(w.put) \cap Names(d) = {}
    /\ s = "swap" => /\ w \in [pass : {w.pass}, slot : {w.slot}, base : Int,
                               improved : {w.improved}, bench : SUBSET Spells]
                     /\ Objective(d) >= w.base
    /\ s = "trial" => w \in [todo : {w.todo}, left : {w.left}, deck : Decks, money : {w.money},
                             lost : {w.lost}, gain : {w.gain}, moves : {w.moves}]
    /\ s = "floor" => w.pool \subseteq Spells /\ w.pool \cap Names(d) = {}
    /\ s = "review" => w.docket \subseteq SpellSlots(d)
    /\ s = "replace" => w \in [round : {w.round}, rejected : SUBSET SpellSlots(d),
                               swapped : SUBSET SpellSlots(d)]

PipelineInvariant ==
    /\ stage \in Stages /\ deck \in Decks /\ worth \in DOMAIN Worths
    /\ guard \subseteq Staples \cup Consensus /\ vet \in Vets
    /\ WorkFits(stage, deck, work)

\* What a step has to show of the deck and the locals it leaves.
LEMMA PipelineLeaves ==
  ASSUME PipelineInvariant, NEW s \in Stages, NEW d \in Decks, NEW w,
         stage' = s, deck' = d, work' = w, worth' = worth,
         guard' \subseteq Staples \cup Consensus, vet' \in Vets,
         WorkFits(s, d, w), worth' = worth
  PROVE  PipelineInvariant'
<1>1. WorkFits(s, d, w)'
  BY DEF WorkFits, Objective
<1> QED
  BY <1>1 DEF PipelineInvariant, WorkFits, Objective

-----------------------------------------------------------------------------
(* The operations on slots                                                  *)

LEMMA CardsFacts ==
  ASSUME NEW d \in Decks
  PROVE  /\ d \in Seq(Cards) /\ Single(d) /\ DOMAIN d = 1 .. Len(d) /\ Len(d) \in Nat
         /\ \A i \in DOMAIN d : d[i] \in Cards
         /\ \A c : c \in Names(d) <=> \E i \in DOMAIN d : c = d[i]
BY DEF Decks, Names

\* A card that is not there may take any slot.
LEMMA PutKeeps ==
  ASSUME NEW d \in Decks, NEW i, NEW c \in Cards, c \notin Names(d) \/ c \notin Spells
  PROVE  /\ Put(d, i, c) \in Decks /\ DOMAIN Put(d, i, c) = DOMAIN d
         /\ Names(Put(d, i, c)) \subseteq Names(d) \cup {c}
         /\ c \in Spells => SpellSlots(d) \subseteq SpellSlots(Put(d, i, c))
<1> DEFINE e == Put(d, i, c)
<1>1. DOMAIN e = DOMAIN d /\ \A j \in DOMAIN d : e[j] = IF j = i THEN c ELSE d[j]
  BY DEF Put
<1>2. e \in Seq(Cards)
  <2>1. d \in Seq(Cards) /\ DOMAIN d = 1 .. Len(d)
    BY CardsFacts
  <2>2. CASE i \in 1 .. Len(d)
    BY <2>1, <2>2, ExceptSeq DEF Put
  <2>3. CASE i \notin 1 .. Len(d)
    <3>1. e = d
      BY <2>1, <2>3 DEF Put
    <3> QED
      BY <2>1, <3>1
  <2> QED
    BY <2>2, <2>3
<1>3. \A j \in DOMAIN d : d[j] \in Names(d)
  BY DEF Names
<1> HIDE DEF e
<1>4. Single(e)
  <2> SUFFICES ASSUME NEW j \in DOMAIN e, NEW k \in DOMAIN e, j # k, e[j] \in Spells
               PROVE  e[j] # e[k]
    BY DEF Single
  <2>1. j \in DOMAIN d /\ k \in DOMAIN d
    BY <1>1
  <2>2. CASE j = i
    BY <1>1, <1>3, <2>1, <2>2
  <2>3. CASE k = i
    BY <1>1, <1>3, <2>1, <2>3
  <2>4. CASE j # i /\ k # i
    BY <1>1, <2>1, <2>4, CardsFacts DEF Single
  <2> QED
    BY <2>2, <2>3, <2>4
<1>5. Names(e) \subseteq Names(d) \cup {c}
  BY <1>1, <1>3 DEF Names
<1>6. c \in Spells => SpellSlots(d) \subseteq SpellSlots(e)
  BY <1>1 DEF SpellSlots
<1> QED
  BY <1>1, <1>2, <1>4, <1>5, <1>6 DEF Decks, e

\* A card that is not there may take a new slot.
LEMMA AppendKeeps ==
  ASSUME NEW d \in Decks, NEW c \in Cards, c \notin Names(d) \/ c \notin Spells
  PROVE  Append(d, c) \in Decks
<1>1. d \in Seq(Cards) /\ DOMAIN d = 1 .. Len(d) /\ Len(d) \in Nat
  BY CardsFacts
<1>2. Append(d, c) \in Seq(Cards)
  BY <1>1
<1>3. /\ DOMAIN Append(d, c) = 1 .. Len(d) + 1
      /\ \A i \in 1 .. Len(d) + 1 : Append(d, c)[i] = IF i = Len(d) + 1 THEN c ELSE d[i]
  BY <1>1, AppendProperties
<1>4. \A j \in DOMAIN d : d[j] \in Names(d)
  BY DEF Names
<1>5. Single(Append(d, c))
  <2> SUFFICES ASSUME NEW j \in DOMAIN Append(d, c), NEW k \in DOMAIN Append(d, c), j # k,
                      Append(d, c)[j] \in Spells
               PROVE  Append(d, c)[j] # Append(d, c)[k]
    BY DEF Single
  <2>1. j \in 1 .. Len(d) + 1 /\ k \in 1 .. Len(d) + 1
    BY <1>3
  <2>2. /\ j # Len(d) + 1 => j \in DOMAIN d
        /\ k # Len(d) + 1 => k \in DOMAIN d
    BY <1>1, <2>1
  <2>3. CASE j = Len(d) + 1
    BY <1>3, <1>4, <2>1, <2>2, <2>3
  <2>4. CASE k = Len(d) + 1
    BY <1>3, <1>4, <2>1, <2>2, <2>4
  <2>5. CASE j # Len(d) + 1 /\ k # Len(d) + 1
    BY <1>3, <2>1, <2>2, <2>5, CardsFacts DEF Single
  <2> QED
    BY <2>3, <2>4, <2>5
<1> QED
  BY <1>2, <1>5 DEF Decks

\* Two lists of slots with no spell in common may be joined.
LEMMA JoinKeeps ==
  ASSUME NEW d \in Decks, NEW e \in Decks, Names(d) \cap Names(e) \cap Spells = {}
  PROVE  d \o e \in Decks
<1>1. /\ d \in Seq(Cards) /\ DOMAIN d = 1 .. Len(d) /\ Len(d) \in Nat
      /\ e \in Seq(Cards) /\ DOMAIN e = 1 .. Len(e) /\ Len(e) \in Nat
  BY CardsFacts
<1>2. /\ d \o e \in Seq(Cards) /\ DOMAIN (d \o e) = 1 .. Len(d) + Len(e)
      /\ \A i \in 1 .. Len(d) + Len(e) :
           (d \o e)[i] = IF i <= Len(d) THEN d[i] ELSE e[i - Len(d)]
  BY <1>1, ConcatProperties
<1>3. /\ \A j \in DOMAIN d : d[j] \in Names(d)
      /\ \A j \in DOMAIN e : e[j] \in Names(e)
  BY DEF Names
<1>4. ASSUME NEW j \in DOMAIN (d \o e), NEW k \in DOMAIN (d \o e), j # k,
             (d \o e)[j] \in Spells
      PROVE  (d \o e)[j] # (d \o e)[k]
  <2>1. j \in 1 .. Len(d) + Len(e) /\ k \in 1 .. Len(d) + Len(e)
    BY <1>2
  <2>2. /\ j <= Len(d) => j \in DOMAIN d
        /\ k <= Len(d) => k \in DOMAIN d
        /\ ~(j <= Len(d)) => j - Len(d) \in DOMAIN e
        /\ ~(k <= Len(d)) => k - Len(d) \in DOMAIN e
        /\ j - Len(d) # k - Len(d)
    BY <1>1, <1>4, <2>1
  <2>3. CASE j <= Len(d) /\ k <= Len(d)
    BY <1>2, <1>4, <2>1, <2>2, <2>3, CardsFacts DEF Single
  <2>4. CASE j <= Len(d) /\ ~(k <= Len(d))
    BY <1>2, <1>3, <1>4, <2>1, <2>2, <2>4
  <2>5. CASE ~(j <= Len(d)) /\ k <= Len(d)
    BY <1>2, <1>3, <1>4, <2>1, <2>2, <2>5
  <2>6. CASE ~(j <= Len(d)) /\ ~(k <= Len(d))
    BY <1>2, <1>4, <2>1, <2>2, <2>6, CardsFacts DEF Single
  <2> QED
    BY <2>3, <2>4, <2>5, <2>6
<1> QED
  BY <1>2, <1>4 DEF Decks, Single

\* Slots without a spell.
LEMMA PlainDeck ==
  ASSUME NEW d \in Seq(Cards), \A i \in DOMAIN d : d[i] \notin Spells
  PROVE  d \in Decks /\ Names(d) \cap Spells = {}
BY DEF Decks, Single, Names

\* A set of slots has an order.
LEMMA Orders ==
  ASSUME NEW n \in Nat, NEW S \in SUBSET (1 .. n)
  PROVE  \E q \in [1 .. Cardinality(S) -> S] : \A i, j \in DOMAIN q : i < j => q[i] < q[j]
<1> DEFINE Ordered(T) == \E q \in [1 .. Cardinality(T) -> T] :
                            \A i, j \in 1 .. Cardinality(T) : i < j => q[i] < q[j]
           Bad == {m \in Nat : \E T \in SUBSET (1 .. m) : ~Ordered(T)}
           Below == {p \in Nat \X Nat : p[1] < p[2]}
<1>1. IsWellFoundedOn(Below, Nat)
  BY NatLessThanWellFounded DEF OpToRel
<1>2. \A a \in Nat, b \in Nat : a < b => <<a, b>> \in Below
  OBVIOUS
<1>3. \A m \in Nat : \A T \in SUBSET (1 .. m) : IsFiniteSet(T) /\ Cardinality(T) \in Nat
  <2> SUFFICES ASSUME NEW m \in Nat, NEW T \in SUBSET (1 .. m)
               PROVE  IsFiniteSet(T) /\ Cardinality(T) \in Nat
    OBVIOUS
  <2>1. IsFiniteSet(1 .. m)
    <3>1. 1 \in Int /\ m \in Int
      OBVIOUS
    <3> QED
      BY <3>1, FS_Interval
  <2>2. IsFiniteSet(T)
    BY <2>1, FS_Subset
  <2> QED
    BY <2>2, FS_CardinalityType
<1> HIDE DEF Below
<1>4. Bad = {}
  <2> SUFFICES ASSUME Bad # {} PROVE FALSE
    OBVIOUS
  <2>1. Bad \subseteq Nat
    OBVIOUS
  <2> HIDE DEF Bad
  <2>2. \E m \in Bad : \A k \in Bad : <<k, m>> \notin Below
    BY <1>1, <2>1, WFMin
  <2>3. PICK m \in Bad : \A k \in Bad : ~(k < m)
    BY <1>2, <2>1, <2>2
  <2>4. m \in Nat
    BY <2>1
  <2>5. PICK T \in SUBSET (1 .. m) : ~Ordered(T)
    BY DEF Bad
  <2>6. \A k \in Nat : k < m => \A U \in SUBSET (1 .. k) : Ordered(U)
    BY <2>3 DEF Bad
  <2>7. CASE m = 0
    <3>1. T = {}
      BY <2>7
    <3>9. Cardinality(T) = 0
      BY <3>1, FS_EmptySet
    <3>2. [i \in 1 .. 0 |-> i] \in [1 .. Cardinality(T) -> T]
      BY <3>9
    <3> QED
      BY <2>5, <3>9, <3>2
  <2>8. CASE m # 0 /\ m \notin T
    <3>1. m - 1 \in Nat /\ m - 1 < m /\ T \in SUBSET (1 .. m - 1)
      BY <2>4, <2>8
    <3> QED
      BY <2>5, <2>6, <3>1
  <2>9. CASE m # 0 /\ m \in T
    <3> DEFINE U == T \ {m}
               n1 == Cardinality(U)
    <3>1. m - 1 \in Nat /\ m - 1 < m /\ U \in SUBSET (1 .. m - 1)
      BY <2>4, <2>9
    <3>2. Ordered(U)
      BY <2>6, <3>1
    <3>3. n1 \in Nat /\ IsFiniteSet(U)
      BY <1>3, <3>1
    <3>4. Cardinality(T) = n1 + 1
      <4>1. T = U \cup {m} /\ m \notin U
        BY <2>9
      <4> HIDE DEF U
      <4> QED
        BY <3>3, <4>1, FS_AddElement
    <3>5. PICK q \in [1 .. n1 -> U] : \A i, j \in 1 .. n1 : i < j => q[i] < q[j]
      BY <3>2
    <3>6. \A i \in 1 .. n1 : q[i] \in T /\ q[i] < m
      <4> SUFFICES ASSUME NEW i \in 1 .. n1 PROVE q[i] \in T /\ q[i] < m
        OBVIOUS
      <4>1. q[i] \in U
        BY <3>5
      <4>2. q[i] \in 1 .. m - 1 /\ q[i] \in T
        BY <3>1, <4>1
      <4> QED
        BY <2>4, <4>2
    <3> HIDE DEF n1, U
    <3> DEFINE r == [i \in 1 .. n1 + 1 |-> IF i = n1 + 1 THEN m ELSE q[i]]
    <3>7. \A i \in 1 .. n1 + 1 : i # n1 + 1 => i \in 1 .. n1
      BY <3>3
    <3>8. r \in [1 .. n1 + 1 -> T]
      BY <2>9, <3>6, <3>7
    <3>10. ASSUME NEW i \in 1 .. n1 + 1, NEW j \in 1 .. n1 + 1, i < j
          PROVE  r[i] < r[j]
      <4>1. i \in 1 .. n1 /\ r[i] = q[i]
        BY <3>3, <3>10
      <4> QED
        BY <3>5, <3>6, <3>7, <3>10, <4>1
    <3> HIDE DEF r
    <3> QED
      BY <2>5, <3>4, <3>8, <3>10
  <2> QED
    BY <2>7, <2>8, <2>9
<1> HIDE DEF Ordered
<1>5. Ordered(S)
  BY <1>4
<1>6. PICK q \in [1 .. Cardinality(S) -> S] :
        \A i, j \in 1 .. Cardinality(S) : i < j => q[i] < q[j]
  BY <1>5 DEF Ordered
<1> QED
  BY <1>6

-----------------------------------------------------------------------------
(* The steps                                                                *)

Loose == {"packages", "greedy", "upgrade", "audit", "downgrade", "legality", "done"}

LEMMA PipelineFacts ==
  ASSUME PipelineInvariant
  PROVE  /\ stage \in Stages /\ deck \in Decks /\ worth \in DOMAIN Worths
         /\ guard \subseteq Staples \cup Consensus /\ vet \in Vets
         /\ WorkFits(stage, deck, work)
BY DEF PipelineInvariant

\* The locals of most stages are about no card.
LEMMA LooseStep ==
  ASSUME PipelineInvariant, stage' \in Loose, deck' \in Decks, UNCHANGED <<worth, guard, vet>>
  PROVE  PipelineInvariant'
<1>1. PICK s, d, w : s = stage' /\ d = deck' /\ w = work'
  OBVIOUS
<1>2. s \in Stages /\ d \in Decks /\ WorkFits(s, d, w)
  BY <1>1 DEF Loose, Stages, WorkFits
<1> QED
  BY <1>1, <1>2, PipelineFacts, PipelineLeaves

\* What the optimizer may bring in is a spell that is not there.
LEMMA PoolFacts ==
  ASSUME NEW d \in Decks, NEW c \in Pool(d) PROVE c \in Spells /\ c \in Cards /\ c \notin Names(d)
BY DEF Pool, Cards

LEMMA MovedKeeps ==
  ASSUME NEW d \in Decks, NEW m, m.card \in Pool(d) PROVE Moved(d, m) \in Decks
<1>1. m.card \in Cards /\ m.card \notin Names(d)
  BY PoolFacts
<1> QED
  BY <1>1, PutKeeps DEF Moved

LEMMA PlaceInPackageKeeps ==
  ASSUME PipelineInvariant, NEW c \in Spells, PlaceInPackage(c) \/ GreedyPick(c)
  PROVE  PipelineInvariant'
<1>1. c \in Pool(deck)
  BY DEF PlaceInPackage, GreedyPick, GreedyChoices, Affordable, Cheapest
<1>2. deck' = Append(deck, c) /\ stage' \in Loose /\ UNCHANGED <<worth, guard, vet>>
  BY DEF PlaceInPackage, GreedyPick, Enter, Loose
<1>3. Append(deck, c) \in Decks
  BY <1>1, PipelineFacts, PoolFacts, AppendKeeps
<1> QED
  BY <1>2, <1>3, LooseStep

\* Steps that leave the slots alone and say nothing of cards.
LEMMA SlotsStay ==
  ASSUME PipelineInvariant,
         EndPackage \/ EndSwaps \/ StartAudit \/ KeepDear \/ EndAudit
           \/ (Audited /\ stage' \in Loose)
  PROVE  PipelineInvariant'
<1>1. deck' = deck /\ stage' \in Loose /\ UNCHANGED <<worth, guard, vet>>
  BY DEF EndPackage, EndSwaps, StartAudit, Audited, SkipAudit, OpenTrial, KeepDear, EndAudit,
     Enter, Loose
<1> QED
  BY <1>1, PipelineFacts, LooseStep

LEMMA MovesKeep ==
  ASSUME PipelineInvariant, Upgrade \/ Downgrade PROVE PipelineInvariant'
<1>1. stage' \in Loose /\ UNCHANGED <<worth, guard, vet>>
  BY DEF Upgrade, Downgrade, Enter, Loose
<1>2. PICK m \in Moves(deck) : deck' = Moved(deck, m)
  BY DEF Upgrade, Downgrade, Best, Upgrades, Savings
<1>3. m.card \in Pool(deck)
  BY DEF Moves
<1>4. deck' \in Decks
  BY <1>2, <1>3, PipelineFacts, MovedKeeps
<1> QED
  BY <1>1, <1>4, LooseStep

LEMMA AutoLandsKeep ==
  ASSUME PipelineConstants, PipelineInvariant, PlaceAutoLands PROVE PipelineInvariant'
<1>1. Cardinality(AutoLands) \in Nat
  BY FS_CardinalityType DEF PipelineConstants
<1>2. PICK order \in [1 .. Cardinality(AutoLands) -> AutoLands] : deck' = deck \o order
  BY DEF PlaceAutoLands
<1>3. /\ order \in Seq(Cards) /\ DOMAIN order = 1 .. Cardinality(AutoLands)
      /\ \A i \in DOMAIN order : order[i] \notin Spells
  BY <1>1 DEF PipelineConstants, Cards
<1>4. deck' \in Decks
  BY <1>2, <1>3, PlainDeck, JoinKeeps, PipelineFacts
<1>5. PICK w : w = [open  |-> LandTarget - Cardinality(AutoLands),
                    share |-> IF Left < LandShare THEN Left ELSE LandShare, spent |-> 0]
  OBVIOUS
<1>6. work' = w /\ stage' = "lands" /\ UNCHANGED <<worth, guard, vet>>
  BY <1>5 DEF PlaceAutoLands, Enter
<1>7. WorkFits("lands", deck', w)
  BY <1>1, <1>5 DEF WorkFits, PipelineConstants
<1>8. PICK d : d = deck'
  OBVIOUS
<1> QED
  BY <1>4, <1>6, <1>7, <1>8, PipelineFacts, PipelineLeaves DEF Stages

LEMMA PlaceLandKeeps ==
  ASSUME PipelineConstants, PipelineInvariant, NEW c \in Lands, PlaceLand(c)
  PROVE  PipelineInvariant'
<1>1. /\ c \notin Names(deck) /\ stage = "lands" /\ stage' = "lands"
      /\ deck' = Append(deck, c) /\ UNCHANGED <<worth, guard, vet>>
      /\ work' = [work EXCEPT !.open = @ - 1, !.spent = @ + Price[c]]
  BY DEF PlaceLand, Enter
<1>2. Append(deck, c) \in Decks
  BY <1>1, PipelineFacts, AppendKeeps DEF Cards
<1>3. work \in [open : Int, share : {work.share}, spent : {work.spent}]
  BY <1>1, PipelineFacts DEF WorkFits
<1>4. PICK w : w = [work EXCEPT !.open = @ - 1, !.spent = @ + Price[c]]
  OBVIOUS
<1>5. w \in [open : Int, share : {w.share}, spent : {w.spent}]
  <2>1. PICK o, a, p : o \in Int /\ work = [open |-> o, share |-> a, spent |-> p]
    BY <1>3
  <2>2. w = [open |-> o - 1, share |-> a, spent |-> p + Price[c]]
    BY <1>4, <2>1
  <2>3. o - 1 \in Int /\ w.share = a /\ w.spent = p + Price[c]
    BY <2>1, <2>2
  <2>4. PICK e : e = p + Price[c]
    OBVIOUS
  <2> QED
    BY <2>2, <2>3, <2>4
<1>6. PICK d : d = Append(deck, c)
  OBVIOUS
<1>7. WorkFits("lands", d, w)
  BY <1>5 DEF WorkFits
<1> QED
  BY <1>1, <1>2, <1>4, <1>6, <1>7, PipelineFacts, PipelineLeaves DEF Stages

LEMMA BasicsKeep ==
  ASSUME PipelineConstants, PipelineInvariant, FillWithBasics PROVE PipelineInvariant'
<1> DEFINE n == IF work.open > 0 THEN work.open ELSE 0
           basics == [i \in 1 .. n |-> Basic]
<1>1. /\ stage = "lands" /\ stage' = "reserve" /\ deck' = deck \o basics
      /\ UNCHANGED <<worth, guard, vet>>
      /\ work' = [put |-> <<>>, spent |-> 0]
  BY DEF FillWithBasics, Enter
<1>2. n \in Nat
  <2>1. work.open \in Int
    BY <1>1, PipelineFacts DEF WorkFits
  <2> QED
    BY <2>1
<1> HIDE DEF n
<1>3. basics \in Seq(Cards) /\ \A i \in DOMAIN basics : basics[i] \notin Spells
  BY <1>2 DEF Cards, PipelineConstants
<1> HIDE DEF basics
<1>4. deck \o basics \in Decks
  BY <1>3, PlainDeck, JoinKeeps, PipelineFacts
<1>5. PICK d, w : d = deck' /\ w = [put |-> <<>>, spent |-> 0]
  OBVIOUS
<1>6. w.put = <<>> /\ <<>> \in Seq(Spells \cap Consensus) /\ DOMAIN <<>> = {}
  BY <1>5
<1>7. WorkFits("reserve", d, w)
  BY <1>6 DEF WorkFits, Single, Names
<1> QED
  BY <1>1, <1>4, <1>5, <1>7, PipelineFacts, PipelineLeaves DEF Stages

\* The cards reserved so far are a list of slots of their own.
LEMMA ReserveFacts ==
  ASSUME PipelineInvariant, stage = "reserve"
  PROVE  /\ work.put \in Decks /\ work.put \in Seq(Spells \cap Consensus)
         /\ Names(work.put) \cap Names(deck) = {}
         /\ Names(work.put) \subseteq Consensus
<1>1. /\ work.put \in Seq(Spells \cap Consensus) /\ Single(work.put)
      /\ Names(work.put) \cap Names(deck) = {}
  BY PipelineFacts DEF WorkFits
<1>2. work.put \in Seq(Cards)
  <2>1. Spells \cap Consensus \subseteq Cards
    BY DEF Cards
  <2> QED
    BY <1>1, <2>1, SeqMonotonic
<1>3. Names(work.put) \subseteq Consensus
  <2>1. \A i \in DOMAIN work.put : work.put[i] \in Spells \cap Consensus
    BY <1>1
  <2> QED
    BY <2>1 DEF Names
<1> QED
  BY <1>1, <1>2, <1>3 DEF Decks

LEMMA ReserveKeeps ==
  ASSUME PipelineInvariant, NEW c \in Spells, ReserveStaple(c) PROVE PipelineInvariant'
<1>1. /\ stage = "reserve" /\ stage' = "reserve" /\ deck' = deck /\ UNCHANGED <<worth, guard, vet>>
      /\ work' = [put |-> Append(work.put, c), spent |-> work.spent + Price[c]]
      /\ c \in Consensus \cap Spells /\ c \notin Names(deck) /\ c \notin Names(work.put)
  BY DEF ReserveStaple, Reservable, Enter
<1>2. /\ Append(work.put, c) \in Decks
  BY <1>1, ReserveFacts, AppendKeeps DEF Cards
<1>3. PICK w : w = [put |-> Append(work.put, c), spent |-> work.spent + Price[c]]
  OBVIOUS
<1>4. w.put \in Seq(Spells \cap Consensus) /\ Single(w.put)
  BY <1>1, <1>2, <1>3, ReserveFacts DEF Decks
<1>5. Names(w.put) \cap Names(deck) = {}
  <2>1. /\ work.put \in Seq(Spells \cap Consensus)
        /\ DOMAIN Append(work.put, c) = 1 .. Len(work.put) + 1
        /\ \A i \in 1 .. Len(work.put) + 1 :
             Append(work.put, c)[i] = IF i = Len(work.put) + 1 THEN c ELSE work.put[i]
    BY <1>1, ReserveFacts, AppendProperties
  <2>2. \A i \in 1 .. Len(work.put) + 1 : i # Len(work.put) + 1 => i \in DOMAIN work.put
    BY <2>1
  <2>3. Names(Append(work.put, c)) \subseteq Names(work.put) \cup {c}
    BY <2>1, <2>2 DEF Names
  <2> QED
    BY <1>1, <1>3, <2>3, ReserveFacts
<1>6. WorkFits("reserve", deck, w)
  BY <1>4, <1>5 DEF WorkFits
<1> QED
  BY <1>1, <1>3, <1>6, PipelineFacts, PipelineLeaves DEF Stages

LEMMA EndReserveKeeps ==
  ASSUME PipelineInvariant, EndReserve PROVE PipelineInvariant'
<1>1. /\ stage = "reserve" /\ stage' = "greedy" /\ deck' = work.put \o deck
      /\ guard' = guard \cup Names(work.put) /\ UNCHANGED <<worth, vet>>
  BY DEF EndReserve, Enter
<1>2. work.put \o deck \in Decks
  BY <1>1, ReserveFacts, PipelineFacts, JoinKeeps
<1>3. guard' \subseteq Staples \cup Consensus
  BY <1>1, ReserveFacts, PipelineFacts
<1>4. PICK d, w : d = deck' /\ w = work'
  OBVIOUS
<1>5. WorkFits("greedy", d, w)
  BY DEF WorkFits
<1> QED
  BY <1>1, <1>2, <1>3, <1>4, <1>5, PipelineFacts, PipelineLeaves DEF Stages

-----------------------------------------------------------------------------
(* Refinement                                                               *)

\* The objective is a number.
LEMMA ObjectiveType ==
  ASSUME PipelineConstants, PipelineInvariant, NEW d PROVE Objective(d) \in Int
<1>1. Names(d) \cap Spells \in SUBSET Spells
  OBVIOUS
<1> QED
  BY <1>1, PipelineFacts DEF Objective, PipelineConstants

LEMMA PassStarts ==
  ASSUME PipelineConstants, PipelineInvariant, GreedyStops \/ NextPass PROVE PipelineInvariant'
<1>1. PICK n, bench : /\ work' = SwapPass(n, bench) /\ bench \subseteq Spells
                      /\ stage' = "swap" /\ deck' = deck /\ UNCHANGED <<worth, guard, vet>>
  <2>1. CASE GreedyStops
    BY <2>1 DEF GreedyStops, Enter, Pool
  <2>2. CASE NextPass
    <3>1. work.bench \subseteq Spells
      BY <2>2, PipelineFacts DEF NextPass, WorkFits
    <3> QED
      BY <2>2, <3>1 DEF NextPass, Enter
  <2> QED
    BY <2>1, <2>2
<1>2. Objective(deck) \in Int
  BY ObjectiveType
<1>3. PICK w : w = SwapPass(n, bench)
  OBVIOUS
<1>4. /\ w \in [pass : {w.pass}, slot : {w.slot}, base : Int,
                improved : {w.improved}, bench : SUBSET Spells]
      /\ w.base = Objective(deck)
  BY <1>1, <1>2, <1>3 DEF SwapPass
<1>5. WorkFits("swap", deck, w)
  BY <1>2, <1>4 DEF WorkFits
<1> QED
  BY <1>1, <1>3, <1>5, PipelineFacts, PipelineLeaves DEF Stages

LEMMA SwapFacts ==
  ASSUME PipelineInvariant, stage = "swap"
  PROVE  /\ work \in [pass : {work.pass}, slot : {work.slot}, base : Int,
                      improved : {work.improved}, bench : SUBSET Spells]
         /\ Objective(deck) >= work.base
BY PipelineFacts DEF WorkFits

LEMMA SwapKeeps ==
  ASSUME PipelineConstants, PipelineInvariant, SwapSlot PROVE PipelineInvariant'
<1>1. PICK c \in Better(work.slot) : deck' = Put(deck, work.slot, c)
  BY DEF SwapSlot, BestOf
<1>2. /\ stage = "swap" /\ stage' = "swap" /\ UNCHANGED <<worth, guard, vet>>
      /\ work' = [work EXCEPT !.slot = @ + 1, !.improved = TRUE]
  BY DEF SwapSlot, Enter
<1>3. c \in work.bench /\ c \notin Names(deck) /\ Objective(Put(deck, work.slot, c)) > work.base
  BY DEF Better
<1>4. c \in Spells /\ c \in Cards
  BY <1>2, <1>3, SwapFacts DEF Cards
<1>5. PICK d, w : d = Put(deck, work.slot, c) /\ w = [work EXCEPT !.slot = @ + 1, !.improved = TRUE]
  OBVIOUS
<1>6. d \in Decks
  BY <1>3, <1>4, <1>5, PipelineFacts, PutKeeps
<1>7. /\ w \in [pass : {w.pass}, slot : {w.slot}, base : Int,
                improved : {w.improved}, bench : SUBSET Spells]
      /\ w.base = work.base /\ work.base \in Int
  BY <1>2, <1>5, SwapFacts
<1>8. Objective(d) \in Int /\ Objective(d) > work.base
  BY <1>3, <1>5, ObjectiveType
<1>9. Objective(d) >= w.base
  BY <1>7, <1>8
<1>10. WorkFits("swap", d, w)
  BY <1>7, <1>9 DEF WorkFits
<1> QED
  BY <1>1, <1>2, <1>5, <1>6, <1>10, PipelineFacts, PipelineLeaves DEF Stages

LEMMA KeepSlotKeeps == ASSUME PipelineInvariant, KeepSlot PROVE PipelineInvariant'
<1>1. /\ stage = "swap" /\ stage' = "swap" /\ UNCHANGED <<deck, worth, guard, vet>>
      /\ work' = [work EXCEPT !.slot = @ + 1]
  BY DEF KeepSlot, Enter
<1>2. PICK w : w = [work EXCEPT !.slot = @ + 1]
  OBVIOUS
<1>3. /\ w \in [pass : {w.pass}, slot : {w.slot}, base : Int,
                improved : {w.improved}, bench : SUBSET Spells]
      /\ w.base = work.base
  BY <1>1, <1>2, SwapFacts
<1>4. WorkFits("swap", deck, w)
  BY <1>1, <1>3, SwapFacts DEF WorkFits
<1> QED
  BY <1>1, <1>2, <1>4, PipelineFacts, PipelineLeaves DEF Stages

-----------------------------------------------------------------------------
(* Rebalancing                                                              *)

LEMMA OpenTrialKeeps ==
  ASSUME PipelineInvariant, NEW e, OpenTrial(e) PROVE PipelineInvariant'
<1>1. PICK m \in Substitutes(e) :
        work' = [todo  |-> work.todo \ {e}, left  |-> work.left, deck  |-> Moved(deck, m),
                 money |-> work.left + Price[e.card] - Price[m.card],
                 lost  |-> Objective(deck) - Objective(Moved(deck, m)), gain  |-> 0, moves |-> 0]
  BY DEF OpenTrial, Best, Enter
<1>2. stage' = "trial" /\ UNCHANGED <<deck, worth, guard, vet>>
  BY DEF OpenTrial, Enter
<1>3. m.card \in Pool(deck)
  BY DEF Substitutes
<1>4. Moved(deck, m) \in Decks
  BY <1>3, PipelineFacts, MovedKeeps
<1>5. PICK w : w = work'
  OBVIOUS
<1>6. w \in [todo : {w.todo}, left : {w.left}, deck : Decks, money : {w.money},
             lost : {w.lost}, gain : {w.gain}, moves : {w.moves}]
  BY <1>1, <1>4, <1>5
<1>7. WorkFits("trial", deck, w)
  BY <1>6 DEF WorkFits
<1> QED
  BY <1>2, <1>5, <1>7, PipelineFacts, PipelineLeaves DEF Stages

LEMMA TrialFacts ==
  ASSUME PipelineInvariant, stage = "trial"
  PROVE  work \in [todo : {work.todo}, left : {work.left}, deck : Decks, money : {work.money},
                   lost : {work.lost}, gain : {work.gain}, moves : {work.moves}]
BY PipelineFacts DEF WorkFits

LEMMA SpendKeeps == ASSUME PipelineInvariant, SpendFreed PROVE PipelineInvariant'
<1>1. stage = "trial" /\ stage' = "trial" /\ UNCHANGED <<deck, worth, guard, vet>>
  BY DEF SpendFreed, Enter
<1>2. PICK m \in Moves(work.deck) :
        work' = [work EXCEPT
              !.deck  = Moved(@, m),
              !.money = @ - Cost(work.deck, m),
              !.gain  = @ + Objective(Moved(work.deck, m)) - Objective(work.deck),
              !.moves = @ + 1]
  BY DEF SpendFreed, Best, Upgrades, Enter
<1>3. work.deck \in Decks
  BY <1>1, TrialFacts
<1>4. m.card \in Pool(work.deck)
  BY DEF Moves
<1>5. PICK e : e = Moved(work.deck, m) /\ e \in Decks
  BY <1>3, <1>4, MovedKeeps
<1>6. PICK w : w = work'
  OBVIOUS
<1>7. w \in [todo : {w.todo}, left : {w.left}, deck : Decks, money : {w.money},
             lost : {w.lost}, gain : {w.gain}, moves : {w.moves}]
  BY <1>1, <1>2, <1>5, <1>6, TrialFacts
<1>8. WorkFits("trial", deck, w)
  BY <1>7 DEF WorkFits
<1> QED
  BY <1>1, <1>6, <1>8, PipelineFacts, PipelineLeaves DEF Stages

LEMMA UnbundleKeeps == ASSUME PipelineInvariant, Unbundle PROVE PipelineInvariant'
<1>1. stage = "trial" /\ stage' \in Loose /\ deck' = work.deck /\ UNCHANGED <<worth, guard, vet>>
  BY DEF Unbundle, Enter, Loose
<1>2. work.deck \in Decks
  BY <1>1, TrialFacts
<1> QED
  BY <1>1, <1>2, LooseStep

-----------------------------------------------------------------------------
(* The floor                                                                *)

LEMMA FloorStarts == ASSUME PipelineInvariant, EndDowngrade PROVE PipelineInvariant'
<1>1. stage' = "floor" /\ work' = [pool |-> Pool(deck) \cap OnType]
      /\ UNCHANGED <<deck, worth, guard, vet>>
  BY DEF EndDowngrade, Enter
<1>2. PICK w : w = [pool |-> Pool(deck) \cap OnType]
  OBVIOUS
<1>3. WorkFits("floor", deck, w)
  BY <1>2 DEF WorkFits, Pool
<1> QED
  BY <1>1, <1>2, <1>3, PipelineFacts, PipelineLeaves DEF Stages

LEMMA FloorKeeps ==
  ASSUME PipelineInvariant, NEW c \in Spells, NEW i \in DOMAIN deck,
         RaiseFloor(c, i) \/ TooDear(c, i)
  PROVE  PipelineInvariant'
<1>1. /\ stage = "floor" /\ stage' = "floor" /\ c \in work.pool
      /\ deck' \in {deck, Put(deck, i, c)} /\ UNCHANGED <<worth, guard, vet>>
      /\ work' = [pool |-> work.pool \ {c}]
  BY DEF RaiseFloor, TooDear, Enter
<1>2. work.pool \subseteq Spells /\ work.pool \cap Names(deck) = {}
  BY <1>1, PipelineFacts DEF WorkFits
<1>3. c \in Cards /\ c \notin Names(deck)
  BY <1>1, <1>2 DEF Cards
<1>4. PICK d, w : d = deck' /\ w = [pool |-> work.pool \ {c}]
  OBVIOUS
<1>5. d \in Decks /\ Names(d) \subseteq Names(deck) \cup {c}
  BY <1>1, <1>3, <1>4, PipelineFacts, PutKeeps
<1>6. WorkFits("floor", d, w)
  BY <1>2, <1>4, <1>5 DEF WorkFits
<1> QED
  BY <1>1, <1>4, <1>5, <1>6, PipelineFacts, PipelineLeaves DEF Stages

-----------------------------------------------------------------------------
(* The review                                                               *)

LEMMA ReviewStarts == ASSUME PipelineInvariant, EndFloor PROVE PipelineInvariant'
<1>1. stage' = "review" /\ work' = [round |-> 1, docket |-> Swappable(deck)]
      /\ UNCHANGED <<deck, worth, guard, vet>>
  BY DEF EndFloor, Enter
<1>2. PICK w : w = [round |-> 1, docket |-> Swappable(deck)]
  OBVIOUS
<1>3. WorkFits("review", deck, w)
  BY <1>2 DEF WorkFits, Swappable, SpellSlots
<1> QED
  BY <1>1, <1>2, <1>3, PipelineFacts, PipelineLeaves DEF Stages

LEMMA ReviewKeeps ==
  ASSUME PipelineInvariant, NEW rejected, Review(rejected) PROVE PipelineInvariant'
<1>1. /\ stage = "review" /\ stage' = "replace" /\ UNCHANGED <<deck, worth, guard>>
      /\ rejected \subseteq work.docket
      /\ work' = [round |-> work.round, rejected |-> rejected, swapped |-> {}]
      /\ vet' = [vet EXCEPT !.seen = @ \cup {deck[i] : i \in work.docket}]
  BY DEF Review, Enter
<1>2. work.docket \subseteq SpellSlots(deck)
  BY <1>1, PipelineFacts DEF WorkFits
<1>3. {deck[i] : i \in work.docket} \subseteq Spells
  BY <1>2 DEF SpellSlots
<1>4. vet' \in Vets
  BY <1>1, <1>3, PipelineFacts DEF Vets
<1>5. PICK w : w = [round |-> work.round, rejected |-> rejected, swapped |-> {}]
  OBVIOUS
<1>6. WorkFits("replace", deck, w)
  BY <1>1, <1>2, <1>5 DEF WorkFits
<1> QED
  BY <1>1, <1>4, <1>5, <1>6, PipelineFacts, PipelineLeaves DEF Stages

LEMMA ReviewEndsKeeps ==
  ASSUME PipelineInvariant, ReviewFails \/ ReviewCrashes \/ NothingToReview
  PROVE  PipelineInvariant'
<1>1. /\ stage' = "legality" /\ UNCHANGED <<deck, worth, guard>>
      /\ vet' \in {vet, [vet EXCEPT !.failed = TRUE], [vet EXCEPT !.failed = TRUE, !.told = TRUE]}
  BY DEF ReviewFails, ReviewCrashes, NothingToReview, ToLegality, Enter
<1>2. vet' \in Vets
  BY <1>1, PipelineFacts DEF Vets
<1>3. PICK w : w = work'
  OBVIOUS
<1>4. WorkFits("legality", deck, w)
  BY DEF WorkFits
<1> QED
  BY <1>1, <1>2, <1>3, <1>4, PipelineFacts, PipelineLeaves DEF Stages

LEMMA ReplaceFacts ==
  ASSUME PipelineInvariant, stage = "replace"
  PROVE  work \in [round : {work.round}, rejected : SUBSET SpellSlots(deck),
                   swapped : SUBSET SpellSlots(deck)]
BY PipelineFacts DEF WorkFits

LEMMA ReplaceKeeps ==
  ASSUME PipelineInvariant, NEW i, NEW c, Replace(i, c) PROVE PipelineInvariant'
<1>1. /\ stage = "replace" /\ stage' = "replace" /\ i \in work.rejected
      /\ deck' = Put(deck, i, c) /\ UNCHANGED <<worth, guard>>
      /\ vet' = [vet EXCEPT !.vetoed = @ \cup {deck[i]}, !.put = @ \cup {c}]
      /\ work' = [work EXCEPT !.rejected = @ \ {i}, !.swapped = @ \cup {i}]
  BY DEF Replace, Enter
<1>2. c \in Pool(deck)
  BY DEF Replace, Replacements
<1>3. c \in Spells /\ c \in Cards /\ c \notin Names(deck)
  BY <1>2, PipelineFacts, PoolFacts
<1>4. PICK d, w : d = Put(deck, i, c)
                  /\ w = [work EXCEPT !.rejected = @ \ {i}, !.swapped = @ \cup {i}]
  OBVIOUS
<1>5. d \in Decks /\ SpellSlots(deck) \subseteq SpellSlots(d)
  BY <1>3, <1>4, PipelineFacts, PutKeeps
<1>6. i \in SpellSlots(deck) /\ deck[i] \in Spells
  BY <1>1, ReplaceFacts DEF SpellSlots
<1>7. vet' \in Vets
  BY <1>1, <1>3, <1>6, PipelineFacts DEF Vets
<1>8. w \in [round : {w.round}, rejected : SUBSET SpellSlots(d), swapped : SUBSET SpellSlots(d)]
  BY <1>1, <1>4, <1>5, <1>6, ReplaceFacts
<1>9. WorkFits("replace", d, w)
  BY <1>8 DEF WorkFits
<1> QED
  BY <1>1, <1>4, <1>5, <1>7, <1>9, PipelineFacts, PipelineLeaves DEF Stages

LEMMA LeaveKeeps ==
  ASSUME PipelineInvariant, NEW i, LeaveRejected(i) PROVE PipelineInvariant'
<1>1. /\ stage = "replace" /\ stage' = "replace" /\ UNCHANGED <<deck, worth, guard, vet>>
      /\ work' = [work EXCEPT !.rejected = @ \ {i}]
  BY DEF LeaveRejected, Enter
<1>2. PICK w : w = [work EXCEPT !.rejected = @ \ {i}]
  OBVIOUS
<1>3. w \in [round : {w.round}, rejected : SUBSET SpellSlots(deck),
             swapped : SUBSET SpellSlots(deck)]
  BY <1>1, <1>2, ReplaceFacts
<1>4. WorkFits("replace", deck, w)
  BY <1>3 DEF WorkFits
<1> QED
  BY <1>1, <1>2, <1>4, PipelineFacts, PipelineLeaves DEF Stages

LEMMA EndRoundKeeps == ASSUME PipelineInvariant, EndRound PROVE PipelineInvariant'
<1>1. stage = "replace" /\ UNCHANGED <<deck, worth, guard, vet>>
  BY DEF EndRound
<1>2. CASE work.round = 1
  <2>1. stage' = "review" /\ work' = [round |-> 2, docket |-> work.swapped]
    BY <1>2 DEF EndRound, Enter
  <2>2. PICK w : w = [round |-> 2, docket |-> work.swapped]
    OBVIOUS
  <2>3. WorkFits("review", deck, w)
    BY <1>1, <2>2, ReplaceFacts DEF WorkFits
  <2> QED
    BY <1>1, <2>1, <2>2, <2>3, PipelineFacts, PipelineLeaves DEF Stages
<1>3. CASE work.round # 1
  <2>1. stage' \in Loose
    BY <1>3 DEF EndRound, ToLegality, Enter, Loose
  <2> QED
    BY <1>1, <2>1, PipelineFacts, LooseStep
<1> QED
  BY <1>2, <1>3

-----------------------------------------------------------------------------
(* Legality                                                                 *)

LEMMA LegalityKeeps ==
  ASSUME PipelineConstants, PipelineInvariant, EnforceLegality PROVE PipelineInvariant'
<1>1. stage' \in Loose /\ UNCHANGED <<worth, guard, vet>>
  BY DEF EnforceLegality, Enter, Loose
<1>2. PICK stay \in SUBSET DOMAIN deck :
        deck' = [i \in 1 .. Cardinality(stay) |-> deck[Listed(stay)[i]]]
                  \o [i \in 1 .. DeckSize - Cardinality(stay) |-> Basic]
  BY DEF EnforceLegality
<1>3. deck \in Decks /\ DOMAIN deck = 1 .. Len(deck) /\ Len(deck) \in Nat
      /\ \A i \in DOMAIN deck : deck[i] \in Cards
  BY PipelineFacts, CardsFacts
<1>4. Cardinality(stay) \in Nat
  <2>1. IsFiniteSet(1 .. Len(deck))
    <3>1. 1 \in Int /\ Len(deck) \in Int
      BY <1>3
    <3> QED
      BY <3>1, FS_Interval
  <2>2. IsFiniteSet(stay)
    BY <1>3, <2>1, FS_Subset
  <2> QED
    BY <2>2, FS_CardinalityType
<1> DEFINE n == Cardinality(stay)
           q == Listed(stay)
           chosen == [i \in 1 .. n |-> deck[q[i]]]
           rest == [i \in 1 .. DeckSize - n |-> Basic]
<1>5. q \in [1 .. n -> stay] /\ \A i, j \in DOMAIN q : i < j => q[i] < q[j]
  <2>1. \E p \in [1 .. n -> stay] : \A i, j \in DOMAIN p : i < j => p[i] < p[j]
    BY <1>3, Orders
  <2> QED
    BY <2>1 DEF Listed
<1>6. deck' = chosen \o rest
  BY <1>2
<1> HIDE DEF q, n
<1>7. n \in Nat
  BY <1>4 DEF n
<1>8. \A i \in 1 .. n : q[i] \in DOMAIN deck
  BY <1>5
<1>9. chosen \in Seq(Cards) /\ DOMAIN chosen = 1 .. n
  BY <1>3, <1>7, <1>8
<1>10. Single(chosen)
  <2> SUFFICES ASSUME NEW i \in DOMAIN chosen, NEW j \in DOMAIN chosen, i # j,
                      chosen[i] \in Spells
               PROVE  chosen[i] # chosen[j]
    BY DEF Single
  <2>1. i \in 1 .. n /\ j \in 1 .. n /\ i \in Nat /\ j \in Nat
    BY <1>7, <1>9
  <2>2. q[i] \in DOMAIN deck /\ q[j] \in DOMAIN deck /\ q[i] \in Nat /\ q[j] \in Nat
    BY <1>3, <1>8, <2>1
  <2>3. DOMAIN q = 1 .. n
    BY <1>5
  <2>4. q[i] # q[j]
    <3>1. CASE i < j
      BY <1>5, <2>1, <2>2, <2>3, <3>1
    <3>2. CASE j < i
      BY <1>5, <2>1, <2>2, <2>3, <3>2
    <3> QED
      BY <2>1, <3>1, <3>2
  <2> QED
    BY <1>3, <2>1, <2>2, <2>4, CardsFacts DEF Single
<1>11. rest \in Seq(Cards) /\ \A i \in DOMAIN rest : rest[i] \notin Spells
  <2>1. DeckSize - n \in Int
    BY <1>7 DEF PipelineConstants
  <2>2. Basic \in Cards /\ Basic \notin Spells
    BY DEF Cards, PipelineConstants
  <2>3. CASE DeckSize - n \in Nat
    BY <2>2, <2>3
  <2>4. CASE DeckSize - n \notin Nat
    <3>1. 1 .. DeckSize - n = 1 .. 0
      BY <2>1, <2>4
    <3>2. rest \in [1 .. 0 -> Cards] /\ \A i \in DOMAIN rest : rest[i] = Basic
      BY <2>2, <3>1
    <3>3. rest \in Seq(Cards)
      BY <3>2, SeqDef
    <3> QED
      BY <2>2, <3>2, <3>3
  <2> QED
    BY <2>3, <2>4
<1> HIDE DEF chosen, rest
<1>12. chosen \o rest \in Decks
  BY <1>9, <1>10, <1>11, PlainDeck, JoinKeeps DEF Decks
<1> QED
  BY <1>1, <1>6, <1>12, LooseStep

-----------------------------------------------------------------------------
(* The invariant                                                            *)

LEMMA PipelineStarts == ASSUME PipelineConstants, Init PROVE PipelineInvariant
<1>1. <<>> \in Seq(Cards) /\ DOMAIN <<>> = {}
  OBVIOUS
<1>2. deck \in Decks
  BY <1>1 DEF Init, Decks, Single
<1>3. vet \in Vets /\ stage \in Stages /\ WorkFits(stage, deck, work)
  BY DEF Init, Vets, Stages, WorkFits
<1> QED
  BY <1>2, <1>3 DEF Init, PipelineInvariant

LEMMA PipelineInductive ==
  ASSUME PipelineConstants, PipelineInvariant, [Next]_vars PROVE PipelineInvariant'
<1>1. CASE UNCHANGED vars
  BY <1>1 DEF vars, PipelineInvariant, WorkFits, Objective
<1>2. CASE Fill
  <2>1. CASE \E c \in Spells : PlaceInPackage(c) \/ ReserveStaple(c) \/ GreedyPick(c)
    <3>1. PICK c \in Spells : PlaceInPackage(c) \/ ReserveStaple(c) \/ GreedyPick(c)
      BY <2>1
    <3> QED
      BY <3>1, PlaceInPackageKeeps, ReserveKeeps
  <2>2. CASE \E c \in Lands : PlaceLand(c)
    BY <2>2, PlaceLandKeeps
  <2>3. CASE EndPackage
    BY <2>3, SlotsStay
  <2>4. CASE PlaceAutoLands
    BY <2>4, AutoLandsKeep
  <2>5. CASE FillWithBasics
    BY <2>5, BasicsKeep
  <2>6. CASE EndReserve
    BY <2>6, EndReserveKeeps
  <2>7. CASE GreedyStops
    BY <2>7, PassStarts
  <2> QED
    BY <1>2, <2>1, <2>2, <2>3, <2>4, <2>5, <2>6, <2>7 DEF Fill
<1>3. CASE Refine
  <2>1. CASE SwapSlot
    BY <2>1, SwapKeeps
  <2>2. CASE KeepSlot
    BY <2>2, KeepSlotKeeps
  <2>3. CASE NextPass
    BY <2>3, PassStarts
  <2>4. CASE EndSwaps
    BY <2>4, SlotsStay
  <2> QED
    BY <1>3, <2>1, <2>2, <2>3, <2>4 DEF Refine
<1>4. CASE Rebalance
  <2>1. CASE Audited
    <3>1. PICK e \in work.todo : SkipAudit(e) \/ OpenTrial(e)
      BY <2>1 DEF Audited
    <3>2. SkipAudit(e) => stage' \in Loose
      BY DEF SkipAudit, Enter, Loose
    <3> QED
      BY <2>1, <3>1, <3>2, SlotsStay, OpenTrialKeeps
  <2> QED
    <3>1. CASE Upgrade \/ Downgrade
      BY <3>1, MovesKeep
    <3>2. CASE StartAudit \/ KeepDear \/ EndAudit
      BY <3>2, SlotsStay
    <3>3. CASE SpendFreed
      BY <3>3, SpendKeeps
    <3>4. CASE Unbundle
      BY <3>4, UnbundleKeeps
    <3>5. CASE EndDowngrade
      BY <3>5, FloorStarts
    <3> QED
      BY <1>4, <2>1, <3>1, <3>2, <3>3, <3>4, <3>5 DEF Rebalance
<1>5. CASE Repair
  BY <1>5, FloorKeeps, ReviewStarts, LegalityKeeps DEF Repair
<1>6. CASE ReviewDeck
  BY <1>6, ReviewKeeps, ReplaceKeeps, LeaveKeeps, ReviewEndsKeeps, EndRoundKeeps DEF ReviewDeck
<1> QED
  BY <1>1, <1>2, <1>3, <1>4, <1>5, <1>6 DEF Next

\* Type correctness, and the singleton rule: no stage puts a spell into a second slot, not
\* the reserve that is chosen before the fill, the bench and the pool that were listed
\* before other cards came in, nor the audit's trial deck (deck_builder.py and
\* greedy_optimizer.py each compare names in their own way).
THEOREM OneOfEach == ASSUME PipelineConstants PROVE Spec => []TypeOK
<1>1. PipelineInvariant => TypeOK
  BY DEF PipelineInvariant, TypeOK, Decks, Single, Vets
<1> QED
  BY <1>1, PipelineStarts, PipelineInductive, PTL DEF Spec

\* A pass of the swap refinement never leaves the deck worse than it found it, although
\* each slot is judged against the deck the pass began with (_swap_refine).
THEOREM PassesNeverLose == ASSUME PipelineConstants PROVE Spec => []PassesPay
<1>1. PipelineInvariant => PassesPay
  BY DEF PipelineInvariant, PassesPay, WorkFits
<1> QED
  BY <1>1, PipelineStarts, PipelineInductive, PTL DEF Spec
=============================================================================
