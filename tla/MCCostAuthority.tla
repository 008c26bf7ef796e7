--------------------------- MODULE MCCostAuthority ---------------------------
(* Small instances of CostAuthority: the values a cfg cannot write.         *)
EXTENDS CostAuthority, TLC

CONSTANTS main, preview, model, PerDay

\* One model: a microdollar for an output token, a half for an input token.
MCInputRate == model :> 1
MCOutputRate == model :> 2
MCPriceScale == 2

\* A request over each token limit, and requests of one and two microdollars.
MCRequests == {<<0, 1>>, <<1, 1>>, <<3, 1>>, <<0, 3>>}
\* Reports of zero, one and three microdollars: the last is always an overrun.
MCReports == {<<0, 0>>, <<1, 0>>, <<0, 3>>}
MCReportsWithin == {<<1, 0>>}

MCEnvMonthly == [e \in Envs |-> IF e = main THEN 3 ELSE 2]
MCUserDaily == [e \in Envs |-> 2]
MCTurnsPerDay == [e \in Envs |-> PerDay]

\* Identifiers and names are interchangeable.
Symmetry ==
    Permutations(TurnIds) \cup Permutations(AttemptIds) \cup Permutations(Users)
        \cup Permutations(Keys) \cup Permutations(Sessions)
=============================================================================
