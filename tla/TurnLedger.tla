----------------------------- MODULE TurnLedger -----------------------------
(***************************************************************************)
(* What callers may rely on about research turns (the promise of           *)
(* begin_turn and finish_turn, ai_cost_control.py): a submission is        *)
(* admitted at most once, its turn ends for good, and a holder has at most *)
(* one turn at a time.  CostAuthority implements it from its stored rows,  *)
(* clock and switches; ResearchTurns uses it through the routes.           *)
(***************************************************************************)
CONSTANTS
    Submissions,    \* what is admitted: a user's submission in an environment
    Holder          \* submission -> whose one turn it would be

VARIABLE phase      \* submission -> new, live or over

TypeOK == phase \in [Submissions -> {"new", "live", "over"}]

Init == phase = [s \in Submissions |-> "new"]

Begin(s) ==
    /\ phase[s] = "new"
    /\ \A r \in Submissions : phase[r] = "live" => Holder[r] # Holder[s]
    /\ phase' = [phase EXCEPT ![s] = "live"]

\* Turns end singly when they are closed, together when time passes or the
\* server stops.
End(ending) ==
    /\ \A s \in ending : phase[s] = "live"
    /\ phase' = [s \in Submissions |-> IF s \in ending THEN "over" ELSE phase[s]]

Next ==
    \/ \E s \in Submissions : Begin(s)
    \/ \E ending \in SUBSET Submissions : End(ending)

Spec == Init /\ [][Next]_phase
=============================================================================
