----------------------------- MODULE MCSpending ------------------------------
(* A small instance of Spending: its parts share nothing, so a behaviour is  *)
(* one of the authority or of the calls at the provider while the other      *)
(* rests. A behaviour stops when every call is over, and nowhere else.       *)
EXTENDS MCCostAuthority, Spending

CONSTANTS call1, call2, call3, ledger1

VARIABLES part                         \* the component that acts

callVars == <<call, stale, free, acquired, lock, recorded, lost, paid>>
allVars == <<part, vars, callVars>>

\* Two generations of one ledger, and one without a ledger, wrapped twice.
SomeLedgers == call1 :> ledger1 @@ call2 :> ledger1 @@ call3 :> None
SomeWrappers == call1 :> 1 @@ call2 :> 1 @@ call3 :> 2

ASSUME Constants == Provider!ProviderConstants

AllInit == part \in {"authority", "calls"} /\ Init /\ Provider!Init

Over == part = "calls" /\ \A g \in Calls : Provider!At(g, "over")

AllNext ==
    \/ part = "authority" /\ Next /\ UNCHANGED <<part, callVars>>
    \/ part = "calls" /\ Provider!Next /\ UNCHANGED <<part, vars>>
    \/ Over /\ UNCHANGED allVars

AllSpec == AllInit /\ [][AllNext]_allVars
=============================================================================
