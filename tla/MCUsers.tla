------------------------------ MODULE MCUsers -------------------------------
(* Small instances of Users, in one run: its parts share nothing, so a       *)
(* behaviour is one of a part while the other rests. A second account has    *)
(* time to pass, and fewer changes.                                          *)
EXTENDS Users, TLC

VARIABLES part                         \* the component that acts

allVars == <<part, vars, accountVars>>

Later == INSTANCE Accounts WITH End <- 1, MaxChanges <- 1

ASSUME Constants ==
    /\ FeedbackConstants
    /\ Account!AccountConstants
    /\ Later!AccountConstants

AllInit ==
    /\ part \in {"feedback", "account", "later"}
    /\ Init
    /\ IF part = "later" THEN Later!Init ELSE Account!Init

AllNext ==
    \/ part = "feedback" /\ Next /\ UNCHANGED <<part, accountVars>>
    \/ part = "account" /\ Account!Next /\ UNCHANGED <<part, vars>>
    \/ part = "later" /\ Later!Next /\ UNCHANGED <<part, vars>>

AllSpec == AllInit /\ [][AllNext]_allVars

\* Identifiers are interchangeable.
Symmetry == Permutations(Servers) \cup Permutations(Issues)
=============================================================================
