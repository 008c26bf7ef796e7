--------------------------- MODULE MCResearchLoop ----------------------------
(* A small instance of SnapshotTurns: a behaviour is one of the snapshot or  *)
(* of the turn while the other rests. The moments of the loop are one for    *)
(* each interval its guards tell apart, 150, 90, 75 and 30 seconds left, and *)
(* none.                                                                     *)
EXTENDS SnapshotTurns

VARIABLES part                         \* the component that acts

allVars == <<part, vars, loopVars>>

ASSUME Constants == Loop!LoopConstants

AllInit == part \in {"cache", "loop"} /\ Init /\ Loop!Init

AllNext ==
    \/ part = "cache" /\ Next /\ UNCHANGED <<part, loopVars>>
    \/ part = "loop" /\ Loop!Next /\ UNCHANGED <<part, vars>>

AllSpec == AllInit /\ [][AllNext]_allVars
=============================================================================
