---------------------------- MODULE MCOperations ----------------------------
(* Small instances of Operations, in one run: its parts share nothing, so a  *)
(* behaviour is one of a part while the others rest. Of three commits the    *)
(* third changes a path that is not reviewed, and may follow the second only *)
(* with the authorisation of an operator; other releases have more snapshots *)
(* and writes, or a second workflow run.                                     *)
EXTENDS Operations, TLC

VARIABLES part                         \* the component that acts

allVars == <<part, vars, catalogVars, backupVars, releaseVars>>

\* The second attempt to send an alert waits longer than the first.
SomeBackoff == <<1, 2>>
\* One populated bucket is kept of each tick.
SomeCount == [length \in Lengths |-> 1]
SomeSafe == {<<1, 2>>, <<2, 3>>}

Volume == INSTANCE Releases WITH MaxAttempts <- 1, MaxSnapshots <- 3, MaxWrites <- 2
Again == INSTANCE Releases WITH MaxAttempts <- 1, MaxReleases <- 2, MaxSnapshots <- 2

ASSUME Constants ==
    /\ EmailConstants
    /\ Catalog!CatalogAssumption
    /\ Backup!BackupConstants
    /\ Release!ReleasesAssumption
    /\ Volume!ReleasesAssumption
    /\ Again!ReleasesAssumption

AllInit ==
    /\ part \in {"email", "catalog", "backup", "release", "volume", "again"}
    /\ Init
    /\ Catalog!Init
    /\ Backup!Init
    /\ CASE part = "volume" -> Volume!Init
         [] part = "again" -> Again!Init
         [] OTHER -> Release!Init

Releasing ==
    \/ part = "release" /\ Release!Next
    \/ part = "volume" /\ Volume!Next
    \/ part = "again" /\ Again!Next

AllNext ==
    \/ part = "email" /\ Next /\ UNCHANGED <<part, catalogVars, backupVars, releaseVars>>
    \/ part = "catalog" /\ Catalog!Next /\ UNCHANGED <<part, vars, backupVars, releaseVars>>
    \/ part = "backup" /\ Backup!Next /\ UNCHANGED <<part, vars, catalogVars, releaseVars>>
    \/ Releasing /\ UNCHANGED <<part, vars, catalogVars, backupVars>>

AllSpec == AllInit /\ [][AllNext]_allVars

\* Identifiers are interchangeable.
Symmetry == Permutations(Ids) \cup Permutations(Runs) \cup Permutations(Settings)
=============================================================================
