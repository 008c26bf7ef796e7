---------------------------- MODULE ComboCatalog ----------------------------
(***************************************************************************)
(* The catalog of sourced combinations (combo_catalog.py): snapshots of    *)
(* the source are imported by hand in any order and more than once, and    *)
(* each variant keeps its newest row.  A snapshot conflicts when a row of  *)
(* the same time says something else; then nothing of it is stored.  A     *)
(* later release of the code normalises rows to more fields, and importing *)
(* the same snapshot again completes the rows it left.                     *)
(*                                                                         *)
(* Abstracted: what a source says of a variant is a model value, Gone for  *)
(* one that is no longer offered; a snapshot is what it says and when it   *)
(* was retrieved, and its digest is itself.  An import is one transaction. *)
(***************************************************************************)
EXTENDS Naturals, FiniteSets

CONSTANTS
  Variants,    \* ids of combinations
  Offered,     \* claims with status OK and no spoiler
  Gone,        \* a claim that is not offered any more
  MaxTime,     \* bound: retrieval times
  MaxImports,  \* bound: imports
  Upgrades,    \* the code may be upgraded between imports
  None

Claims == Offered \cup {Gone}

(* A snapshot has at least one variant.                                    *)
Snapshots ==
  {s \in [time : 1 .. MaxTime, says : [Variants -> Claims \cup {None}]] :
     \E v \in Variants : s.says[v] # None}

(* What is stored of a variant, and the snapshot it was taken from.        *)
Rows ==
  [time : 1 .. MaxTime, payload : [claim : Claims, complete : BOOLEAN], from : Snapshots]

\* What the constants are assumed to be.
CatalogAssumption ==
  /\ MaxTime \in Nat \ {0} /\ MaxImports \in Nat
  /\ Gone \notin Offered /\ None \notin Offered \cup {Gone}
  /\ None \notin Rows
  /\ Upgrades \in BOOLEAN

VARIABLES
  rows,      \* assistant_combo_variants
  stored,    \* assistant_combo_snapshots
  complete,  \* the code normalises to all fields
  imports    \* accepted imports so far

vars == <<rows, stored, complete, imports>>

Init ==
  /\ rows = [v \in Variants |-> None]
  /\ stored = {}
  /\ complete \in {~Upgrades}
  /\ imports = 0

(* _variant: the stored payload of a claim.                                *)
Payload(claim) == [claim |-> claim, complete |-> complete]

Row(s, v) == [time |-> s.time, payload |-> Payload(s.says[v]), from |-> s]

(* What the import does with a variant of the snapshot.                    *)
SlipOlder(s, v) == rows[v] # None /\ rows[v].time # s.time /\ rows[v].from = s
Older(s, v) == rows[v] # None /\ rows[v].time > s.time

Same(s, v) ==
  rows[v] # None /\ rows[v].time = s.time /\ rows[v].payload = Payload(s.says[v])

(* The row came from this very snapshot, normalised by older code.         *)
Reprojected(s, v) ==
  /\ rows[v] # None /\ rows[v].time = s.time /\ rows[v].payload # Payload(s.says[v])
  /\ rows[v].from = s /\ rows[v].payload.claim = s.says[v]

Conflict(s, v) ==
  /\ rows[v] # None /\ rows[v].time = s.time
  /\ ~Same(s, v) /\ ~Reprojected(s, v)

NewRow(s, v) ==
  CASE s.says[v] = None \/ Older(s, v) \/ Same(s, v) -> rows[v]
    [] Reprojected(s, v) -> [rows[v] EXCEPT !.payload = Payload(s.says[v])]
    [] OTHER -> Row(s, v)

Import(s) ==
  /\ imports < MaxImports /\ imports' = imports + 1
  /\ \A v \in Variants : s.says[v] # None => ~Conflict(s, v)
  /\ stored' = stored \cup {s}
  /\ rows' = [v \in Variants |-> NewRow(s, v)]
  /\ UNCHANGED complete

(* The next release of the code.                                           *)
Upgrade ==
  /\ ~complete /\ complete' = TRUE
  /\ UNCHANGED <<rows, stored, imports>>

Next == Upgrade \/ \E s \in Snapshots : Import(s)

Spec == Init /\ [][Next]_vars

---------------------------------------------------------------------------
Saying(v) == {s \in stored : s.says[v] # None}

(* Whatever the order of the imports, a variant's row says what the newest *)
(* accepted snapshots say of it, and they all say the same.                *)
NewestWins ==
  \A v \in Variants : \A s \in Saying(v) :
    /\ rows[v] # None /\ rows[v].time >= s.time
    /\ rows[v].time = s.time => rows[v].payload.claim = s.says[v]

=============================================================================
