------------------------------ MODULE Releases ------------------------------
(***************************************************************************)
(* Promotion of a tested image to production (scripts/release_control.py,  *)
(* .github/workflows/deploy-production.yml).  A workflow run prepares the  *)
(* artifact of a main CI run, waits for the owner's approval, reads what   *)
(* is live, backs the data up twice, pushes the image and lets Fly replace *)
(* the machine.  Its facts are read one after the other while main moves,  *)
(* CI runs are repeated, Fly takes snapshots of its own, users write and   *)
(* the operator may roll back by hand.                                     *)
(*                                                                         *)
(* Abstracted: commits of main are numbered in their order and Safe says   *)
(* which updates touch reviewed paths only or were authorised; an image is *)
(* the commit and the CI attempt that built it; the data is the number of  *)
(* writes so far; one machine and one volume, which never change.  The     *)
(* workflow's concurrency group runs one release at a time.                *)
(***************************************************************************)
EXTENDS Naturals, FiniteSets

CONSTANTS
  MaxCommit,      \* bound: commits on main, 1 is live in the beginning
  MaxAttempts,    \* bound: attempts of a CI run
  MaxReleases,    \* bound: workflow runs
  MaxSnapshots,   \* bound: snapshots of the volume
  MaxWrites,      \* bound: writes to the data
  Safe,           \* updates <<from, to>> that may be promoted
  OperatorWaits,  \* nobody replaces the machine by hand during a release
  None

Commits == 1 .. MaxCommit
Image(sha, attempt) == [sha |-> sha, attempt |-> attempt]
Images == [sha : Commits, attempt : 1 .. MaxAttempts]

\* The steps of a workflow run, and what deployment.json says of it.
Saving == {"backup", "list", "request", "observe", "push", "recheck", "deploy", "confirm"}
Phases == {"prepare", "approval", "machine", "compare"} \cup Saving
Receipts == [status : {"preparing", "deploying", "deployed", "failed"},
             image : Images, previous : Images,
             backup : 0 .. MaxWrites \cup {None}, snapshot : 1 .. MaxSnapshots \cup {None}]

\* What the constants are assumed to be.
ReleasesAssumption ==
  /\ MaxCommit \in Nat \ {0} /\ MaxAttempts \in Nat \ {0}
  /\ \A n \in {MaxReleases, MaxSnapshots, MaxWrites} : n \in Nat
  /\ Safe \subseteq Commits \X Commits
  /\ OperatorWaits \in BOOLEAN
  /\ None \notin Nat \cup Phases \cup Receipts

VARIABLES
  main,       \* the head of main
  ci,         \* the CI run of each commit: its attempt and its conclusion
  tested,     \* images of attempts that succeeded
  live,       \* the image of the machine
  writes,     \* writes to the data so far
  snapshots,  \* snapshots of the volume, by number
  rel,        \* the workflow run in progress
  receipt,    \* deployment.json of each workflow run, None before it exists
  replaced,   \* what releases put in place of what
  late        \* a replacement whose command timed out

vars == <<main, ci, tested, live, writes, snapshots, rel, receipt, replaced, late>>

Idle == [no |-> 0, phase |-> None, image |-> None, old |-> None, before |-> {},
         after |-> 0]

---------------------------------------------------------------------------
Init ==
  /\ main = 1 /\ live = Image(1, 1)
  /\ ci = [c \in Commits |-> [attempt |-> 1, conclusion |-> "success"]]
  /\ tested = {Image(1, 1)}
  /\ writes = 0 /\ snapshots = <<>>
  /\ rel = Idle
  /\ receipt = [r \in 1 .. MaxReleases |-> None]
  /\ replaced = {} /\ late = None

(* The repository and its CI.                                              *)
Merge ==
  /\ main < MaxCommit /\ main' = main + 1
  /\ ci' = [ci EXCEPT ![main'].conclusion = "running"]
  /\ UNCHANGED <<tested, live, writes, snapshots, rel, receipt, replaced, late>>

Rerun(c) ==
  /\ c <= main /\ ci[c].attempt < MaxAttempts /\ ci[c].conclusion # "running"
  /\ ci' = [ci EXCEPT ![c] = [attempt |-> @.attempt + 1, conclusion |-> "running"]]
  /\ UNCHANGED <<main, tested, live, writes, snapshots, rel, receipt, replaced, late>>

CIEnds(c, conclusion) ==
  /\ ci[c].conclusion = "running"
  /\ ci' = [ci EXCEPT ![c].conclusion = conclusion]
  /\ tested' = IF conclusion = "success"
                 THEN tested \cup {Image(c, ci[c].attempt)} ELSE tested
  /\ UNCHANGED <<main, live, writes, snapshots, rel, receipt, replaced, late>>

(* Users write and Fly takes snapshots on its own schedule; a snapshot     *)
(* holds the data of the moment it was begun.                              *)
Write ==
  /\ writes < MaxWrites /\ writes' = writes + 1
  /\ UNCHANGED <<main, ci, tested, live, snapshots, rel, receipt, replaced, late>>

(* Times have whole seconds: several writes share one.                     *)
Second == writes \div 2

Begun(s) == Cardinality(DOMAIN s)
WithSnapshot(s, data, time) ==
  [n \in 1 .. Begun(s) + 1 |->
     IF n = Begun(s) + 1 THEN [data |-> data, time |-> time, created |-> FALSE] ELSE s[n]]

Scheduled ==
  /\ Begun(snapshots) < MaxSnapshots
  /\ snapshots' = WithSnapshot(snapshots, writes, Second)
  /\ UNCHANGED <<main, ci, tested, live, writes, rel, receipt, replaced, late>>

Completes(n) ==
  /\ n \in DOMAIN snapshots /\ ~snapshots[n].created
  /\ snapshots' = [snapshots EXCEPT ![n].created = TRUE]
  /\ UNCHANGED <<main, ci, tested, live, writes, rel, receipt, replaced, late>>

(* The operator puts an image back by hand.                                *)
ByHand ==
  /\ OperatorWaits => rel.phase \in {None, "prepare", "approval"}
  /\ late = None
  /\ \E image \in tested : image # live /\ live' = image
  /\ UNCHANGED <<main, ci, tested, writes, snapshots, rel, receipt, replaced, late>>

---------------------------------------------------------------------------
(* get_run and validate_provenance: the run succeeded and is main's.       *)
CurrentRun(c) == ci[c].conclusion = "success" /\ c = main

At(phase) == rel.phase = phase
Goes(phase) == rel' = [rel EXCEPT !.phase = phase]
SaveReceipt(r) == receipt' = [receipt EXCEPT ![rel.no] = r]

(* The workflow run ends; the except clause leaves its mark on a receipt.  *)
Stops == rel' = [Idle EXCEPT !.no = rel.no]
Raise ==
  /\ Stops
  /\ receipt' = IF receipt[rel.no] = None THEN receipt
                ELSE [receipt EXCEPT ![rel.no].status = "failed"]

(* A run is dispatched once nothing of the last one is under way.          *)
Dispatch ==
  /\ rel.phase = None /\ late = None /\ rel.no < MaxReleases
  /\ rel' = [Idle EXCEPT !.no = rel.no + 1, !.phase = "prepare"]
  /\ UNCHANGED <<main, ci, tested, live, writes, snapshots, receipt, replaced, late>>

(* prepare downloads the artifact of the run's attempt and tries it.       *)
Prepare ==
  /\ At("prepare")
  /\ \/ \E c \in Commits :
          /\ CurrentRun(c)
          /\ rel' = [rel EXCEPT !.phase = "approval",
                                !.image = Image(c, ci[c].attempt)]
     \/ Stops
  /\ UNCHANGED <<main, ci, tested, live, writes, snapshots, receipt, replaced, late>>

(* deploy, after the approval: the run is still the one that was prepared. *)
SameAttempt(image) == CurrentRun(image.sha) /\ ci[image.sha].attempt = image.attempt

Begin ==
  /\ At("approval")
  /\ IF SameAttempt(rel.image) THEN Goes("machine") ELSE Stops
  /\ UNCHANGED <<main, ci, tested, live, writes, snapshots, receipt, replaced, late>>

(* validate_machine: the image the machine runs, for a rollback.           *)
ReadMachine ==
  /\ At("machine")
  /\ rel' = [rel EXCEPT !.phase = "compare", !.old = live]
  /\ UNCHANGED <<main, ci, tested, live, writes, snapshots, receipt, replaced, late>>

(* A forward update of the live commit, by reviewed paths; then the receipt*)
(* exists.                                                                 *)
Forward(from, to) == from < to /\ <<from, to>> \in Safe

Receipt == [status |-> "preparing", image |-> rel.image, previous |-> rel.old,
            backup |-> None, snapshot |-> None]

Compare ==
  /\ At("compare")
  /\ IF Forward(live.sha, rel.image.sha)
       THEN Goes("backup") /\ SaveReceipt(Receipt)
       ELSE Stops /\ UNCHANGED receipt
  /\ UNCHANGED <<main, ci, tested, live, writes, snapshots, replaced, late>>

(* archived_backup returns a verified copy, or raises.                     *)
Backup ==
  /\ At("backup")
  /\ \/ /\ Goes("list")
        /\ SaveReceipt([receipt[rel.no] EXCEPT !.backup = writes])
     \/ Raise
  /\ UNCHANGED <<main, ci, tested, live, writes, snapshots, replaced, late>>

List ==
  /\ At("list")
  /\ rel' = [rel EXCEPT !.phase = "request", !.before = DOMAIN snapshots]
  /\ UNCHANGED <<main, ci, tested, live, writes, snapshots, receipt, replaced, late>>

Ask ==
  /\ At("request") /\ Begun(snapshots) < MaxSnapshots
  /\ snapshots' = WithSnapshot(snapshots, writes, Second)
  /\ rel' = [rel EXCEPT !.phase = "observe", !.after = Second]
  /\ UNCHANGED <<main, ci, tested, live, writes, receipt, replaced, late>>

(* completed_snapshot: a created one the first list did not have, of the   *)
(* second of the request or later.                                         *)
SlipNewSnapshots ==
  {n \in DOMAIN snapshots : snapshots[n].created /\ snapshots[n].time >= rel.after}
NewSnapshots ==
  {n \in DOMAIN snapshots \ rel.before :
     snapshots[n].created /\ snapshots[n].time >= rel.after}

Observe ==
  /\ At("observe")
  /\ \/ \E n \in NewSnapshots :
          Goes("push") /\ SaveReceipt([receipt[rel.no] EXCEPT !.snapshot = n])
     \/ Raise
  /\ UNCHANGED <<main, ci, tested, live, writes, snapshots, replaced, late>>

Push ==
  /\ At("push")
  /\ \/ Goes("recheck") /\ SaveReceipt([receipt[rel.no] EXCEPT !.status = "deploying"])
     \/ Raise
  /\ UNCHANGED <<main, ci, tested, live, writes, snapshots, replaced, late>>

(* Recheck after approval, backups and upload.                             *)
Recheck ==
  /\ At("recheck")
  /\ IF CurrentRun(rel.image.sha) THEN Goes("deploy") /\ UNCHANGED receipt ELSE Raise
  /\ UNCHANGED <<main, ci, tested, live, writes, snapshots, replaced, late>>

Replaces(no, image) ==
  /\ live' = image
  /\ replaced' = replaced \cup {[release |-> no, from |-> live, to |-> image]}

(* fly deploy replaces the machine, fails, or runs into its timeout while  *)
(* the replacement is still under way.                                     *)
Deploy ==
  /\ At("deploy")
  /\ \/ Replaces(rel.no, rel.image) /\ Goes("confirm") /\ UNCHANGED <<receipt, late>>
     \/ Raise /\ UNCHANGED <<live, replaced, late>>
     \/ Raise /\ late' = [no |-> rel.no, image |-> rel.image] /\ UNCHANGED <<live, replaced>>
  /\ UNCHANGED <<main, ci, tested, writes, snapshots>>

Lands ==
  /\ late # None /\ late' = None
  /\ Replaces(late.no, late.image)
  /\ UNCHANGED <<main, ci, tested, writes, snapshots, rel, receipt>>

(* The machine's digest and the health check name the release, or fail.    *)
Confirm ==
  /\ At("confirm")
  /\ \/ /\ live = rel.image
        /\ Stops /\ SaveReceipt([receipt[rel.no] EXCEPT !.status = "deployed"])
     \/ Raise
  /\ UNCHANGED <<main, ci, tested, live, writes, snapshots, replaced, late>>

(* The runner dies between two steps.                                      *)
Killed ==
  /\ rel.phase # None /\ Stops
  /\ UNCHANGED <<main, ci, tested, live, writes, snapshots, receipt, replaced, late>>

Controller ==
  \/ Prepare \/ Begin \/ ReadMachine \/ Compare \/ Backup \/ List \/ Ask
  \/ Observe \/ Push \/ Recheck \/ Deploy \/ Confirm

Next ==
  \/ \E r \in {"success", "failure"} : \E c \in Commits : CIEnds(c, r)
  \/ \E c \in Commits : Rerun(c)
  \/ Merge
  \/ Write \/ Scheduled \/ ByHand
  \/ \E n \in 1 .. MaxSnapshots : Completes(n)
  \/ Dispatch \/ Controller \/ Lands \/ Killed

Spec == Init /\ [][Next]_vars

---------------------------------------------------------------------------
(* Type correctness; a run that saves has its receipt.                     *)
TypeOK ==
  /\ main \in Commits
  /\ ci \in [Commits -> [attempt : 1 .. MaxAttempts,
                         conclusion : {"success", "failure", "running"}]]
  /\ tested \subseteq Images /\ live \in Images
  /\ writes \in 0 .. MaxWrites
  /\ Cardinality(DOMAIN snapshots) \in 0 .. MaxSnapshots
  /\ snapshots \in [1 .. Cardinality(DOMAIN snapshots) ->
                   [data : 0 .. MaxWrites, time : Nat, created : BOOLEAN]]
  /\ rel \in [no : 0 .. MaxReleases, phase : Phases \cup {None},
             image : Images \cup {None}, old : Images \cup {None},
             before : SUBSET (1 .. MaxSnapshots), after : Nat]
  /\ rel.phase # None => rel.no > 0
  /\ receipt \in [1 .. MaxReleases -> Receipts \cup {None}]
  /\ rel.phase \in Saving => receipt[rel.no] # None
  /\ replaced \subseteq [release : 1 .. MaxReleases, from : Images, to : Images]
  /\ late # None => late \in [no : {rel.no}, image : Images]

(* Nothing is replaced before the data was saved twice: the backup, and a  *)
(* completed snapshot that is no older than it, never one Fly had begun    *)
(* before.                                                                 *)
SavedFirst ==
  \A d \in replaced :
    LET r == receipt[d.release] IN
      /\ r # None /\ r.backup # None /\ r.snapshot # None
      /\ snapshots[r.snapshot].created
      /\ snapshots[r.snapshot].data >= r.backup

=============================================================================
