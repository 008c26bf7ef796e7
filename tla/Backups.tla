------------------------------ MODULE Backups -------------------------------
(***************************************************************************)
(* Backups of the production database (scripts/storage_control.py on the   *)
(* controllers, the hourly monitor and the release workflow;               *)
(* scripts/storage_remote.py on the production machine, under one file     *)
(* lock).  A backup is uploaded, downloaded again and compared, published  *)
(* locally with a marker, and on record once its manifest is in the        *)
(* bucket; retention prunes the local copies and thins the bucket.         *)
(*                                                                         *)
(* A long operation is a job on the machine that its controller polls.     *)
(* The command that starts it may be answered late, or not at all, jobs    *)
(* are killed at their limit, and controllers and the machine may stop.    *)
(* Archiving a legacy file is left out, and transfers arrive whole.        *)
(***************************************************************************)
EXTENDS Integers, FiniteSets

CONSTANTS
    Controllers, Ids, None,
    Releases,       \* controllers whose backups are of a release, and pinned
    Lengths,        \* the scales of retention (hour, day, week), in ticks
    Count,          \* scale -> populated buckets it keeps (24, 7, 4)
    Pin,            \* ticks a release is pinned (30 days)
    Limit,          \* ticks an operation takes at most (minutes, by its timeouts)
    Grace,          \* ticks an upload may stay unrecorded (48 h)
    LocalKept,      \* newest backups kept on the machine (2)
    End,            \* bound: ticks
    MaxGivenUp      \* bound: prune jobs given up and not over, at a time

\* What the constants are assumed to be.
BackupConstants ==
    /\ IsFiniteSet(Ids) /\ Releases \subseteq Controllers /\ Lengths \subseteq Nat \ {0}
    /\ Count \in [Lengths -> Nat \ {0}] /\ {Pin, Limit, Grace, LocalKept, End} \subseteq Nat
    /\ 2 * Limit <= Grace
    /\ None \notin Ids \cup Controllers

VARIABLES
    data, manifest, \* the bucket: archives, and the backups on record
    archive, marker,\* the volume: local copies, and their verification markers
    job,            \* id -> the backup job of that id
    prunes,         \* jobs that prune local copies
    controller,     \* controller -> its operation
    made,           \* id -> order, tick and kind of the backup
    clock,
    recorded        \* history: backups that have been on record

vars == <<data, manifest, archive, marker, job, prunes, controller, made, clock, recorded>>
bucket == <<data, manifest>>
volume == <<archive, marker>>

Phases == {"none", "sent", "waiting", "copying", "uploaded", "published", "done", "error", "gone"}
PrunePhases == {"sent", "pruning", "done", "error"}
Idle == [phase |-> "idle", id |-> None, rows |-> {}, left |-> {}, since |-> 0]

\* Type correctness.  The lock is one job's at a time, and a backup on record was
\* made.
Locking == {i \in Ids : job[i] \in {"copying", "uploaded", "published"}}
Pruning == {p \in prunes : p.phase = "pruning"}
TypeOK ==
    /\ data \subseteq Ids /\ manifest \subseteq recorded /\ recorded \subseteq Ids
    /\ archive \subseteq Ids /\ marker \subseteq Ids /\ job \in [Ids -> Phases]
    /\ prunes \subseteq [by : Controllers \cup {None}, left : SUBSET Ids, phase : PrunePhases]
    /\ Cardinality(Locking) + Cardinality(Pruning) <= 1
    /\ \A c \in Controllers :
         /\ controller[c].phase \in {"idle", "backup", "received", "checked", "listed", "present",
                                     "pruning", "thinning"}
         /\ controller[c].id \in Ids \cup {None} /\ controller[c].rows \subseteq Ids
         /\ controller[c].left \subseteq Ids /\ controller[c].since \in 0 .. End
    /\ made \in [Ids -> [order : 0 .. Cardinality(Ids), at : 0 .. End, kind : {"hourly", "release"}]]
    /\ \A i \in recorded : made[i].order > 0
    /\ clock \in 0 .. End

Init ==
    /\ data = {} /\ manifest = {} /\ archive = {} /\ marker = {} /\ prunes = {}
    /\ job = [i \in Ids |-> "none"] /\ controller = [c \in Controllers |-> Idle]
    /\ made = [i \in Ids |-> [order |-> 0, at |-> 0, kind |-> "hourly"]]
    /\ clock = 0 /\ recorded = {}

-----------------------------------------------------------------------------
(* what retention keeps                                                     *)

Newer(i, j) == made[i].order > made[j].order
Newest(S, n) == {i \in S : Cardinality({j \in S : Newer(j, i)}) < n}

Bucket(i, length) == made[i].at \div length
Kept(S, length) == {i \in S :
    LET b == Bucket(i, length)
    IN  /\ \A j \in S : Bucket(j, length) = b => ~Newer(j, i)
        /\ Cardinality({Bucket(j, length) : j \in {k \in S : Bucket(k, length) > b}}) < Count[length]}
Pinned(i) == made[i].kind = "release" /\ made[i].at + Pin > clock
RetainIds(S) == UNION {Kept(S, length) : length \in Lengths} \cup {i \in S : Pinned(i)}

-----------------------------------------------------------------------------
(* jobs on the machine                                                      *)

Busy == Locking # {} \/ Pruning # {}
Becomes(i, phase) == job' = [job EXCEPT ![i] = phase]

Start(i) ==
    /\ job[i] = "sent" /\ Becomes(i, "waiting")
    /\ UNCHANGED <<bucket, volume, prunes, controller, made, clock, recorded>>
Lock(i) ==
    /\ job[i] = "waiting" /\ ~Busy /\ Becomes(i, "copying")
    /\ UNCHANGED <<bucket, volume, prunes, controller, made, clock, recorded>>
\* A backup waits two minutes for the lock.
LockTimesOut(i) ==
    /\ job[i] = "waiting" /\ Busy /\ Becomes(i, "error")
    /\ UNCHANGED <<bucket, volume, prunes, controller, made, clock, recorded>>
Upload(i) ==
    /\ job[i] = "copying" /\ Becomes(i, "uploaded")
    /\ data' = data \cup {i} /\ made' = [made EXCEPT ![i].at = clock]
    /\ UNCHANGED <<manifest, volume, prunes, controller, clock, recorded>>
\* The download was compared; the copy is published whole, under its final name.
Publish(i) ==
    /\ job[i] = "uploaded" /\ Becomes(i, "published")
    /\ archive' = archive \cup {i}
    /\ UNCHANGED <<bucket, marker, prunes, controller, made, clock, recorded>>
Mark(i) ==
    /\ job[i] = "published" /\ Becomes(i, "done")
    /\ marker' = marker \cup {i}
    /\ made' = [made EXCEPT ![i].order = 1 + Cardinality({j \in Ids : made[j].order > 0})]
    /\ UNCHANGED <<bucket, archive, prunes, controller, clock, recorded>>
\* The limit, little space, a failed check; what was written stays.
JobFails(i) ==
    /\ i \in Locking /\ Becomes(i, "error")
    /\ UNCHANGED <<bucket, volume, prunes, controller, made, clock, recorded>>

\* prune_local does not wait for the lock.
PruneStarts(p) ==
    /\ p \in prunes /\ p.phase = "sent"
    /\ prunes' = (prunes \ {p}) \cup
         (IF ~Busy THEN {[p EXCEPT !.phase = "pruning"]}
          ELSE IF p.by = None THEN {} ELSE {[p EXCEPT !.phase = "error"]})
    /\ UNCHANGED <<bucket, volume, job, controller, made, clock, recorded>>
PruneWith(p, q) == p \in Pruning /\ prunes' = (prunes \ {p}) \cup {q}
\* A copy without its marker is refused, and ends the job.
PruneArchive(p, i) ==
    /\ i \in p.left /\ i \in archive /\ i \in marker
    /\ PruneWith(p, p) /\ archive' = archive \ {i}
    /\ UNCHANGED <<bucket, marker, job, controller, made, clock, recorded>>
PruneMarker(p, i) ==
    /\ i \in p.left /\ i \notin archive
    /\ PruneWith(p, [p EXCEPT !.left = @ \ {i}]) /\ marker' = marker \ {i}
    /\ UNCHANGED <<bucket, archive, job, controller, made, clock, recorded>>
PruneEnds(p) ==
    /\ p \in Pruning
    /\ \E phase \in {"error"} \cup (IF p.left = {} THEN {"done"} ELSE {}) :
         prunes' = (prunes \ {p}) \cup (IF p.by = None THEN {} ELSE {[p EXCEPT !.phase = phase]})
    /\ UNCHANGED <<bucket, volume, job, controller, made, clock, recorded>>

\* The jobs and their receipts are lost, a command on its way is not.
MachineRestarts ==
    /\ job' = [i \in Ids |-> IF job[i] \in {"none", "sent"} THEN job[i] ELSE "gone"]
    /\ prunes' = {p \in prunes : p.phase = "sent"}
    /\ UNCHANGED <<bucket, volume, controller, made, clock, recorded>>

-----------------------------------------------------------------------------
(* backup, on a controller                                                  *)

Goes(c, phase) == controller' = [controller EXCEPT ![c].phase = phase]
Stops(c) == controller' = [controller EXCEPT ![c] = Idle]

\* A release first asks whether the machine is busy.
Backup(c, i) ==
    /\ controller[c].phase = "idle" /\ job[i] = "none" /\ (c \in Releases => ~Busy)
    /\ controller' = [controller EXCEPT ![c] = [Idle EXCEPT !.phase = "backup", !.id = i,
                                                            !.since = clock]]
    /\ Becomes(i, "sent")
    /\ made' = [made EXCEPT ![i].kind = IF c \in Releases THEN "release" ELSE "hourly"]
    /\ UNCHANGED <<bucket, volume, prunes, clock, recorded>>

\* A receipt is removed when it has been read; a job that is not there has stopped.
Polled(c) ==
    /\ controller[c].phase = "backup"
    /\ LET i == controller[c].id
       IN  \/ job[i] = "done" /\ Goes(c, "received") /\ Becomes(i, "gone")
           \/ job[i] \in {"sent", "error", "gone"} /\ Stops(c) /\ UNCHANGED job
    /\ UNCHANGED <<bucket, volume, prunes, made, clock, recorded>>
Head(c) ==
    /\ controller[c].phase = "received"
    /\ IF controller[c].id \in data THEN Goes(c, "checked") ELSE Stops(c)
    /\ UNCHANGED <<bucket, volume, job, prunes, made, clock, recorded>>
Record(c) ==
    /\ controller[c].phase = "checked" /\ Stops(c)
    /\ manifest' = manifest \cup {controller[c].id}
    /\ recorded' = recorded \cup {controller[c].id}
    /\ UNCHANGED <<data, volume, job, prunes, made, clock>>

-----------------------------------------------------------------------------
(* retention                                                                *)

\* The manifests are listed and every archive looked up before anything is deleted.
Listed(c) ==
    /\ controller[c].phase = "idle" /\ manifest # {}
    /\ controller' = [controller EXCEPT ![c] =
         IF manifest \subseteq data
         THEN [Idle EXCEPT !.phase = "listed", !.rows = manifest, !.since = clock] ELSE Idle]
    /\ UNCHANGED <<bucket, volume, job, prunes, made, clock, recorded>>
\* remote("status") finds the machine busy, or tells which copies are there.
Present(c) ==
    /\ controller[c].phase = "listed"
    /\ IF Busy THEN Stops(c)
       ELSE controller' = [controller EXCEPT ![c].phase = "present",
                ![c].left = (controller[c].rows \ Newest(controller[c].rows, LocalKept)) \cap archive]
    /\ UNCHANGED <<bucket, volume, job, prunes, made, clock, recorded>>
Prune(c) ==
    /\ controller[c].phase = "present" /\ Goes(c, "pruning")
    /\ prunes' = prunes \cup {[by |-> c, left |-> controller[c].left, phase |-> "sent"]}
    /\ UNCHANGED <<bucket, volume, job, made, clock, recorded>>

Unwanted(rows) == rows \ (RetainIds(rows) \cup Newest(rows, LocalKept))
Pruned(c) ==
    /\ controller[c].phase = "pruning"
    /\ \E p \in prunes :
         /\ p.by = c /\ p.phase = "done" /\ prunes' = prunes \ {p}
         /\ controller' = [controller EXCEPT ![c].phase = "thinning",
                              ![c].left = Unwanted(controller[c].rows)]
    /\ UNCHANGED <<bucket, volume, job, made, clock, recorded>>
\* Nobody reads the receipts of a job whose controller has gone.
Abandoned(c) ==
    {p \in prunes : p.by # c} \cup
    {[p EXCEPT !.by = None] : p \in {q \in prunes : q.by = c /\ q.phase \in {"sent", "pruning"}}}
FewGivenUp == Cardinality({p \in prunes : p.by = None}) <= MaxGivenUp
PruneFailed(c) ==
    /\ controller[c].phase = "pruning" /\ Stops(c)
    /\ \A p \in prunes : p.by = c => p.phase \in {"sent", "error"}
    /\ prunes' = Abandoned(c) /\ FewGivenUp'
    /\ UNCHANGED <<bucket, volume, job, made, clock, recorded>>

\* The manifest goes first.
Thin(c, i) ==
    /\ controller[c].phase = "thinning" /\ i \in controller[c].left
    /\ \/ i \in manifest /\ manifest' = manifest \ {i} /\ UNCHANGED <<data, controller>>
       \/ /\ i \notin manifest /\ data' = data \ {i} /\ UNCHANGED manifest
          /\ controller' = [controller EXCEPT ![c].left = @ \ {i}]
    /\ UNCHANGED <<volume, job, prunes, made, clock, recorded>>
SlipOrphans(c) == data \ controller[c].rows
Orphans(c) == {i \in data \ controller[c].rows : clock - made[i].at > Grace}
Sweep(c) ==
    /\ controller[c].phase = "thinning" /\ controller[c].left = {} /\ Stops(c)
    /\ data' = data \ Orphans(c)
    /\ UNCHANGED <<manifest, volume, job, prunes, made, clock, recorded>>

\* A controller stops, or waits no longer; what it started goes on.
ControllerStops(c) ==
    /\ controller[c].phase # "idle" /\ Stops(c)
    /\ prunes' = Abandoned(c) /\ FewGivenUp'
    /\ UNCHANGED <<bucket, volume, job, made, clock, recorded>>

\* Time does not pass an operation's limit.
Tick ==
    /\ clock < End /\ clock' = clock + 1
    /\ \A c \in Controllers : controller[c].phase # "idle" => clock' - controller[c].since <= Limit
    /\ UNCHANGED <<bucket, volume, job, prunes, controller, made, recorded>>

JobStep(i) == Start(i) \/ Lock(i) \/ LockTimesOut(i) \/ Upload(i) \/ Publish(i) \/ Mark(i)
PruneStep(p) ==
    PruneStarts(p) \/ PruneEnds(p) \/ \E i \in Ids : PruneArchive(p, i) \/ PruneMarker(p, i)
ControllerStep(c) ==
    \/ Polled(c) \/ Head(c) \/ Record(c)
    \/ Present(c) \/ Prune(c) \/ Pruned(c) \/ PruneFailed(c) \/ Sweep(c)
    \/ \E i \in Ids : Thin(c, i)

Next ==
    \/ \E i \in Ids : JobStep(i)
    \/ \E i \in Ids : JobFails(i)
    \/ \E p \in prunes : PruneStep(p)
    \/ MachineRestarts
    \/ \E c \in Controllers, i \in Ids : Backup(c, i)
    \/ \E c \in Controllers : Listed(c)
    \/ \E c \in Controllers : ControllerStep(c)
    \/ \E c \in Controllers : ControllerStops(c)
    \/ Tick

Spec == Init /\ [][Next]_vars

-----------------------------------------------------------------------------
(* Properties                                                               *)

\* Whatever is on record can be restored: no manifest outlives its archive, although
\* two controllers delete, sweep and record at once.
RecordedIsThere == manifest \subseteq data

=============================================================================
