----------------------------- MODULE DeckBuilds -----------------------------
(***************************************************************************)
(* Asynchronous deck builds (ui/cedh_routes.py, db.BuildJobsRepo): a       *)
(* request stores a job and hands it to a thread pool of the process; the  *)
(* worker walks the job through its phases, stores the candidate and ends  *)
(* the job.  The statuses are plain UPDATEs without a guard, each in its   *)
(* own transaction, and the pool's queue is memory: what keeps a job from  *)
(* being lost is the worker's except clause and the sweep at boot.         *)
(*                                                                         *)
(* Abstracted: the deck and the model's text; a build either finds a       *)
(* candidate, finds no pack, or raises.  A write fails when SQLite stays   *)
(* locked beyond its timeout.                                              *)
(***************************************************************************)
EXTENDS Naturals, Sequences, FiniteSets

CONSTANTS
  Jobs,             \* build requests
  Workers,          \* max_workers of _BUILD_EXECUTOR
  MaxWriteFailures, \* bound: writes that find the database locked
  LockLasts,        \* the write of the except clause may find it locked too
  MaxRestarts,      \* bound: process restarts
  None

\* What the constants are assumed to be.
BuildsAssumption ==
  /\ Workers \in Nat \ {0}
  /\ MaxWriteFailures \in Nat /\ MaxRestarts \in Nat
  /\ LockLasts \in BOOLEAN

VARIABLES
  job,         \* build_jobs: status, candidate and error of each stored job
  candidates,  \* jobs whose candidate is in cedh_candidates
  route,       \* the request of a job: unsent, submitting or answered
  up,          \* the process serves requests
  queue,       \* the pool's queue
  worker,      \* the step a job's worker is at, None when it has none
  failures,    \* writes that failed
  restarts     \* restarts so far

vars == <<job, candidates, route, up, queue, worker, failures, restarts>>

ActiveStatuses == {"queued", "running", "simulating", "explaining"}
EndedStatuses == {"done", "failed"}

Errors == {None, "interrupted", "unsupported", "build_failed", "enqueue_failed"}

Row(status, candidate, error) ==
  [status |-> status, candidate |-> candidate, error |-> error]

---------------------------------------------------------------------------
Init ==
  /\ job = [j \in Jobs |-> None]
  /\ candidates = {}
  /\ route = [j \in Jobs |-> "unsent"]
  /\ up = TRUE
  /\ queue = <<>>
  /\ worker = [j \in Jobs |-> None]
  /\ failures = 0
  /\ restarts = 0

AtWork == {j \in Jobs : worker[j] # None}

(* BuildJobsRepo.set_status: no test of the status it replaces.            *)
SetStatus(j, row) == job' = [job EXCEPT ![j] = row]

(* build: the job is stored, ...                                           *)
Create(j) ==
  /\ up /\ route[j] = "unsent"
  /\ SetStatus(j, Row("queued", None, None))
  /\ route' = [route EXCEPT ![j] = "submitting"]
  /\ UNCHANGED <<candidates, up, queue, worker, failures, restarts>>

(* ... and submitted; a pool that was shut down refuses, which is stored.  *)
Submit(j) ==
  /\ up /\ route[j] = "submitting"
  /\ route' = [route EXCEPT ![j] = "answered"]
  /\ \/ queue' = Append(queue, j) /\ UNCHANGED job
     \/ SetStatus(j, Row("failed", None, "enqueue_failed")) /\ UNCHANGED queue
  /\ UNCHANGED <<candidates, up, worker, failures, restarts>>

---------------------------------------------------------------------------

(* _execute_build_job, one step per transaction.                           *)
Take ==
  /\ up /\ queue # <<>> /\ Cardinality(AtWork) < Workers
  /\ worker' = [worker EXCEPT ![Head(queue)] = "running"]
  /\ queue' = Tail(queue)
  /\ UNCHANGED <<job, candidates, route, up, failures, restarts>>

(* The statuses the worker sets on its way, and the step after each.       *)
After == [running |-> "simulating", simulating |-> "lab", explaining |-> "persist"]

Sets(j) ==
  /\ worker[j] \in DOMAIN After
  /\ SetStatus(j, Row(worker[j], None, None))
  /\ worker' = [worker EXCEPT ![j] = After[worker[j]]]
  /\ UNCHANGED <<candidates, route, up, queue, failures, restarts>>

(* The lab finds a candidate, or no pack that supports the request.        *)
Lab(j) ==
  /\ worker[j] = "lab"
  /\ \E next \in {"explaining", "unsupported"} :
       worker' = [worker EXCEPT ![j] = next]
  /\ UNCHANGED <<job, candidates, route, up, queue, failures, restarts>>

(* Validation, the factory, the lab or the store raises: the except clause.*)
Raises(j) ==
  /\ worker[j] \in {"simulating", "lab", "persist"}
  /\ worker' = [worker EXCEPT ![j] = "except"]
  /\ UNCHANGED <<job, candidates, route, up, queue, failures, restarts>>

Persist(j) ==
  /\ worker[j] = "persist"
  /\ candidates' = candidates \cup {j}
  /\ worker' = [worker EXCEPT ![j] = "done"]
  /\ UNCHANGED <<job, route, up, queue, failures, restarts>>

(* The last status, after which the worker is free.                        *)
Last(j) ==
  CASE worker[j] = "done" -> Row("done", j, None)
    [] worker[j] = "unsupported" -> Row("failed", None, "unsupported")
    [] OTHER -> Row("failed", None, "build_failed")

Ends(j) ==
  /\ worker[j] \in {"done", "unsupported", "except"}
  /\ SetStatus(j, Last(j))
  /\ worker' = [worker EXCEPT ![j] = None]
  /\ UNCHANGED <<candidates, route, up, queue, failures, restarts>>

(* A write finds the database locked: inside the try that is an exception  *)
(* like any other; inside the except clause it leaves the worker.          *)
SlipRescued(j) == None
Rescued(j) == IF worker[j] = "except" THEN None ELSE "except"

WriteFails(j) ==
  /\ failures < MaxWriteFailures
  /\ worker[j] \in DOMAIN After \cup {"persist", "done", "unsupported", "except"}
  /\ worker[j] = "except" => LockLasts
  /\ failures' = failures + 1
  /\ worker' = [worker EXCEPT ![j] = Rescued(j)]
  /\ UNCHANGED <<job, candidates, route, up, queue, restarts>>

WorkerStep(j) == Sets(j) \/ Lab(j) \/ Persist(j) \/ Ends(j)

---------------------------------------------------------------------------

(* The process ends with its pool and its requests; create_app of the next *)
(* one fails every active job before it serves.                            *)
Restart ==
  /\ up /\ restarts < MaxRestarts
  /\ up' = FALSE /\ restarts' = restarts + 1
  /\ queue' = <<>>
  /\ worker' = [j \in Jobs |-> None]
  /\ route' = [j \in Jobs |-> IF route[j] = "submitting" THEN "answered" ELSE route[j]]
  /\ UNCHANGED <<job, candidates, failures>>

Interrupted(r) == r # None /\ r.status \in ActiveStatuses

Boot ==
  /\ ~up /\ up' = TRUE
  /\ job' = [j \in Jobs |->
       IF Interrupted(job[j]) THEN Row("failed", None, "interrupted") ELSE job[j]]
  /\ UNCHANGED <<candidates, route, queue, worker, failures, restarts>>

Next ==
  \/ \E j \in Jobs :
       Create(j) \/ Submit(j) \/ WorkerStep(j) \/ Raises(j) \/ WriteFails(j)
  \/ Take \/ Restart \/ Boot

Spec == Init /\ [][Next]_vars

---------------------------------------------------------------------------
TypeOK ==
  /\ job \in [Jobs -> [status : ActiveStatuses \cup EndedStatuses,
                       candidate : Jobs \cup {None}, error : Errors] \cup {None}]
  /\ candidates \in SUBSET Jobs
  /\ route \in [Jobs -> {"unsent", "submitting", "answered"}]
  /\ up \in BOOLEAN
  /\ queue \in Seq(Jobs)
  /\ worker \in [Jobs -> DOMAIN After \cup
                         {"lab", "persist", "done", "unsupported", "except", None}]
  /\ failures \in 0 .. MaxWriteFailures /\ restarts \in 0 .. MaxRestarts
  /\ Cardinality(AtWork) <= Workers

(* Every stored build ends.                                                *)
BuildsEnd ==
  \A j \in Jobs :
    (job[j] # None) ~> (job[j] # None /\ job[j].status \in EndedStatuses)

=============================================================================
