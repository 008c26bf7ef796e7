---------------------------- MODULE AssistantJobs ----------------------------
(***************************************************************************)
(* The durable research queue: assistant sessions and jobs in SQLite       *)
(* (assistant_store.py, assistant_jobs.py) and the dispatcher and worker   *)
(* threads that serve them (ui/assistant_routes.py).                       *)
(*                                                                         *)
(* Every store operation is one BEGIN IMMEDIATE transaction, hence one     *)
(* action.  What is not atomic is the worker: between its check that the   *)
(* turn is still wanted, its checkpoints, its provider calls and its last  *)
(* write, the user may stop, steer, edit or delete the deck, the lease may *)
(* lapse, and the process may die.  Server processes may overlap during a  *)
(* restart; each has its own worker slots, all share the database.         *)
(***************************************************************************)
EXTENDS Integers, FiniteSets

CONSTANTS
    Decks,          \* deck documents, each with its owner's one session
    Jobs,           \* job (turn) uuids
    Processes,      \* server process identities (pid:uuid)
    None,           \* no turn, no lease owner
    MaxActive,      \* queued and running jobs admitted (4 in the source)
    MaxRunning,     \* running jobs, over all processes (2)
    Slots,          \* worker slots of a process (2)
    MaxRevision,    \* bound: edits of a deck
    Callers,        \* bound: jobs that call a provider and report tool results
    Lapsing,        \* bound: jobs whose lease may run out
    Deletable       \* bound: decks that may be deleted

ASSUME JobConstants ==
    /\ None \notin Decks \cup Jobs \cup Processes
    /\ {MaxActive, MaxRunning, Slots} \subseteq Nat \ {0} /\ MaxRevision \in Nat
    /\ IsFiniteSet(Jobs)
    /\ Callers \subseteq Jobs /\ Lapsing \subseteq Jobs /\ Deletable \subseteq Decks

VARIABLES
    revision,       \* deck -> its document's revision
    deleted,        \* decks deleted, with their session and jobs
    session,        \* deck -> [busy, turn, generation, revision]
    jobs,           \* job -> its row
    status,         \* process -> new, up, down, or recycled: its pid lives again
    free,           \* process -> permits left in _WORKER_SLOTS
    dispatching,    \* process -> threads in _dispatch that hold a permit
    work,           \* job -> what the worker thread of the job is about to do
    outdated,       \* history: jobs stopped, overtaken or declared interrupted
    ran,            \* history: jobs for which run_turn was entered
    written         \* history: what a job has written to its conversation

store == <<revision, deleted, session, jobs>>
threads == <<status, free, dispatching, work>>
history == <<outdated, ran, written>>
vars == <<store, threads, history>>

ActiveStates == {"queued", "running"}
JobStates == ActiveStates \cup
    {"none", "interrupted", "completed", "stopped", "superseded", "deleted"}
Row == [state : JobStates, deck : Decks \cup {None}, generation : Nat,
        revision : Nat, owner : Processes \cup {None},
        lease : {"fresh", "due", "lapsed"}, calls : {"none", "started", "finished"}]
Phases == {"idle", "claimed", "submitted", "running", "checked", "calling",
           "publishing", "invalidating", "retiring"}

TypeOK ==
    /\ revision \in [Decks -> 0..MaxRevision] /\ deleted \subseteq Decks
    /\ session \in [Decks -> [busy : BOOLEAN, turn : Jobs \cup {None},
                              generation : Nat, revision : Nat]]
    /\ jobs \in [Jobs -> Row]
    /\ status \in [Processes -> {"new", "up", "down", "recycled"}]
    /\ free \in [Processes -> Nat] /\ dispatching \in [Processes -> Nat]
    /\ work \in [Jobs -> Phases]
    /\ outdated \subseteq Jobs /\ ran \subseteq Jobs
    /\ written \in [Jobs -> {"nothing", "partial", "final"}]

NoRow == [state |-> "none", deck |-> None, generation |-> 0, revision |-> 0,
          owner |-> None, lease |-> "fresh", calls |-> "none"]

Init ==
    /\ revision = [d \in Decks |-> 0] /\ deleted = {}
    /\ session = [d \in Decks |->
         [busy |-> FALSE, turn |-> None, generation |-> 0, revision |-> 0]]
    /\ jobs = [j \in Jobs |-> NoRow]
    /\ status = [p \in Processes |-> "new"]
    /\ free = [p \in Processes |-> Slots] /\ dispatching = [p \in Processes |-> 0]
    /\ work = [j \in Jobs |-> "idle"]
    /\ outdated = {} /\ ran = {} /\ written = [j \in Jobs |-> "nothing"]

-----------------------------------------------------------------------------
(* What the transactions read                                               *)

Up(p) == status[p] = "up"
Serving(d) == d \notin deleted /\ \E p \in Processes : Up(p)

\* Signal 0 reaches any process that holds the pid now.
OwnerAlive(p) == p # None /\ status[p] \in {"up", "recycled"}

Expired(j) ==
    /\ jobs[j].state = "running"
    /\ ~OwnerAlive(jobs[j].owner) \/ jobs[j].lease = "lapsed"

ActiveJobs == {j \in Jobs : jobs[j].state \in ActiveStates}
CurrentJob(d) == {j \in {session[d].turn} : j # None /\ jobs[j].state \in ActiveStates}
ExpiredJobs == {j \in Jobs : Expired(j)}

SlipWritableByOwner(p, d, j) ==
    /\ jobs[j].state \in ActiveStates /\ ~Expired(j)
    /\ jobs[j].state = "running" => jobs[j].owner = p
    /\ jobs[j].generation = session[d].generation
Writable(p, d, j) ==
    /\ jobs[j].state \in ActiveStates /\ ~Expired(j)
    /\ jobs[j].state = "running" => jobs[j].owner = p
    /\ revision[d] = session[d].revision
    /\ jobs[j].generation = session[d].generation

\* The worker of job j may still change the conversation.
Current(p, j) ==
    /\ jobs[j].deck \notin deleted
    /\ session[jobs[j].deck].busy /\ session[jobs[j].deck].turn = j
    /\ Writable(p, jobs[j].deck, j)

\* active(), and the revision check of stopped(): is the turn still wanted?
Wanted(j) ==
    /\ jobs[j].deck \notin deleted
    /\ session[jobs[j].deck].busy /\ session[jobs[j].deck].turn = j
    /\ jobs[j].state \in ActiveStates /\ ~Expired(j)
    /\ revision[jobs[j].deck] = jobs[j].revision

-----------------------------------------------------------------------------
(* What the transactions write                                              *)

\* _cancel: the current job ends in the given state.
Cancelled(d, ending) ==
    [j \in Jobs |-> IF j = session[d].turn /\ jobs[j].state \in ActiveStates \cup {"interrupted"}
                    THEN [jobs[j] EXCEPT !.state = ending] ELSE jobs[j]]

\* _begin: a new job supersedes the current one, unless the queue is full.
Room(d) == Cardinality(ActiveJobs \ {session[d].turn}) < MaxActive

QueuedRow(d, generation, rev) ==
    [NoRow EXCEPT !.state = "queued", !.deck = d, !.generation = generation, !.revision = rev]

NewJob(d, j, rev) ==
    /\ Serving(d) /\ jobs[j].state = "none"
    /\ Room(d)
    /\ session' = [session EXCEPT ![d] =
         [busy |-> TRUE, turn |-> j, generation |-> @.generation + 1, revision |-> rev]]
    /\ jobs' = [Cancelled(d, "superseded") EXCEPT ![j] =
                   QueuedRow(d, session[d].generation + 1, rev)]
    /\ outdated' = outdated \cup CurrentJob(d) \cup {i \in {j} : rev # revision[d]}
    /\ UNCHANGED <<revision, deleted, threads, ran, written>>

\* A message.  The revision was read before the transaction and may be stale.
Begin(d, j, rev) == ~session[d].busy /\ NewJob(d, j, rev)

\* Steering overtakes work that is queued, running or interrupted (a retry).
Steer(d, j, rev) == session[d].turn # None /\ NewJob(d, j, rev)

\* Stop, and a settings change, end the current job.
End(d, ending) ==
    /\ Serving(d)
    /\ jobs' = Cancelled(d, ending)
    /\ session' = [session EXCEPT ![d].busy = FALSE]
    /\ outdated' = outdated \cup CurrentJob(d)
    /\ UNCHANGED <<revision, deleted, threads, ran, written>>
Stop(d) == session[d].turn # None /\ End(d, "stopped")
Settings(d) == session[d].turn # None /\ End(d, "superseded")

\* The deck changes, or goes away, without the assistant being told.
EditDeck(d) ==
    /\ Serving(d) /\ revision[d] < MaxRevision
    /\ revision' = [revision EXCEPT ![d] = @ + 1]
    /\ outdated' = outdated \cup CurrentJob(d)
    /\ UNCHANGED <<deleted, session, jobs, threads, ran, written>>
DeleteDeck(d) ==
    /\ Serving(d) /\ d \in Deletable
    /\ deleted' = deleted \cup {d}
    /\ session' = [session EXCEPT ![d].busy = FALSE, ![d].turn = None]
    /\ jobs' = [j \in Jobs |-> IF jobs[j].deck = d
                               THEN [jobs[j] EXCEPT !.state = "deleted"] ELSE jobs[j]]
    /\ outdated' = outdated \cup CurrentJob(d)
    /\ UNCHANGED <<revision, threads, ran, written>>

\* Polling: a dead or lapsed claim is interrupted, never run again.
SlipAfterExpiry(j) == [jobs[j] EXCEPT !.state = "queued", !.owner = None]
AfterExpiry(j) == [jobs[j] EXCEPT !.state = "interrupted"]

Recover(d) ==
    /\ Serving(d)
    /\ \E j \in CurrentJob(d) : Expired(j) /\ jobs' = [jobs EXCEPT ![j] = AfterExpiry(j)]
    /\ session' = [session EXCEPT ![d].busy = FALSE]
    /\ outdated' = outdated \cup CurrentJob(d)
    /\ UNCHANGED <<revision, deleted, threads, ran, written>>

-----------------------------------------------------------------------------
(* The dispatcher                                                           *)

TakeSlot(p) ==
    /\ Up(p) /\ free[p] > 0
    /\ free' = [free EXCEPT ![p] = @ - 1]
    /\ dispatching' = [dispatching EXCEPT ![p] = @ + 1]
    /\ UNCHANGED <<store, status, work, history>>

GiveBack(p) ==
    /\ Up(p) /\ dispatching[p] > 0
    /\ dispatching' = [dispatching EXCEPT ![p] = @ - 1]
    /\ free' = [free EXCEPT ![p] = @ + 1]
    /\ UNCHANGED <<status, work, ran, written>>

\* Every claim first interrupts all expired claims, of any deck.
Recovered == [j \in Jobs |-> IF Expired(j) THEN AfterExpiry(j) ELSE jobs[j]]
SessionsRecovered(d) ==
    [e \in Decks |->
        IF session[e].turn # None /\ Expired(session[e].turn)
        THEN [session[e] EXCEPT !.busy = FALSE] ELSE session[e]]

Crowded == Cardinality({j \in Jobs : Recovered[j].state = "running"}) >= MaxRunning

Queued(d) == {j \in CurrentJob(d) : jobs[j].state = "queued"}

\* Nothing to start: no running place, or no queued turn.
ClaimNothing(p, d) ==
    /\ d \notin deleted /\ (Crowded \/ Queued(d) = {})
    /\ jobs' = Recovered /\ session' = SessionsRecovered(d)
    /\ outdated' = outdated \cup ExpiredJobs
    /\ UNCHANGED <<revision, deleted>>
    /\ GiveBack(p)

\* The queued turn was written for another revision of the deck.
ClaimStale(p, d) ==
    /\ d \notin deleted /\ ~Crowded
    /\ \E j \in Queued(d) :
         /\ ~Writable(p, d, j)
         /\ jobs' = [Recovered EXCEPT ![j].state = "superseded"]
    /\ session' = [SessionsRecovered(d) EXCEPT ![d].busy = FALSE]
    /\ outdated' = outdated \cup ExpiredJobs
    /\ UNCHANGED <<revision, deleted>>
    /\ GiveBack(p)

\* The deck was deleted after the dispatcher had listed it: claim raises.
ClaimDeleted(p, d) == d \in deleted /\ GiveBack(p) /\ UNCHANGED <<store, outdated>>

RunningRow(row, p) == [row EXCEPT !.state = "running", !.owner = p, !.lease = "fresh"]

ClaimJob(p, d) ==
    /\ Up(p) /\ dispatching[p] > 0
    /\ d \notin deleted /\ ~Crowded
    /\ \E j \in Queued(d) :
         /\ Writable(p, d, j)
         /\ jobs' = [Recovered EXCEPT ![j] = RunningRow(@, p)]
         /\ work' = [work EXCEPT ![j] = "claimed"]
    /\ session' = SessionsRecovered(d)
    /\ outdated' = outdated \cup ExpiredJobs
    /\ dispatching' = [dispatching EXCEPT ![p] = @ - 1]
    /\ UNCHANGED <<revision, deleted, status, free, ran, written>>

Claim(p, d) ==
    ClaimNothing(p, d) \/ ClaimStale(p, d) \/ ClaimDeleted(p, d) \/ ClaimJob(p, d)

-----------------------------------------------------------------------------
(* The worker.  It runs in the process that claimed the job.                *)

Worker(j, phase) == work[j] = phase
Host(j) == jobs[j].owner
Goes(j, phase) == work' = [work EXCEPT ![j] = phase]

Submit(j) ==
    /\ Worker(j, "claimed") /\ Goes(j, "submitted")
    /\ UNCHANGED <<store, status, free, dispatching, history>>

\* The executor is shut down: the claim returns to the queue.
Released(j) ==
    IF jobs[j].state = "running"
    THEN [jobs EXCEPT ![j] = [@ EXCEPT !.state = "queued", !.owner = None, !.lease = "fresh"]]
    ELSE jobs
SlipReleaseClaimKeepsSlot(j) ==
    /\ Worker(j, "claimed") /\ Goes(j, "idle")
    /\ jobs' = Released(j)
    /\ UNCHANGED <<revision, deleted, session, status, free, dispatching, history>>
ReleaseClaim(j) ==
    /\ Worker(j, "claimed") /\ Goes(j, "idle")
    /\ jobs' = Released(j)
    /\ free' = [free EXCEPT ![Host(j)] = @ + 1]
    /\ UNCHANGED <<revision, deleted, session, status, dispatching, history>>

\* The first check of stopped(), then run_turn.
EnterTurn(j) ==
    /\ Worker(j, "submitted") /\ Wanted(j) /\ Goes(j, "running")
    /\ ran' = ran \cup {j}
    /\ UNCHANGED <<store, status, free, dispatching, outdated, written>>

\* stopped() also reads the turn's budget, closed or expired at any moment.
Abandon(j) ==
    /\ work[j] \in {"submitted", "running"} /\ Goes(j, "invalidating")
    /\ UNCHANGED <<store, status, free, dispatching, history>>

\* A provider call: checked, put on record, made, put on record again.  Calls
\* of a turn follow one another; one stands for all (bound).
CheckCall(j) ==
    /\ j \in Callers /\ Worker(j, "running") /\ jobs[j].calls = "none"
    /\ Wanted(j) /\ Goes(j, "checked")
    /\ UNCHANGED <<store, status, free, dispatching, history>>

Checkpoint(j, from, to, mark) ==
    /\ Worker(j, from) /\ Goes(j, to)
    /\ jobs' = IF Current(Host(j), j) THEN [jobs EXCEPT ![j].calls = mark] ELSE jobs
    /\ UNCHANGED <<revision, deleted, session, status, free, dispatching, history>>
StartCall(j) == Checkpoint(j, "checked", "calling", "started")
EndCall(j) == Checkpoint(j, "calling", "running", "finished")

\* A tool result reaches the conversation, or is dropped.
Append(j) ==
    /\ j \in Callers /\ Worker(j, "running")
    /\ Current(Host(j), j) /\ written[j] = "nothing"
    /\ written' = [written EXCEPT ![j] = "partial"]
    /\ UNCHANGED <<store, threads, outdated, ran>>

\* run_turn returns to a last check of stopped(), or raises and reports so.
LeaveTurn(j) ==
    /\ work[j] \in {"submitted", "running"} /\ Goes(j, "publishing")
    /\ UNCHANGED <<store, status, free, dispatching, history>>

\* _invalidate_job: a worker retires its own row, never a replacement's turn.
Invalidated(j) ==
    IF jobs[j].state \in ActiveStates
    THEN [jobs EXCEPT ![j].state = IF Expired(j) THEN "interrupted" ELSE "superseded"]
    ELSE jobs
Idled(j) ==
    IF jobs[j].state \in ActiveStates /\ session[jobs[j].deck].turn = j
    THEN [session EXCEPT ![jobs[j].deck].busy = FALSE]
    ELSE session

Publish(j) ==
    /\ Current(Host(j), j)
    /\ jobs' = [jobs EXCEPT ![j].state =
         IF jobs[j].calls = "started" THEN "interrupted" ELSE "completed"]
    /\ session' = [session EXCEPT ![jobs[j].deck].busy = FALSE]
    /\ written' = [written EXCEPT ![j] = "final"]
Discard(j) ==
    /\ ~Current(Host(j), j)
    /\ jobs' = Invalidated(j) /\ session' = Idled(j)
    /\ UNCHANGED written

\* finish: publishes the answer if the turn still is the current one.
Finish(j) ==
    /\ Worker(j, "publishing") /\ Goes(j, "retiring")
    /\ Publish(j) \/ Discard(j)
    /\ UNCHANGED <<revision, deleted, status, free, dispatching, outdated, ran>>

Invalidate(j) ==
    /\ Worker(j, "invalidating") /\ Goes(j, "retiring")
    /\ jobs' = Invalidated(j) /\ session' = Idled(j)
    /\ UNCHANGED <<revision, deleted, status, free, dispatching, history>>

\* The store may fail (the database is locked, the deck is gone).  After a
\* failure the worker tries finish once more; then the row is left to its lease.
StoreFails(j) ==
    /\ \/ Worker(j, "invalidating") /\ Goes(j, "publishing")
       \/ Worker(j, "publishing") /\ Goes(j, "retiring")
    /\ UNCHANGED <<store, status, free, dispatching, history>>

Retire(j) ==
    /\ Worker(j, "retiring") /\ Goes(j, "idle")
    /\ free' = [free EXCEPT ![Host(j)] = @ + 1]
    /\ UNCHANGED <<store, status, dispatching, history>>

-----------------------------------------------------------------------------
(* Leases and processes                                                     *)

\* The deadline approaches (90 s away at most) and passes.
LeaseAges(j) ==
    /\ j \in Lapsing /\ jobs[j].state = "running" /\ jobs[j].lease # "lapsed"
    /\ jobs' = [jobs EXCEPT ![j].lease = IF @ = "fresh" THEN "due" ELSE "lapsed"]
    /\ UNCHANGED <<revision, deleted, session, threads, history>>

\* The worker's second thread, every 20 s, from its start to its retirement.
SlipRenewable(j) == jobs[j].lease # "fresh"
Renewable(j) == jobs[j].lease = "due"
Heartbeat(j) ==
    /\ work[j] \notin {"idle", "claimed"} /\ jobs[j].state = "running" /\ Renewable(j)
    /\ jobs' = [jobs EXCEPT ![j].lease = "fresh"]
    /\ UNCHANGED <<revision, deleted, session, threads, history>>

Start(p) ==
    /\ status[p] = "new"
    /\ status' = [status EXCEPT ![p] = "up"]
    /\ UNCHANGED <<store, free, dispatching, work, history>>

\* A process dies with its threads.  Bound: the last identity does not.
Crash(p) ==
    /\ Up(p) /\ \E q \in Processes \ {p} : status[q] \in {"new", "up"}
    /\ status' = [status EXCEPT ![p] = "down"]
    /\ free' = [free EXCEPT ![p] = Slots]
    /\ dispatching' = [dispatching EXCEPT ![p] = 0]
    /\ work' = [j \in Jobs |-> IF Host(j) = p THEN "idle" ELSE work[j]]
    /\ UNCHANGED <<store, history>>

\* An unrelated program is given the pid of a dead server process.
Recycle(p) ==
    /\ status[p] = "down"
    /\ status' = [status EXCEPT ![p] = "recycled"]
    /\ UNCHANGED <<store, free, dispatching, work, history>>

-----------------------------------------------------------------------------
Requested(d, j) ==
    \E rev \in 0..revision[d] : Begin(d, j, rev) \/ Steer(d, j, rev)
DeckStep(d) ==
    Stop(d) \/ Settings(d) \/ EditDeck(d) \/ DeleteDeck(d) \/ Recover(d)
WorkerStep(j) ==
    \/ Submit(j) \/ ReleaseClaim(j) \/ EnterTurn(j) \/ Abandon(j)
    \/ CheckCall(j) \/ StartCall(j) \/ EndCall(j) \/ Append(j) \/ LeaveTurn(j)
    \/ Finish(j) \/ Invalidate(j) \/ StoreFails(j) \/ Retire(j)
ProcessStep(p) == Start(p) \/ Crash(p) \/ Recycle(p) \/ TakeSlot(p)

Next ==
    \/ \E d \in Decks, j \in Jobs : Requested(d, j)
    \/ \E d \in Decks : DeckStep(d)
    \/ \E p \in Processes, d \in Decks : Claim(p, d)
    \/ \E j \in Jobs : WorkerStep(j) \/ LeaseAges(j) \/ Heartbeat(j)
    \/ \E p \in Processes : ProcessStep(p)

Spec == Init /\ [][Next]_vars

-----------------------------------------------------------------------------
(* Safety                                                                   *)

\* A session is busy exactly while its turn is queued or running, and no other
\* job of its deck is: stop, steering, recovery, claims and late workers all
\* keep the two tables in step.
BusyIffActive ==
    /\ \A d \in Decks : session[d].busy <=> CurrentJob(d) # {}
    /\ \A j \in ActiveJobs : session[jobs[j].deck].turn = j

\* At most MaxRunning jobs run, whichever processes claimed them, and at most
\* MaxActive are admitted, although steering replaces a job while it is counted.
RunningBounded == Cardinality({j \in Jobs : jobs[j].state = "running"}) <= MaxRunning
ActiveBounded == Cardinality(ActiveJobs) <= MaxActive

\* Permits are neither lost nor invented: those not free are held by a thread
\* that is dispatching, or by a worker, even one whose job was superseded.
SlotsConserved ==
    \A p \in Processes :
        free[p] + dispatching[p] + Cardinality({j \in Jobs : work[j] # "idle" /\ Host(j) = p})
            = Slots

\* Work that entered the runtime may have had effects: it never queues again.
RunsOnce == \A j \in ran : jobs[j].state # "queued"

\* A worker whose writes would still be accepted has its provider call on record.
CallsOnRecord ==
    \A j \in Jobs : work[j] = "calling" /\ Current(Host(j), j) => jobs[j].calls = "started"

\* Nothing is written for a job after it was stopped, steered away, declared
\* interrupted, or its deck was edited or deleted.
LateResultsDiscarded ==
    [][\A j \in Jobs : written'[j] # written[j] => j \notin outdated]_vars

\* A job that ended stays as it ended, until its deck is deleted; interrupted
\* work can only be overtaken or stopped.
EndedStaysEnded ==
    [][\A j \in Jobs :
        /\ jobs[j].state \in {"completed", "stopped", "superseded"} =>
             jobs'[j].state \in {jobs[j].state, "deleted"}
        /\ jobs[j].state = "interrupted" =>
             jobs'[j].state \in {"interrupted", "stopped", "superseded", "deleted"}]_vars

-----------------------------------------------------------------------------
(* Liveness                                                                 *)

\* A server is restarted, an open page polls its deck and drains the queue
\* (a poll finds a permit that is free again and again), threads run, provider
\* calls and turns end, and time passes for a lease nobody renews.
Fairness ==
    /\ \A p \in Processes :
         WF_vars(Start(p)) /\ WF_vars(TakeSlot(p)) /\ WF_vars(\E d \in Decks : Claim(p, d))
    /\ \A d \in Decks :
         /\ WF_vars(Recover(d))
         /\ SF_vars(\E p \in Processes : ClaimStale(p, d) \/ ClaimJob(p, d))
    /\ \A j \in Jobs :
         /\ WF_vars(WorkerStep(j)) /\ SF_vars(Submit(j))
         /\ WF_vars(work[j] = "idle" /\ LeaseAges(j))

FairSpec == Spec /\ Fairness

\* Every request ends: a session does not stay busy, whatever crashes.
Settles == \A d \in Decks : session[d].busy ~> ~session[d].busy
=============================================================================
