----------------------------- MODULE MCProgress -----------------------------
(* Small instances of components whose work must end, in one run: they share *)
(* nothing, so a behaviour is one of a component while the others rest.      *)
EXTENDS ProviderCalls, TLC

CONSTANTS a, b, c, ledger1, Decks, Requests, Processes, MaxActive, MaxRunning, Slots,
          MaxRevision, Callers, Lapsing, Deletable, BuildJobs, Workers,
          MaxWriteFailures, LockLasts, MaxRestarts, Alternatives, Pages, MaxEdits

VARIABLES
    part,                              \* the component that acts
    revision, deleted, session, jobs, status, slots, dispatching, work, outdated,
    ran, written,
    job, candidates, route, up, queue, worker, failures, restarts,
    deck, receipts, row, old, stop, trial, request, late

jobsVars == <<revision, deleted, session, jobs, status, slots, dispatching, work,
              outdated, ran, written>>
buildsVars == <<job, candidates, route, up, queue, worker, failures, restarts>>
trialsVars == <<deck, receipts, row, old, stop, trial, request, late>>
allVars == <<part, vars, jobsVars, buildsVars, trialsVars>>

\* Two generations of one ledger, and one without a ledger, wrapped twice.
SomeLedgers == a :> ledger1 @@ b :> ledger1 @@ c :> None
SomeWrappers == a :> 1 @@ b :> 1 @@ c :> 2

Queue == INSTANCE AssistantJobs WITH
    Jobs <- Requests, free <- slots
Builder == INSTANCE DeckBuilds WITH
    Jobs <- BuildJobs
Trials == INSTANCE Experiments WITH
    Requests <- Pages, MaxRevision <- MaxEdits, worker <- trial

ASSUME Constants ==
    /\ Queue!JobConstants
    /\ ProviderConstants
    /\ Builder!BuildsAssumption
    /\ Trials!ExperimentsAssumption

AllInit ==
    /\ part \in {"jobs", "calls", "builds", "trials"}
    /\ Queue!Init
    /\ Init
    /\ Builder!Init
    /\ Trials!Init

AllNext ==
    \/ part = "jobs" /\ Queue!Next /\ UNCHANGED <<part, vars, buildsVars, trialsVars>>
    \/ part = "calls" /\ Next /\ UNCHANGED <<part, jobsVars, buildsVars, trialsVars>>
    \/ part = "builds" /\ Builder!Next /\ UNCHANGED <<part, jobsVars, vars, trialsVars>>
    \/ part = "trials" /\ Trials!Next /\ UNCHANGED <<part, jobsVars, vars, buildsVars>>

AllSpec == AllInit /\ [][AllNext]_allVars

\* The fairness each module states, asked of the component that acts.
QueueServed ==
    /\ \A p \in Processes :
         /\ WF_jobsVars(part = "jobs" /\ Queue!Start(p))
         /\ WF_jobsVars(part = "jobs" /\ Queue!TakeSlot(p))
         /\ WF_jobsVars(part = "jobs" /\ \E d \in Decks : Queue!Claim(p, d))
    /\ \A d \in Decks :
         /\ WF_jobsVars(part = "jobs" /\ Queue!Recover(d))
         /\ SF_jobsVars(part = "jobs" /\ \E p \in Processes : Queue!ClaimStale(p, d) \/ Queue!ClaimJob(p, d))
    /\ \A j \in Requests :
         /\ WF_jobsVars(part = "jobs" /\ Queue!WorkerStep(j))
         /\ SF_jobsVars(part = "jobs" /\ Queue!Submit(j))
         /\ WF_jobsVars(part = "jobs" /\ work[j] = "idle" /\ Queue!LeaseAges(j))
CallsServed == \A g \in Calls : WF_vars(part = "calls" /\ Thread(g))
BuildsServed ==
    /\ WF_buildsVars(part = "builds" /\ Builder!Take)
    /\ WF_buildsVars(part = "builds" /\ Builder!Boot)
    /\ \A j \in BuildJobs :
         /\ WF_buildsVars(part = "builds" /\ Builder!Submit(j))
         /\ WF_buildsVars(part = "builds" /\ Builder!WorkerStep(j))
TrialsWatched ==
    /\ WF_trialsVars(part = "trials" /\ Trials!TimePasses)
    /\ \A q \in Pages :
         /\ SF_trialsVars(part = "trials" /\ Trials!View(q))
         /\ SF_trialsVars(part = "trials" /\ Trials!Read(q))
         /\ SF_trialsVars(part = "trials" /\ Trials!Expire(q))

AllFair == AllSpec /\ QueueServed /\ CallsServed /\ BuildsServed /\ TrialsWatched

-----------------------------------------------------------------------------
\* Every request ends: a session does not stay busy, whatever crashes, although a poll
\* may find every slot taken.
Settles == part = "jobs" => Queue!Settles

\* Every generation ends, whatever the provider does: nobody waits for ever for a
\* permit or for the lock of its ledger.
GenerationsEnd == part = "calls" => CallsEnd

\* Every stored build ends, although its worker's writes may fail and the server may
\* restart.
BuildsEnd == part = "builds" => Builder!BuildsEnd

\* An experiment somebody keeps looking at ends, also when its worker died before or
\* during the run.
ExperimentsEnd == part = "trials" => Trials!ExperimentsEnd
=============================================================================
