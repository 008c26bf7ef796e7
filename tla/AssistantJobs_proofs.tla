------------------------ MODULE AssistantJobs_proofs ------------------------
(***************************************************************************)
(* Proofs about AssistantJobs, for every value of its constants.           *)
(***************************************************************************)
EXTENDS AssistantJobs, FiniteSetTheorems, TLAPS

\* Rows and sessions refer to each other: a row in use has a deck, the turn of
\* a session is a row of its deck, an active row is the turn of a busy session.
Placed(j) ==
    /\ jobs[j].state # "none" => jobs[j].deck \in Decks
    /\ jobs[j].state = "none" => work[j] = "idle" /\ j \notin ran \cup outdated /\ jobs[j].deck = None
    /\ jobs[j].state \in ActiveStates =>
         /\ session[jobs[j].deck].turn = j /\ session[jobs[j].deck].busy
         /\ jobs[j].deck \notin deleted
TurnPlaced(d) ==
    /\ session[d].turn # None =>
         jobs[session[d].turn].deck = d /\ jobs[session[d].turn].state # "none"
    /\ session[d].busy =>
         session[d].turn # None /\ jobs[session[d].turn].state \in ActiveStates
    /\ session[d].revision <= revision[d]

\* A worker has its job's claim; a job that ran is not in the queue, nor about
\* to return to it.
Claimed(j) ==
    /\ work[j] # "idle" => jobs[j].owner \in Processes /\ jobs[j].state # "queued"
    /\ j \in ran => jobs[j].state # "queued" /\ work[j] # "claimed"

\* An outdated job is still active only where its deck has moved on.
Behind(j) ==
    j \in outdated /\ jobs[j].state \in ActiveStates =>
        session[jobs[j].deck].revision < revision[jobs[j].deck]

IInv ==
    /\ TypeOK
    /\ \A j \in Jobs : Placed(j) /\ Claimed(j) /\ Behind(j)
    /\ \A d \in Decks : TurnPlaced(d)

Structure == /\ \A j \in Jobs : Placed(j) /\ Claimed(j) /\ Behind(j)
             /\ \A d \in Decks : TurnPlaced(d)

LEMMA InitIInv == Init => IInv
  BY JobConstants DEF Init, IInv, TypeOK, Row, NoRow, JobStates, ActiveStates, Phases,
     Placed, Claimed, Behind, TurnPlaced

\* Changing one field of a row gives a row, and leaves the others.
LEMMA RowState ==
  ASSUME NEW r \in Row, NEW s \in JobStates
  PROVE  LET q == [r EXCEPT !.state = s]
         IN  q \in Row /\ q.state = s /\ q.deck = r.deck /\ q.owner = r.owner
  BY DEF Row

LEMMA CancelledRows ==
  ASSUME TypeOK, NEW d \in Decks, NEW s \in JobStates
  PROVE  /\ Cancelled(d, s) \in [Jobs -> Row]
         /\ \A j \in Jobs :
              /\ Cancelled(d, s)[j].deck = jobs[j].deck
              /\ Cancelled(d, s)[j].owner = jobs[j].owner
              /\ Cancelled(d, s)[j].state =
                   IF j = session[d].turn /\ jobs[j].state \in ActiveStates \cup {"interrupted"}
                   THEN s ELSE jobs[j].state
<1>1. \A j \in Jobs : jobs[j] \in Row
  BY DEF TypeOK
<1> QED
  BY <1>1, RowState DEF Cancelled

LEMMA NewRow ==
  ASSUME NEW d \in Decks, NEW g \in Nat, NEW rev \in Nat
  PROVE  /\ QueuedRow(d, g, rev) \in Row
         /\ QueuedRow(d, g, rev).state = "queued"
         /\ QueuedRow(d, g, rev).deck = d /\ QueuedRow(d, g, rev).owner = None
  BY DEF QueuedRow, NoRow, Row, JobStates, ActiveStates

LEMMA NewJobRows ==
  ASSUME TypeOK, NEW d \in Decks, NEW j \in Jobs, NEW rev \in 0..revision[d], NewJob(d, j, rev)
  PROVE  /\ jobs' \in [Jobs -> Row]
         /\ jobs'[j].state = "queued" /\ jobs'[j].deck = d /\ jobs'[j].owner = None
         /\ \A i \in Jobs \ {j} :
              /\ jobs'[i].deck = jobs[i].deck /\ jobs'[i].owner = jobs[i].owner
              /\ jobs'[i].state =
                   IF i = session[d].turn /\ jobs[i].state \in ActiveStates \cup {"interrupted"}
                   THEN "superseded" ELSE jobs[i].state
<1>1. rev \in Nat /\ session[d].generation + 1 \in Nat
  BY DEF TypeOK
<1>2. "superseded" \in JobStates
  BY DEF JobStates
<1> DEFINE r == QueuedRow(d, session[d].generation + 1, rev)
           c == Cancelled(d, "superseded")
<1>3. r \in Row /\ r.state = "queued" /\ r.deck = d /\ r.owner = None
  BY <1>1, NewRow
<1>4. c \in [Jobs -> Row]
  BY <1>2, CancelledRows
<1>5. \A i \in Jobs :
        /\ c[i].deck = jobs[i].deck /\ c[i].owner = jobs[i].owner
        /\ c[i].state =
             IF i = session[d].turn /\ jobs[i].state \in ActiveStates \cup {"interrupted"}
             THEN "superseded" ELSE jobs[i].state
  BY <1>2, CancelledRows
<1>6. jobs' = [c EXCEPT ![j] = r]
  BY DEF NewJob
<1> HIDE DEF r, c
<1>7. /\ jobs' \in [Jobs -> Row] /\ jobs'[j] = r
      /\ \A i \in Jobs \ {j} : jobs'[i] = c[i]
  BY <1>3, <1>4, <1>6
<1> QED
  BY <1>3, <1>5, <1>7

LEMMA NewJobType ==
  ASSUME IInv, NEW d \in Decks, NEW j \in Jobs, NEW rev \in 0..revision[d], NewJob(d, j, rev)
  PROVE  TypeOK'
<1>1. jobs' \in [Jobs -> Row]
  BY NewJobRows DEF IInv
<1>2. session' \in [Decks -> [busy : BOOLEAN, turn : Jobs \cup {None},
                              generation : Nat, revision : Nat]]
  BY DEF IInv, TypeOK, NewJob
<1>3. outdated' \subseteq Jobs
  BY DEF IInv, TypeOK, NewJob, CurrentJob
<1>4. UNCHANGED <<revision, deleted, status, free, dispatching, work, ran, written>>
  BY DEF NewJob, threads
<1> QED
  BY <1>1, <1>2, <1>3, <1>4 DEF IInv, TypeOK

LEMMA NewJobStructure ==
  ASSUME IInv, NEW d \in Decks, NEW j \in Jobs, NEW rev \in 0..revision[d], NewJob(d, j, rev)
  PROVE  Structure'
<1>1. /\ session'[d] = [busy |-> TRUE, turn |-> j, generation |-> session[d].generation + 1,
                        revision |-> rev]
      /\ \A e \in Decks \ {d} : session'[e] = session[e]
  BY DEF IInv, TypeOK, NewJob
<1>2. /\ UNCHANGED <<revision, deleted, work, ran>> /\ d \notin deleted
      /\ jobs[j].state = "none"
      /\ outdated' = outdated \cup CurrentJob(d) \cup {i \in {j} : rev # revision[d]}
  BY DEF NewJob, threads, Serving
<1>3. TypeOK /\ rev \in Nat /\ revision[d] \in Nat /\ rev <= revision[d]
  BY JobConstants DEF IInv, TypeOK
<1>4. ASSUME NEW i \in Jobs PROVE (Placed(i) /\ Claimed(i) /\ Behind(i))'
  <2>1. CASE i = j
    <3>1. jobs'[j].state = "queued" /\ jobs'[j].deck = d
      BY <1>3, NewJobRows
    <3>2. work[j] = "idle" /\ j \notin ran \cup outdated
      BY <1>2 DEF IInv, Placed
    <3>3. j \in outdated' => rev < revision[d]
      BY <1>2, <1>3, <3>2 DEF CurrentJob, ActiveStates
    <3> QED
      BY <2>1, <3>1, <3>2, <3>3, <1>1, <1>2 DEF Placed, Claimed, Behind, ActiveStates
  <2>2. CASE i # j
    <3>1. jobs'[i].deck = jobs[i].deck /\ jobs'[i].owner = jobs[i].owner
      BY <2>2, <1>3, NewJobRows
    <3>2. \/ jobs'[i].state = jobs[i].state
          \/ (jobs'[i].state = "superseded" /\ jobs[i].state # "none")
      BY <2>2, <1>3, NewJobRows DEF ActiveStates
    <3>3. jobs'[i].state \in ActiveStates =>
            jobs[i].state \in ActiveStates /\ i # session[d].turn /\ jobs[i].deck # d
      BY <2>2, <1>3, NewJobRows DEF ActiveStates, IInv, Placed
    <3> QED
      BY <3>1, <3>2, <3>3, <1>1, <1>2, <2>2 DEF IInv, Placed, Claimed, Behind, ActiveStates, CurrentJob
  <2> QED
    BY <2>1, <2>2
<1>5. ASSUME NEW e \in Decks PROVE TurnPlaced(e)'
  <2>1. CASE e = d
    BY <2>1, <1>1, <1>2, <1>3, NewJobRows, JobConstants DEF TurnPlaced, ActiveStates
  <2>2. CASE e # d
    <3>1. session'[e] = session[e] /\ TurnPlaced(e) /\ session[e].turn \in Jobs \cup {None}
      BY <2>2, <1>1 DEF IInv, TypeOK
    <3>2. session[e].turn # None => session[e].turn # j /\ session[e].turn # session[d].turn
      BY <3>1, <2>2, <1>2 DEF IInv, TurnPlaced
    <3>3. ASSUME session[e].turn # None
          PROVE  LET t == session[e].turn
                 IN  jobs'[t].deck = jobs[t].deck /\ jobs'[t].state = jobs[t].state
      BY <3>1, <3>2, <3>3, <1>3, NewJobRows
    <3> QED
      BY <3>1, <3>3, <1>2 DEF TurnPlaced
  <2> QED
    BY <2>1, <2>2
<1> QED
  BY <1>4, <1>5 DEF Structure

-----------------------------------------------------------------------------
(* Every other action keeps the decks of the rows, admits no job and moves no *)
(* turn; it preserves the structure if it ends jobs, idles sessions and moves *)
(* workers together.                                                          *)

Together ==
    /\ \A i \in Jobs :
         /\ jobs'[i].deck = jobs[i].deck
         /\ jobs'[i].state = "none" <=> jobs[i].state = "none"
         /\ jobs'[i].state \in ActiveStates =>
              /\ jobs[i].state \in ActiveStates
              /\ session'[jobs[i].deck] = session[jobs[i].deck]
              /\ jobs[i].deck \notin deleted'
              /\ i \in outdated' \ outdated =>
                   session[jobs[i].deck].revision < revision'[jobs[i].deck]
         /\ i \in outdated' \ outdated => jobs[i].state # "none"
         /\ work'[i] # "idle" => jobs'[i].owner \in Processes /\ jobs'[i].state \notin {"none", "queued"}
         /\ i \in ran' => jobs'[i].state \notin {"none", "queued"} /\ work'[i] # "claimed"
    /\ \A d \in Decks :
         /\ session'[d].turn \in {session[d].turn, None}
         /\ session'[d].busy =>
              /\ session[d].busy /\ session'[d].turn = session[d].turn
              /\ jobs'[session[d].turn].state \in ActiveStates
         /\ session'[d].revision = session[d].revision
         /\ revision'[d] >= revision[d]

LEMMA StepStructure ==
  ASSUME IInv, TypeOK', Together
  PROVE  Structure'
<1>1. \A d \in Decks : /\ revision[d] \in Nat /\ revision'[d] \in Nat
                       /\ session[d].revision \in Nat
  BY JobConstants DEF IInv, TypeOK
<1>2. ASSUME NEW i \in Jobs PROVE Placed(i)'
  BY <1>2 DEF IInv, Together, Placed, ActiveStates
<1>3. ASSUME NEW i \in Jobs PROVE Claimed(i)'
  BY <1>3 DEF Together, Claimed
<1>4. ASSUME NEW i \in Jobs PROVE Behind(i)'
  <2>1. SUFFICES ASSUME i \in outdated', jobs'[i].state \in ActiveStates
                 PROVE  session'[jobs'[i].deck].revision < revision'[jobs'[i].deck]
    BY DEF Behind
  <2>2. jobs[i].deck \in Decks /\ jobs[i].state \in ActiveStates
    BY <2>1 DEF IInv, Together, Placed, ActiveStates
  <2>3. CASE i \in outdated
    BY <2>1, <2>2, <2>3, <1>1 DEF IInv, Together, Behind
  <2>4. CASE i \notin outdated
    BY <2>1, <2>2, <2>4, <1>1 DEF IInv, Together
  <2> QED
    BY <2>3, <2>4
<1>5. ASSUME NEW d \in Decks PROVE TurnPlaced(d)'
  <2>1. TurnPlaced(d) /\ session[d].turn \in Jobs \cup {None}
    BY DEF IInv, TypeOK
  <2> QED
    BY <2>1, <1>1 DEF Together, TurnPlaced
<1> QED
  BY <1>2, <1>3, <1>4, <1>5 DEF Structure

-----------------------------------------------------------------------------
(* What the operators on rows and sessions return                           *)

SessionType == [Decks -> [busy : BOOLEAN, turn : Jobs \cup {None},
                          generation : Nat, revision : Nat]]

LEMMA Fields ==
  ASSUME TypeOK, NEW j \in Jobs
  PROVE  /\ jobs[j] \in Row /\ jobs[j].state \in JobStates
         /\ jobs[j].owner \in Processes \cup {None}
  BY DEF TypeOK, Row

\* One row changes its state: the others do not.
LEMMA OneState ==
  ASSUME TypeOK, NEW j \in Jobs, NEW s \in JobStates
  PROVE  LET js == [jobs EXCEPT ![j].state = s]
         IN  /\ js \in [Jobs -> Row]
             /\ \A i \in Jobs : /\ js[i].deck = jobs[i].deck /\ js[i].owner = jobs[i].owner
                                /\ js[i].state = IF i = j THEN s ELSE jobs[i].state
<1> DEFINE js == [jobs EXCEPT ![j].state = s]
<1>1. jobs \in [Jobs -> Row]
  BY DEF TypeOK
<1>2. js[j] = [jobs[j] EXCEPT !.state = s] /\ \A i \in Jobs \ {j} : js[i] = jobs[i]
  BY <1>1
<1>3. js[j] \in Row /\ js[j].state = s /\ js[j].deck = jobs[j].deck /\ js[j].owner = jobs[j].owner
  BY <1>1, <1>2, RowState
<1>4. js \in [Jobs -> Row]
  BY <1>1, <1>2, <1>3
<1> QED
  BY <1>2, <1>3, <1>4

LEMMA RecoveredRows ==
  ASSUME TypeOK
  PROVE  /\ Recovered \in [Jobs -> Row]
         /\ \A i \in Jobs :
              /\ Recovered[i].deck = jobs[i].deck /\ Recovered[i].owner = jobs[i].owner
              /\ Recovered[i].state = IF Expired(i) THEN "interrupted" ELSE jobs[i].state
<1>1. "interrupted" \in JobStates
  BY DEF JobStates
<1> QED
  BY <1>1, RowState, Fields DEF Recovered, AfterExpiry

LEMMA IdleSession ==
  ASSUME TypeOK, NEW d \in Decks
  PROVE  LET ss == [session EXCEPT ![d].busy = FALSE]
         IN  /\ ss \in SessionType
             /\ \A e \in Decks \ {d} : ss[e] = session[e]
             /\ ~ss[d].busy /\ ss[d].turn = session[d].turn
             /\ ss[d].revision = session[d].revision
  BY DEF TypeOK, SessionType

LEMMA RecoveredSessions ==
  ASSUME TypeOK, NEW d \in Decks
  PROVE  /\ SessionsRecovered(d) \in SessionType
         /\ \A e \in Decks :
              /\ SessionsRecovered(d)[e].turn = session[e].turn
              /\ SessionsRecovered(d)[e].revision = session[e].revision
              /\ IF session[e].turn # None /\ Expired(session[e].turn)
                 THEN ~SessionsRecovered(d)[e].busy
                 ELSE SessionsRecovered(d)[e] = session[e]
  BY DEF TypeOK, SessionType, SessionsRecovered

LEMMA InvalidatedRows ==
  ASSUME TypeOK, NEW j \in Jobs
  PROVE  /\ Invalidated(j) \in [Jobs -> Row]
         /\ \A i \in Jobs :
              /\ Invalidated(j)[i].deck = jobs[i].deck /\ Invalidated(j)[i].owner = jobs[i].owner
              /\ IF i = j /\ jobs[j].state \in ActiveStates
                 THEN Invalidated(j)[i].state \in {"interrupted", "superseded"}
                 ELSE Invalidated(j)[i].state = jobs[i].state
<1>1. {"interrupted", "superseded"} \subseteq JobStates
  BY DEF JobStates
<1>2. CASE jobs[j].state \in ActiveStates
  BY <1>1, <1>2, OneState DEF Invalidated
<1>3. CASE jobs[j].state \notin ActiveStates
  BY <1>3 DEF Invalidated, TypeOK
<1> QED
  BY <1>2, <1>3

\* The type of the rest of the state, which most actions keep or change simply.
LEMMA SameThreads ==
  ASSUME TypeOK, UNCHANGED threads
  PROVE  /\ status' \in [Processes -> {"new", "up", "down", "recycled"}]
         /\ free' \in [Processes -> Nat] /\ dispatching' \in [Processes -> Nat]
         /\ work' \in [Jobs -> Phases]
  BY DEF TypeOK, threads, Phases

\* A quiet step changes no state, deck or claim of a row, and no session.
LEMMA Quiet ==
  ASSUME IInv, TypeOK', UNCHANGED <<session, revision, deleted, outdated>>,
         \A i \in Jobs : /\ jobs'[i].state = jobs[i].state /\ jobs'[i].deck = jobs[i].deck
                         /\ jobs'[i].owner = jobs[i].owner
                         /\ \/ work'[i] \in {work[i], "idle"}
                            \/ work[i] # "idle" /\ work'[i] # "claimed"
                         /\ i \in ran' => i \in ran \/ (work[i] # "idle" /\ work'[i] # "claimed")
  PROVE  Structure'
<1>1. \A d \in Decks : revision[d] \in Nat
  BY JobConstants DEF IInv, TypeOK
<1>2. ASSUME NEW i \in Jobs
      PROVE  /\ jobs'[i].deck = jobs[i].deck
             /\ jobs'[i].state = "none" <=> jobs[i].state = "none"
             /\ jobs'[i].state \in ActiveStates =>
                  /\ jobs[i].state \in ActiveStates
                  /\ session'[jobs[i].deck] = session[jobs[i].deck]
                  /\ jobs[i].deck \notin deleted'
                  /\ i \in outdated' \ outdated =>
                       session[jobs[i].deck].revision < revision'[jobs[i].deck]
             /\ i \in outdated' \ outdated => jobs[i].state # "none"
             /\ work'[i] # "idle" => /\ jobs'[i].owner \in Processes
                                     /\ jobs'[i].state \notin {"none", "queued"}
             /\ i \in ran' => jobs'[i].state \notin {"none", "queued"} /\ work'[i] # "claimed"
  BY <1>2 DEF IInv, Placed, Claimed
<1>3. ASSUME NEW d \in Decks
      PROVE  /\ session'[d].turn \in {session[d].turn, None}
             /\ session'[d].busy =>
                  /\ session[d].busy /\ session'[d].turn = session[d].turn
                  /\ jobs'[session[d].turn].state \in ActiveStates
             /\ session'[d].revision = session[d].revision
             /\ revision'[d] >= revision[d]
  <2>1. TurnPlaced(d) /\ session[d].turn \in Jobs \cup {None}
    BY DEF IInv, TypeOK
  <2> QED
    BY <1>1, <2>1 DEF TurnPlaced
<1> QED
  BY <1>2, <1>3, StepStructure DEF Together

-----------------------------------------------------------------------------
(* The quiet steps                                                          *)

LEMMA IInvParts == IInv <=> TypeOK /\ Structure
  BY DEF IInv, Structure

\* Steps of a worker that leave its row as it is.
LEMMA QuietWorker ==
  ASSUME IInv, NEW j \in Jobs, NEW phase \in Phases, Goes(j, phase),
         work[j] # "idle", phase # "claimed",
         UNCHANGED <<store, status, dispatching, outdated>>,
         free' \in [Processes -> Nat],
         ran' \subseteq ran \cup {j}, written' \in [Jobs -> {"nothing", "partial", "final"}]
  PROVE  IInv'
<1>1. TypeOK'
  BY DEF IInv, TypeOK, Goes, store
<1>2. \A i \in Jobs : work'[i] = IF i = j THEN phase ELSE work[i]
  BY DEF IInv, TypeOK, Goes
<1>3. Structure'
  BY <1>1, <1>2, Quiet DEF store
<1> QED
  BY <1>1, <1>3 DEF IInv, Structure

LEMMA WorkerPhases ==
  ASSUME IInv, NEW j \in Jobs, NEW phase \in Phases \ {"claimed", "idle"}, Goes(j, phase),
         work[j] # "idle", UNCHANGED <<store, status, free, dispatching, history>>
  PROVE  IInv'
  BY QuietWorker DEF history, IInv, TypeOK

LEMMA ThreadSteps ==
  ASSUME IInv, NEW j \in Jobs,
         \/ Submit(j) \/ Abandon(j) \/ CheckCall(j) \/ LeaveTurn(j) \/ StoreFails(j)
  PROVE  IInv'
  BY WorkerPhases DEF Submit, Abandon, CheckCall, LeaveTurn, StoreFails, Worker, Phases

LEMMA EnterTurnStep ==
  ASSUME IInv, NEW j \in Jobs, EnterTurn(j)
  PROVE  IInv'
  BY QuietWorker DEF EnterTurn, Worker, Phases, history, IInv, TypeOK

LEMMA RetireStep ==
  ASSUME IInv, NEW j \in Jobs, Retire(j)
  PROVE  IInv'
<1>1. free' \in [Processes -> Nat]
  BY DEF Retire, Worker, Host, IInv, TypeOK, Claimed
<1> QED
  BY <1>1, QuietWorker DEF Retire, Worker, Phases, history, IInv, TypeOK

LEMMA AppendStep ==
  ASSUME IInv, NEW j \in Jobs, Append(j)
  PROVE  IInv'
<1>1. TypeOK'
  BY DEF IInv, TypeOK, Append, store, threads
<1>2. Structure'
  BY <1>1, Quiet DEF Append, store, threads
<1> QED
  BY <1>1, <1>2 DEF IInv, Structure

\* A row changes its checkpoint or its lease.
LEMMA RowQuiet ==
  ASSUME IInv, NEW j \in Jobs, NEW r \in Row, jobs' \in {jobs, [jobs EXCEPT ![j] = r]},
         r.state = jobs[j].state, r.deck = jobs[j].deck, r.owner = jobs[j].owner,
         UNCHANGED <<session, revision, deleted, status, free, dispatching, history>>,
         \/ UNCHANGED work
         \/ \E phase \in Phases \ {"claimed"} : Goes(j, phase) /\ work[j] # "idle"
  PROVE  IInv'
<1>1. jobs' \in [Jobs -> Row]
  BY DEF IInv, TypeOK
<1>2. work' \in [Jobs -> Phases]
  BY DEF IInv, TypeOK, Goes
<1>3. TypeOK'
  BY <1>1, <1>2 DEF IInv, TypeOK, history
<1>4. \A i \in Jobs : /\ jobs'[i].state = jobs[i].state /\ jobs'[i].deck = jobs[i].deck
                      /\ jobs'[i].owner = jobs[i].owner
  BY DEF IInv, TypeOK
<1>5. \A i \in Jobs : work'[i] = work[i] \/ (work[i] # "idle" /\ work'[i] # "claimed")
  BY DEF IInv, TypeOK, Goes
<1>6. Structure'
  BY <1>3, <1>4, <1>5, Quiet DEF history
<1> QED
  BY <1>3, <1>6 DEF IInv, Structure

LEMMA CallSteps ==
  ASSUME IInv, NEW j \in Jobs, StartCall(j) \/ EndCall(j)
  PROVE  IInv'
<1>1. ASSUME NEW from \in Phases \ {"idle"}, NEW to \in Phases \ {"claimed"},
             NEW mark \in {"started", "finished"}, Checkpoint(j, from, to, mark)
      PROVE  IInv'
  <2> DEFINE r == [jobs[j] EXCEPT !.calls = mark]
  <2>1. /\ r \in Row /\ r.state = jobs[j].state
        /\ r.deck = jobs[j].deck /\ r.owner = jobs[j].owner
    BY Fields DEF Row, IInv
  <2>2. jobs' \in {jobs, [jobs EXCEPT ![j] = r]}
    BY <1>1 DEF Checkpoint, IInv, TypeOK
  <2>3. Goes(j, to) /\ work[j] # "idle"
    BY <1>1 DEF Checkpoint, Worker
  <2>4. UNCHANGED <<session, revision, deleted, status, free, dispatching, history>>
    BY <1>1 DEF Checkpoint
  <2> HIDE DEF r
  <2> QED
    BY <2>1, <2>2, <2>3, <2>4, RowQuiet
<1> QED
  BY <1>1 DEF StartCall, EndCall, Phases

LEMMA LeaseSteps ==
  ASSUME IInv, NEW j \in Jobs, LeaseAges(j) \/ Heartbeat(j)
  PROVE  IInv'
<1>1. ASSUME NEW l \in {"fresh", "due", "lapsed"}, jobs' = [jobs EXCEPT ![j].lease = l],
             UNCHANGED <<revision, deleted, session, threads, history>>
      PROVE  IInv'
  <2> DEFINE r == [jobs[j] EXCEPT !.lease = l]
  <2>1. /\ r \in Row /\ r.state = jobs[j].state
        /\ r.deck = jobs[j].deck /\ r.owner = jobs[j].owner
    BY Fields DEF Row, IInv
  <2>2. jobs' \in {jobs, [jobs EXCEPT ![j] = r]}
    BY <1>1 DEF IInv, TypeOK
  <2>3. UNCHANGED <<session, revision, deleted, status, free, dispatching, work, history>>
    BY <1>1 DEF threads
  <2> HIDE DEF r
  <2> QED
    BY <2>1, <2>2, <2>3, RowQuiet
<1> QED
  BY <1>1 DEF LeaseAges, Heartbeat

\* Steps of the processes, which touch no row.
LEMMA ProcessSteps ==
  ASSUME IInv, NEW p \in Processes, ProcessStep(p)
  PROVE  IInv'
<1>1. TypeOK'
  <2>1. CASE Start(p)
    BY <2>1 DEF Start, IInv, TypeOK, store, history
  <2>2. CASE Crash(p)
    BY <2>2, JobConstants DEF Crash, IInv, TypeOK, store, history, Phases
  <2>3. CASE Recycle(p)
    BY <2>3 DEF Recycle, IInv, TypeOK, store, history
  <2>4. CASE TakeSlot(p)
    BY <2>4 DEF TakeSlot, IInv, TypeOK, store, history
  <2> QED
    BY <2>1, <2>2, <2>3, <2>4 DEF ProcessStep
<1>2. UNCHANGED <<store, history>> /\ \A i \in Jobs : work'[i] \in {work[i], "idle"}
  BY DEF ProcessStep, Start, Crash, Recycle, TakeSlot, IInv, TypeOK
<1>3. Structure'
  BY <1>1, <1>2, Quiet DEF store, history
<1> QED
  BY <1>1, <1>3 DEF IInv, Structure

-----------------------------------------------------------------------------
(* The user's steps                                                         *)

LEMMA EditDeckStep ==
  ASSUME IInv, NEW d \in Decks, EditDeck(d)
  PROVE  IInv'
<1>1. TypeOK'
  BY JobConstants DEF IInv, TypeOK, EditDeck, threads, CurrentJob
<1>2. \A e \in Decks :
        /\ revision[e] \in Nat /\ session[e].revision \in Nat
        /\ session[e].revision <= revision[e]
        /\ revision'[e] = IF e = d THEN revision[e] + 1 ELSE revision[e]
  BY JobConstants DEF IInv, TypeOK, EditDeck, TurnPlaced
<1>3. ASSUME NEW i \in Jobs, i \in outdated' \ outdated
      PROVE  i = session[d].turn /\ jobs[i].deck = d /\ jobs[i].state \in ActiveStates
  BY <1>3 DEF EditDeck, CurrentJob, IInv, TurnPlaced
<1>4. UNCHANGED <<deleted, session, jobs, work, ran>>
  BY DEF EditDeck, threads
<1>5. \A i \in Jobs : Placed(i) /\ Claimed(i)
  BY DEF IInv
<1>6. \A e \in Decks : TurnPlaced(e)
  BY DEF IInv
<1>7. ASSUME NEW i \in Jobs, i \in outdated' \ outdated
      PROVE  session[jobs[i].deck].revision < revision'[jobs[i].deck] /\ jobs[i].state # "none"
  BY <1>7, <1>2, <1>3 DEF ActiveStates
<1>8. \A e \in Decks : revision'[e] >= revision[e]
  BY <1>2
<1>9. Together
  BY <1>4, <1>5, <1>6, <1>7, <1>8 DEF Together, Placed, Claimed, TurnPlaced
<1> QED
  BY <1>1, <1>9, StepStructure DEF IInv, Structure

\* Ending jobs.  The steps that end some of the active or interrupted rows,
\* idle their sessions, and leave decks, revisions and workers alone.
LEMMA Ending ==
  ASSUME IInv, TypeOK', UNCHANGED <<revision, deleted, work, ran>>,
         \A i \in Jobs :
           /\ jobs'[i].deck = jobs[i].deck /\ jobs'[i].owner = jobs[i].owner
           /\ \/ jobs'[i].state = jobs[i].state
              \/ /\ jobs[i].state \in ActiveStates \cup {"interrupted"}
                 /\ jobs'[i].state \in {"interrupted", "stopped", "superseded", "completed"}
           /\ i \in outdated' \ outdated =>
                /\ jobs[i].state \in ActiveStates
                /\ jobs'[i].state \notin ActiveStates
           /\ jobs'[i].state \in ActiveStates =>
                session'[jobs[i].deck] = session[jobs[i].deck],
         \A d \in Decks :
           /\ session'[d].turn = session[d].turn
           /\ session'[d].revision = session[d].revision
           /\ session'[d].busy =>
                session[d].busy /\ jobs'[session[d].turn].state = jobs[session[d].turn].state
  PROVE  IInv'
<1>1. \A d \in Decks : revision'[d] >= revision[d]
  BY JobConstants DEF IInv, TypeOK
<1>2. \A i \in Jobs : Placed(i) /\ Claimed(i)
  BY DEF IInv
<1>3. \A d \in Decks : TurnPlaced(d)
  BY DEF IInv
<1>4. ASSUME NEW i \in Jobs
      PROVE  /\ jobs'[i].state = "none" <=> jobs[i].state = "none"
             /\ jobs'[i].state \in ActiveStates => jobs[i].state = jobs'[i].state
             /\ jobs'[i].state = "queued" => jobs[i].state = "queued"
  BY DEF ActiveStates
<1>5. Together
  BY <1>1, <1>2, <1>3, <1>4 DEF Together, Placed, Claimed, TurnPlaced, ActiveStates
<1> QED
  BY <1>5, StepStructure DEF IInv, Structure

LEMMA EndStep ==
  ASSUME IInv, NEW d \in Decks, NEW s \in {"stopped", "superseded"}, End(d, s),
         session[d].turn # None
  PROVE  IInv'
<1>1. TypeOK /\ s \in JobStates
  BY DEF IInv, JobStates
<1>2. /\ jobs' \in [Jobs -> Row]
      /\ \A i \in Jobs :
           /\ jobs'[i].deck = jobs[i].deck /\ jobs'[i].owner = jobs[i].owner
           /\ jobs'[i].state =
                IF i = session[d].turn /\ jobs[i].state \in ActiveStates \cup {"interrupted"}
                THEN s ELSE jobs[i].state
  BY <1>1, CancelledRows DEF End
<1>3. /\ session' \in SessionType
      /\ \A e \in Decks \ {d} : session'[e] = session[e]
      /\ ~session'[d].busy /\ session'[d].turn = session[d].turn
      /\ session'[d].revision = session[d].revision
  BY <1>1, IdleSession DEF End
<1>4. UNCHANGED <<revision, deleted, status, free, dispatching, work, ran, written>>
  BY DEF End, threads
<1>5. outdated' = outdated \cup CurrentJob(d)
  BY DEF End
<1>6. TypeOK'
  BY <1>2, <1>3, <1>4, <1>5 DEF IInv, TypeOK, SessionType, CurrentJob
<1>7. ASSUME NEW i \in Jobs
      PROVE  /\ jobs[i].state \in ActiveStates /\ jobs[i].deck = d => i = session[d].turn
             /\ i = session[d].turn => jobs[i].deck = d
             /\ jobs[i].state \in ActiveStates => jobs[i].deck \in Decks
  BY DEF IInv, Placed, TurnPlaced, ActiveStates
<1>8. ASSUME NEW i \in Jobs
      PROVE  /\ i \in outdated' \ outdated =>
                  jobs[i].state \in ActiveStates /\ jobs'[i].state \notin ActiveStates
             /\ jobs'[i].state \in ActiveStates =>
                  session'[jobs[i].deck] = session[jobs[i].deck]
             /\ \/ jobs'[i].state = jobs[i].state
                \/ /\ jobs[i].state \in ActiveStates \cup {"interrupted"}
                   /\ jobs'[i].state \in {"interrupted", "stopped", "superseded", "completed"}
  BY <1>2, <1>3, <1>5, <1>7 DEF CurrentJob, ActiveStates
<1>9. ASSUME NEW e \in Decks
      PROVE  /\ session'[e].turn = session[e].turn
             /\ session'[e].revision = session[e].revision
             /\ session'[e].busy =>
                  session[e].busy /\ jobs'[session[e].turn].state = jobs[session[e].turn].state
  BY <1>2, <1>3, <1>9 DEF IInv, TurnPlaced, TypeOK
<1> QED
  BY <1>2, <1>4, <1>6, <1>8, <1>9, Ending

LEMMA DeleteDeckStep ==
  ASSUME IInv, NEW d \in Decks, DeleteDeck(d)
  PROVE  IInv'
<1>1. TypeOK /\ "deleted" \in JobStates
  BY DEF IInv, JobStates
<1>2. /\ jobs' \in [Jobs -> Row]
      /\ \A i \in Jobs :
           /\ jobs'[i].deck = jobs[i].deck /\ jobs'[i].owner = jobs[i].owner
           /\ jobs'[i].state = IF jobs[i].deck = d THEN "deleted" ELSE jobs[i].state
  BY <1>1, RowState, Fields DEF DeleteDeck
<1>3. /\ session' \in SessionType
      /\ \A e \in Decks \ {d} : session'[e] = session[e]
      /\ ~session'[d].busy /\ session'[d].turn = None
      /\ session'[d].revision = session[d].revision
  BY <1>1 DEF DeleteDeck, TypeOK, SessionType
<1>4. /\ UNCHANGED <<revision, status, free, dispatching, work, ran, written>>
      /\ outdated' = outdated \cup CurrentJob(d) /\ deleted' = deleted \cup {d}
  BY DEF DeleteDeck, threads
<1>5. TypeOK'
  BY <1>2, <1>3, <1>4 DEF IInv, TypeOK, SessionType, CurrentJob
<1>6. \A e \in Decks : revision[e] \in Nat /\ TurnPlaced(e) /\ session[e].turn \in Jobs \cup {None}
  BY JobConstants DEF IInv, TypeOK
<1>7. ASSUME NEW i \in Jobs
      PROVE  /\ Placed(i) /\ Claimed(i)
             /\ i \in outdated' \ outdated =>
                  jobs[i].state \in ActiveStates /\ jobs[i].deck = d
             /\ jobs[i].state = "none" => jobs[i].deck \notin Decks
  BY <1>4, <1>6, JobConstants DEF IInv, CurrentJob, TurnPlaced, Placed
<1>8. Together
  BY <1>2, <1>3, <1>4, <1>6, <1>7 DEF Together, Placed, Claimed, TurnPlaced, ActiveStates
<1> QED
  BY <1>5, <1>8, StepStructure DEF IInv, Structure

LEMMA RecoverStep ==
  ASSUME IInv, NEW d \in Decks, Recover(d)
  PROVE  IInv'
<1>1. PICK j \in CurrentJob(d) : Expired(j) /\ jobs' = [jobs EXCEPT ![j] = AfterExpiry(j)]
  BY DEF Recover
<1>2. TypeOK /\ "interrupted" \in JobStates
  BY DEF IInv, JobStates
<1>3. /\ j \in Jobs /\ j = session[d].turn /\ jobs[j].deck = d
      /\ jobs[j].state \in ActiveStates
      /\ CurrentJob(d) = {j}
  BY DEF CurrentJob, IInv, TypeOK, TurnPlaced
<1>4. jobs' = [jobs EXCEPT ![j].state = "interrupted"]
  BY <1>1, <1>2, <1>3 DEF AfterExpiry, TypeOK
<1>5. /\ jobs' \in [Jobs -> Row]
      /\ \A i \in Jobs :
           /\ jobs'[i].deck = jobs[i].deck /\ jobs'[i].owner = jobs[i].owner
           /\ jobs'[i].state = IF i = j THEN "interrupted" ELSE jobs[i].state
  BY <1>2, <1>3, <1>4, OneState
<1>6. /\ session' \in SessionType
      /\ \A e \in Decks \ {d} : session'[e] = session[e]
      /\ ~session'[d].busy /\ session'[d].turn = session[d].turn
      /\ session'[d].revision = session[d].revision
  BY <1>2, IdleSession DEF Recover
<1>7. UNCHANGED <<revision, deleted, status, free, dispatching, work, ran, written>>
  BY DEF Recover, threads
<1>8. outdated' = outdated \cup {j}
  BY <1>3 DEF Recover
<1>9. TypeOK'
  BY <1>3, <1>5, <1>6, <1>7, <1>8 DEF IInv, TypeOK, SessionType
<1>10. ASSUME NEW i \in Jobs
       PROVE  /\ i \in outdated' \ outdated =>
                   jobs[i].state \in ActiveStates /\ jobs'[i].state \notin ActiveStates
              /\ jobs'[i].state \in ActiveStates =>
                   session'[jobs[i].deck] = session[jobs[i].deck]
  BY <1>3, <1>5, <1>6, <1>8 DEF IInv, Placed, ActiveStates
<1>11. ASSUME NEW e \in Decks
       PROVE  /\ session'[e].turn = session[e].turn
              /\ session'[e].revision = session[e].revision
              /\ session'[e].busy =>
                   session[e].busy /\ jobs'[session[e].turn].state = jobs[session[e].turn].state
  BY <1>3, <1>5, <1>6 DEF IInv, TurnPlaced, TypeOK
<1> QED
  BY <1>3, <1>5, <1>7, <1>9, <1>10, <1>11, Ending

-----------------------------------------------------------------------------
(* The dispatcher's steps                                                   *)

\* The recovery with which every claim begins.
LEMMA RecoveredTogether ==
  ASSUME IInv, NEW d \in Decks
  PROVE  /\ Recovered \in [Jobs -> Row] /\ SessionsRecovered(d) \in SessionType
         /\ \A i \in Jobs :
              /\ Recovered[i].deck = jobs[i].deck /\ Recovered[i].owner = jobs[i].owner
              /\ \/ Recovered[i].state = jobs[i].state /\ i \notin ExpiredJobs
                 \/ /\ Recovered[i].state = "interrupted" /\ jobs[i].state = "running"
                    /\ i \in ExpiredJobs
              /\ Recovered[i].state \in ActiveStates =>
                   SessionsRecovered(d)[jobs[i].deck] = session[jobs[i].deck]
         /\ \A e \in Decks :
              /\ SessionsRecovered(d)[e].turn = session[e].turn
              /\ SessionsRecovered(d)[e].revision = session[e].revision
              /\ SessionsRecovered(d)[e].busy =>
                   /\ session[e].busy
                   /\ Recovered[session[e].turn].state = jobs[session[e].turn].state
<1>1. TypeOK
  BY DEF IInv
<1>2. ASSUME NEW i \in Jobs, Recovered[i].state \in ActiveStates
      PROVE  SessionsRecovered(d)[jobs[i].deck] = session[jobs[i].deck]
  <2>1. ~Expired(i) /\ jobs[i].state \in ActiveStates
    BY <1>1, <1>2, RecoveredRows DEF ActiveStates
  <2>2. jobs[i].deck \in Decks /\ session[jobs[i].deck].turn = i
    BY <2>1 DEF IInv, Placed, ActiveStates
  <2> QED
    BY <1>1, <2>1, <2>2, RecoveredSessions
<1>3. ASSUME NEW e \in Decks, SessionsRecovered(d)[e].busy
      PROVE  /\ session[e].busy
             /\ Recovered[session[e].turn].state = jobs[session[e].turn].state
  <2>1. session[e].busy /\ (session[e].turn = None \/ ~Expired(session[e].turn))
    BY <1>1, <1>3, RecoveredSessions
  <2>2. session[e].turn \in Jobs
    BY <1>1, <2>1 DEF IInv, TurnPlaced, TypeOK
  <2> QED
    BY <1>1, <2>1, <2>2, RecoveredRows, JobConstants
<1>4. \A i \in Jobs : i \in ExpiredJobs <=> Expired(i)
  BY DEF ExpiredJobs
<1>5. \A i \in Jobs : Expired(i) => jobs[i].state = "running"
  BY DEF Expired
<1> QED
  BY <1>1, <1>2, <1>3, <1>4, <1>5, RecoveredRows, RecoveredSessions

LEMMA GiveBackType ==
  ASSUME TypeOK, NEW p \in Processes, GiveBack(p)
  PROVE  /\ free' \in [Processes -> Nat] /\ dispatching' \in [Processes -> Nat]
         /\ UNCHANGED <<status, work, ran, written>>
  BY DEF TypeOK, GiveBack

LEMMA ClaimNothingStep ==
  ASSUME IInv, NEW p \in Processes, NEW d \in Decks, ClaimNothing(p, d)
  PROVE  IInv'
<1>1. jobs' = Recovered /\ session' = SessionsRecovered(d)
  BY DEF ClaimNothing
<1>2. /\ UNCHANGED <<revision, deleted, status, work, ran, written>>
      /\ outdated' = outdated \cup ExpiredJobs
      /\ free' \in [Processes -> Nat] /\ dispatching' \in [Processes -> Nat]
  BY GiveBackType DEF ClaimNothing, IInv
<1>3. TypeOK'
  BY <1>1, <1>2, RecoveredTogether DEF IInv, TypeOK, SessionType, ExpiredJobs
<1>4. ASSUME NEW i \in Jobs
      PROVE  /\ jobs'[i].deck = jobs[i].deck /\ jobs'[i].owner = jobs[i].owner
             /\ \/ jobs'[i].state = jobs[i].state
                \/ /\ jobs[i].state \in ActiveStates \cup {"interrupted"}
                   /\ jobs'[i].state \in {"interrupted", "stopped", "superseded", "completed"}
             /\ i \in outdated' \ outdated =>
                  jobs[i].state \in ActiveStates /\ jobs'[i].state \notin ActiveStates
             /\ jobs'[i].state \in ActiveStates =>
                  session'[jobs[i].deck] = session[jobs[i].deck]
  BY <1>1, <1>2, RecoveredTogether DEF ActiveStates
<1>5. ASSUME NEW e \in Decks
      PROVE  /\ session'[e].turn = session[e].turn
             /\ session'[e].revision = session[e].revision
             /\ session'[e].busy =>
                  session[e].busy /\ jobs'[session[e].turn].state = jobs[session[e].turn].state
  BY <1>1, RecoveredTogether
<1> QED
  BY <1>2, <1>3, <1>4, <1>5, Ending

LEMMA ClaimStaleStep ==
  ASSUME IInv, NEW p \in Processes, NEW d \in Decks, ClaimStale(p, d)
  PROVE  IInv'
<1>1. PICK j \in Queued(d) : jobs' = [Recovered EXCEPT ![j].state = "superseded"]
  BY DEF ClaimStale
<1>2. /\ j \in Jobs /\ j = session[d].turn /\ jobs[j].deck = d
      /\ jobs[j].state = "queued" /\ j \notin ExpiredJobs
  BY DEF Queued, CurrentJob, IInv, TypeOK, TurnPlaced, ExpiredJobs, Expired
<1>3. Recovered \in [Jobs -> Row] /\ "superseded" \in JobStates
  BY RecoveredTogether DEF JobStates
<1>4. /\ jobs'[j] = [Recovered[j] EXCEPT !.state = "superseded"]
      /\ \A i \in Jobs \ {j} : jobs'[i] = Recovered[i]
  BY <1>1, <1>2, <1>3
<1>5. /\ jobs'[j] \in Row /\ jobs'[j].state = "superseded"
      /\ jobs'[j].deck = Recovered[j].deck /\ jobs'[j].owner = Recovered[j].owner
  BY <1>2, <1>3, <1>4, RowState
<1>6. jobs' \in [Jobs -> Row]
  BY <1>1, <1>2, <1>3, <1>4, <1>5
<1>7. SessionsRecovered(d) \in SessionType
      /\ session' = [SessionsRecovered(d) EXCEPT ![d].busy = FALSE]
  BY RecoveredTogether DEF ClaimStale
<1>8. /\ session' \in SessionType
      /\ \A e \in Decks \ {d} : session'[e] = SessionsRecovered(d)[e]
      /\ ~session'[d].busy /\ session'[d].turn = SessionsRecovered(d)[d].turn
      /\ session'[d].revision = SessionsRecovered(d)[d].revision
  BY <1>7 DEF SessionType
<1>9. /\ UNCHANGED <<revision, deleted, status, work, ran, written>>
      /\ outdated' = outdated \cup ExpiredJobs
      /\ free' \in [Processes -> Nat] /\ dispatching' \in [Processes -> Nat]
  BY GiveBackType DEF ClaimStale, IInv
<1>10. TypeOK'
  BY <1>6, <1>8, <1>9 DEF IInv, TypeOK, SessionType, ExpiredJobs
<1>11. ASSUME NEW i \in Jobs
       PROVE  /\ jobs'[i].deck = jobs[i].deck /\ jobs'[i].owner = jobs[i].owner
              /\ \/ jobs'[i].state = jobs[i].state
                 \/ /\ jobs[i].state \in ActiveStates \cup {"interrupted"}
                    /\ jobs'[i].state \in {"interrupted", "stopped", "superseded", "completed"}
              /\ i \in outdated' \ outdated =>
                   jobs[i].state \in ActiveStates /\ jobs'[i].state \notin ActiveStates
  <2>1. CASE i = j
    BY <2>1, <1>2, <1>5, <1>9, RecoveredTogether DEF ActiveStates
  <2>2. CASE i # j
    BY <2>2, <1>4, <1>9, RecoveredTogether DEF ActiveStates
  <2> QED
    BY <2>1, <2>2
<1>12. ASSUME NEW i \in Jobs, jobs'[i].state \in ActiveStates
       PROVE  session'[jobs[i].deck] = session[jobs[i].deck]
  <2>1. i # j /\ Recovered[i].state \in ActiveStates
    BY <1>4, <1>5, <1>12 DEF ActiveStates
  <2>2. jobs[i].state \in ActiveStates
    BY <2>1, RecoveredTogether DEF ActiveStates
  <2>3. jobs[i].deck \in Decks \ {d}
    BY <2>1, <2>2, <1>2 DEF IInv, Placed, ActiveStates
  <2> QED
    BY <2>1, <2>3, <1>8, RecoveredTogether
<1>13. ASSUME NEW e \in Decks
       PROVE  /\ session'[e].turn = session[e].turn
              /\ session'[e].revision = session[e].revision
              /\ session'[e].busy =>
                   session[e].busy /\ jobs'[session[e].turn].state = jobs[session[e].turn].state
  <2>1. CASE e = d
    BY <2>1, <1>8, RecoveredTogether
  <2>2. CASE e # d
    <3>1. session'[e] = SessionsRecovered(d)[e]
      BY <2>2, <1>8
    <3>2. session[e].busy => session[e].turn \in Jobs \ {j}
      BY <2>2, <1>2 DEF IInv, TypeOK, TurnPlaced
    <3> QED
      BY <3>1, <3>2, <1>4, RecoveredTogether
  <2> QED
    BY <2>1, <2>2
<1> QED
  BY <1>9, <1>10, <1>11, <1>12, <1>13, Ending

LEMMA ClaimDeletedStep ==
  ASSUME IInv, NEW p \in Processes, NEW d \in Decks, ClaimDeleted(p, d)
  PROVE  IInv'
<1>1. /\ UNCHANGED <<store, status, work, outdated, ran, written>>
      /\ free' \in [Processes -> Nat] /\ dispatching' \in [Processes -> Nat]
  BY GiveBackType DEF ClaimDeleted, IInv
<1>2. TypeOK'
  BY <1>1 DEF IInv, TypeOK, store
<1>3. Structure'
  BY <1>1, <1>2, Quiet DEF store
<1> QED
  BY <1>2, <1>3 DEF IInv, Structure

LEMMA ClaimRow ==
  ASSUME NEW r \in Row, NEW p \in Processes
  PROVE  /\ RunningRow(r, p) \in Row /\ RunningRow(r, p).state = "running"
         /\ RunningRow(r, p).owner = p /\ RunningRow(r, p).deck = r.deck
  BY DEF RunningRow, Row, JobStates, ActiveStates

LEMMA ClaimJobStep ==
  ASSUME IInv, NEW p \in Processes, NEW d \in Decks, ClaimJob(p, d)
  PROVE  IInv'
<1>1. PICK j \in Queued(d) :
        /\ jobs' = [Recovered EXCEPT ![j] = RunningRow(Recovered[j], p)]
        /\ work' = [work EXCEPT ![j] = "claimed"]
  BY DEF ClaimJob
<1>2. /\ j \in Jobs /\ j = session[d].turn /\ jobs[j].deck = d
      /\ jobs[j].state = "queued" /\ j \notin ExpiredJobs
  BY DEF Queued, CurrentJob, IInv, TypeOK, TurnPlaced, ExpiredJobs, Expired
<1>3. Recovered \in [Jobs -> Row]
  BY RecoveredTogether
<1>4. /\ jobs'[j] = RunningRow(Recovered[j], p)
      /\ \A i \in Jobs \ {j} : jobs'[i] = Recovered[i]
  BY <1>1, <1>2, <1>3
<1>5. /\ jobs'[j] \in Row /\ jobs'[j].state = "running" /\ jobs'[j].owner = p
      /\ jobs'[j].deck = Recovered[j].deck
  BY <1>2, <1>3, <1>4, ClaimRow
<1>6. jobs' \in [Jobs -> Row]
  BY <1>1, <1>2, <1>3, <1>4, <1>5
<1>7. /\ UNCHANGED <<revision, deleted, status, free, ran, written>>
      /\ outdated' = outdated \cup ExpiredJobs /\ session' = SessionsRecovered(d)
      /\ dispatching' \in [Processes -> Nat]
  BY DEF ClaimJob, IInv, TypeOK
<1>8. TypeOK'
  BY <1>1, <1>6, <1>7, RecoveredTogether DEF IInv, TypeOK, SessionType, ExpiredJobs, Phases
<1>9. /\ work'[j] = "claimed"
      /\ \A i \in Jobs \ {j} : work'[i] = work[i]
  BY <1>1, <1>2 DEF IInv, TypeOK
<1>10. \A i \in Jobs : Placed(i) /\ Claimed(i)
  BY DEF IInv
<1>11. ASSUME NEW i \in Jobs
       PROVE  /\ jobs'[i].deck = jobs[i].deck
              /\ jobs'[i].state = "none" <=> jobs[i].state = "none"
              /\ jobs'[i].state \in ActiveStates =>
                   /\ jobs[i].state \in ActiveStates
                   /\ session'[jobs[i].deck] = session[jobs[i].deck]
                   /\ jobs[i].deck \notin deleted'
                   /\ i \notin outdated' \ outdated
              /\ i \in outdated' \ outdated => jobs[i].state # "none"
              /\ work'[i] # "idle" =>
                   jobs'[i].owner \in Processes /\ jobs'[i].state \notin {"none", "queued"}
              /\ i \in ran' => jobs'[i].state \notin {"none", "queued"} /\ work'[i] # "claimed"
  <2>1. CASE i = j
    BY <2>1, <1>2, <1>5, <1>7, <1>9, <1>10, RecoveredTogether DEF Placed, Claimed, ActiveStates
  <2>2. CASE i # j
    BY <2>2, <1>4, <1>7, <1>9, <1>10, RecoveredTogether DEF Placed, Claimed, ActiveStates
  <2> QED
    BY <2>1, <2>2
<1>12. ASSUME NEW e \in Decks
       PROVE  /\ session'[e].turn \in {session[e].turn, None}
              /\ session'[e].busy =>
                   /\ session[e].busy /\ session'[e].turn = session[e].turn
                   /\ jobs'[session[e].turn].state \in ActiveStates
              /\ session'[e].revision = session[e].revision
              /\ revision'[e] >= revision[e]
  <2>1. revision'[e] >= revision[e]
    BY <1>7, JobConstants DEF IInv, TypeOK
  <2>2. ASSUME session'[e].busy
        PROVE  session[e].busy /\ jobs'[session[e].turn].state \in ActiveStates
    <3>1. /\ session[e].busy /\ session[e].turn \in Jobs
          /\ jobs[session[e].turn].state \in ActiveStates
          /\ Recovered[session[e].turn].state = jobs[session[e].turn].state
      BY <2>2, <1>7, RecoveredTogether DEF IInv, TypeOK, TurnPlaced
    <3> QED
      BY <3>1, <1>4, <1>5 DEF ActiveStates
  <2> QED
    BY <2>1, <2>2, <1>7, RecoveredTogether
<1>13. Together
  BY <1>11, <1>12 DEF Together
<1> QED
  BY <1>8, <1>13, StepStructure DEF IInv, Structure

-----------------------------------------------------------------------------
(* The worker's writes                                                      *)

LEMMA ReleasedRows ==
  ASSUME TypeOK, NEW j \in Jobs
  PROVE  /\ Released(j) \in [Jobs -> Row]
         /\ \A i \in Jobs \ {j} : Released(j)[i] = jobs[i]
         /\ Released(j)[j].deck = jobs[j].deck
         /\ Released(j)[j].state =
              IF jobs[j].state = "running" THEN "queued" ELSE jobs[j].state
<1> DEFINE r == [jobs[j] EXCEPT !.state = "queued", !.owner = None, !.lease = "fresh"]
<1>1. jobs \in [Jobs -> Row]
  BY DEF TypeOK
<1>2. r \in Row /\ r.deck = jobs[j].deck /\ r.state = "queued"
  BY <1>1 DEF Row, JobStates, ActiveStates
<1>3. Released(j) = IF jobs[j].state = "running" THEN [jobs EXCEPT ![j] = r] ELSE jobs
  BY DEF Released
<1> HIDE DEF r
<1> QED
  BY <1>1, <1>2, <1>3

LEMMA ReleaseClaimStep ==
  ASSUME IInv, NEW j \in Jobs, ReleaseClaim(j)
  PROVE  IInv'
<1>1. /\ UNCHANGED <<revision, deleted, session, status, dispatching, outdated, ran, written>>
      /\ jobs' = Released(j) /\ work[j] = "claimed" /\ work' = [work EXCEPT ![j] = "idle"]
  BY DEF ReleaseClaim, history, Worker, Goes
<1>2. free' \in [Processes -> Nat]
  BY DEF ReleaseClaim, Worker, Host, IInv, TypeOK, Claimed
<1>3. TypeOK'
  BY <1>1, <1>2, ReleasedRows DEF IInv, TypeOK, Phases
<1>4. /\ work'[j] = "idle" /\ \A i \in Jobs \ {j} : work'[i] = work[i]
  BY <1>1 DEF IInv, TypeOK
<1>5. Placed(j) /\ Claimed(j) /\ j \notin ran /\ jobs[j].state \notin {"none", "queued"}
  BY <1>1 DEF IInv, Claimed, Placed
<1>6. ASSUME NEW i \in Jobs
      PROVE  /\ jobs'[i].deck = jobs[i].deck
             /\ jobs'[i].state = "none" <=> jobs[i].state = "none"
             /\ jobs'[i].state \in ActiveStates <=> jobs[i].state \in ActiveStates
             /\ i # j => jobs'[i] = jobs[i]
  BY <1>1, <1>5, ReleasedRows DEF IInv, ActiveStates
<1>7. \A i \in Jobs : Placed(i) /\ Claimed(i)
  BY DEF IInv
<1>8. \A e \in Decks :
        revision[e] \in Nat /\ TurnPlaced(e) /\ session[e].turn \in Jobs \cup {None}
  BY JobConstants DEF IInv, TypeOK
<1>9. Together
  BY <1>1, <1>4, <1>5, <1>6, <1>7, <1>8 DEF Together, Placed, Claimed, TurnPlaced
<1> QED
  BY <1>3, <1>9, StepStructure DEF IInv, Structure

\* A worker ends its own row, or finds that it has ended.
LEMMA WorkerEnds ==
  ASSUME IInv, NEW j \in Jobs, Goes(j, "retiring"), work[j] # "idle",
         UNCHANGED <<revision, deleted, status, free, dispatching, outdated, ran>>,
         written' \in [Jobs -> {"nothing", "partial", "final"}],
         jobs' \in [Jobs -> Row],
         \A i \in Jobs :
           /\ jobs'[i].deck = jobs[i].deck /\ jobs'[i].owner = jobs[i].owner
           /\ IF i = j /\ jobs[j].state \in ActiveStates
              THEN jobs'[i].state \in {"interrupted", "superseded", "completed"}
              ELSE jobs'[i].state = jobs[i].state,
         IF jobs[j].state \in ActiveStates
         THEN session' = [session EXCEPT ![jobs[j].deck].busy = FALSE]
         ELSE session' = session
  PROVE  IInv'
<1>1. TypeOK /\ \A i \in Jobs : Placed(i) /\ Claimed(i)
  BY DEF IInv
<1>2. \A e \in Decks :
        revision[e] \in Nat /\ TurnPlaced(e) /\ session[e].turn \in Jobs \cup {None}
  BY JobConstants DEF IInv, TypeOK
<1>3. CASE jobs[j].state \in ActiveStates
  <2> DEFINE d == jobs[j].deck
  <2>1. d \in Decks /\ session[d].turn = j
    BY <1>1, <1>3 DEF Placed, ActiveStates
  <2>0. session' = [session EXCEPT ![d].busy = FALSE]
    BY <1>3
  <2> HIDE DEF d
  <2>2. /\ session' \in SessionType
        /\ \A e \in Decks \ {d} : session'[e] = session[e]
        /\ ~session'[d].busy /\ session'[d].turn = session[d].turn
        /\ session'[d].revision = session[d].revision
    BY <1>1, <2>0, <2>1, IdleSession
  <2>3. TypeOK'
    BY <1>1, <2>2 DEF TypeOK, SessionType, Goes, Phases
  <2>4. \A i \in Jobs : work'[i] = IF i = j THEN "retiring" ELSE work[i]
    BY <1>1 DEF TypeOK, Goes
  <2>5. ASSUME NEW i \in Jobs, i # j, jobs[i].state \in ActiveStates
        PROVE  jobs[i].deck \in Decks \ {d}
    BY <1>1, <2>1, <2>5 DEF Placed, ActiveStates
  <2>6. /\ jobs'[j].state \in {"interrupted", "superseded", "completed"}
        /\ \A i \in Jobs \ {j} : jobs'[i].state = jobs[i].state
    BY <1>3
  <2>7. ASSUME NEW i \in Jobs
        PROVE  /\ jobs'[i].deck = jobs[i].deck
               /\ jobs'[i].state = "none" <=> jobs[i].state = "none"
               /\ jobs'[i].state \in ActiveStates =>
                    /\ jobs[i].state \in ActiveStates
                    /\ session'[jobs[i].deck] = session[jobs[i].deck]
                    /\ jobs[i].deck \notin deleted'
               /\ work'[i] # "idle" =>
                    jobs'[i].owner \in Processes /\ jobs'[i].state \notin {"none", "queued"}
               /\ i \in ran' => jobs'[i].state \notin {"none", "queued"} /\ work'[i] # "claimed"
    <3>1. CASE i = j
      BY <3>1, <1>1, <1>3, <2>4, <2>6 DEF Placed, Claimed, ActiveStates
    <3>2. CASE i # j
      BY <3>2, <1>1, <2>2, <2>4, <2>5, <2>6 DEF Placed, Claimed
    <3> QED
      BY <3>1, <3>2
  <2>8. ASSUME NEW e \in Decks
        PROVE  /\ session'[e].turn \in {session[e].turn, None}
               /\ session'[e].busy =>
                    /\ session[e].busy /\ session'[e].turn = session[e].turn
                    /\ jobs'[session[e].turn].state \in ActiveStates
               /\ session'[e].revision = session[e].revision
               /\ revision'[e] >= revision[e]
    <3>1. session'[e].busy => e # d /\ session[e].busy /\ session[e].turn # None
      BY <1>2, <2>2 DEF TurnPlaced
    <3>2. session'[e].busy => jobs'[session[e].turn].state \in ActiveStates
      BY <3>1, <1>2, <2>1, <2>6 DEF TurnPlaced, d
    <3> QED
      BY <3>1, <3>2, <1>2, <2>2
  <2>9. Together
    BY <2>7, <2>8 DEF Together
  <2> QED
    BY <2>3, <2>9, StepStructure DEF IInv, Structure
<1>4. CASE jobs[j].state \notin ActiveStates
  <2>1. TypeOK'
    BY <1>1, <1>4 DEF TypeOK, Goes, Phases
  <2>2. \A i \in Jobs : work'[i] = IF i = j THEN "retiring" ELSE work[i]
    BY <1>1 DEF TypeOK, Goes
  <2>3. \A i \in Jobs : jobs'[i].state = jobs[i].state
    BY <1>4
  <2>4. Structure'
    BY <2>1, <2>2, <2>3, <1>4, Quiet
  <2> QED
    BY <2>1, <2>4 DEF IInv, Structure
<1> QED
  BY <1>3, <1>4

\* For an active row of a worker, the session's turn is the row.
LEMMA IdledSessions ==
  ASSUME IInv, NEW j \in Jobs
  PROVE  IF jobs[j].state \in ActiveStates
         THEN Idled(j) = [session EXCEPT ![jobs[j].deck].busy = FALSE]
         ELSE Idled(j) = session
  BY DEF Idled, IInv, Placed

LEMMA InvalidateStep ==
  ASSUME IInv, NEW j \in Jobs, Invalidate(j)
  PROVE  IInv'
<1>1. /\ Goes(j, "retiring") /\ work[j] # "idle"
      /\ UNCHANGED <<revision, deleted, status, free, dispatching, outdated, ran, written>>
      /\ jobs' = Invalidated(j) /\ session' = Idled(j)
  BY DEF Invalidate, Worker, history
<1>2. TypeOK /\ written' \in [Jobs -> {"nothing", "partial", "final"}]
  BY <1>1 DEF IInv, TypeOK
<1> QED
  BY <1>1, <1>2, WorkerEnds, InvalidatedRows, IdledSessions

LEMMA FinishStep ==
  ASSUME IInv, NEW j \in Jobs, Finish(j)
  PROVE  IInv'
<1>1. /\ Goes(j, "retiring") /\ work[j] # "idle"
      /\ UNCHANGED <<revision, deleted, status, free, dispatching, outdated, ran>>
  BY DEF Finish, Worker
<1>2. TypeOK
  BY DEF IInv
<1>3. CASE Discard(j)
  <2>1. written' \in [Jobs -> {"nothing", "partial", "final"}]
    BY <1>2, <1>3 DEF Discard, TypeOK
  <2> QED
    BY <1>1, <1>2, <1>3, <2>1, WorkerEnds, InvalidatedRows, IdledSessions DEF Discard
<1>4. CASE Publish(j)
  <2>1. jobs[j].state \in ActiveStates
    BY <1>4 DEF Publish, Current, Writable
  <2> DEFINE s == IF jobs[j].calls = "started" THEN "interrupted" ELSE "completed"
  <2>2. /\ jobs' = [jobs EXCEPT ![j].state = s]
        /\ session' = [session EXCEPT ![jobs[j].deck].busy = FALSE]
        /\ written' = [written EXCEPT ![j] = "final"]
    BY <1>4 DEF Publish
  <2>3. s \in JobStates /\ s \in {"interrupted", "superseded", "completed"}
    BY DEF JobStates
  <2>4. written' \in [Jobs -> {"nothing", "partial", "final"}]
    BY <1>2, <2>2 DEF TypeOK
  <2> HIDE DEF s
  <2>5. /\ jobs' \in [Jobs -> Row]
        /\ \A i \in Jobs :
             /\ jobs'[i].deck = jobs[i].deck /\ jobs'[i].owner = jobs[i].owner
             /\ IF i = j /\ jobs[j].state \in ActiveStates
                THEN jobs'[i].state \in {"interrupted", "superseded", "completed"}
                ELSE jobs'[i].state = jobs[i].state
    BY <1>2, <2>1, <2>2, <2>3, OneState
  <2> QED
    BY <1>1, <2>1, <2>2, <2>4, <2>5, WorkerEnds
<1> QED
  BY <1>3, <1>4 DEF Finish

-----------------------------------------------------------------------------
(* The theorems                                                             *)

\* The disjuncts of Next, with its quantifiers removed.
LEMMA StepCases ==
  ASSUME Next
  PROVE  \/ \E d \in Decks, j \in Jobs : \E rev \in 0..revision[d] : NewJob(d, j, rev)
         \/ \E d \in Decks : Stop(d) \/ Settings(d)
         \/ \E d \in Decks : EditDeck(d) \/ DeleteDeck(d) \/ Recover(d)
         \/ \E p \in Processes, d \in Decks : Claim(p, d)
         \/ \E j \in Jobs : WorkerStep(j)
         \/ \E j \in Jobs : LeaseAges(j) \/ Heartbeat(j)
         \/ \E p \in Processes : ProcessStep(p)
  BY DEF Next, Requested, Begin, Steer, DeckStep

LEMMA NextIInv == IInv /\ [Next]_vars => IInv'
<1> SUFFICES ASSUME IInv, [Next]_vars PROVE IInv'
  OBVIOUS
<1>1. ASSUME NEW d \in Decks, NEW j \in Jobs, NEW rev \in 0..revision[d], NewJob(d, j, rev)
      PROVE  IInv'
  BY <1>1, NewJobType, NewJobStructure DEF IInv, Structure
<1>2. ASSUME NEW d \in Decks, Stop(d) \/ Settings(d) PROVE IInv'
  BY <1>2, EndStep DEF Stop, Settings
<1>3. ASSUME NEW d \in Decks, EditDeck(d) \/ DeleteDeck(d) \/ Recover(d) PROVE IInv'
  BY <1>3, EditDeckStep, DeleteDeckStep, RecoverStep
<1>4. ASSUME NEW p \in Processes, NEW d \in Decks, Claim(p, d) PROVE IInv'
  BY <1>4, ClaimNothingStep, ClaimStaleStep, ClaimDeletedStep, ClaimJobStep DEF Claim
<1>5. ASSUME NEW j \in Jobs, WorkerStep(j) PROVE IInv'
  BY <1>5, ThreadSteps, EnterTurnStep, CallSteps, AppendStep, RetireStep, ReleaseClaimStep,
     FinishStep, InvalidateStep DEF WorkerStep
<1>6. ASSUME NEW j \in Jobs, LeaseAges(j) \/ Heartbeat(j) PROVE IInv'
  BY <1>6, LeaseSteps
<1>7. ASSUME NEW p \in Processes, ProcessStep(p) PROVE IInv'
  BY <1>7, ProcessSteps
<1>8. CASE UNCHANGED vars
  <2>1. TypeOK'
    BY <1>8 DEF vars, store, threads, history, IInv, TypeOK
  <2>2. Structure'
    BY <1>8, <2>1, Quiet DEF vars, store, threads, history
  <2> QED
    BY <2>1, <2>2 DEF IInv, Structure
<1> QED
  BY <1>1, <1>2, <1>3, <1>4, <1>5, <1>6, <1>7, <1>8, StepCases

LEMMA Invariance == Spec => []IInv
  BY InitIInv, NextIInv, PTL DEF Spec

\* Every reachable state of store, threads and processes is well formed.
THEOREM TypeCorrect == Spec => []TypeOK
<1>1. IInv => TypeOK
  BY DEF IInv
<1> QED
  BY <1>1, Invariance, PTL

\* The sessions' busy flags and the job table never disagree.
THEOREM StoreAgrees == Spec => []BusyIffActive
<1>1. IInv => BusyIffActive
  <2>1. ASSUME IInv, NEW d \in Decks, session[d].busy PROVE CurrentJob(d) # {}
    BY <2>1, JobConstants DEF IInv, TurnPlaced, CurrentJob
  <2>2. ASSUME IInv, NEW d \in Decks, CurrentJob(d) # {} PROVE session[d].busy
    BY <2>2 DEF IInv, TypeOK, TurnPlaced, Placed, CurrentJob
  <2>3. ASSUME IInv, NEW j \in ActiveJobs PROVE session[jobs[j].deck].turn = j
    BY <2>3 DEF IInv, Placed, ActiveJobs
  <2>4. ASSUME IInv, NEW d \in Decks PROVE session[d].busy \in BOOLEAN
    BY <2>4 DEF IInv, TypeOK
  <2> QED
    BY <2>1, <2>2, <2>3, <2>4 DEF BusyIffActive
<1> QED
  BY <1>1, Invariance, PTL

\* Whatever entered the runtime is never queued, hence never run, again.
THEOREM NoReplay == Spec => []RunsOnce
<1>1. IInv => RunsOnce
  BY DEF IInv, TypeOK, Claimed, RunsOnce
<1> QED
  BY <1>1, Invariance, PTL

\* No write of an outdated job reaches its conversation.
THEOREM LateResults == Spec => LateResultsDiscarded
<1>1. ASSUME IInv, Next, NEW j \in Jobs, written'[j] # written[j] PROVE j \notin outdated
  <2>1. ASSUME NEW i \in Jobs, WorkerStep(i) PROVE j \notin outdated
    <3>1. i = j /\ Current(Host(j), j)
      BY <1>1, <2>1 DEF WorkerStep, Submit, ReleaseClaim, EnterTurn, Abandon, CheckCall, StartCall,
         EndCall, Checkpoint, Append, LeaveTurn, StoreFails, Finish, Publish, Discard, Invalidate,
         Retire, history, IInv, TypeOK
    <3>2. /\ jobs[j].deck \in Decks /\ jobs[j].state \in ActiveStates
          /\ revision[jobs[j].deck] = session[jobs[j].deck].revision
          /\ revision[jobs[j].deck] \in Nat
      BY <1>1, <3>1, JobConstants DEF Current, Writable, IInv, TypeOK, Placed, ActiveStates
    <3> QED
      BY <1>1, <3>2 DEF IInv, Behind
  <2>2. ASSUME UNCHANGED written PROVE FALSE
    BY <1>1, <2>2
  <2>3. CASE \E d \in Decks, i \in Jobs : \E rev \in 0..revision[d] : NewJob(d, i, rev)
    BY <2>2, <2>3 DEF NewJob
  <2>4. CASE \E d \in Decks : Stop(d) \/ Settings(d)
    BY <2>2, <2>4 DEF Stop, Settings, End
  <2>5. CASE \E d \in Decks : EditDeck(d) \/ DeleteDeck(d) \/ Recover(d)
    BY <2>2, <2>5 DEF EditDeck, DeleteDeck, Recover
  <2>6. CASE \E p \in Processes, d \in Decks : Claim(p, d)
    BY <2>2, <2>6 DEF Claim, ClaimNothing, ClaimStale, ClaimDeleted, ClaimJob, GiveBack
  <2>7. CASE \E i \in Jobs : LeaseAges(i) \/ Heartbeat(i)
    BY <2>2, <2>7 DEF LeaseAges, Heartbeat, history
  <2>8. CASE \E p \in Processes : ProcessStep(p)
    BY <2>2, <2>8 DEF ProcessStep, Start, Crash, Recycle, TakeSlot, history
  <2> QED
    BY <1>1, <2>1, <2>3, <2>4, <2>5, <2>6, <2>7, <2>8, StepCases
<1>2. IInv /\ [Next]_vars =>
        [\A j \in Jobs : written'[j] # written[j] => j \notin outdated]_vars
  BY <1>1 DEF vars, history
<1> QED
  BY <1>2, Invariance, PTL DEF Spec, LateResultsDiscarded

-----------------------------------------------------------------------------
(* How the state of a row moves.  Three steps put rows in the queue or take   *)
(* them out of it; all others keep rows or end them.                          *)

Ends(i) ==
    /\ jobs'[i].owner = jobs[i].owner
    /\ \/ jobs'[i].state = jobs[i].state
       \/ /\ jobs[i].state \in ActiveStates \cup {"interrupted"}
          /\ jobs'[i].state \in {"interrupted", "stopped", "superseded"}
       \/ jobs[i].state \in ActiveStates /\ jobs'[i].state = "completed"
       \/ jobs[i].state # "none" /\ jobs'[i].state = "deleted"

LEMMA QuietRows ==
  ASSUME TypeOK, NEW j \in Jobs,
         \/ UNCHANGED jobs
         \/ \E from, to \in Phases, mark \in {"started", "finished"} : Checkpoint(j, from, to, mark)
         \/ LeaseAges(j) \/ Heartbeat(j)
  PROVE  \A i \in Jobs : jobs'[i].state = jobs[i].state /\ jobs'[i].owner = jobs[i].owner
<1>1. jobs \in [Jobs -> Row] /\ jobs[j] \in Row
  BY DEF TypeOK
<1>2. CASE UNCHANGED jobs
  BY <1>2
<1>3. ASSUME NEW mark \in {"started", "finished"}, jobs' = [jobs EXCEPT ![j].calls = mark]
      PROVE  \A i \in Jobs : jobs'[i].state = jobs[i].state /\ jobs'[i].owner = jobs[i].owner
  BY <1>1, <1>3 DEF Row
<1>4. ASSUME NEW l \in {"fresh", "due", "lapsed"}, jobs' = [jobs EXCEPT ![j].lease = l]
      PROVE  \A i \in Jobs : jobs'[i].state = jobs[i].state /\ jobs'[i].owner = jobs[i].owner
  BY <1>1, <1>4 DEF Row
<1>5. CASE \E from, to \in Phases, mark \in {"started", "finished"} : Checkpoint(j, from, to, mark)
  BY <1>2, <1>3, <1>5 DEF Checkpoint
<1>6. CASE LeaseAges(j) \/ Heartbeat(j)
  BY <1>4, <1>6 DEF LeaseAges, Heartbeat
<1> QED
  BY <1>2, <1>5, <1>6

LEMMA WorkerRows ==
  ASSUME IInv, NEW j \in Jobs, WorkerStep(j), ~ReleaseClaim(j)
  PROVE  \A i \in Jobs : Ends(i)
<1>1. TypeOK
  BY DEF IInv
<1>2. CASE StartCall(j) \/ EndCall(j)
  BY <1>1, <1>2, QuietRows DEF StartCall, EndCall, Phases, Ends
<1>3. CASE \/ Submit(j) \/ EnterTurn(j) \/ Abandon(j) \/ CheckCall(j) \/ Append(j)
           \/ LeaveTurn(j) \/ StoreFails(j) \/ Retire(j)
  BY <1>3 DEF Submit, EnterTurn, Abandon, CheckCall, Append, LeaveTurn, StoreFails, Retire,
     store, Ends
<1>4. CASE Invalidate(j) \/ (Finish(j) /\ Discard(j))
  BY <1>1, <1>4, InvalidatedRows DEF Invalidate, Discard, Ends
<1>5. CASE Publish(j)
  <2> DEFINE s == IF jobs[j].calls = "started" THEN "interrupted" ELSE "completed"
  <2>1. jobs' = [jobs EXCEPT ![j].state = s] /\ jobs[j].state \in ActiveStates
    BY <1>5 DEF Publish, Current, Writable
  <2>2. s \in JobStates /\ s \in {"interrupted", "completed"}
    BY DEF JobStates
  <2> HIDE DEF s
  <2> QED
    BY <1>1, <2>1, <2>2, OneState DEF Ends
<1> QED
  BY <1>2, <1>3, <1>4, <1>5 DEF WorkerStep, Finish

LEMMA DeckRows ==
  ASSUME IInv, NEW d \in Decks, DeckStep(d)
  PROVE  \A i \in Jobs : Ends(i)
<1>1. TypeOK /\ {"interrupted", "stopped", "superseded", "deleted"} \subseteq JobStates
  BY DEF IInv, JobStates
<1>2. CASE Stop(d) \/ Settings(d)
  BY <1>1, <1>2, CancelledRows DEF Stop, Settings, End, Ends
<1>3. CASE EditDeck(d)
  BY <1>3 DEF EditDeck, Ends
<1>4. CASE DeleteDeck(d)
  <2>1. \A i \in Jobs : /\ jobs'[i].state = IF jobs[i].deck = d THEN "deleted" ELSE jobs[i].state
                        /\ jobs'[i].owner = jobs[i].owner
    BY <1>1, <1>4, RowState, Fields DEF DeleteDeck
  <2>2. \A i \in Jobs : jobs[i].deck = d => jobs[i].state # "none"
    BY JobConstants DEF IInv, Placed
  <2> QED
    BY <2>1, <2>2 DEF Ends
<1>5. CASE Recover(d)
  <2>1. PICK j \in CurrentJob(d) : Expired(j) /\ jobs' = [jobs EXCEPT ![j] = AfterExpiry(j)]
    BY <1>5 DEF Recover
  <2>2. j \in Jobs /\ jobs[j].state = "running"
    BY <1>1, <2>1 DEF CurrentJob, TypeOK, Expired
  <2>3. jobs' = [jobs EXCEPT ![j].state = "interrupted"]
    BY <1>1, <2>1, <2>2 DEF AfterExpiry, TypeOK
  <2> QED
    BY <1>1, <2>2, <2>3, OneState DEF Ends, ActiveStates
<1> QED
  BY <1>2, <1>3, <1>4, <1>5 DEF DeckStep

LEMMA ClaimRows ==
  ASSUME IInv, NEW p \in Processes, NEW d \in Decks, Claim(p, d), ~ClaimJob(p, d)
  PROVE  \A i \in Jobs : Ends(i)
<1>1. CASE ClaimNothing(p, d)
  BY <1>1, RecoveredTogether DEF ClaimNothing, Ends, ActiveStates
<1>2. CASE ClaimStale(p, d)
  <2>1. PICK j \in Queued(d) : jobs' = [Recovered EXCEPT ![j].state = "superseded"]
    BY <1>2 DEF ClaimStale
  <2>2. j \in Jobs /\ jobs[j].state \in ActiveStates
    BY DEF Queued, CurrentJob, IInv, TypeOK
  <2>3. Recovered \in [Jobs -> Row] /\ Recovered[j] \in Row
    BY <2>2, RecoveredTogether
  <2>4. jobs'[j].state = "superseded" /\ jobs'[j].owner = Recovered[j].owner /\ \A i \in Jobs \ {j} : jobs'[i] = Recovered[i]
    BY <2>1, <2>2, <2>3 DEF Row
  <2> QED
    BY <2>2, <2>4, RecoveredTogether DEF Ends, ActiveStates
<1>3. CASE ClaimDeleted(p, d)
  BY <1>3 DEF ClaimDeleted, store, Ends
<1> QED
  BY <1>1, <1>2, <1>3 DEF Claim

LEMMA RowMoves ==
  ASSUME IInv, [Next]_vars
  PROVE  \/ \E d \in Decks, j \in Jobs : \E rev \in 0..revision[d] : NewJob(d, j, rev)
         \/ \E p \in Processes, d \in Decks : ClaimJob(p, d)
         \/ \E j \in Jobs : ReleaseClaim(j)
         \/ \A i \in Jobs : Ends(i)
<1>1. ASSUME NEW d \in Decks, Stop(d) \/ Settings(d) \/ EditDeck(d) \/ DeleteDeck(d) \/ Recover(d)
      PROVE  \A i \in Jobs : Ends(i)
  BY <1>1, DeckRows DEF DeckStep
<1>2. ASSUME NEW j \in Jobs, LeaseAges(j) \/ Heartbeat(j) PROVE \A i \in Jobs : Ends(i)
  BY <1>2, QuietRows DEF Ends, IInv
<1>3. ASSUME NEW p \in Processes, ProcessStep(p) PROVE \A i \in Jobs : Ends(i)
  BY <1>3 DEF ProcessStep, Start, Crash, Recycle, TakeSlot, store, Ends
<1>4. CASE UNCHANGED vars
  BY <1>4 DEF vars, store, Ends
<1> QED
  BY <1>1, <1>2, <1>3, <1>4, StepCases, ClaimRows, WorkerRows

\* A claim takes one job from the queue, and interrupts the expired ones.
LEMMA ClaimJobRows ==
  ASSUME IInv, NEW p \in Processes, NEW d \in Decks, ClaimJob(p, d)
  PROVE  \E j \in Jobs :
           /\ jobs[j].state = "queued" /\ jobs'[j].state = "running"
           /\ \A i \in Jobs \ {j} : jobs'[i] = Recovered[i]
<1>1. PICK j \in Queued(d) : jobs' = [Recovered EXCEPT ![j] = RunningRow(@, p)]
  BY DEF ClaimJob
<1>2. TypeOK /\ j \in Jobs /\ jobs[j].state = "queued"
  BY <1>1 DEF Queued, CurrentJob, IInv, TypeOK
<1>3. Recovered \in [Jobs -> Row]
  BY <1>2, RecoveredRows
<1>4. jobs'[j] = RunningRow(Recovered[j], p) /\ \A i \in Jobs \ {j} : jobs'[i] = Recovered[i]
  BY <1>1, <1>2, <1>3
<1>5. jobs'[j].state = "running"
  BY <1>2, <1>3, <1>4, ClaimRow
<1> QED
  BY <1>2, <1>4, <1>5

\* A job that ended stays as it ended; interrupted work does not resume.
THEOREM Endings == Spec => EndedStaysEnded
<1> DEFINE Stays(j) ==
      /\ jobs[j].state \in {"completed", "stopped", "superseded"} =>
           jobs'[j].state \in {jobs[j].state, "deleted"}
      /\ jobs[j].state = "interrupted" =>
           jobs'[j].state \in {"interrupted", "stopped", "superseded", "deleted"}
<1>1. ASSUME IInv, Next PROVE \A j \in Jobs : Stays(j)
  <2>1. CASE \A i \in Jobs : Ends(i)
    BY <2>1 DEF Ends, ActiveStates
  <2>2. ASSUME NEW d \in Decks, NEW j \in Jobs, NEW rev \in 0..revision[d], NewJob(d, j, rev)
        PROVE  \A i \in Jobs : Stays(i)
    <3>1. jobs[j].state = "none" /\ TypeOK
      BY <1>1, <2>2 DEF NewJob, IInv
    <3> QED
      BY <2>2, <3>1, NewJobRows DEF ActiveStates
  <2>3. ASSUME NEW p \in Processes, NEW d \in Decks, ClaimJob(p, d)
        PROVE  \A i \in Jobs : Stays(i)
    BY <1>1, <2>3, ClaimJobRows, RecoveredRows DEF Expired, IInv
  <2>4. ASSUME NEW j \in Jobs, ReleaseClaim(j) PROVE \A i \in Jobs : Stays(i)
    BY <1>1, <2>4, ReleasedRows DEF ReleaseClaim, IInv
  <2> QED
    BY <1>1, <2>1, <2>2, <2>3, <2>4, RowMoves
<1>2. IInv /\ [Next]_vars => [\A j \in Jobs : Stays(j)]_vars
  BY <1>1
<1> QED
  BY <1>2, Invariance, PTL DEF Spec, EndedStaysEnded

-----------------------------------------------------------------------------
(* Admission                                                                *)

RunningJobs == {j \in Jobs : jobs[j].state = "running"}
Bounded ==
    /\ Cardinality(ActiveJobs) <= MaxActive
    /\ Cardinality(RunningJobs) <= MaxRunning

\* A set of jobs that grows by one job at most, from fewer than n, stays within n.
LEMMA OneMore ==
  ASSUME NEW S \in SUBSET Jobs, NEW T \in SUBSET Jobs, NEW j \in Jobs, NEW n \in Nat,
         T \subseteq S \cup {j}, Cardinality(S) < n
  PROVE  Cardinality(T) <= n
<1>1. IsFiniteSet(S) /\ IsFiniteSet(S \cup {j}) /\ IsFiniteSet(T)
  BY JobConstants, FS_Subset
<1>2. Cardinality(S) \in Nat /\ Cardinality(T) \in Nat /\ Cardinality(S \cup {j}) \in Nat
  BY <1>1, FS_CardinalityType
<1>3. Cardinality(S \cup {j}) <= Cardinality(S) + 1
  BY <1>1, <1>2, FS_AddElement
<1>4. Cardinality(T) <= Cardinality(S \cup {j})
  BY <1>1, FS_Subset
<1> QED
  BY <1>2, <1>3, <1>4

LEMMA NoMore ==
  ASSUME NEW S \in SUBSET Jobs, NEW T \in SUBSET Jobs, NEW n \in Nat,
         T \subseteq S, Cardinality(S) <= n
  PROVE  Cardinality(T) <= n
<1>1. IsFiniteSet(S) /\ IsFiniteSet(T) /\ Cardinality(T) <= Cardinality(S)
  BY JobConstants, FS_Subset
<1> QED
  BY <1>1, FS_CardinalityType

LEMMA BoundedStep ==
  ASSUME IInv, Bounded, [Next]_vars
  PROVE  Bounded'
<1> DEFINE A == ActiveJobs
           R == RunningJobs
<1>1. /\ A \in SUBSET Jobs /\ A' \in SUBSET Jobs /\ R \in SUBSET Jobs /\ R' \in SUBSET Jobs
      /\ MaxActive \in Nat /\ MaxRunning \in Nat /\ TypeOK
  BY JobConstants DEF ActiveJobs, RunningJobs, IInv
<1>2. CASE \A i \in Jobs : Ends(i)
  <2>1. A' \subseteq A /\ R' \subseteq R
    BY <1>2 DEF Ends, ActiveJobs, RunningJobs, ActiveStates
  <2> QED
    BY <1>1, <2>1, NoMore DEF Bounded
<1>3. ASSUME NEW d \in Decks, NEW j \in Jobs, NEW rev \in 0..revision[d], NewJob(d, j, rev)
      PROVE  Bounded'
  <2> DEFINE S == A \ {session[d].turn}
  <2>1. Cardinality(S) < MaxActive
    BY <1>3 DEF NewJob, Room
  <2>2. A' \subseteq S \cup {j} /\ R' \subseteq R
    BY <1>1, <1>3, NewJobRows DEF ActiveJobs, RunningJobs, ActiveStates
  <2>3. S \in SUBSET Jobs
    BY <1>1
  <2> HIDE DEF S, A, R
  <2>4. Cardinality(A') <= MaxActive
    BY <1>1, <2>1, <2>2, <2>3, OneMore
  <2>5. Cardinality(R') <= MaxRunning
    BY <1>1, <2>2, NoMore DEF Bounded, R
  <2> QED
    BY <2>4, <2>5 DEF Bounded, A, R
<1>4. ASSUME NEW p \in Processes, NEW d \in Decks, ClaimJob(p, d) PROVE Bounded'
  <2> DEFINE S == {i \in Jobs : Recovered[i].state = "running"}
  <2>1. PICK j \in Jobs :
          /\ jobs[j].state = "queued" /\ jobs'[j].state = "running"
          /\ \A i \in Jobs \ {j} : jobs'[i] = Recovered[i]
    BY <1>4, ClaimJobRows
  <2>2. A' \subseteq A /\ R' \subseteq S \cup {j}
    BY <1>1, <2>1, RecoveredRows DEF ActiveJobs, RunningJobs, ActiveStates
  <2>3. S \in SUBSET Jobs /\ S \subseteq R
    BY <1>1, RecoveredRows DEF RunningJobs
  <2>4. Cardinality(S) < MaxRunning
    <3>1. IsFiniteSet(S)
      BY <2>3, JobConstants, FS_Subset
    <3>2. ~(Cardinality(S) >= MaxRunning)
      BY <1>4 DEF ClaimJob, Crowded
    <3> HIDE DEF S
    <3> QED
      BY <1>1, <3>1, <3>2, FS_CardinalityType
  <2> HIDE DEF S, A, R
  <2>5. Cardinality(A') <= MaxActive
    BY <1>1, <2>2, NoMore DEF Bounded, A
  <2>6. Cardinality(R') <= MaxRunning
    BY <1>1, <2>2, <2>3, <2>4, OneMore
  <2> QED
    BY <2>5, <2>6 DEF Bounded, A, R
<1>5. ASSUME NEW j \in Jobs, ReleaseClaim(j) PROVE Bounded'
  <2>1. A' \subseteq A /\ R' \subseteq R
    BY <1>1, <1>5, ReleasedRows DEF ReleaseClaim, ActiveJobs, RunningJobs, ActiveStates
  <2> QED
    BY <1>1, <2>1, NoMore DEF Bounded
<1> QED
  BY <1>2, <1>3, <1>4, <1>5, RowMoves

LEMMA InitBounded == Init => Bounded
<1> SUFFICES ASSUME Init PROVE Bounded
  OBVIOUS
<1>1. ActiveJobs = {} /\ RunningJobs = {}
  BY DEF Init, NoRow, ActiveJobs, RunningJobs, ActiveStates
<1> QED
  BY <1>1, FS_EmptySet, JobConstants DEF Bounded

LEMMA AlwaysBounded == Spec => []Bounded
  BY InitBounded, BoundedStep, Invariance, PTL DEF Spec

\* The queue holds no more jobs than it admits, although a steering message
\* replaces a job of its own deck while the others are counted.
THEOREM QueueBounded == Spec => []ActiveBounded
<1>1. Bounded => ActiveBounded
  BY DEF Bounded, ActiveBounded
<1> QED
  BY <1>1, AlwaysBounded, PTL

\* No more jobs run than the claim allows, whichever processes claim them.
THEOREM ClaimsBounded == Spec => []RunningBounded
<1>1. Bounded => RunningBounded
  BY DEF Bounded, RunningBounded, RunningJobs
<1> QED
  BY <1>1, AlwaysBounded, PTL

-----------------------------------------------------------------------------
(* Worker slots                                                             *)

Held(p) == {j \in Jobs : work[j] # "idle" /\ Host(j) = p}
Conserved(p) == free[p] + dispatching[p] + Cardinality(Held(p)) = Slots

LEMMA HeldCount ==
  ASSUME NEW p \in Processes
  PROVE  IsFiniteSet(Held(p)) /\ Cardinality(Held(p)) \in Nat
<1>1. Held(p) \in SUBSET Jobs
  BY DEF Held
<1> QED
  BY <1>1, JobConstants, FS_Subset, FS_CardinalityType

\* Rows keep their owners and workers neither start nor end.
LEMMA SameHolders ==
  ASSUME \A i \in Jobs : /\ jobs'[i].owner = jobs[i].owner
                         /\ work'[i] = "idle" <=> work[i] = "idle"
  PROVE  \A p \in Processes : Held(p)' = Held(p)
  BY DEF Held, Host

LEMMA SameConserved ==
  ASSUME \A p \in Processes : Conserved(p), UNCHANGED <<free, dispatching>>,
         \A p \in Processes : Held(p)' = Held(p)
  PROVE  \A p \in Processes : Conserved(p)'
  BY DEF Conserved

LEMMA GiveBackConserves ==
  ASSUME TypeOK, \A q \in Processes : Conserved(q), NEW p \in Processes,
         TakeSlot(p) \/ GiveBack(p), \A q \in Processes : Held(q)' = Held(q)
  PROVE  \A q \in Processes : Conserved(q)'
<1> SUFFICES ASSUME NEW q \in Processes PROVE Conserved(q)'
  OBVIOUS
<1>1. /\ free[q] \in Nat /\ dispatching[q] \in Nat /\ Cardinality(Held(q)) \in Nat
      /\ Conserved(q) /\ Cardinality(Held(q))' = Cardinality(Held(q))
  BY HeldCount DEF TypeOK
<1>2. CASE TakeSlot(p)
  <2>1. free' = [free EXCEPT ![p] = @ - 1] /\ dispatching' = [dispatching EXCEPT ![p] = @ + 1]
    BY <1>2 DEF TakeSlot
  <2> QED
    BY <1>1, <2>1 DEF Conserved, TypeOK
<1>3. CASE GiveBack(p)
  <2>1. free' = [free EXCEPT ![p] = @ + 1] /\ dispatching' = [dispatching EXCEPT ![p] = @ - 1]
    BY <1>3 DEF GiveBack
  <2> QED
    BY <1>1, <2>1 DEF Conserved, TypeOK
<1> QED
  BY <1>2, <1>3

\* A worker that ends gives its permit back.
LEMMA EndConserves ==
  ASSUME IInv, \A q \in Processes : Conserved(q), NEW j \in Jobs, work[j] # "idle",
         Goes(j, "idle"), free' = [free EXCEPT ![Host(j)] = @ + 1], UNCHANGED dispatching,
         \A i \in Jobs \ {j} : jobs'[i].owner = jobs[i].owner
  PROVE  \A q \in Processes : Conserved(q)'
<1> SUFFICES ASSUME NEW q \in Processes PROVE Conserved(q)'
  OBVIOUS
<1>1. Host(j) \in Processes
  BY DEF Host, IInv, Claimed
<1>2. Held(q)' = Held(q) \ {j} /\ (j \in Held(q) <=> q = Host(j))
  BY DEF Held, Host, Goes, IInv, TypeOK
<1>3. /\ free[q] \in Nat /\ dispatching[q] \in Nat /\ Cardinality(Held(q)) \in Nat
      /\ IsFiniteSet(Held(q))
  BY HeldCount DEF IInv, TypeOK
<1>4. Cardinality(Held(q)') = IF q = Host(j) THEN Cardinality(Held(q)) - 1 ELSE Cardinality(Held(q))
  BY <1>2, <1>3, FS_RemoveElement
<1>5. free'[q] = IF q = Host(j) THEN free[q] + 1 ELSE free[q]
  BY <1>1 DEF IInv, TypeOK
<1>6. Cardinality(Held(q))' = Cardinality(Held(q)')
  OBVIOUS
<1> QED
  BY <1>3, <1>4, <1>5, <1>6 DEF Conserved

\* A claim turns the permit of a dispatching thread into that of a worker.
LEMMA ClaimConserves ==
  ASSUME IInv, \A q \in Processes : Conserved(q), NEW p \in Processes, NEW d \in Decks,
         ClaimJob(p, d)
  PROVE  \A q \in Processes : Conserved(q)'
<1>1. PICK j \in Queued(d) : /\ jobs' = [Recovered EXCEPT ![j] = RunningRow(@, p)]
                             /\ work' = [work EXCEPT ![j] = "claimed"]
  BY DEF ClaimJob
<1>2. TypeOK /\ j \in Jobs /\ jobs[j].state = "queued" /\ work[j] = "idle"
  BY <1>1 DEF Queued, CurrentJob, IInv, TypeOK, Claimed
<1>3. Recovered \in [Jobs -> Row]
  BY <1>2, RecoveredRows
<1>4. jobs'[j] = RunningRow(Recovered[j], p) /\ \A i \in Jobs \ {j} : jobs'[i] = Recovered[i]
  BY <1>1, <1>2, <1>3
<1>5. jobs'[j].owner = p
  BY <1>2, <1>3, <1>4, ClaimRow
<1>6. ASSUME NEW q \in Processes
      PROVE  /\ Held(q)' = IF q = p THEN Held(q) \cup {j} ELSE Held(q)
             /\ j \notin Held(q)
  BY <1>1, <1>2, <1>4, <1>5, RecoveredRows DEF Held, Host, TypeOK
<1> SUFFICES ASSUME NEW q \in Processes PROVE Conserved(q)'
  OBVIOUS
<1>7. /\ free[q] \in Nat /\ dispatching[q] \in Nat /\ Cardinality(Held(q)) \in Nat
      /\ IsFiniteSet(Held(q)) /\ Conserved(q)
  BY <1>2, HeldCount DEF TypeOK
<1>8. Cardinality(Held(q)') = IF q = p THEN Cardinality(Held(q)) + 1 ELSE Cardinality(Held(q))
  BY <1>6, <1>7, FS_AddElement
<1>9. /\ free'[q] = free[q]
      /\ dispatching'[q] = IF q = p THEN dispatching[q] - 1 ELSE dispatching[q]
  BY <1>2 DEF ClaimJob, TypeOK
<1>10. Cardinality(Held(q))' = Cardinality(Held(q)')
  OBVIOUS
<1> QED
  BY <1>7, <1>8, <1>9, <1>10 DEF Conserved

LEMMA NewJobConserves ==
  ASSUME IInv, \A q \in Processes : Conserved(q),
         NEW d \in Decks, NEW j \in Jobs, NEW rev \in 0..revision[d], NewJob(d, j, rev)
  PROVE  \A q \in Processes : Conserved(q)'
<1>1. work[j] = "idle" /\ UNCHANGED <<work, free, dispatching>> /\ TypeOK
  BY DEF IInv, Placed, NewJob, threads
<1>2. \A q \in Processes : Held(q)' = Held(q)
  BY <1>1, NewJobRows DEF Held, Host
<1> QED
  BY <1>1, <1>2, SameConserved

\* A process takes its workers and dispatching threads with it.
LEMMA CrashConserves ==
  ASSUME IInv, \A q \in Processes : Conserved(q), NEW p \in Processes, Crash(p)
  PROVE  \A q \in Processes : Conserved(q)'
<1>1. UNCHANGED jobs /\ work' = [j \in Jobs |-> IF Host(j) = p THEN "idle" ELSE work[j]]
  BY DEF Crash, store
<1>2. Held(p)' = {} /\ \A q \in Processes \ {p} : Held(q)' = Held(q)
  BY <1>1 DEF Held, Host
<1>3. Conserved(p)'
  BY <1>2, FS_EmptySet, JobConstants DEF Crash, Conserved, IInv, TypeOK
<1>4. \A q \in Processes \ {p} : Conserved(q)'
  BY <1>2 DEF Crash, Conserved, IInv, TypeOK
<1> QED
  BY <1>3, <1>4

LEMMA WorkerConserves ==
  ASSUME IInv, \A q \in Processes : Conserved(q), NEW j \in Jobs, WorkerStep(j)
  PROVE  \A q \in Processes : Conserved(q)'
<1>1. TypeOK
  BY DEF IInv
<1>2. CASE ReleaseClaim(j)
  BY <1>1, <1>2, EndConserves, ReleasedRows DEF ReleaseClaim, Worker
<1>3. CASE Retire(j)
  BY <1>3, EndConserves DEF Retire, Worker, store
<1>4. CASE ~ReleaseClaim(j) /\ ~Retire(j)
  <2>1. /\ UNCHANGED <<free, dispatching>>
        /\ UNCHANGED work
           \/ \E phase \in Phases \ {"idle"} : work[j] # "idle" /\ Goes(j, phase)
    BY <1>4 DEF WorkerStep, Submit, EnterTurn, Abandon, CheckCall, StartCall, EndCall, Checkpoint,
       Append, LeaveTurn, Finish, Invalidate, StoreFails, threads, Worker, Phases
  <2>2. \A i \in Jobs : work'[i] = "idle" <=> work[i] = "idle"
    BY <1>1, <2>1 DEF Goes, TypeOK
  <2>3. \A i \in Jobs : jobs'[i].owner = jobs[i].owner
    BY <1>4, WorkerRows DEF Ends
  <2> QED
    BY <2>1, <2>2, <2>3, SameHolders, SameConserved
<1> QED
  BY <1>2, <1>3, <1>4

LEMMA ConservedStep ==
  ASSUME IInv, \A q \in Processes : Conserved(q), [Next]_vars
  PROVE  \A q \in Processes : Conserved(q)'
<1>1. TypeOK
  BY DEF IInv
<1>2. ASSUME NEW d \in Decks, DeckStep(d) PROVE \A q \in Processes : Conserved(q)'
  <2>1. UNCHANGED threads
    BY <1>2 DEF DeckStep, Stop, Settings, End, EditDeck, DeleteDeck, Recover
  <2> QED
    BY <1>2, <2>1, DeckRows, SameHolders, SameConserved DEF threads, Ends
<1>3. ASSUME NEW p \in Processes, NEW d \in Decks, Claim(p, d), ~ClaimJob(p, d)
      PROVE  \A q \in Processes : Conserved(q)'
  <2>1. GiveBack(p) /\ UNCHANGED work
    BY <1>3 DEF Claim, ClaimNothing, ClaimStale, ClaimDeleted, GiveBack
  <2> QED
    BY <1>1, <1>3, <2>1, ClaimRows, SameHolders, GiveBackConserves DEF Ends
<1>4. ASSUME NEW j \in Jobs, LeaseAges(j) \/ Heartbeat(j)
      PROVE  \A q \in Processes : Conserved(q)'
  BY <1>1, <1>4, QuietRows, SameHolders, SameConserved DEF LeaseAges, Heartbeat, threads
<1>5. ASSUME NEW p \in Processes, Start(p) \/ Recycle(p) \/ TakeSlot(p)
      PROVE  \A q \in Processes : Conserved(q)'
  BY <1>1, <1>5, SameHolders, SameConserved, GiveBackConserves
     DEF Start, Recycle, TakeSlot, store
<1>6. CASE UNCHANGED vars
  BY <1>6, SameHolders, SameConserved DEF vars, store, threads
<1>7. CASE \E d \in Decks, j \in Jobs : \E rev \in 0..revision[d] : NewJob(d, j, rev)
  BY <1>7, NewJobConserves
<1>8. CASE \E p \in Processes, d \in Decks : Claim(p, d)
  BY <1>3, <1>8, ClaimConserves
<1>9. CASE \E p \in Processes : ProcessStep(p)
  BY <1>5, <1>9, CrashConserves DEF ProcessStep
<1>10. CASE \E j \in Jobs : WorkerStep(j)
  BY <1>10, WorkerConserves
<1> QED
  BY <1>2, <1>4, <1>6, <1>7, <1>8, <1>9, <1>10, StepCases DEF DeckStep

LEMMA InitConserved == Init => \A q \in Processes : Conserved(q)
<1> SUFFICES ASSUME Init, NEW q \in Processes PROVE Conserved(q)
  OBVIOUS
<1>1. Held(q) = {}
  BY DEF Init, Held
<1> QED
  BY <1>1, FS_EmptySet, JobConstants DEF Init, Conserved

\* Worker permits are neither lost nor invented, although a permit is taken by
\* one thread, kept by another, and given back on five different paths.
THEOREM PermitsConserved == Spec => []SlotsConserved
<1> DEFINE AllConserved == \A q \in Processes : Conserved(q)
<1>1. AllConserved <=> SlotsConserved
  BY DEF SlotsConserved, Conserved, Held
<1>2. IInv /\ AllConserved /\ [Next]_vars => AllConserved'
  BY ConservedStep
<1>3. Init => AllConserved
  BY InitConserved
<1> HIDE DEF AllConserved
<1> QED
  BY <1>1, <1>2, <1>3, Invariance, PTL DEF Spec

-----------------------------------------------------------------------------
(* The record of provider calls                                             *)

\* A worker runs in a process that is up.
HostsUp == \A j \in Jobs : work[j] # "idle" => Up(Host(j))

CallInv == HostsUp /\ CallsOnRecord

LEMMA HostsUpStep ==
  ASSUME IInv, IInv', HostsUp, [Next]_vars
  PROVE  HostsUp'
<1>1. TypeOK /\ \A j \in Jobs : work[j] # "idle" => Host(j) \in Processes
  BY DEF IInv, Claimed, Host
<1>2. ASSUME UNCHANGED status, \A i \in Jobs : jobs'[i].owner = jobs[i].owner,
             \A i \in Jobs : work'[i] # "idle" => work[i] # "idle"
      PROVE  HostsUp'
  BY <1>2 DEF HostsUp, Up, Host
<1>3. ASSUME NEW d \in Decks, NEW j \in Jobs, NEW rev \in 0..revision[d], NewJob(d, j, rev)
      PROVE  HostsUp'
  <2>1. work[j] = "idle" /\ UNCHANGED <<work, status>>
    BY <1>3 DEF IInv, Placed, NewJob, threads
  <2> QED
    BY <1>1, <1>3, <2>1, NewJobRows DEF HostsUp, Up, Host
<1>4. ASSUME NEW p \in Processes, NEW d \in Decks, ClaimJob(p, d)
      PROVE  HostsUp'
  <2>1. PICK j \in Queued(d) : /\ jobs' = [Recovered EXCEPT ![j] = RunningRow(@, p)]
                               /\ work' = [work EXCEPT ![j] = "claimed"]
    BY <1>4 DEF ClaimJob
  <2>2. j \in Jobs /\ Recovered \in [Jobs -> Row]
    BY <1>1, <2>1, RecoveredRows DEF Queued, CurrentJob, TypeOK
  <2>3. jobs'[j].owner = p /\ \A i \in Jobs \ {j} : jobs'[i].owner = jobs[i].owner
    <3>1. jobs'[j] = RunningRow(Recovered[j], p) /\ \A i \in Jobs \ {j} : jobs'[i] = Recovered[i]
      BY <2>1, <2>2
    <3> QED
      BY <1>1, <2>2, <3>1, ClaimRow, RecoveredRows
  <2>4. Up(p) /\ UNCHANGED status /\ \A i \in Jobs \ {j} : work'[i] = work[i]
    BY <1>1, <1>4, <2>1 DEF ClaimJob, TypeOK
  <2> QED
    BY <2>3, <2>4 DEF HostsUp, Up, Host
<1>5. ASSUME NEW j \in Jobs, ReleaseClaim(j) PROVE HostsUp'
  <2>1. work' = [work EXCEPT ![j] = "idle"] /\ UNCHANGED status
        /\ \A i \in Jobs \ {j} : jobs'[i] = jobs[i]
    BY <1>1, <1>5, ReleasedRows DEF ReleaseClaim, Goes
  <2> QED
    BY <1>1, <2>1 DEF HostsUp, Up, Host, TypeOK
<1>6. ASSUME NEW p \in Processes, ProcessStep(p) PROVE HostsUp'
  <2>1. CASE Start(p) \/ Recycle(p) \/ TakeSlot(p)
    BY <1>1, <2>1 DEF HostsUp, Up, Host, Start, Recycle, TakeSlot, store, TypeOK
  <2>2. CASE Crash(p)
    BY <1>1, <2>2 DEF HostsUp, Up, Host, Crash, store, TypeOK
  <2> QED
    BY <1>6, <2>1, <2>2 DEF ProcessStep
<1>7. ASSUME NEW d \in Decks, DeckStep(d) PROVE HostsUp'
  <2>1. UNCHANGED threads
    BY <1>7 DEF DeckStep, Stop, Settings, End, EditDeck, DeleteDeck, Recover
  <2> QED
    BY <1>2, <1>7, <2>1, DeckRows DEF Ends, threads
<1>8. ASSUME NEW p \in Processes, NEW d \in Decks, Claim(p, d), ~ClaimJob(p, d) PROVE HostsUp'
  <2>1. UNCHANGED <<work, status>>
    BY <1>8 DEF Claim, ClaimNothing, ClaimStale, ClaimDeleted, GiveBack
  <2> QED
    BY <1>2, <1>8, <2>1, ClaimRows DEF Ends
<1>9. ASSUME NEW j \in Jobs, LeaseAges(j) \/ Heartbeat(j) PROVE HostsUp'
  BY <1>1, <1>2, <1>9, QuietRows DEF LeaseAges, Heartbeat, threads
<1>10. ASSUME NEW j \in Jobs, WorkerStep(j), ~ReleaseClaim(j) PROVE HostsUp'
  <2>1. /\ UNCHANGED status
        /\ UNCHANGED work \/ \E phase \in Phases : work[j] # "idle" /\ Goes(j, phase)
    BY <1>10 DEF WorkerStep, Submit, EnterTurn, Abandon, CheckCall, StartCall, EndCall, Checkpoint,
       Append, LeaveTurn, Finish, Invalidate, StoreFails, Retire, threads, Worker, Phases
  <2>2. \A i \in Jobs : work'[i] # "idle" => work[i] # "idle"
    BY <1>1, <2>1 DEF Goes, TypeOK
  <2> QED
    BY <1>2, <1>10, <2>1, <2>2, WorkerRows DEF Ends
<1>11. CASE UNCHANGED vars
  BY <1>2, <1>11 DEF vars, store, threads
<1> QED
  BY <1>3, <1>4, <1>5, <1>6, <1>7, <1>8, <1>9, <1>10, <1>11, StepCases DEF DeckStep

\* What a step must keep of a job for its being current to be nothing new.
RowKept(j) ==
    /\ jobs'[j].state = jobs[j].state /\ jobs'[j].deck = jobs[j].deck
    /\ jobs'[j].owner = jobs[j].owner /\ jobs'[j].generation = jobs[j].generation
    /\ jobs[j].lease = "lapsed" => jobs'[j].lease = "lapsed"
SessionKept(d) ==
    /\ session'[d].revision = session[d].revision
    /\ session'[d].generation = session[d].generation
    /\ revision[d] <= revision'[d]

LEMMA CurrentKept ==
  ASSUME IInv, IInv', HostsUp, NEW j \in Jobs, work[j] # "idle",
         RowKept(j), SessionKept(jobs[j].deck), Current(Host(j), j)'
  PROVE  Current(Host(j), j)
<1> DEFINE d == jobs[j].deck
<1>1. /\ jobs[j].state \in ActiveStates /\ ~Expired(j)'
      /\ revision'[d] = session'[d].revision /\ jobs'[j].generation = session'[d].generation
  BY DEF Current, Writable, RowKept
<1>2. jobs[j].state = "running" /\ jobs'[j].state = "running"
  BY <1>1 DEF IInv, Claimed, ActiveStates, RowKept
<1>3. OwnerAlive(jobs[j].owner)
  BY JobConstants DEF IInv, Claimed, HostsUp, Up, Host, OwnerAlive
<1>4. ~Expired(j)
  BY <1>1, <1>2, <1>3 DEF Expired, RowKept
<1>5. d \in Decks /\ d \notin deleted /\ session[d].busy /\ session[d].turn = j
  BY <1>1 DEF IInv, Placed, ActiveStates
<1>6. revision[d] = session[d].revision
  <2>1. /\ session[d].revision <= revision[d] /\ revision[d] \in Int /\ session[d].revision \in Int
        /\ revision'[d] \in Int
    BY <1>5 DEF IInv, TypeOK, TurnPlaced
  <2> QED
    BY <1>1, <2>1 DEF SessionKept
<1> QED
  BY <1>1, <1>2, <1>4, <1>5, <1>6 DEF Current, Writable, RowKept, SessionKept, Host

\* A row that stays active is touched only by its own claim, worker or lease.
LEMMA RecoveredSame ==
  ASSUME TypeOK, NEW i \in Jobs, Recovered[i].state \in ActiveStates
  PROVE  Recovered[i] = jobs[i]
BY RowState, Fields DEF Recovered, AfterExpiry, ActiveStates, JobStates

LEMMA CancelledSame ==
  ASSUME TypeOK, NEW d \in Decks, NEW s \in {"superseded", "stopped"}, NEW i \in Jobs,
         Cancelled(d, s)[i].state \in ActiveStates
  PROVE  Cancelled(d, s)[i] = jobs[i]
BY RowState, Fields DEF Cancelled, ActiveStates, JobStates

LEMMA IdleKept ==
  ASSUME TypeOK, NEW d \in Decks, NEW e \in Decks,
         session' \in {session, [session EXCEPT ![d].busy = FALSE]}, UNCHANGED revision
  PROVE  SessionKept(e)
<1>1. session[e].revision \in Nat /\ revision[e] \in Nat /\ session \in SessionType
  BY DEF TypeOK, SessionType
<1> QED
  BY <1>1 DEF SessionKept, SessionType

LEMMA RecoveredKept ==
  ASSUME TypeOK, NEW d \in Decks, NEW e \in Decks,
         session' \in {SessionsRecovered(d), [SessionsRecovered(d) EXCEPT ![d].busy = FALSE]},
         UNCHANGED revision
  PROVE  SessionKept(e)
<1>1. session[e] = [busy |-> session[e].busy, turn |-> session[e].turn,
                    generation |-> session[e].generation, revision |-> session[e].revision]
      /\ revision[e] \in Nat
  BY DEF TypeOK
<1>2. SessionsRecovered(d)[e] \in {session[e], [session[e] EXCEPT !.busy = FALSE]}
  BY DEF SessionsRecovered
<1>3. session'[e] \in {SessionsRecovered(d)[e], [SessionsRecovered(d)[e] EXCEPT !.busy = FALSE]}
  BY DEF SessionsRecovered
<1> QED
  BY <1>1, <1>2, <1>3 DEF SessionKept

SameRow(j) == jobs'[j] = jobs[j]

LEMMA SameKept ==
  ASSUME NEW j \in Jobs, SameRow(j)
  PROVE  RowKept(j) /\ jobs'[j].calls = jobs[j].calls
BY DEF SameRow, RowKept

\* Requests, edits, deletions and recoveries.
LEMMA DeckKeeps ==
  ASSUME IInv, NEW d \in Decks, DeckStep(d), NEW j \in Jobs, jobs'[j].state \in ActiveStates
  PROVE  SameRow(j) /\ UNCHANGED work /\ \A e \in Decks : SessionKept(e)
<1>1. TypeOK
  BY DEF IInv
<1>2. UNCHANGED work
  BY DEF DeckStep, Stop, Settings, End, EditDeck, DeleteDeck, Recover, threads
<1>3. CASE Stop(d) \/ Settings(d)
  BY <1>1, <1>2, <1>3, CancelledSame, IdleKept DEF Stop, Settings, End, SameRow
<1>4. CASE EditDeck(d)
  <2>1. \A e \in Decks : revision[e] \in Nat
    BY <1>1 DEF TypeOK
  <2> QED
    BY <1>1, <1>2, <1>4, <2>1 DEF EditDeck, SameRow, SessionKept, TypeOK
<1>5. CASE DeleteDeck(d)
  <2>1. SameRow(j)
    <3>1. jobs'[j] \in {jobs[j], [jobs[j] EXCEPT !.state = "deleted"]} /\ jobs[j] \in Row
      BY <1>1, <1>5, Fields DEF DeleteDeck
    <3>2. [jobs[j] EXCEPT !.state = "deleted"].state = "deleted"
      BY <3>1 DEF Row
    <3> QED
      BY <3>1, <3>2 DEF SameRow, ActiveStates
  <2>2. \A e \in Decks : session[e].revision \in Nat /\ revision[e] \in Nat /\ session \in SessionType
    BY <1>1 DEF TypeOK, SessionType
  <2>3. \A e \in Decks : SessionKept(e)
    BY <1>5, <2>2 DEF DeleteDeck, SessionKept, SessionType
  <2> QED
    BY <1>2, <2>1, <2>3
<1>6. CASE Recover(d)
  <2>1. PICK i \in CurrentJob(d) : Expired(i) /\ jobs' = [jobs EXCEPT ![i] = AfterExpiry(i)]
    BY <1>6 DEF Recover
  <2>2. i \in Jobs /\ AfterExpiry(i).state = "interrupted"
    BY <1>1, <2>1, Fields DEF CurrentJob, TypeOK, AfterExpiry, Row
  <2>3. SameRow(j)
    BY <1>1, <2>1, <2>2 DEF SameRow, TypeOK, ActiveStates
  <2> QED
    BY <1>1, <1>2, <1>6, <2>3, IdleKept DEF Recover
<1> QED
  BY <1>3, <1>4, <1>5, <1>6 DEF DeckStep

\* A new job, which has no worker yet, takes the session from the others.
LEMMA NewJobKeeps ==
  ASSUME IInv, NEW d \in Decks, NEW i \in Jobs, NEW rev \in 0..revision[d], NewJob(d, i, rev),
         NEW j \in Jobs, work'[j] # "idle", Current(Host(j), j)'
  PROVE  SameRow(j) /\ UNCHANGED work /\ SessionKept(jobs[j].deck)
<1>1. TypeOK /\ UNCHANGED <<work, revision>>
  BY DEF IInv, NewJob, threads
<1>2. j # i
  BY <1>1 DEF NewJob, IInv, Placed
<1>3. jobs'[j] = Cancelled(d, "superseded")[j] /\ jobs'[j].state \in ActiveStates
  <2>1. Cancelled(d, "superseded") \in [Jobs -> Row]
    BY <1>1, CancelledRows DEF JobStates
  <2>2. jobs'[j].state \in ActiveStates
    BY DEF Current, Writable
  <2> QED
    BY <1>2, <2>1, <2>2 DEF NewJob
<1>4. SameRow(j)
  BY <1>1, <1>3, CancelledSame DEF SameRow
<1>5. session'[jobs[j].deck].turn = j
  BY <1>4 DEF Current, SameRow
<1>6. jobs[j].deck \in Decks /\ jobs[j].deck # d
  <2>1. jobs[j].deck \in Decks
    BY <1>3, <1>4 DEF SameRow, IInv, Placed, ActiveStates
  <2>2. session'[d].turn = i
    BY <1>1 DEF NewJob, TypeOK
  <2> QED
    BY <1>2, <1>5, <2>1, <2>2
<1>7. session'[jobs[j].deck] = session[jobs[j].deck] /\ revision[jobs[j].deck] \in Nat
  BY <1>1, <1>6 DEF NewJob, TypeOK
<1> QED
  BY <1>1, <1>4, <1>7 DEF SessionKept

\* A claim, which takes a job without a worker and retires expired ones.
LEMMA ClaimKeeps ==
  ASSUME IInv, NEW p \in Processes, NEW d \in Decks, Claim(p, d),
         NEW j \in Jobs, work'[j] = "calling", jobs'[j].state \in ActiveStates
  PROVE  SameRow(j) /\ work[j] = work'[j] /\ \A e \in Decks : SessionKept(e)
<1>1. TypeOK /\ Recovered \in [Jobs -> Row]
  BY RecoveredRows DEF IInv
<1>2. CASE ClaimNothing(p, d)
  BY <1>1, <1>2, RecoveredSame, RecoveredKept DEF ClaimNothing, GiveBack, SameRow
<1>3. CASE ClaimDeleted(p, d)
  <2>1. \A e \in Decks : revision[e] \in Nat
    BY <1>1 DEF TypeOK
  <2> QED
    BY <1>3, <2>1 DEF ClaimDeleted, GiveBack, SameRow, SessionKept, store
<1>4. CASE ClaimStale(p, d)
  <2>1. PICK i \in Queued(d) : jobs' = [Recovered EXCEPT ![i].state = "superseded"]
    BY <1>4 DEF ClaimStale
  <2>2. i \in Jobs /\ jobs'[i].state = "superseded"
    BY <1>1, <2>1 DEF Queued, CurrentJob, TypeOK, Row
  <2>3. i # j
    BY <2>2 DEF ActiveStates
  <2>4. SameRow(j)
    BY <1>1, <2>1, <2>2, <2>3, RecoveredSame DEF SameRow
  <2> QED
    BY <1>1, <1>4, <2>4, RecoveredKept DEF ClaimStale, GiveBack
<1>5. CASE ClaimJob(p, d)
  <2>1. PICK i \in Queued(d) : /\ jobs' = [Recovered EXCEPT ![i] = RunningRow(@, p)]
                               /\ work' = [work EXCEPT ![i] = "claimed"]
    BY <1>5 DEF ClaimJob
  <2>2. i \in Jobs
    BY <1>1, <2>1 DEF Queued, CurrentJob, TypeOK
  <2>3. i # j /\ work[j] = work'[j]
    BY <1>1, <2>1, <2>2 DEF TypeOK
  <2>4. SameRow(j)
    BY <1>1, <2>1, <2>2, <2>3, RecoveredSame DEF SameRow
  <2> QED
    BY <1>1, <1>5, <2>3, <2>4, RecoveredKept DEF ClaimJob
<1> QED
  BY <1>2, <1>3, <1>4, <1>5 DEF Claim

\* The worker of another job writes its own row, and can only idle its session.
LEMMA OtherWorkerKeeps ==
  ASSUME IInv, NEW i \in Jobs, WorkerStep(i), NEW j \in Jobs \ {i}
  PROVE  SameRow(j) /\ work[j] = work'[j] /\ \A e \in Decks : SessionKept(e)
<1>1. TypeOK
  BY DEF IInv
<1>2. work[j] = work'[j]
  BY <1>1 DEF WorkerStep, Submit, ReleaseClaim, EnterTurn, Abandon, CheckCall, StartCall, EndCall,
     Checkpoint, Append, LeaveTurn, Finish, Invalidate, StoreFails, Retire, threads, Goes, TypeOK
<1>3. SameRow(j)
  BY <1>1 DEF WorkerStep, Submit, ReleaseClaim, EnterTurn, Abandon, CheckCall, StartCall, EndCall,
     Checkpoint, Append, LeaveTurn, Finish, Invalidate, StoreFails, Retire, store, SameRow, Released,
     Publish, Discard, Invalidated, TypeOK
<1>4. UNCHANGED revision
  BY DEF WorkerStep, Submit, ReleaseClaim, EnterTurn, Abandon, CheckCall, StartCall, EndCall,
     Checkpoint, Append, LeaveTurn, Finish, Invalidate, StoreFails, Retire, store
<1>5. CASE UNCHANGED session
  <2>1. \A e \in Decks : revision[e] \in Nat
    BY <1>1 DEF TypeOK
  <2> QED
    BY <1>2, <1>3, <1>4, <1>5, <2>1 DEF SessionKept
<1>6. CASE Finish(i) \/ Invalidate(i)
  <2>1. \/ UNCHANGED session
        \/ /\ jobs[i].state \in ActiveStates
           /\ session' = [session EXCEPT ![jobs[i].deck].busy = FALSE]
    BY <1>6 DEF Finish, Invalidate, Publish, Discard, Idled, Current, Writable
  <2>2. jobs[i].state \in ActiveStates => jobs[i].deck \in Decks
    BY DEF IInv, Placed, ActiveStates
  <2> QED
    BY <1>1, <1>2, <1>3, <1>4, <1>5, <2>1, <2>2, IdleKept
<1> QED
  BY <1>5, <1>6 DEF WorkerStep, Submit, ReleaseClaim, EnterTurn, Abandon, CheckCall, StartCall,
     EndCall, Checkpoint, Append, LeaveTurn, StoreFails, Retire, store

\* The worker itself: it is calling after the step only if it has just put the
\* call on record, or tried to.
LEMMA OwnWorkerRecords ==
  ASSUME IInv, IInv', HostsUp, NEW j \in Jobs, WorkerStep(j), work'[j] = "calling",
         Current(Host(j), j)'
  PROVE  jobs'[j].calls = "started"
<1>1. TypeOK
  BY DEF IInv
<1>2. StartCall(j)
  BY <1>1 DEF WorkerStep, Submit, ReleaseClaim, EnterTurn, Abandon, CheckCall, EndCall, Checkpoint,
     Append, LeaveTurn, Finish, Invalidate, StoreFails, Retire, threads, Goes, TypeOK, Worker
<1>3. CASE Current(Host(j), j)
  BY <1>1, <1>2, <1>3 DEF StartCall, Checkpoint, TypeOK, Row
<1>4. CASE ~Current(Host(j), j)
  <2>1. UNCHANGED <<store, status>> /\ work[j] # "idle"
    BY <1>2, <1>4 DEF StartCall, Checkpoint, store, Worker
  <2>2. jobs[j].deck \in Decks
    BY <2>1 DEF IInv, Placed, store, Current, Writable, ActiveStates
  <2>3. RowKept(j) /\ SessionKept(jobs[j].deck)
    BY <1>1, <2>1, <2>2 DEF RowKept, SessionKept, store, TypeOK
  <2> QED
    BY <1>4, <2>1, <2>3, CurrentKept
<1> QED
  BY <1>3, <1>4

LEMMA LeaseKeeps ==
  ASSUME TypeOK, NEW i \in Jobs, LeaseAges(i) \/ Heartbeat(i), NEW j \in Jobs
  PROVE  /\ RowKept(j) /\ jobs'[j].calls = jobs[j].calls /\ UNCHANGED work
         /\ \A e \in Decks : SessionKept(e)
<1>1. jobs \in [Jobs -> Row] /\ \A e \in Decks : revision[e] \in Nat
  BY DEF TypeOK
<1>2. UNCHANGED <<work, session, revision>>
  BY DEF LeaseAges, Heartbeat, threads
<1>3. \E l \in {"fresh", "due", "lapsed"} :
        /\ jobs' = [jobs EXCEPT ![i].lease = l]
        /\ jobs[i].lease = "lapsed" => l = "lapsed"
  BY DEF LeaseAges, Heartbeat, Renewable
<1>4. RowKept(j) /\ jobs'[j].calls = jobs[j].calls
  BY <1>1, <1>3 DEF RowKept, Row
<1> QED
  BY <1>1, <1>2, <1>4 DEF SessionKept

LEMMA CallStep ==
  ASSUME IInv, IInv', CallInv, [Next]_vars, NEW j \in Jobs, work'[j] = "calling",
         Current(Host(j), j)'
  PROVE  jobs'[j].calls = "started"
<1>1. TypeOK /\ jobs'[j].state \in ActiveStates
  BY DEF IInv, Current, Writable
<1>2. ASSUME RowKept(j), jobs'[j].calls = jobs[j].calls, work[j] = work'[j],
             \A e \in Decks : SessionKept(e)
      PROVE  jobs'[j].calls = "started"
  <2>1. jobs[j].deck \in Decks
    BY <1>1, <1>2 DEF RowKept, IInv, Placed, ActiveStates
  <2>2. Current(Host(j), j)
    BY <1>2, <2>1, CurrentKept DEF CallInv
  <2> QED
    BY <1>2, <2>2 DEF CallInv, CallsOnRecord
<1>3. ASSUME NEW d \in Decks, NEW i \in Jobs, NEW rev \in 0..revision[d], NewJob(d, i, rev)
      PROVE  jobs'[j].calls = "started"
  <2>1. SameRow(j) /\ UNCHANGED work /\ SessionKept(jobs[j].deck)
    BY <1>3, NewJobKeeps
  <2>2. Current(Host(j), j)
    BY <2>1, SameKept, CurrentKept DEF CallInv
  <2> QED
    BY <2>1, <2>2 DEF CallInv, CallsOnRecord, SameRow
<1>4. ASSUME NEW d \in Decks, DeckStep(d) PROVE jobs'[j].calls = "started"
  BY <1>1, <1>2, <1>4, DeckKeeps, SameKept
<1>5. ASSUME NEW p \in Processes, NEW d \in Decks, Claim(p, d) PROVE jobs'[j].calls = "started"
  BY <1>1, <1>2, <1>5, ClaimKeeps, SameKept
<1>6. ASSUME NEW i \in Jobs, WorkerStep(i) PROVE jobs'[j].calls = "started"
  <2>1. CASE i = j
    BY <1>6, <2>1, OwnWorkerRecords DEF CallInv
  <2>2. CASE i # j
    BY <1>2, <1>6, <2>2, OtherWorkerKeeps, SameKept
  <2> QED
    BY <2>1, <2>2
<1>7. ASSUME NEW i \in Jobs, LeaseAges(i) \/ Heartbeat(i) PROVE jobs'[j].calls = "started"
  BY <1>1, <1>2, <1>7, LeaseKeeps
<1>8. ASSUME UNCHANGED store, work'[j] = work[j] PROVE jobs'[j].calls = "started"
  <2>1. SameRow(j) /\ \A e \in Decks : SessionKept(e)
    BY <1>1, <1>8 DEF store, SameRow, SessionKept, TypeOK
  <2> QED
    BY <1>2, <1>8, <2>1, SameKept
<1>9. ASSUME NEW p \in Processes, ProcessStep(p) PROVE jobs'[j].calls = "started"
  <2>1. UNCHANGED store /\ work'[j] = work[j]
    BY <1>9 DEF ProcessStep, Start, Crash, Recycle, TakeSlot
  <2> QED
    BY <1>8, <2>1
<1>10. CASE UNCHANGED vars
  BY <1>8, <1>10 DEF vars, threads
<1> QED
  BY <1>3, <1>4, <1>5, <1>6, <1>7, <1>9, <1>10, StepCases DEF DeckStep

(***************************************************************************)
(* The record of calls: while a worker whose writes would be accepted      *)
(* calls a provider, its row says so, whatever stop, steering, edit,       *)
(* recovery, lease or crash comes between its checks and its checkpoints.  *)
(* So a row that was interrupted during a call is never taken for one that *)
(* made none.                                                              *)
(***************************************************************************)
THEOREM CallsRecorded == Spec => []CallsOnRecord
<1>1. Init => CallInv
  BY DEF Init, CallInv, HostsUp, CallsOnRecord
<1>2. IInv /\ IInv' /\ CallInv /\ [Next]_vars => CallInv'
  BY HostsUpStep, CallStep DEF CallInv, CallsOnRecord
<1>3. CallInv => CallsOnRecord
  BY DEF CallInv
<1> QED
  BY <1>1, <1>2, <1>3, Invariance, PTL DEF Spec
=============================================================================
