------------------------ MODULE SnapshotTurns_proofs -------------------------
(***************************************************************************)
(* Proofs about ResearchCache, for every value of its constants, and about  *)
(* ResearchLoop, for every value that LoopConstants admits.                *)
(***************************************************************************)
EXTENDS SnapshotTurns, FiniteSetTheorems, TLAPS

-----------------------------------------------------------------------------
(* The snapshot                                                             *)

Tasks == [phase : Phases, key : Keys, low : Nat, high : Nat, built : Nat,
          ready : BOOLEAN, misses : 0..MaxMisses]

LEMMA Days ==
  /\ \A n \in Nat : n \div DayLength \in Nat
  /\ \A m, n \in Nat : m <= n => m \div DayLength <= n \div DayLength
  BY CacheConstants, Z3

LEMMA KeyType == ASSUME TypeOK PROVE CurrentKey \in Keys /\ Today \in Nat
<1>1. now \in Nat
  BY CacheConstants DEF TypeOK
<1> QED
  BY <1>1, Days DEF TypeOK, CurrentKey, Compacted, Keys, Today

LEMMA HeldType == ASSUME TypeOK PROVE Held \in Snapshots \cup {None}
  BY DEF TypeOK, Held

\* One task changes some of its fields.
LEMMA PhaseChange ==
  ASSUME TypeOK, NEW t \in Threads, NEW phase \in Phases, Goes(t, phase)
  PROVE  /\ task' \in [Threads -> Tasks] /\ task'[t].phase = phase
         /\ task'[t] = [task[t] EXCEPT !.phase = phase]
         /\ \A s \in Threads \ {t} : task'[s] = task[s]
  BY DEF TypeOK, Tasks, Goes

Rows == [revision : Nat, dirty : BOOLEAN, changed : Nat, invalidated : Nat]

LEMMA CompactedType ==
  ASSUME row \in Rows
  PROVE  /\ Compacted \in Rows /\ ~Compacted.dirty
         /\ Compacted.revision = IF row.dirty THEN row.revision + 1 ELSE row.revision
<1> DEFINE r == [row EXCEPT !.revision = @ + 1, !.dirty = FALSE]
<1>1. row.revision + 1 \in Nat
  BY DEF Rows
<1>2. r \in Rows /\ r.revision = row.revision + 1 /\ r.dirty = FALSE
  BY <1>1 DEF Rows
<1>3. row.dirty \in BOOLEAN
  BY DEF Rows
<1> QED
  BY <1>2, <1>3 DEF Compacted

\* The type of what an action leaves alone.
LEMMA RestType ==
  ASSUME TypeOK, UNCHANGED <<world, restarts>>, row' \in Rows,
         disk' \in Snapshots \cup {None}, memory' \in Snapshots \cup {None},
         refreshing' \in BOOLEAN, pending' \in BOOLEAN, backoff' \in BOOLEAN,
         failures' \in 0..MaxFailures, task' \in [Threads -> Tasks]
  PROVE  TypeOK'
<1>1. UNCHANGED <<now, corpus, writtenAt, restarts>>
  BY DEF world
<1> QED
  BY <1>1 DEF TypeOK, Rows, Tasks

LEMMA InitType == Init => TypeOK
<1> SUFFICES ASSUME Init PROVE TypeOK
  OBVIOUS
<1>1. NoTask \in Tasks
  BY CacheConstants DEF NoTask, Tasks, Phases, Keys
<1>2. now \in 1..MaxTime + 1 /\ corpus \in 0..MaxWrites /\ restarts \in 0..MaxRestarts
      /\ failures \in 0..MaxFailures
  BY CacheConstants DEF Init
<1>3. task \in [Threads -> Tasks]
  BY <1>1 DEF Init
<1> QED
  BY <1>2, <1>3 DEF Init, TypeOK, Tasks

-----------------------------------------------------------------------------
(* What each action does to the tasks                                       *)

\* Phases in which a task carries a key, and what it has read under it.
Keyed == {"keyed", "loading", "loaded", "publishing", "replaced", "remembered"}

Moves(t) ==
    \/ task'[t] = task[t] \/ task'[t].phase \notin Keyed
    \/ TakeKey(t) \/ BeginLoad(t) \/ EndLoad(t) \/ (Recheck(t) /\ SameKey(t))
    \/ Replace(t) \/ Remember(t)

LEMMA MovesFree ==
  ASSUME TypeOK, NEW t \in Threads, NEW phase \in Phases \ Keyed, Goes(t, phase)
  PROVE  task' \in [Threads -> Tasks] /\ \A s \in Threads : Moves(s)
  BY PhaseChange DEF Moves

LEMMA ReturnsMoves ==
  ASSUME TypeOK, NEW t \in Threads, NEW ready \in BOOLEAN, Returns(t, ready)
  PROVE  /\ task' \in [Threads -> Tasks] /\ task'[t].phase \in {"deciding", "leaving"}
         /\ \A s \in Threads \ {t} : task'[s] = task[s]
         /\ failures' \in 0..MaxFailures /\ UNCHANGED <<refreshing, pending, backoff>>
<1>1. CASE t \in Workers
  <2>1. task' = [task EXCEPT ![t].phase = "deciding", ![t].ready = ready]
    BY <1>1 DEF Returns
  <2>2. /\ task'[t] = [task[t] EXCEPT !.phase = "deciding", !.ready = ready]
        /\ \A s \in Threads \ {t} : task'[s] = task[s]
        /\ DOMAIN task' = Threads
    BY <2>1 DEF TypeOK
  <2>3. task[t] \in Tasks /\ task \in [Threads -> Tasks]
    BY DEF TypeOK, Tasks
  <2>4. task'[t] \in Tasks /\ task'[t].phase = "deciding"
    BY <2>2, <2>3 DEF Tasks, Phases
  <2>5. task' \in [Threads -> Tasks]
    BY <2>1, <2>2, <2>3, <2>4
  <2> QED
    BY <1>1, <2>2, <2>4, <2>5, CacheConstants DEF Returns
<1>2. CASE t \notin Workers
  BY <1>2, PhaseChange DEF Returns, Phases, lock, TypeOK
<1> QED
  BY <1>1, <1>2

LEMMA RaisesMoves ==
  ASSUME TypeOK, NEW t \in Threads, Raises(t)
  PROVE  /\ task' \in [Threads -> Tasks] /\ task'[t].phase \in {"ready", "leaving"}
         /\ \A s \in Threads \ {t} : task'[s] = task[s]
         /\ failures' \in 0..MaxFailures /\ UNCHANGED <<refreshing, pending>>
         /\ backoff' \in BOOLEAN
<1>1. CASE t \in Workers
  <2> DEFINE phase == IF failures + 1 >= MaxFailures THEN "leaving" ELSE "ready"
  <2>1. Goes(t, phase) /\ phase \in Phases /\ phase \in {"ready", "leaving"}
    BY <1>1 DEF Raises, Phases
  <2> HIDE DEF phase
  <2>2. failures' \in 0..MaxFailures /\ UNCHANGED <<refreshing, pending>> /\ backoff' \in BOOLEAN
    BY <1>1, CacheConstants DEF Raises, TypeOK
  <2> QED
    BY <2>1, <2>2, PhaseChange
<1>2. CASE t \notin Workers
  BY <1>2, PhaseChange DEF Raises, Phases, lock, TypeOK
<1> QED
  BY <1>1, <1>2

LEMMA TakeKeyMoves ==
  ASSUME TypeOK, NEW t \in Threads, TakeKey(t)
  PROVE  /\ task' \in [Threads -> Tasks] /\ task'[t].phase = "keyed" /\ task'[t].key = CurrentKey
         /\ task'[t].misses = task[t].misses
         /\ \A s \in Threads \ {t} : task'[s] = task[s]
<1>1. task \in [Threads -> Tasks] /\ CurrentKey \in Keys /\ "keyed" \in Phases
  BY KeyType DEF TypeOK, Tasks, Phases
<1> QED
  BY <1>1 DEF TakeKey, Tasks

LEMMA BeginLoadMoves ==
  ASSUME TypeOK, NEW t \in Threads, BeginLoad(t)
  PROVE  /\ task' \in [Threads -> Tasks] /\ task'[t].phase = "loading"
         /\ task'[t].built = Today /\ task'[t].low = corpus /\ task'[t].key = task[t].key
         /\ task'[t].misses = task[t].misses
         /\ \A s \in Threads \ {t} : task'[s] = task[s]
<1>1. task \in [Threads -> Tasks] /\ corpus \in Nat /\ "loading" \in Phases
  BY CacheConstants DEF TypeOK, Tasks, Phases
<1>2. Today \in Nat
  BY KeyType
<1> QED
  BY <1>1, <1>2 DEF BeginLoad, Tasks

LEMMA EndLoadMoves ==
  ASSUME TypeOK, NEW t \in Threads, EndLoad(t)
  PROVE  /\ task' \in [Threads -> Tasks] /\ task'[t].phase = "loaded"
         /\ task'[t].high = corpus /\ task'[t].low = task[t].low
         /\ task'[t].built = task[t].built /\ task'[t].key = task[t].key
         /\ task'[t].misses = task[t].misses
         /\ \A s \in Threads \ {t} : task'[s] = task[s]
<1>1. task \in [Threads -> Tasks] /\ corpus \in Nat /\ "loaded" \in Phases
  BY CacheConstants DEF TypeOK, Tasks, Phases
<1> QED
  BY <1>1 DEF EndLoad, Tasks

LEMMA SameKeyMoves ==
  ASSUME TypeOK, NEW t \in Threads, Recheck(t), SameKey(t)
  PROVE  /\ task' \in [Threads -> Tasks] /\ task'[t].phase = "publishing"
         /\ task'[t].key = task[t].key /\ task'[t].low = task[t].low
         /\ task'[t].built = task[t].built /\ task'[t].high = task[t].high
         /\ task'[t].misses = task[t].misses
         /\ \A s \in Threads \ {t} : task'[s] = task[s]
<1>1. task \in [Threads -> Tasks] /\ CurrentKey \in Keys /\ "publishing" \in Phases
  BY KeyType DEF TypeOK, Tasks, Phases
<1>2. /\ task' = [task EXCEPT ![t].phase = "publishing", ![t].key = CurrentKey]
      /\ task[t].key = CurrentKey
  BY DEF Recheck, SameKey
<1> QED
  BY <1>1, <1>2 DEF Tasks

-----------------------------------------------------------------------------
(* Every step keeps the types, and moves each task in one of these ways      *)

Moved == TypeOK' /\ \A t \in Threads : Moves(t)

LEMMA WorldMoved == ASSUME TypeOK, Write \/ Tick PROVE Moved
<1>1. Marked \in Rows
  <2>1. now \in Nat /\ row \in Rows
    BY CacheConstants DEF TypeOK, Rows
  <2>2. CASE row.invalidated = 0
    BY <2>1, <2>2 DEF Marked, Rows
  <2>3. CASE row.invalidated # 0
    BY <2>1, <2>3 DEF Marked, Rows
  <2> QED
    BY <2>2, <2>3
<1>2. CASE Write
  <2>1. corpus + 1 \in 1..MaxWrites /\ now \in Nat
    BY <1>2, CacheConstants DEF Write, TypeOK
  <2>2. writtenAt' \in [1..MaxWrites -> Nat] /\ corpus' \in 0..MaxWrites
    BY <1>2, <2>1 DEF Write, TypeOK
  <2> QED
    BY <1>1, <1>2, <2>2 DEF Write, Moved, TypeOK, Moves, lock, Rows
<1>3. CASE Tick
  <2>1. now' \in 1..MaxTime + 1
    BY <1>3, CacheConstants DEF Tick, TypeOK
  <2> QED
    BY <1>3, <2>1 DEF Tick, Moved, TypeOK, Moves, lock
<1> QED
  BY <1>2, <1>3

LEMMA PollMoved == ASSUME TypeOK, Poll PROVE Moved
<1>1. task' \in [Threads -> Tasks] /\ \A t \in Threads : Moves(t)
  <2>1. CASE UNCHANGED task
    BY <2>1 DEF TypeOK, Tasks, Moves
  <2>2. CASE \E w \in Workers : Goes(w, "ready")
    BY <2>2, MovesFree DEF Phases, Keyed, Threads
  <2> QED
    BY <2>1, <2>2 DEF Poll
<1>2. /\ UNCHANGED <<world, row, disk, restarts>> /\ memory' = Held
      /\ refreshing' \in BOOLEAN /\ pending' \in BOOLEAN /\ UNCHANGED <<backoff, failures>>
  BY DEF Poll, Joined, Claimed, TypeOK
<1> QED
  BY <1>1, <1>2, RestType, HeldType DEF Moved, TypeOK, Rows

LEMMA AskMoved == ASSUME TypeOK, NEW b \in Blockers, Ask(b) PROVE Moved
<1>1. task' \in [Threads -> Tasks] /\ \A t \in Threads : Moves(t)
  <2>1. CASE Goes(b, "waiting")
    BY <2>1, MovesFree DEF Phases, Keyed, Threads
  <2>2. ASSUME NEW w \in Workers,
               task' = [task EXCEPT ![b].phase = "waiting", ![w].phase = "ready"]
        PROVE  task' \in [Threads -> Tasks] /\ \A t \in Threads : Moves(t)
    <3>1. w # b /\ w \in Threads /\ b \in Threads
      BY CacheConstants DEF Threads
    <3>2. task \in [Threads -> Tasks] /\ {"waiting", "ready"} \subseteq Phases \ Keyed
      BY DEF TypeOK, Tasks, Phases, Keyed
    <3>3. /\ task'[b] = [task[b] EXCEPT !.phase = "waiting"]
          /\ task'[w] = [task[w] EXCEPT !.phase = "ready"]
          /\ \A s \in Threads \ {b, w} : task'[s] = task[s]
      BY <2>2, <3>1, <3>2
    <3>4. /\ task'[b] \in Tasks /\ task'[b].phase = "waiting"
          /\ task'[w] \in Tasks /\ task'[w].phase = "ready"
      BY <3>1, <3>2, <3>3 DEF Tasks
    <3>5. task' \in [Threads -> Tasks]
      BY <2>2, <3>2, <3>3, <3>4
    <3> QED
      BY <3>2, <3>3, <3>4, <3>5 DEF Moves
  <2> QED
    BY <2>1, <2>2 DEF Ask
<1>2. /\ UNCHANGED <<world, row, disk, memory, restarts>>
      /\ refreshing' \in BOOLEAN /\ pending' \in BOOLEAN /\ UNCHANGED <<backoff, failures>>
  BY DEF Ask, Declined, Joined, Claimed, TypeOK, lock
<1> QED
  BY <1>1, <1>2, RestType DEF Moved, TypeOK, Rows

LEMMA BlockerMoved ==
  ASSUME TypeOK, NEW b \in Blockers, Block(b) \/ Wake(b) \/ Take(b) \/ GiveUp(b)
  PROVE  Moved
<1>1. PICK phase \in {"asking", "idle", "taking", "lingering", "ready"} : Goes(b, phase)
  BY DEF Block, Wake, Take, GiveUp
<1>2. task' \in [Threads -> Tasks] /\ \A t \in Threads : Moves(t)
  BY <1>1, MovesFree DEF Phases, Keyed, Threads
<1>3. /\ UNCHANGED <<world, row, disk, restarts>> /\ memory' \in {memory, Held}
      /\ refreshing' \in BOOLEAN /\ UNCHANGED <<pending, backoff, failures>>
  BY DEF Block, Wake, Take, GiveUp, lock, TypeOK
<1> QED
  BY <1>2, <1>3, RestType, HeldType DEF Moved, TypeOK, Rows

LEMMA SnapshotType ==
  ASSUME TypeOK, NEW t \in Threads
  PROVE  Snapshot(t) \in Snapshots
  BY DEF TypeOK, Snapshot, Snapshots

LEMMA RefreshMoved ==
  ASSUME TypeOK, NEW t \in Threads, Step(t)
  PROVE  Moved
<1>1. row \in Rows /\ Compacted \in Rows
  BY CompactedType DEF TypeOK, Rows
<1>2. [row EXCEPT !.invalidated = 0] \in Rows
  BY <1>1 DEF Rows
<1>3. CASE FindFresh(t) \/ (Recheck(t) /\ ~SameKey(t)) \/ Forget(t)
  <2>1. PICK ready \in BOOLEAN : Returns(t, ready)
    BY <1>3 DEF FindFresh, Recheck, Forget
  <2>2. /\ task' \in [Threads -> Tasks] /\ \A s \in Threads : Moves(s)
        /\ failures' \in 0..MaxFailures /\ UNCHANGED <<refreshing, pending, backoff>>
    BY <2>1, ReturnsMoves DEF Moves, Keyed
  <2>3. /\ UNCHANGED <<world, disk, restarts>> /\ memory' \in {memory, Held} /\ row' \in Rows
    BY <1>1, <1>2, <1>3 DEF FindFresh, Recheck, Forget
  <2> QED
    BY <2>2, <2>3, RestType, HeldType DEF Moved, TypeOK
<1>4. CASE LoadFails(t) \/ PublishFails(t)
  <2>1. /\ task' \in [Threads -> Tasks] /\ \A s \in Threads : Moves(s)
        /\ failures' \in 0..MaxFailures /\ UNCHANGED <<refreshing, pending>>
        /\ backoff' \in BOOLEAN
    BY <1>4, RaisesMoves DEF LoadFails, PublishFails, Moves, Keyed
  <2>2. UNCHANGED <<world, row, disk, memory, restarts>>
    BY <1>4 DEF LoadFails, PublishFails
  <2> QED
    BY <1>1, <2>1, <2>2, RestType DEF Moved, TypeOK
<1>5. CASE TakeKey(t) \/ BeginLoad(t) \/ EndLoad(t) \/ (Recheck(t) /\ SameKey(t))
  <2>1. task' \in [Threads -> Tasks] /\ \A s \in Threads \ {t} : task'[s] = task[s]
    BY <1>5, TakeKeyMoves, BeginLoadMoves, EndLoadMoves, SameKeyMoves
  <2>2. /\ UNCHANGED <<world, disk, restarts, refreshing, pending, backoff, failures>>
        /\ row' \in Rows /\ memory' \in {memory, Held}
    BY <1>1, <1>5 DEF TakeKey, BeginLoad, EndLoad, Recheck, lock
  <2>3. \A s \in Threads : Moves(s)
    BY <1>5, <2>1 DEF Moves
  <2> QED
    BY <2>1, <2>2, <2>3, RestType, HeldType DEF Moved, TypeOK
<1>6. CASE Replace(t) \/ Remember(t)
  <2>1. task' \in [Threads -> Tasks] /\ \A s \in Threads \ {t} : task'[s] = task[s]
    BY <1>6, PhaseChange DEF Replace, Remember, Phases
  <2>2. /\ UNCHANGED <<world, row, restarts, refreshing, pending, backoff, failures>>
        /\ disk' \in {disk, Snapshot(t)} /\ memory' \in {memory, Snapshot(t)}
    BY <1>6 DEF Replace, Remember, lock
  <2>3. \A s \in Threads : Moves(s)
    BY <1>6, <2>1 DEF Moves
  <2> QED
    BY <1>1, <2>1, <2>2, <2>3, RestType, SnapshotType DEF Moved, TypeOK
<1>7. CASE Leave(t)
  <2>1. NoTask \in Tasks
    BY CacheConstants DEF NoTask, Tasks, Phases, Keys
  <2>2. task' \in [Threads -> Tasks] /\ \A s \in Threads : Moves(s)
    BY <1>7, <2>1 DEF Leave, TypeOK, Tasks, Moves, NoTask, Keyed
  <2>3. /\ UNCHANGED <<world, row, disk, memory, backoff, failures, restarts>>
        /\ refreshing' \in BOOLEAN /\ pending' \in BOOLEAN
    BY <1>7 DEF Leave
  <2> QED
    BY <1>1, <2>2, <2>3, RestType DEF Moved, TypeOK
<1> QED
  BY <1>3, <1>4, <1>5, <1>6, <1>7 DEF Step

\* A worker that has run out of misses is leaving.
MissesLeft == \A t \in Threads : task[t].phase # "leaving" => task[t].misses < MaxMisses

LEMMA DecideMoved ==
  ASSUME TypeOK, MissesLeft, NEW w \in Workers, Decide(w)
  PROVE  Moved /\ MissesLeft'
<1> DEFINE again == pending \/ (~task[w].ready /\ task[w].misses + 1 < MaxMisses)
           phase == IF again THEN "ready" ELSE "leaving"
           misses == IF pending THEN 0
                     ELSE IF task[w].ready THEN task[w].misses ELSE task[w].misses + 1
<1>1. w \in Threads /\ task \in [Threads -> Tasks] /\ task[w] \in Tasks
  BY DEF Threads, TypeOK, Tasks
<1>2. task' = [task EXCEPT ![w].phase = phase, ![w].misses = misses]
  BY DEF Decide
<1>3. phase \in Phases \ Keyed
  BY DEF Phases, Keyed
<1>4. task[w].misses \in Nat /\ task[w].misses < MaxMisses /\ MaxMisses \in Nat \ {0}
  BY <1>1, CacheConstants DEF MissesLeft, Decide, Phase, Tasks
<1>5. misses \in 0..MaxMisses
  BY <1>4
<1>6. phase # "leaving" => misses < MaxMisses
  BY <1>4
<1> HIDE DEF phase, misses
<1>7. /\ task'[w] = [task[w] EXCEPT !.phase = phase, !.misses = misses]
      /\ \A t \in Threads \ {w} : task'[t] = task[t]
  BY <1>1, <1>2
<1>8. task'[w] \in Tasks /\ task'[w].phase = phase /\ task'[w].misses = misses
  BY <1>1, <1>3, <1>5, <1>7 DEF Tasks
<1>9. task' \in [Threads -> Tasks] /\ (\A t \in Threads : Moves(t)) /\ MissesLeft'
  BY <1>1, <1>2, <1>3, <1>6, <1>7, <1>8 DEF Moves, MissesLeft
<1>10. /\ UNCHANGED <<world, row, disk, memory, refreshing, backoff, failures, restarts>>
       /\ pending' = FALSE
  BY DEF Decide
<1> QED
  BY <1>9, <1>10, RestType DEF Moved, TypeOK, Rows

\* Nothing but Decide counts a miss, and only Leave ends a leaving worker.
LEMMA PhaseMisses ==
  ASSUME TypeOK, MissesLeft, NEW t \in Threads, NEW phase \in Phases,
         task[t].phase # "leaving", Goes(t, phase)
  PROVE  MissesLeft'
<1>1. task'[t].misses = task[t].misses
  BY PhaseChange DEF TypeOK, Tasks
<1>2. \A s \in Threads \ {t} : task'[s] = task[s]
  BY PhaseChange
<1> QED
  BY <1>1, <1>2 DEF MissesLeft

LEMMA StepMisses ==
  ASSUME TypeOK, MissesLeft, NEW t \in Threads, Step(t)
  PROVE  MissesLeft'
<1>1. task \in [Threads -> Tasks] /\ task[t] \in Tasks
  BY DEF TypeOK, Tasks
<1>2. CASE FindFresh(t) \/ (Recheck(t) /\ ~SameKey(t)) \/ Forget(t)
  <2>1. task[t].phase # "leaving" /\ \E ready \in BOOLEAN : Returns(t, ready)
    BY <1>2 DEF FindFresh, Recheck, Forget, Phase
  <2>2. PICK ready \in BOOLEAN : Returns(t, ready)
    BY <2>1
  <2>3. CASE t \in Workers
    <3>1. /\ task'[t] = [task[t] EXCEPT !.phase = "deciding", !.ready = ready]
          /\ \A s \in Threads \ {t} : task'[s] = task[s]
      BY <1>1, <2>2, <2>3 DEF Returns
    <3> QED
      BY <1>1, <2>1, <3>1 DEF MissesLeft, Tasks
  <2>4. CASE t \notin Workers
    BY <2>1, <2>2, <2>4, PhaseMisses DEF Returns, Phases
  <2> QED
    BY <2>3, <2>4
<1>3. CASE LoadFails(t) \/ PublishFails(t)
  <2>1. task[t].phase # "leaving" /\ Raises(t)
    BY <1>3 DEF LoadFails, PublishFails, Phase
  <2>2. Goes(t, "ready") \/ Goes(t, "leaving")
    BY <2>1 DEF Raises
  <2> QED
    BY <2>1, <2>2, PhaseMisses DEF Phases
<1>4. CASE TakeKey(t) \/ BeginLoad(t) \/ EndLoad(t) \/ (Recheck(t) /\ SameKey(t))
  <2>1. task[t].phase # "leaving" /\ \A s \in Threads \ {t} : task'[s] = task[s]
    BY <1>4, TakeKeyMoves, BeginLoadMoves, EndLoadMoves, SameKeyMoves
       DEF TakeKey, BeginLoad, EndLoad, Recheck, Phase
  <2>2. task'[t].misses = task[t].misses
    BY <1>4, TakeKeyMoves, BeginLoadMoves, EndLoadMoves, SameKeyMoves
  <2> QED
    BY <2>1, <2>2 DEF MissesLeft
<1>5. CASE Replace(t) \/ Remember(t)
  BY <1>5, PhaseMisses DEF Replace, Remember, Phase, Phases
<1>6. CASE Leave(t)
  <2>1. task' = [task EXCEPT ![t] = NoTask] /\ NoTask.misses < MaxMisses
    BY <1>6, CacheConstants DEF Leave, NoTask
  <2> QED
    BY <1>1, <2>1 DEF MissesLeft
<1> QED
  BY <1>2, <1>3, <1>4, <1>5, <1>6 DEF Step

LEMMA AskMisses ==
  ASSUME TypeOK, MissesLeft, NEW b \in Blockers, Ask(b)
  PROVE  MissesLeft'
<1>1. b \in Threads /\ task[b].phase # "leaving"
  BY DEF Ask, Phase, Threads
<1>2. CASE Goes(b, "waiting")
  BY <1>1, <1>2, PhaseMisses DEF Phases
<1>3. ASSUME NEW w \in Workers, Phase(w, "idle"),
             task' = [task EXCEPT ![b].phase = "waiting", ![w].phase = "ready"]
      PROVE  MissesLeft'
  <2>1. w # b /\ w \in Threads /\ task \in [Threads -> Tasks]
    BY CacheConstants DEF Threads, TypeOK, Tasks
  <2>2. /\ task'[b] = [task[b] EXCEPT !.phase = "waiting"]
        /\ task'[w] = [task[w] EXCEPT !.phase = "ready"]
        /\ \A s \in Threads \ {b, w} : task'[s] = task[s]
    BY <1>1, <1>3, <2>1
  <2>3. task'[b].misses = task[b].misses /\ task'[w].misses = task[w].misses
    BY <1>1, <2>1, <2>2 DEF Tasks
  <2> QED
    BY <1>1, <1>3, <2>1, <2>2, <2>3 DEF MissesLeft, Phase
<1> QED
  BY <1>2, <1>3 DEF Ask

LEMMA RestMoved ==
  ASSUME TypeOK, MissesLeft, BackoffEnds \/ Restart
  PROVE  Moved /\ MissesLeft'
<1>1. NoTask \in Tasks /\ NoTask.phase = "idle" /\ NoTask.misses < MaxMisses
  BY CacheConstants DEF NoTask, Tasks, Phases, Keys
<1>2. CASE BackoffEnds
  BY <1>2, RestType DEF BackoffEnds, TypeOK, Tasks, Rows, Moved, Moves, MissesLeft
<1>3. CASE Restart
  <2>1. task' \in [Threads -> Tasks] /\ (\A t \in Threads : task'[t] = NoTask)
    BY <1>1, <1>3 DEF Restart
  <2>2. (\A t \in Threads : Moves(t)) /\ MissesLeft'
    BY <1>1, <2>1 DEF Moves, MissesLeft, Keyed
  <2>3. restarts' \in 0..MaxRestarts
    BY <1>3, CacheConstants DEF Restart, TypeOK
  <2>4. UNCHANGED <<now, corpus, writtenAt, row, disk>> /\ memory' = disk
    BY <1>3 DEF Restart, world
  <2>5. refreshing' \in BOOLEAN /\ pending' \in BOOLEAN /\ backoff' \in BOOLEAN
    BY <1>3 DEF Restart
  <2>6. failures' \in 0..MaxFailures
    BY <1>3, CacheConstants DEF Restart
  <2> QED
    BY <2>1, <2>2, <2>3, <2>4, <2>5, <2>6 DEF Moved, TypeOK, Tasks
<1> QED
  BY <1>2, <1>3

TInv == TypeOK /\ MissesLeft

LEMMA NextMoved == TInv /\ [Next]_vars => Moved /\ MissesLeft'
<1> SUFFICES ASSUME TypeOK, MissesLeft, [Next]_vars PROVE Moved /\ MissesLeft'
  BY DEF TInv
<1>1. CASE Write \/ Tick
  BY <1>1, WorldMoved DEF Write, Tick, MissesLeft
<1>2. CASE Poll
  <2>1. MissesLeft'
    BY <1>2, PhaseMisses DEF Poll, Phase, Phases, MissesLeft, Threads
  <2> QED
    BY <1>2, <2>1, PollMoved
<1>3. CASE BackoffEnds \/ Restart
  BY <1>3, RestMoved
<1>4. CASE \E t \in Threads : Step(t)
  BY <1>4, RefreshMoved, StepMisses
<1>5. CASE \E w \in Workers : Decide(w)
  BY <1>5, DecideMoved
<1>6. ASSUME NEW b \in Blockers, Blocking(b) PROVE Moved /\ MissesLeft'
  <2>1. CASE Ask(b)
    BY <2>1, AskMoved, AskMisses
  <2>2. CASE Block(b) \/ Wake(b) \/ Take(b) \/ GiveUp(b)
    <3>1. PICK phase \in {"asking", "idle", "taking", "lingering", "ready"} : Goes(b, phase)
      BY <2>2 DEF Block, Wake, Take, GiveUp
    <3>2. task[b].phase # "leaving" /\ b \in Threads /\ phase \in Phases
      BY <2>2 DEF Block, Wake, Take, GiveUp, Phase, Threads, Phases
    <3> QED
      BY <2>2, <3>1, <3>2, BlockerMoved, PhaseMisses
  <2> QED
    BY <1>6, <2>1, <2>2 DEF Blocking
<1>7. CASE UNCHANGED vars
  <2>1. UNCHANGED <<world, row, disk, memory, lock, task, restarts>>
    BY <1>7 DEF vars
  <2>2. UNCHANGED <<now, corpus, writtenAt, refreshing, pending, backoff, failures>>
    BY <2>1 DEF world, lock
  <2> QED
    BY <2>1, <2>2 DEF Moved, Moves, MissesLeft, TypeOK
<1> QED
  BY <1>1, <1>2, <1>3, <1>4, <1>5, <1>6, <1>7 DEF Next

\* Type correctness; in particular a worker never counts more than MaxMisses
\* overtaken refreshes before it gives up.
THEOREM TypeCorrect == Spec => []TypeOK
<1>1. Init => TInv
  <2>1. Init => MissesLeft
    BY CacheConstants DEF Init, MissesLeft, NoTask
  <2> QED
    BY <2>1, InitType DEF TInv
<1>2. TInv /\ [Next]_vars => TInv'
  BY NextMoved DEF TInv, Moved
<1>3. TInv => TypeOK
  BY DEF TInv
<1> QED
  BY <1>1, <1>2, <1>3, PTL DEF Spec

-----------------------------------------------------------------------------
(* A fresh snapshot is truthful.                                             *)
(*                                                                           *)
(* A key never runs ahead of the revision row.  So a key equal to the        *)
(* current one names a clean row, and the corpus has rested since it was     *)
(* first current: what was read under it was the corpus of now.              *)

Current(k) == k.revision = row.revision /\ ~row.dirty
KeyPast(k) == k.revision <= row.revision /\ k.day <= Today

DocOK(doc) ==
    /\ KeyPast(doc.key) /\ doc.built = doc.key.day
    /\ Current(doc.key) => doc.low = corpus /\ doc.high = corpus
DocsOK == \A doc \in {memory, disk} \ {None} : DocOK(doc)

TaskOK(t) ==
    /\ task[t].phase \in Keyed => KeyPast(task[t].key)
    /\ task[t].phase \in {"loading", "loaded"} =>
         /\ task[t].key.day <= task[t].built /\ task[t].built <= Today
         /\ Current(task[t].key) => task[t].low = corpus
    /\ task[t].phase = "loaded" => (Current(task[t].key) => task[t].high = corpus)
    /\ task[t].phase \in {"publishing", "replaced", "remembered"} =>
         /\ task[t].built = task[t].key.day
         /\ Current(task[t].key) => task[t].low = corpus /\ task[t].high = corpus
TasksOK == \A t \in Threads : TaskOK(t)

FInv == TInv /\ DocsOK /\ TasksOK

\* How the shared data change.
Shifts ==
    \/ UNCHANGED <<corpus, now>> /\ row' \in {row, Compacted, [row EXCEPT !.invalidated = 0]}
    \/ Write
    \/ Tick

LEMMA NextShifts == [Next]_vars => Shifts
<1> SUFFICES ASSUME [Next]_vars PROVE Shifts
  OBVIOUS
<1>1. CASE Write \/ Tick
  BY <1>1 DEF Shifts
<1>2. CASE Poll \/ BackoffEnds \/ Restart \/ UNCHANGED vars
  BY <1>2 DEF Poll, BackoffEnds, Restart, vars, world, Shifts
<1>3. ASSUME NEW t \in Threads, Step(t) PROVE Shifts
  BY <1>3 DEF Step, FindFresh, TakeKey, BeginLoad, EndLoad, LoadFails, Recheck, Replace,
              Remember, Forget, PublishFails, Leave, world, Shifts
<1>4. ASSUME NEW w \in Workers, Decide(w) PROVE Shifts
  BY <1>4 DEF Decide, world, Shifts
<1>5. ASSUME NEW b \in Blockers, Blocking(b) PROVE Shifts
  BY <1>5 DEF Blocking, Block, Ask, Wake, Take, GiveUp, world, Shifts
<1> QED
  BY <1>1, <1>2, <1>3, <1>4, <1>5 DEF Next

\* The row and the date never go back, and a key that is still current after a
\* step was current before it, with the same corpus.
LEMMA WorldStep ==
  ASSUME TypeOK, TypeOK', [Next]_vars
  PROVE  /\ Today <= Today'
         /\ \A k \in Keys : KeyPast(k) => /\ KeyPast(k)'
                                          /\ Current(k)' => Current(k) /\ corpus' = corpus
<1>1. row \in Rows /\ row' \in Rows /\ now \in Nat /\ now' \in Nat
  BY CacheConstants DEF TypeOK, Rows
<1>2. now <= now' /\ (~Tick => now' = now)
  BY <1>1, NextShifts DEF Shifts, Write, Tick
<1>3. Today <= Today' /\ Today \in Nat /\ Today' \in Nat
  BY <1>1, <1>2, Days DEF Today
<1>4. /\ row.revision <= row'.revision
      /\ row'.revision = row.revision \/ row.dirty
      /\ ~row'.dirty /\ row'.revision = row.revision => ~row.dirty /\ corpus' = corpus
  <2>1. CASE UNCHANGED corpus /\ row' = row
    BY <1>1, <2>1 DEF Rows
  <2>2. CASE UNCHANGED corpus /\ row' = Compacted
    <3>1. Compacted.revision = IF row.dirty THEN row.revision + 1 ELSE row.revision
      BY <1>1, CompactedType
    <3> QED
      BY <1>1, <2>2, <3>1 DEF Rows
  <2>3. CASE UNCHANGED corpus /\ row' = [row EXCEPT !.invalidated = 0]
    BY <1>1, <2>3 DEF Rows
  <2>4. CASE Write
    <3>1. row'.dirty /\ row'.revision = row.revision
      BY <1>1, <2>4 DEF Write, Marked, Rows
    <3> QED
      BY <1>1, <3>1 DEF Rows
  <2>5. CASE Tick
    BY <1>1, <2>5 DEF Tick, Rows
  <2> QED
    BY <2>1, <2>2, <2>3, <2>4, <2>5, NextShifts DEF Shifts
<1> SUFFICES ASSUME NEW k \in Keys, KeyPast(k)
             PROVE  KeyPast(k)' /\ (Current(k)' => Current(k) /\ corpus' = corpus)
  BY <1>3
<1>5. k.revision \in Nat /\ k.day \in Nat /\ row.revision \in Nat /\ row'.revision \in Nat
  BY <1>1 DEF Keys, Rows
<1>6. KeyPast(k)'
  BY <1>3, <1>4, <1>5 DEF KeyPast
<1>7. Current(k)' => row'.revision = row.revision
  BY <1>4, <1>5 DEF KeyPast, Current
<1> QED
  BY <1>4, <1>6, <1>7 DEF Current

\* The key a thread takes is current after it took it.
LEMMA TakenKey ==
  ASSUME TypeOK, row' = Compacted, UNCHANGED <<now, corpus>>
  PROVE  /\ CurrentKey.revision = row'.revision /\ ~row'.dirty
         /\ CurrentKey.day = Today' /\ Today' = Today
         /\ CurrentKey.revision \in Nat /\ CurrentKey.day \in Nat
<1>1. Compacted \in Rows /\ ~Compacted.dirty /\ CurrentKey \in Keys /\ Today \in Nat
  BY CompactedType, KeyType DEF TypeOK, Rows
<1>2. Today' = Today
  BY DEF Today
<1>3. CurrentKey.revision = Compacted.revision /\ CurrentKey.day = Today
  BY DEF CurrentKey
<1> QED
  BY <1>1, <1>2, <1>3 DEF Keys

\* A key of the past that equals the current key names a clean row.
LEMMA StillCurrent ==
  ASSUME TypeOK, NEW k \in Keys, KeyPast(k), k = CurrentKey
  PROVE  Current(k) /\ k.day = Today
<1>1. row \in Rows /\ row.revision \in Nat /\ k.revision \in Nat
  BY DEF TypeOK, Rows, Keys
<1>2. Compacted.revision = IF row.dirty THEN row.revision + 1 ELSE row.revision
  BY <1>1, CompactedType
<1>3. k.revision = Compacted.revision /\ k.day = Today
  BY DEF CurrentKey
<1> QED
  BY <1>1, <1>2, <1>3 DEF KeyPast, Current

LEMMA TaskStep ==
  ASSUME FInv, TypeOK', [Next]_vars, NEW t \in Threads, Moves(t)
  PROVE  TaskOK(t)'
<1>1. TypeOK /\ TaskOK(t) /\ task[t] \in Tasks /\ task'[t] \in Tasks
  BY DEF FInv, TInv, TasksOK, TypeOK, Tasks
<1>2. /\ task[t].key \in Keys /\ task[t].built \in Nat /\ task[t].key.day \in Nat
      /\ Today \in Nat /\ Today' \in Nat
  BY <1>1, KeyType, Days, CacheConstants DEF Tasks, Keys, TypeOK, Today
<1>3. /\ Today <= Today'
      /\ KeyPast(task[t].key) =>
           \A k \in Keys : k = task[t].key =>
             /\ k.revision <= row'.revision /\ k.day <= Today'
             /\ (k.revision = row'.revision /\ ~row'.dirty) => Current(k) /\ corpus' = corpus
  BY <1>1, <1>2, WorldStep DEF KeyPast, Current
<1>4. task[t].phase \in Keyed => KeyPast(task[t].key)
  BY <1>1 DEF TaskOK
<1>5. CASE task'[t].phase \notin Keyed
  BY <1>5 DEF TaskOK, Keyed
<1>6. CASE /\ task'[t].key = task[t].key /\ KeyPast(task[t].key)
           /\ ~TakeKey(t) /\ task'[t].phase \in Keyed
  <2>1. /\ KeyPast(task[t].key)'
        /\ Current(task[t].key)' => Current(task[t].key) /\ corpus' = corpus
    BY <1>2, <1>3, <1>6 DEF KeyPast, Current
  <2>2. CASE task'[t] = task[t]
    BY <1>1, <1>2, <1>3, <2>1, <2>2 DEF TaskOK
  <2>3. CASE BeginLoad(t)
    <3>1. /\ task'[t].phase = "loading" /\ task'[t].built = Today /\ task'[t].low = corpus
          /\ UNCHANGED <<now, corpus>>
      BY <1>1, <2>3, BeginLoadMoves DEF BeginLoad, world
    <3>2. task[t].key.day <= Today
      BY <1>6 DEF KeyPast
    <3> QED
      BY <1>2, <1>3, <1>6, <2>1, <3>1, <3>2 DEF TaskOK
  <2>4. CASE EndLoad(t)
    <3>1. /\ task'[t].phase = "loaded" /\ task'[t].high = corpus /\ corpus' = corpus
          /\ task'[t].low = task[t].low /\ task'[t].built = task[t].built
          /\ task[t].phase = "loading"
      BY <1>1, <2>4, EndLoadMoves DEF EndLoad, world, Phase
    <3> QED
      BY <1>1, <1>2, <1>3, <1>6, <2>1, <3>1 DEF TaskOK
  <2>5. CASE Recheck(t) /\ SameKey(t)
    <3>1. /\ task'[t].phase = "publishing" /\ task'[t].high = task[t].high
          /\ task'[t].low = task[t].low /\ task'[t].built = task[t].built
          /\ task[t].phase = "loaded" /\ task[t].key = CurrentKey
      BY <1>1, <2>5, SameKeyMoves DEF Recheck, SameKey, Phase
    <3>2. Current(task[t].key) /\ task[t].key.day = Today
      BY <1>1, <1>2, <1>6, <3>1, StillCurrent
    <3>3. task[t].built = task[t].key.day
      BY <1>1, <1>2, <3>1, <3>2 DEF TaskOK
    <3> QED
      BY <1>1, <1>6, <2>1, <3>1, <3>2, <3>3 DEF TaskOK
  <2>6. CASE Replace(t) \/ Remember(t)
    <3>1. PICK phase \in {"replaced", "remembered"} : Goes(t, phase)
      BY <2>6 DEF Replace, Remember
    <3>2. task'[t] = [task[t] EXCEPT !.phase = phase] /\ task[t].phase \in {"publishing", "replaced"}
      BY <1>1, <2>6, <3>1, PhaseChange DEF Phases, Replace, Remember, Phase
    <3>3. /\ task'[t].phase \in {"replaced", "remembered"} /\ task'[t].high = task[t].high
          /\ task'[t].low = task[t].low /\ task'[t].built = task[t].built
      BY <1>1, <3>2 DEF Tasks
    <3> QED
      BY <1>1, <1>6, <2>1, <3>2, <3>3 DEF TaskOK
  <2> QED
    BY <1>6, <2>2, <2>3, <2>4, <2>5, <2>6 DEF Moves
<1>7. CASE TakeKey(t)
  <2>1. task'[t].phase = "keyed" /\ task'[t].key = CurrentKey
    BY <1>1, <1>7, TakeKeyMoves
  <2>2. row' = Compacted /\ UNCHANGED <<now, corpus>>
    BY <1>7 DEF TakeKey, world
  <2>3. KeyPast(task[t].key)'
    <3>1. row'.revision \in Nat
      BY DEF TypeOK
    <3> QED
      BY <1>1, <1>2, <2>1, <2>2, <3>1, TakenKey DEF KeyPast
  <2> QED
    BY <2>1, <2>3 DEF TaskOK
<1>8. CASE ~TakeKey(t) /\ task'[t].phase \in Keyed
  <2>1. task'[t] = task[t] \/ BeginLoad(t) \/ EndLoad(t) \/ (Recheck(t) /\ SameKey(t))
        \/ Replace(t) \/ Remember(t)
    BY <1>8 DEF Moves
  <2>2. task'[t].key = task[t].key
    <3>1. CASE task'[t] = task[t]
      BY <3>1
    <3>2. CASE BeginLoad(t) \/ EndLoad(t) \/ (Recheck(t) /\ SameKey(t))
      BY <1>1, <3>2, BeginLoadMoves, EndLoadMoves, SameKeyMoves
    <3>3. CASE Replace(t) \/ Remember(t)
      <4>1. PICK phase \in {"replaced", "remembered"} : Goes(t, phase)
        BY <3>3 DEF Replace, Remember
      <4>2. task'[t] = [task[t] EXCEPT !.phase = phase]
        BY <1>1, <4>1, PhaseChange DEF Phases
      <4> QED
        BY <1>1, <4>2 DEF Tasks
    <3> QED
      BY <2>1, <3>1, <3>2, <3>3
  <2>3. task[t].phase \in Keyed
    BY <1>8, <2>1 DEF BeginLoad, EndLoad, Recheck, Replace, Remember, Phase, Keyed
  <2> QED
    BY <1>4, <1>6, <1>8, <2>2, <2>3
<1> QED
  BY <1>5, <1>7, <1>8

\* Where a snapshot comes from.
DocsFrom ==
    /\ disk' = disk \/ \E t \in Threads : Replace(t)
    /\ memory' \in {memory, disk} \/ \E t \in Threads : Remember(t)

LEMMA NextDocs == [Next]_vars => DocsFrom
<1> SUFFICES ASSUME [Next]_vars PROVE DocsFrom
  OBVIOUS
<1>1. CASE Write \/ Tick \/ Poll \/ BackoffEnds \/ Restart \/ UNCHANGED vars
  BY <1>1 DEF Write, Tick, Poll, BackoffEnds, Restart, vars, Held, DocsFrom
<1>2. ASSUME NEW t \in Threads, Step(t) PROVE DocsFrom
  <2>1. CASE Replace(t)
    BY <2>1 DEF Replace, DocsFrom
  <2>2. CASE Remember(t)
    BY <2>2 DEF Remember, DocsFrom
  <2>3. CASE ~Replace(t) /\ ~Remember(t)
    BY <1>2, <2>3 DEF Step, FindFresh, TakeKey, BeginLoad, EndLoad, LoadFails, Recheck,
                      Forget, PublishFails, Leave, Held, DocsFrom
  <2> QED
    BY <2>1, <2>2, <2>3
<1>3. ASSUME NEW w \in Workers, Decide(w) PROVE DocsFrom
  BY <1>3 DEF Decide, DocsFrom
<1>4. ASSUME NEW b \in Blockers, Blocking(b) PROVE DocsFrom
  BY <1>4 DEF Blocking, Block, Ask, Wake, Take, GiveUp, Held, DocsFrom
<1> QED
  BY <1>1, <1>2, <1>3, <1>4 DEF Next

\* A snapshot that was right stays right, wherever it is kept.
LEMMA DocStep ==
  ASSUME TypeOK, TypeOK', [Next]_vars, NEW doc \in Snapshots, DocOK(doc)
  PROVE  DocOK(doc)'
<1>1. doc.key \in Keys
  BY DEF Snapshots
<1> QED
  BY <1>1, WorldStep DEF DocOK

LEMMA SnapshotOK ==
  ASSUME FInv, TypeOK', [Next]_vars, NEW t \in Threads, NEW doc,
         task[t].phase \in {"publishing", "replaced", "remembered"}, doc = Snapshot(t)
  PROVE  DocOK(doc)'
<1>1. TypeOK /\ TaskOK(t) /\ doc \in Snapshots
  BY SnapshotType DEF FInv, TInv, TasksOK
<1>2. DocOK(doc)
  BY <1>1 DEF TaskOK, DocOK, Snapshot, Keyed
<1> QED
  BY <1>1, <1>2, DocStep

LEMMA DocsStep ==
  ASSUME FInv, TypeOK', [Next]_vars
  PROVE  DocsOK'
<1>1. TypeOK /\ DocsOK /\ DocsFrom /\ {memory, disk} \subseteq Snapshots \cup {None}
  BY NextDocs DEF FInv, TInv, TypeOK
<1>2. \A doc \in {memory, disk} \ {None} : DocOK(doc)'
  BY <1>1, DocStep DEF DocsOK
<1>3. ASSUME NEW t \in Threads, NEW doc, doc = disk', Replace(t) PROVE DocOK(doc)'
  BY <1>3, SnapshotOK DEF Replace, Phase
<1>4. ASSUME NEW t \in Threads, NEW doc, doc = memory', Remember(t) PROVE DocOK(doc)'
  BY <1>4, SnapshotOK DEF Remember, Phase
<1>5. \A doc : doc = disk' /\ doc # None => DocOK(doc)'
  BY <1>1, <1>2, <1>3 DEF DocsFrom
<1>6. \A doc : doc = memory' /\ doc # None => DocOK(doc)'
  BY <1>1, <1>2, <1>4 DEF DocsFrom
<1> QED
  BY <1>5, <1>6 DEF DocsOK

LEMMA FreshFromInv == FInv => FreshIsTruthful
<1> SUFFICES ASSUME FInv, NEW doc \in {memory, disk} \ {None}, Fresh(doc)
             PROVE  doc.low = corpus /\ doc.high = corpus /\ doc.built = Today
  BY DEF FreshIsTruthful
<1>1. TypeOK /\ DocOK(doc) /\ doc.key \in Keys
  BY DEF FInv, TInv, TypeOK, DocsOK, Snapshots
<1>2. Current(doc.key) /\ doc.key.day = Today
  BY <1>1, StillCurrent DEF Fresh, DocOK
<1> QED
  BY <1>1, <1>2 DEF DocOK

\* Whatever is written while a snapshot is computed, published or read back
\* after a restart, one that is shown as fresh holds the corpus of now and the
\* window of today.
THEOREM Truthful == Spec => []FreshIsTruthful
<1>1. Init => FInv
  <2>1. Init => MissesLeft /\ TasksOK /\ DocsOK
    BY CacheConstants DEF Init, MissesLeft, NoTask, TasksOK, TaskOK, Keyed, DocsOK
  <2> QED
    BY <2>1, InitType DEF FInv, TInv
<1>2. FInv /\ [Next]_vars => FInv'
  <2> SUFFICES ASSUME FInv, [Next]_vars PROVE FInv'
    OBVIOUS
  <2>1. Moved /\ MissesLeft'
    BY NextMoved DEF FInv
  <2>2. DocsOK' /\ TasksOK'
    BY <2>1, DocsStep, TaskStep DEF Moved, TasksOK
  <2> QED
    BY <2>1, <2>2 DEF FInv, TInv, Moved
<1>3. FInv => FreshIsTruthful
  BY FreshFromInv
<1> QED
  BY <1>1, <1>2, <1>3, PTL DEF Spec

-----------------------------------------------------------------------------
(* One refresh at a time.                                                    *)

\* What a step does to the set of threads that refresh, and to the flag.
Stays == /\ refreshing' = refreshing
         /\ \A s \in Threads : Refreshes(s)' <=> Refreshes(s)
Starts == /\ refreshing = FALSE /\ refreshing' = TRUE
          /\ \E t \in Threads : /\ Refreshes(t)'
                                /\ \A s \in Threads \ {t} : Refreshes(s)' <=> Refreshes(s)
Ends == /\ refreshing' = FALSE
        /\ \/ \A s \in Threads : ~Refreshes(s)'
           \/ \E t \in Threads : /\ Refreshes(t) /\ ~Refreshes(t)'
                                 /\ \A s \in Threads \ {t} : Refreshes(s)' <=> Refreshes(s)

Idling == {"idle", "asking", "waiting", "taking", "lingering"}

LEMMA OneStays ==
  ASSUME TypeOK, NEW t \in Threads, \A s \in Threads \ {t} : task'[s] = task[s],
         task[t].phase \in Idling <=> task'[t].phase \in Idling, refreshing' = refreshing
  PROVE  Stays
  BY DEF Stays, Refreshes, Idling

LEMMA StepRefreshes ==
  ASSUME TypeOK, NEW t \in Threads, Step(t)
  PROVE  Stays \/ Ends
<1>1. CASE FindFresh(t) \/ (Recheck(t) /\ ~SameKey(t)) \/ Forget(t)
  <2>1. PICK ready \in BOOLEAN : Returns(t, ready)
    BY <1>1 DEF FindFresh, Recheck, Forget
  <2>2. /\ task'[t].phase \in {"deciding", "leaving"} /\ refreshing' = refreshing
        /\ \A s \in Threads \ {t} : task'[s] = task[s]
    BY <2>1, ReturnsMoves
  <2>3. task[t].phase \notin Idling
    BY <1>1 DEF FindFresh, Recheck, Forget, Phase, Idling
  <2> QED
    BY <2>2, <2>3, OneStays DEF Idling
<1>2. CASE LoadFails(t) \/ PublishFails(t)
  <2>1. /\ task'[t].phase \in {"ready", "leaving"} /\ refreshing' = refreshing
        /\ \A s \in Threads \ {t} : task'[s] = task[s]
    BY <1>2, RaisesMoves DEF LoadFails, PublishFails
  <2>2. task[t].phase \notin Idling
    BY <1>2 DEF LoadFails, PublishFails, Phase, Idling
  <2> QED
    BY <2>1, <2>2, OneStays DEF Idling
<1>3. CASE TakeKey(t) \/ BeginLoad(t) \/ EndLoad(t) \/ (Recheck(t) /\ SameKey(t))
  <2>1. /\ task'[t].phase \in Keyed /\ \A s \in Threads \ {t} : task'[s] = task[s]
    BY <1>3, TakeKeyMoves, BeginLoadMoves, EndLoadMoves, SameKeyMoves DEF Keyed
  <2>2. task[t].phase \notin Idling /\ refreshing' = refreshing
    BY <1>3 DEF TakeKey, BeginLoad, EndLoad, Recheck, Phase, Idling, lock
  <2> QED
    BY <2>1, <2>2, OneStays DEF Idling, Keyed
<1>4. CASE Replace(t) \/ Remember(t)
  <2>1. PICK phase \in {"replaced", "remembered"} : Goes(t, phase)
    BY <1>4 DEF Replace, Remember
  <2>2. task'[t].phase = phase /\ \A s \in Threads \ {t} : task'[s] = task[s]
    BY <2>1, PhaseChange DEF Phases
  <2>3. task[t].phase \notin Idling /\ refreshing' = refreshing
    BY <1>4 DEF Replace, Remember, Phase, Idling, lock
  <2> QED
    BY <2>1, <2>2, <2>3, OneStays DEF Idling
<1>5. CASE Leave(t)
  <2>1. /\ task'[t] = NoTask /\ \A s \in Threads \ {t} : task'[s] = task[s]
        /\ task[t].phase = "leaving" /\ refreshing' = FALSE
    BY <1>5 DEF Leave, Phase, TypeOK
  <2>2. Refreshes(t) /\ ~Refreshes(t)' /\ \A s \in Threads \ {t} : Refreshes(s)' <=> Refreshes(s)
    BY <2>1 DEF Refreshes, NoTask
  <2> QED
    BY <2>1, <2>2 DEF Ends
<1> QED
  BY <1>1, <1>2, <1>3, <1>4, <1>5 DEF Step

LEMMA BlockingRefreshes ==
  ASSUME TypeOK, NEW b \in Blockers, Blocking(b)
  PROVE  Stays \/ Starts
<1>1. b \in Threads /\ task[b].phase \in Idling /\ refreshing \in BOOLEAN
  BY DEF Blocking, Block, Ask, Wake, Take, GiveUp, Phase, Threads, Idling, TypeOK
<1>2. ASSUME NEW phase \in Idling, Goes(b, phase), refreshing' = refreshing
      PROVE  Stays
  BY <1>1, <1>2, PhaseChange, OneStays DEF Idling, Phases
<1>3. CASE Block(b) \/ Wake(b) \/ GiveUp(b)
  <2>1. (\E phase \in Idling : Goes(b, phase)) /\ refreshing' = refreshing
    BY <1>3 DEF Block, Wake, GiveUp, Idling, lock
  <2> QED
    BY <2>1, <1>2
<1>4. CASE Ask(b) /\ Goes(b, "waiting") /\ (Declined \/ Joined)
  BY <1>2, <1>4 DEF Declined, Joined, Idling, lock
<1>5. ASSUME NEW w \in Workers, Claimed, Phase(w, "idle"),
             task' = [task EXCEPT ![b].phase = "waiting", ![w].phase = "ready"]
      PROVE  Starts
  <2>1. w # b /\ w \in Threads /\ task \in [Threads -> Tasks]
    BY CacheConstants DEF Threads, TypeOK, Tasks
  <2>2. /\ task'[b] = [task[b] EXCEPT !.phase = "waiting"]
        /\ task'[w] = [task[w] EXCEPT !.phase = "ready"]
        /\ \A s \in Threads \ {b, w} : task'[s] = task[s]
    BY <1>1, <1>5, <2>1
  <2>3. task'[b].phase = "waiting" /\ task'[w].phase = "ready"
    BY <1>1, <2>1, <2>2 DEF Tasks
  <2>4. Refreshes(w)' /\ \A s \in Threads \ {w} : Refreshes(s)' <=> Refreshes(s)
    BY <1>1, <2>2, <2>3 DEF Refreshes, Idling
  <2> QED
    BY <1>1, <1>5, <2>1, <2>4 DEF Starts, Claimed
<1>6. CASE Take(b)
  <2>1. CASE refreshing
    BY <1>1, <1>2, <1>6, <2>1 DEF Take, Idling
  <2>2. CASE ~refreshing
    <3>1. task'[b].phase = "ready" /\ \A s \in Threads \ {b} : task'[s] = task[s]
      BY <1>1, <1>6, <2>2, PhaseChange DEF Take, Phases
    <3>2. Refreshes(b)' /\ \A s \in Threads \ {b} : Refreshes(s)' <=> Refreshes(s)
      BY <3>1 DEF Refreshes
    <3> QED
      BY <1>1, <1>6, <2>2, <3>2 DEF Starts, Take
  <2> QED
    BY <2>1, <2>2
<1> QED
  BY <1>3, <1>4, <1>5, <1>6 DEF Blocking, Ask

LEMMA NextRefreshes == TInv /\ [Next]_vars => Stays \/ Starts \/ Ends
<1> SUFFICES ASSUME TypeOK, [Next]_vars PROVE Stays \/ Starts \/ Ends
  BY DEF TInv
<1>1. CASE Write \/ Tick \/ BackoffEnds \/ UNCHANGED vars
  BY <1>1 DEF Write, Tick, BackoffEnds, vars, lock, Stays, Refreshes
<1>2. CASE Poll
  <2>1. CASE Joined /\ UNCHANGED task
    BY <2>1 DEF Joined, Stays, Refreshes
  <2>2. ASSUME NEW w \in Workers, Claimed, Phase(w, "idle"), Goes(w, "ready") PROVE Starts
    <3>1. /\ w \in Threads /\ task'[w].phase = "ready"
          /\ \A s \in Threads \ {w} : task'[s] = task[s]
      BY <2>2, PhaseChange DEF Threads, Phases
    <3>2. Refreshes(w)' /\ \A s \in Threads \ {w} : Refreshes(s)' <=> Refreshes(s)
      BY <3>1 DEF Refreshes
    <3>3. refreshing = FALSE /\ refreshing' = TRUE
      BY <2>2 DEF Claimed, TypeOK
    <3> QED
      BY <3>1, <3>2, <3>3 DEF Starts
  <2> QED
    BY <1>2, <2>1, <2>2 DEF Poll
<1>3. CASE Restart
  BY <1>3 DEF Restart, Ends, Refreshes, NoTask
<1>4. CASE \E t \in Threads : Step(t)
  BY <1>4, StepRefreshes
<1>5. ASSUME NEW w \in Workers, Decide(w) PROVE Stays
  <2>1. /\ w \in Threads /\ task[w].phase \notin Idling /\ refreshing' = refreshing
        /\ task \in [Threads -> Tasks]
    BY <1>5 DEF Decide, Phase, Threads, Idling, TypeOK, Tasks
  <2> DEFINE again == pending \/ (~task[w].ready /\ task[w].misses + 1 < MaxMisses)
             phase == IF again THEN "ready" ELSE "leaving"
             misses == IF pending THEN 0
                       ELSE IF task[w].ready THEN task[w].misses ELSE task[w].misses + 1
  <2>2. /\ phase \in {"ready", "leaving"}
        /\ task' = [task EXCEPT ![w].phase = phase, ![w].misses = misses]
    BY <1>5 DEF Decide
  <2> HIDE DEF phase, misses
  <2>3. /\ task'[w] = [task[w] EXCEPT !.phase = phase, !.misses = misses]
        /\ \A s \in Threads \ {w} : task'[s] = task[s]
    BY <2>1, <2>2
  <2>4. task'[w].phase = phase /\ phase \in {"ready", "leaving"}
    BY <2>1, <2>2, <2>3 DEF Tasks
  <2> QED
    BY <2>1, <2>3, <2>4, OneStays DEF Idling
<1>6. CASE \E b \in Blockers : Blocking(b)
  BY <1>6, BlockingRefreshes
<1> QED
  BY <1>1, <1>2, <1>3, <1>4, <1>5, <1>6 DEF Next

AtMostOne == \A s, t \in Threads : Refreshes(s) /\ Refreshes(t) => s = t
Flagged == refreshing = TRUE <=> \E t \in Threads : Refreshes(t)

LEMMA RefreshStep ==
  ASSUME AtMostOne, Flagged, Stays \/ Starts \/ Ends
  PROVE  AtMostOne' /\ Flagged'
<1>1. CASE Stays
  BY <1>1 DEF Stays, AtMostOne, Flagged
<1>2. CASE Starts
  BY <1>2 DEF Starts, AtMostOne, Flagged
<1>3. CASE Ends
  BY <1>3 DEF Ends, AtMostOne, Flagged
<1> QED
  BY <1>1, <1>2, <1>3

LEMMA OneFromInv == TypeOK /\ AtMostOne /\ Flagged => OneRefresh
<1> SUFFICES ASSUME TypeOK, AtMostOne, Flagged PROVE OneRefresh
  OBVIOUS
<1> DEFINE R == {t \in Threads : Refreshes(t)}
<1>1. Cardinality(R) <= 1
  <2>1. CASE R = {}
    BY <2>1, FS_EmptySet
  <2>2. CASE R # {}
    <3>1. PICK t : R = {t}
      BY <2>2 DEF AtMostOne
    <3>2. Cardinality(R) = 1
      BY <3>1, FS_Singleton
    <3> QED
      BY <3>2
  <2> QED
    BY <2>1, <2>2
<1>2. refreshing <=> \E t \in Threads : Refreshes(t)
  BY DEF Flagged, TypeOK
<1> QED
  BY <1>1, <1>2 DEF OneRefresh

\* However requests, polls, failures and restarts interleave, at most one thread
\* computes a snapshot, and the flag that keeps the others out is set exactly
\* while one does: it is never left behind.
THEOREM OneAtATime == Spec => []OneRefresh
<1>1. Init => TInv /\ AtMostOne /\ Flagged
  <2>1. Init => MissesLeft /\ AtMostOne /\ Flagged
    BY CacheConstants DEF Init, MissesLeft, NoTask, AtMostOne, Flagged, Refreshes
  <2> QED
    BY <2>1, InitType DEF TInv
<1>2. TInv /\ AtMostOne /\ Flagged /\ [Next]_vars => (TInv /\ AtMostOne /\ Flagged)'
  BY NextMoved, NextRefreshes, RefreshStep DEF TInv, Moved
<1>3. TInv /\ AtMostOne /\ Flagged => OneRefresh
  BY OneFromInv DEF TInv
<1> QED
  BY <1>1, <1>2, <1>3, PTL DEF Spec

-----------------------------------------------------------------------------
(* The published snapshot advances.                                          *)
(*                                                                           *)
(* The one thread that refreshes took a key, and then read the corpus, after *)
(* the snapshot on disk was published.                                       *)

Before == {"keyed", "loading", "loaded", "publishing"}

Ahead(t) ==
    /\ disk # None /\ task[t].phase \in Before =>
         /\ disk.key.revision <= task[t].key.revision /\ disk.key.day <= task[t].key.day
    /\ task[t].phase \in {"loaded", "publishing"} =>
         /\ task[t].high <= corpus
         /\ disk # None => disk.high <= task[t].high

AInv ==
    /\ FInv /\ AtMostOne /\ Flagged
    /\ disk # None => disk.high <= corpus
    /\ \A t \in Threads : Ahead(t)

LEMMA CorpusGrows ==
  ASSUME TypeOK, [Next]_vars
  PROVE  corpus \in Nat /\ corpus' \in Nat /\ corpus <= corpus'
<1>1. corpus \in Nat
  BY CacheConstants DEF TypeOK
<1> QED
  BY <1>1, NextShifts DEF Shifts, Write, Tick

\* A step that leaves the file alone keeps every refresh ahead of it.
LEMMA AheadStep ==
  ASSUME AInv, TypeOK', [Next]_vars, NEW t \in Threads, Moves(t), disk' = disk
  PROVE  Ahead(t)'
<1>1. /\ TypeOK /\ Ahead(t) /\ task[t] \in Tasks /\ task'[t] \in Tasks
      /\ disk # None => disk.high <= corpus
  BY DEF AInv, FInv, TInv, TypeOK, Tasks
<1>2. corpus \in Nat /\ corpus' \in Nat /\ corpus <= corpus'
  BY <1>1, CorpusGrows
<1>3. task[t].high \in Nat /\ (disk # None => disk.high \in Nat)
  BY <1>1 DEF Tasks, TypeOK, Snapshots
<1>4. CASE task'[t] = task[t]
  BY <1>1, <1>2, <1>3, <1>4 DEF Ahead
<1>5. CASE task'[t].phase \notin Before
  BY <1>5 DEF Ahead, Before
<1>6. CASE TakeKey(t)
  <2>1. task'[t].phase = "keyed" /\ task'[t].key = CurrentKey
    BY <1>1, <1>6, TakeKeyMoves
  <2>2. row' = Compacted /\ UNCHANGED <<now, corpus>>
    BY <1>6 DEF TakeKey, world
  <2>3. disk # None => disk.key \in Keys /\ KeyPast(disk.key)
    BY <1>1 DEF AInv, FInv, DocsOK, DocOK, TypeOK, Snapshots
  <2>4. disk # None => disk.key.revision <= row'.revision /\ disk.key.day <= Today'
    BY <1>1, <2>3, WorldStep DEF KeyPast
  <2> QED
    BY <1>1, <2>1, <2>2, <2>4, TakenKey DEF Ahead
<1>7. CASE BeginLoad(t)
  <2>1. task[t].phase = "keyed" /\ task'[t].phase = "loading" /\ task'[t].key = task[t].key
    BY <1>1, <1>7, BeginLoadMoves DEF BeginLoad, Phase
  <2> QED
    BY <1>1, <2>1 DEF Ahead, Before
<1>8. CASE EndLoad(t)
  <2>1. /\ task[t].phase = "loading" /\ task'[t].phase = "loaded"
        /\ task'[t].key = task[t].key /\ task'[t].high = corpus /\ corpus' = corpus
    BY <1>1, <1>8, EndLoadMoves DEF EndLoad, Phase, world
  <2> QED
    BY <1>1, <1>2, <2>1 DEF Ahead, Before
<1>9. CASE Recheck(t) /\ SameKey(t)
  <2>1. /\ task[t].phase = "loaded" /\ task'[t].phase = "publishing"
        /\ task'[t].key = task[t].key /\ task'[t].high = task[t].high
    BY <1>1, <1>9, SameKeyMoves DEF Recheck, Phase
  <2> QED
    BY <1>1, <1>2, <1>3, <2>1 DEF Ahead, Before
<1>10. CASE Replace(t) \/ Remember(t)
  <2>1. PICK phase \in {"replaced", "remembered"} : Goes(t, phase)
    BY <1>10 DEF Replace, Remember
  <2>2. task'[t].phase = phase
    BY <1>1, <2>1, PhaseChange DEF Phases
  <2> QED
    BY <2>2, <1>5 DEF Before
<1> QED
  BY <1>4, <1>5, <1>6, <1>7, <1>8, <1>9, <1>10 DEF Moves, Before, Keyed

LEMMA AdvanceStep ==
  ASSUME AInv, [Next]_vars
  PROVE  AInv'
<1>1. /\ FInv /\ TypeOK /\ TypeOK' /\ (\A t \in Threads : Moves(t))
      /\ FInv' /\ AtMostOne' /\ Flagged'
  <2>1. Moved /\ MissesLeft' /\ FInv /\ TInv
    BY NextMoved DEF AInv, FInv
  <2>2. DocsOK' /\ TasksOK'
    BY <2>1, DocsStep, TaskStep DEF Moved, TasksOK
  <2>3. AtMostOne' /\ Flagged'
    BY <2>1, NextRefreshes, RefreshStep DEF AInv
  <2> QED
    BY <2>1, <2>2, <2>3 DEF FInv, TInv, Moved
<1>2. corpus \in Nat /\ corpus' \in Nat /\ corpus <= corpus'
  BY <1>1, CorpusGrows
<1>3. CASE disk' = disk
  <2>1. disk # None => disk.high \in Nat /\ disk.high <= corpus
    BY <1>1 DEF AInv, TypeOK, Snapshots
  <2> QED
    BY <1>1, <1>2, <1>3, <2>1, AheadStep DEF AInv
<1>4. ASSUME NEW t \in Threads, Replace(t) PROVE AInv'
  <2>1. /\ task[t].phase = "publishing" /\ disk' = Snapshot(t) /\ corpus' = corpus
        /\ task'[t].phase = "replaced" /\ \A s \in Threads \ {t} : task'[s] = task[s]
    BY <1>1, <1>4, PhaseChange DEF Replace, Phase, Phases, world
  <2>2. disk'.high <= corpus'
    BY <2>1 DEF AInv, Ahead, Snapshot
  <2>3. \A s \in Threads \ {t} : ~Refreshes(s)
    BY <2>1 DEF AInv, AtMostOne, Refreshes
  <2>4. \A s \in Threads : task'[s].phase \notin Before
    BY <2>1, <2>3 DEF Refreshes, Before
  <2>5. \A s \in Threads : Ahead(s)'
    BY <2>4 DEF Ahead, Before
  <2> QED
    BY <1>1, <2>2, <2>5 DEF AInv
<1> QED
  BY <1>3, <1>4, NextDocs DEF DocsFrom

LEMMA DiskAdvances ==
  ASSUME AInv, [Next]_vars, disk # None, disk' # disk
  PROVE  /\ disk'.key.revision >= disk.key.revision /\ disk'.key.day >= disk.key.day
         /\ disk'.high >= disk.high
<1>1. PICK t \in Threads : Replace(t)
  BY NextDocs DEF DocsFrom
<1>2. /\ disk' = Snapshot(t) /\ task[t].phase = "publishing" /\ Ahead(t)
      /\ task[t] \in Tasks /\ disk \in Snapshots
  BY <1>1 DEF Replace, Phase, AInv, FInv, TInv, TypeOK, Tasks
<1> QED
  BY <1>2 DEF Ahead, Before, Snapshot, Tasks, Keys, Snapshots

\* Whoever refreshes, and whatever is written or restarted meanwhile, the file
\* is only ever replaced by a snapshot of a later key that read a later corpus.
THEOREM Advances == Spec => SnapshotAdvances
<1>1. Init => AInv
  <2>1. Init => MissesLeft /\ TasksOK /\ DocsOK /\ AtMostOne /\ Flagged
    BY CacheConstants
       DEF Init, MissesLeft, NoTask, TasksOK, TaskOK, Keyed, DocsOK, AtMostOne, Flagged,
          Refreshes
  <2>2. Init => (disk # None => disk.high <= corpus) /\ \A t \in Threads : Ahead(t)
    BY DEF Init, NoTask, Ahead, Before
  <2> QED
    BY <2>1, <2>2, InitType DEF FInv, TInv, AInv
<1>2. AInv /\ [Next]_vars => AInv'
  BY AdvanceStep
<1>3. AInv /\ [Next]_vars =>
        [disk # None /\ disk' # disk =>
          /\ disk'.key.revision >= disk.key.revision /\ disk'.key.day >= disk.key.day
          /\ disk'.high >= disk.high]_vars
  BY DiskAdvances
<1> QED
  BY <1>1, <1>2, <1>3, PTL DEF Spec, SnapshotAdvances

-----------------------------------------------------------------------------
(* Stale snapshots are served for a bounded time.                            *)

\* A snapshot that is not of the current revision lacks a write, and the row
\* remembers an invalidation no later than the first write it lacks.
Late(doc) ==
    ~Current(doc.key) =>
        /\ doc.high < corpus
        /\ row.invalidated # 0 /\ row.invalidated <= writtenAt[doc.high + 1]

Putting == {"publishing", "replaced", "remembered"}

\* What a thread that publishes has put in place.
PutBy(t) ==
    /\ task[t].phase \in {"replaced", "remembered"} => disk = Snapshot(t)
    /\ task[t].phase = "remembered" => memory = Snapshot(t)

LInv ==
    /\ AInv
    /\ row.invalidated <= now
    /\ \A doc \in {memory, disk} \ {None} : Late(doc)
    /\ \A t \in Threads : /\ task[t].phase \in Putting => Late(Snapshot(t))
                          /\ PutBy(t)

\* How the row changes.
Kept == UNCHANGED world /\ row' \in {row, Compacted}
Forgets(t) ==
    /\ Forget(t) /\ row' = [row EXCEPT !.invalidated = 0]
    /\ row.revision = task[t].key.revision /\ ~row.dirty

LEMMA RowChanges ==
  ASSUME [Next]_vars
  PROVE  Kept \/ Write \/ Tick \/ \E t \in Threads : Forgets(t)
<1>1. CASE Poll \/ BackoffEnds \/ Restart \/ UNCHANGED vars
  BY <1>1 DEF Poll, BackoffEnds, Restart, vars, Kept
<1>2. ASSUME NEW t \in Threads, Step(t) PROVE Kept \/ Forgets(t)
  <2>1. CASE Forget(t)
    BY <2>1 DEF Forget, Forgets, Kept
  <2>2. CASE ~Forget(t)
    BY <1>2, <2>2 DEF Step, FindFresh, TakeKey, BeginLoad, EndLoad, LoadFails, Recheck, Replace,
                Remember, PublishFails, Leave, Kept
  <2> QED
    BY <2>1, <2>2
<1>3. ASSUME NEW w \in Workers, Decide(w) PROVE Kept
  BY <1>3 DEF Decide, Kept
<1>4. ASSUME NEW b \in Blockers, Blocking(b) PROVE Kept
  BY <1>4 DEF Blocking, Block, Ask, Wake, Take, GiveUp, Kept
<1> QED
  BY <1>1, <1>2, <1>3, <1>4 DEF Next

\* A late snapshot stays one, and a current one that is overtaken becomes one.
LEMMA LateKept ==
  ASSUME TypeOK, row.invalidated <= now, NEW doc \in Snapshots, DocOK(doc), Late(doc),
         Kept \/ Write \/ Tick
  PROVE  Late(doc)'
<1>1. /\ row \in Rows /\ row.revision \in Nat /\ row.invalidated \in Nat
      /\ doc.key.revision \in Nat /\ doc.high \in Nat
      /\ now \in Nat /\ now >= 1 /\ corpus \in Nat /\ corpus <= MaxWrites /\ MaxWrites \in Nat
      /\ writtenAt \in [1..MaxWrites -> Nat]
  BY CacheConstants DEF TypeOK, Rows, Snapshots, Keys
<1>2. doc.key.revision <= row.revision
      /\ (Current(doc.key) => doc.high = corpus)
  BY DEF DocOK, KeyPast
<1>3. CASE Kept \/ Tick
  <2>1. UNCHANGED <<corpus, writtenAt>> /\ row' \in {row, Compacted}
    BY <1>3 DEF Kept, Tick, world
  <2>2. CASE row' = row
    BY <2>1, <2>2 DEF Late, Current
  <2>3. CASE row' = Compacted /\ row.dirty
    <3>1. row'.invalidated = row.invalidated /\ row'.revision = row.revision + 1
      BY <1>1, <2>3 DEF Compacted, Rows
    <3>2. ~Current(doc.key) /\ ~Current(doc.key)'
      BY <1>1, <1>2, <2>3, <3>1 DEF Current
    <3> QED
      BY <2>1, <3>1, <3>2 DEF Late
  <2> QED
    BY <2>1, <2>2, <2>3 DEF Compacted
<1>4. CASE Write
  <2>1. /\ corpus < MaxWrites /\ corpus' = corpus + 1
        /\ writtenAt' = [writtenAt EXCEPT ![corpus + 1] = now] /\ row' = Marked
    BY <1>4 DEF Write
  <2>2. /\ writtenAt'[corpus + 1] = now
        /\ \A v \in 1..corpus : writtenAt'[v] = writtenAt[v]
    BY <1>1, <2>1
  <2>3. CASE row.dirty
    <3>1. row' = row /\ ~Current(doc.key)
      BY <2>1, <2>3 DEF Marked, Current
    <3> QED
      BY <1>1, <2>1, <2>2, <3>1 DEF Late
  <2>4. CASE ~row.dirty
    <3>1. row'.invalidated = IF row.invalidated = 0 THEN now ELSE row.invalidated
      BY <1>1, <2>1, <2>4 DEF Marked, Rows
    <3>2. CASE Current(doc.key)
      BY <1>1, <1>2, <2>1, <2>2, <3>1, <3>2 DEF Late
    <3>3. CASE ~Current(doc.key)
      BY <1>1, <2>1, <2>2, <3>1, <3>3 DEF Late
    <3> QED
      BY <3>2, <3>3
  <2> QED
    BY <2>3, <2>4
<1> QED
  BY <1>3, <1>4

LEMMA InvalidatedPast ==
  ASSUME TypeOK, TypeOK', row.invalidated <= now, [Next]_vars
  PROVE  row'.invalidated <= now'
<1>1. row \in Rows /\ now \in Nat /\ row.invalidated \in Nat
  BY CacheConstants DEF TypeOK, Rows
<1>2. CASE Kept
  <2>1. row'.invalidated = row.invalidated
    BY <1>1, <1>2, CompactedType DEF Kept, Compacted, Rows
  <2> QED
    BY <1>2, <2>1 DEF Kept, world
<1>3. CASE Write
  <2>1. row'.invalidated \in {row.invalidated, now} /\ now' = now
    BY <1>1, <1>3 DEF Write, Marked, Rows
  <2> QED
    BY <1>1, <2>1
<1>4. CASE Tick
  BY <1>1, <1>4 DEF Tick
<1>5. ASSUME NEW t \in Threads, Forgets(t) PROVE row'.invalidated <= now'
  <2>1. row'.invalidated = 0 /\ now' = now
    BY <1>1, <1>5 DEF Forgets, Forget, world, Rows
  <2> QED
    BY <1>1, <2>1
<1> QED
  BY <1>2, <1>3, <1>4, <1>5, RowChanges

\* Whoever forgets the invalidation has put its own, current snapshot everywhere.
LEMMA ForgetsCurrent ==
  ASSUME LInv, NEW t \in Threads, Forgets(t)
  PROVE  /\ \A doc \in {memory, disk} : Late(doc)'
         /\ disk' = disk /\ memory' = memory
         /\ \A s \in Threads : task'[s].phase \notin Putting
<1>1. TypeOK /\ AtMostOne
  BY DEF LInv, AInv, FInv, TInv
<1>2. /\ task[t].phase = "remembered" /\ disk' = disk /\ memory' = memory
      /\ row' = [row EXCEPT !.invalidated = 0]
  BY DEF Forgets, Forget, Phase
<1>3. memory = Snapshot(t) /\ disk = Snapshot(t)
  BY <1>2 DEF LInv, PutBy
<1>4. row'.revision = row.revision /\ row'.dirty = row.dirty
  BY <1>1, <1>2 DEF TypeOK
<1>5. \A doc \in {memory, disk} : Late(doc)'
  BY <1>3, <1>4 DEF Forgets, Late, Current, Snapshot
<1>6. task'[t].phase \notin Putting /\ \A s \in Threads \ {t} : task'[s] = task[s]
  BY <1>1, ReturnsMoves DEF Forgets, Forget, Putting
<1>7. \A s \in Threads \ {t} : ~Refreshes(s)
  BY <1>1, <1>2 DEF AtMostOne, Refreshes
<1> QED
  BY <1>2, <1>5, <1>6, <1>7 DEF Refreshes, Putting

\* Putting its snapshot in place changes nothing of a task but its phase.
LEMMA PutMoves ==
  ASSUME TypeOK, NEW t \in Threads, Replace(t) \/ Remember(t)
  PROVE  /\ Replace(t) => task'[t].phase = "replaced"
         /\ Remember(t) => task'[t].phase = "remembered"
         /\ Snapshot(t)' = Snapshot(t) /\ task[t].phase \in Putting
         /\ \A s \in Threads \ {t} : task'[s] = task[s]
<1>1. PICK phase \in {"replaced", "remembered"} :
        Goes(t, phase) /\ (Replace(t) => phase = "replaced") /\ (Remember(t) => phase = "remembered")
  <2>1. CASE Replace(t)
    <3>1. ~Remember(t)
      BY <2>1 DEF Replace, Remember, Phase
    <3> QED
      BY <2>1, <3>1 DEF Replace
  <2>2. CASE Remember(t)
    <3>1. ~Replace(t)
      BY <2>2 DEF Replace, Remember, Phase
    <3> QED
      BY <2>2, <3>1 DEF Remember
  <2> QED
    BY <2>1, <2>2
<1>2. /\ task'[t].phase = phase /\ task'[t] = [task[t] EXCEPT !.phase = phase]
      /\ \A s \in Threads \ {t} : task'[s] = task[s]
  BY <1>1, PhaseChange DEF Phases
<1>3. Snapshot(t)' = Snapshot(t)
  BY <1>2 DEF Snapshot, TypeOK
<1> QED
  BY <1>1, <1>2, <1>3 DEF Replace, Remember, Phase, Putting

\* A thread that is putting its snapshot in place after a step was doing so
\* before it, or has just found its key to be the current one.
LEMMA PuttingBefore ==
  ASSUME TypeOK, NEW t \in Threads, Moves(t), task'[t].phase \in Putting
  PROVE  \/ task'[t] = task[t]
         \/ Replace(t) \/ Remember(t)
         \/ Recheck(t) /\ SameKey(t)
<1>1. ~TakeKey(t) /\ ~BeginLoad(t) /\ ~EndLoad(t)
  BY TakeKeyMoves, BeginLoadMoves, EndLoadMoves DEF Putting
<1> QED
  BY <1>1 DEF Moves, Putting, Keyed

LEMMA TaskLate ==
  ASSUME LInv, AInv', [Next]_vars, NEW t \in Threads, Moves(t), task'[t].phase \in Putting
  PROVE  Late(Snapshot(t))'
<1>1. TypeOK /\ TypeOK' /\ TaskOK(t) /\ Snapshot(t) \in Snapshots
  BY SnapshotType DEF LInv, AInv, FInv, TInv, TasksOK
<1>2. CASE Recheck(t) /\ SameKey(t)
  <2>1. task'[t].key = task[t].key /\ task[t].key = CurrentKey
        /\ row' = Compacted /\ UNCHANGED <<now, corpus>>
    BY <1>1, <1>2, SameKeyMoves DEF Recheck, SameKey, world
  <2>2. Current(Snapshot(t).key)'
    BY <1>1, <2>1, TakenKey DEF Current, Snapshot
  <2> QED
    BY <2>2 DEF Late
<1>3. CASE task'[t] = task[t] \/ Replace(t) \/ Remember(t)
  <2>1. Snapshot(t)' = Snapshot(t) /\ task[t].phase \in Putting
    BY <1>1, <1>3, PutMoves DEF Snapshot
  <2>2. Late(Snapshot(t)) /\ DocOK(Snapshot(t))
    BY <1>1, <2>1 DEF LInv, TaskOK, DocOK, Snapshot, Keyed, Putting
  <2>3. Kept \/ Write \/ Tick
    <3>1. ~\E s \in Threads : Forgets(s)
      BY ForgetsCurrent
    <3> QED
      BY <3>1, RowChanges
  <2>4. \A doc \in Snapshots : doc = Snapshot(t) => Late(doc)'
    BY <1>1, <2>2, <2>3, LateKept DEF LInv
  <2> QED
    BY <1>1, <2>1, <2>4 DEF Late
<1> QED
  BY <1>1, <1>2, <1>3, PuttingBefore

LEMMA PutStep ==
  ASSUME LInv, AInv', [Next]_vars, NEW t \in Threads, Moves(t)
  PROVE  PutBy(t)'
<1>1. TypeOK /\ AtMostOne /\ PutBy(t)
  BY DEF LInv, AInv, FInv, TInv
<1> SUFFICES ASSUME task'[t].phase \in {"replaced", "remembered"}
             PROVE  PutBy(t)'
  BY DEF PutBy
<1>2. ~Recheck(t) \/ ~SameKey(t)
  BY <1>1, SameKeyMoves
<1>3. CASE Replace(t)
  <2>1. disk' = Snapshot(t) /\ Snapshot(t)' = Snapshot(t) /\ task'[t].phase = "replaced"
    BY <1>1, <1>3, PutMoves DEF Replace
  <2> QED
    BY <2>1 DEF PutBy
<1>4. CASE Remember(t)
  <2>1. /\ memory' = Snapshot(t) /\ disk' = disk /\ Snapshot(t)' = Snapshot(t)
        /\ task[t].phase = "replaced"
    BY <1>1, <1>4, PutMoves DEF Remember, Phase
  <2> QED
    BY <1>1, <2>1 DEF PutBy
<1>5. CASE task'[t] = task[t] /\ ~Replace(t) /\ ~Remember(t)
  <2>1. \A s \in Threads : ~Replace(s) /\ ~Remember(s)
    BY <1>1, <1>5, PutMoves DEF AtMostOne, Refreshes, Putting
  <2>2. disk' = disk /\ memory' \in {memory, disk}
    BY <2>1, NextDocs DEF DocsFrom
  <2>3. Snapshot(t)' = Snapshot(t)
    BY <1>5 DEF Snapshot
  <2> QED
    BY <1>1, <1>5, <2>2, <2>3 DEF PutBy
<1> QED
  BY <1>1, <1>2, <1>3, <1>4, <1>5, PuttingBefore DEF Putting

LEMMA DocsLate ==
  ASSUME LInv, AInv', [Next]_vars
  PROVE  \A doc : doc \in {memory', disk'} /\ doc # None => Late(doc)'
<1>1. TypeOK /\ DocsOK /\ DocsFrom /\ {memory, disk} \subseteq Snapshots \cup {None}
  BY NextDocs DEF LInv, AInv, FInv, TInv, TypeOK
<1>2. CASE \E t \in Threads : Forgets(t)
  BY <1>2, ForgetsCurrent
<1>3. CASE Kept \/ Write \/ Tick
  <2>1. \A doc \in {memory, disk} \ {None} : Late(doc)'
    BY <1>1, <1>3, LateKept DEF LInv, DocsOK
  <2>2. ASSUME NEW t \in Threads, NEW doc, doc = Snapshot(t), Replace(t) \/ Remember(t)
        PROVE  Late(doc)'
    <3>1. task[t].phase \in Putting /\ doc \in Snapshots
      BY <1>1, <2>2, PutMoves, SnapshotType
    <3>2. Late(doc) /\ DocOK(doc)
      BY <2>2, <3>1 DEF LInv, AInv, FInv, TasksOK, TaskOK, DocOK, Snapshot, Keyed, Putting
    <3> QED
      BY <1>1, <1>3, <3>1, <3>2, LateKept DEF LInv
  <2> QED
    BY <1>1, <2>1, <2>2 DEF DocsFrom, Replace, Remember
<1> QED
  BY <1>2, <1>3, RowChanges

LEMMA LateStep == LInv /\ [Next]_vars => LInv'
<1> SUFFICES ASSUME LInv, [Next]_vars PROVE LInv'
  OBVIOUS
<1>1. AInv /\ AInv' /\ TypeOK /\ TypeOK' /\ TInv
  BY AdvanceStep DEF LInv, AInv, FInv, TInv
<1>2. \A t \in Threads : Moves(t)
  BY <1>1, NextMoved DEF Moved
<1> QED
  BY <1>1, <1>2, InvalidatedPast, DocsLate, TaskLate, PutStep DEF LInv

\* The bound on serving, from when the row says the snapshot became stale.
LEMMA StaleFromInv == LInv => StaleIsBounded
<1> SUFFICES ASSUME LInv, NEW doc \in {memory, disk} \ {None}, Usable(doc)
             PROVE  /\ doc.high < corpus => now - writtenAt[doc.high + 1] <= StaleLimit
                    /\ doc.built < Today => now - (doc.built + 1) * DayLength <= StaleLimit
  BY DEF StaleIsBounded
<1> DEFINE rollover == (doc.key.day + 1) * DayLength
<1>1. /\ FInv /\ TypeOK /\ DocOK(doc) /\ Late(doc) /\ doc \in Snapshots
  BY DEF LInv, AInv, FInv, TInv, TypeOK, DocsOK
<1>2. CASE Fresh(doc)
  <2>1. doc.high = corpus /\ doc.built = Today /\ corpus \in Nat /\ Today \in Nat
    BY <1>1, <1>2, FreshFromInv, KeyType, CacheConstants DEF FreshIsTruthful, TypeOK
  <2> QED
    BY <2>1
<1>3. CASE ~Fresh(doc)
  <2>1. now - BecameStale(doc) <= StaleLimit
    BY <1>3 DEF Usable
  <2>2. rollover \in Nat
    BY <1>1, CacheConstants DEF Snapshots, Keys
  <2>3. /\ row \in Rows /\ now \in Nat /\ StaleLimit \in Nat /\ corpus \in Nat
        /\ row.invalidated \in Nat /\ row.changed \in Nat /\ doc.high \in Nat
        /\ doc.key.revision \in Nat /\ row.revision \in Nat /\ MaxWrites \in Nat
        /\ corpus <= MaxWrites /\ writtenAt \in [1..MaxWrites -> Nat]
    BY <1>1, CacheConstants DEF TypeOK, Rows, Snapshots, Keys
  <2>4. ChangedAt \in Nat /\ (row.invalidated # 0 => ChangedAt <= row.invalidated)
    BY <2>3 DEF ChangedAt
  <2>5. doc.high < corpus => now - writtenAt[doc.high + 1] <= StaleLimit
    <3> SUFFICES ASSUME doc.high < corpus PROVE now - writtenAt[doc.high + 1] <= StaleLimit
      OBVIOUS
    <3>1. ~Current(doc.key)
      BY <1>1, <2>3 DEF DocOK
    <3>2. doc.key.revision # CurrentKey.revision
      <4>1. Compacted.revision = IF row.dirty THEN row.revision + 1 ELSE row.revision
        BY <2>3, CompactedType
      <4> QED
        BY <1>1, <2>3, <3>1, <4>1 DEF DocOK, KeyPast, Current, CurrentKey
    <3>3. BecameStale(doc) = IF doc.key.day # Today /\ rollover < ChangedAt THEN rollover ELSE ChangedAt
      BY <3>2 DEF BecameStale
    <3> HIDE DEF rollover
    <3>4. BecameStale(doc) <= ChangedAt /\ BecameStale(doc) \in Nat
      BY <2>2, <2>4, <3>3
    <3>5. ChangedAt <= writtenAt[doc.high + 1] /\ writtenAt[doc.high + 1] \in Nat
      BY <1>1, <2>3, <2>4, <3>1 DEF Late
    <3> QED
      BY <2>1, <2>3, <2>4, <3>4, <3>5
  <2>6. doc.built < Today => now - rollover <= StaleLimit
    <3> SUFFICES ASSUME doc.built < Today PROVE now - rollover <= StaleLimit
      OBVIOUS
    <3>1. doc.key.day # Today
      BY <1>1, KeyType DEF DocOK, Snapshots
    <3>2. BecameStale(doc) \in {rollover, ChangedAt}
          /\ (BecameStale(doc) = ChangedAt => ~(rollover < ChangedAt) \/ BecameStale(doc) = rollover)
      BY <3>1 DEF BecameStale
    <3> HIDE DEF rollover
    <3> QED
      BY <2>1, <2>2, <2>3, <2>4, <3>2
  <2> QED
    BY <1>1, <2>5, <2>6 DEF DocOK
<1> QED
  BY <1>2, <1>3

(***************************************************************************)
(* The staleness bound: a snapshot is served for at most StaleLimit after  *)
(* the first write or midnight it lacks, through any number of writes,     *)
(* refreshes, failed publications and restarts.  The row keeps the first   *)
(* invalidation until the one thread that refreshes has its own, current   *)
(* snapshot on disk and in memory.                                         *)
(***************************************************************************)
THEOREM Stale == Spec => []StaleIsBounded
<1>1. Init => LInv
  <2>1. Init => MissesLeft /\ TasksOK /\ DocsOK /\ AtMostOne /\ Flagged
    BY CacheConstants
       DEF Init, MissesLeft, NoTask, TasksOK, TaskOK, Keyed, DocsOK, AtMostOne, Flagged,
          Refreshes
  <2>2. Init => (disk # None => disk.high <= corpus) /\ \A t \in Threads : Ahead(t)
    BY DEF Init, NoTask, Ahead, Before
  <2>3. Init => AInv
    BY <2>1, <2>2, InitType DEF FInv, TInv, AInv
  <2>4. Init => /\ row.invalidated <= now
                /\ \A doc \in {memory, disk} \ {None} : Late(doc)
                /\ \A t \in Threads : task[t].phase \notin Putting /\ PutBy(t)
    BY DEF Init, NoTask, Putting, PutBy
  <2> QED
    BY <2>3, <2>4 DEF LInv
<1>2. LInv => StaleIsBounded
  BY StaleFromInv
<1> QED
  BY <1>1, <1>2, LateStep, PTL DEF Spec

-----------------------------------------------------------------------------
(* The turn                                                                 *)

Done == {"closing", "ended"}
Turns ==
    [phase : Loop!Phases, step : 0..MaxModelCalls, call : Loop!Calls, mode : Modes,
     planner : BOOLEAN, retry : BOOLEAN, synthesis : BOOLEAN,
     used : SUBSET Loop!Allowances, tools : 0..MaxToolCalls, batch : 0..MaxBatch,
     open : {"none", "card_details", "research_package", "check_answer", "tool"},
     task : Loop!Tasks, lists : BOOLEAN, selected : BOOLEAN, notes : BOOLEAN,
     measured : BOOLEAN, blocked : BOOLEAN, kept : BOOLEAN,
     draft : [empty : BOOLEAN, counted : BOOLEAN, listed : BOOLEAN]]
Results == [status : Loop!Statuses, reason : Loop!Incomplete \cup {""},
            shown : {"nothing", "notice", "evidence", "fact", "draft", "answer"},
            flaws : SUBSET Loop!Flaws]

Worlds == [stopped : BOOLEAN, deck : {"current", "changed", "gone"}, left : Moments]
Typed == /\ turn \in Turns /\ result \in Results /\ outside \in Worlds
         /\ iterations \in 0..ToolIterations /\ failure \in {"none", "provider", "check"}

\* A turn at work has a call to spare, and the tools it was promised.
HasRoom(t) ==
    /\ t.phase \notin {"loop"} \cup Done => t.step < MaxModelCalls
    /\ t.phase \in {"start", "direct", "reading"} => t.tools = 0
    /\ t.phase \in {"tools", "executing"} => t.tools + t.batch <= MaxToolCalls

\* Until it ends, a turn reports nothing but that its notes were replaced.
Reports(t, r) ==
    /\ t.phase \notin Done => r.status = "incomplete" /\ r.flaws = {}
    /\ t.phase \notin Done /\ t.notes => r.reason \in Loop!Incomplete
    /\ r.status = "done" => r.flaws = {}

\* An answer is repaired only after its one check.
ChecksOnce(t) ==
    /\ "repair" \in t.used => "checker" \in t.used
    /\ t.phase = "reviewing" => "repair" \notin t.used /\ "checker" \in t.used

LoopInvariant == Typed /\ HasRoom(turn) /\ Reports(turn, result) /\ ChecksOnce(turn)

LEMMA LoopTypes == Loop!TypeOK <=> Typed
BY DEF Loop!TypeOK, Typed, Turns, Results, Worlds

\* What a step has to show of the turn and the result it leaves.
LEMMA Leaves ==
  ASSUME LoopInvariant, NEW t \in Turns, NEW r \in Results, turn' = t, result' = r,
         outside' = outside, iterations' \in 0..ToolIterations,
         failure' \in {"none", "provider", "check"},
         HasRoom(t), Reports(t, r), ChecksOnce(t)
  PROVE  LoopInvariant'
BY DEF LoopInvariant, Typed

\* Going round again is possible while there is a call to spare.
LEMMA Rounds ==
  ASSUME Loop!LoopConstants, LoopInvariant, NEW t \in Turns, Loop!Again(t),
         iterations' \in 0..ToolIterations,
         t.step < MaxModelCalls, turn.phase \notin Done,
         t.notes = turn.notes, "repair" \in t.used => "checker" \in t.used
  PROVE  LoopInvariant'
<1> DEFINE u == [t EXCEPT !.phase = "loop", !.step = @ + 1, !.call = "none", !.draft = Loop!NoDraft]
<1>1. turn' = u /\ result' = result /\ outside' = outside /\ failure' = failure
  BY DEF Loop!Again
<1>2. t.step + 1 \in 0..MaxModelCalls
  BY DEF Loop!LoopConstants, Turns
<1>3. u \in Turns
  BY <1>2 DEF Turns, Loop!Phases, Loop!Calls, Loop!NoDraft
<1>4. u.phase = "loop" /\ u.notes = t.notes /\ u.used = t.used
  BY DEF Turns
<1> HIDE DEF u
<1>5. HasRoom(u) /\ ChecksOnce(u) /\ Reports(u, result)
  BY <1>4 DEF LoopInvariant, HasRoom, ChecksOnce, Reports, Done
<1>6. result \in Results /\ failure \in {"none", "provider", "check"}
  BY DEF LoopInvariant, Typed
<1> QED
  BY <1>1, <1>3, <1>5, <1>6, Leaves

\* An ending that is not a success.
LEMMA Endings ==
  ASSUME Loop!LoopConstants, LoopInvariant, NEW status \in Loop!Statuses \ {"done"},
         NEW shown \in {"nothing", "notice", "evidence", "fact", "draft", "answer"},
         Loop!Ends(status, shown), iterations' \in 0..ToolIterations,
         failure' \in {"none", "provider", "check"}
  PROVE  LoopInvariant'
<1> DEFINE u == [turn EXCEPT !.phase = "closing"]
           r == [result EXCEPT !.status = status, !.shown = shown]
<1>1. turn' = u /\ result' = r /\ outside' = outside
  BY DEF Loop!Ends
<1>2. turn \in Turns /\ result \in Results
  BY DEF LoopInvariant, Typed
<1>3. u \in Turns /\ u.phase = "closing" /\ u.used = turn.used
  BY <1>2 DEF Turns, Loop!Phases
<1>4. r \in Results /\ r.status # "done"
  BY <1>2 DEF Results
<1> HIDE DEF u, r
<1>5. HasRoom(u) /\ ChecksOnce(u) /\ Reports(u, r)
  BY <1>3, <1>4 DEF LoopInvariant, HasRoom, ChecksOnce, Reports, Done
<1> QED
  BY <1>1, <1>3, <1>4, <1>5, Leaves

\* What the steps below read of the state.
LEMMA LoopFacts ==
  ASSUME Loop!LoopConstants, LoopInvariant
  PROVE  /\ turn \in Turns /\ result \in Results /\ iterations \in 0..ToolIterations
         /\ failure \in {"none", "provider", "check"}
         /\ ToolIterations \in Nat /\ MaxModelCalls \in Nat \ {0}
         /\ MaxToolCalls \in Nat \ {0} /\ MaxBatch \in Nat
         /\ turn.step \in Nat /\ turn.tools \in 0..MaxToolCalls /\ turn.batch \in 0..MaxBatch
         /\ Loop!Exhausted \/ iterations + 1 \in 0..ToolIterations
BY DEF Loop!LoopConstants, LoopInvariant, Typed, Turns, Loop!Exhausted

LEMMA LoopConsumes ==
  ASSUME Loop!LoopConstants, LoopInvariant, Loop!Consumes PROVE iterations' \in 0..ToolIterations
BY LoopFacts DEF Loop!Consumes

-----------------------------------------------------------------------------
(* The start and the calls                                                  *)

LEMMA BeginKeeps == ASSUME Loop!LoopConstants, LoopInvariant, Loop!Begin PROVE LoopInvariant'
<1> DEFINE u == [turn EXCEPT !.phase = "loop"]
           v == [turn EXCEPT !.phase = "direct", !.planner = FALSE, !.synthesis = TRUE]
<1>1. u \in Turns /\ v \in Turns
  BY LoopFacts DEF Turns, Loop!Phases
<1>2. /\ u.phase = "loop" /\ u.used = turn.used /\ u.notes = turn.notes
      /\ v.phase = "direct" /\ v.used = turn.used /\ v.notes = turn.notes
      /\ v.tools = turn.tools /\ v.step = turn.step
  BY LoopFacts DEF Turns
<1>3. turn' = u \/ turn' = v
  BY DEF Loop!Begin
<1>4. turn.phase = "start" /\ result' = result /\ outside' = outside /\ iterations' = iterations
      /\ failure' = failure
  BY DEF Loop!Begin, Loop!Quietly
<1> HIDE DEF u, v
<1>5. HasRoom(u) /\ HasRoom(v) /\ ChecksOnce(u) /\ ChecksOnce(v)
  BY <1>2, <1>4 DEF LoopInvariant, HasRoom, ChecksOnce, Done
<1>6. Reports(u, result) /\ Reports(v, result)
  BY <1>2, <1>4 DEF LoopInvariant, Reports, Done
<1> QED
  BY <1>1, <1>3, <1>4, <1>5, <1>6, LoopFacts, Leaves

LEMMA ReadCardKeeps ==
  ASSUME Loop!LoopConstants, LoopInvariant, Loop!ReadCard
  PROVE  LoopInvariant'
<1> DEFINE u == [turn EXCEPT !.phase = "reading", !.open = "card_details"]
<1>1. u \in Turns
  BY LoopFacts DEF Turns, Loop!Phases
<1>2. /\ u.phase = "reading" /\ u.used = turn.used /\ u.notes = turn.notes
      /\ u.tools = turn.tools /\ u.step = turn.step
  BY LoopFacts DEF Turns
<1>3. /\ turn.phase = "direct" /\ turn' = u /\ result' = result /\ outside' = outside
      /\ failure' = failure /\ iterations' \in 0..ToolIterations
  BY LoopConsumes DEF Loop!ReadCard
<1> HIDE DEF u
<1>4. HasRoom(u) /\ ChecksOnce(u) /\ Reports(u, result)
  BY <1>2, <1>3 DEF LoopInvariant, HasRoom, ChecksOnce, Reports, Done
<1> QED
  BY <1>1, <1>3, <1>4, LoopFacts, Leaves

LEMMA ReadDeniedKeeps ==
  ASSUME Loop!LoopConstants, LoopInvariant, Loop!ReadDenied
  PROVE  LoopInvariant'
<1> DEFINE u == [turn EXCEPT !.phase = "closing", !.open = "card_details"]
           r == [result EXCEPT !.status = "provider_error", !.shown = "notice"]
<1>1. u \in Turns /\ u.phase = "closing" /\ u.used = turn.used
  BY LoopFacts DEF Turns, Loop!Phases
<1>2. r \in Results /\ r.status # "done"
  BY LoopFacts DEF Results, Loop!Statuses
<1>3. turn' = u /\ result' = r /\ outside' = outside /\ failure' = failure /\ iterations' = iterations
  BY DEF Loop!ReadDenied, Loop!Quietly
<1> HIDE DEF u, r
<1>4. HasRoom(u) /\ ChecksOnce(u) /\ Reports(u, r)
  BY <1>1, <1>2 DEF LoopInvariant, HasRoom, ChecksOnce, Reports, Done
<1> QED
  BY <1>1, <1>2, <1>3, <1>4, LoopFacts, Leaves

LEMMA CardKeeps ==
  ASSUME Loop!LoopConstants, LoopInvariant, Loop!CardUnresolved \/ Loop!CardRead PROVE LoopInvariant'
<1> DEFINE u == [turn EXCEPT !.phase = "loop", !.open = "none", !.planner = TRUE,
                             !.synthesis = FALSE]
           v == [turn EXCEPT !.phase = "loop", !.open = "none", !.tools = @ + 1]
<1>1. turn.phase = "reading" /\ (turn' = u \/ turn' = v) /\ result' = result /\ outside' = outside
      /\ failure' = failure /\ iterations' = iterations
  BY DEF Loop!CardUnresolved, Loop!CardRead, Loop!Quietly
<1>2. turn.tools + 1 \in 0..MaxToolCalls
  BY <1>1, LoopFacts DEF LoopInvariant, HasRoom
<1>3. u \in Turns /\ v \in Turns
  BY <1>2, LoopFacts DEF Turns, Loop!Phases
<1>4. /\ u.phase = "loop" /\ u.used = turn.used /\ u.notes = turn.notes
      /\ v.phase = "loop" /\ v.used = turn.used /\ v.notes = turn.notes
  BY LoopFacts DEF Turns
<1> HIDE DEF u, v
<1>5. HasRoom(u) /\ HasRoom(v) /\ ChecksOnce(u) /\ ChecksOnce(v)
  BY <1>1, <1>4 DEF LoopInvariant, HasRoom, ChecksOnce, Done
<1>6. Reports(u, result) /\ Reports(v, result)
  BY <1>1, <1>4 DEF LoopInvariant, Reports, Done
<1> QED
  BY <1>1, <1>3, <1>5, <1>6, LoopFacts, Leaves

LEMMA FactKeeps ==
  ASSUME Loop!LoopConstants, LoopInvariant, Loop!FactRendered
  PROVE  LoopInvariant'
<1> DEFINE u == [turn EXCEPT !.phase = "closing", !.open = "none", !.tools = @ + 1]
           r == [result EXCEPT !.status = "done", !.shown = "fact"]
<1>1. turn.phase = "reading" /\ turn' = u /\ result' = r /\ outside' = outside
      /\ failure' = failure /\ iterations' = iterations
  BY DEF Loop!FactRendered, Loop!Quietly
<1>2. turn.tools + 1 \in 0..MaxToolCalls
  BY <1>1, LoopFacts DEF LoopInvariant, HasRoom
<1>3. u \in Turns /\ u.phase = "closing" /\ u.used = turn.used
  BY <1>2, LoopFacts DEF Turns, Loop!Phases
<1>4. r \in Results /\ r.flaws = result.flaws
  BY LoopFacts DEF Results, Loop!Statuses
<1>5. result.flaws = {}
  BY <1>1 DEF LoopInvariant, Reports, Done
<1> HIDE DEF u, r
<1>6. HasRoom(u) /\ ChecksOnce(u) /\ Reports(u, r)
  BY <1>3, <1>4, <1>5 DEF LoopInvariant, HasRoom, ChecksOnce, Reports, Done
<1> QED
  BY <1>1, <1>3, <1>4, <1>6, LoopFacts, Leaves

LEMMA CallKeeps == ASSUME Loop!LoopConstants, LoopInvariant, Loop!CallModel PROVE LoopInvariant'
<1> DEFINE u == [turn EXCEPT !.phase = "calling", !.call = Loop!NextKind, !.retry = FALSE]
<1>1. Loop!NextKind \in Loop!Calls
  BY DEF Loop!NextKind, Loop!Calls
<1>2. u \in Turns
  BY <1>1, LoopFacts DEF Turns, Loop!Phases
<1>3. /\ u.phase = "calling" /\ u.used = turn.used /\ u.notes = turn.notes
      /\ u.tools = turn.tools /\ u.step = turn.step
  BY LoopFacts DEF Turns
<1>4. /\ turn.phase = "loop" /\ turn' = u /\ result' = result /\ outside' = outside
      /\ failure' = failure /\ iterations' = iterations /\ turn.step < MaxModelCalls
  BY DEF Loop!CallModel, Loop!Quietly
<1> HIDE DEF u
<1>5. HasRoom(u) /\ ChecksOnce(u) /\ Reports(u, result)
  BY <1>3, <1>4 DEF LoopInvariant, HasRoom, ChecksOnce, Reports, Done
<1> QED
  BY <1>2, <1>4, <1>5, LoopFacts, Leaves

LEMMA EndingsKeep ==
  ASSUME Loop!LoopConstants, LoopInvariant,
         \/ Loop!Unconfigured \/ Loop!BudgetExhausted \/ Loop!NoCandidates \/ Loop!CallLost
         \/ Loop!CallRejected
         \/ Loop!RepairLost \/ Loop!CallDenied \/ Loop!PlanUngrounded \/ Loop!ReviewOvertaken
         \/ Loop!Refused
  PROVE  LoopInvariant'
<1>1. /\ iterations' = iterations /\ failure' \in {failure, "provider"}
      /\ \E status \in Loop!Statuses \ {"done"}, shown \in {"nothing", "notice", "evidence"} :
           Loop!Ends(status, shown)
  BY DEF Loop!Unconfigured, Loop!BudgetExhausted, Loop!NoCandidates, Loop!CallLost,
     Loop!CallRejected, Loop!RepairLost,
         Loop!CallDenied, Loop!PlanUngrounded, Loop!ReviewOvertaken, Loop!Refused,
         Loop!RejectedStatus, Loop!Statuses, Loop!Quietly
<1> QED
  BY <1>1, LoopFacts, Endings

\* An allowance that is used.
LEMMA Allowed ==
  ASSUME Loop!LoopConstants, LoopInvariant, NEW a \in Loop!Allowances
  PROVE  /\ Loop!Uses(a) \in Turns /\ Loop!Uses(a).used = turn.used \cup {a}
         /\ Loop!Uses(a).notes = turn.notes /\ Loop!Uses(a).step = turn.step
         /\ Loop!Uses(a).phase = turn.phase
BY LoopFacts DEF Loop!Uses, Turns

LEMMA Stepped ==
  ASSUME LoopInvariant, turn.phase \notin {"loop"} \cup Done PROVE turn.step < MaxModelCalls
BY DEF LoopInvariant, HasRoom

LEMMA RecoverKeeps ==
  ASSUME Loop!LoopConstants, LoopInvariant, Loop!RecoverOutput
  PROVE  LoopInvariant'
<1> DEFINE t == [Loop!Uses("output") EXCEPT !.retry = turn.call = "plan"]
<1>1. Loop!Again(t) /\ turn.phase = "calling" /\ iterations' = iterations
  BY DEF Loop!RecoverOutput
<1>2. /\ Loop!Uses("output") \in Turns /\ Loop!Uses("output").used = turn.used \cup {"output"}
      /\ Loop!Uses("output").notes = turn.notes /\ Loop!Uses("output").step = turn.step
  BY Allowed DEF Loop!Allowances
<1>3. t \in Turns /\ t.step = turn.step /\ t.notes = turn.notes /\ t.used = turn.used \cup {"output"}
  BY <1>2 DEF Turns
<1>4. turn.step < MaxModelCalls
  BY <1>1, Stepped DEF Done
<1> HIDE DEF t
<1>5. "repair" \in t.used => "checker" \in t.used
  BY <1>3 DEF LoopInvariant, ChecksOnce
<1> QED
  BY <1>1, <1>3, <1>4, <1>5, LoopFacts, Rounds DEF Done

LEMMA RepairKeeps ==
  ASSUME Loop!LoopConstants, LoopInvariant, Loop!RepairSchema
  PROVE  LoopInvariant'
<1>1. turn.phase = "calling" /\ iterations' = iterations
      /\ \E a \in {"planner", "selection", "schema"} :
           \/ Loop!Again([Loop!Uses(a) EXCEPT !.retry = TRUE])
           \/ Loop!Again([Loop!Uses(a) EXCEPT !.synthesis = TRUE])
  BY DEF Loop!RepairSchema
<1>2. PICK a \in {"planner", "selection", "schema"} :
           \/ Loop!Again([Loop!Uses(a) EXCEPT !.retry = TRUE])
           \/ Loop!Again([Loop!Uses(a) EXCEPT !.synthesis = TRUE])
  BY <1>1
<1>3. PICK t : t \in {[Loop!Uses(a) EXCEPT !.retry = TRUE], [Loop!Uses(a) EXCEPT !.synthesis = TRUE]}
               /\ Loop!Again(t)
  BY <1>2
<1>4. /\ Loop!Uses(a) \in Turns /\ Loop!Uses(a).used = turn.used \cup {a}
      /\ Loop!Uses(a).notes = turn.notes /\ Loop!Uses(a).step = turn.step
  BY Allowed DEF Loop!Allowances
<1>5. t \in Turns /\ t.step = turn.step /\ t.notes = turn.notes /\ t.used = turn.used \cup {a}
  BY <1>3, <1>4 DEF Turns
<1>6. turn.step < MaxModelCalls
  BY <1>1, Stepped DEF Done
<1>7. "repair" \in t.used => "checker" \in t.used
  BY <1>5 DEF LoopInvariant, ChecksOnce
<1> QED
  BY <1>1, <1>3, <1>5, <1>6, <1>7, LoopFacts, Rounds DEF Done

-----------------------------------------------------------------------------
(* The answers to a call                                                    *)

\* The turn in which an answer is taken, with what the answer settled.
Answered(t) ==
    /\ t \in Turns /\ turn.phase = "calling"
    /\ t.phase = "calling" /\ t.step = turn.step /\ t.notes = turn.notes
    /\ t.used = turn.used /\ t.tools = turn.tools

LEMMA DraftsKeep ==
  ASSUME Loop!LoopConstants, LoopInvariant, NEW t, Answered(t), Loop!Drafts(t),
         iterations' \in 0..ToolIterations
  PROVE  LoopInvariant'
<1>1. PICK d \in [empty : BOOLEAN, counted : BOOLEAN, listed : BOOLEAN] :
        turn' = [t EXCEPT !.phase = "draft", !.draft = d]
  BY DEF Loop!Drafts
<1> DEFINE u == [t EXCEPT !.phase = "draft", !.draft = d]
<1>2. u \in Turns /\ u.phase = "draft" /\ u.step = t.step /\ u.notes = t.notes /\ u.used = t.used
  BY DEF Answered, Turns, Loop!Phases
<1>3. turn' = u /\ result' = result /\ outside' = outside /\ failure' = failure
  BY <1>1 DEF Loop!Drafts
<1>4. turn.step < MaxModelCalls
  BY Stepped DEF Answered, Done
<1> HIDE DEF u
<1>5. HasRoom(u) /\ ChecksOnce(u) /\ Reports(u, result)
  BY <1>2, <1>4 DEF Answered, LoopInvariant, HasRoom, ChecksOnce, Reports, Done
<1> QED
  BY <1>2, <1>3, <1>5, LoopFacts, Leaves

LEMMA AgainKeeps ==
  ASSUME Loop!LoopConstants, LoopInvariant, NEW t, Answered(t),
         NEW u, u = t \/ \E enough \in BOOLEAN :
                           u = [t EXCEPT !.synthesis = enough], Loop!Again(u),
         iterations' \in 0..ToolIterations
  PROVE  LoopInvariant'
<1>1. u \in Turns /\ u.step = t.step /\ u.notes = t.notes /\ u.used = t.used
  BY DEF Answered, Turns
<1>2. turn.step < MaxModelCalls
  BY Stepped DEF Answered, Done
<1>3. "repair" \in u.used => "checker" \in u.used
  BY <1>1 DEF Answered, LoopInvariant, ChecksOnce
<1> QED
  BY <1>1, <1>2, <1>3, Rounds DEF Answered, Done

LEMMA BatchesKeep ==
  ASSUME Loop!LoopConstants, LoopInvariant, NEW t, Answered(t), Loop!Batches(t),
         iterations' \in 0..ToolIterations
  PROVE  LoopInvariant'
<1>1. PICK n \in 1..MaxBatch :
        \/ Loop!Ends("budget_exhausted", "evidence") /\ UNCHANGED failure
        \/ Loop!Again([t EXCEPT !.synthesis = TRUE])
        \/ /\ t.tools + n <= MaxToolCalls
           /\ turn' = [t EXCEPT !.phase = "tools", !.batch = n]
           /\ UNCHANGED <<result, outside, failure>>
  BY DEF Loop!Batches
<1>2. CASE Loop!Ends("budget_exhausted", "evidence") /\ UNCHANGED failure
  BY <1>2, LoopFacts, Endings DEF Loop!Statuses
<1>3. CASE Loop!Again([t EXCEPT !.synthesis = TRUE])
  BY <1>3, AgainKeeps
<1>4. CASE /\ t.tools + n <= MaxToolCalls
           /\ turn' = [t EXCEPT !.phase = "tools", !.batch = n]
           /\ UNCHANGED <<result, outside, failure>>
  <2> DEFINE u == [t EXCEPT !.phase = "tools", !.batch = n]
  <2>1. n \in 0..MaxBatch
    BY LoopFacts
  <2>2. /\ u \in Turns /\ u.phase = "tools" /\ u.step = t.step /\ u.notes = t.notes
        /\ u.used = t.used /\ u.tools = t.tools /\ u.batch = n
    BY <2>1 DEF Answered, Turns, Loop!Phases
  <2>3. turn' = u /\ result' = result /\ outside' = outside /\ failure' = failure
    BY <1>4
  <2>4. turn.step < MaxModelCalls
    BY Stepped DEF Answered, Done
  <2> HIDE DEF u
  <2>5. HasRoom(u) /\ ChecksOnce(u) /\ Reports(u, result)
    BY <1>4, <2>2, <2>4 DEF Answered, LoopInvariant, HasRoom, ChecksOnce, Reports, Done
  <2> QED
    BY <2>2, <2>3, <2>5, LoopFacts, Leaves
<1> QED
  BY <1>1, <1>2, <1>3, <1>4

LEMMA PackageKeeps ==
  ASSUME Loop!LoopConstants, LoopInvariant, NEW t, Answered(t), Loop!StartsPackage(t)
  PROVE  LoopInvariant'
<1> DEFINE u == [t EXCEPT !.phase = IF Loop!Exhausted THEN "closing" ELSE "packaging",
                          !.used = @ \cup {"package"}, !.tools = @ + 1,
                          !.open = "research_package"]
           r == [result EXCEPT !.status = "provider_error", !.shown = "notice"]
<1>1. turn' = u /\ outside' = outside /\ failure' = failure
  BY DEF Loop!StartsPackage
<1>2. t.tools + 1 \in 0..MaxToolCalls
  BY LoopFacts DEF Loop!StartsPackage, Loop!Packages, Answered
<1>3. u \in Turns
  BY <1>2 DEF Answered, Turns, Loop!Phases, Loop!Allowances
<1>4. /\ u.phase = (IF Loop!Exhausted THEN "closing" ELSE "packaging") /\ u.step = t.step
      /\ u.notes = t.notes /\ u.used = t.used \cup {"package"}
  BY DEF Answered, Turns
<1>5. turn.step < MaxModelCalls
  BY Stepped DEF Answered, Done
<1>6. r \in Results /\ r.status # "done"
  BY LoopFacts DEF Results, Loop!Statuses
<1> HIDE DEF u
<1>7. HasRoom(u) /\ ChecksOnce(u)
  BY <1>4, <1>5 DEF Answered, LoopInvariant, HasRoom, ChecksOnce, Done
<1>8. CASE Loop!Consumes /\ UNCHANGED result
  <2>0. ~Loop!Exhausted
    BY <1>8, LoopFacts DEF Loop!Consumes, Loop!Exhausted
  <2>1. ~Loop!Exhausted /\ iterations' \in 0..ToolIterations
    BY <1>8, <2>0, LoopConsumes
  <2>2. Reports(u, result)
    BY <1>4, <2>1 DEF Answered, LoopInvariant, Reports, Done
  <2> QED
    BY <1>1, <1>3, <1>7, <1>8, <2>1, <2>2, LoopFacts, Leaves
<1>9. CASE Loop!Exhausted /\ iterations' = iterations /\ result' = r
  <2> HIDE DEF r
  <2>1. Reports(u, r)
    BY <1>4, <1>6, <1>9 DEF Reports, Done
  <2> QED
    BY <1>1, <1>3, <1>6, <1>7, <1>9, <2>1, LoopFacts, Leaves
<1> QED
  BY <1>8, <1>9 DEF Loop!StartsPackage

LEMMA ProceedsKeep ==
  ASSUME Loop!LoopConstants, LoopInvariant, NEW t, Answered(t), Loop!Proceeds(t)
  PROVE  LoopInvariant'
BY LoopFacts, PackageKeeps, DraftsKeep, BatchesKeep DEF Loop!Proceeds

LEMMA PlanKeeps ==
  ASSUME Loop!LoopConstants, LoopInvariant, Loop!PlanAccepted
  PROVE  LoopInvariant'
<1>1. PICK p \in Loop!PlannedTasks :
        LET t == Loop!Planned(p[1], p[2]) IN
        \/ Loop!Batches(t) /\ UNCHANGED iterations
        \/ Loop!Proceeds(t)
        \/ \E enough \in BOOLEAN :
              Loop!Again([t EXCEPT !.synthesis = enough]) /\ UNCHANGED iterations
  BY DEF Loop!PlanAccepted
<1> DEFINE t == Loop!Planned(p[1], p[2])
<1>2. p[1] \in Loop!Tasks /\ p[2] \in BOOLEAN
  <2>1. turn.lists \in BOOLEAN
    BY LoopFacts DEF Turns
  <2>2. \E goal \in {"plain", "package", "empirical"}, lists \in BOOLEAN : p = <<goal, lists>>
    BY <2>1 DEF Loop!PlannedTasks
  <2> QED
    BY <2>2 DEF Loop!Tasks
<1>3. turn.phase = "calling"
  BY DEF Loop!PlanAccepted
<1>4. Answered(t)
  BY <1>2, <1>3, LoopFacts DEF Answered, Loop!Planned, Turns
<1> HIDE DEF t
<1>5. CASE Loop!Batches(t) /\ UNCHANGED iterations
  BY <1>4, <1>5, LoopFacts, BatchesKeep
<1>6. CASE Loop!Proceeds(t)
  BY <1>4, <1>6, ProceedsKeep
<1>7. CASE \E enough \in BOOLEAN :
             Loop!Again([t EXCEPT !.synthesis = enough]) /\ UNCHANGED iterations
  BY <1>4, <1>7, LoopFacts, AgainKeeps
<1> QED
  BY <1>1, <1>5, <1>6, <1>7 DEF t

LEMMA WorkKeeps == ASSUME Loop!LoopConstants, LoopInvariant, Loop!Work PROVE LoopInvariant'
<1> DEFINE t == [turn EXCEPT !.synthesis = TRUE]
<1>1. turn.phase = "calling"
  BY DEF Loop!Work
<1>2. Answered(turn) /\ Answered(t)
  BY <1>1, LoopFacts DEF Answered, Turns
<1>3. \/ Loop!Proceeds(turn) \/ Loop!Proceeds(t) \/ (Loop!Again(t) /\ iterations' = iterations)
  BY DEF Loop!Work
<1>4. Loop!Again(t) /\ iterations' = iterations => LoopInvariant'
  BY <1>2, LoopFacts, AgainKeeps
<1> HIDE DEF t
<1> QED
  BY <1>2, <1>3, <1>4, ProceedsKeep

LEMMA AnswerKeeps == ASSUME Loop!LoopConstants, LoopInvariant, Loop!Answer PROVE LoopInvariant'
<1>1. turn.phase = "calling"
  BY DEF Loop!Answer
<1>2. Answered(turn)
  BY <1>1, LoopFacts DEF Answered
<1>3. \/ Loop!Proceeds(turn) \/ Loop!StartsPackage(turn)
      \/ (Loop!Drafts(turn) /\ iterations' = iterations)
      \/ (Loop!Ends("incomplete", "evidence") /\ iterations' = iterations /\ failure' = failure)
  BY DEF Loop!Answer, Loop!Quietly
<1> QED
  BY <1>2, <1>3, LoopFacts, ProceedsKeep, PackageKeeps, DraftsKeep, Endings DEF Loop!Statuses

LEMMA SelectionRefusedKeeps ==
  ASSUME Loop!LoopConstants, LoopInvariant, Loop!SelectionRefused PROVE LoopInvariant'
<1>1. turn.phase = "calling" /\ iterations' = iterations
  BY DEF Loop!SelectionRefused
<1>2. CASE Loop!Again([Loop!Uses("selection") EXCEPT !.synthesis = TRUE])
  <2> DEFINE t == [Loop!Uses("selection") EXCEPT !.synthesis = TRUE]
  <2>1. /\ Loop!Uses("selection") \in Turns
        /\ Loop!Uses("selection").used = turn.used \cup {"selection"}
        /\ Loop!Uses("selection").notes = turn.notes /\ Loop!Uses("selection").step = turn.step
    BY Allowed DEF Loop!Allowances
  <2>2. /\ t \in Turns /\ t.step = turn.step /\ t.notes = turn.notes
        /\ t.used = turn.used \cup {"selection"}
    BY <2>1 DEF Turns
  <2>3. turn.step < MaxModelCalls
    BY <1>1, Stepped DEF Done
  <2>4. Loop!Again(t)
    BY <1>2
  <2> HIDE DEF t
  <2>5. "repair" \in t.used => "checker" \in t.used
    BY <2>2 DEF LoopInvariant, ChecksOnce
  <2> QED
    BY <1>1, <2>2, <2>3, <2>4, <2>5, LoopFacts, Rounds DEF Done
<1>3. CASE Loop!Ends("incomplete", "evidence") /\ UNCHANGED failure
  BY <1>1, <1>3, LoopFacts, Endings DEF Loop!Statuses
<1> QED
  BY <1>2, <1>3 DEF Loop!SelectionRefused

LEMMA SelectionKeeps ==
  ASSUME Loop!LoopConstants, LoopInvariant, Loop!SelectionTaken
  PROVE  LoopInvariant'
<1>1. PICK poor \in BOOLEAN, listed \in BOOLEAN :
        /\ turn' = [turn EXCEPT !.phase = "draft", !.selected = TRUE, !.notes = poor,
                                !.draft = [Loop!NoDraft EXCEPT !.listed = listed]]
        /\ result' = IF poor
                     THEN [result EXCEPT !.reason = "selection_explanation_incomplete"]
                     ELSE result
  BY DEF Loop!SelectionTaken
<1> DEFINE d == [Loop!NoDraft EXCEPT !.listed = listed]
           u == [turn EXCEPT !.phase = "draft", !.selected = TRUE, !.notes = poor, !.draft = d]
           r == IF poor THEN [result EXCEPT !.reason = "selection_explanation_incomplete"]
                ELSE result
<1>2. d \in [empty : BOOLEAN, counted : BOOLEAN, listed : BOOLEAN]
  BY DEF Loop!NoDraft
<1>3. turn' = u /\ result' = r
  BY <1>1
<1> HIDE DEF d
<1>4. u \in Turns
  BY <1>2, LoopFacts DEF Turns, Loop!Phases
<1>5. u.phase = "draft" /\ u.step = turn.step /\ u.notes = poor /\ u.used = turn.used
  BY LoopFacts DEF Turns
<1>6. /\ r \in Results /\ r.status = result.status /\ r.flaws = result.flaws
      /\ poor => r.reason \in Loop!Incomplete
  BY LoopFacts DEF Results, Loop!Incomplete
<1>7. turn.phase = "calling" /\ outside' = outside /\ iterations' = iterations /\ failure' = failure
  BY DEF Loop!SelectionTaken, Loop!Quietly
<1> HIDE DEF u, r
<1>8. turn.step < MaxModelCalls
  BY <1>7, Stepped DEF Done
<1>9. HasRoom(u) /\ ChecksOnce(u) /\ Reports(u, r)
  BY <1>5, <1>6, <1>7, <1>8 DEF LoopInvariant, HasRoom, ChecksOnce, Reports, Done
<1> QED
  BY <1>3, <1>4, <1>6, <1>7, <1>9, LoopFacts, Leaves

LEMMA InferenceKeeps ==
  ASSUME Loop!LoopConstants, LoopInvariant, Loop!DeckQuestion \/ Loop!DeckInferred PROVE LoopInvariant'
<1>1. CASE Loop!DeckQuestion
  <2> DEFINE u == [Loop!Planned("plain", FALSE) EXCEPT !.phase = "inferring"]
  <2>1. /\ turn.phase = "calling" /\ turn' = u /\ result' = result /\ outside' = outside
        /\ iterations' = iterations /\ failure' = failure
    BY <1>1 DEF Loop!DeckQuestion, Loop!Quietly
  <2>2. /\ u \in Turns /\ u.phase = "inferring" /\ u.step = turn.step /\ u.notes = turn.notes
        /\ u.used = turn.used
    BY LoopFacts DEF Loop!Planned, Turns, Loop!Phases, Loop!Tasks
  <2>3. turn.step < MaxModelCalls
    BY <2>1, Stepped DEF Done
  <2> HIDE DEF u
  <2>4. HasRoom(u) /\ ChecksOnce(u) /\ Reports(u, result)
    BY <2>1, <2>2, <2>3 DEF LoopInvariant, HasRoom, ChecksOnce, Reports, Done
  <2> QED
    BY <2>1, <2>2, <2>4, LoopFacts, Leaves
<1>2. CASE Loop!DeckInferred
  <2> DEFINE u == [turn EXCEPT !.phase = "closing"]
             r == [result EXCEPT !.status = "incomplete", !.shown = "answer",
                                 !.reason = "answer_partially_fulfilled", !.flaws = {"partial"}]
  <2>1. /\ turn' = u /\ result' = r /\ outside' = outside
        /\ iterations' = iterations /\ failure' = failure
    BY <1>2 DEF Loop!DeckInferred, Loop!Quietly
  <2>2. u \in Turns /\ u.phase = "closing" /\ u.used = turn.used
    BY LoopFacts DEF Turns, Loop!Phases
  <2>3. r \in Results /\ r.status # "done"
    BY LoopFacts DEF Results, Loop!Statuses, Loop!Flaws, Loop!Incomplete
  <2> HIDE DEF u, r
  <2>4. HasRoom(u) /\ ChecksOnce(u) /\ Reports(u, r)
    BY <2>2, <2>3 DEF LoopInvariant, HasRoom, ChecksOnce, Reports, Done
  <2> QED
    BY <2>1, <2>2, <2>3, <2>4, LoopFacts, Leaves
<1> QED
  BY <1>1, <1>2

LEMMA PackagedKeeps ==
  ASSUME Loop!LoopConstants, LoopInvariant, Loop!PackageEnds
  PROVE  LoopInvariant'
<1>1. PICK made \in BOOLEAN, d \in [empty : {FALSE}, counted : BOOLEAN, listed : BOOLEAN] :
        turn' = [turn EXCEPT !.phase = "draft", !.open = "none", !.blocked = ~made, !.draft = d]
  BY DEF Loop!PackageEnds
<1> DEFINE u == [turn EXCEPT !.phase = "draft", !.open = "none", !.blocked = ~made, !.draft = d]
<1>2. /\ turn.phase = "packaging" /\ turn' = u /\ result' = result /\ outside' = outside
      /\ iterations' = iterations /\ failure' = failure
  BY <1>1 DEF Loop!PackageEnds, Loop!Quietly
<1>3. d \in [empty : BOOLEAN, counted : BOOLEAN, listed : BOOLEAN]
  OBVIOUS
<1>4. /\ u \in Turns /\ u.phase = "draft" /\ u.step = turn.step /\ u.notes = turn.notes
      /\ u.used = turn.used
  BY <1>3, LoopFacts DEF Turns, Loop!Phases
<1>5. turn.step < MaxModelCalls
  BY <1>2, Stepped DEF Done
<1> HIDE DEF u
<1>6. HasRoom(u) /\ ChecksOnce(u) /\ Reports(u, result)
  BY <1>2, <1>4, <1>5 DEF LoopInvariant, HasRoom, ChecksOnce, Reports, Done
<1> QED
  BY <1>2, <1>4, <1>6, LoopFacts, Leaves

-----------------------------------------------------------------------------
(* The tools                                                                *)

\* A turn that uses tools and goes on using them.
LEMMA ToolsGoOn ==
  ASSUME Loop!LoopConstants, LoopInvariant, NEW u \in Turns, turn' = u,
         result' = result, outside' = outside, failure' = failure,
         iterations' \in 0..ToolIterations,
         turn.phase \in {"tools", "executing"}, u.phase \in {"tools", "executing"},
         u.tools + u.batch <= turn.tools + turn.batch,
         u.step = turn.step, u.notes = turn.notes, u.used = turn.used
  PROVE  LoopInvariant'
<1>1. turn.step < MaxModelCalls
  BY Stepped DEF Done
<1>2. turn.tools + turn.batch <= MaxToolCalls /\ turn.tools \in Nat /\ turn.batch \in Nat
      /\ u.tools \in Nat /\ u.batch \in Nat /\ MaxToolCalls \in Nat
  BY LoopFacts DEF LoopInvariant, HasRoom, Turns
<1>3. u.tools + u.batch <= MaxToolCalls
  BY <1>2
<1>4. HasRoom(u)
  BY <1>1, <1>3 DEF HasRoom
<1>5. ChecksOnce(u) /\ Reports(u, result)
  BY DEF LoopInvariant, ChecksOnce, Reports, Done
<1> QED
  BY <1>4, <1>5, LoopFacts, Leaves

LEMMA ToolNumbers ==
  ASSUME Loop!LoopConstants, LoopInvariant, turn.phase = "tools", turn.batch > 0
  PROVE  /\ turn.batch - 1 \in 0..MaxBatch /\ turn.tools + 1 \in 0..MaxToolCalls
         /\ turn.tools + (turn.batch - 1) <= turn.tools + turn.batch
         /\ (turn.tools + 1) + (turn.batch - 1) <= turn.tools + turn.batch
<1>1. /\ turn.tools + turn.batch <= MaxToolCalls /\ turn.tools \in Nat
      /\ turn.batch \in 0..MaxBatch
      /\ MaxToolCalls \in Nat /\ MaxBatch \in Nat
  BY LoopFacts DEF LoopInvariant, HasRoom
<1> QED
  BY <1>1

LEMMA SkipToolKeeps ==
  ASSUME Loop!LoopConstants, LoopInvariant, Loop!SkipTool
  PROVE  LoopInvariant'
<1> DEFINE u == [turn EXCEPT !.batch = @ - 1]
<1>1. /\ turn.phase = "tools" /\ turn.batch > 0 /\ turn' = u /\ result' = result
      /\ outside' = outside /\ failure' = failure /\ iterations' = iterations
  BY DEF Loop!SkipTool, Loop!Quietly
<1>2. /\ u \in Turns /\ u.phase = turn.phase /\ u.step = turn.step /\ u.notes = turn.notes
      /\ u.used = turn.used /\ u.tools = turn.tools /\ u.batch = turn.batch - 1
  BY <1>1, ToolNumbers, LoopFacts DEF Turns
<1> HIDE DEF u
<1> QED
  BY <1>1, <1>2, ToolNumbers, LoopFacts, ToolsGoOn

LEMMA CallToolKeeps ==
  ASSUME Loop!LoopConstants, LoopInvariant, Loop!CallTool
  PROVE  LoopInvariant'
<1> DEFINE u == [turn EXCEPT !.phase = "executing", !.batch = @ - 1, !.tools = @ + 1,
                             !.open = "tool"]
<1>1. /\ turn.phase = "tools" /\ turn.batch > 0 /\ turn' = u /\ result' = result
      /\ outside' = outside /\ failure' = failure /\ iterations' \in 0..ToolIterations
  BY LoopConsumes DEF Loop!CallTool
<1>2. /\ u \in Turns /\ u.phase = "executing" /\ u.step = turn.step /\ u.notes = turn.notes
      /\ u.used = turn.used /\ u.tools = turn.tools + 1 /\ u.batch = turn.batch - 1
  BY <1>1, ToolNumbers, LoopFacts DEF Turns, Loop!Phases
<1> HIDE DEF u
<1> QED
  BY <1>1, <1>2, ToolNumbers, ToolsGoOn

LEMMA ToolDeniedKeeps ==
  ASSUME Loop!LoopConstants, LoopInvariant, Loop!ToolDenied
  PROVE  LoopInvariant'
<1> DEFINE u == [turn EXCEPT !.batch = @ - 1, !.tools = @ + 1]
<1>1. /\ turn.phase = "tools" /\ turn.batch > 0 /\ turn' = u /\ result' = result
      /\ outside' = outside /\ failure' = failure /\ iterations' = iterations
  BY DEF Loop!ToolDenied, Loop!Quietly
<1>2. /\ u \in Turns /\ u.phase = turn.phase /\ u.step = turn.step /\ u.notes = turn.notes
      /\ u.used = turn.used /\ u.tools = turn.tools + 1 /\ u.batch = turn.batch - 1
  BY <1>1, ToolNumbers, LoopFacts DEF Turns
<1> HIDE DEF u
<1> QED
  BY <1>1, <1>2, ToolNumbers, LoopFacts, ToolsGoOn

LEMMA ToolEndsKeeps ==
  ASSUME Loop!LoopConstants, LoopInvariant, Loop!ToolEnds
  PROVE  LoopInvariant'
<1>1. PICK synthesis \in BOOLEAN, measured \in BOOLEAN :
        turn' = [turn EXCEPT !.phase = "tools", !.open = "none",
                             !.synthesis = synthesis, !.measured = measured]
  <2>1. turn.synthesis \in BOOLEAN /\ turn.measured \in BOOLEAN
    BY LoopFacts DEF Turns
  <2>2. PICK enough \in BOOLEAN, run \in BOOLEAN :
          turn' = [turn EXCEPT !.phase = "tools", !.open = "none",
                               !.synthesis = @ \/ (enough /\ turn.task # "empirical"),
                               !.measured = @ \/ (run /\ turn.task = "empirical")]
    BY DEF Loop!ToolEnds
  <2> DEFINE p == turn.synthesis \/ (enough /\ turn.task # "empirical")
             q == turn.measured \/ (run /\ turn.task = "empirical")
  <2>3. p \in BOOLEAN /\ q \in BOOLEAN
    OBVIOUS
  <2> QED
    BY <2>2, <2>3, Zenon
<1> DEFINE u == [turn EXCEPT !.phase = "tools", !.open = "none",
                             !.synthesis = synthesis, !.measured = measured]
<1>2. /\ turn.phase = "executing" /\ turn' = u /\ result' = result
      /\ outside' = outside /\ failure' = failure /\ iterations' \in 0..ToolIterations
  BY <1>1 DEF Loop!ToolEnds
<1>3. /\ u \in Turns /\ u.phase = "tools" /\ u.step = turn.step /\ u.notes = turn.notes
      /\ u.used = turn.used /\ u.tools = turn.tools /\ u.batch = turn.batch
  BY LoopFacts DEF Turns, Loop!Phases
<1> HIDE DEF u
<1>4. u.tools + u.batch <= turn.tools + turn.batch
  BY <1>3, LoopFacts
<1> QED
  BY <1>2, <1>3, <1>4, ToolsGoOn

LEMMA BatchDoneKeeps ==
  ASSUME Loop!LoopConstants, LoopInvariant, Loop!BatchDone
  PROVE  LoopInvariant'
<1>1. turn.phase = "tools" /\ Loop!Again(turn) /\ iterations' = iterations
  BY DEF Loop!BatchDone
<1>2. turn.step < MaxModelCalls
  BY <1>1, Stepped DEF Done
<1> QED
  BY <1>1, <1>2, LoopFacts, Rounds DEF Done, LoopInvariant, ChecksOnce

-----------------------------------------------------------------------------
(* The draft and its check                                                  *)

LEMMA DraftGoesOn ==
  ASSUME Loop!LoopConstants, LoopInvariant, Loop!DraftEmpty \/ Loop!DraftKept \/ Loop!DraftRelisted
  PROVE  LoopInvariant'
<1>1. turn.phase = "draft" /\ iterations' = iterations
  BY DEF Loop!DraftEmpty, Loop!DraftKept, Loop!DraftRelisted, Loop!Ready
<1>2. turn.step < MaxModelCalls
  BY <1>1, Stepped DEF Done
<1>3. \/ Loop!Again([turn EXCEPT !.synthesis = TRUE])
      \/ Loop!Ends("budget_exhausted", "evidence") /\ failure' = failure
      \/ Loop!Again([Loop!Uses("continuation") EXCEPT !.kept = TRUE])
      \/ Loop!Again([Loop!Uses("discovery") EXCEPT !.synthesis = TRUE])
  BY DEF Loop!DraftEmpty, Loop!DraftKept, Loop!DraftRelisted
<1>4. ASSUME NEW a \in {"continuation", "discovery"}
      PROVE  /\ Loop!Uses(a) \in Turns /\ Loop!Uses(a).used = turn.used \cup {a}
             /\ Loop!Uses(a).notes = turn.notes /\ Loop!Uses(a).step = turn.step
  BY Allowed DEF Loop!Allowances
<1>5. CASE Loop!Ends("budget_exhausted", "evidence") /\ failure' = failure
  BY <1>1, <1>5, LoopFacts, Endings DEF Loop!Statuses
<1>6. ASSUME NEW t, t \in {[turn EXCEPT !.synthesis = TRUE],
                           [Loop!Uses("continuation") EXCEPT !.kept = TRUE],
                           [Loop!Uses("discovery") EXCEPT !.synthesis = TRUE]}, Loop!Again(t)
      PROVE  LoopInvariant'
  <2>1. /\ t \in Turns /\ t.step = turn.step /\ t.notes = turn.notes
        /\ t.used \in {turn.used, turn.used \cup {"continuation"}, turn.used \cup {"discovery"}}
    BY <1>4, <1>6, LoopFacts DEF Turns
  <2>2. "repair" \in t.used => "checker" \in t.used
    BY <2>1 DEF LoopInvariant, ChecksOnce
  <2> QED
    BY <1>1, <1>2, <1>6, <2>1, <2>2, LoopFacts, Rounds DEF Done
<1> QED
  BY <1>3, <1>5, <1>6

LEMMA StartReviewKeeps ==
  ASSUME Loop!LoopConstants, LoopInvariant, Loop!StartReview
  PROVE  LoopInvariant'
<1> DEFINE u == [Loop!Uses("checker") EXCEPT !.phase = "reviewing", !.open = "check_answer"]
           r == [result EXCEPT !.reason = Loop!ReasonOfDraft]
<1>1. /\ turn.phase = "draft" /\ "checker" \notin turn.used /\ turn' = u /\ result' = r
      /\ outside' = outside /\ failure' = failure /\ iterations' \in 0..ToolIterations
  BY LoopConsumes DEF Loop!StartReview, Loop!Ready, Loop!Checks, Loop!May
<1>2. /\ Loop!Uses("checker") \in Turns /\ Loop!Uses("checker").used = turn.used \cup {"checker"}
      /\ Loop!Uses("checker").notes = turn.notes /\ Loop!Uses("checker").step = turn.step
  BY Allowed DEF Loop!Allowances
<1>3. /\ u \in Turns /\ u.phase = "reviewing" /\ u.step = turn.step /\ u.notes = turn.notes
      /\ u.used = turn.used \cup {"checker"}
  BY <1>2 DEF Turns, Loop!Phases
<1>4. Loop!ReasonOfDraft \in {result.reason, "discovery_incomplete"}
  BY DEF Loop!ReasonOfDraft
<1>5. /\ r \in Results /\ r.status = result.status /\ r.flaws = result.flaws
      /\ r.reason \in {result.reason, "discovery_incomplete"}
  BY <1>4, LoopFacts DEF Results, Loop!Incomplete
<1>6. turn.step < MaxModelCalls
  BY <1>1, Stepped DEF Done
<1> HIDE DEF u, r
<1>7. HasRoom(u)
  BY <1>3, <1>6 DEF HasRoom
<1>8. ChecksOnce(u)
  BY <1>1, <1>3 DEF LoopInvariant, ChecksOnce
<1>9. Reports(u, r)
  BY <1>1, <1>3, <1>5 DEF LoopInvariant, Reports, Done, Loop!Incomplete
<1> QED
  BY <1>1, <1>3, <1>5, <1>7, <1>8, <1>9, Leaves, LoopFacts

LEMMA ReviewDeniedKeeps ==
  ASSUME Loop!LoopConstants, LoopInvariant, Loop!ReviewDenied
  PROVE  LoopInvariant'
<1> DEFINE u == [Loop!Uses("checker") EXCEPT !.phase = "closing"]
           r == [result EXCEPT !.status = "provider_error", !.shown = "notice"]
<1>1. turn' = u /\ result' = r /\ outside' = outside /\ iterations' = iterations /\ failure' = "check"
  BY DEF Loop!ReviewDenied
<1>2. Loop!Uses("checker") \in Turns /\ Loop!Uses("checker").used = turn.used \cup {"checker"}
  BY Allowed DEF Loop!Allowances
<1>3. u \in Turns /\ u.phase = "closing" /\ "checker" \in u.used
  BY <1>2 DEF Turns, Loop!Phases
<1>4. r \in Results /\ r.status # "done"
  BY LoopFacts DEF Results, Loop!Statuses
<1> HIDE DEF u, r
<1>5. HasRoom(u) /\ ChecksOnce(u) /\ Reports(u, r)
  BY <1>3, <1>4 DEF HasRoom, ChecksOnce, Reports, Done
<1> QED
  BY <1>1, <1>3, <1>4, <1>5, LoopFacts, Leaves

\* What is delivered as done has no flaw, when the reason it is given counts the notes,
\* the verdict and the repair.
LEMMA DeliveredWhole ==
  ASSUME Loop!LoopConstants, LoopInvariant, NEW reason \in Loop!Incomplete \cup {""}, NEW verdict,
         Loop!Delivered(reason, verdict),
         turn.notes => reason \in Loop!Incomplete,
         verdict = "partial" => reason \in Loop!Incomplete,
         "repair" \in turn.used => reason \in Loop!Incomplete
  PROVE  result' \in Results /\ (result'.status = "done" => result'.flaws = {})
<1>1. PICK listed \in BOOLEAN :
        LET final == Loop!FinalReason(reason, listed) IN
        result' = [status |-> IF final \in Loop!Incomplete THEN "incomplete" ELSE "done",
                   reason |-> final, shown |-> "answer",
                   flaws |-> {f \in Loop!Flaws :
                       \/ f = "counts" /\ ~turn.draft.counted
                       \/ f = "measurements" /\ Loop!Unmeasured
                       \/ f = "lists" /\ ~listed
                       \/ f = "notes" /\ turn.notes
                       \/ f = "partial" /\ verdict = "partial"
                       \/ f = "repaired" /\ ~Loop!May("repair")}]
  BY DEF Loop!Delivered
<1>2. Loop!FinalReason(reason, listed) \in Loop!Incomplete \cup {""}
  BY DEF Loop!FinalReason, Loop!Incomplete
<1>3. result' \in Results
  BY <1>1, <1>2 DEF Results, Loop!Statuses
<1>4. ASSUME Loop!FinalReason(reason, listed) \notin Loop!Incomplete
      PROVE  reason \notin Loop!Incomplete /\ listed /\ turn.draft.counted /\ ~Loop!Unmeasured
  BY <1>4 DEF Loop!FinalReason, Loop!Incomplete
<1>5. ASSUME result'.status = "done" PROVE result'.flaws = {}
  <2>1. Loop!FinalReason(reason, listed) \notin Loop!Incomplete
    BY <1>1, <1>5
  <2>2. reason \notin Loop!Incomplete /\ listed /\ turn.draft.counted /\ ~Loop!Unmeasured
    BY <1>4, <2>1
  <2>3. ~turn.notes /\ verdict # "partial" /\ Loop!May("repair")
    BY <2>2 DEF Loop!May
  <2> QED
    BY <1>1, <2>2, <2>3
<1> QED
  BY <1>3, <1>5

\* So the delivery keeps the invariant, however the turn was closed.
LEMMA DeliveryKeeps ==
  ASSUME Loop!LoopConstants, LoopInvariant, NEW u \in Turns, turn' = u,
         u.phase = "closing", u.used = turn.used,
         result' \in Results, result'.status = "done" => result'.flaws = {},
         outside' = outside, iterations' = iterations, failure' = failure
  PROVE  LoopInvariant'
<1>1. PICK r : r = result'
  OBVIOUS
<1>2. HasRoom(u) /\ ChecksOnce(u) /\ Reports(u, r)
  BY <1>1 DEF LoopInvariant, HasRoom, ChecksOnce, Reports, Done
<1> QED
  BY <1>1, <1>2, LoopFacts, Leaves

LEMMA ReasonKept ==
  ASSUME Loop!LoopConstants, LoopInvariant, turn.phase \in {"draft", "reviewing"}
  PROVE  /\ result.reason \in Loop!Incomplete \cup {""}
         /\ Loop!ReasonOfDraft \in Loop!Incomplete \cup {""}
         /\ turn.notes => result.reason \in Loop!Incomplete /\ Loop!ReasonOfDraft \in Loop!Incomplete
<1>1. result.reason \in Loop!Incomplete \cup {""}
  BY LoopFacts DEF Results
<1>2. turn.notes => result.reason \in Loop!Incomplete
  BY DEF LoopInvariant, Reports, Done
<1> QED
  BY <1>1, <1>2 DEF Loop!ReasonOfDraft, Loop!Incomplete

LEMMA SkipReviewKeeps ==
  ASSUME Loop!LoopConstants, LoopInvariant, Loop!SkipReview
  PROVE  LoopInvariant'
<1> DEFINE u == [turn EXCEPT !.phase = "closing"]
           reason == IF Loop!May("repair") THEN Loop!ReasonOfDraft ELSE "answer_repair_unverified"
<1>1. /\ turn.phase = "draft" /\ turn' = u /\ Loop!Delivered(reason, "none") /\ outside' = outside
      /\ iterations' = iterations /\ failure' = failure
  BY DEF Loop!SkipReview, Loop!Ready, Loop!Quietly
<1>2. /\ reason \in Loop!Incomplete \cup {""}
      /\ turn.notes => reason \in Loop!Incomplete
      /\ "repair" \in turn.used => reason \in Loop!Incomplete
  BY <1>1, ReasonKept DEF Loop!May, Loop!Incomplete
<1>3. u \in Turns /\ u.phase = "closing" /\ u.used = turn.used
  BY LoopFacts DEF Turns, Loop!Phases
<1> HIDE DEF u, reason
<1>4. result' \in Results /\ (result'.status = "done" => result'.flaws = {})
  BY <1>1, <1>2, DeliveredWhole
<1> QED
  BY <1>1, <1>3, <1>4, DeliveryKeeps

LEMMA ReviewEndsKeeps ==
  ASSUME Loop!LoopConstants, LoopInvariant, Loop!ReviewEnds
  PROVE  LoopInvariant'
<1> DEFINE u == [turn EXCEPT !.phase = "closing", !.open = "none"]
<1>1. PICK v \in Loop!Verdicts :
        Loop!Delivered(IF Loop!Heard(v) = "partial" THEN "answer_partially_fulfilled" ELSE result.reason,
                  Loop!Heard(v))
  BY DEF Loop!ReviewEnds
<1> DEFINE reason == IF Loop!Heard(v) = "partial" THEN "answer_partially_fulfilled" ELSE result.reason
<1>2. /\ turn.phase = "reviewing" /\ turn' = u /\ Loop!Delivered(reason, Loop!Heard(v))
      /\ outside' = outside
      /\ iterations' = iterations /\ failure' = failure
  BY <1>1 DEF Loop!ReviewEnds, Loop!Quietly
<1>3. "repair" \notin turn.used
  BY <1>2 DEF LoopInvariant, ChecksOnce
<1>4. /\ reason \in Loop!Incomplete \cup {""}
      /\ turn.notes => reason \in Loop!Incomplete
      /\ Loop!Heard(v) = "partial" => reason \in Loop!Incomplete
  BY <1>2, ReasonKept DEF Loop!Incomplete
<1>5. u \in Turns /\ u.phase = "closing" /\ u.used = turn.used
  BY LoopFacts DEF Turns, Loop!Phases
<1> HIDE DEF u, reason
<1>6. result' \in Results /\ (result'.status = "done" => result'.flaws = {})
  BY <1>2, <1>3, <1>4, DeliveredWhole
<1> QED
  BY <1>2, <1>5, <1>6, DeliveryKeeps

LEMMA AnswerRepairedKeeps ==
  ASSUME Loop!LoopConstants, LoopInvariant, Loop!AnswerRepaired PROVE LoopInvariant'
<1> DEFINE t == [Loop!Uses("repair") EXCEPT !.open = "none", !.synthesis = TRUE]
<1>1. turn.phase = "reviewing" /\ Loop!Again(t) /\ iterations' = iterations
  BY DEF Loop!AnswerRepaired
<1>2. /\ Loop!Uses("repair") \in Turns /\ Loop!Uses("repair").used = turn.used \cup {"repair"}
      /\ Loop!Uses("repair").notes = turn.notes /\ Loop!Uses("repair").step = turn.step
  BY Allowed DEF Loop!Allowances
<1>3. t \in Turns /\ t.step = turn.step /\ t.notes = turn.notes /\ t.used = turn.used \cup {"repair"}
  BY <1>2 DEF Turns
<1>4. turn.step < MaxModelCalls
  BY <1>1, Stepped DEF Done
<1> HIDE DEF t
<1>5. "repair" \in t.used => "checker" \in t.used
  BY <1>1, <1>3 DEF LoopInvariant, ChecksOnce
<1> QED
  BY <1>1, <1>3, <1>4, <1>5, LoopFacts, Rounds DEF Done

LEMMA UnansweredKeeps ==
  ASSUME Loop!LoopConstants, LoopInvariant, Loop!RequestUnanswered PROVE LoopInvariant'
<1> DEFINE u == [turn EXCEPT !.phase = "closing", !.open = "none"]
           r == [result EXCEPT !.status = "incomplete", !.shown = "evidence"]
<1>1. turn' = u /\ result' = r /\ outside' = outside /\ iterations' = iterations /\ failure' = failure
  BY DEF Loop!RequestUnanswered, Loop!Quietly
<1>2. u \in Turns /\ u.phase = "closing" /\ u.used = turn.used
  BY LoopFacts DEF Turns, Loop!Phases
<1>3. r \in Results /\ r.status # "done"
  BY LoopFacts DEF Results, Loop!Statuses
<1> HIDE DEF u, r
<1> QED
  BY <1>1, <1>2, <1>3, DeliveryKeeps

LEMMA ReturnKeeps == ASSUME Loop!LoopConstants, LoopInvariant, Loop!Return PROVE LoopInvariant'
<1> DEFINE u == [turn EXCEPT !.phase = "ended"]
           s == [result EXCEPT !.status = "incomplete", !.shown = "draft",
                               !.reason = "research_incomplete"]
<1>1. /\ turn' = u /\ result' \in {result, s} /\ outside' = outside
      /\ iterations' = iterations /\ failure' = failure
  BY DEF Loop!Return, Loop!Quietly
<1>2. u \in Turns /\ u.phase = "ended" /\ u.used = turn.used
  BY LoopFacts DEF Turns, Loop!Phases
<1>3. s \in Results /\ s.status # "done"
  BY LoopFacts DEF Results, Loop!Statuses, Loop!Incomplete
<1> HIDE DEF u, s
<1>4. PICK r : r = result' /\ r \in {result, s}
  BY <1>1
<1>5. HasRoom(u) /\ ChecksOnce(u) /\ Reports(u, r)
  BY <1>2, <1>3, <1>4 DEF LoopInvariant, HasRoom, ChecksOnce, Reports, Done
<1> QED
  BY <1>1, <1>2, <1>3, <1>4, <1>5, LoopFacts, Leaves

LEMMA OthersKeep ==
  ASSUME Loop!LoopConstants, LoopInvariant, Loop!Stop \/ Loop!DeckChanges \/ Loop!Tick PROVE LoopInvariant'
<1>1. UNCHANGED <<turn, result, iterations, failure>>
  BY DEF Loop!Stop, Loop!DeckChanges, Loop!Tick, Loop!Others
<1>2. outside \in Worlds
  BY DEF LoopInvariant, Typed
<1>3. outside' \in Worlds
  BY <1>2 DEF Loop!Stop, Loop!DeckChanges, Loop!Tick, Worlds
<1> QED
  BY <1>1, <1>3 DEF LoopInvariant, Typed, HasRoom, Reports, ChecksOnce

-----------------------------------------------------------------------------
(* The invariant                                                            *)

LEMMA LoopStarts == ASSUME Loop!LoopConstants, Loop!Init PROVE LoopInvariant
<1>1. turn \in Turns
  <2>1. /\ 0 \in 0..MaxModelCalls /\ 0 \in 0..MaxToolCalls /\ 0 \in 0..MaxBatch
        /\ Loop!NoDraft \in [empty : BOOLEAN, counted : BOOLEAN, listed : BOOLEAN]
    BY DEF Loop!LoopConstants, Loop!NoDraft
  <2>2. "start" \in Loop!Phases /\ "none" \in Loop!Calls /\ "none" \in Loop!Tasks /\ {} \in SUBSET Loop!Allowances
    BY DEF Loop!Phases, Loop!Calls, Loop!Tasks
  <2> QED
    BY <2>1, <2>2 DEF Loop!Init, Turns
<1>2. result \in Results /\ outside \in Worlds
  BY DEF Loop!Init, Results, Loop!Statuses, Loop!Incomplete, Worlds, Loop!LoopConstants
<1>3. turn.phase = "start" /\ turn.step = 0 /\ turn.tools = 0 /\ turn.used = {} /\ ~turn.notes
  BY DEF Loop!Init
<1>4. HasRoom(turn) /\ ChecksOnce(turn)
  BY <1>3 DEF HasRoom, ChecksOnce, Loop!LoopConstants
<1>5. Reports(turn, result)
  BY <1>3 DEF Loop!Init, Reports
<1> QED
  BY <1>1, <1>2, <1>4, <1>5 DEF LoopInvariant, Typed, Loop!Init

LEMMA LoopInductive ==
  ASSUME Loop!LoopConstants, LoopInvariant, [Loop!Next]_Loop!vars PROVE LoopInvariant'
<1>1. CASE UNCHANGED Loop!vars
  BY <1>1 DEF Loop!vars, LoopInvariant, Typed, HasRoom, Reports, ChecksOnce
<1>2. CASE Loop!Stop \/ Loop!DeckChanges \/ Loop!Tick
  BY <1>2, OthersKeep
<1>3. CASE Loop!Starting \/ Loop!Calling \/ Loop!Failing
  BY <1>3, BeginKeeps, EndingsKeep, ReadCardKeeps, ReadDeniedKeeps, CardKeeps, FactKeeps,
     CallKeeps, RecoverKeeps, RepairKeeps
     DEF Loop!Starting, Loop!Calling, Loop!Failing
<1>4. CASE Loop!Answering
  BY <1>4, SelectionRefusedKeeps, SelectionKeeps, EndingsKeep, PlanKeeps, InferenceKeeps,
     WorkKeeps, AnswerKeeps, PackagedKeeps
     DEF Loop!Answering
<1>5. CASE Loop!UsingTools
  BY <1>5, SkipToolKeeps, CallToolKeeps, ToolDeniedKeeps, ToolEndsKeeps, BatchDoneKeeps
     DEF Loop!UsingTools
<1>6. CASE Loop!Finishing
  BY <1>6, DraftGoesOn, StartReviewKeeps, ReviewDeniedKeeps, SkipReviewKeeps,
     AnswerRepairedKeeps, UnansweredKeeps, ReviewEndsKeeps, EndingsKeep, ReturnKeeps
     DEF Loop!Finishing
<1>7. CASE Loop!Refused
  BY <1>7, EndingsKeep
<1> QED
  BY <1>1, <1>2, <1>3, <1>4, <1>5, <1>6, <1>7 DEF Loop!Next, Loop!Running

\* The types of a turn's state: it never makes more than MaxModelCalls calls to the model
\* nor runs more than MaxToolCalls tools, through its repairs and its second rounds
\* (run_turn in assistant_runtime.py).
THEOREM TurnTypes == ASSUME Loop!LoopConstants PROVE Loop!Spec => []Loop!TypeOK
<1>1. LoopInvariant => Loop!TypeOK
  BY LoopTypes DEF LoopInvariant
<1> QED
  BY <1>1, LoopStarts, LoopInductive, PTL DEF Loop!Spec

\* A turn is done only with an answer that nothing found short: the reason that run_turn
\* takes its status from is never lost between the step that gives it and the delivery.
THEOREM OnlyWholeIsDone == ASSUME Loop!LoopConstants PROVE Loop!Spec => []DoneIsWhole
<1>1. LoopInvariant => DoneIsWhole
  BY DEF LoopInvariant, DoneIsWhole, Reports, Loop!DoneIsWhole
<1> QED
  BY <1>1, LoopStarts, LoopInductive, PTL DEF Loop!Spec

-----------------------------------------------------------------------------
(* Where work begins                                                        *)

AtWork == {"reading", "calling", "packaging", "executing", "reviewing", "inferring"}

\* Going round and ending are not work.
LEMMA RoundIdle == ASSUME NEW t \in Turns, Loop!Again(t) PROVE turn'.phase \notin AtWork
BY DEF Loop!Again, Turns, AtWork

LEMMA EndIdle ==
  ASSUME Loop!LoopConstants, LoopInvariant, NEW status, NEW shown, Loop!Ends(status, shown)
  PROVE  turn'.phase \notin AtWork
BY LoopFacts DEF Loop!Ends, Turns, AtWork

\* A step that does not look at the deck, the stop and the clock begins no work.
LEMMA WorkBegins ==
  ASSUME Loop!LoopConstants, LoopInvariant, [Loop!Next]_Loop!vars
  PROVE  turn'.phase \in AtWork /\ turn'.phase # turn.phase => Loop!Current
<1>1. CASE \/ Loop!Begin \/ Loop!Unconfigured \/ Loop!ReadCard \/ Loop!ReadDenied \/ Loop!CallModel \/ Loop!NoCandidates
           \/ Loop!RecoverOutput \/ Loop!RepairSchema \/ Loop!CallRejected \/ Loop!RepairLost
           \/ Loop!SelectionTaken
           \/ Loop!PlanUngrounded \/ Loop!PlanAccepted \/ Loop!DeckQuestion \/ Loop!DeckInferred
           \/ Loop!Work \/ Loop!Answer
           \/ Loop!SkipTool \/ Loop!CallTool \/ Loop!ToolDenied \/ Loop!StartReview
  BY <1>1
     DEF Loop!Begin, Loop!Unconfigured, Loop!ReadCard, Loop!ReadDenied, Loop!CallModel,
        Loop!NoCandidates,
     Loop!RecoverOutput, Loop!RepairSchema, Loop!CallRejected, Loop!RepairLost,
     Loop!SelectionTaken, Loop!PlanUngrounded,
     Loop!PlanAccepted, Loop!DeckQuestion, Loop!DeckInferred, Loop!Work, Loop!Answer,
     Loop!SkipTool, Loop!CallTool, Loop!ToolDenied,
     Loop!StartReview
<1>2. CASE Loop!CardUnresolved \/ Loop!CardRead \/ Loop!FactRendered
  BY <1>2, LoopFacts DEF Loop!CardUnresolved, Loop!CardRead, Loop!FactRendered, Turns, AtWork
<1>3. CASE Loop!BudgetExhausted \/ Loop!CallLost \/ Loop!CallDenied \/ Loop!ReviewOvertaken \/ Loop!Refused
  BY <1>3, EndIdle
     DEF Loop!BudgetExhausted, Loop!CallLost, Loop!CallDenied, Loop!ReviewOvertaken,
        Loop!Refused
<1>4. CASE Loop!SelectionRefused
  <2>1. [Loop!Uses("selection") EXCEPT !.synthesis = TRUE] \in Turns
    <3>1. Loop!Uses("selection") \in Turns
      BY Allowed DEF Loop!Allowances
    <3> QED
      BY <3>1 DEF Turns
  <2> QED
    BY <1>4, <2>1, RoundIdle, EndIdle DEF Loop!SelectionRefused
<1>5. CASE Loop!DraftEmpty \/ Loop!DraftKept \/ Loop!DraftRelisted \/ Loop!AnswerRepaired
  <2>1. /\ [turn EXCEPT !.synthesis = TRUE] \in Turns
        /\ [Loop!Uses("continuation") EXCEPT !.kept = TRUE] \in Turns
        /\ [Loop!Uses("discovery") EXCEPT !.synthesis = TRUE] \in Turns
        /\ [Loop!Uses("repair") EXCEPT !.open = "none", !.synthesis = TRUE] \in Turns
    <3>1. turn \in Turns /\ Loop!Uses("continuation") \in Turns /\ Loop!Uses("discovery") \in Turns
          /\ Loop!Uses("repair") \in Turns
      BY Allowed, LoopFacts DEF Loop!Allowances
    <3> QED
      BY <3>1 DEF Turns
  <2> QED
    BY <1>5, <2>1, RoundIdle, EndIdle
       DEF Loop!DraftEmpty, Loop!DraftKept, Loop!DraftRelisted, Loop!AnswerRepaired
<1>6. CASE Loop!PackageEnds
  BY <1>6, LoopFacts DEF Loop!PackageEnds, Turns, AtWork
<1>7. CASE Loop!ToolEnds
  BY <1>7, LoopFacts DEF Loop!ToolEnds, Turns, AtWork
<1>8. CASE Loop!BatchDone
  BY <1>8, LoopFacts, RoundIdle DEF Loop!BatchDone
<1>9. CASE Loop!ReviewDenied
  <2>1. Loop!Uses("checker") \in Turns
    BY Allowed DEF Loop!Allowances
  <2> QED
    BY <1>9, <2>1 DEF Loop!ReviewDenied, Turns, AtWork
<1>10. CASE Loop!SkipReview \/ Loop!RequestUnanswered \/ Loop!ReviewEnds \/ Loop!Return
  BY <1>10, LoopFacts
     DEF Loop!SkipReview, Loop!RequestUnanswered, Loop!ReviewEnds, Loop!Return, Turns, AtWork
<1>11. CASE Loop!Stop \/ Loop!DeckChanges \/ Loop!Tick \/ UNCHANGED Loop!vars
  BY <1>11 DEF Loop!Stop, Loop!DeckChanges, Loop!Tick, Loop!Others, Loop!vars
<1> QED
  BY <1>1, <1>2, <1>3, <1>4, <1>5, <1>6, <1>7, <1>8, <1>9, <1>10, <1>11
     DEF Loop!Next, Loop!Running, Loop!Starting, Loop!Calling, Loop!Failing, Loop!Answering,
        Loop!UsingTools, Loop!Finishing

\* Every call to the model, tool, package, inference and check begins in a turn that nobody
\* stopped, within its time and on the deck it is about: tools.check before each of them
\* in run_turn, whatever happened since the last one.
THEOREM BeginsCurrent == ASSUME Loop!LoopConstants PROVE Loop!Spec => WorkIsCurrent
<1>1. ASSUME LoopInvariant, [Loop!Next]_Loop!vars
      PROVE  [(turn'.phase \in {"reading", "calling", "packaging", "executing", "reviewing",
                                "inferring"}
               /\ turn'.phase # turn.phase) => Loop!Current]_Loop!vars
  BY <1>1, WorkBegins DEF AtWork
<1> QED
  BY <1>1, LoopStarts, LoopInductive, PTL DEF Loop!Spec, WorkIsCurrent, Loop!WorkIsCurrent
=============================================================================
