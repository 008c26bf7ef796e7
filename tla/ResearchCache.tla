---------------------------- MODULE ResearchCache ----------------------------
(***************************************************************************)
(* The snapshot of the default Research page (research_cache.py): computed *)
(* from the card corpus by a background worker or by a request that waits  *)
(* for it, published to a file and to memory, and invalidated by triggers  *)
(* on the corpus tables and by the change of the date.                     *)
(*                                                                         *)
(* The corpus is the number of its committed write transactions.  A query  *)
(* reads it between two moments and would mix what it read at each.        *)
(***************************************************************************)
EXTENDS Integers, FiniteSets

CONSTANTS
    Workers,        \* threads that run _worker
    Blockers,       \* request threads that run compute_blocking
    None,           \* no snapshot
    StaleLimit,     \* STALE_SERVE_SECONDS, in ticks
    DayLength,      \* ticks in a day
    MaxFailures,    \* failed refreshes before the worker backs off (5)
    MaxMisses,      \* refreshes overtaken by a change before it gives up (8)
    MaxWrites,      \* bound: writes to the corpus
    MaxTime,        \* bound: ticks
    MaxRestarts     \* bound: restarts of the server

ASSUME CacheConstants ==
    /\ Workers \cap Blockers = {}
    /\ {StaleLimit, MaxWrites, MaxTime, MaxRestarts} \subseteq Nat
    /\ {DayLength, MaxFailures, MaxMisses} \subseteq Nat \ {0}

VARIABLES
    now,            \* the clock; 0 is before the first tick
    corpus,         \* corpus writes committed
    writtenAt,      \* history: when each was
    row,            \* research_corpus_revision
    disk,           \* the snapshot file
    memory,         \* _memory
    refreshing, pending, backoff, failures,   \* of the cache object
    task,           \* thread -> what it is doing
    restarts

world == <<now, corpus, writtenAt>>
lock == <<refreshing, pending, backoff, failures>>
vars == <<world, row, disk, memory, lock, task, restarts>>

Threads == Workers \cup Blockers
Today == now \div DayLength

Keys == [revision : Nat, day : Nat]
Snapshots == [key : Keys, low : Nat, high : Nat, built : Nat]
Phases == {"idle", "asking", "waiting", "taking", "lingering", "ready", "keyed", "loading",
           "loaded", "publishing", "replaced", "remembered", "deciding", "leaving"}

NoTask == [phase |-> "idle", key |-> [revision |-> 0, day |-> 0], low |-> 0, high |-> 0,
           built |-> 0, ready |-> FALSE, misses |-> 0]

TypeOK ==
    /\ now \in 1..MaxTime + 1 /\ corpus \in 0..MaxWrites
    /\ writtenAt \in [1..MaxWrites -> Nat]
    /\ row \in [revision : Nat, dirty : BOOLEAN, changed : Nat, invalidated : Nat]
    /\ disk \in Snapshots \cup {None} /\ memory \in Snapshots \cup {None}
    /\ refreshing \in BOOLEAN /\ pending \in BOOLEAN /\ backoff \in BOOLEAN
    /\ failures \in 0..MaxFailures
    /\ task \in [Threads -> [phase : Phases, key : Keys, low : Nat, high : Nat, built : Nat,
                             ready : BOOLEAN, misses : 0..MaxMisses]]
    /\ restarts \in 0..MaxRestarts

Init ==
    /\ now = 1 /\ corpus = 0 /\ writtenAt = [v \in 1..MaxWrites |-> 0]
    /\ row = [revision |-> 0, dirty |-> FALSE, changed |-> 1, invalidated |-> 0]
    /\ disk = None /\ memory = None
    /\ refreshing = FALSE /\ pending = FALSE /\ backoff = FALSE /\ failures = 0
    /\ task = [t \in Threads |-> NoTask]
    /\ restarts = 0

-----------------------------------------------------------------------------
(* The corpus                                                               *)

\* The triggers: the first write of an epoch marks the row.
SlipMarked == [row EXCEPT !.dirty = TRUE, !.changed = now, !.invalidated = now]
Marked ==
    IF row.dirty THEN row
    ELSE [row EXCEPT !.dirty = TRUE, !.changed = now,
                     !.invalidated = IF @ = 0 THEN now ELSE @]

Write ==
    /\ corpus < MaxWrites
    /\ corpus' = corpus + 1 /\ writtenAt' = [writtenAt EXCEPT ![corpus + 1] = now]
    /\ row' = Marked
    /\ UNCHANGED <<now, disk, memory, lock, task, restarts>>

Tick ==
    /\ now <= MaxTime /\ now' = now + 1
    /\ UNCHANGED <<corpus, writtenAt, row, disk, memory, lock, task, restarts>>

\* corpus_state: a dirty epoch becomes one revision.
Compacted ==
    IF row.dirty THEN [row EXCEPT !.revision = @ + 1, !.dirty = FALSE] ELSE row
CurrentKey == [revision |-> Compacted.revision, day |-> Today]

\* peek_corpus_state: the same without writing.
ChangedAt ==
    IF row.invalidated # 0 /\ row.invalidated < row.changed THEN row.invalidated ELSE row.changed

-----------------------------------------------------------------------------
(* Serving                                                                  *)

Held == IF memory = None THEN disk ELSE memory

Fresh(doc) == doc.key = CurrentKey

\* When a snapshot became stale, as far as the row and the calendar tell.
BecameStale(doc) ==
    LET rollover == (doc.key.day + 1) * DayLength
    IN  IF doc.key.revision = CurrentKey.revision THEN rollover
        ELSE IF doc.key.day # Today /\ rollover < ChangedAt THEN rollover ELSE ChangedAt

Usable(doc) == Fresh(doc) \/ now - BecameStale(doc) <= StaleLimit

IsFresh == Held # None /\ Fresh(Held)
IsUsable == Held # None /\ Usable(Held)

-----------------------------------------------------------------------------
(* Asking for a refresh                                                     *)

Phase(t, phase) == task[t].phase = phase
Goes(t, phase) == task' = [task EXCEPT ![t].phase = phase]

\* request_refresh: nobody while backing off, one pending mark while a refresh
\* runs, else a new worker.
Declined == backoff /\ UNCHANGED lock
Joined == ~backoff /\ refreshing /\ pending' = TRUE /\ UNCHANGED <<refreshing, backoff, failures>>
Claimed == ~backoff /\ ~refreshing /\ refreshing' = TRUE /\ UNCHANGED <<pending, backoff, failures>>

\* A page that is not fresh, and the monitor every 30 seconds.
Poll ==
    /\ ~IsFresh
    /\ memory' = Held
    /\ \/ Joined /\ UNCHANGED task
       \/ \E w \in Workers : Claimed /\ Phase(w, "idle") /\ Goes(w, "ready")
    /\ UNCHANGED <<world, row, disk, restarts>>

\* compute_blocking: nothing usable, so ask, wait (or time out), look again.
Block(b) ==
    /\ Phase(b, "idle") /\ ~IsUsable
    /\ memory' = Held /\ Goes(b, "asking")
    /\ UNCHANGED <<world, row, disk, lock, restarts>>
Ask(b) ==
    /\ Phase(b, "asking")
    /\ \/ (Declined \/ Joined) /\ Goes(b, "waiting")
       \/ \E w \in Workers :
            /\ Claimed /\ Phase(w, "idle")
            /\ task' = [task EXCEPT ![b].phase = "waiting", ![w].phase = "ready"]
    /\ UNCHANGED <<world, row, disk, memory, restarts>>
Wake(b) ==
    /\ Phase(b, "waiting")
    /\ memory' = Held /\ Goes(b, IF IsUsable THEN "idle" ELSE "taking")
    /\ UNCHANGED <<world, row, disk, lock, restarts>>

\* It computes inline unless a refresh runs; then it waits once more.
SlipTake(b) ==
    /\ Phase(b, "taking")
    /\ refreshing' = TRUE /\ Goes(b, "ready")
    /\ UNCHANGED <<world, row, disk, memory, pending, backoff, failures, restarts>>
Take(b) ==
    /\ Phase(b, "taking")
    /\ refreshing' = TRUE /\ Goes(b, IF refreshing THEN "lingering" ELSE "ready")
    /\ UNCHANGED <<world, row, disk, memory, pending, backoff, failures, restarts>>
GiveUp(b) ==
    /\ Phase(b, "lingering")
    /\ memory' = Held /\ Goes(b, "idle")
    /\ UNCHANGED <<world, row, disk, lock, restarts>>

-----------------------------------------------------------------------------
(* One refresh: _refresh_once, _publish                                     *)

\* It returned: a worker clears its failures and decides, a request leaves.
Returns(t, ready) ==
    IF t \in Workers
    THEN /\ task' = [task EXCEPT ![t].phase = "deciding", ![t].ready = ready]
         /\ failures' = 0 /\ UNCHANGED <<refreshing, pending, backoff>>
    ELSE Goes(t, "leaving") /\ UNCHANGED lock

\* It raised: a worker sleeps and retries, up to MaxFailures.
Raises(t) ==
    IF t \in Workers
    THEN /\ failures' = IF failures < MaxFailures THEN failures + 1 ELSE failures
         /\ backoff' = (backoff \/ failures + 1 >= MaxFailures)
         /\ Goes(t, IF failures + 1 >= MaxFailures THEN "leaving" ELSE "ready")
         /\ UNCHANGED <<refreshing, pending>>
    ELSE Goes(t, "leaving") /\ UNCHANGED lock

FindFresh(t) ==
    /\ Phase(t, "ready") /\ IsFresh /\ memory' = Held
    /\ Returns(t, TRUE)
    /\ UNCHANGED <<world, row, disk, restarts>>
TakeKey(t) ==
    /\ Phase(t, "ready") /\ ~IsFresh /\ memory' = Held
    /\ row' = Compacted
    /\ task' = [task EXCEPT ![t].phase = "keyed", ![t].key = CurrentKey]
    /\ UNCHANGED <<world, disk, lock, restarts>>

\* The query fixes its dates, then reads the tables one statement at a time.
BeginLoad(t) ==
    /\ Phase(t, "keyed")
    /\ task' = [task EXCEPT ![t].phase = "loading", ![t].built = Today, ![t].low = corpus]
    /\ UNCHANGED <<world, row, disk, memory, lock, restarts>>
EndLoad(t) ==
    /\ Phase(t, "loading")
    /\ task' = [task EXCEPT ![t].phase = "loaded", ![t].high = corpus]
    /\ UNCHANGED <<world, row, disk, memory, lock, restarts>>
LoadFails(t) ==
    /\ Phase(t, "loading") /\ Raises(t)
    /\ UNCHANGED <<world, row, disk, memory, restarts>>

\* A change of the corpus or the date since the key was taken discards the result.
SlipSameKey(t) == task[t].key.day = CurrentKey.day
SameKey(t) == task[t].key = CurrentKey
Recheck(t) ==
    /\ Phase(t, "loaded") /\ row' = Compacted
    /\ \/ SameKey(t) /\ task' = [task EXCEPT ![t].phase = "publishing", ![t].key = CurrentKey]
                     /\ UNCHANGED lock
       \/ ~SameKey(t) /\ Returns(t, FALSE)
    /\ UNCHANGED <<world, disk, memory, restarts>>

Snapshot(t) == [key |-> task[t].key, low |-> task[t].low, high |-> task[t].high,
                built |-> task[t].built]

\* The new file replaces the old one whole; then memory; then the row forgets
\* the first invalidation, unless a write came in between.
Replace(t) ==
    /\ Phase(t, "publishing") /\ disk' = Snapshot(t) /\ Goes(t, "replaced")
    /\ UNCHANGED <<world, row, memory, lock, restarts>>
Remember(t) ==
    /\ Phase(t, "replaced") /\ memory' = Snapshot(t) /\ Goes(t, "remembered")
    /\ UNCHANGED <<world, row, disk, lock, restarts>>
Forget(t) ==
    /\ Phase(t, "remembered") /\ Returns(t, TRUE)
    /\ row' = IF row.revision = task[t].key.revision /\ ~row.dirty
              THEN [row EXCEPT !.invalidated = 0] ELSE row
    /\ UNCHANGED <<world, disk, memory, restarts>>
PublishFails(t) ==
    /\ Phase(t, "publishing") \/ Phase(t, "remembered")
    /\ Raises(t)
    /\ UNCHANGED <<world, row, disk, memory, restarts>>

\* After each refresh the worker looks for requests made meanwhile.
Decide(w) ==
    /\ Phase(w, "deciding") /\ pending' = FALSE
    /\ task' = [task EXCEPT ![w].phase =
                    IF pending \/ (~task[w].ready /\ task[w].misses + 1 < MaxMisses)
                    THEN "ready" ELSE "leaving",
                ![w].misses = IF pending THEN 0
                              ELSE IF task[w].ready THEN @ ELSE @ + 1]
    /\ UNCHANGED <<world, row, disk, memory, refreshing, backoff, failures, restarts>>

\* The finally blocks: the worker also drops a request made since it decided.
SlipLeave(t) ==
    /\ Phase(t, "leaving") /\ task' = [task EXCEPT ![t] = NoTask]
    /\ refreshing' = (refreshing /\ backoff)
    /\ pending' = (pending /\ t \in Blockers)
    /\ UNCHANGED <<world, row, disk, memory, backoff, failures, restarts>>
Leave(t) ==
    /\ Phase(t, "leaving") /\ task' = [task EXCEPT ![t] = NoTask]
    /\ refreshing' = FALSE
    /\ pending' = (pending /\ t \in Blockers)
    /\ UNCHANGED <<world, row, disk, memory, backoff, failures, restarts>>

BackoffEnds ==
    /\ backoff /\ backoff' = FALSE
    /\ UNCHANGED <<world, row, disk, memory, refreshing, pending, failures, task, restarts>>

\* The server stops at any point and comes back with the file.
Restart ==
    /\ restarts < MaxRestarts /\ restarts' = restarts + 1
    /\ memory' = disk
    /\ refreshing' = FALSE /\ pending' = FALSE /\ backoff' = FALSE /\ failures' = 0
    /\ task' = [t \in Threads |-> NoTask]
    /\ UNCHANGED <<world, row, disk>>

-----------------------------------------------------------------------------
Step(t) ==
    \/ FindFresh(t) \/ TakeKey(t) \/ BeginLoad(t) \/ EndLoad(t) \/ LoadFails(t)
    \/ Recheck(t) \/ Replace(t) \/ Remember(t) \/ Forget(t) \/ PublishFails(t)
    \/ Leave(t)
Blocking(b) == Block(b) \/ Ask(b) \/ Wake(b) \/ Take(b) \/ GiveUp(b)

Next ==
    \/ Write \/ Tick \/ Poll \/ BackoffEnds \/ Restart
    \/ \E t \in Threads : Step(t)
    \/ \E w \in Workers : Decide(w)
    \/ \E b \in Blockers : Blocking(b)

Spec == Init /\ [][Next]_vars

-----------------------------------------------------------------------------
(* Safety                                                                   *)

\* A snapshot shown as fresh holds exactly the corpus as it is now, and today's
\* window, whatever was written while it was computed or the server was down.
FreshIsTruthful ==
    \A doc \in {memory, disk} \ {None} :
        Fresh(doc) => doc.low = corpus /\ doc.high = corpus /\ doc.built = Today

\* A stale snapshot is shown for at most StaleLimit after the first write or
\* midnight it lacks; later writes do not extend the allowance.
StaleIsBounded ==
    \A doc \in {memory, disk} \ {None} :
        Usable(doc) =>
            /\ doc.high < corpus => now - writtenAt[doc.high + 1] <= StaleLimit
            /\ doc.built < Today => now - (doc.built + 1) * DayLength <= StaleLimit

\* One refresh at a time, and the flag never outlives it.
Refreshes(t) ==
    task[t].phase \notin {"idle", "asking", "waiting", "taking", "lingering"}
OneRefresh ==
    /\ Cardinality({t \in Threads : Refreshes(t)}) <= 1
    /\ refreshing <=> \E t \in Threads : Refreshes(t)

\* The published snapshot is never replaced by an older one.
SnapshotAdvances ==
    [][disk # None /\ disk' # disk =>
          /\ disk'.key.revision >= disk.key.revision /\ disk'.key.day >= disk.key.day
          /\ disk'.high >= disk.high]_vars

-----------------------------------------------------------------------------
(* Liveness                                                                 *)

\* The monitor polls, threads run, a back-off ends, and a query or a write that
\* is tried again and again succeeds.
Fairness ==
    /\ WF_vars(Poll) /\ WF_vars(BackoffEnds)
    /\ \A t \in Threads : WF_vars(Step(t))
    /\ \A w \in Workers :
         WF_vars(Decide(w)) /\ SF_vars(EndLoad(w)) /\ SF_vars(Replace(w)) /\ SF_vars(Forget(w))
    /\ \A b \in Blockers : WF_vars(Ask(b) \/ Wake(b) \/ Take(b) \/ GiveUp(b))

FairSpec == Spec /\ Fairness
=============================================================================
