---------------------------- MODULE Experiments ----------------------------
(***************************************************************************)
(* One experiment of the research assistant (assistant_experiments.py): a  *)
(* baseline deck and up to three frozen alternatives, measured one after   *)
(* the other by the worker that created the row, watched by pages that may *)
(* expire it, and adopted by a request that changes the source deck.       *)
(*                                                                         *)
(* The worker keeps its own copy of the payload for the whole run and      *)
(* writes all of it at every save; every reader may write the row too      *)
(* (expiry), and an adoption writes back the payload it read.  Nothing but *)
(* the WHERE clauses of the UPDATEs orders these writers, and each of them *)
(* may die between two of its transactions.                                *)
(*                                                                         *)
(* Abstracted: a report is one unit of a subject's count (training, then   *)
(* validation); cards, prices and legality of an alternative are fixed, so *)
(* that a deck is the baseline, an edit or the alternative it became.  The *)
(* session's stop request is one flag that a page, or an adoption, sets.   *)
(***************************************************************************)
EXTENDS Naturals, FiniteSets

CONSTANTS
  Alternatives,   \* how many alternatives the experiment holds, 1 to 3
  Requests,       \* page requests that view the experiment or adopt from it
  MaxRevision,    \* bound: revisions of the deck a behaviour reaches
  None

Alt == 1 .. Alternatives
Subjects == 0 .. Alternatives      \* 0 is the baseline
Base == 0                          \* cards: the baseline's,
Other == Alternatives + 1          \* someone's edit, or an alternative's
Contents == {Base, Other} \cup Alt
Open == {"queued", "running"}
Ended == {"done", "failed", "stopped"}

Payloads ==
  [status : Open \cup Ended, revision : 0 .. MaxRevision,
   reports : [Subjects -> 0 .. 2],
   alt : [Alt -> Open \cup {"done", "failed"}], adopted : Alt \cup {None}]

(* The document, and the row of the experiment.                            *)
Versions == [revision : 0 .. MaxRevision, cards : Contents]
Rows == [state : Open \cup Ended, payload : Payloads]

\* What the constants are assumed to be.
ExperimentsAssumption ==
  /\ Alternatives \in 1 .. 3
  /\ MaxRevision \in Nat
  /\ None \notin Alt \cup Versions \cup Rows \cup Payloads

VARIABLES
  deck,      \* the source document: [revision, cards], or None once deleted
  receipts,  \* alternatives whose adoption the deck's mutation receipts hold
  row,       \* assistant_experiments: [state, payload], or None
  old,       \* EXPERIMENT_EXPIRY_SECONDS have passed since created_at
  stop,      \* should_stop() of the worker's session
  worker,    \* the job that creates and executes the experiment
  request,   \* page requests under way
  late       \* trials started though the run had been ended or stopped

vars == <<deck, receipts, row, old, stop, worker, request, late>>

(* What `create` freezes from the document it read. *)
Frozen(revision) ==
  [status |-> "queued", revision |-> revision,
   reports |-> [s \in Subjects |-> 0],
   alt |-> [a \in Alt |-> "queued"], adopted |-> None]

---------------------------------------------------------------------------

(* ExperimentService._save: the whole payload and its status, on an open   *)
(* row, or from done to done.                                              *)
Saved(r, p) ==
  IF r # None /\ (r.state \in Open \/ (r.state = "done" /\ p.status = "done"))
  THEN [state |-> p.status, payload |-> p] ELSE r

(* ExperimentService._expire: the payload an overdue read would store ...  *)
Expired(p) ==
  [p EXCEPT !.status = "failed",
            !.alt = [a \in Alt |-> IF p.alt[a] \in Open THEN "failed" ELSE p.alt[a]]]

SlipOverdue(p) == old /\ p.status = "running"
Overdue(p) == old /\ p.status \in Open

(* ... and whether its UPDATE matches the row.                             *)
Expires(r, raw) == r # None /\ r.payload = raw /\ r.state \in Open

---------------------------------------------------------------------------
Init ==
  /\ deck = [revision |-> 0, cards |-> Base]
  /\ receipts = {}
  /\ row = None
  /\ old = FALSE
  /\ stop = FALSE
  /\ worker = [at |-> "create", check |-> FALSE, who |-> 0, mem |-> None]
  /\ request = [q \in Requests |-> [at |-> "idle", want |-> None,
                                    revision |-> 0, mem |-> None]]
  /\ late = 0

WorkerUnchanged == UNCHANGED <<deck, receipts, old, stop, request>>

(* The worker goes on to `at`; with check, past the test of stopped().     *)
Goes(at, check, mem) ==
  worker' = [worker EXCEPT !.at = at, !.check = check, !.mem = mem]
GoesFor(at, who, mem) ==
  worker' = [worker EXCEPT !.at = at, !.check = TRUE, !.who = who, !.mem = mem]

(* create: the document is read and frozen, read again, then inserted.     *)
Freeze ==
  /\ worker.at = "create" /\ ~stop /\ deck # None
  /\ Goes("recheck", FALSE, Frozen(deck.revision))
  /\ WorkerUnchanged /\ UNCHANGED <<row, late>>

Recheck ==
  /\ worker.at = "recheck"
  /\ IF deck # None /\ deck.revision = worker.mem.revision
     THEN Goes("insert", FALSE, worker.mem)
     ELSE Goes("gone", FALSE, None)
  /\ WorkerUnchanged /\ UNCHANGED <<row, late>>

Insert ==
  /\ worker.at = "insert"
  /\ IF deck # None
     THEN row' = [state |-> "queued", payload |-> worker.mem] /\ Goes("get", FALSE, None)
     ELSE row' = row /\ Goes("gone", FALSE, None)      \* the foreign key fails
  /\ WorkerUnchanged /\ UNCHANGED late

(* execute: get, which may expire the row, then the early stop.            *)
Get ==
  /\ worker.at = "get"
  /\ IF row = None THEN Goes("gone", FALSE, None)
     ELSE IF Overdue(row.payload) THEN Goes("expire", FALSE, row.payload)
     ELSE IF row.payload.status = "queued" THEN Goes("early", FALSE, row.payload)
     ELSE Goes("gone", FALSE, None)
  /\ WorkerUnchanged /\ UNCHANGED <<row, late>>

GetExpires ==
  /\ worker.at = "expire"
  /\ IF Expires(row, worker.mem)
     THEN row' = [state |-> "failed", payload |-> Expired(worker.mem)]
     ELSE row' = row
  /\ IF Expires(row, worker.mem) THEN Goes("gone", FALSE, None)
     ELSE Goes("get", FALSE, None)
  /\ WorkerUnchanged /\ UNCHANGED late

StopEarly ==
  /\ worker.at = "early"
  /\ IF stop THEN Goes("acknowledge", FALSE, [worker.mem EXCEPT !.status = "stopped"])
     ELSE Goes("claim", FALSE, worker.mem)
  /\ WorkerUnchanged /\ UNCHANGED <<row, late>>

Claim ==
  /\ worker.at = "claim"
  /\ IF row # None /\ row.state = "queued"
     THEN row' = [row EXCEPT !.state = "running"] /\ Goes("start", TRUE, worker.mem)
     ELSE row' = row /\ Goes("gone", FALSE, None)
  /\ WorkerUnchanged /\ UNCHANGED late

(* stopped(): the row's state first, then the session's flag.              *)
Check ==
  /\ worker.check
  /\ IF row = None \/ row.state # "running" THEN Goes("gone", FALSE, None)
     ELSE IF stop THEN Goes("acknowledge", FALSE, [worker.mem EXCEPT !.status = "stopped"])
     ELSE Goes(worker.at, FALSE, worker.mem)
  /\ WorkerUnchanged /\ UNCHANGED <<row, late>>

Acknowledge ==
  /\ worker.at = "acknowledge"
  /\ row' = Saved(row, worker.mem)
  /\ Goes("gone", FALSE, None)
  /\ WorkerUnchanged /\ UNCHANGED late

At(step) == worker.at = step /\ ~worker.check

Start ==
  /\ At("start")
  /\ LET mem == [worker.mem EXCEPT !.status = "running"]
     IN row' = Saved(row, mem) /\ GoesFor("trial", 0, mem)
  /\ WorkerUnchanged /\ UNCHANGED late

(* An alternative's turn begins. *)
Begin ==
  /\ At("begin")
  /\ LET mem == [worker.mem EXCEPT !.alt[worker.who] = "running"]
     IN row' = Saved(row, mem) /\ GoesFor("trial", worker.who, mem)
  /\ WorkerUnchanged /\ UNCHANGED late

(* One native trial: the call leaves, ...                                  *)
Trial ==
  /\ At("trial")
  /\ Goes("waiting", FALSE, worker.mem)
  /\ late' = IF row = None \/ row.state # "running" \/ stop THEN late + 1 ELSE late
  /\ WorkerUnchanged /\ UNCHANGED row

(* ... and answers, or raises: for the baseline that fails the run, for an *)
(* alternative only that alternative.                                      *)
Answered ==
  /\ worker.at = "waiting"
  /\ Goes("record", TRUE, worker.mem)
  /\ WorkerUnchanged /\ UNCHANGED <<row, late>>

Refused ==
  /\ worker.at = "waiting"
  /\ IF worker.who = 0 THEN Goes("end", TRUE, [worker.mem EXCEPT !.status = "failed"])
     ELSE Goes("settle", TRUE, [worker.mem EXCEPT !.alt[worker.who] = "failed"])
  /\ WorkerUnchanged /\ UNCHANGED <<row, late>>

(* The report is stored.  After the second one of an alternative its       *)
(* comparisons are made, which may raise as well.                          *)
Record ==
  /\ At("record")
  /\ LET mem == [worker.mem EXCEPT !.reports[worker.who] = @ + 1]
         last == mem.reports[worker.who] = 2
     IN /\ row' = Saved(row, mem)
        /\ \/ ~last /\ GoesFor("trial", worker.who, mem)
           \/ last /\ worker.who = 0 /\ GoesFor("begin", 1, mem)
           \/ /\ last /\ worker.who # 0
              /\ \E verdict \in {"done", "failed"} :
                   Goes("settle", TRUE, [mem EXCEPT !.alt[worker.who] = verdict])
  /\ WorkerUnchanged /\ UNCHANGED late

Settle ==
  /\ At("settle")
  /\ row' = Saved(row, worker.mem)
  /\ IF worker.who < Alternatives THEN GoesFor("begin", worker.who + 1, worker.mem)
     ELSE Goes("end", TRUE, [worker.mem EXCEPT !.status = "done"])
  /\ WorkerUnchanged /\ UNCHANGED late

End ==
  /\ At("end")
  /\ row' = Saved(row, worker.mem)
  /\ Goes("gone", FALSE, None)
  /\ WorkerUnchanged /\ UNCHANGED late

(* The process ends between any two steps; nobody executes the row again.  *)
Crash ==
  /\ worker.at # "gone"
  /\ Goes("gone", FALSE, None)
  /\ WorkerUnchanged /\ UNCHANGED <<row, late>>

WorkerStep ==
  \/ Freeze \/ Recheck \/ Insert \/ Get \/ GetExpires \/ StopEarly \/ Claim
  \/ Check \/ Acknowledge \/ Start \/ Begin \/ Trial \/ Answered \/ Refused
  \/ Record \/ Settle \/ End

---------------------------------------------------------------------------
(* Page requests.                                                          *)
RequestUnchanged == UNCHANGED <<old, worker, late>>

Idle == [at |-> "idle", want |-> None, revision |-> 0, mem |-> None]
Becomes(q, r) == request' = [request EXCEPT ![q] = r]

(* ui.assistant_routes: a view, or an adoption, which stops the session    *)
(* before it calls the service with the revision its page showed.          *)
View(q) ==
  /\ request[q].at = "idle" /\ row # None
  /\ Becomes(q, [Idle EXCEPT !.at = "get"])
  /\ UNCHANGED <<deck, receipts, row, stop>> /\ RequestUnchanged

AskAdoption(q, a) ==
  /\ request[q].at = "idle" /\ row # None
  /\ stop' = TRUE
  /\ Becomes(q, [Idle EXCEPT !.at = "get", !.want = a, !.revision = deck.revision])
  /\ UNCHANGED <<deck, receipts, row>> /\ RequestUnchanged

(* ExperimentService.get, then what adopt asks of the payload.             *)
Adoptable(p, a) == p.adopted = None /\ p.status = "done" /\ p.alt[a] = "done"

Read(q) ==
  /\ request[q].at = "get"
  /\ LET r == request[q] IN
       IF row = None THEN Becomes(q, Idle)
       ELSE IF Overdue(row.payload)
            THEN Becomes(q, [r EXCEPT !.at = "expire", !.mem = row.payload])
       ELSE IF r.want # None /\ Adoptable(row.payload, r.want)
            THEN Becomes(q, [r EXCEPT !.at = "verify", !.mem = row.payload])
       ELSE Becomes(q, Idle)
  /\ UNCHANGED <<deck, receipts, row, stop>> /\ RequestUnchanged

(* A request that loses to another writer of the row reads it again.       *)
Expire(q) ==
  /\ request[q].at = "expire"
  /\ LET r == request[q]
         wins == Expires(row, r.mem)
     IN /\ row' = IF wins THEN [state |-> "failed", payload |-> Expired(r.mem)] ELSE row
        /\ Becomes(q, IF wins THEN Idle ELSE [r EXCEPT !.at = "get", !.mem = None])
  /\ UNCHANGED <<deck, receipts, stop>> /\ RequestUnchanged

(* adopt: the document still is the measured baseline.                     *)
SlipStillBaseline(r) == deck # None /\ deck.revision = r.revision
StillBaseline(r) ==
  /\ deck # None /\ deck.revision = r.revision
  /\ r.revision = r.mem.revision /\ deck.cards = Base

Verify(q) ==
  /\ request[q].at = "verify"
  /\ IF StillBaseline(request[q]) THEN Becomes(q, [request[q] EXCEPT !.at = "apply"])
     ELSE Becomes(q, Idle)
  /\ UNCHANGED <<deck, receipts, row, stop>> /\ RequestUnchanged

(* apply_commands under the mutation id of this alternative: replayed when *)
(* the receipt exists, otherwise only on the expected revision.            *)
Lands(r) ==
  /\ deck # None /\ r.want \notin receipts
  /\ deck.revision = r.revision

Replays(r) == deck # None /\ r.want \in receipts

Apply(q) ==
  /\ request[q].at = "apply"
  /\ LET r == request[q] IN
     /\ Lands(r) => deck.revision < MaxRevision
     /\ IF Lands(r)
        THEN /\ deck' = [revision |-> deck.revision + 1, cards |-> r.want]
             /\ receipts' = receipts \cup {r.want}
        ELSE UNCHANGED <<deck, receipts>>
     /\ IF Lands(r) \/ Replays(r)
        THEN Becomes(q, [r EXCEPT !.at = "save", !.mem.adopted = r.want])
        ELSE Becomes(q, Idle)
  /\ UNCHANGED <<row, stop>> /\ RequestUnchanged

SaveAdoption(q) ==
  /\ request[q].at = "save"
  /\ row' = Saved(row, request[q].mem)
  /\ Becomes(q, Idle)
  /\ UNCHANGED <<deck, receipts, stop>> /\ RequestUnchanged

(* The request dies with its process, or raises, between two steps.        *)
Abandon(q) ==
  /\ request[q].at # "idle"
  /\ Becomes(q, Idle)
  /\ UNCHANGED <<deck, receipts, row, stop>> /\ RequestUnchanged

RequestStep(q) ==
  \/ Read(q) \/ Expire(q) \/ Verify(q) \/ Apply(q) \/ SaveAdoption(q)

---------------------------------------------------------------------------
(* The owner edits the deck (undo can bring the baseline's cards back),    *)
(* deletes it, which deletes the experiment, or stops the research.        *)
Edit ==
  /\ deck # None /\ deck.revision < MaxRevision
  /\ \E cards \in {Base, Other} :
       deck' = [revision |-> deck.revision + 1, cards |-> cards]
  /\ UNCHANGED <<receipts, row, old, stop, worker, request, late>>

Delete ==
  /\ deck # None
  /\ deck' = None /\ receipts' = {} /\ row' = None
  /\ UNCHANGED <<old, stop, worker, request, late>>

Stop ==
  /\ ~stop /\ stop' = TRUE
  /\ UNCHANGED <<deck, receipts, row, old, worker, request, late>>

TimePasses ==
  /\ row # None /\ ~old /\ old' = TRUE
  /\ UNCHANGED <<deck, receipts, row, stop, worker, request, late>>

Next ==
  \/ WorkerStep \/ Crash
  \/ \E q \in Requests :
       \/ View(q) \/ RequestStep(q) \/ Abandon(q)
       \/ \E a \in Alt : AskAdoption(q, a)
  \/ Edit \/ Delete \/ Stop \/ TimePasses

Spec == Init /\ [][Next]_vars

---------------------------------------------------------------------------
Steps == {"create", "recheck", "insert", "get", "expire", "early", "claim",
          "acknowledge", "start", "begin", "trial", "waiting", "record",
          "settle", "end", "gone"}

TypeOK ==
  /\ deck \in Versions \cup {None}
  /\ receipts \in SUBSET Alt
  /\ row \in Rows \cup {None}
  /\ old \in BOOLEAN /\ stop \in BOOLEAN
  /\ worker \in [at : Steps, check : BOOLEAN, who : Subjects,
                 mem : Payloads \cup {None}]
  /\ request \in [Requests ->
       [at : {"idle", "get", "expire", "verify", "apply", "save"},
        want : Alt \cup {None}, revision : 0 .. MaxRevision,
        mem : Payloads \cup {None}]]
  /\ late \in Nat

(* An adoption lands on the very deck that was measured, and only for an   *)
(* alternative whose measurements finished.                                *)
AdoptsWhatWasMeasured ==
  [][ \A a \in Alt : a \in receipts' \ receipts =>
        /\ deck.cards = Base /\ row.state = "done"
        /\ deck.revision = row.payload.revision
        /\ row.payload.alt[a] = "done" ]_vars

(* An experiment somebody keeps looking at ends, also when its worker died *)
(* before or during the run.                                               *)
ExperimentsEnd ==
  (row # None /\ row.state \in Open) ~> (row = None \/ row.state \in Ended)

============================================================================
