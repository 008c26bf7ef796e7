---------------------------- MODULE ResearchTurns ----------------------------
(***************************************************************************)
(* The cost turn of a research request: how the routes and the worker      *)
(* (ui/assistant_routes.py, ui/assistant_cost.py) tie the turns of the     *)
(* spending authority to the sessions and jobs of the queue.  The two      *)
(* stores commit separately: a turn is opened inside the transaction that  *)
(* saves the job, shared with the job that replaces it, and closed by      *)
(* whichever request or worker believes that nobody needs it any more.     *)
(*                                                                         *)
(* One account, one server process.  A submission stands for its request   *)
(* id: it names the job it creates, and the turn it opens if it opens one. *)
(* POSTs on a deck hold that deck's lock; the database admits one writer.  *)
(***************************************************************************)
EXTENDS Integers

CONSTANTS
    Decks, Submissions,
    DeckOf,         \* the deck a submission is for
    None,
    MaxEvents       \* bound: what the user ends, and what fails

\* What an instance assumes of its constants.
TurnConstants ==
    /\ None \notin Submissions /\ DeckOf \in [Submissions -> Decks] /\ MaxEvents \in Nat

VARIABLES
    turn,           \* submission -> none, open or closed, at the authority
    lapsed,         \* turns past their deadline
    session,        \* deck -> [busy, job, turn] (turn_id and cost_turn)
    job,            \* submission -> the state of its job
    paidBy,         \* submission -> the turn in its job's snapshot
    stale,          \* jobs whose deck changed after they were submitted
    handler,        \* deck -> the POST that holds its lock
    work,           \* submission -> what the worker of its job does next
    late,           \* history: calls a job began when it was no longer wanted
    abandoned,      \* history: open turns that nobody is left to close
    events

authority == <<turn, lapsed>>
store == <<session, job, paidBy, stale>>
history == <<late, abandoned>>
vars == <<authority, store, handler, work, history, events>>

Active == {"queued", "running"}
\* Type correctness.
TypeOK ==
    /\ turn \in [Submissions -> {"none", "open", "closed"}] /\ lapsed \subseteq Submissions
    /\ session \in [Decks -> [busy : BOOLEAN, job : Submissions \cup {None},
                              turn : Submissions \cup {None}]]
    /\ job \in [Submissions -> Active \cup
                  {"none", "interrupted", "completed", "stopped", "superseded"}]
    /\ paidBy \in [Submissions -> Submissions \cup {None}] /\ stale \subseteq Submissions
    /\ handler \in [Decks -> [phase : {"idle", "admitted", "rejected", "stopping",
                                        "ending", "settling"},
                              job : Submissions \cup {None}, turn : Submissions \cup {None}]]
    /\ work \in [Submissions -> {"idle", "claimed", "running", "asking", "leaving", "closing"}]
    /\ late \in [Submissions -> 0..2] /\ abandoned \subseteq Submissions
    /\ events \in 0..MaxEvents

NoPost == [phase |-> "idle", job |-> None, turn |-> None]

Init ==
    /\ turn = [s \in Submissions |-> "none"] /\ lapsed = {}
    /\ session = [d \in Decks |-> [busy |-> FALSE, job |-> None, turn |-> None]]
    /\ job = [s \in Submissions |-> "none"] /\ paidBy = [s \in Submissions |-> None]
    /\ stale = {} /\ handler = [d \in Decks |-> NoPost]
    /\ work = [s \in Submissions |-> "idle"]
    /\ late = [s \in Submissions |-> 0] /\ abandoned = {} /\ events = 0

-----------------------------------------------------------------------------
(* The authority                                                            *)

Live(t) == t # None /\ turn[t] = "open" /\ t \notin lapsed

\* admission: an exact retry gets its turn back, unless that turn is over; a new
\* turn needs every other turn of the user to be over.
SlipAdmissibleAgain(s) == \A t \in Submissions \ {s} : ~Live(t)
Admissible(s) ==
    \/ turn[s] = "none" /\ \A t \in Submissions : ~Live(t)
    \/ Live(s)
Opened(s) == [turn EXCEPT ![s] = "open"]

Event == events < MaxEvents /\ events' = events + 1

\* close_turn swallows its own failure and then leaves the turn to its deadline.
CloseTurn(t) ==
    \/ /\ t # None /\ turn' = [turn EXCEPT ![t] = "closed"]
       /\ abandoned' = abandoned \ {t} /\ UNCHANGED events
    \/ t = None /\ UNCHANGED <<turn, abandoned, events>>
    \/ Live(t) /\ Event /\ abandoned' = abandoned \cup {t} /\ UNCHANGED turn

Lapse(t) ==
    /\ Live(t) /\ lapsed' = lapsed \cup {t} /\ abandoned' = abandoned \ {t}
    /\ UNCHANGED <<turn, store, handler, work, late, events>>

-----------------------------------------------------------------------------
(* Submitting: a message, or steering                                       *)

NoWriter == \A d \in Decks : handler[d].phase # "admitted"
Idle(d) == handler[d].phase = "idle"
Goes(s, phase) == work' = [work EXCEPT ![s] = phase]

Admit(d, s) ==
    /\ Admissible(s) /\ turn' = Opened(s)
    /\ handler' = [handler EXCEPT ![d] = [phase |-> "admitted", job |-> s, turn |-> s]]

Message(s) ==
    /\ Idle(DeckOf[s]) /\ NoWriter /\ job[s] = "none" /\ ~session[DeckOf[s]].busy
    /\ Admit(DeckOf[s], s)
    /\ UNCHANGED <<lapsed, store, work, history, events>>

\* Steering keeps the turn of the session while it lasts.
Steer(s) ==
    LET d == DeckOf[s] t == session[d].turn IN
    /\ Idle(d) /\ NoWriter /\ job[s] = "none" /\ session[d].job # None
    /\ \/ /\ Live(t) /\ UNCHANGED turn
          /\ handler' = [handler EXCEPT ![d] = [phase |-> "admitted", job |-> s, turn |-> t]]
       \/ ~Live(t) /\ Admit(d, s)
    /\ UNCHANGED <<lapsed, store, work, history, events>>

\* _cancel: the session's current job ends.
Cancelled(d, ending) ==
    [s \in Submissions |-> IF s = session[d].job /\ job[s] \in Active \cup {"interrupted"}
                           THEN ending ELSE job[s]]

Save(d) ==
    LET s == handler[d].job t == handler[d].turn IN
    /\ handler[d].phase = "admitted"
    /\ session' = [session EXCEPT ![d] = [busy |-> TRUE, job |-> s, turn |-> t]]
    /\ job' = [Cancelled(d, "superseded") EXCEPT ![s] = "queued"]
    /\ paidBy' = [paidBy EXCEPT ![s] = t]
    /\ abandoned' = abandoned \ {t}
    /\ handler' = [handler EXCEPT ![d] = NoPost]
    /\ UNCHANGED <<authority, stale, work, late, events>>

\* The save failed and was rolled back: the turn it opened is closed again.
SaveFails(d) ==
    /\ handler[d].phase = "admitted" /\ Event
    /\ handler' = [handler EXCEPT ![d].phase = "rejected"]
    /\ UNCHANGED <<authority, store, work, history>>
SlipReject(d) ==
    /\ handler[d].phase = "rejected" /\ handler' = [handler EXCEPT ![d] = NoPost]
    /\ UNCHANGED <<authority, store, work, history, events>>
Reject(d) ==
    /\ handler[d].phase = "rejected" /\ handler' = [handler EXCEPT ![d] = NoPost]
    /\ CloseTurn(IF handler[d].turn = handler[d].job THEN handler[d].turn ELSE None)
    /\ UNCHANGED <<lapsed, store, work, late>>

-----------------------------------------------------------------------------
(* Ending: stop, settings, adopt and apply, an edit                         *)

End(d, ending) ==
    /\ job' = Cancelled(d, ending) /\ session' = [session EXCEPT ![d].busy = FALSE]
    /\ UNCHANGED <<paidBy, stale>>

\* Stop closes the turn, then tells the store.
Stop(d) ==
    /\ Idle(d) /\ session[d].job # None /\ Event
    /\ handler' = [handler EXCEPT ![d] = [phase |-> "stopping", job |-> None,
                                          turn |-> session[d].turn]]
    /\ UNCHANGED <<authority, store, work, history>>
StopClose(d) ==
    /\ handler[d].phase = "stopping" /\ CloseTurn(handler[d].turn)
    /\ handler' = [handler EXCEPT ![d].phase = "ending"]
    /\ UNCHANGED <<lapsed, store, work, late>>
StopStore(d) ==
    /\ handler[d].phase = "ending" /\ NoWriter /\ End(d, "stopped")
    /\ handler' = [handler EXCEPT ![d] = NoPost]
    /\ UNCHANGED <<authority, work, history, events>>

\* A change of the settings tells the store, then closes the turn of the job.
Settings(d) ==
    /\ Idle(d) /\ NoWriter /\ session[d].job # None /\ Event /\ End(d, "superseded")
    /\ handler' = IF session[d].busy
                  THEN [handler EXCEPT ![d] = [phase |-> "settling", job |-> None,
                                               turn |-> session[d].turn]]
                  ELSE handler
    /\ UNCHANGED <<authority, work, history>>
Settle(d) ==
    /\ handler[d].phase = "settling" /\ CloseTurn(handler[d].turn)
    /\ handler' = [handler EXCEPT ![d] = NoPost]
    /\ UNCHANGED <<lapsed, store, work, late>>

Working(s) == work[s] \in {"claimed", "running", "asking", "leaving"}
\* Some worker still has to decide about the turn.
Attended(t) == \E s \in Submissions : paidBy[s] = t /\ (Working(s) \/ work[s] = "closing")
LeftBehind(d) ==
    abandoned \cup {t \in {session[d].turn} : Live(t) /\ ~Attended(t)}

\* Adopting or applying an experiment stops the job and changes the deck; neither
\* closes the turn.
Adopt(d) ==
    /\ Idle(d) /\ NoWriter /\ session[d].job # None /\ Event /\ End(d, "stopped")
    /\ abandoned' = LeftBehind(d)
    /\ UNCHANGED <<authority, handler, work, late>>

EditDeck(d) ==
    /\ NoWriter /\ session[d].busy /\ session[d].job \notin stale /\ Event
    /\ stale' = stale \cup {session[d].job}
    /\ UNCHANGED <<authority, session, job, paidBy, handler, work, history>>

-----------------------------------------------------------------------------
(* The worker                                                               *)

\* claim, of a job that is queued: it runs, or a job for an older deck ends
\* here, again without its turn being closed.
Claim(s) ==
    LET d == DeckOf[s] IN
    /\ NoWriter /\ session[d].job = s /\ job[s] = "queued"
    /\ \/ /\ s \notin stale /\ job' = [job EXCEPT ![s] = "running"] /\ Goes(s, "claimed")
          /\ UNCHANGED <<session, abandoned>>
       \/ /\ s \in stale /\ job' = [job EXCEPT ![s] = "superseded"]
          /\ session' = [session EXCEPT ![d].busy = FALSE]
          /\ abandoned' = LeftBehind(d) /\ UNCHANGED work
    /\ UNCHANGED <<authority, paidBy, stale, handler, late, events>>

Current(s) ==
    session[DeckOf[s]].busy /\ session[DeckOf[s]].job = s /\ job[s] = "running"
Wanted(s) == Current(s) /\ s \notin stale
\* stopped(): asked before the run, before each provider call and at the end.
Stopped(s) == ~Wanted(s) \/ ~Live(paidBy[s])

\* invalidate, and finish when the job may no longer write.
Retired(s, ending) ==
    /\ job' = IF job[s] = "running" THEN [job EXCEPT ![s] = ending] ELSE job
    /\ session' = IF Current(s) THEN [session EXCEPT ![DeckOf[s]].busy = FALSE] ELSE session
    /\ UNCHANGED <<paidBy, stale>>

Start(s) ==
    /\ work[s] = "claimed" /\ ~Stopped(s) /\ Goes(s, "running")
    /\ UNCHANGED <<authority, store, handler, history, events>>
Drop(s) ==
    /\ work[s] \in {"claimed", "running"} /\ Stopped(s) /\ NoWriter
    /\ Retired(s, "superseded") /\ Goes(s, "leaving")
    /\ UNCHANGED <<authority, handler, history, events>>

\* A provider call is announced, and then admitted against the turn.
SlipAsk(s) ==
    /\ work[s] = "running" /\ Live(paidBy[s]) /\ Goes(s, "asking")
    /\ UNCHANGED <<authority, store, handler, history, events>>
Ask(s) ==
    /\ work[s] = "running" /\ ~Stopped(s) /\ Goes(s, "asking")
    /\ UNCHANGED <<authority, store, handler, history, events>>
Call(s) ==
    /\ work[s] = "asking" /\ Live(paidBy[s]) /\ Goes(s, "running")
    /\ late' = IF Wanted(s) \/ late[s] = 2 THEN late ELSE [late EXCEPT ![s] = @ + 1]
    /\ UNCHANGED <<authority, store, handler, abandoned, events>>

\* finish, with an answer or, when the call was denied, with an apology.
Finish(s) ==
    /\ work[s] = "running" \/ (work[s] = "asking" /\ ~Live(paidBy[s]))
    /\ NoWriter /\ Goes(s, "leaving")
    /\ IF Wanted(s) THEN Retired(s, "completed")
       ELSE IF Current(s) THEN Retired(s, "superseded") ELSE UNCHANGED store
    /\ UNCHANGED <<authority, handler, history, events>>

\* On its way out the worker looks whether a replacement uses its turn, and then
\* closes the turn or leaves it.
Replaced(s) ==
    LET p == session[DeckOf[s]] IN p.busy /\ p.job # s /\ p.turn = paidBy[s]
SlipLook(s) ==
    /\ work[s] = "leaving"
    /\ Goes(s, IF session[DeckOf[s]].job # s THEN "idle" ELSE "closing")
    /\ UNCHANGED <<authority, store, handler, history, events>>
Look(s) ==
    /\ work[s] = "leaving" /\ Goes(s, IF Replaced(s) THEN "idle" ELSE "closing")
    /\ UNCHANGED <<authority, store, handler, history, events>>
Close(s) ==
    /\ work[s] = "closing" /\ CloseTurn(paidBy[s]) /\ Goes(s, "idle")
    /\ UNCHANGED <<lapsed, store, handler, late>>

-----------------------------------------------------------------------------
(* Failures                                                                 *)

\* Polling interrupts a job whose worker died or let its lease lapse.
Interrupt(s) ==
    /\ NoWriter /\ Current(s)
    /\ \/ work[s] = "idle" /\ UNCHANGED events
       \/ work[s] \in {"claimed", "running", "asking"} /\ Event
    /\ job' = [job EXCEPT ![s] = "interrupted"]
    /\ session' = [session EXCEPT ![DeckOf[s]].busy = FALSE]
    /\ UNCHANGED <<authority, paidBy, stale, handler, work, history>>

\* The server dies: threads are gone, a transaction under way is rolled back.
Crash ==
    /\ Event
    /\ handler' = [d \in Decks |-> NoPost] /\ work' = [s \in Submissions |-> "idle"]
    /\ abandoned' = {t \in Submissions : Live(t)}
    /\ UNCHANGED <<authority, store, late>>

-----------------------------------------------------------------------------
Posting(d) == Save(d) \/ Reject(d) \/ StopClose(d) \/ StopStore(d) \/ Settle(d)
Running(s) == Start(s) \/ Drop(s) \/ Ask(s) \/ Call(s) \/ Finish(s) \/ Look(s) \/ Close(s)

Next ==
    \/ \E s \in Submissions : Message(s) \/ Steer(s) \/ Claim(s) \/ Running(s)
                                \/ Interrupt(s) \/ Lapse(s)
    \/ \E d \in Decks : Posting(d) \/ SaveFails(d) \/ Stop(d) \/ Settings(d)
                          \/ Adopt(d) \/ EditDeck(d)
    \/ Crash

Spec == Init /\ [][Next]_vars

-----------------------------------------------------------------------------
(* Properties                                                               *)

\* A turn that still spends, and so locks its user out of new research, is in the
\* hands of a session that is busy with it, of a worker or a request that will
\* decide about it, or of nobody for one of the reasons the code accepts.
TurnsAccounted ==
    \A t \in Submissions : Live(t) =>
        \/ \E d \in Decks : session[d].busy /\ session[d].turn = t
        \/ \E d \in Decks : handler[d].phase # "idle" /\ handler[d].turn = t
        \/ Attended(t) \/ t \in abandoned

\* A worker that was overtaken, stopped or interrupted begins at most one more
\* provider call, the one it had announced before.
OneLateCall == \A s \in Submissions : late[s] <= 1

\* Two sessions of the user never both have work that can spend.
OneSpendingSession ==
    \A d, e \in Decks :
        session[d].busy /\ session[e].busy /\ Live(session[d].turn) /\ Live(session[e].turn)
            => d = e

\* What the routes do to turns is what the authority promises, seen by one user.
Ledger == INSTANCE TurnLedger WITH
    Holder <- [s \in Submissions |-> "user"],
    phase <- [s \in Submissions |->
                IF turn[s] = "none" THEN "new" ELSE IF Live(s) THEN "live" ELSE "over"]
KeepsLedger == Ledger!Spec

\* A stale worker can retire only its own job, never a replacement turn
\* (assistant_store.py:721): it does not close the turn of a session that is busy
\* with another job.
ReplacementKeepsTurn ==
    [][\A s \in Submissions, d \in Decks :
         /\ work[s] = "closing" /\ work'[s] = "idle"
         /\ session[d].busy /\ session[d].job # s /\ Live(session[d].turn)
         => turn'[session[d].turn] = "open"]_vars

-----------------------------------------------------------------------------
(* Liveness                                                                 *)

\* Threads run, queued work is dispatched, dead work is polled; deadlines are
\* not relied on.
Fairness ==
    /\ \A s \in Submissions :
         WF_vars(Start(s)) /\ WF_vars(Drop(s)) /\ SF_vars(Finish(s)) /\ WF_vars(Look(s))
           /\ WF_vars(Close(s)) /\ WF_vars(Claim(s)) /\ WF_vars(Call(s))
           /\ WF_vars(Interrupt(s))
    /\ \A d \in Decks : WF_vars(Posting(d))

FairSpec == Spec /\ Fairness

\* No turn holds its user up for good: again and again each is closed, once its work
\* ended and without waiting for its deadline, or nobody was left to close it.
TurnsReleased == []<>(\A t \in Submissions : Live(t) => t \in abandoned)

=============================================================================
