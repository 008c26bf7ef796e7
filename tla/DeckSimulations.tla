--------------------------- MODULE DeckSimulations ---------------------------
(***************************************************************************)
(* Goldfish runs of an edited deck (deck_simulation.py,                    *)
(* db.DeckDocumentSimulationsRepo, ui/builder_routes.py) and the page that *)
(* starts and follows them (ui/static/deck-lab-simulate.js).               *)
(*                                                                         *)
(* A request freezes the list it read and pins the newest successful run   *)
(* as its baseline, when that run's list is near enough; a pool of the     *)
(* process measures the frozen list.  The page starts a run, polls until   *)
(* it ended, and refetches the newest run whenever a save moved the deck's *)
(* revision; answers of concurrent fetches may arrive in any order.        *)
(* Another page of the same owner edits and runs the same deck.            *)
(*                                                                         *)
(* Abstracted: a list is a model value, Near says which lists are at most  *)
(* three replacements apart; a run succeeds or is not simulated; the       *)
(* candidate a deck was copied from as a baseline is left out; a save of   *)
(* the page is accepted or not sent (DeckSaves has the rest).              *)
(***************************************************************************)
EXTENDS Naturals, Sequences, FiniteSets, SequencesExt

CONSTANTS
  Lists,        \* contents the deck may have
  Near,         \* pairs of lists at most three replacements apart
  Workers,      \* max_workers of _SIM_EXECUTOR
  Askers,       \* who starts runs: Page and perhaps another page
  Page,
  InOrder,      \* answers arrive in the order they were computed
  MaxEdits,     \* bound: saved edits
  MaxRuns,      \* bound: requests for a run
  MaxPolls,     \* TIMEOUT_MS in polls
  MaxLost,      \* bound: fetches that fail
  MaxRestarts,  \* bound: restarts of the server
  None

\* What the constants are assumed to be.
SimulationsAssumption ==
  /\ Near \subseteq Lists \X Lists
  /\ Workers \in Nat \ {0} /\ MaxPolls \in Nat \ {0}
  /\ Page \in Askers
  /\ InOrder \in BOOLEAN
  /\ \A n \in {MaxEdits, MaxRuns, MaxLost, MaxRestarts} : n \in Nat

VARIABLES
  deck,     \* the stored deck: revision and list
  runs,     \* deck_document_simulations, in the order of created_at
  request,  \* the simulate request of an asker, None when there is none
  pool,     \* runs in the pool's queue
  busy,     \* runs a worker is at
  page,     \* the page's revision and list, and the answer to its save
  view,     \* activeView
  seen,     \* latestRevision, 0 after a failed refetch
  seq,      \* viewRefreshSequence
  chain,    \* what the page's own run is at: posting, timer or polling
  polls,    \* waited, in polls
  sent,     \* fetches of the newest run under way
  inbox,    \* answers on their way to the page
  asked, lost, restarts   \* counters for the bounds

server == <<deck, runs, request, pool, busy>>
client == <<page, view, seen, seq, chain, polls>>
counts == <<asked, lost, restarts>>
vars == <<server, client, sent, inbox, counts>>

Active == {"queued", "running"}
Statuses == Active \cup {"done", "not_simulated"}
Running(v) == v.status \in Active

Local(status) == [status |-> status, list |-> None, stale |-> FALSE]

---------------------------------------------------------------------------
Init ==
  /\ \E l \in Lists :
       /\ deck = [rev |-> 1, list |-> l]
       /\ page = [rev |-> 1, list |-> l, saved |-> None]
  /\ runs = <<>> /\ pool = <<>> /\ busy = {}
  /\ request = [a \in Askers |-> None]
  /\ view = Local(None)
  /\ seen = 1 /\ seq = 0 /\ chain = None /\ polls = 0
  /\ sent = {} /\ inbox = <<>>
  /\ asked = 0 /\ lost = 0 /\ restarts = 0

---------------------------------------------------------------------------

(* simulation_view: the newest run and whether the list has changed.       *)
View == IF runs = <<>> THEN Local(None) ELSE
  LET r == Last(runs) IN
    [status |-> r.status,
     list |-> IF r.status = "done" THEN r.list ELSE None,
     stale |-> r.list # deck.list]

(* An answer to the page.                                                  *)
Answer(kind, n, body) == [kind |-> kind, seq |-> n, body |-> body]

Answers(a, ok) ==
  inbox' = IF a = Page
    THEN Append(inbox, Answer("post", 0, Local(IF ok THEN "queued" ELSE "not_simulated")))
    ELSE inbox

(* simulate_deck reads the deck; a page names the revision it shows.       *)
ReadDeck(a) ==
  /\ request[a] # None /\ request[a].at = "sent"
  /\ IF request[a].expected \in {None, deck.rev}
       THEN /\ request' = [request EXCEPT ![a] =
                 [@ EXCEPT !.at = "prepare", !.list = deck.list]]
            /\ UNCHANGED inbox
       ELSE /\ request' = [request EXCEPT ![a] = None]
            /\ Answers(a, FALSE)
  /\ UNCHANGED <<deck, runs, pool, busy, client, sent, counts>>

(* previous_done: the newest successful run, 0 when there is none.         *)
Done == {i \in DOMAIN runs : runs[i].status = "done"}
Previous == IF Done = {} THEN 0 ELSE CHOOSE i \in Done : \A k \in Done : k <= i

(* prepare_simulation pins it, unless the list went too far from it.       *)
SlipComparable(i, l) == TRUE
Comparable(i, l) == i = 0 \/ <<runs[i].list, l>> \in Near

Prepare(a) ==
  /\ request[a] # None /\ request[a].at = "prepare"
  /\ IF Comparable(Previous, request[a].list)
       THEN /\ request' = [request EXCEPT ![a] =
                 [@ EXCEPT !.at = "insert", !.base = Previous]]
            /\ UNCHANGED inbox
       ELSE /\ request' = [request EXCEPT ![a] = None]
            /\ Answers(a, FALSE)
  /\ UNCHANGED <<deck, runs, pool, busy, client, sent, counts>>

Insert(a) ==
  /\ request[a] # None /\ request[a].at = "insert"
  /\ runs' = Append(runs, [list |-> request[a].list, base |-> request[a].base,
                           status |-> "queued"])
  /\ request' = [request EXCEPT ![a] = [@ EXCEPT !.at = "submit", !.id = Len(runs')]]
  /\ UNCHANGED <<deck, pool, busy, client, sent, inbox, counts>>

(* The pool takes the run, or was shut down, which ends it.                *)
Submit(a) ==
  /\ request[a] # None /\ request[a].at = "submit"
  /\ request' = [request EXCEPT ![a] = None]
  /\ \/ /\ pool' = Append(pool, request[a].id)
        /\ Answers(a, TRUE) /\ UNCHANGED runs
     \/ /\ runs' = [runs EXCEPT ![request[a].id].status = "not_simulated"]
        /\ Answers(a, FALSE) /\ UNCHANGED pool
  /\ UNCHANGED <<deck, busy, client, sent, counts>>

(* execute_simulation: the outcome is stored, an exception too.            *)
Begins ==
  /\ pool # <<>> /\ Cardinality(busy) < Workers
  /\ runs' = [runs EXCEPT ![Head(pool)].status = "running"]
  /\ busy' = busy \cup {Head(pool)} /\ pool' = Tail(pool)
  /\ UNCHANGED <<deck, request, client, sent, inbox, counts>>

Finishes(i) ==
  /\ i \in busy /\ busy' = busy \ {i}
  /\ \E status \in {"done", "not_simulated"} : runs' = [runs EXCEPT ![i].status = status]
  /\ UNCHANGED <<deck, request, pool, client, sent, inbox, counts>>

(* The server ends and starts again: its pool and its requests are lost.   *)
(* Nothing at boot looks at the runs.                                      *)
Restart ==
  /\ restarts < MaxRestarts /\ restarts' = restarts + 1
  /\ pool' = <<>> /\ busy' = {}
  /\ request' = [a \in Askers |-> None]
  /\ IF request[Page] = None THEN UNCHANGED inbox ELSE Answers(Page, FALSE)
  /\ UNCHANGED <<deck, runs, client, sent, asked, lost>>

(* simulation_latest answers a poll or a refetch.                          *)
Serve(q) ==
  /\ q \in sent /\ sent' = sent \ {q}
  /\ inbox' = Append(inbox, Answer(q.kind, q.seq, View))
  /\ UNCHANGED <<server, client, counts>>

---------------------------------------------------------------------------
(* The other page edits and starts runs; its revision is not checked here. *)
Changes(l) ==
  /\ deck.rev <= MaxEdits /\ l # deck.list
  /\ deck' = [rev |-> deck.rev + 1, list |-> l]

Request(expected) ==
  [at |-> "sent", expected |-> expected, list |-> None, base |-> 0, id |-> 0]

Asks(a, expected) ==
  /\ asked < MaxRuns /\ asked' = asked + 1
  /\ request[a] = None
  /\ request' = [request EXCEPT ![a] = Request(expected)]

OtherEdits(l) ==
  /\ Askers # {Page} /\ Changes(l)
  /\ UNCHANGED <<runs, request, pool, busy, client, sent, inbox, counts>>

OtherStarts(a) ==
  /\ a # Page /\ Asks(a, None)
  /\ UNCHANGED <<deck, runs, pool, busy, client, sent, inbox, lost, restarts>>

---------------------------------------------------------------------------
(* The page saves an edit ...                                              *)
PageEdits(l) ==
  /\ page.saved = None /\ page.rev = deck.rev
  /\ Changes(l)
  /\ page' = [page EXCEPT !.saved = deck']
  /\ UNCHANGED <<runs, request, pool, busy, view, seen, seq, chain, polls,
                 sent, inbox, counts>>

(* ... and the answer moves its revision; its rendering marks a finished   *)
(* report and refetches the newest run.                                    *)
Marked(v) == IF v.status = "done" /\ ~v.stale THEN [v EXCEPT !.stale = TRUE] ELSE v

Refetches(rev) ==
  /\ rev # seen /\ seen' = rev
  /\ view' = Marked(view)
  /\ seq' = seq + 1
  /\ sent' = sent \cup {[kind |-> "refresh", seq |-> seq']}

Saved ==
  /\ page.saved # None
  /\ page' = [rev |-> page.saved.rev, list |-> page.saved.list, saved |-> None]
  /\ Refetches(page.saved.rev)
  /\ UNCHANGED <<server, chain, polls, inbox, counts>>

(* After a failed refetch the next rendering tries again.                  *)
Renders ==
  /\ Refetches(page.rev)
  /\ UNCHANGED <<server, page, chain, polls, inbox, counts>>

(* start: the buttons are disabled while a run is shown or a save pends.   *)
Start ==
  /\ page.saved = None /\ ~Running(view)
  /\ Asks(Page, page.rev)
  /\ seq' = seq + 1 /\ polls' = 0 /\ chain' = "posting"
  /\ view' = Local("running")
  /\ UNCHANGED <<deck, runs, pool, busy, page, seen, sent, inbox, lost, restarts>>

Poll ==
  /\ chain = "timer" /\ chain' = "polling"
  /\ polls' = polls + 1
  /\ sent' = sent \cup {[kind |-> "poll", seq |-> 0]}
  /\ UNCHANGED <<server, page, view, seen, seq, inbox, counts>>

---------------------------------------------------------------------------
(* What an answer does to the page.                                        *)
Posted(v) ==
  /\ view' = v
  /\ chain' = IF Running(v) THEN "timer" ELSE None

Polled(v) ==
  IF Running(v) /\ polls < MaxPolls
    THEN view' = v /\ chain' = "timer"
    ELSE /\ view' = IF Running(v) THEN Local("not_simulated") ELSE v
         /\ chain' = None

Current(m) == m.seq = seq /\ ~Running(view)

Refreshed(m) ==
  /\ view' = IF Current(m) THEN m.body ELSE view
  /\ UNCHANGED chain

Receive(k) ==
  /\ k \in DOMAIN inbox /\ (InOrder => k = 1)
  /\ inbox' = RemoveAt(inbox, k)
  /\ CASE inbox[k].kind = "post" -> Posted(inbox[k].body)
       [] inbox[k].kind = "poll" -> Polled(inbox[k].body)
       [] OTHER -> Refreshed(inbox[k])
  /\ UNCHANGED <<server, page, seen, seq, polls, sent, counts>>

(* A fetch fails.                                                          *)
Fails(q) ==
  /\ q \in sent /\ lost < MaxLost
  /\ sent' = sent \ {q} /\ lost' = lost + 1
  /\ IF q.kind = "poll"
       THEN view' = Local("not_simulated") /\ chain' = None /\ UNCHANGED seen
       ELSE /\ seen' = IF q.seq = seq THEN 0 ELSE seen
            /\ UNCHANGED <<view, chain>>
  /\ UNCHANGED <<server, page, seq, polls, inbox, asked, restarts>>

---------------------------------------------------------------------------
RequestStep(a) == ReadDeck(a) \/ Prepare(a) \/ Insert(a) \/ Submit(a)

Next ==
  \/ \E a \in Askers : RequestStep(a) \/ OtherStarts(a)
  \/ \E l \in Lists : OtherEdits(l) \/ PageEdits(l)
  \/ Begins \/ \E i \in busy : Finishes(i)
  \/ Restart
  \/ \E q \in sent : Serve(q) \/ Fails(q)
  \/ Saved \/ Renders \/ Start \/ Poll
  \/ \E k \in DOMAIN inbox : Receive(k)

Spec == Init /\ [][Next]_vars

---------------------------------------------------------------------------
TypeOK ==
  /\ deck \in [rev : 1 .. MaxEdits + 1, list : Lists]
  /\ runs \in Seq([list : Lists, base : 0 .. MaxRuns, status : Statuses])
  /\ Len(runs) <= MaxRuns
  /\ request \in [Askers -> {None} \cup
       [at : {"sent", "prepare", "insert", "submit"},
        expected : {None} \cup 1 .. MaxEdits + 1, list : Lists \cup {None},
        base : 0 .. MaxRuns, id : 0 .. MaxRuns]]
  /\ pool \in Seq(1 .. MaxRuns) /\ busy \in SUBSET (1 .. MaxRuns)
  /\ Cardinality(busy) <= Workers
  /\ view \in [status : Statuses \cup {None}, list : Lists \cup {None}, stale : BOOLEAN]
  /\ seen \in 0 .. MaxEdits + 1
  /\ chain \in {"posting", "timer", "polling", None}
  /\ polls \in 0 .. MaxPolls

(* The baseline a run is compared with stays what it was when the run was  *)
(* asked for: an older successful run of a list near enough, whatever      *)
(* edits, runs and requests of another page came in between.               *)
PinnedBaselineStands ==
  \A i \in DOMAIN runs : runs[i].base # 0 =>
    /\ runs[i].base < i
    /\ runs[runs[i].base].status = "done"
    /\ <<runs[runs[i].base].list, runs[i].list>> \in Near

=============================================================================
