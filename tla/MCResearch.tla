----------------------------- MODULE MCResearch -----------------------------
(* Small instances of ResearchTurns, the cost turn of a request, and of    *)
(* ResearchCache, the snapshot its tools read, in one run: they share      *)
(* nothing, so a behaviour is one of an instance while the other module    *)
(* rests.  Turns are checked on one deck and on two, the snapshot with a   *)
(* write and a restart for its liveness.                                   *)
EXTENDS ResearchTurns, TLC

CONSTANTS d1, d2, s1, s2, Workers, Blockers, StaleLimit, DayLength, MaxFailures,
          MaxMisses, MaxTime

VARIABLES
    part,           \* the component that acts
    now, corpus, writtenAt, row, disk, memory, refreshing, pending, backoff, failures,
    task, restarts

cacheVars == <<now, corpus, writtenAt, row, disk, memory, refreshing, pending, backoff,
               failures, task, restarts>>
allVars == <<part, vars, cacheVars>>

\* Both submissions for one deck, which is where they meet.
OneDeck == [s \in Submissions |-> d1]

OfDecks == INSTANCE ResearchTurns WITH
    DeckOf <- (s1 :> d1 @@ s2 :> d2), MaxEvents <- 1
Monitored == INSTANCE ResearchCache WITH MaxWrites <- 1, MaxRestarts <- 1

ASSUME Constants == TurnConstants /\ OfDecks!TurnConstants /\ Monitored!CacheConstants

AllInit ==
    /\ part \in {"turns", "decks", "monitor"}
    /\ Init
    /\ Monitored!Init

AllNext ==
    /\ UNCHANGED part
    /\ \/ part = "turns" /\ Next /\ UNCHANGED cacheVars
       \/ part = "decks" /\ OfDecks!Next /\ UNCHANGED cacheVars
       \/ part = "monitor" /\ Monitored!Next /\ UNCHANGED vars

\* The fairness each module states, asked of the component that acts.
TurnsServed ==
    /\ \A s \in Submissions :
         /\ WF_vars(part = "turns" /\ Start(s))
         /\ WF_vars(part = "turns" /\ Drop(s))
         /\ SF_vars(part = "turns" /\ Finish(s))
         /\ WF_vars(part = "turns" /\ Look(s))
         /\ WF_vars(part = "turns" /\ Close(s))
         /\ WF_vars(part = "turns" /\ Claim(s))
         /\ WF_vars(part = "turns" /\ Call(s))
         /\ WF_vars(part = "turns" /\ Interrupt(s))
    /\ WF_vars(part = "turns" /\ Posting(d1))
Monitoring ==
    /\ WF_cacheVars(part = "monitor" /\ Monitored!Poll)
    /\ WF_cacheVars(part = "monitor" /\ Monitored!BackoffEnds)
    /\ \A t \in Workers \cup Blockers : WF_cacheVars(part = "monitor" /\ Monitored!Step(t))
    /\ \A w \in Workers :
         /\ WF_cacheVars(part = "monitor" /\ Monitored!Decide(w))
         /\ SF_cacheVars(part = "monitor" /\ Monitored!EndLoad(w))
         /\ SF_cacheVars(part = "monitor" /\ Monitored!Replace(w))
         /\ SF_cacheVars(part = "monitor" /\ Monitored!Forget(w))
    /\ \A b \in Blockers :
         WF_cacheVars(part = "monitor" /\ (Monitored!Ask(b) \/ Monitored!Wake(b)
                                             \/ Monitored!Take(b) \/ Monitored!GiveUp(b)))

AllSpec == AllInit /\ [][AllNext]_allVars
AllFair == AllSpec /\ TurnsServed /\ Monitoring

-----------------------------------------------------------------------------
\* No turn holds its user up for good: again and again each is closed, once its work
\* ended and without waiting for its deadline, or nobody was left to close it.
TurnsSettle ==
    []<>(part = "turns" => \A t \in Submissions : Live(t) => t \in abandoned)

\* Once the corpus and the date rest, the page becomes fresh and stays so.
PageBecomesFresh ==
    <>[](part = "monitor" => memory # None /\ Monitored!Fresh(memory))
=============================================================================
