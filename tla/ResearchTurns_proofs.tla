------------------------ MODULE ResearchTurns_proofs ------------------------
(***************************************************************************)
(* Proofs about ResearchTurns, for every value of its constants that       *)
(* TurnConstants admits.                                                   *)
(***************************************************************************)
EXTENDS ResearchTurns, TLAPS

\* A job has the turn of its deck that it was saved with; it is active exactly
\* while its session is busy with it, and a worker of it is about to leave only
\* when it is not running any more.
JobTied(s) ==
    /\ paidBy[s] # None => DeckOf[paidBy[s]] = DeckOf[s] /\ turn[paidBy[s]] # "none"
    /\ job[s] = "none" <=> paidBy[s] = None
    /\ job[s] \in {"none", "queued"} => work[s] = "idle" /\ late[s] = 0
    /\ job[s] = "running" => work[s] \notin {"leaving", "closing"}
    /\ job[s] \in Active => session[DeckOf[s]].busy /\ session[DeckOf[s]].job = s

\* A session has the turn of its job, and is busy only while that is active.
SessionTied(d) ==
    /\ session[d].busy => session[d].job # None /\ job[session[d].job] \in Active
    /\ session[d].job = None => session[d].turn = None
    /\ session[d].job # None => /\ DeckOf[session[d].job] = d
                                /\ job[session[d].job] # "none"
                                /\ session[d].turn = paidBy[session[d].job]

\* A POST works with a turn of its deck; one that submits, for a new job.
HandlerTied(d) ==
    /\ handler[d].turn # None => DeckOf[handler[d].turn] = d /\ turn[handler[d].turn] # "none"
    /\ handler[d].phase \in {"admitted", "rejected"} =>
         /\ handler[d].job # None /\ DeckOf[handler[d].job] = d
         /\ job[handler[d].job] = "none" /\ handler[d].turn # None

\* Only one POST submits, and while it does no other turn can be live.
OneWriter ==
    \A d \in Decks : handler[d].phase = "admitted" =>
        /\ \A t \in Submissions : Live(t) => t = handler[d].turn
        /\ \A e \in Decks : handler[e].phase = "admitted" => e = d
OneLive == \A t, u \in Submissions : Live(t) /\ Live(u) => t = u

Tied ==
    /\ TypeOK
    /\ \A s \in Submissions : JobTied(s)
    /\ \A d \in Decks : SessionTied(d) /\ HandlerTied(d)
    /\ OneWriter /\ OneLive

-----------------------------------------------------------------------------
(* Types                                                                    *)

LEMMA InitTied == ASSUME TurnConstants, Init PROVE Tied
  BY DEF TurnConstants, Init, Tied, TypeOK, JobTied, SessionTied, HandlerTied, OneWriter,
     OneLive, Live, NoPost, Active

LEMMA CloseTurnType ==
  ASSUME TurnConstants, TypeOK, NEW t \in Submissions \cup {None}, CloseTurn(t)
  PROVE  /\ turn' \in [Submissions -> {"none", "open", "closed"}]
         /\ abandoned' \subseteq Submissions /\ events' \in 0..MaxEvents
<1>1. CASE t # None /\ turn' = [turn EXCEPT ![t] = "closed"] /\ abandoned' = abandoned \ {t}
           /\ UNCHANGED events
  BY <1>1 DEF TypeOK
<1>2. CASE t = None /\ UNCHANGED <<turn, abandoned, events>>
  BY <1>2 DEF TypeOK
<1>3. CASE Live(t) /\ Event /\ abandoned' = abandoned \cup {t} /\ UNCHANGED turn
  BY <1>3 DEF TypeOK, Event, Live, TurnConstants
<1> QED
  BY <1>1, <1>2, <1>3 DEF CloseTurn

LEMMA Unbusied ==
  ASSUME TypeOK, NEW d \in Decks
  PROVE  LET after == [session EXCEPT ![d].busy = FALSE] IN
         /\ after \in [Decks -> [busy : BOOLEAN, job : Submissions \cup {None},
                                turn : Submissions \cup {None}]]
         /\ \A e \in Decks : /\ after[e].job = session[e].job /\ after[e].turn = session[e].turn
                             /\ after[e].busy = (e # d /\ session[e].busy)
<1>1. session \in [Decks -> [busy : BOOLEAN, job : Submissions \cup {None},
                             turn : Submissions \cup {None}]]
  BY DEF TypeOK
<1> QED
  BY <1>1

LEMMA CancelledJobs ==
  ASSUME TypeOK, NEW d \in Decks, NEW ending \in {"superseded", "stopped"}
  PROVE  /\ Cancelled(d, ending) \in [Submissions -> Active \cup
                  {"none", "interrupted", "completed", "stopped", "superseded"}]
         /\ \A s \in Submissions :
              Cancelled(d, ending)[s] =
                IF s = session[d].job /\ job[s] \in Active \cup {"interrupted"}
                THEN ending ELSE job[s]
  BY DEF TypeOK, Cancelled

LEMMA RetiredType ==
  ASSUME TurnConstants, TypeOK, NEW s \in Submissions,
         NEW ending \in {"completed", "superseded", "interrupted"}, Retired(s, ending)
  PROVE  /\ session' \in [Decks -> [busy : BOOLEAN, job : Submissions \cup {None},
                                  turn : Submissions \cup {None}]]
         /\ job' \in [Submissions -> Active \cup
                         {"none", "interrupted", "completed", "stopped", "superseded"}]
         /\ UNCHANGED <<paidBy, stale>>
<1>1. DeckOf[s] \in Decks
  BY DEF TurnConstants
<1> QED
  BY <1>1, Unbusied DEF TypeOK, Retired

LEMMA TypeStep ==
  ASSUME TurnConstants, Tied, [Next]_vars
  PROVE  TypeOK'
<1> USE DEF Tied
<1>1. ASSUME NEW s \in Submissions, Message(s) PROVE TypeOK'
  BY <1>1 DEF TypeOK, Message, Admit, Opened, TurnConstants, authority, store, history
<1>2. ASSUME NEW s \in Submissions, Steer(s) PROVE TypeOK'
  <2>1. session[DeckOf[s]].turn \in Submissions \cup {None}
    BY DEF TypeOK, TurnConstants
  <2>2. turn' \in [Submissions -> {"none", "open", "closed"}]
    BY <1>2 DEF TypeOK, Steer, Admit, Opened
  <2> DEFINE H == [phase : {"idle", "admitted", "rejected", "stopping", "ending", "settling"},
                   job : Submissions \cup {None}, turn : Submissions \cup {None}]
  <2>3. handler' \in [Decks -> H]
    <3>1. \A x \in Submissions \cup {None} : [phase |-> "admitted", job |-> s, turn |-> x] \in H
      OBVIOUS
    <3> DEFINE At(x) == [handler EXCEPT ![DeckOf[s]] = [phase |-> "admitted", job |-> s, turn |-> x]]
    <3>2. handler' = At(s) \/ handler' = At(session[DeckOf[s]].turn)
      BY <1>2 DEF Steer, Admit
    <3>3. \A x \in Submissions \cup {None} : At(x) \in [Decks -> H]
      BY <3>1 DEF TypeOK
    <3> QED
      BY <2>1, <3>2, <3>3
  <2>4. lapsed' = lapsed
    BY <1>2 DEF Steer
  <2> QED
    BY <1>2, <2>2, <2>3, <2>4 DEF TypeOK, Steer, store, history
<1>3. ASSUME NEW s \in Submissions, Claim(s) PROVE TypeOK'
  <2>1. DeckOf[s] \in Decks
    BY DEF TurnConstants
  <2>2. LeftBehind(DeckOf[s]) \subseteq Submissions
    BY <2>1 DEF LeftBehind, Live, TypeOK
  <2>3. CASE UNCHANGED <<session, abandoned>> /\ job' = [job EXCEPT ![s] = "running"] /\ Goes(s, "claimed")
    BY <1>3, <2>3 DEF TypeOK, Claim, Goes, authority, Active
  <2>4. CASE /\ job' = [job EXCEPT ![s] = "superseded"] /\ UNCHANGED work
             /\ session' = [session EXCEPT ![DeckOf[s]].busy = FALSE]
             /\ abandoned' = LeftBehind(DeckOf[s])
    BY <1>3, <2>1, <2>2, <2>4, Unbusied DEF TypeOK, Claim, authority
  <2> QED
    BY <1>3, <2>3, <2>4 DEF Claim
<1>4. ASSUME NEW s \in Submissions, Start(s) PROVE TypeOK'
  BY <1>4 DEF TypeOK, Start, Goes, authority, store, history
<1>5. ASSUME NEW s \in Submissions, Drop(s) PROVE TypeOK'
  BY <1>5, RetiredType DEF TypeOK, Drop, Goes, authority, history, TurnConstants
<1>6. ASSUME NEW s \in Submissions, Ask(s) PROVE TypeOK'
  BY <1>6 DEF TypeOK, Ask, Goes, authority, store, history
<1>7. ASSUME NEW s \in Submissions, Call(s) PROVE TypeOK'
  BY <1>7 DEF TypeOK, Call, Goes, authority, store
<1>8. ASSUME NEW s \in Submissions, Finish(s) PROVE TypeOK'
  <2>1. CASE Retired(s, "completed") \/ Retired(s, "superseded")
    BY <1>8, <2>1, RetiredType DEF TypeOK, Finish, Goes, authority, history
  <2>2. CASE UNCHANGED store
    BY <1>8, <2>2 DEF TypeOK, Finish, Goes, authority, store, history
  <2> QED
    BY <1>8, <2>1, <2>2 DEF Finish
<1>9. ASSUME NEW s \in Submissions, Look(s) PROVE TypeOK'
  BY <1>9 DEF TypeOK, Look, Goes, authority, store, history
<1>10. ASSUME NEW s \in Submissions, Close(s) PROVE TypeOK'
  BY <1>10, CloseTurnType DEF TypeOK, Close, Goes, store
<1>11. ASSUME NEW s \in Submissions, Interrupt(s) PROVE TypeOK'
  <2>1. DeckOf[s] \in Decks /\ events' \in 0..MaxEvents
    BY <1>11 DEF TurnConstants, Interrupt, Event, TypeOK
  <2> QED
    BY <1>11, <2>1, Unbusied DEF TypeOK, Interrupt, authority, history
<1>12. ASSUME NEW s \in Submissions, Lapse(s) PROVE TypeOK'
  BY <1>12 DEF TypeOK, Lapse, store
<1>13. ASSUME NEW d \in Decks, Save(d) PROVE TypeOK'
  BY <1>13, CancelledJobs DEF TypeOK, Save, NoPost, HandlerTied, authority, Active
<1>14. ASSUME NEW d \in Decks, Reject(d) PROVE TypeOK'
  BY <1>14, CloseTurnType DEF TypeOK, Reject, NoPost, store
<1>15. ASSUME NEW d \in Decks, StopClose(d) PROVE TypeOK'
  BY <1>15, CloseTurnType DEF TypeOK, StopClose, store
<1>16. ASSUME NEW d \in Decks, StopStore(d) PROVE TypeOK'
  BY <1>16, CancelledJobs, Unbusied DEF TypeOK, StopStore, End, NoPost, authority, history
<1>17. ASSUME NEW d \in Decks, Settle(d) PROVE TypeOK'
  BY <1>17, CloseTurnType DEF TypeOK, Settle, NoPost, store
<1>18. ASSUME NEW d \in Decks, SaveFails(d) PROVE TypeOK'
  BY <1>18 DEF TypeOK, SaveFails, Event, authority, store, history, TurnConstants
<1>19. ASSUME NEW d \in Decks, Stop(d) PROVE TypeOK'
  BY <1>19 DEF TypeOK, Stop, Event, authority, store, history, TurnConstants
<1>20. ASSUME NEW d \in Decks, Settings(d) PROVE TypeOK'
  <2>1. handler' \in [Decks -> [phase : {"idle", "admitted", "rejected", "stopping",
                                        "ending", "settling"},
                              job : Submissions \cup {None}, turn : Submissions \cup {None}]]
    BY <1>20 DEF TypeOK, Settings
  <2>2. events' \in 0..MaxEvents
    BY <1>20 DEF TypeOK, Settings, Event, TurnConstants
  <2> QED
    BY <1>20, <2>1, <2>2, CancelledJobs, Unbusied
       DEF TypeOK, Settings, End, authority, history
<1>21. ASSUME NEW d \in Decks, Adopt(d) PROVE TypeOK'
  <2>1. abandoned' \subseteq Submissions
    BY <1>21 DEF TypeOK, Adopt, LeftBehind, Live
  <2>2. events' \in 0..MaxEvents
    BY <1>21 DEF TypeOK, Adopt, Event, TurnConstants
  <2> QED
    BY <1>21, <2>1, <2>2, CancelledJobs, Unbusied DEF TypeOK, Adopt, End, authority
<1>22. ASSUME NEW d \in Decks, EditDeck(d) PROVE TypeOK'
  BY <1>22 DEF TypeOK, EditDeck, SessionTied, Event, authority, history, TurnConstants
<1>23. CASE Crash
  BY <1>23 DEF TypeOK, Crash, NoPost, Live, Event, authority, store, TurnConstants
<1>24. CASE UNCHANGED vars
  BY <1>24 DEF TypeOK, vars, authority, store, history
<1> QED
  BY <1>1, <1>2, <1>3, <1>4, <1>5, <1>6, <1>7, <1>8, <1>9, <1>10, <1>11, <1>12, <1>13, <1>14,
     <1>15, <1>16, <1>17, <1>18, <1>19, <1>20, <1>21, <1>22, <1>23, <1>24
     DEF Next, Running, Posting

-----------------------------------------------------------------------------
(* The store                                                                *)

\* What a step may do to sessions and jobs.
LEMMA StoreCases ==
  ASSUME [Next]_vars
  PROVE  \/ UNCHANGED <<session, job, paidBy>>
         \/ \E d \in Decks : Save(d)
         \/ /\ UNCHANGED <<work, late>> /\ turn' = turn
            /\ \E d \in Decks, ending \in {"superseded", "stopped"} : End(d, ending)
         \/ \E s \in Submissions : Claim(s) \/ Drop(s) \/ Finish(s) \/ Interrupt(s)
<1>1. ASSUME NEW d \in Decks, Posting(d) \/ Settings(d) \/ Adopt(d)
      PROVE  \/ UNCHANGED <<session, job, paidBy>> \/ Save(d)
             \/ UNCHANGED <<work, late, turn>> /\ (End(d, "superseded") \/ End(d, "stopped"))
  BY <1>1 DEF Posting, Reject, StopClose, StopStore, Settle, Settings, Adopt, store, authority, history
<1>2. ASSUME NEW d \in Decks, SaveFails(d) \/ Stop(d) \/ EditDeck(d)
      PROVE  UNCHANGED <<session, job, paidBy>>
  BY <1>2 DEF SaveFails, Stop, EditDeck, store
<1>3. ASSUME NEW s \in Submissions, Message(s) \/ Steer(s) \/ Lapse(s)
      PROVE  UNCHANGED <<session, job, paidBy>>
  BY <1>3 DEF Message, Steer, Lapse, store
<1>4. ASSUME NEW s \in Submissions, Running(s)
      PROVE  UNCHANGED <<session, job, paidBy>> \/ Drop(s) \/ Finish(s)
  BY <1>4 DEF Running, Start, Ask, Call, Look, Close, store
<1>5. CASE Crash
  BY <1>5 DEF Crash, store
<1>6. CASE UNCHANGED vars
  BY <1>6 DEF vars, store
<1> QED
  BY <1>1, <1>2, <1>3, <1>4, <1>5, <1>6 DEF Next

\* Retiring the job of a worker.
LEMMA RetiredEffect ==
  ASSUME TurnConstants, Tied, NEW s \in Submissions, NEW ending \in {"completed", "superseded"},
         Retired(s, ending)
  PROVE  /\ paidBy' = paidBy
         /\ job' = IF job[s] = "running" THEN [job EXCEPT ![s] = ending] ELSE job
         /\ \A d \in Decks :
              /\ session'[d].job = session[d].job /\ session'[d].turn = session[d].turn
              /\ session'[d].busy = (session[d].busy /\ ~(d = DeckOf[s] /\ Current(s)))
<1>1. DeckOf[s] \in Decks
  BY DEF TurnConstants
<1>2. TypeOK
  BY DEF Tied
<1> QED
  BY <1>1, <1>2, Unbusied DEF Retired, TypeOK

\* Every way to finish.
LEMMA FinishCases ==
  ASSUME NEW s \in Submissions, Finish(s)
  PROVE  \/ Retired(s, "completed") \/ Retired(s, "superseded")
         \/ UNCHANGED <<session, job, paidBy>> /\ ~Current(s)
  BY DEF Finish, store, Wanted

LEMMA SessionStep ==
  ASSUME TurnConstants, Tied, [Next]_vars, NEW d \in Decks
  PROVE  SessionTied(d)'
<1>0. TypeOK /\ TypeOK' /\ SessionTied(d)
  BY TypeStep DEF Tied
<1>a. \A s \in Submissions : JobTied(s) /\ DeckOf[s] \in Decks
  BY DEF Tied, TurnConstants
<1>b. session[d].job \in Submissions \cup {None} /\ None \notin Submissions
  BY <1>0 DEF TypeOK, TurnConstants
<1>1. CASE UNCHANGED <<session, job, paidBy>>
  BY <1>0, <1>1 DEF SessionTied
<1>2. ASSUME NEW e \in Decks, Save(e) PROVE SessionTied(d)'
  <2> DEFINE s == handler[e].job
             t == handler[e].turn
  <2>1. /\ s \in Submissions /\ DeckOf[s] = e /\ job[s] = "none" /\ t # None
    BY <1>2, <1>0 DEF Tied, HandlerTied, Save, TypeOK
  <2>2. /\ job' = [Cancelled(e, "superseded") EXCEPT ![s] = "queued"]
        /\ session' = [session EXCEPT ![e] = [busy |-> TRUE, job |-> s, turn |-> t]]
        /\ paidBy' = [paidBy EXCEPT ![s] = t]
    BY <1>2 DEF Save
  <2>3. job'[s] = "queued" /\ paidBy'[s] = t
    BY <1>0, <2>1, <2>2, CancelledJobs DEF TypeOK
  <2>4. CASE d = e
    BY <1>0, <2>1, <2>2, <2>3, <2>4 DEF SessionTied, TypeOK, Active, TurnConstants
  <2>5. CASE d # e
    <3>1. session'[d] = session[d]
      BY <1>0, <2>2, <2>5 DEF TypeOK
    <3>2. ASSUME session[d].job # None
          PROVE  /\ session[d].job # s
                 /\ paidBy'[session[d].job] = paidBy[session[d].job]
                 /\ job'[session[d].job] = job[session[d].job]
      <4> DEFINE j == session[d].job
      <4>1. j \in Submissions /\ DeckOf[j] = d /\ job[j] # "none"
        BY <1>0, <1>b, <3>2 DEF SessionTied
      <4>2. j # s
        BY <2>1, <4>1
      <4>3. ~(j = session[e].job /\ job[j] \in Active \cup {"interrupted"})
        BY <4>1, <2>5 DEF Tied, SessionTied, TurnConstants
      <4> QED
        BY <1>0, <2>2, <4>1, <4>2, <4>3, CancelledJobs DEF TypeOK
    <3> QED
      BY <1>0, <1>b, <3>1, <3>2 DEF SessionTied
  <2> QED
    BY <2>4, <2>5
<1>3. ASSUME NEW e \in Decks, NEW ending \in {"superseded", "stopped"}, End(e, ending)
      PROVE  SessionTied(d)'
  <2>1. /\ session'[d].job = session[d].job /\ session'[d].turn = session[d].turn
        /\ session'[d].busy = (d # e /\ session[d].busy) /\ paidBy' = paidBy
    BY <1>0, <1>3, Unbusied DEF End
  <2>2. \A s \in Submissions : job'[s] = IF s = session[e].job /\ job[s] \in Active \cup {"interrupted"}
                                         THEN ending ELSE job[s]
    BY <1>0, <1>3, CancelledJobs DEF End
  <2>3. ASSUME d # e, session[d].job # None PROVE session[d].job # session[e].job
    BY <2>3 DEF Tied, SessionTied
  <2> QED
    BY <1>0, <1>b, <2>1, <2>2, <2>3 DEF SessionTied
<1>4. ASSUME NEW s \in Submissions, Claim(s) PROVE SessionTied(d)'
  <2>1. job' \in {[job EXCEPT ![s] = "running"], [job EXCEPT ![s] = "superseded"]} /\ paidBy' = paidBy
    BY <1>4 DEF Claim
  <2>2. CASE session' = session /\ job' = [job EXCEPT ![s] = "running"]
    BY <1>0, <1>b, <2>1, <2>2 DEF SessionTied, TypeOK, Active
  <2>3. CASE job' = [job EXCEPT ![s] = "superseded"] /\ session' = [session EXCEPT ![DeckOf[s]].busy = FALSE]
    <3>1. /\ session'[d].job = session[d].job /\ session'[d].turn = session[d].turn
          /\ session'[d].busy = (d # DeckOf[s] /\ session[d].busy)
      BY <1>0, <1>a, <2>3, Unbusied
    <3>2. d # DeckOf[s] => session[d].job # s
      BY <1>0, <1>b DEF SessionTied
    <3> QED
      BY <1>0, <1>b, <2>1, <2>3, <3>1, <3>2 DEF SessionTied, TypeOK
  <2> QED
    BY <1>4, <2>2, <2>3 DEF Claim
<1>5. ASSUME NEW s \in Submissions, NEW ending \in {"completed", "superseded"}, Retired(s, ending)
      PROVE  SessionTied(d)'
  <2>1. /\ session'[d].job = session[d].job /\ session'[d].turn = session[d].turn
        /\ session'[d].busy = (session[d].busy /\ ~(d = DeckOf[s] /\ Current(s)))
        /\ paidBy' = paidBy
        /\ job' = IF job[s] = "running" THEN [job EXCEPT ![s] = ending] ELSE job
    BY <1>5, RetiredEffect
  <2>2. session'[d].busy /\ job[s] = "running" => session[d].job # s
    BY <1>0, <1>b, <2>1 DEF SessionTied, Current
  <2> QED
    BY <1>0, <1>b, <2>1, <2>2 DEF SessionTied, TypeOK
<1>6. ASSUME NEW s \in Submissions, Drop(s) \/ Finish(s) PROVE SessionTied(d)'
  BY <1>1, <1>5, <1>6, FinishCases DEF Drop
<1>7. ASSUME NEW s \in Submissions, Interrupt(s) PROVE SessionTied(d)'
  <2>1. /\ session'[d].job = session[d].job /\ session'[d].turn = session[d].turn
        /\ session'[d].busy = (d # DeckOf[s] /\ session[d].busy)
        /\ paidBy' = paidBy /\ job' = [job EXCEPT ![s] = "interrupted"]
    BY <1>0, <1>a, <1>7, Unbusied DEF Interrupt
  <2>2. d # DeckOf[s] => session[d].job # s
    BY <1>0, <1>b DEF SessionTied
  <2> QED
    BY <1>0, <1>b, <2>1, <2>2 DEF SessionTied, TypeOK
<1> QED
  BY <1>1, <1>2, <1>3, <1>4, <1>6, <1>7, StoreCases

-----------------------------------------------------------------------------
(* The authority                                                            *)

\* Closing a turn, or failing to, lets no turn spend that did not, and leaves the
\* turn over or abandoned.
LEMMA CloseTurnEffect ==
  ASSUME TurnConstants, TypeOK, NEW t \in Submissions \cup {None}, CloseTurn(t), lapsed' = lapsed
  PROVE  /\ \A u \in Submissions : /\ turn'[u] = "none" => turn[u] = "none"
                                   /\ u # t => turn'[u] = turn[u]
                                   /\ Live(u)' => Live(u)
                                   /\ Live(u)' /\ u \in abandoned => u \in abandoned'
         /\ t # None => ~Live(t)' \/ t \in abandoned'
<1>1. CASE t # None /\ turn' = [turn EXCEPT ![t] = "closed"] /\ abandoned' = abandoned \ {t}
  BY <1>1 DEF TypeOK, Live
<1>2. CASE t = None /\ UNCHANGED <<turn, abandoned, events>>
  BY <1>2 DEF Live
<1>3. CASE Live(t) /\ abandoned' = abandoned \cup {t} /\ UNCHANGED turn
  BY <1>3 DEF Live
<1> QED
  BY <1>1, <1>2, <1>3 DEF CloseTurn

Opens(s) ==
    /\ Admit(DeckOf[s], s) /\ NoWriter /\ Idle(DeckOf[s]) /\ job[s] = "none"
    /\ UNCHANGED <<lapsed, store, work, history, events>>
Closes(t) ==
    CloseTurn(t) /\ UNCHANGED <<lapsed, store>> /\ (t # None => turn[t] # "none")

\* What a step may do to the turns.
LEMMA TurnCases ==
  ASSUME TurnConstants, Tied, [Next]_vars
  PROVE  \/ UNCHANGED authority
         \/ \E s \in Submissions : Opens(s)
         \/ \E s \in Submissions : Lapse(s)
         \/ \E t \in Submissions \cup {None} : Closes(t)
<1>0. TypeOK
  BY DEF Tied
<1>1. ASSUME NEW d \in Decks, Posting(d) \/ Settings(d) \/ Adopt(d) \/ SaveFails(d) \/ Stop(d) \/ EditDeck(d)
      PROVE  UNCHANGED authority \/ \E t \in Submissions \cup {None} : Closes(t)
  <2>1. handler[d].turn \in Submissions \cup {None}
    BY <1>0 DEF TypeOK
  <2>2. handler[d].turn # None => turn[handler[d].turn] # "none"
    BY DEF Tied, HandlerTied
  <2>3. CASE Reject(d) \/ StopClose(d) \/ Settle(d)
    BY <2>1, <2>2, <2>3 DEF Reject, StopClose, Settle, Closes
  <2> QED
    BY <1>1, <2>3 DEF Posting, Save, StopStore, Settings, Adopt, SaveFails, Stop, EditDeck
<1>2. ASSUME NEW s \in Submissions, Message(s) \/ Steer(s)
      PROVE  UNCHANGED authority \/ Opens(s)
  BY <1>2 DEF Message, Steer, Opens, authority
<1>3. ASSUME NEW s \in Submissions, Claim(s) \/ Interrupt(s) \/ Running(s)
      PROVE  UNCHANGED authority \/ \E t \in Submissions \cup {None} : Closes(t)
  <2>1. paidBy[s] \in Submissions \cup {None} /\ (paidBy[s] # None => turn[paidBy[s]] # "none")
    BY <1>0 DEF TypeOK, Tied, JobTied
  <2>2. CASE Close(s)
    BY <2>1, <2>2 DEF Close, Closes
  <2> QED
    BY <1>3, <2>2 DEF Claim, Interrupt, Running, Start, Drop, Ask, Call, Finish, Look
<1>4. CASE Crash \/ UNCHANGED vars
  BY <1>4 DEF Crash, vars
<1> QED
  BY <1>1, <1>2, <1>3, <1>4 DEF Next

\* Opening a turn: no other is live.
LEMMA OpensEffect ==
  ASSUME TurnConstants, Tied, NEW s \in Submissions, Opens(s)
  PROVE  /\ turn' = [turn EXCEPT ![s] = "open"] /\ lapsed' = lapsed
         /\ \A u \in Submissions \ {s} : ~Live(u) /\ ~Live(u)'
         /\ Live(s) \/ turn[s] = "none"
         /\ handler' = [handler EXCEPT ![DeckOf[s]] = [phase |-> "admitted", job |-> s, turn |-> s]]
<1>1. TypeOK /\ OneLive
  BY DEF Tied
<1> QED
  BY <1>1 DEF Opens, Admit, Opened, Admissible, OneLive, Live, TypeOK

\* A turn that once was opened stays so.
LEMMA TurnsKept ==
  ASSUME TurnConstants, Tied, [Next]_vars, NEW t \in Submissions, turn[t] # "none"
  PROVE  turn'[t] # "none"
<1>0. TypeOK
  BY DEF Tied
<1>1. CASE UNCHANGED authority
  BY <1>1 DEF authority
<1>2. ASSUME NEW s \in Submissions, Opens(s) PROVE turn'[t] # "none"
  <2>1. turn' = [turn EXCEPT ![s] = "open"] /\ turn \in [Submissions -> {"none", "open", "closed"}]
    BY <1>0, <1>2, OpensEffect DEF TypeOK
  <2> QED
    BY <2>1
<1>3. CASE \E s \in Submissions : Lapse(s)
  BY <1>3 DEF Lapse
<1>4. CASE \E u \in Submissions \cup {None} : Closes(u)
  BY <1>0, <1>4, CloseTurnEffect DEF Closes
<1> QED
  BY <1>1, <1>2, <1>3, <1>4, TurnCases

\* Only an opened turn becomes live.
LEMMA LiveKept ==
  ASSUME TurnConstants, Tied, [Next]_vars, NEW t \in Submissions, Live(t)', ~Live(t)
  PROVE  Opens(t)
<1>0. TypeOK
  BY DEF Tied
<1>1. CASE UNCHANGED authority
  BY <1>1 DEF authority, Live
<1>2. ASSUME NEW s \in Submissions, Opens(s) PROVE Opens(t)
  BY <1>2, OpensEffect
<1>3. ASSUME NEW s \in Submissions, Lapse(s) PROVE FALSE
  BY <1>3 DEF Lapse, Live
<1>4. ASSUME NEW u \in Submissions \cup {None}, Closes(u) PROVE FALSE
  BY <1>0, <1>4, CloseTurnEffect DEF Closes
<1> QED
  BY <1>1, <1>2, <1>3, <1>4, TurnCases

LEMMA OneLiveStep ==
  ASSUME TurnConstants, Tied, [Next]_vars
  PROVE  OneLive'
<1>1. ASSUME NEW t \in Submissions, NEW u \in Submissions, Live(t)', Live(u)', ~Live(t)
      PROVE  t = u
  BY <1>1, LiveKept, OpensEffect
<1>2. ASSUME NEW t \in Submissions, NEW u \in Submissions, Live(t)', Live(u)' PROVE t = u
  BY <1>1, <1>2 DEF Tied, OneLive
<1> QED
  BY <1>2 DEF OneLive

\* What a step may do to the workers, apart from the jobs it changes.
LEMMA WorkCases ==
  ASSUME TurnConstants, Tied, [Next]_vars, UNCHANGED <<session, job, paidBy>>, NEW s \in Submissions
  PROVE  \/ work'[s] = work[s] /\ late'[s] = late[s]
         \/ /\ work'[s] = "idle" /\ late'[s] = late[s]
         \/ /\ work[s] # "idle" /\ job[s] \notin {"none", "queued"}
            /\ work'[s] \in {"leaving", "closing"} => job[s] # "running"
<1>0. TypeOK /\ JobTied(s)
  BY DEF Tied
<1>1. ASSUME NEW d \in Decks,
             Posting(d) \/ Settings(d) \/ Adopt(d) \/ SaveFails(d) \/ Stop(d) \/ EditDeck(d)
      PROVE  UNCHANGED <<work, late>>
  BY <1>1 DEF Posting, Save, Reject, StopClose, StopStore, Settle, Settings, Adopt, SaveFails, Stop,
     EditDeck, history
<1>2. ASSUME NEW x \in Submissions, Message(x) \/ Steer(x) \/ Interrupt(x) \/ Lapse(x)
      PROVE  UNCHANGED <<work, late>>
  BY <1>2 DEF Message, Steer, Interrupt, Lapse, history
<1>3. ASSUME NEW x \in Submissions, Claim(x) PROVE UNCHANGED <<work, late>>
  <2>1. job'[x] # job[x]
    BY <1>0, <1>3 DEF Claim, TypeOK
  <2> QED
    BY <2>1
<1>4. ASSUME NEW x \in Submissions, Running(x)
      PROVE  /\ s # x => work'[s] = work[s] /\ late'[s] = late[s]
             /\ work[x] # "idle"
             /\ late'[x] # late[x] => work'[x] = "running"
             /\ work'[x] \in {"leaving", "closing"} =>
                  work[x] = "leaving" \/ (Drop(x) \/ Finish(x))
  BY <1>0, <1>4 DEF Running, Start, Drop, Ask, Call, Finish, Look, Close, Goes, TypeOK, history
<1>5. ASSUME Drop(s) \/ Finish(s) PROVE job[s] # "running"
  <2>1. CASE Retired(s, "completed") \/ Retired(s, "superseded")
    BY <1>0, <2>1 DEF Retired, TypeOK
  <2>2. CASE ~Current(s)
    BY <1>0, <2>2 DEF JobTied, Current, Active
  <2> QED
    BY <1>5, <2>1, <2>2, FinishCases DEF Drop
<1>6. ASSUME Running(s)
      PROVE  /\ job[s] \notin {"none", "queued"}
             /\ work'[s] \in {"leaving", "closing"} => job[s] # "running"
  BY <1>0, <1>4, <1>5, <1>6 DEF JobTied
<1>7. CASE Crash
  BY <1>0, <1>7 DEF Crash
<1>8. CASE UNCHANGED vars
  BY <1>8 DEF vars, history
<1> QED
  BY <1>1, <1>2, <1>3, <1>4, <1>6, <1>7, <1>8 DEF Next

LEMMA JobStep ==
  ASSUME TurnConstants, Tied, [Next]_vars, NEW x \in Submissions
  PROVE  JobTied(x)'
<1>0. TypeOK /\ TypeOK' /\ JobTied(x) /\ DeckOf[x] \in Decks /\ None \notin Submissions
  BY TypeStep DEF Tied, TurnConstants
<1> DEFINE d == DeckOf[x]
<1>a. SessionTied(d)
  BY <1>0 DEF Tied
<1>k. paidBy[x] # None => turn'[paidBy[x]] # "none"
  BY <1>0, TurnsKept DEF JobTied, TypeOK
<1>1. CASE UNCHANGED <<session, job, paidBy>>
  <2>1. /\ job[x] \in {"none", "queued"} => work'[x] = "idle" /\ late'[x] = 0
        /\ job[x] = "running" => work'[x] \notin {"leaving", "closing"}
    BY <1>0, <1>1, WorkCases DEF JobTied
  <2> QED
    BY <1>0, <1>1, <1>k, <2>1 DEF JobTied
<1>2. ASSUME NEW e \in Decks, Save(e) PROVE JobTied(x)'
  <2> DEFINE s == handler[e].job
             t == handler[e].turn
  <2>1. /\ s \in Submissions /\ DeckOf[s] = e /\ job[s] = "none" /\ t \in Submissions
        /\ DeckOf[t] = e /\ turn[t] # "none" /\ JobTied(s)
    BY <1>2, <1>0 DEF Tied, HandlerTied, Save, TypeOK
  <2>2. /\ job' = [Cancelled(e, "superseded") EXCEPT ![s] = "queued"]
        /\ session' = [session EXCEPT ![e] = [busy |-> TRUE, job |-> s, turn |-> t]]
        /\ paidBy' = [paidBy EXCEPT ![s] = t]
        /\ UNCHANGED <<work, late, turn>>
    BY <1>2 DEF Save, authority
  <2>3. CASE x = s
    BY <1>0, <2>1, <2>2, <2>3, CancelledJobs DEF JobTied, TypeOK, Active
  <2>4. CASE x # s
    <3>1. /\ paidBy'[x] = paidBy[x]
          /\ job'[x] = IF x = session[e].job /\ job[x] \in Active \cup {"interrupted"}
                       THEN "superseded" ELSE job[x]
      BY <1>0, <2>2, <2>4, CancelledJobs DEF TypeOK
    <3>2. job'[x] \in Active => job'[x] = job[x] /\ d # e
      BY <1>0, <3>1 DEF JobTied, Active
    <3>3. d # e => session'[d] = session[d]
      BY <1>0, <2>2 DEF TypeOK
    <3> QED
      BY <1>0, <2>2, <3>1, <3>2, <3>3 DEF JobTied, Active
  <2> QED
    BY <2>3, <2>4
<1>3. ASSUME NEW e \in Decks, NEW ending \in {"superseded", "stopped"}, End(e, ending),
             UNCHANGED <<work, late>>
      PROVE  JobTied(x)'
  <2>1. session'[d].job = session[d].job /\ session'[d].busy = (d # e /\ session[d].busy)
        /\ paidBy' = paidBy
    BY <1>0, <1>3, Unbusied DEF End
  <2>2. job'[x] = IF x = session[e].job /\ job[x] \in Active \cup {"interrupted"}
                  THEN ending ELSE job[x]
    BY <1>0, <1>3, CancelledJobs DEF End
  <2>3. job'[x] \in Active => job'[x] = job[x] /\ d # e
    BY <1>0, <2>2 DEF JobTied, Active
  <2> QED
    BY <1>0, <1>3, <1>k, <2>1, <2>2, <2>3 DEF JobTied, Active
<1>4. ASSUME NEW s \in Submissions, Claim(s) PROVE JobTied(x)'
  <2>0. paidBy' = paidBy /\ UNCHANGED <<turn, late>> /\ job[s] = "queued" /\ session[DeckOf[s]].job = s
        /\ DeckOf[s] \in Decks
    BY <1>4 DEF Claim, authority, TurnConstants
  <2>1. CASE session' = session /\ job' = [job EXCEPT ![s] = "running"] /\ Goes(s, "claimed")
    BY <1>0, <2>0, <2>1 DEF JobTied, TypeOK, Active, Goes
  <2>2. CASE /\ job' = [job EXCEPT ![s] = "superseded"] /\ UNCHANGED work
             /\ session' = [session EXCEPT ![DeckOf[s]].busy = FALSE]
    <3>1. session'[d].job = session[d].job /\ session'[d].busy = (d # DeckOf[s] /\ session[d].busy)
      BY <1>0, <2>0, <2>2, Unbusied
    <3>2. job'[x] = IF x = s THEN "superseded" ELSE job[x]
      BY <1>0, <2>2 DEF TypeOK
    <3>3. job'[x] \in Active => job'[x] = job[x] /\ d # DeckOf[s]
      BY <1>0, <2>0, <3>2 DEF JobTied, Active
    <3> QED
      BY <1>0, <2>0, <2>2, <3>1, <3>2, <3>3 DEF JobTied
  <2> QED
    BY <1>4, <2>1, <2>2 DEF Claim
<1>5. ASSUME NEW s \in Submissions, NEW ending \in {"completed", "superseded"}, Retired(s, ending),
             Goes(s, "leaving"), UNCHANGED <<turn, late>>, work[s] # "idle"
      PROVE  JobTied(x)'
  <2>1. /\ session'[d].job = session[d].job
        /\ session'[d].busy = (session[d].busy /\ ~(d = DeckOf[s] /\ Current(s)))
        /\ paidBy' = paidBy
        /\ job' = IF job[s] = "running" THEN [job EXCEPT ![s] = ending] ELSE job
    BY <1>0, <1>5, RetiredEffect
  <2>2. x = s => job'[x] \notin {"none", "queued", "running"}
    BY <1>0, <1>5, <2>1 DEF JobTied, TypeOK, Active
  <2>3. x # s => job'[x] = job[x] /\ work'[x] = work[x] /\ (Current(s) /\ d = DeckOf[s] => job[x] \notin Active)
    BY <1>0, <1>5, <2>1 DEF JobTied, TypeOK, Active, Current, Goes
  <2>4. x = s => (job'[x] = "none" <=> job[x] = "none")
    BY <1>0, <2>1 DEF TypeOK
  <2> QED
    BY <1>0, <1>5, <2>1, <2>2, <2>3, <2>4 DEF JobTied, Active
<1>6. ASSUME NEW s \in Submissions, Drop(s) \/ Finish(s) PROVE JobTied(x)'
  <2>1. Goes(s, "leaving") /\ UNCHANGED <<turn, late>> /\ work[s] # "idle"
    BY <1>6 DEF Drop, Finish, authority, history
  <2>2. CASE Retired(s, "completed") \/ Retired(s, "superseded")
    BY <1>5, <2>1, <2>2
  <2> QED
    BY <1>1, <1>6, <2>2, FinishCases DEF Drop
<1>7. ASSUME NEW s \in Submissions, Interrupt(s) PROVE JobTied(x)'
  <2>1. /\ session'[d].job = session[d].job
        /\ session'[d].busy = (d # DeckOf[s] /\ session[d].busy)
        /\ paidBy' = paidBy /\ job' = [job EXCEPT ![s] = "interrupted"]
        /\ UNCHANGED <<turn, work, late>> /\ session[DeckOf[s]].job = s /\ job[s] = "running"
    BY <1>0, <1>7, Unbusied DEF Interrupt, Current, TurnConstants, authority, history
  <2>2. job'[x] = IF x = s THEN "interrupted" ELSE job[x]
    BY <1>0, <2>1 DEF TypeOK
  <2>3. job'[x] \in Active => job'[x] = job[x] /\ d # DeckOf[s]
    BY <1>0, <2>1, <2>2 DEF JobTied, Active
  <2>4. job'[x] \in {"none", "queued", "running"} => job'[x] = job[x]
    BY <2>2
  <2>5. job'[x] = "none" <=> job[x] = "none"
    BY <2>1, <2>2
  <2>6. CASE job'[x] \in Active
    BY <1>0, <2>1, <2>3, <2>5, <2>6 DEF JobTied
  <2>7. CASE job'[x] \notin Active
    BY <1>0, <2>1, <2>4, <2>5, <2>7 DEF JobTied
  <2> QED
    BY <2>6, <2>7
<1> QED
  BY <1>1, <1>2, <1>3, <1>4, <1>6, <1>7, StoreCases

-----------------------------------------------------------------------------
(* The requests                                                             *)

\* A submission is admitted while no other transaction is open, with a new turn or
\* with that of its session.
Submits(d, s) ==
    /\ NoWriter /\ job[s] = "none" /\ DeckOf[s] = d /\ store' = store
    /\ \A e \in Decks \ {d} : handler'[e] = handler[e]
    /\ handler'[d].phase = "admitted" /\ handler'[d].job = s
    /\ \/ handler'[d].turn = s /\ Opens(s)
       \/ handler'[d].turn = session[d].turn /\ Live(session[d].turn) /\ UNCHANGED authority

\* What a step may do to a request.
LEMMA HandlerCases ==
  ASSUME TurnConstants, Tied, [Next]_vars, NEW d \in Decks
  PROVE  \/ handler'[d] = handler[d]
         \/ /\ handler'[d].phase \notin {"admitted", "rejected"}
            /\ handler'[d].turn \in {None, handler[d].turn, session[d].turn}
         \/ /\ handler'[d].phase = "rejected" /\ handler[d].phase = "admitted"
            /\ handler'[d].job = handler[d].job /\ handler'[d].turn = handler[d].turn
         \/ \E s \in Submissions : Submits(d, s)
<1>0. TypeOK
  BY DEF Tied
<1> DEFINE H == [phase : {"idle", "admitted", "rejected", "stopping", "ending", "settling"},
                 job : Submissions \cup {None}, turn : Submissions \cup {None}]
<1>a. handler \in [Decks -> H]
  BY <1>0 DEF TypeOK
<1> DEFINE Q == \/ handler'[d] = handler[d]
                \/ /\ handler'[d].phase \notin {"admitted", "rejected"}
                   /\ handler'[d].turn \in {None, handler[d].turn, session[d].turn}
                \/ /\ handler'[d].phase = "rejected" /\ handler[d].phase = "admitted"
                   /\ handler'[d].job = handler[d].job /\ handler'[d].turn = handler[d].turn
<1>1. ASSUME NEW e \in Decks, Save(e) \/ Reject(e) \/ StopStore(e) \/ Settle(e)
      PROVE  Q
  BY <1>a, <1>1 DEF Save, Reject, StopStore, Settle, NoPost
<1>2. ASSUME NEW e \in Decks, StopClose(e) PROVE Q
  BY <1>a, <1>2 DEF StopClose
<1>3. ASSUME NEW e \in Decks, SaveFails(e) PROVE Q
  BY <1>a, <1>3 DEF SaveFails
<1>4. ASSUME NEW e \in Decks, Stop(e) \/ Settings(e) PROVE Q
  BY <1>a, <1>4 DEF Stop, Settings
<1>5. ASSUME NEW e \in Decks, Adopt(e) \/ EditDeck(e) PROVE Q
  BY <1>5 DEF Adopt, EditDeck
<1>6. ASSUME NEW s \in Submissions, Message(s) PROVE Q \/ Submits(DeckOf[s], s)
  <2>1. Opens(s)
    BY <1>6 DEF Message, Opens
  <2> QED
    BY <1>0, <1>6, <2>1, <1>a, OpensEffect DEF Message, Submits, TurnConstants
<1>7. ASSUME NEW s \in Submissions, Steer(s) PROVE Q \/ Submits(DeckOf[s], s)
  <2>1. CASE Admit(DeckOf[s], s)
    <3>1. Opens(s)
      BY <1>7, <2>1 DEF Steer, Opens
    <3> QED
      BY <1>0, <1>7, <3>1, <1>a, OpensEffect DEF Steer, Submits, TurnConstants
  <2>2. CASE /\ Live(session[DeckOf[s]].turn) /\ UNCHANGED turn
             /\ handler' = [handler EXCEPT ![DeckOf[s]] =
                              [phase |-> "admitted", job |-> s, turn |-> session[DeckOf[s]].turn]]
    BY <1>7, <2>2, <1>a DEF Steer, Submits, TurnConstants, authority
  <2> QED
    BY <1>7, <2>1, <2>2 DEF Steer
<1>8. ASSUME NEW s \in Submissions, Submits(DeckOf[s], s) PROVE Q \/ Submits(d, s)
  BY <1>8 DEF Submits
<1>9. ASSUME NEW s \in Submissions, Claim(s) \/ Running(s) \/ Interrupt(s) \/ Lapse(s) PROVE Q
  BY <1>9 DEF Claim, Running, Start, Drop, Ask, Call, Finish, Look, Close, Interrupt, Lapse
<1>10. CASE Crash
  BY <1>10 DEF Crash, NoPost
<1>11. CASE UNCHANGED vars
  BY <1>11 DEF vars
<1> QED
  BY <1>1, <1>2, <1>3, <1>4, <1>5, <1>6, <1>7, <1>8, <1>9, <1>10, <1>11 DEF Next, Posting

\* A job is saved by its own request only.
LEMMA NewJobsKept ==
  ASSUME TurnConstants, Tied, [Next]_vars, NEW x \in Submissions, job[x] = "none"
  PROVE  job'[x] = "none" \/ \E e \in Decks : Save(e) /\ handler[e].job = x
<1>0. TypeOK /\ "none" \notin Active \cup {"interrupted"}
  BY DEF Tied, Active
<1>1. ASSUME NEW e \in Decks, Save(e), handler[e].job # x PROVE job'[x] = "none"
  BY <1>0, <1>1, CancelledJobs DEF Save, TypeOK
<1>2. ASSUME NEW e \in Decks, NEW ending \in {"superseded", "stopped"}, End(e, ending)
      PROVE  job'[x] = "none"
  BY <1>0, <1>2, CancelledJobs DEF End
<1>3. ASSUME NEW s \in Submissions, Claim(s) \/ Interrupt(s) PROVE job'[x] = "none"
  BY <1>0, <1>3 DEF Claim, Interrupt, Current, TypeOK
<1>4. ASSUME NEW s \in Submissions, Drop(s) \/ Finish(s) PROVE job'[x] = "none"
  <2>1. CASE Retired(s, "completed") \/ Retired(s, "superseded")
    BY <1>0, <2>1 DEF Retired, TypeOK
  <2> QED
    BY <1>4, <2>1, FinishCases DEF Drop
<1> QED
  BY <1>1, <1>2, <1>3, <1>4, StoreCases

LEMMA HandlerStep ==
  ASSUME TurnConstants, Tied, [Next]_vars, NEW d \in Decks
  PROVE  HandlerTied(d)'
<1>0. TypeOK /\ TypeOK' /\ HandlerTied(d) /\ SessionTied(d) /\ None \notin Submissions
  BY TypeStep DEF Tied, TurnConstants
<1>1. ASSUME NEW t \in Submissions, t = handler[d].turn \/ t = session[d].turn
      PROVE  DeckOf[t] = d /\ turn'[t] # "none"
  <2>1. CASE t = handler[d].turn
    BY <1>0, <1>1, <2>1, TurnsKept DEF HandlerTied
  <2>2. CASE t = session[d].turn
    <3>1. session[d].job \in Submissions /\ DeckOf[session[d].job] = d /\ t = paidBy[session[d].job]
      BY <1>0, <2>2 DEF SessionTied, TypeOK
    <3>2. JobTied(session[d].job)
      BY <3>1 DEF Tied
    <3> QED
      BY <1>0, <1>1, <3>1, <3>2, TurnsKept DEF JobTied
  <2> QED
    BY <1>1, <2>1, <2>2
<1>2. ASSUME handler[d].phase \in {"admitted", "rejected"}, ~Save(d)
      PROVE  job'[handler[d].job] = "none"
  <2>1. handler[d].job \in Submissions /\ DeckOf[handler[d].job] = d /\ job[handler[d].job] = "none"
    BY <1>0, <1>2 DEF HandlerTied, TypeOK
  <2>2. ASSUME NEW e \in Decks, Save(e) PROVE handler[e].job # handler[d].job
    BY <1>2, <2>1, <2>2 DEF Tied, HandlerTied, Save
  <2> QED
    BY <2>1, <2>2, NewJobsKept
<1>3. Save(d) => handler'[d] = NoPost
  BY <1>0 DEF Save, TypeOK
<1>4. handler[d].turn \in Submissions \cup {None} /\ session[d].turn \in Submissions \cup {None}
  BY <1>0 DEF TypeOK
<1>5. CASE handler'[d] = handler[d]
  BY <1>0, <1>1, <1>2, <1>3, <1>4, <1>5 DEF HandlerTied, NoPost
<1>6. CASE /\ handler'[d].phase \notin {"admitted", "rejected"}
           /\ handler'[d].turn \in {None, handler[d].turn, session[d].turn}
  BY <1>1, <1>4, <1>6 DEF HandlerTied
<1>7. CASE /\ handler'[d].phase = "rejected" /\ handler[d].phase = "admitted"
           /\ handler'[d].job = handler[d].job /\ handler'[d].turn = handler[d].turn
  BY <1>0, <1>1, <1>2, <1>3, <1>4, <1>7 DEF HandlerTied, NoPost
<1>8. ASSUME NEW s \in Submissions, Submits(d, s) PROVE HandlerTied(d)'
  <2>1. job'[s] = "none" /\ s # None
    BY <1>0, <1>8 DEF Submits, store
  <2>2. CASE handler'[d].turn = s /\ Opens(s)
    <3>0. turn' = [turn EXCEPT ![s] = "open"] /\ turn \in [Submissions -> {"none", "open", "closed"}]
      BY <1>0, <2>2, OpensEffect DEF TypeOK
    <3>1. turn'[s] # "none"
      BY <3>0
    <3> QED
      BY <1>0, <1>8, <2>1, <2>2, <3>1 DEF HandlerTied, Submits
  <2>3. CASE handler'[d].turn = session[d].turn /\ Live(session[d].turn)
    BY <1>0, <1>1, <1>4, <1>8, <2>1, <2>3 DEF HandlerTied, Submits, Live
  <2> QED
    BY <1>8, <2>2, <2>3 DEF Submits
<1> QED
  BY <1>5, <1>6, <1>7, <1>8, HandlerCases

LEMMA WriterStep ==
  ASSUME TurnConstants, Tied, [Next]_vars
  PROVE  OneWriter'
<1>0. TypeOK /\ OneWriter /\ OneLive /\ None \notin Submissions
  BY DEF Tied, TurnConstants
\* Whoever is admitted in both states stays alone.
<1>1. ASSUME NEW d \in Decks, handler'[d].phase = "admitted", handler[d].phase = "admitted",
             handler'[d] = handler[d], NEW t \in Submissions, Live(t)'
      PROVE  t = handler'[d].turn
  <2>1. ~Opens(t)
    BY <1>1 DEF Opens, NoWriter
  <2> QED
    BY <1>0, <1>1, <2>1, LiveKept DEF OneWriter
<1>2. ASSUME NEW d \in Decks, NEW s \in Submissions, Submits(d, s), NEW t \in Submissions, Live(t)'
      PROVE  t = handler'[d].turn
  <2>1. CASE handler'[d].turn = s /\ Opens(s)
    BY <1>2, <2>1, OpensEffect
  <2>2. CASE handler'[d].turn = session[d].turn /\ Live(session[d].turn) /\ UNCHANGED authority
    <3>1. Live(t) /\ session[d].turn \in Submissions
      BY <1>0, <1>2, <2>2 DEF Live, authority, TypeOK
    <3> QED
      BY <1>0, <2>2, <3>1 DEF OneLive
  <2> QED
    BY <1>2, <2>1, <2>2 DEF Submits
<1>3. \A d \in Decks : handler'[d].phase = "admitted" =>
        \/ handler'[d] = handler[d] /\ handler[d].phase = "admitted"
        \/ \E s \in Submissions : Submits(d, s)
  BY HandlerCases
<1>4. ASSUME NEW d \in Decks, NEW e \in Decks,
             handler'[d].phase = "admitted", handler'[e].phase = "admitted"
      PROVE  d = e
  <2>1. CASE \E s \in Submissions : Submits(d, s)
    BY <1>4, <2>1 DEF Submits, NoWriter
  <2>2. CASE \E s \in Submissions : Submits(e, s)
    BY <1>4, <2>2 DEF Submits, NoWriter
  <2> QED
    BY <1>0, <1>3, <1>4, <2>1, <2>2 DEF OneWriter
<1> QED
  BY <1>1, <1>2, <1>3, <1>4 DEF OneWriter

LEMMA TiedStep ==
  ASSUME TurnConstants, Tied, [Next]_vars
  PROVE  Tied'
<1>1. TypeOK' /\ OneLive' /\ OneWriter'
  BY TypeStep, OneLiveStep, WriterStep
<1>2. \A s \in Submissions : JobTied(s)'
  BY JobStep
<1>3. \A d \in Decks : SessionTied(d)' /\ HandlerTied(d)'
  BY SessionStep, HandlerStep
<1> QED
  BY <1>1, <1>2, <1>3 DEF Tied

\* Type correctness.
THEOREM TypeCorrect == ASSUME TurnConstants PROVE Spec => []TypeOK
<1>1. Init => Tied
  BY InitTied
<1>2. Tied /\ [Next]_vars => Tied'
  BY TiedStep
<1>3. Tied => TypeOK
  BY DEF Tied
<1> QED
  BY <1>1, <1>2, <1>3, PTL DEF Spec

(***************************************************************************)
(* One spending session: two sessions of the user never both have work     *)
(* that can spend.  A turn is of one deck, and one turn is live at most.   *)
(***************************************************************************)
THEOREM Exclusion == ASSUME TurnConstants PROVE Spec => []OneSpendingSession
<1>1. Init => Tied
  BY InitTied
<1>2. Tied /\ [Next]_vars => Tied'
  BY TiedStep
<1>3. Tied => OneSpendingSession
  <2> SUFFICES ASSUME Tied, NEW d \in Decks, NEW e \in Decks, session[d].busy, session[e].busy,
                      Live(session[d].turn), Live(session[e].turn)
               PROVE  d = e
    BY DEF OneSpendingSession
  <2>1. ASSUME NEW c \in Decks, session[c].busy, Live(session[c].turn)
        PROVE  session[c].turn \in Submissions /\ DeckOf[session[c].turn] = c
    <3>1. /\ session[c].job \in Submissions /\ DeckOf[session[c].job] = c
          /\ session[c].turn = paidBy[session[c].job] /\ session[c].turn \in Submissions
      BY <2>1 DEF Tied, SessionTied, TypeOK, Live
    <3>2. JobTied(session[c].job)
      BY <3>1 DEF Tied
    <3> QED
      BY <2>1, <3>1, <3>2 DEF JobTied, Live
  <2> QED
    BY <2>1 DEF Tied, OneLive
<1> QED
  BY <1>1, <1>2, <1>3, PTL DEF Spec

-----------------------------------------------------------------------------
(* Late calls                                                               *)

\* A job that made a late call is not wanted any more and asks for nothing.
LateBound(s) == late[s] \in 0..1 /\ (late[s] > 0 => ~Wanted(s) /\ work[s] # "asking")

\* Only a claim makes a job run.
LEMMA RunningKept ==
  ASSUME TurnConstants, Tied, [Next]_vars, NEW s \in Submissions, job'[s] = "running"
  PROVE  job[s] = "running" \/ Claim(s)
<1>0. TypeOK
  BY DEF Tied
<1>1. ASSUME NEW e \in Decks, Save(e) PROVE job[s] = "running"
  <2>1. handler[e].job \in Submissions
    BY <1>0, <1>1 DEF Tied, HandlerTied, Save, TypeOK
  <2>2. job' = [Cancelled(e, "superseded") EXCEPT ![handler[e].job] = "queued"]
    BY <1>1 DEF Save
  <2> QED
    BY <1>0, <2>1, <2>2, CancelledJobs
<1>2. ASSUME NEW e \in Decks, NEW ending \in {"superseded", "stopped"}, End(e, ending)
      PROVE  job[s] = "running"
  BY <1>0, <1>2, CancelledJobs DEF End
<1>3. ASSUME NEW x \in Submissions, Claim(x) PROVE job[s] = "running" \/ Claim(s)
  BY <1>0, <1>3 DEF Claim, TypeOK
<1>4. ASSUME NEW x \in Submissions, Interrupt(x) PROVE job[s] = "running"
  BY <1>0, <1>4 DEF Interrupt, TypeOK
<1>5. ASSUME NEW x \in Submissions, Drop(x) \/ Finish(x) PROVE job[s] = "running"
  <2>1. CASE Retired(x, "completed") \/ Retired(x, "superseded")
    BY <1>0, <2>1 DEF Retired, TypeOK
  <2> QED
    BY <1>5, <2>1, FinishCases DEF Drop
<1> QED
  BY <1>1, <1>2, <1>3, <1>4, <1>5, StoreCases

\* A change of the deck is never forgotten.
LEMMA StaleKept == ASSUME [Next]_vars PROVE stale \subseteq stale'
<1>1. ASSUME NEW s \in Submissions, Running(s) PROVE stale' = stale
  BY <1>1 DEF Running, Start, Drop, Ask, Call, Finish, Look, Close, Retired, store
<1>2. ASSUME NEW s \in Submissions, Message(s) \/ Steer(s) \/ Claim(s) \/ Interrupt(s) \/ Lapse(s)
      PROVE  stale' = stale
  BY <1>2 DEF Message, Steer, Claim, Interrupt, Lapse, store
<1>3. ASSUME NEW d \in Decks, Posting(d) \/ SaveFails(d) \/ Stop(d) \/ Settings(d) \/ Adopt(d)
      PROVE  stale' = stale
  BY <1>3 DEF Posting, Save, Reject, StopClose, StopStore, Settle, SaveFails, Stop, Settings, Adopt,
     End, store
<1>4. ASSUME NEW d \in Decks, EditDeck(d) PROVE stale \subseteq stale'
  BY <1>4 DEF EditDeck
<1>5. CASE Crash \/ UNCHANGED vars
  BY <1>5 DEF Crash, vars, store
<1> QED
  BY <1>1, <1>2, <1>3, <1>4, <1>5 DEF Next

\* A job that lost its session, its deck or its state is never wanted again.
LEMMA UnwantedStays ==
  ASSUME TurnConstants, Tied, [Next]_vars, NEW s \in Submissions, Wanted(s)'
  PROVE  Wanted(s) \/ Claim(s)
<1>1. job'[s] = "running" /\ s \notin stale
  BY StaleKept DEF Wanted, Current
<1>2. CASE job[s] = "running"
  BY <1>1, <1>2 DEF Tied, JobTied, Wanted, Current, Active
<1> QED
  BY <1>1, <1>2, RunningKept

\* What a step may do to calls.
LEMMA CallCases ==
  ASSUME TurnConstants, Tied, [Next]_vars, NEW s \in Submissions
  PROVE  \/ late'[s] = late[s] /\ (work'[s] = "asking" => work[s] = "asking")
         \/ Ask(s) \/ Call(s)
<1>0. TypeOK
  BY DEF Tied
<1>1. ASSUME NEW x \in Submissions, Running(x)
      PROVE  \/ late'[s] = late[s] /\ (work'[s] = "asking" => work[s] = "asking")
             \/ Ask(s) \/ Call(s)
  BY <1>0, <1>1 DEF Running, Start, Drop, Ask, Call, Finish, Look, Close, Goes, TypeOK, history
<1>2. ASSUME NEW x \in Submissions, Claim(x)
      PROVE  late' = late /\ (work'[s] = "asking" => work[s] = "asking")
  BY <1>0, <1>2 DEF Claim, Goes, TypeOK
<1>3. ASSUME NEW x \in Submissions, Message(x) \/ Steer(x) \/ Interrupt(x) \/ Lapse(x)
      PROVE  UNCHANGED <<work, late>>
  BY <1>3 DEF Message, Steer, Interrupt, Lapse, history
<1>4. ASSUME NEW d \in Decks,
             Posting(d) \/ Settings(d) \/ Adopt(d) \/ SaveFails(d) \/ Stop(d) \/ EditDeck(d)
      PROVE  UNCHANGED <<work, late>>
  BY <1>4 DEF Posting, Save, Reject, StopClose, StopStore, Settle, Settings, Adopt, SaveFails, Stop,
     EditDeck, history
<1>5. CASE Crash
  BY <1>5 DEF Crash
<1>6. CASE UNCHANGED vars
  BY <1>6 DEF vars, history
<1> QED
  BY <1>1, <1>2, <1>3, <1>4, <1>5, <1>6 DEF Next

LEMMA LateStep ==
  ASSUME TurnConstants, Tied, [Next]_vars, NEW s \in Submissions, LateBound(s)
  PROVE  LateBound(s)'
<1>0. TypeOK /\ JobTied(s)
  BY DEF Tied
<1>1. CASE late'[s] = late[s] /\ (work'[s] = "asking" => work[s] = "asking")
  <2>1. CASE Claim(s)
    BY <1>0, <1>1, <2>1 DEF LateBound, JobTied, Claim
  <2> QED
    BY <1>1, <2>1, UnwantedStays DEF LateBound
<1>2. CASE Ask(s)
  BY <1>0, <1>2 DEF Ask, Stopped, LateBound, Goes, TypeOK, history
<1>3. CASE Call(s)
  <2>1. late[s] = 0 /\ work' = [work EXCEPT ![s] = "running"] /\ store' = store
    BY <1>3 DEF Call, LateBound, Goes
  <2>2. late' = IF Wanted(s) THEN late ELSE [late EXCEPT ![s] = 1]
    BY <1>0, <1>3, <2>1 DEF Call, TypeOK
  <2>3. Wanted(s)' = Wanted(s)
    BY <2>1 DEF Wanted, Current, store
  <2> QED
    BY <1>0, <2>1, <2>2, <2>3 DEF LateBound, TypeOK
<1> QED
  BY <1>1, <1>2, <1>3, CallCases

(***************************************************************************)
(* Late calls: a worker that was overtaken, stopped, interrupted or whose  *)
(* deck changed begins one more provider call at most.  A job that is not  *)
(* wanted never is again, and it announces no call; so the one it may      *)
(* still make is the one it had announced.                                 *)
(***************************************************************************)
THEOREM LateCalls == ASSUME TurnConstants PROVE Spec => []OneLateCall
<1> DEFINE Inv == Tied /\ \A s \in Submissions : LateBound(s)
<1>1. Init => Inv
  BY InitTied DEF Init, LateBound
<1>2. Inv /\ [Next]_vars => Inv'
  BY TiedStep, LateStep
<1>3. Inv => OneLateCall
  BY DEF LateBound, OneLateCall
<1> QED
  BY <1>1, <1>2, <1>3, PTL DEF Spec

-----------------------------------------------------------------------------
(* Who answers for a turn                                                   *)

\* A busy session has the turn, or a request that will save or close it.
Holds(d, t) ==
    \/ session[d].busy /\ session[d].turn = t
    \/ /\ handler[d].turn = t
       /\ \/ handler[d].phase \in {"admitted", "rejected"} /\ handler[d].job = t
          \/ handler[d].phase \in {"stopping", "settling"}
Held(t) == (\E d \in Decks : Holds(d, t)) \/ Attended(t) \/ t \in abandoned

\* A job without worker that still counts as running lost it to a crash.
Orphaned(s) ==
    job[s] = "running" /\ work[s] = "idle" /\ Live(paidBy[s]) => paidBy[s] \in abandoned
\* A request to stop closes the turn of its session before it ends that.
Stopping(d) ==
    /\ handler[d].phase = "stopping" => handler[d].turn = session[d].turn
    /\ handler[d].phase = "ending" /\ Live(session[d].turn) => session[d].turn \in abandoned

Accounts ==
    /\ Tied
    /\ \A t \in Submissions : Live(t) => Held(t)
    /\ \A s \in Submissions : Orphaned(s)
    /\ \A d \in Decks : Stopping(d)

\* Only the save of a session takes up an abandoned turn again.
LEMMA AbandonedKept ==
  ASSUME TurnConstants, Tied, [Next]_vars, NEW t \in Submissions, t \in abandoned, Live(t)'
  PROVE  t \in abandoned' \/ \E d \in Decks : Save(d) /\ handler[d].turn = t
<1>0. TypeOK
  BY DEF Tied
<1>1. ASSUME NEW x \in Submissions \cup {None}, CloseTurn(x), lapsed' = lapsed PROVE t \in abandoned'
  <2>1. Live(t)
    BY <1>0, <1>1, CloseTurnEffect
  <2> QED
    BY <1>0, <1>1, <2>1, CloseTurnEffect
<1>2. ASSUME NEW d \in Decks, Reject(d) \/ StopClose(d) \/ Settle(d) PROVE t \in abandoned'
  <2>1. handler[d].turn \in Submissions \cup {None}
    BY <1>0 DEF TypeOK
  <2> QED
    BY <1>1, <1>2, <2>1 DEF Reject, StopClose, Settle
<1>3. ASSUME NEW d \in Decks, Save(d) \/ StopStore(d) \/ Settings(d) \/ Adopt(d) \/ SaveFails(d)
                                \/ Stop(d) \/ EditDeck(d)
      PROVE  t \in abandoned' \/ (Save(d) /\ handler[d].turn = t)
  BY <1>3 DEF Save, StopStore, Settings, Adopt, LeftBehind, SaveFails, Stop, EditDeck, history
<1>4. ASSUME NEW s \in Submissions, Close(s) PROVE t \in abandoned'
  <2>1. paidBy[s] \in Submissions \cup {None}
    BY <1>0 DEF TypeOK
  <2> QED
    BY <1>1, <1>4, <2>1 DEF Close
<1>5. ASSUME NEW s \in Submissions, Start(s) \/ Drop(s) \/ Ask(s) \/ Call(s) \/ Finish(s) \/ Look(s)
                                      \/ Message(s) \/ Steer(s) \/ Claim(s) \/ Interrupt(s)
      PROVE  t \in abandoned'
  BY <1>5 DEF Start, Drop, Ask, Call, Finish, Look, Message, Steer, Claim, LeftBehind, Interrupt,
     history
<1>6. ASSUME NEW s \in Submissions, Lapse(s) PROVE t \in abandoned'
  BY <1>6 DEF Lapse, Live
<1>7. CASE Crash
  BY <1>7 DEF Crash, Live, authority
<1>8. CASE UNCHANGED vars
  BY <1>8 DEF vars, history
<1> QED
  BY <1>2, <1>3, <1>4, <1>5, <1>6, <1>7, <1>8 DEF Next, Posting, Running

\* A turn taken up by a save is held by the session.
LEMMA SavedHolds ==
  ASSUME TurnConstants, Tied, NEW d \in Decks, Save(d), NEW t \in Submissions, handler[d].turn = t
  PROVE  Holds(d, t)'
  BY DEF Tied, Save, Holds, TypeOK

\* A job keeps the turn it was saved with.
LEMMA PaidKept ==
  ASSUME TurnConstants, Tied, [Next]_vars, NEW s \in Submissions, job[s] # "none"
  PROVE  paidBy'[s] = paidBy[s]
<1>1. ASSUME NEW e \in Decks, Save(e) PROVE paidBy'[s] = paidBy[s]
  <2>1. handler[e].job # s
    BY <1>1 DEF Tied, HandlerTied, Save
  <2> QED
    BY <1>1, <2>1 DEF Save, Tied, TypeOK
<1>2. ASSUME NEW x \in Submissions, Drop(x) \/ Finish(x) PROVE paidBy' = paidBy
  BY <1>2 DEF Drop, Finish, Retired, store
<1> QED
  BY <1>1, <1>2, StoreCases DEF End, Claim, Interrupt

\* A worker is done when it looked or closed, or with its process.
LEMMA IdleCases ==
  ASSUME TurnConstants, Tied, [Next]_vars, NEW s \in Submissions, work[s] # "idle", work'[s] = "idle"
  PROVE  Look(s) \/ Close(s) \/ Crash
<1>0. TypeOK
  BY DEF Tied
<1>1. ASSUME NEW x \in Submissions, Running(x) PROVE Look(s) \/ Close(s)
  BY <1>0, <1>1 DEF Running, Start, Drop, Ask, Call, Finish, Look, Close, Goes, TypeOK
<1>2. ASSUME NEW x \in Submissions, Claim(x) PROVE FALSE
  BY <1>0, <1>2 DEF Claim, Goes, TypeOK
<1>3. ASSUME NEW x \in Submissions, Message(x) \/ Steer(x) \/ Interrupt(x) \/ Lapse(x) PROVE FALSE
  BY <1>3 DEF Message, Steer, Interrupt, Lapse
<1>4. ASSUME NEW d \in Decks,
             Posting(d) \/ Settings(d) \/ Adopt(d) \/ SaveFails(d) \/ Stop(d) \/ EditDeck(d)
      PROVE  FALSE
  BY <1>4 DEF Posting, Save, Reject, StopClose, StopStore, Settle, Settings, Adopt,
     SaveFails, Stop, EditDeck
<1>5. ~UNCHANGED vars
  BY DEF vars
<1> QED
  BY <1>1, <1>2, <1>3, <1>4, <1>5 DEF Next

\* A turn that a worker attends to stays so until the worker has decided.
LEMMA AttendedKept ==
  ASSUME TurnConstants, Tied, [Next]_vars, NEW t \in Submissions, Live(t), Live(t)', Attended(t)
  PROVE  Held(t)'
<1>0. TypeOK
  BY DEF Tied
<1>1. PICK s \in Submissions : paidBy[s] = t /\ (Working(s) \/ work[s] = "closing")
  BY DEF Attended
<1>2. job[s] # "none" /\ work[s] # "idle"
  BY <1>0, <1>1 DEF Tied, JobTied, Working
<1>3. paidBy'[s] = t
  BY <1>1, <1>2, PaidKept
<1>4. CASE work'[s] # "idle"
  BY <1>0, <1>3, <1>4, TypeStep DEF Held, Attended, Working, TypeOK
<1>5. CASE work'[s] = "idle"
  <2>1. CASE Crash
    BY <2>1 DEF Held, Crash
  <2>2. CASE Look(s)
    <3>1. Replaced(s) /\ UNCHANGED session
      BY <1>0, <1>5, <2>2 DEF Look, Goes, TypeOK, store
    <3>2. DeckOf[s] \in Decks
      BY DEF TurnConstants
    <3> QED
      BY <1>1, <3>1, <3>2 DEF Held, Holds, Replaced
  <2>3. CASE Close(s)
    BY <1>0, <1>1, <2>3, CloseTurnEffect DEF Held, Close, TurnConstants
  <2> QED
    BY <1>2, <1>5, <2>1, <2>2, <2>3, IdleCases
<1> QED
  BY <1>4, <1>5

\* A request keeps its turn until a session has it, or it closed the turn or failed to.
LEMMA RequestKept ==
  ASSUME TurnConstants, Tied, [Next]_vars, NEW t \in Submissions, Live(t), Live(t)',
         NEW d \in Decks, handler[d].turn = t,
         \/ handler[d].phase \in {"admitted", "rejected"} /\ handler[d].job = t
         \/ handler[d].phase \in {"stopping", "settling"}
  PROVE  Held(t)'
<1>0. TypeOK /\ t # None
  BY DEF Tied, TurnConstants
<1> DEFINE H == [phase : {"idle", "admitted", "rejected", "stopping", "ending", "settling"},
                 job : Submissions \cup {None}, turn : Submissions \cup {None}]
<1>a. handler \in [Decks -> H]
  BY <1>0 DEF TypeOK
<1>1. CASE handler'[d] = handler[d]
  BY <1>1 DEF Held, Holds
<1>2. CASE Save(d)
  BY <1>2, SavedHolds DEF Held
<1>3. CASE Reject(d) \/ StopClose(d) \/ Settle(d)
  <2>1. CloseTurn(t) /\ lapsed' = lapsed
    BY <1>0, <1>3 DEF Reject, StopClose, Settle
  <2> QED
    BY <1>0, <2>1, CloseTurnEffect DEF Held
<1>4. CASE SaveFails(d)
  BY <1>a, <1>4 DEF SaveFails, Held, Holds
<1>5. CASE Crash
  BY <1>5 DEF Crash, Held
<1>6. ASSUME NEW e \in Decks, e # d,
             Posting(e) \/ Settings(e) \/ SaveFails(e) \/ Stop(e)
      PROVE  handler'[d] = handler[d]
  BY <1>a, <1>6 DEF Posting, Save, Reject, StopClose, StopStore, Settle, Settings, SaveFails, Stop
<1>7. ASSUME StopStore(d) \/ Settings(d) \/ Stop(d) PROVE FALSE
  BY <1>7 DEF StopStore, Settings, Stop, Idle
<1>8. ASSUME NEW e \in Decks, Adopt(e) \/ EditDeck(e) PROVE handler' = handler
  BY <1>8 DEF Adopt, EditDeck
<1>9. ASSUME NEW s \in Submissions, Message(s) \/ Steer(s) PROVE handler'[d] = handler[d]
  BY <1>a, <1>9 DEF Message, Steer, Admit, Idle, TurnConstants
<1>10. ASSUME NEW s \in Submissions, Claim(s) \/ Running(s) \/ Interrupt(s) \/ Lapse(s)
       PROVE  handler' = handler
  BY <1>10 DEF Claim, Running, Start, Drop, Ask, Call, Finish, Look, Close, Interrupt, Lapse
<1>11. CASE UNCHANGED vars
  BY <1>1, <1>11 DEF vars
<1> QED
  BY <1>1, <1>2, <1>3, <1>4, <1>5, <1>6, <1>7, <1>8, <1>9, <1>10, <1>11 DEF Next, Posting

\* A session keeps its turn until its work is done, or the worker, the request or
\* nobody has it.
LEMMA SessionKept ==
  ASSUME TurnConstants, Accounts, [Next]_vars, NEW t \in Submissions, Live(t), Live(t)',
         NEW d \in Decks, session[d].busy, session[d].turn = t
  PROVE  Held(t)'
<1>0. /\ Tied /\ TypeOK /\ SessionTied(d) /\ t # None
      /\ session[d].job \in Submissions /\ DeckOf[session[d].job] = d
      /\ paidBy[session[d].job] = t
  BY DEF Accounts, Tied, TurnConstants, SessionTied, TypeOK
<1> DEFINE j == session[d].job
<1>1. CASE session'[d] = session[d]
  BY <1>1 DEF Held, Holds
<1>2. ASSUME NEW e \in Decks, Save(e) PROVE Held(t)'
  <2>1. CASE e = d
    <3>1. handler[d].turn = t
      BY <1>0, <1>2, <2>1 DEF Tied, OneWriter, Save
    <3> QED
      BY <1>0, <1>2, <2>1, <3>1, SavedHolds DEF Held
  <2>2. CASE e # d
    BY <1>0, <1>1, <1>2, <2>2 DEF Save, TypeOK
  <2> QED
    BY <2>1, <2>2
<1>3. ASSUME NEW e \in Decks, NEW ending \in {"superseded", "stopped"}, End(e, ending), e # d
      PROVE  session'[d] = session[d]
  BY <1>0, <1>3 DEF End, TypeOK
<1>4. CASE StopStore(d)
  <2>1. t \in abandoned /\ abandoned' = abandoned
    BY <1>4 DEF Accounts, Stopping, StopStore, history
  <2> QED
    BY <2>1 DEF Held
<1>5. CASE Settings(d)
  BY <1>0, <1>5 DEF Settings, Held, Holds, TypeOK
<1>6. ASSUME LeftBehind(d) = abandoned', UNCHANGED <<paidBy, work>> PROVE Held(t)'
  BY <1>6 DEF LeftBehind, Held, Attended, Working
<1>7. CASE Adopt(d)
  BY <1>6, <1>7 DEF Adopt, End
<1>8. ASSUME NEW s \in Submissions, Claim(s) PROVE Held(t)'
  <2>1. CASE session' = session
    BY <1>1, <2>1
  <2>2. CASE /\ session' = [session EXCEPT ![DeckOf[s]].busy = FALSE] /\ UNCHANGED work
             /\ abandoned' = LeftBehind(DeckOf[s])
    <3>1. CASE DeckOf[s] = d
      BY <1>6, <1>8, <2>2, <3>1 DEF Claim
    <3>2. CASE DeckOf[s] # d
      BY <1>0, <1>1, <2>2, <3>2 DEF TypeOK
    <3> QED
      BY <3>1, <3>2
  <2> QED
    BY <1>8, <2>1, <2>2 DEF Claim
<1>9. ASSUME NEW s \in Submissions, Drop(s) \/ Finish(s) PROVE Held(t)'
  <2>1. work' = [work EXCEPT ![s] = "leaving"]
    BY <1>9 DEF Drop, Finish, Goes
  <2>2. ASSUME NEW ending \in {"completed", "superseded"}, Retired(s, ending) PROVE Held(t)'
    <3>1. CASE Current(s) /\ DeckOf[s] = d
      <4>1. s = j /\ paidBy' = paidBy /\ work'[s] = "leaving"
        BY <1>0, <2>1, <2>2, <3>1 DEF Current, Retired, TypeOK
      <4> QED
        BY <1>0, <4>1 DEF Held, Attended, Working
    <3>2. CASE ~(Current(s) /\ DeckOf[s] = d)
      BY <1>0, <2>2, <3>2, RetiredEffect DEF Held, Holds
    <3> QED
      BY <3>1, <3>2
  <2> QED
    BY <1>1, <1>9, <2>2, FinishCases DEF Drop
<1>10. ASSUME NEW s \in Submissions, Interrupt(s) PROVE Held(t)'
  <2>1. CASE DeckOf[s] # d
    BY <1>0, <1>1, <1>10, <2>1 DEF Interrupt, TypeOK
  <2>2. CASE DeckOf[s] = d
    <3>1. s = j /\ job[s] = "running" /\ UNCHANGED <<paidBy, work, abandoned>>
      BY <1>10, <2>2 DEF Interrupt, Current, history
    <3>2. CASE work[s] = "idle"
      BY <1>0, <3>1, <3>2 DEF Accounts, Orphaned, Held
    <3>3. CASE work[s] \in {"claimed", "running", "asking"}
      BY <1>0, <3>1, <3>3 DEF Held, Attended, Working
    <3> QED
      BY <1>10, <3>2, <3>3 DEF Interrupt
  <2> QED
    BY <2>1, <2>2
<1>11. ASSUME NEW e \in Decks, StopStore(e) \/ Settings(e) \/ Adopt(e) PROVE Held(t)'
  <2>1. End(e, "stopped") \/ End(e, "superseded")
    BY <1>11 DEF StopStore, Settings, Adopt
  <2> QED
    BY <1>1, <1>3, <1>4, <1>5, <1>7, <1>11, <2>1
<1>12. ASSUME NEW e \in Decks, Reject(e) \/ StopClose(e) \/ Settle(e) \/ SaveFails(e) \/ Stop(e)
                                 \/ EditDeck(e)
       PROVE  session' = session
  BY <1>12 DEF Reject, StopClose, Settle, SaveFails, Stop, EditDeck, store
<1>13. ASSUME NEW s \in Submissions, Message(s) \/ Steer(s) \/ Lapse(s) \/ Start(s) \/ Ask(s)
                                       \/ Call(s) \/ Look(s) \/ Close(s)
       PROVE  session' = session
  BY <1>13 DEF Message, Steer, Lapse, Start, Ask, Call, Look, Close, store
<1>14. CASE Crash \/ UNCHANGED vars
  BY <1>1, <1>14 DEF Crash, vars, store
<1> QED
  BY <1>1, <1>2, <1>8, <1>9, <1>10, <1>11, <1>12, <1>13, <1>14 DEF Next, Posting, Running

\* So no live turn is lost.
LEMMA HeldStep ==
  ASSUME TurnConstants, Accounts, [Next]_vars, NEW t \in Submissions, Live(t)'
  PROVE  Held(t)'
<1>0. Tied /\ TypeOK
  BY DEF Accounts, Tied
<1>1. CASE ~Live(t)
  <2>1. Opens(t) /\ DeckOf[t] \in Decks
    BY <1>0, <1>1, LiveKept DEF TurnConstants
  <2>2. handler' = [handler EXCEPT ![DeckOf[t]] = [phase |-> "admitted", job |-> t, turn |-> t]]
    BY <1>0, <2>1, OpensEffect
  <2> QED
    BY <1>0, <2>1, <2>2 DEF Held, Holds, TypeOK
<1>2. CASE Live(t)
  <2>1. Held(t)
    BY <1>2 DEF Accounts
  <2>2. CASE t \in abandoned
    BY <1>0, <2>2, AbandonedKept, SavedHolds DEF Held
  <2>3. CASE Attended(t)
    BY <1>0, <1>2, <2>3, AttendedKept
  <2>4. ASSUME NEW d \in Decks, Holds(d, t) PROVE Held(t)'
    BY <1>0, <1>2, <2>4, RequestKept, SessionKept DEF Holds
  <2> QED
    BY <2>1, <2>2, <2>3, <2>4 DEF Held
<1> QED
  BY <1>1, <1>2

LEMMA OrphanStep ==
  ASSUME TurnConstants, Accounts, [Next]_vars, NEW s \in Submissions
  PROVE  Orphaned(s)'
<1> SUFFICES ASSUME job'[s] = "running", work'[s] = "idle", Live(paidBy[s])', paidBy'[s] = paidBy[s],
                    job[s] = "running"
             PROVE  paidBy[s] \in abandoned'
  <2>1. Claim(s) /\ job'[s] = "running" => work'[s] = "claimed"
    BY DEF Claim, Goes, Accounts, Tied, TypeOK
  <2> QED
    BY <2>1, RunningKept, PaidKept DEF Orphaned, Live, Accounts
<1> DEFINE t == paidBy[s]
<1>0. Tied /\ TypeOK /\ JobTied(s) /\ Orphaned(s)
  BY DEF Accounts, Tied
<1>1. t \in Submissions /\ DeckOf[t] = DeckOf[s] /\ turn[t] # "none"
  BY <1>0 DEF JobTied, TypeOK
<1>2. Live(t)
  BY <1>0, <1>1, LiveKept, OpensEffect
<1>3. CASE work[s] = "idle"
  <2>1. ASSUME NEW e \in Decks, Save(e), handler[e].turn = t PROVE FALSE
    <3>1. e = DeckOf[s] /\ session[e].job = s /\ handler[e].job \in Submissions /\ handler[e].job # s
      BY <1>0, <1>1, <2>1 DEF Tied, HandlerTied, JobTied, Save, Active, TypeOK, TurnConstants
    <3> QED
      BY <1>0, <2>1, <3>1, CancelledJobs DEF Save, Active
  <2> QED
    BY <1>0, <1>1, <1>2, <1>3, <2>1, AbandonedKept DEF Orphaned
<1>4. CASE work[s] # "idle"
  <2>1. ~Look(s) /\ ~Close(s)
    BY <1>0 DEF JobTied, Look, Close
  <2>2. Crash
    BY <1>0, <1>4, <2>1, IdleCases
  <2> QED
    BY <1>1, <1>2, <2>2 DEF Crash
<1> QED
  BY <1>3, <1>4

\* While a request is under way, its session keeps its turn.
LEMMA SessionTurnKept ==
  ASSUME TurnConstants, Tied, [Next]_vars, NEW d \in Decks, handler[d].phase # "admitted"
  PROVE  session'[d].turn = session[d].turn
<1>0. TypeOK
  BY DEF Tied
<1>1. ASSUME NEW e \in Decks, Save(e) PROVE session'[d].turn = session[d].turn
  BY <1>0, <1>1 DEF Save, TypeOK
<1>2. ASSUME NEW e \in Decks, NEW ending \in {"superseded", "stopped"}, End(e, ending)
      PROVE  session'[d].turn = session[d].turn
  BY <1>0, <1>2, Unbusied DEF End
<1>3. ASSUME NEW s \in Submissions, Claim(s) \/ Interrupt(s) PROVE session'[d].turn = session[d].turn
  <2>1. session' = session \/ session' = [session EXCEPT ![DeckOf[s]].busy = FALSE]
    BY <1>3 DEF Claim, Interrupt
  <2>2. DeckOf[s] \in Decks
    BY DEF TurnConstants
  <2> QED
    BY <1>0, <2>1, <2>2, Unbusied
<1>4. ASSUME NEW s \in Submissions, Drop(s) \/ Finish(s) PROVE session'[d].turn = session[d].turn
  BY <1>4, RetiredEffect, FinishCases DEF Drop
<1> QED
  BY <1>1, <1>2, <1>3, <1>4, StoreCases

LEMMA StoppingStep ==
  ASSUME TurnConstants, Accounts, [Next]_vars, NEW d \in Decks
  PROVE  Stopping(d)'
<1>0. Tied /\ TypeOK /\ SessionTied(d) /\ Stopping(d)
  BY DEF Accounts, Tied
<1> DEFINE H == [phase : {"idle", "admitted", "rejected", "stopping", "ending", "settling"},
                 job : Submissions \cup {None}, turn : Submissions \cup {None}]
<1>a. handler \in [Decks -> H]
  BY <1>0 DEF TypeOK
<1>b. PICK t \in Submissions \cup {None} : t = session[d].turn
  BY <1>0 DEF TypeOK
\* Every step that leaves the request where it was.
<1>1. CASE handler'[d] = handler[d]
  <2>1. CASE handler[d].phase = "stopping"
    BY <1>0, <1>1, <2>1, SessionTurnKept DEF Stopping
  <2>2. CASE handler[d].phase = "ending" /\ Live(t)'
    <3>1. t \in Submissions
      BY <1>0, <2>2 DEF Live, TypeOK
    <3>2. turn[t] # "none"
      <4>1. session[d].job \in Submissions /\ t = paidBy[session[d].job]
        BY <1>0, <1>b, <3>1 DEF SessionTied, TypeOK, TurnConstants
      <4> QED
        BY <1>0, <3>1, <4>1 DEF Tied, JobTied, TurnConstants
    <3>3. Live(t)
      BY <1>0, <2>2, <3>1, <3>2, LiveKept, OpensEffect
    <3>4. ASSUME NEW e \in Decks, Save(e) PROVE handler[e].turn # t
      <4>1. DeckOf[handler[e].turn] = e /\ handler[e].phase = "admitted"
        BY <1>0, <3>4 DEF Tied, HandlerTied, Save
      <4>2. DeckOf[t] = d
        <5>1. session[d].job \in Submissions /\ DeckOf[session[d].job] = d /\ t = paidBy[session[d].job]
          BY <1>0, <1>b, <3>1 DEF SessionTied, TypeOK, TurnConstants
        <5> QED
          BY <1>0, <3>1, <5>1 DEF Tied, JobTied, TurnConstants
      <4> QED
        BY <2>2, <4>1, <4>2
    <3>5. t \in abandoned'
      BY <1>0, <2>2, <3>1, <3>3, <3>4, <1>b, AbandonedKept DEF Stopping
    <3> QED
      BY <1>0, <1>1, <1>b, <2>2, <3>5, SessionTurnKept DEF Stopping
  <2>3. CASE handler[d].phase = "ending" /\ ~Live(t)'
    BY <1>0, <1>1, <1>b, <2>3, SessionTurnKept DEF Stopping, Live
  <2>4. CASE handler[d].phase \notin {"stopping", "ending"}
    BY <1>1, <2>4 DEF Stopping
  <2> QED
    BY <2>1, <2>2, <2>3, <2>4
<1>2. CASE Stop(d)
  BY <1>a, <1>b, <1>2 DEF Stop, Stopping, store
<1>3. CASE StopClose(d)
  <2>1. /\ handler'[d].phase = "ending" /\ session' = session /\ CloseTurn(t) /\ lapsed' = lapsed
    BY <1>0, <1>a, <1>b, <1>3 DEF StopClose, Stopping, store
  <2>2. t # None => ~Live(t)' \/ t \in abandoned'
    BY <1>0, <2>1, CloseTurnEffect
  <2>3. Live(session[d].turn)' => t # None /\ Live(t)'
    BY <1>b, <2>1 DEF Live
  <2> QED
    BY <1>b, <2>1, <2>2, <2>3 DEF Stopping
<1>4. CASE handler'[d].phase \notin {"stopping", "ending"}
  BY <1>4 DEF Stopping
<1>5. ASSUME NEW e \in Decks, Posting(e) \/ SaveFails(e) \/ Stop(e) \/ Settings(e) \/ Adopt(e)
                                \/ EditDeck(e)
      PROVE  \/ handler'[d] = handler[d] \/ handler'[d].phase \notin {"stopping", "ending"}
             \/ Stop(d) \/ StopClose(d)
  BY <1>a, <1>5 DEF Posting, Save, Reject, StopClose, StopStore, Settle, SaveFails, Stop, Settings,
     Adopt, EditDeck, NoPost
<1>6. ASSUME NEW s \in Submissions, Message(s) \/ Steer(s)
      PROVE  handler'[d] = handler[d] \/ handler'[d].phase \notin {"stopping", "ending"}
  BY <1>a, <1>6 DEF Message, Steer, Admit, TurnConstants
<1>7. ASSUME NEW s \in Submissions, Claim(s) \/ Running(s) \/ Interrupt(s) \/ Lapse(s)
      PROVE  handler' = handler
  BY <1>7 DEF Claim, Running, Start, Drop, Ask, Call, Finish, Look, Close, Interrupt, Lapse
<1>8. CASE Crash
  BY <1>4, <1>8 DEF Crash, NoPost
<1>9. CASE UNCHANGED vars
  BY <1>1, <1>9 DEF vars
<1> QED
  BY <1>1, <1>2, <1>3, <1>4, <1>5, <1>6, <1>7, <1>8, <1>9 DEF Next

(***************************************************************************)
(* No turn is forgotten: a turn that still spends is in the hands of a     *)
(* busy session, of a request or a worker that will decide about it, or of *)
(* nobody for one of the reasons the code accepts (a failed close, a       *)
(* crash, adoption or an edit).  The two stores commit separately; the     *)
(* turn is handed on from the request that opened it to the session, from  *)
(* there to the worker or the request that ends the work, and whoever lets *)
(* go of it last closes it.                                                *)
(***************************************************************************)
THEOREM Accounted == ASSUME TurnConstants PROVE Spec => []TurnsAccounted
<1>1. Init => Accounts
  BY InitTied DEF Init, Accounts, Live, Orphaned, Stopping, NoPost
<1>2. Accounts /\ [Next]_vars => Accounts'
  <2> SUFFICES ASSUME Accounts, [Next]_vars PROVE Accounts'
    OBVIOUS
  <2>1. Tied'
    BY TiedStep DEF Accounts
  <2> QED
    BY <2>1, HeldStep, OrphanStep, StoppingStep DEF Accounts
<1>3. Accounts => TurnsAccounted
  BY DEF Accounts, Held, Holds, TurnsAccounted
<1> QED
  BY <1>1, <1>2, <1>3, PTL DEF Spec

-----------------------------------------------------------------------------
(* What the user sees of the authority                                      *)

(***************************************************************************)
(* Refinement: through every route and worker, the turns of a user keep    *)
(* the promise of TurnLedger: each begins once, when no other is live, and *)
(* is over for good once it ends.                                          *)
(***************************************************************************)
THEOREM Refinement == ASSUME TurnConstants PROVE Spec => KeepsLedger
<1> DEFINE phase == [s \in Submissions |->
                       IF turn[s] = "none" THEN "new" ELSE IF Live(s) THEN "live" ELSE "over"]
           Inv == Tied /\ \A t \in lapsed : turn[t] # "none"
<1>1. Init => Ledger!Init
  BY DEF Init, Ledger!Init
<1>2. Inv /\ [Next]_vars => [Ledger!Next]_phase
  <2> SUFFICES ASSUME Inv, [Next]_vars PROVE Ledger!Next \/ phase' = phase
    OBVIOUS
  <2>0. TypeOK /\ None \notin Submissions
    BY DEF Tied, TurnConstants
  <2>1. CASE UNCHANGED authority
    BY <2>1 DEF authority, Live
  <2>2. ASSUME NEW s \in Submissions, Opens(s) PROVE Ledger!Next \/ phase' = phase
    <3>1. /\ turn' = [turn EXCEPT ![s] = "open"] /\ lapsed' = lapsed
          /\ \A u \in Submissions \ {s} : ~Live(u) /\ ~Live(u)'
          /\ Live(s) \/ turn[s] = "none"
      BY <2>2, OpensEffect
    <3>2. CASE Live(s)
      BY <2>0, <3>1, <3>2 DEF Live, TypeOK
    <3>3. CASE turn[s] = "none"
      <4>1. s \notin lapsed
        BY <3>3
      <4>2. phase' = [phase EXCEPT ![s] = "live"]
        BY <2>0, <3>1, <3>3, <4>1 DEF Live, TypeOK
      <4>3. phase[s] = "new" /\ \A r \in Submissions : phase[r] # "live"
        BY <2>0, <3>1, <3>3 DEF Live, TypeOK
      <4>4. Ledger!Begin(s)
        BY <4>2, <4>3 DEF Ledger!Begin
      <4> QED
        BY <4>4 DEF Ledger!Next
    <3> QED
      BY <3>1, <3>2, <3>3
  <2>3. ASSUME \A t \in Submissions : /\ turn'[t] = "none" <=> turn[t] = "none"
                                      /\ Live(t)' => Live(t)
        PROVE  Ledger!Next
    <3>1. PICK ending \in SUBSET Submissions : ending = {t \in Submissions : Live(t) /\ ~Live(t)'}
      OBVIOUS
    <3>2. \A t \in Submissions : phase'[t] = IF t \in ending THEN "over" ELSE phase[t]
      BY <2>0, <2>3, <3>1 DEF Live
    <3>3. phase' = [t \in Submissions |-> IF t \in ending THEN "over" ELSE phase[t]]
      BY <3>2 DEF Live
    <3>4. \A t \in ending : phase[t] = "live"
      BY <3>1 DEF Live
    <3>5. Ledger!End(ending)
      BY <3>3, <3>4 DEF Ledger!End, Live
    <3> QED
      BY <3>5 DEF Ledger!Next
  <2>4. ASSUME NEW s \in Submissions, Lapse(s) PROVE Ledger!Next
    BY <2>3, <2>4 DEF Lapse, Live
  <2>5. ASSUME NEW t \in Submissions \cup {None}, Closes(t) PROVE Ledger!Next
    <3>1. \A u \in Submissions : turn'[u] = "none" <=> turn[u] = "none"
      BY <2>0, <2>5, CloseTurnEffect, TurnsKept DEF Closes
    <3> QED
      BY <2>0, <2>3, <2>5, <3>1, CloseTurnEffect DEF Closes
  <2> QED
    BY <2>1, <2>2, <2>4, <2>5, TurnCases
<1>3. Init => Inv
  BY InitTied DEF Init
<1>4. Inv /\ [Next]_vars => Inv'
  <2> SUFFICES ASSUME Inv, [Next]_vars, NEW t \in lapsed' PROVE turn'[t] # "none"
    BY TiedStep
  <2>1. TypeOK /\ TypeOK'
    BY TypeStep DEF Tied
  <2>2. t \in Submissions
    BY <2>1 DEF TypeOK
  <2>3. turn[t] # "none"
    <3>1. CASE t \in lapsed
      BY <3>1
    <3>2. CASE t \notin lapsed
      BY <3>2, TurnCases DEF authority, Opens, Closes, Lapse, Live
    <3> QED
      BY <3>1, <3>2
  <2> QED
    BY <2>2, <2>3, TurnsKept
<1> QED
  BY <1>1, <1>2, <1>3, <1>4, PTL DEF Spec, KeepsLedger, Ledger!Spec
=============================================================================
