-------------------------- MODULE DeckTrials_proofs --------------------------
(***************************************************************************)
(* Proofs about DeckSaves, Experiments and DeckSimulations, for every      *)
(* value of their constants that SaveConstants, ExperimentsAssumption and  *)
(* SimulationsAssumption admit.                                            *)
(***************************************************************************)
EXTENDS DeckTrials, WellFoundedInduction, SequenceTheorems, TLAPS

-----------------------------------------------------------------------------
(* Saves                                                                    *)

-----------------------------------------------------------------------------
(* Types                                                                    *)

LEMMA SentSplit ==
  ASSUME SaveConstants
  PROVE  /\ Sent \subseteq Packets
         /\ \A p \in Packets : p.expected # None => p \in Sent
         /\ \A p \in Sent : p.expected # None /\ p # None
<1>1. None \notin Nat /\ None \notin Packets
  BY DEF SaveConstants
<1> QED
  BY <1>1 DEF Packets, Sent

\* The fields of a page after it was changed.
LEMMA PageFields ==
  ASSUME NEW g \in Pages
  PROVE  /\ g.revision \in Nat /\ g.queue \in Seq(Packets) /\ g.sending \in Sent \cup {None}
         /\ g.failed \in Sent \cup {None} /\ g.answer \in Answers \cup {None}
         /\ g.adopted \in Nat \cup {None}
         /\ \A n \in Nat : [g EXCEPT !.revision = n] \in Pages
         /\ \A q \in Seq(Packets) : [g EXCEPT !.queue = q] \in Pages
         /\ \A p \in Sent \cup {None} : [g EXCEPT !.sending = p] \in Pages
         /\ \A p \in Sent \cup {None} : [g EXCEPT !.failed = p] \in Pages
         /\ \A a \in Answers \cup {None} : [g EXCEPT !.answer = a] \in Pages
         /\ \A n \in Nat \cup {None} : [g EXCEPT !.adopted = n] \in Pages
BY DEF Pages

LEMMA InitTypes ==
  ASSUME SaveConstants, Init
  PROVE  TypeOK
<1>1. Fresh \in Pages
  <2>1. Len(log) = 0 /\ <<>> \in Seq(Packets)
    BY DEF Init
  <2> QED
    BY <2>1 DEF Fresh, Pages, Revision
<1>2. page \in [Tabs -> Pages]
  BY <1>1 DEF Init
<1> QED
  BY <1>2 DEF Init, TypeOK

\* What is applied is one change more.
LEMMA LogGrows ==
  ASSUME TypeOK, NEW c \in Changes
  PROVE  /\ Append(log, c) \in Seq(Changes)
         /\ Len(Append(log, c)) = Len(log) + 1 /\ Len(log) \in Nat
         /\ \A i \in 1..Len(log) : Append(log, c)[i] = log[i]
         /\ Append(log, c)[Len(log) + 1] = c
BY DEF TypeOK

LEMMA RequestFields ==
  ASSUME TypeOK, NEW r \in wire
  PROVE  /\ r.packet \in Sent /\ r.to \in Tabs \cup {None}
         /\ r.packet.edit \in Edits /\ r.packet.fresh \in BOOLEAN /\ r.packet.expected \in Nat
<1>1. r \in Requests
  BY DEF TypeOK
<1>2. r.packet \in Sent /\ r.to \in Tabs \cup {None}
  BY <1>1 DEF Requests
<1> QED
  BY <1>2 DEF Sent

LEMMA AbandonTypes ==
  ASSUME TypeOK, NEW t \in Tabs, NEW dropped \in BOOLEAN
  PROVE  /\ Abandon(t, dropped) \subseteq Requests
         /\ \A r \in Abandon(t, dropped) : \E q \in wire :
              r.packet = q.packet /\ (r.to = None \/ (r = q /\ q.to # t))
<1>1. wire \subseteq Requests
  BY DEF TypeOK
<1>2. \A r \in Requests : [r EXCEPT !.to = None] \in Requests
                          /\ [r EXCEPT !.to = None].packet = r.packet
                          /\ [r EXCEPT !.to = None].to = None
  BY DEF Requests
<1>3. ASSUME NEW r \in Abandon(t, dropped)
      PROVE  \/ r \in wire /\ r.to # t
             \/ \E q \in wire : r = [q EXCEPT !.to = None]
  BY <1>3 DEF Abandon
<1>4. ASSUME NEW r \in Abandon(t, dropped)
      PROVE  /\ r \in Requests
             /\ \E q \in wire : r.packet = q.packet /\ (r.to = None \/ (r = q /\ q.to # t))
  <2>1. CASE r \in wire /\ r.to # t
    BY <1>1, <2>1
  <2>2. CASE \E q \in wire : r = [q EXCEPT !.to = None]
    <3>1. PICK q \in wire : r = [q EXCEPT !.to = None]
      BY <2>2
    <3>2. q \in Requests
      BY <1>1
    <3> QED
      BY <1>2, <3>1, <3>2
  <2> QED
    BY <1>3, <1>4, <2>1, <2>2
<1> QED
  BY <1>4

LEMMA AnsweredPage ==
  ASSUME SaveConstants, TypeOK, NEW r \in wire, NEW n \in Nat,
         NEW kind \in {"ok", "conflict", "refused"}, page' = Answered(r, kind, n)
  PROVE  /\ page' \in [Tabs -> Pages]
         /\ \A t \in Tabs :
              /\ page'[t].revision = page[t].revision
              /\ page'[t].queue = page[t].queue
              /\ page'[t].sending = page[t].sending
              /\ page'[t].failed = page[t].failed
              /\ page'[t].adopted = page[t].adopted
              /\ r.to = t => page'[t].answer = [kind |-> kind, revision |-> n]
              /\ r.to # t => page'[t].answer = page[t].answer
<1> DEFINE a == [kind |-> kind, revision |-> n]
<1>1. a \in Answers
  BY DEF Answers
<1>2. page \in [Tabs -> Pages]
  BY DEF TypeOK
<1>3. None \notin Tabs
  BY DEF SaveConstants
<1>4. \A t \in Tabs : page[t] \in Pages /\ [page[t] EXCEPT !.answer = a] \in Pages
  BY <1>1, <1>2, PageFields
<1>5. \A g \in Pages : /\ [g EXCEPT !.answer = a].revision = g.revision
                       /\ [g EXCEPT !.answer = a].queue = g.queue
                       /\ [g EXCEPT !.answer = a].sending = g.sending
                       /\ [g EXCEPT !.answer = a].failed = g.failed
                       /\ [g EXCEPT !.answer = a].adopted = g.adopted
                       /\ [g EXCEPT !.answer = a].answer = a
  BY DEF Pages
<1>6. \A t \in Tabs : page'[t] =
                        IF r.to = t THEN [page[t] EXCEPT !.answer = a] ELSE page[t]
  BY <1>2, <1>3, RequestFields DEF Answered
<1>7. page' \in [Tabs -> Pages]
  BY <1>2, <1>4, RequestFields DEF Answered
<1>8. ASSUME NEW t \in Tabs
      PROVE  /\ page'[t].revision = page[t].revision
             /\ page'[t].queue = page[t].queue
             /\ page'[t].sending = page[t].sending
             /\ page'[t].failed = page[t].failed
             /\ page'[t].adopted = page[t].adopted
             /\ r.to = t => page'[t].answer = a
             /\ r.to # t => page'[t].answer = page[t].answer
  <2>1. page[t] \in Pages
    BY <1>2
  <2> HIDE DEF a
  <2>2. CASE r.to = t
    BY <1>5, <1>6, <2>1, <2>2
  <2>3. CASE r.to # t
    BY <1>6, <2>3
  <2> QED
    BY <2>2, <2>3
<1> QED
  BY <1>7, <1>8

\* What a step leaves of the page it changes, and what it puts there.
Becomes(t, revision, queue, sending, failed, answer, adopted) ==
    /\ page' \in [Tabs -> Pages]
    /\ \A u \in Tabs : u # t => page'[u] = page[u]
    /\ page'[t].revision = revision /\ page'[t].queue = queue /\ page'[t].sending = sending
    /\ page'[t].failed = failed /\ page'[t].answer = answer /\ page'[t].adopted = adopted

\* An EXCEPT of any fields of a page.
LEMMA Rewritten ==
  ASSUME TypeOK, NEW t \in Tabs, NEW g \in Pages, page' = [page EXCEPT ![t] = g]
  PROVE  Becomes(t, g.revision, g.queue, g.sending, g.failed, g.answer, g.adopted)
BY DEF TypeOK, Becomes

LEMMA EditPage ==
  ASSUME SaveConstants, TypeOK, NEW t \in Tabs, NEW e \in Edits, Edit(t, e)
  PROVE  LET p == [edit |-> e, fresh |-> FALSE, expected |-> None] IN
         /\ p \in Packets
         /\ Becomes(t, page[t].revision, Append(page[t].queue, p), page[t].sending,
                    page[t].failed, page[t].answer, page[t].adopted)
<1> DEFINE p == [edit |-> e, fresh |-> FALSE, expected |-> None]
<1>1. p \in Packets
  BY DEF Packets
<1>2. page[t] \in Pages
  BY DEF TypeOK
<1>3. Append(page[t].queue, p) \in Seq(Packets)
  <2>1. page[t].queue \in Seq(Packets)
    BY <1>2, PageFields
  <2> QED
    BY <1>1, <2>1
<1>4. PICK g : g = [page[t] EXCEPT !.queue = Append(page[t].queue, p)]
  OBVIOUS
<1>5. page' = [page EXCEPT ![t] = g]
  BY <1>4 DEF Edit, Enqueue
<1>6. /\ g \in Pages /\ g.queue = Append(page[t].queue, p)
      /\ g.revision = page[t].revision /\ g.sending = page[t].sending
      /\ g.failed = page[t].failed /\ g.answer = page[t].answer /\ g.adopted = page[t].adopted
  <2> HIDE DEF p
  <2> QED
    BY <1>2, <1>3, <1>4 DEF Pages
<1>7. Becomes(t, g.revision, g.queue, g.sending, g.failed, g.answer, g.adopted)
  BY <1>5, <1>6, Rewritten
<1> QED
  BY <1>1, <1>6, <1>7

LEMMA SendPage ==
  ASSUME SaveConstants, TypeOK, NEW t \in Tabs, Send(t)
  PROVE  /\ page[t].sending = None /\ page[t].queue # <<>>
         /\ \E p \in Sent :
              /\ p.edit = Head(page[t].queue).edit /\ p.fresh = Head(page[t].queue).fresh
              /\ IF Head(page[t].queue).expected = None
                 THEN p.expected = page[t].revision
                 ELSE p = Head(page[t].queue)
              /\ storage' = p /\ wire' = wire \cup {[packet |-> p, to |-> t]}
              /\ Becomes(t, page[t].revision, Tail(page[t].queue), p,
                         page[t].failed, page[t].answer, page[t].adopted)
<1> DEFINE head == Head(page[t].queue)
<1>0. page[t] \in Pages
  BY DEF TypeOK
<1>1. page[t].queue \in Seq(Packets) /\ page[t].revision \in Nat
  BY <1>0, PageFields
<1>2. page[t].sending = None /\ page[t].queue # <<>>
  BY DEF Send
<1>3. head \in Packets /\ Tail(page[t].queue) \in Seq(Packets)
  BY <1>1, <1>2
<1>4. PICK p : /\ p = IF head.expected = None
                      THEN [head EXCEPT !.expected = page[t].revision] ELSE head
               /\ page' = [page EXCEPT ![t].sending = p, ![t].queue = Tail(@)]
               /\ storage' = p /\ wire' = wire \cup {[packet |-> p, to |-> t]}
  BY DEF Send
<1>5. /\ p \in Sent /\ p.edit = head.edit /\ p.fresh = head.fresh
      /\ IF head.expected = None THEN p.expected = page[t].revision ELSE p = head
  <2> HIDE DEF head
  <2>1. CASE head.expected = None
    BY <1>1, <1>3, <1>4, <2>1 DEF Packets, Sent
  <2>2. CASE head.expected # None
    BY <1>3, <1>4, <2>2, SentSplit
  <2> QED
    BY <2>1, <2>2
<1>6. PICK g : g = [page[t] EXCEPT !.sending = p, !.queue = Tail(page[t].queue)]
  OBVIOUS
<1>7. page' = [page EXCEPT ![t] = g]
  BY <1>4, <1>6 DEF TypeOK
<1>8. /\ g \in Pages /\ g.queue = Tail(page[t].queue) /\ g.sending = p
      /\ g.revision = page[t].revision
      /\ g.failed = page[t].failed /\ g.answer = page[t].answer /\ g.adopted = page[t].adopted
  BY <1>0, <1>3, <1>5, <1>6 DEF Pages
<1>9. Becomes(t, g.revision, g.queue, g.sending, g.failed, g.answer, g.adopted)
  BY <1>7, <1>8, Rewritten
<1> QED
  BY <1>2, <1>4, <1>5, <1>8, <1>9

LEMMA SavedPage ==
  ASSUME SaveConstants, TypeOK, NEW t \in Tabs, Saved(t)
  PROVE  /\ page[t].answer \in Answers
         /\ Becomes(t, page[t].answer.revision, page[t].queue, None, None, None,
                    page[t].adopted)
<1>1. page[t] \in Pages
  BY DEF TypeOK
<1>2. page[t].answer \in Answers
  BY <1>1, PageFields DEF Saved
<1>3. page[t].answer.revision \in Nat
  BY <1>2 DEF Answers
<1>4. PICK g : g = [page[t] EXCEPT !.revision = page[t].answer.revision, !.sending = None,
                                   !.failed = None, !.answer = None]
  OBVIOUS
<1>5. page' = [page EXCEPT ![t] = g]
  BY <1>4 DEF TypeOK, Saved
<1>6. /\ g \in Pages /\ g.revision = page[t].answer.revision /\ g.queue = page[t].queue
      /\ g.sending = None /\ g.failed = None /\ g.answer = None
      /\ g.adopted = page[t].adopted
  BY <1>1, <1>3, <1>4 DEF Pages
<1> QED
  BY <1>2, <1>5, <1>6, Rewritten

LEMMA RefusedPage ==
  ASSUME SaveConstants, TypeOK, NEW t \in Tabs, Refused(t)
  PROVE  /\ page[t].answer \in Answers
         /\ \E n \in {page[t].revision, Revision} :
              Becomes(t, n, page[t].queue, None, page[t].sending, None, page[t].adopted)
<1>1. page[t] \in Pages /\ Revision \in Nat
  BY DEF TypeOK, Revision
<1>2. page[t].answer \in Answers
  BY <1>1, PageFields DEF Refused
<1>3. PICK n : n = IF page[t].answer.kind = "conflict" THEN Revision ELSE page[t].revision
  OBVIOUS
<1>4. n \in Nat /\ n \in {page[t].revision, Revision}
  BY <1>1, <1>3 DEF Pages
<1>5. PICK g : g = [page[t] EXCEPT !.revision = n, !.failed = page[t].sending,
                                   !.sending = None, !.answer = None]
  OBVIOUS
<1>6. page' = [page EXCEPT ![t] = g]
  BY <1>3, <1>5 DEF TypeOK, Refused
<1>7. /\ g \in Pages /\ g.revision = n /\ g.queue = page[t].queue
      /\ g.sending = None /\ g.failed = page[t].sending /\ g.answer = None
      /\ g.adopted = page[t].adopted
  BY <1>1, <1>4, <1>5 DEF Pages
<1> QED
  BY <1>2, <1>4, <1>6, <1>7, Rewritten

LEMMA FailPage ==
  ASSUME SaveConstants, TypeOK, NEW t \in Tabs, NEW dropped \in BOOLEAN, Fail(t, dropped)
  PROVE  Becomes(t, page[t].revision, page[t].queue, None, page[t].sending, None,
                 page[t].adopted)
<1>1. page[t] \in Pages
  BY DEF TypeOK
<1>2. PICK g : g = [page[t] EXCEPT !.failed = page[t].sending, !.sending = None,
                                   !.answer = None]
  OBVIOUS
<1>3. page' = [page EXCEPT ![t] = g]
  BY <1>2 DEF TypeOK, Fail
<1>4. /\ g \in Pages /\ g.revision = page[t].revision /\ g.queue = page[t].queue
      /\ g.sending = None /\ g.failed = page[t].sending /\ g.answer = None
      /\ g.adopted = page[t].adopted
  BY <1>1, <1>2 DEF Pages
<1> QED
  BY <1>3, <1>4, Rewritten

LEMMA RetryPage ==
  ASSUME SaveConstants, TypeOK, NEW t \in Tabs, Retry(t)
  PROVE  /\ page[t].failed \in Sent
         /\ Becomes(t, page[t].revision, Append(page[t].queue, page[t].failed),
                    page[t].sending, None, page[t].answer, page[t].adopted)
<1>1. page[t] \in Pages
  BY DEF TypeOK
<1>2. page[t].failed \in Sent /\ page[t].queue \in Seq(Packets)
  BY <1>1, PageFields DEF Retry
<1>3. Append(page[t].queue, page[t].failed) \in Seq(Packets)
  BY <1>2, SentSplit
<1>4. PICK g : g = [page[t] EXCEPT !.queue = Append(page[t].queue, page[t].failed),
                                   !.failed = None]
  OBVIOUS
<1>5. page' = [page EXCEPT ![t] = g]
  BY <1>4 DEF TypeOK, Retry, Enqueue
<1>6. /\ g \in Pages /\ g.revision = page[t].revision
      /\ g.queue = Append(page[t].queue, page[t].failed)
      /\ g.sending = page[t].sending /\ g.failed = None /\ g.answer = page[t].answer
      /\ g.adopted = page[t].adopted
  BY <1>1, <1>3, <1>4 DEF Pages
<1> QED
  BY <1>2, <1>5, <1>6, Rewritten

LEMMA ReloadPage ==
  ASSUME SaveConstants, TypeOK, NEW t \in Tabs, Reload(t)
  PROVE  Becomes(t, Revision, IF storage = None THEN <<>> ELSE <<storage>>,
                 None, None, None, None)
<1>1. Revision \in Nat /\ (storage # None => storage \in Packets)
  BY SentSplit DEF TypeOK, Revision
<1>2. PICK q : q = IF storage = None THEN <<>> ELSE <<storage>>
  OBVIOUS
<1>3. q \in Seq(Packets)
  BY <1>1, <1>2
<1>4. PICK g : g = IF storage = None THEN Fresh ELSE [Fresh EXCEPT !.queue = <<storage>>]
  OBVIOUS
<1>5. g = [revision |-> Revision, queue |-> q, sending |-> None, failed |-> None,
           answer |-> None, adopted |-> None]
  BY <1>2, <1>4 DEF Fresh
<1>6. page' = [page EXCEPT ![t] = g]
  BY <1>4 DEF Reload
<1>7. /\ g \in Pages /\ g.revision = Revision /\ g.queue = q
      /\ g.sending = None /\ g.failed = None /\ g.answer = None /\ g.adopted = None
  BY <1>1, <1>3, <1>5 DEF Pages
<1> QED
  BY <1>2, <1>6, <1>7, Rewritten

LEMMA AdoptPage ==
  ASSUME SaveConstants, TypeOK, NEW t \in Tabs, NEW a \in Adoptions, Adopt(t, a)
  PROVE  Becomes(t, page[t].revision, page[t].queue, page[t].sending, page[t].failed,
                 page[t].answer, Revision + 1)
<1>1. page[t] \in Pages /\ Revision + 1 \in Nat
  BY DEF TypeOK, Revision
<1>2. PICK n : n = Revision + 1
  OBVIOUS
<1>3. PICK g : g = [page[t] EXCEPT !.adopted = n]
  OBVIOUS
<1>4. page' = [page EXCEPT ![t] = g]
  BY <1>2, <1>3 DEF TypeOK, Adopt
<1>5. /\ g \in Pages /\ g.revision = page[t].revision /\ g.queue = page[t].queue
      /\ g.sending = page[t].sending /\ g.failed = page[t].failed
      /\ g.answer = page[t].answer /\ g.adopted = n
  BY <1>1, <1>2, <1>3 DEF Pages
<1> QED
  BY <1>2, <1>4, <1>5, Rewritten

LEMMA ReplacePage ==
  ASSUME SaveConstants, TypeOK, NEW t \in Tabs, ReplaceDocument(t)
  PROVE  /\ page[t].adopted \in Nat
         /\ \E n \in {page[t].revision, page[t].adopted} :
              Becomes(t, n, page[t].queue, page[t].sending, page[t].failed,
                      page[t].answer, None)
<1>1. page[t] \in Pages
  BY DEF TypeOK
<1>2. page[t].adopted \in Nat /\ page[t].revision \in Nat
  BY <1>1, PageFields DEF ReplaceDocument
<1>3. PICK n \in {page[t].revision, page[t].adopted} :
        page' = [page EXCEPT ![t] = [page[t] EXCEPT !.adopted = None, !.revision = n]]
  <2>1. CASE Pending(t) \/ page[t].failed # None
    <3>1. page' = [page EXCEPT ![t] = [page[t] EXCEPT !.adopted = None]]
      BY <2>1 DEF ReplaceDocument, TypeOK
    <3>2. [page[t] EXCEPT !.adopted = None]
            = [page[t] EXCEPT !.adopted = None, !.revision = page[t].revision]
      BY <1>1 DEF Pages
    <3> QED
      BY <3>1, <3>2
  <2>2. CASE ~(Pending(t) \/ page[t].failed # None)
    BY <2>2 DEF ReplaceDocument, TypeOK
  <2> QED
    BY <2>1, <2>2
<1>4. PICK g : g = [page[t] EXCEPT !.adopted = None, !.revision = n]
  OBVIOUS
<1>5. /\ g \in Pages /\ g.revision = n /\ g.queue = page[t].queue
      /\ g.sending = page[t].sending /\ g.failed = page[t].failed
      /\ g.answer = page[t].answer /\ g.adopted = None
  BY <1>1, <1>2, <1>4 DEF Pages
<1>6. page' = [page EXCEPT ![t] = g]
  BY <1>3, <1>4
<1> QED
  BY <1>2, <1>5, <1>6, Rewritten

LEMMA NextTypes ==
  ASSUME SaveConstants, TypeOK, [Next]_vars,
         \A t \in Tabs : page[t].answer # None => page[t].sending # None
  PROVE  TypeOK'
<1> DEFINE Rest == /\ log' \in Seq(Changes)
                   /\ mutations' \subseteq [edit : Changes, fresh : BOOLEAN]
                   /\ wire' \subseteq Requests /\ storage' \in Sent \cup {None}
                   /\ made' \in [Tabs -> Seq(Edits)]
                   /\ shown' \in [Edits -> Nat \cup {None}]
                   /\ told' \subseteq Edits \X {"conflict", "refused"}
<1>1. SUFFICES page' \in [Tabs -> Pages] /\ Rest
  BY DEF TypeOK
<1>2. CASE UNCHANGED vars
  BY <1>2 DEF vars, TypeOK
<1>3. ASSUME NEW t \in Tabs, NEW e \in Edits, Edit(t, e)
      PROVE  page' \in [Tabs -> Pages] /\ Rest
  <2>1. page[t] \in Pages
    BY DEF TypeOK
  <2>2. page[t].revision \in Nat
    BY <2>1 DEF Pages
  <2>3. shown' \in [Edits -> Nat \cup {None}]
    BY <1>3, <2>2 DEF Edit, TypeOK
  <2>4. made' \in [Tabs -> Seq(Edits)]
    <3>1. made[t] \in Seq(Edits) /\ Append(made[t], e) \in Seq(Edits)
      BY DEF TypeOK
    <3> QED
      BY <1>3, <3>1 DEF Edit, TypeOK
  <2>5. page' \in [Tabs -> Pages]
    BY <1>3, EditPage DEF Becomes
  <2> QED
    BY <1>3, <2>3, <2>4, <2>5 DEF Edit, TypeOK
<1>4. ASSUME NEW t \in Tabs, Send(t)
      PROVE  page' \in [Tabs -> Pages] /\ Rest
  <2>1. PICK p \in Sent : /\ storage' = p /\ wire' = wire \cup {[packet |-> p, to |-> t]}
                          /\ page' \in [Tabs -> Pages]
    BY <1>4, SendPage DEF Becomes
  <2>2. [packet |-> p, to |-> t] \in Requests
    BY DEF Requests
  <2> QED
    BY <1>4, <2>1, <2>2 DEF Send, TypeOK
<1>5. ASSUME NEW t \in Tabs, Saved(t)
      PROVE  page' \in [Tabs -> Pages] /\ Rest
  BY <1>5, SavedPage DEF Becomes, Saved, TypeOK
<1>6. ASSUME NEW t \in Tabs, Refused(t)
      PROVE  page' \in [Tabs -> Pages] /\ Rest
  <2>1. page' \in [Tabs -> Pages] /\ page[t].answer \in Answers
    BY <1>6, RefusedPage DEF Becomes
  <2>2. page[t] \in Pages
    BY DEF TypeOK
  <2>3. page[t].sending \in Sent
    BY <1>6, <2>2 DEF Pages, Refused
  <2>4. page[t].sending.edit \in Edits
    BY <2>3 DEF Sent
  <2>5. page[t].answer.kind \in {"conflict", "refused"}
    BY <1>6, <2>1 DEF Answers, Refused
  <2>6. told' \subseteq Edits \X {"conflict", "refused"}
    BY <1>6, <2>4, <2>5 DEF Refused, TypeOK
  <2> QED
    BY <1>6, <2>1, <2>6 DEF Refused, TypeOK
<1>7. ASSUME NEW t \in Tabs, NEW dropped \in BOOLEAN, Fail(t, dropped)
      PROVE  page' \in [Tabs -> Pages] /\ Rest
  <2>1. wire' \subseteq Requests
    BY <1>7, AbandonTypes DEF Fail
  <2> QED
    BY <1>7, <2>1, FailPage DEF Becomes, Fail, TypeOK
<1>8. ASSUME NEW t \in Tabs, Retry(t)
      PROVE  page' \in [Tabs -> Pages] /\ Rest
  BY <1>8, RetryPage DEF Becomes, Retry, TypeOK
<1>9. ASSUME NEW t \in Tabs, Reload(t)
      PROVE  page' \in [Tabs -> Pages] /\ Rest
  <2>1. wire' \subseteq Requests
    BY <1>9, AbandonTypes DEF Reload
  <2> QED
    BY <1>9, <2>1, ReloadPage DEF Becomes, Reload, TypeOK
<1>10. ASSUME NEW t \in Tabs, NEW a \in Adoptions, Adopt(t, a)
       PROVE  page' \in [Tabs -> Pages] /\ Rest
  <2>1. a \in Changes
    BY DEF Changes
  <2>2. log' \in Seq(Changes)
    BY <1>10, <2>1, LogGrows DEF Adopt
  <2>3. [edit |-> a, fresh |-> FALSE] \in [edit : Changes, fresh : BOOLEAN]
    BY <2>1
  <2>4. page' \in [Tabs -> Pages]
    BY <1>10, AdoptPage DEF Becomes
  <2> QED
    BY <1>10, <2>2, <2>3, <2>4 DEF Adopt, TypeOK
<1>11. ASSUME NEW t \in Tabs, ReplaceDocument(t)
       PROVE  page' \in [Tabs -> Pages] /\ Rest
  <2>1. storage' \in Sent \cup {None}
    BY <1>11 DEF ReplaceDocument, TypeOK
  <2> QED
    BY <1>11, <2>1, ReplacePage DEF Becomes, ReplaceDocument, TypeOK
<1>12. ASSUME NEW r \in wire, Replay(r) \/ Conflict(r) \/ Invalid(r)
       PROVE  page' \in [Tabs -> Pages] /\ Rest
  <2>1. Revision \in Nat
    BY DEF TypeOK, Revision
  <2>2. PICK kind \in {"ok", "conflict", "refused"} : page' = Answered(r, kind, Revision)
    BY <1>12 DEF Replay, Conflict, Invalid
  <2>3. page' \in [Tabs -> Pages]
    BY <2>1, <2>2, AnsweredPage
  <2> QED
    BY <1>12, <2>3 DEF Replay, Conflict, Invalid, Served, TypeOK
<1>13. ASSUME NEW r \in wire, Apply(r)
       PROVE  page' \in [Tabs -> Pages] /\ Rest
  <2>1. Revision + 1 \in Nat
    BY DEF TypeOK, Revision
  <2>2. page' \in [Tabs -> Pages]
    BY <1>13, <2>1, AnsweredPage DEF Apply
  <2>3. r.packet.edit \in Changes /\ r.packet.fresh \in BOOLEAN
    BY RequestFields DEF Changes
  <2>4. log' \in Seq(Changes)
    BY <1>13, <2>3, LogGrows DEF Apply
  <2>5. Mutation(r.packet) \in [edit : Changes, fresh : BOOLEAN]
    BY <2>3 DEF Mutation
  <2> QED
    BY <1>13, <2>2, <2>4, <2>5 DEF Apply, Served, TypeOK
<1> QED
  BY <1>2, <1>3, <1>4, <1>5, <1>6, <1>7, <1>8, <1>9, <1>10, <1>11, <1>12, <1>13
     DEF Next, Network

-----------------------------------------------------------------------------
(* The invariant                                                            *)

\* What a page holds on to, and all that was ever sent and may be sent or served again.
Holds(t, p) ==
    \/ p = page[t].sending \/ p = page[t].failed
    \/ \E i \in 1..Len(page[t].queue) : p = page[t].queue[i]
Copies == {p \in Sent : \/ p = storage \/ \E r \in wire : p = r.packet
                        \/ \E t \in Tabs : Holds(t, p)}

\* No page knows a revision that was not reached; an answer is for what is being sent.
Behind(t) ==
    /\ page[t].revision <= Revision
    /\ page[t].adopted # None => page[t].adopted <= Revision
    /\ page[t].answer # None =>
         page[t].sending # None /\ page[t].answer.revision <= Revision

\* A change is sent for one revision, and a conflicting one for a revision that is past.
SentOnce(p) ==
    /\ p.fresh = FALSE /\ p.expected <= Revision /\ shown[p.edit] # None
    /\ <<p.edit, "conflict">> \in told => p.expected < Revision
    /\ \A q \in Copies : q.edit = p.edit => q = p

\* A change that was not sent yet is in one place of one queue and nowhere else.
Unsent(t, i) == LET p == page[t].queue[i] IN
    p.expected = None =>
      /\ p.fresh = FALSE /\ shown[p.edit] # None /\ <<p.edit, "conflict">> \notin told
      /\ \A q \in Copies : q.edit # p.edit
      /\ \A u \in Tabs : \A j \in 1..Len(page[u].queue) :
           page[u].queue[j].edit = p.edit => u = t /\ j = i

\* What is applied is on record, under the mutation id the change was made with.
Recorded(i) == [edit |-> log[i], fresh |-> FALSE] \in mutations

\* The page waits for the request it sent.
Awaited(r) == r.to # None => page[r.to].sending = r.packet /\ page[r.to].answer = None

\* A conflict is about a change that was not applied and is for a revision that is past.
Conflicting(t) ==
    page[t].answer # None /\ page[t].answer.kind = "conflict" =>
      /\ ~Applied(page[t].sending.edit)
      /\ page[t].sending.expected < Revision

Refusals(e) == <<e, "conflict">> \in told => shown[e] # None /\ ~Applied(e)

Inv ==
    /\ TypeOK
    /\ \A t \in Tabs : Behind(t) /\ Conflicting(t)
    /\ \A p \in Copies : SentOnce(p)
    /\ \A t \in Tabs : \A i \in 1..Len(page[t].queue) : Unsent(t, i)
    /\ AppliedOnce /\ \A i \in 1..Len(log) : Recorded(i)
    /\ \A r \in wire : Awaited(r)
    /\ \A e \in Edits : Refusals(e)

LEMMA QueueItems ==
  ASSUME TypeOK, NEW t \in Tabs
  PROVE  /\ page[t].queue \in Seq(Packets) /\ Len(page[t].queue) \in Nat
         /\ \A i \in 1..Len(page[t].queue) : page[t].queue[i] \in Packets
<1>1. page[t] \in Pages
  BY DEF TypeOK
<1>2. page[t].queue \in Seq(Packets)
  BY <1>1, PageFields
<1> QED
  BY <1>2

LEMMA AppendItems ==
  ASSUME NEW q \in Seq(Packets), NEW p \in Packets
  PROVE  /\ Len(q) \in Nat /\ Len(Append(q, p)) = Len(q) + 1
         /\ \A i \in 1..Len(q) : Append(q, p)[i] = q[i]
         /\ Append(q, p)[Len(q) + 1] = p
OBVIOUS

LEMMA TailItems ==
  ASSUME NEW q \in Seq(Packets), q # <<>>
  PROVE  /\ Len(q) \in Nat \ {0} /\ Len(Tail(q)) = Len(q) - 1
         /\ \A i \in 1..(Len(q) - 1) : Tail(q)[i] = q[i + 1]
         /\ Head(q) = q[1]
OBVIOUS

\* What the places hold after a step was held by some place before.
LEMMA Spread ==
  ASSUME storage' \in {storage, None} \/ storage' \in Copies,
         \A r \in wire' : r.packet \in Copies \/ \E q \in wire : r.packet = q.packet,
         \A t \in Tabs : \A p \in Sent : Holds(t, p)' => p \in Copies,
         SaveConstants
  PROVE  Copies' \subseteq Copies
<1>1. SUFFICES ASSUME NEW p \in Sent, \/ p = storage' \/ \E r \in wire' : p = r.packet
                                      \/ \E t \in Tabs : Holds(t, p)'
               PROVE  p \in Copies
  BY DEF Copies
<1>2. CASE p = storage'
  BY <1>2, SentSplit DEF Copies
<1>3. CASE \E r \in wire' : p = r.packet
  BY <1>3 DEF Copies
<1>4. CASE \E t \in Tabs : Holds(t, p)'
  BY <1>4
<1> QED
  BY <1>1, <1>2, <1>3, <1>4

LEMMA HeldIsCopy ==
  ASSUME NEW t \in Tabs, NEW p \in Sent, Holds(t, p)
  PROVE  p \in Copies
BY DEF Copies

LEMMA SameHolds ==
  ASSUME NEW t \in Tabs, NEW p \in Sent, Holds(t, p)',
         page'[t].queue = page[t].queue,
         page'[t].sending \in {page[t].sending, None},
         page'[t].failed \in {page[t].failed, page[t].sending, None},
         SaveConstants
  PROVE  p \in Copies
<1>1. Holds(t, p)
  BY SentSplit DEF Holds
<1> QED
  BY <1>1, HeldIsCopy

\* No step but Send makes a copy of anything else.
LEMMA CopiesShrink ==
  ASSUME SaveConstants, TypeOK, [Next]_vars, ~\E t \in Tabs : Send(t)
  PROVE  Copies' \subseteq Copies
<1>1. CASE UNCHANGED vars
  BY <1>1 DEF vars, Copies, Holds
<1>2. ASSUME NEW t \in Tabs, NEW e \in Edits, Edit(t, e)
      PROVE  Copies' \subseteq Copies
  <2>1. PICK p \in Packets :
          /\ p.expected = None
          /\ Becomes(t, page[t].revision, Append(page[t].queue, p), page[t].sending,
                     page[t].failed, page[t].answer, page[t].adopted)
    BY <1>2, EditPage
  <2>2. ASSUME NEW u \in Tabs, NEW q \in Sent, Holds(u, q)'
        PROVE  q \in Copies
    <3>1. CASE u # t
      BY <2>1, <2>2, <3>1, SameHolds DEF Becomes
    <3>2. CASE u = t
      <4>1. q # p
        BY <2>1, SentSplit
      <4>2. Holds(t, q)
        BY <2>1, <2>2, <3>2, <4>1, QueueItems, AppendItems DEF Becomes, Holds
      <4> QED
        BY <4>2, HeldIsCopy
    <3> QED
      BY <3>1, <3>2
  <2> QED
    BY <1>2, <2>2, Spread DEF Edit
<1>3. ASSUME NEW t \in Tabs, Saved(t)
      PROVE  Copies' \subseteq Copies
  <2>1. ASSUME NEW u \in Tabs, NEW q \in Sent, Holds(u, q)'
        PROVE  q \in Copies
    BY <1>3, <2>1, SavedPage, SameHolds DEF Becomes
  <2> QED
    BY <1>3, <2>1, Spread DEF Saved
<1>4. ASSUME NEW t \in Tabs, Refused(t)
      PROVE  Copies' \subseteq Copies
  <2>1. ASSUME NEW u \in Tabs, NEW q \in Sent, Holds(u, q)'
        PROVE  q \in Copies
    BY <1>4, <2>1, RefusedPage, SameHolds DEF Becomes
  <2> QED
    BY <1>4, <2>1, Spread DEF Refused
<1>5. ASSUME NEW t \in Tabs, NEW dropped \in BOOLEAN, Fail(t, dropped)
      PROVE  Copies' \subseteq Copies
  <2>1. ASSUME NEW u \in Tabs, NEW q \in Sent, Holds(u, q)'
        PROVE  q \in Copies
    BY <1>5, <2>1, FailPage, SameHolds DEF Becomes
  <2>2. \A r \in wire' : \E q \in wire : r.packet = q.packet
    BY <1>5, AbandonTypes DEF Fail
  <2> QED
    BY <1>5, <2>1, <2>2, Spread DEF Fail
<1>6. ASSUME NEW t \in Tabs, Retry(t)
      PROVE  Copies' \subseteq Copies
  <2>1. /\ page[t].failed \in Sent
        /\ Becomes(t, page[t].revision, Append(page[t].queue, page[t].failed),
                   page[t].sending, None, page[t].answer, page[t].adopted)
    BY <1>6, RetryPage
  <2>2. ASSUME NEW u \in Tabs, NEW q \in Sent, Holds(u, q)'
        PROVE  q \in Copies
    <3>1. CASE u # t
      BY <2>1, <2>2, <3>1, SameHolds DEF Becomes
    <3>2. CASE u = t
      <4>1. q # None /\ page[t].failed \in Packets
        BY <2>1, SentSplit
      <4>2. CASE \E i \in 1..Len(page'[t].queue) : q = page'[t].queue[i]
        <5>1. PICK i \in 1..Len(page'[t].queue) : q = page'[t].queue[i]
          BY <4>2
        <5>2. (i \in 1..Len(page[t].queue) /\ q = page[t].queue[i]) \/ q = page[t].failed
          BY <2>1, <4>1, <5>1, QueueItems, AppendItems DEF Becomes
        <5> QED
          BY <5>2, HeldIsCopy DEF Holds
      <4>3. CASE ~\E i \in 1..Len(page'[t].queue) : q = page'[t].queue[i]
        <5>1. q = page[t].sending
          BY <2>1, <2>2, <3>2, <4>1, <4>3 DEF Becomes, Holds
        <5> QED
          BY <5>1, HeldIsCopy DEF Holds
      <4> QED
        BY <4>2, <4>3
    <3> QED
      BY <3>1, <3>2
  <2> QED
    BY <1>6, <2>2, Spread DEF Retry
<1>7. ASSUME NEW t \in Tabs, Reload(t)
      PROVE  Copies' \subseteq Copies
  <2>1. Becomes(t, Revision, IF storage = None THEN <<>> ELSE <<storage>>,
                None, None, None, None)
    BY <1>7, ReloadPage
  <2>2. ASSUME NEW u \in Tabs, NEW q \in Sent, Holds(u, q)'
        PROVE  q \in Copies
    <3>1. CASE u # t
      BY <2>1, <2>2, <3>1, SameHolds DEF Becomes
    <3>2. CASE u = t
      <4>1. q # None
        BY SentSplit
      <4>2. q = storage
        BY <2>1, <2>2, <3>2, <4>1 DEF Becomes, Holds
      <4> QED
        BY <4>2 DEF Copies
    <3> QED
      BY <3>1, <3>2
  <2>3. \A r \in wire' : \E q \in wire : r.packet = q.packet
    BY <1>7, AbandonTypes DEF Reload
  <2> QED
    BY <1>7, <2>2, <2>3, Spread DEF Reload
<1>8. ASSUME NEW t \in Tabs, NEW a \in Adoptions, Adopt(t, a)
      PROVE  Copies' \subseteq Copies
  <2>1. ASSUME NEW u \in Tabs, NEW q \in Sent, Holds(u, q)'
        PROVE  q \in Copies
    BY <1>8, <2>1, AdoptPage, SameHolds DEF Becomes
  <2> QED
    BY <1>8, <2>1, Spread DEF Adopt
<1>9. ASSUME NEW t \in Tabs, ReplaceDocument(t)
      PROVE  Copies' \subseteq Copies
  <2>1. ASSUME NEW u \in Tabs, NEW q \in Sent, Holds(u, q)'
        PROVE  q \in Copies
    <3>1. page'[u].queue = page[u].queue /\ page'[u].sending = page[u].sending
          /\ page'[u].failed = page[u].failed
      BY <1>9, ReplacePage DEF Becomes
    <3> QED
      BY <2>1, <3>1, SameHolds
  <2>2. storage' \in {storage, None}
    BY <1>9 DEF ReplaceDocument
  <2> QED
    BY <1>9, <2>1, <2>2, Spread DEF ReplaceDocument
<1>10. ASSUME NEW r \in wire, NEW kind \in {"ok", "conflict", "refused"}, NEW n \in Nat,
              page' = Answered(r, kind, n), wire' = wire \ {r}, storage' = storage
       PROVE  Copies' \subseteq Copies
  <2>1. ASSUME NEW u \in Tabs, NEW q \in Sent, Holds(u, q)'
        PROVE  q \in Copies
    <3>1. /\ page'[u].queue = page[u].queue /\ page'[u].sending = page[u].sending
          /\ page'[u].failed = page[u].failed
      BY <1>10, AnsweredPage
    <3> QED
      BY <1>10, <2>1, <3>1, SameHolds
  <2> QED
    BY <1>10, <2>1, Spread
<1>11. Revision \in Nat /\ Revision + 1 \in Nat
  BY DEF TypeOK, Revision
<1>12. ASSUME NEW r \in wire, Replay(r) \/ Conflict(r) \/ Invalid(r)
       PROVE  Copies' \subseteq Copies
  <2>1. \E kind \in {"ok", "conflict", "refused"} : page' = Answered(r, kind, Revision)
    BY <1>12 DEF Replay, Conflict, Invalid
  <2> QED
    BY <1>10, <1>11, <1>12, <2>1 DEF Replay, Conflict, Invalid, Served
<1>13. ASSUME NEW r \in wire, Apply(r)
       PROVE  Copies' \subseteq Copies
  BY <1>10, <1>11, <1>13 DEF Apply, Served
<1> QED
  BY <1>1, <1>2, <1>3, <1>4, <1>5, <1>6, <1>7, <1>8, <1>9, <1>12, <1>13
     DEF Next, Network

-----------------------------------------------------------------------------
(* What a step adds                                                         *)

LEMMA LogStep ==
  ASSUME SaveConstants, TypeOK, [Next]_vars
  PROVE  /\ Revision \in Nat /\ Revision' \in Nat /\ Revision <= Revision'
         /\ \/ log' = log /\ Revision' = Revision /\ mutations \subseteq mutations'
            \/ \E r \in wire : Apply(r)
            \/ \E t \in Tabs, a \in Adoptions : Adopt(t, a)
<1>1. Revision \in Nat
  BY DEF TypeOK, Revision
<1>2. CASE log' = log /\ mutations' = mutations
  BY <1>1, <1>2 DEF Revision
<1>3. ASSUME NEW r \in wire, Apply(r)
      PROVE  Revision' = Revision + 1
  <2>1. r.packet.edit \in Changes
    BY RequestFields DEF Changes
  <2> QED
    BY <1>3, <2>1, LogGrows DEF Apply, Revision
<1>4. ASSUME NEW t \in Tabs, NEW a \in Adoptions, Adopt(t, a)
      PROVE  Revision' = Revision + 1
  <2>1. a \in Changes
    BY DEF Changes
  <2> QED
    BY <1>4, <2>1, LogGrows DEF Adopt, Revision
<1>5. \/ log' = log /\ mutations' = mutations
      \/ \E r \in wire : Apply(r)
      \/ \E t \in Tabs, a \in Adoptions : Adopt(t, a)
  BY DEF Next, Network, vars, Edit, Send, Saved, Refused, Fail, Retry, Reload, Replay,
         Conflict, Invalid, ReplaceDocument
<1> QED
  BY <1>1, <1>2, <1>3, <1>4, <1>5

\* A change is applied by a request or taken over from the assistant.
LEMMA AppliedStep ==
  ASSUME SaveConstants, TypeOK, [Next]_vars, NEW e \in Edits, Applied(e)'
  PROVE  Applied(e) \/ \E r \in wire : Apply(r) /\ r.packet.edit = e
<1>1. CASE log' = log
  BY <1>1 DEF Applied, Contains
<1>2. ASSUME NEW c \in Changes, log' = Append(log, c)
      PROVE  Applied(e) \/ c = e
  <2>1. PICK i \in 1..Len(log') : log'[i] = e
    BY DEF Applied, Contains
  <2>2. i \in 1..Len(log) \/ i = Len(log) + 1
    BY <1>2, <2>1, LogGrows
  <2>3. CASE i \in 1..Len(log)
    BY <1>2, <2>1, <2>3, LogGrows DEF Applied, Contains
  <2>4. CASE i = Len(log) + 1
    BY <1>2, <2>1, <2>4, LogGrows
  <2> QED
    BY <2>2, <2>3, <2>4
<1>3. ASSUME NEW r \in wire, Apply(r)
      PROVE  Applied(e) \/ r.packet.edit = e
  <2>1. r.packet.edit \in Changes
    BY RequestFields DEF Changes
  <2> QED
    BY <1>2, <1>3, <2>1 DEF Apply
<1>4. ASSUME NEW t \in Tabs, NEW a \in Adoptions, Adopt(t, a)
      PROVE  Applied(e)
  <2>1. a \in Changes /\ a # e
    BY DEF Changes, SaveConstants
  <2> QED
    BY <1>2, <1>4, <2>1 DEF Adopt
<1> QED
  BY <1>1, <1>3, <1>4, LogStep

LEMMA ShownStep ==
  ASSUME SaveConstants, TypeOK, [Next]_vars, NEW e \in Edits, shown[e] # None
  PROVE  shown'[e] # None
<1>1. CASE shown' = shown
  BY <1>1
<1>2. ASSUME NEW t \in Tabs, NEW d \in Edits, Edit(t, d)
      PROVE  shown'[e] # None
  BY <1>2 DEF Edit, TypeOK
<1> QED
  BY <1>1, <1>2 DEF Next, Network, vars, Send, Saved, Refused, Fail, Retry, Reload, Replay,
                    Conflict, Apply, Invalid, Adopt, ReplaceDocument

\* A conflict is told for the change that the page was sending.
LEMMA ToldStep ==
  ASSUME Inv, SaveConstants, [Next]_vars, NEW e \in Edits, <<e, "conflict">> \in told',
         <<e, "conflict">> \notin told
  PROVE  \E t \in Tabs :
           /\ page[t].sending \in Copies /\ page[t].sending.edit = e
           /\ ~Applied(e) /\ page[t].sending.expected < Revision
           /\ Refused(t)
<1>1. PICK t \in Tabs : Refused(t)
  BY DEF Next, Network, vars, Edit, Send, Saved, Fail, Retry, Reload, Replay,
         Conflict, Apply, Invalid, Adopt, ReplaceDocument
<1>2. page[t].sending.edit = e /\ page[t].answer.kind = "conflict" /\ page[t].answer # None
  BY <1>1 DEF Refused
<1>3. page[t].sending \in Sent
  <2>1. page[t].sending # None
    BY <1>2 DEF Inv, Behind
  <2>2. page[t] \in Pages
    BY DEF Inv, TypeOK
  <2> QED
    BY <2>1, <2>2 DEF Pages
<1>4. page[t].sending \in Copies
  BY <1>3, HeldIsCopy DEF Holds
<1>5. ~Applied(e) /\ page[t].sending.expected < Revision
  BY <1>2 DEF Inv, Conflicting
<1> QED
  BY <1>1, <1>2, <1>4, <1>5

\* A request that is not a replay is for a change that was not applied.
LEMMA NotApplied ==
  ASSUME Inv, NEW r \in wire, ~Seen(r)
  PROVE  /\ r.packet \in Copies /\ r.packet.fresh = FALSE
         /\ ~Applied(r.packet.edit) /\ r.packet.expected <= Revision
<1>1. r.packet \in Copies
  BY RequestFields DEF Inv, Copies
<1>2. r.packet.fresh = FALSE /\ r.packet.expected <= Revision
  BY <1>1 DEF Inv, SentOnce
<1>3. Mutation(r.packet) = [edit |-> r.packet.edit, fresh |-> FALSE]
  BY <1>2 DEF Mutation
<1>4. ASSUME Applied(r.packet.edit)
      PROVE  FALSE
  BY <1>3, <1>4 DEF Applied, Contains, Inv, Recorded, Seen
<1> QED
  BY <1>1, <1>2, <1>4

-----------------------------------------------------------------------------
(* The parts of the invariant                                               *)

LEMMA KeepsRecord ==
  ASSUME Inv, SaveConstants, [Next]_vars
  PROVE  AppliedOnce' /\ \A i \in 1..Len(log') : Recorded(i)'
<1>1. TypeOK /\ AppliedOnce /\ \A i \in 1..Len(log) : Recorded(i)
  BY DEF Inv
<1>2. CASE log' = log /\ mutations \subseteq mutations'
  BY <1>1, <1>2 DEF AppliedOnce, IsInjective, Recorded
<1>3. ASSUME NEW c \in Changes, log' = Append(log, c), ~Contains(log, c),
             mutations' = mutations \cup {[edit |-> c, fresh |-> FALSE]}
      PROVE  AppliedOnce' /\ \A i \in 1..Len(log') : Recorded(i)'
  <2>1. /\ Len(log) \in Nat /\ Len(log') = Len(log) + 1 /\ log'[Len(log) + 1] = c
        /\ \A i \in 1..Len(log) : log'[i] = log[i]
    BY <1>1, <1>3, LogGrows
  <2>2. DOMAIN log = 1..Len(log) /\ DOMAIN log' = 1..Len(log')
    <3>1. log \in Seq(Changes) /\ log' \in Seq(Changes)
      BY <1>1, <1>3, LogGrows DEF TypeOK
    <3> QED
      BY <3>1
  <2>3. \A i \in 1..Len(log) : log[i] # c
    BY <1>3 DEF Contains
  <2>4. AppliedOnce'
    <3>1. \A i, j \in 1..Len(log) : log[i] = log[j] => i = j
      BY <1>1, <2>2 DEF AppliedOnce, IsInjective
    <3>2. \A i, j \in 1..Len(log') : log'[i] = log'[j] => i = j
      BY <2>1, <2>3, <3>1
    <3> QED
      BY <2>2, <3>2 DEF AppliedOnce, IsInjective
  <2>5. ASSUME NEW i \in 1..Len(log')
        PROVE  Recorded(i)'
    <3>1. i \in 1..Len(log) \/ i = Len(log) + 1
      BY <2>1
    <3>2. CASE i \in 1..Len(log)
      BY <1>1, <1>3, <2>1, <3>2 DEF Recorded
    <3>3. CASE i = Len(log) + 1
      BY <1>3, <2>1, <3>3 DEF Recorded
    <3> QED
      BY <3>1, <3>2, <3>3
  <2> QED
    BY <2>4, <2>5
<1>4. ASSUME NEW r \in wire, Apply(r)
      PROVE  AppliedOnce' /\ \A i \in 1..Len(log') : Recorded(i)'
  <2>1. r.packet.edit \in Changes
    BY <1>1, RequestFields DEF Changes
  <2>2. ~Contains(log, r.packet.edit) /\ r.packet.fresh = FALSE
    BY <1>4, NotApplied DEF Apply, Applied
  <2> QED
    BY <1>3, <1>4, <2>1, <2>2 DEF Apply, Mutation
<1>5. ASSUME NEW t \in Tabs, NEW a \in Adoptions, Adopt(t, a)
      PROVE  AppliedOnce' /\ \A i \in 1..Len(log') : Recorded(i)'
  BY <1>3, <1>5 DEF Adopt, Changes
<1> QED
  BY <1>1, <1>2, <1>4, <1>5, LogStep

LEMMA KeepsRefusals ==
  ASSUME Inv, SaveConstants, [Next]_vars, NEW e \in Edits
  PROVE  Refusals(e)'
<1>1. TypeOK /\ Refusals(e)
  BY DEF Inv
<1>2. SUFFICES ASSUME <<e, "conflict">> \in told'
               PROVE  shown'[e] # None /\ ~Applied(e)'
  BY DEF Refusals
<1>3. \A r \in wire : Apply(r) => ~Seen(r) /\ r.packet.expected = Revision
  BY DEF Apply
<1>4. CASE <<e, "conflict">> \in told
  <2>1. shown[e] # None /\ ~Applied(e)
    BY <1>1, <1>4 DEF Refusals
  <2>2. ASSUME NEW r \in wire, Apply(r), r.packet.edit = e
        PROVE  FALSE
    <3>1. r.packet \in Copies /\ r.packet.expected = Revision
      BY <1>3, <2>2, NotApplied
    <3>2. r.packet.expected < Revision
      BY <1>4, <2>2, <3>1 DEF Inv, SentOnce
    <3> QED
      BY <1>1, <3>1, <3>2, LogStep
  <2> QED
    BY <1>1, <2>1, <2>2, ShownStep, AppliedStep
<1>5. CASE <<e, "conflict">> \notin told
  <2>1. PICK t \in Tabs : /\ page[t].sending \in Copies /\ page[t].sending.edit = e
                          /\ ~Applied(e) /\ Refused(t)
    BY <1>2, <1>5, ToldStep
  <2>2. shown[e] # None
    BY <2>1 DEF Inv, SentOnce
  <2>3. log' = log
    BY <2>1 DEF Refused
  <2> QED
    BY <1>1, <2>1, <2>2, <2>3, ShownStep DEF Applied
<1> QED
  BY <1>4, <1>5

\* Where the items of the queues come from.
LEMMA QueueOrigin ==
  ASSUME Inv, SaveConstants, [Next]_vars, ~\E t \in Tabs : Send(t),
         ~\E t \in Tabs, e \in Edits : Edit(t, e),
         NEW u \in Tabs, NEW i \in 1..Len(page'[u].queue)
  PROVE  \/ i \in 1..Len(page[u].queue) /\ page'[u].queue[i] = page[u].queue[i]
         \/ page'[u].queue[i] \in Copies
<1>1. TypeOK
  BY DEF Inv
<1>2. CASE page'[u].queue = page[u].queue
  BY <1>2
<1>3. ASSUME NEW t \in Tabs, Retry(t)
      PROVE  \/ i \in 1..Len(page[u].queue) /\ page'[u].queue[i] = page[u].queue[i]
             \/ page'[u].queue[i] \in Copies
  <2>1. /\ page[t].failed \in Sent
        /\ Becomes(t, page[t].revision, Append(page[t].queue, page[t].failed),
                   page[t].sending, None, page[t].answer, page[t].adopted)
    BY <1>1, <1>3, RetryPage
  <2>2. page[t].failed \in Copies /\ page[t].failed \in Packets
    BY <2>1, HeldIsCopy, SentSplit DEF Holds
  <2>3. CASE u = t
    BY <1>1, <2>1, <2>2, <2>3, QueueItems, AppendItems DEF Becomes
  <2>4. CASE u # t
    BY <2>1, <2>4 DEF Becomes
  <2> QED
    BY <2>3, <2>4
<1>4. ASSUME NEW t \in Tabs, Reload(t)
      PROVE  \/ i \in 1..Len(page[u].queue) /\ page'[u].queue[i] = page[u].queue[i]
             \/ page'[u].queue[i] \in Copies
  <2>1. Becomes(t, Revision, IF storage = None THEN <<>> ELSE <<storage>>,
                None, None, None, None)
    BY <1>1, <1>4, ReloadPage
  <2>2. storage # None => storage \in Copies
    BY <1>1 DEF TypeOK, Copies
  <2>3. CASE u = t
    BY <2>1, <2>2, <2>3 DEF Becomes
  <2>4. CASE u # t
    BY <2>1, <2>4 DEF Becomes
  <2> QED
    BY <2>3, <2>4
<1>5. ASSUME NEW t \in Tabs, \/ Saved(t) \/ Refused(t) \/ ReplaceDocument(t)
                             \/ \E dropped \in BOOLEAN : Fail(t, dropped)
                             \/ \E a \in Adoptions : Adopt(t, a)
      PROVE  page'[u].queue = page[u].queue
  BY <1>1, <1>5, SavedPage, RefusedPage, FailPage, AdoptPage, ReplacePage DEF Becomes
<1>7. ASSUME NEW r \in wire, Replay(r) \/ Conflict(r) \/ Invalid(r) \/ Apply(r)
      PROVE  page'[u].queue = page[u].queue
  <2>1. Revision \in Nat /\ Revision + 1 \in Nat
    BY <1>1 DEF TypeOK, Revision
  <2>2. PICK kind \in {"ok", "conflict", "refused"}, n \in Nat : page' = Answered(r, kind, n)
    BY <1>7, <2>1 DEF Replay, Conflict, Invalid, Apply
  <2> QED
    BY <1>1, <2>2, AnsweredPage
<1>8. CASE UNCHANGED vars
  BY <1>2, <1>8 DEF vars
<1> QED
  BY <1>2, <1>3, <1>4, <1>5, <1>7, <1>8 DEF Next, Network

\* A request makes a copy of the first change of the queue, for the revision its page
\* shows unless the change was sent before.
LEMMA SendCopies ==
  ASSUME SaveConstants, TypeOK, NEW t \in Tabs, Send(t)
  PROVE  LET head == page[t].queue[1] IN
         /\ 1 \in 1..Len(page[t].queue) /\ page[t].sending = None
         /\ Len(page'[t].queue) = Len(page[t].queue) - 1
         /\ \A i \in 1..Len(page'[t].queue) :
              i + 1 \in 1..Len(page[t].queue) /\ page'[t].queue[i] = page[t].queue[i + 1]
         /\ \A u \in Tabs : u # t => page'[u] = page[u]
         /\ \E n \in Sent :
              /\ n.edit = head.edit /\ n.fresh = head.fresh /\ page'[t].sending = n
              /\ IF head.expected = None THEN n.expected = page[t].revision ELSE n \in Copies
              /\ wire' = wire \cup {[packet |-> n, to |-> t]}
              /\ Copies' \subseteq Copies \cup {n}
<1> DEFINE head == Head(page[t].queue)
<1>2. page[t].queue # <<>>
  BY SendPage
<1>3. PICK n \in Sent :
        /\ n.edit = head.edit /\ n.fresh = head.fresh
        /\ IF head.expected = None THEN n.expected = page[t].revision ELSE n = head
        /\ storage' = n /\ wire' = wire \cup {[packet |-> n, to |-> t]}
        /\ Becomes(t, page[t].revision, Tail(page[t].queue), n,
                   page[t].failed, page[t].answer, page[t].adopted)
  BY SendPage
<1>4. /\ 1 \in 1..Len(page[t].queue) /\ head = page[t].queue[1]
      /\ Len(Tail(page[t].queue)) = Len(page[t].queue) - 1 /\ Len(page[t].queue) \in Nat
      /\ \A i \in 1..(Len(page[t].queue) - 1) : Tail(page[t].queue)[i] = page[t].queue[i + 1]
  BY <1>2, QueueItems, TailItems
<1> HIDE DEF head
<1>5. Copies' \subseteq Copies \cup {n}
  <2>1. ASSUME NEW q \in Sent, NEW u \in Tabs, Holds(u, q)', q # n
        PROVE  Holds(u, q)
    <3>1. CASE u # t
      BY <1>3, <2>1, <3>1 DEF Becomes, Holds
    <3>2. CASE u = t
      <4>1. /\ page'[t].queue = Tail(page[t].queue) /\ page'[t].sending = n
            /\ page'[t].failed = page[t].failed
        BY <1>3 DEF Becomes
      <4>2. \A i \in 1..Len(page'[t].queue) :
              i + 1 \in 1..Len(page[t].queue) /\ page'[t].queue[i] = page[t].queue[i + 1]
        BY <1>4, <4>1
      <4> QED
        BY <2>1, <3>2, <4>1, <4>2 DEF Holds
    <3> QED
      BY <3>1, <3>2
  <2>2. ASSUME NEW q \in Copies', q # n
        PROVE  q \in Copies
    <3>1. CASE q = storage'
      BY <1>3, <2>2, <3>1
    <3>2. CASE \E r \in wire' : q = r.packet
      BY <1>3, <2>2, <3>2 DEF Copies
    <3>3. CASE \E u \in Tabs : Holds(u, q)'
      BY <2>1, <2>2, <3>3 DEF Copies
    <3> QED
      BY <2>2, <3>1, <3>2, <3>3 DEF Copies
  <2> QED
    BY <2>2
<1>6. head.expected # None => n \in Copies
  BY <1>3, <1>4, HeldIsCopy DEF Holds
<1>7. /\ page'[t].queue = Tail(page[t].queue) /\ page'[t].sending = n
      /\ \A u \in Tabs : u # t => page'[u] = page[u]
  BY <1>3 DEF Becomes
<1>8. \A i \in 1..Len(page'[t].queue) :
        i + 1 \in 1..Len(page[t].queue) /\ page'[t].queue[i] = page[t].queue[i + 1]
  BY <1>4, <1>7
<1>9. page[t].sending = None
  BY SendPage
<1> QED
  BY <1>3, <1>4, <1>5, <1>6, <1>7, <1>8, <1>9

LEMMA KeepsSentOnce ==
  ASSUME Inv, SaveConstants, [Next]_vars, NEW p \in Copies'
  PROVE  SentOnce(p)'
<1>1. TypeOK /\ \A q \in Copies : SentOnce(q)
  BY DEF Inv
<1>2. Revision <= Revision' /\ Revision \in Nat /\ Revision' \in Nat
  BY <1>1, LogStep
<1>3. p \in Sent
  BY DEF Copies
<1>4. p.edit \in Edits /\ p.expected \in Nat
  BY <1>3 DEF Sent
<1>5. ASSUME p \in Copies
      PROVE  /\ p.fresh = FALSE /\ p.expected <= Revision' /\ shown'[p.edit] # None
             /\ <<p.edit, "conflict">> \in told' => p.expected < Revision'
  <2>1. SentOnce(p)
    BY <1>1, <1>5
  <2>2. /\ p.fresh = FALSE /\ p.expected <= Revision' /\ shown'[p.edit] # None
    BY <1>1, <1>2, <1>4, <2>1, ShownStep DEF SentOnce
  <2>3. ASSUME <<p.edit, "conflict">> \in told'
        PROVE  p.expected < Revision
    <3>1. CASE <<p.edit, "conflict">> \in told
      BY <2>1, <3>1 DEF SentOnce
    <3>2. CASE <<p.edit, "conflict">> \notin told
      <4>1. PICK t \in Tabs : /\ page[t].sending \in Copies
                              /\ page[t].sending.edit = p.edit
                              /\ page[t].sending.expected < Revision
        BY <1>4, <2>3, <3>2, ToldStep
      <4>2. page[t].sending = p
        BY <2>1, <4>1 DEF SentOnce
      <4> QED
        BY <4>1, <4>2
    <3> QED
      BY <3>1, <3>2
  <2> QED
    BY <1>2, <1>4, <2>2, <2>3
<1>6. CASE ~\E t \in Tabs : Send(t)
  <2>1. Copies' \subseteq Copies
    BY <1>1, <1>6, CopiesShrink
  <2>2. p \in Copies /\ SentOnce(p)
    BY <1>1, <2>1
  <2> QED
    BY <1>5, <2>1, <2>2 DEF SentOnce
<1>7. CASE \E t \in Tabs : Send(t)
  <2>1. PICK t \in Tabs : Send(t)
    BY <1>7
  <2> DEFINE head == page[t].queue[1]
  <2>2. PICK n \in Sent :
          /\ n.edit = head.edit /\ n.fresh = head.fresh
          /\ IF head.expected = None THEN n.expected = page[t].revision ELSE n \in Copies
          /\ Copies' \subseteq Copies \cup {n}
    BY <1>1, <2>1, SendCopies
  <2>3. 1 \in 1..Len(page[t].queue)
    BY <1>1, <2>1, SendCopies
  <2>4. told' = told /\ shown' = shown /\ Revision' = Revision
    BY <2>1 DEF Send, Revision
  <2>5. CASE n \in Copies
    <3>1. Copies' \subseteq Copies /\ p \in Copies
      BY <2>2, <2>5
    <3>2. SentOnce(p)
      BY <1>1, <3>1
    <3> QED
      BY <1>5, <3>1, <3>2 DEF SentOnce
  <2>6. CASE n \notin Copies
    <3>1. head.expected = None
      BY <2>2, <2>6
    <3>2. Unsent(t, 1)
      BY <2>3 DEF Inv
    <3>3. /\ head.fresh = FALSE /\ shown[head.edit] # None
          /\ <<head.edit, "conflict">> \notin told
          /\ \A q \in Copies : q.edit # head.edit
      BY <3>1, <3>2 DEF Unsent
    <3>4. page[t].revision <= Revision
      BY DEF Inv, Behind
    <3>5. CASE p = n
      <4>1. /\ p.fresh = FALSE /\ p.expected <= Revision' /\ shown'[p.edit] # None
            /\ <<p.edit, "conflict">> \notin told'
        BY <2>2, <2>4, <3>1, <3>3, <3>4, <3>5
      <4>2. \A q \in Copies' : q.edit = p.edit => q = p
        BY <2>2, <3>3, <3>5
      <4> QED
        BY <4>1, <4>2 DEF SentOnce
    <3>6. CASE p # n
      <4>1. p \in Copies /\ SentOnce(p)
        BY <1>1, <2>2, <3>6
      <4>2. p.edit # n.edit
        BY <2>2, <3>3, <4>1
      <4>3. \A q \in Copies' : q.edit = p.edit => q = p
        BY <2>2, <4>1, <4>2 DEF SentOnce
      <4> QED
        BY <1>5, <4>1, <4>3 DEF SentOnce
    <3> QED
      BY <3>5, <3>6
  <2> QED
    BY <2>5, <2>6
<1> QED
  BY <1>6, <1>7

\* A change that waits unsent is told of nothing, and stays shown to its user.
LEMMA UnsentQuiet ==
  ASSUME Inv, SaveConstants, [Next]_vars, NEW e \in Edits,
         shown[e] # None, <<e, "conflict">> \notin told, \A q \in Copies : q.edit # e
  PROVE  shown'[e] # None /\ <<e, "conflict">> \notin told'
<1>1. TypeOK
  BY DEF Inv
<1> QED
  BY <1>1, ShownStep, ToldStep

LEMMA ItemFields ==
  ASSUME TypeOK, NEW t \in Tabs, NEW i \in 1..Len(page[t].queue)
  PROVE  /\ page[t].queue[i] \in Packets /\ page[t].queue[i].edit \in Edits
         /\ page[t].queue[i].expected # None => page[t].queue[i] \in Copies
<1>1. page[t].queue[i] \in Packets
  BY QueueItems
<1>2. page[t].queue[i].expected # None => page[t].queue[i] \in Sent
  BY <1>1
  DEF Packets, Sent
<1> QED
  BY <1>1, <1>2, HeldIsCopy DEF Holds, Packets

\* A change of the queue is shown to its user, sent or not.
LEMMA ItemShown ==
  ASSUME Inv, NEW t \in Tabs, NEW i \in 1..Len(page[t].queue)
  PROVE  shown[page[t].queue[i].edit] # None
<1>1. CASE page[t].queue[i].expected = None
  BY <1>1 DEF Inv, Unsent
<1>2. CASE page[t].queue[i].expected # None
  <2>1. page[t].queue[i] \in Copies
    BY <1>2, ItemFields DEF Inv
  <2> QED
    BY <2>1 DEF Inv, SentOnce
<1> QED
  BY <1>1, <1>2

LEMMA KeepsUnsent ==
  ASSUME Inv, SaveConstants, [Next]_vars, NEW u \in Tabs, NEW i \in 1..Len(page'[u].queue)
  PROVE  Unsent(u, i)'
<1> DEFINE p == page'[u].queue[i]
<1>1. TypeOK /\ \A t \in Tabs : \A j \in 1..Len(page[t].queue) : Unsent(t, j)
  BY DEF Inv
<1>2. SUFFICES ASSUME p.expected = None
               PROVE  /\ p.fresh = FALSE /\ shown'[p.edit] # None
                      /\ <<p.edit, "conflict">> \notin told'
                      /\ \A q \in Copies' : q.edit # p.edit
                      /\ \A v \in Tabs : \A j \in 1..Len(page'[v].queue) :
                           page'[v].queue[j].edit = p.edit => v = u /\ j = i
  BY DEF Unsent
<1>3. \A q \in Copies : q.expected # None
  BY SentSplit DEF Copies
<1>4. ASSUME ~\E t \in Tabs : Send(t), ~\E t \in Tabs, e \in Edits : Edit(t, e)
      PROVE  /\ p.fresh = FALSE /\ shown'[p.edit] # None
             /\ <<p.edit, "conflict">> \notin told'
             /\ \A q \in Copies' : q.edit # p.edit
             /\ \A v \in Tabs : \A j \in 1..Len(page'[v].queue) :
                  page'[v].queue[j].edit = p.edit => v = u /\ j = i
  <2>1. i \in 1..Len(page[u].queue) /\ page[u].queue[i] = p
    BY <1>2, <1>3, <1>4, QueueOrigin
  <2>2. Unsent(u, i)
    BY <1>1, <2>1
  <2>3. /\ p.fresh = FALSE /\ shown[p.edit] # None /\ <<p.edit, "conflict">> \notin told
        /\ \A q \in Copies : q.edit # p.edit
        /\ \A v \in Tabs : \A j \in 1..Len(page[v].queue) :
             page[v].queue[j].edit = p.edit => v = u /\ j = i
    BY <1>2, <2>1, <2>2 DEF Unsent
  <2>4. p.edit \in Edits
    BY <1>1, <2>1, ItemFields
  <2>5. shown'[p.edit] # None /\ <<p.edit, "conflict">> \notin told'
    BY <2>3, <2>4, UnsentQuiet
  <2>6. Copies' \subseteq Copies
    BY <1>1, <1>4, CopiesShrink
  <2>7. ASSUME NEW v \in Tabs, NEW j \in 1..Len(page'[v].queue),
               page'[v].queue[j].edit = p.edit
        PROVE  v = u /\ j = i
    BY <1>4, <2>3, <2>7, QueueOrigin
  <2> QED
    BY <2>3, <2>5, <2>6, <2>7
<1>5. ASSUME NEW t \in Tabs, Send(t)
      PROVE  /\ p.fresh = FALSE /\ shown'[p.edit] # None
             /\ <<p.edit, "conflict">> \notin told'
             /\ \A q \in Copies' : q.edit # p.edit
             /\ \A v \in Tabs : \A j \in 1..Len(page'[v].queue) :
                  page'[v].queue[j].edit = p.edit => v = u /\ j = i
  <2> DEFINE Before(v, j) == IF v = t THEN j + 1 ELSE j
  <2>0. \A j \in 1..Len(page'[t].queue) : j \in Int /\ j >= 1
    <3>1. Len(page'[t].queue) = Len(page[t].queue) - 1 /\ Len(page[t].queue) \in Nat
      BY <1>1, <1>5, QueueItems, SendCopies
    <3> QED
      BY <3>1
  <2>1. \A v \in Tabs : \A j \in 1..Len(page'[v].queue) :
          /\ Before(v, j) \in 1..Len(page[v].queue)
          /\ page'[v].queue[j] = page[v].queue[Before(v, j)]
    <3>1. /\ \A j \in 1..Len(page'[t].queue) :
               j + 1 \in 1..Len(page[t].queue) /\ page'[t].queue[j] = page[t].queue[j + 1]
          /\ \A v \in Tabs : v # t => page'[v] = page[v]
      BY <1>1, <1>5, SendCopies
    <3> QED
      BY <3>1
  <2>2. Unsent(u, Before(u, i))
    BY <1>1, <2>1
  <2>3. /\ p.fresh = FALSE /\ shown[p.edit] # None /\ <<p.edit, "conflict">> \notin told
        /\ \A q \in Copies : q.edit # p.edit
        /\ \A v \in Tabs : \A j \in 1..Len(page[v].queue) :
             page[v].queue[j].edit = p.edit => v = u /\ j = Before(u, i)
    <3>1. p = page[u].queue[Before(u, i)]
      BY <2>1
    <3> HIDE DEF p, Before
    <3> QED
      BY <1>2, <2>2, <3>1 DEF Unsent
  <2>4. PICK n \in Sent : /\ n.edit = page[t].queue[1].edit
                          /\ Copies' \subseteq Copies \cup {n}
                          /\ 1 \in 1..Len(page[t].queue)
    BY <1>1, <1>5, SendCopies
  <2>5. n.edit # p.edit
    <3>1. ~(t = u /\ 1 = Before(u, i))
      BY <2>0
    <3> QED
      BY <2>3, <2>4, <3>1
  <2>6. \A q \in Copies' : q.edit # p.edit
    BY <2>3, <2>4, <2>5
  <2>7. shown' = shown /\ told' = told
    BY <1>5 DEF Send
  <2>8. ASSUME NEW v \in Tabs, NEW j \in 1..Len(page'[v].queue),
               page'[v].queue[j].edit = p.edit
        PROVE  v = u /\ j = i
    <3>1. v = u /\ Before(v, j) = Before(u, i)
      <4>1. /\ Before(v, j) \in 1..Len(page[v].queue)
            /\ page'[v].queue[j] = page[v].queue[Before(v, j)]
        BY <2>1
      <4> HIDE DEF Before, p
      <4>2. page[v].queue[Before(v, j)].edit = p.edit
        BY <2>8, <4>1
      <4> QED
        BY <2>3, <4>1, <4>2
    <3>2. CASE u = t
      <4>1. i \in Int /\ j \in Int
        BY <2>0, <3>1, <3>2
      <4>2. j + 1 = i + 1
        BY <3>1, <3>2
      <4> QED
        BY <3>1, <4>1, <4>2
    <3>3. CASE u # t
      BY <3>1, <3>3
    <3> QED
      BY <3>2, <3>3
  <2> QED
    BY <2>3, <2>6, <2>7, <2>8
<1>6. ASSUME NEW t \in Tabs, NEW e \in Edits, Edit(t, e)
      PROVE  /\ p.fresh = FALSE /\ shown'[p.edit] # None
             /\ <<p.edit, "conflict">> \notin told'
             /\ \A q \in Copies' : q.edit # p.edit
             /\ \A v \in Tabs : \A j \in 1..Len(page'[v].queue) :
                  page'[v].queue[j].edit = p.edit => v = u /\ j = i
  <2> DEFINE n == [edit |-> e, fresh |-> FALSE, expected |-> None]
             Old(v, j) == j \in 1..Len(page[v].queue) /\ page'[v].queue[j] = page[v].queue[j]
             New(v, j) == v = t /\ j = Len(page[t].queue) + 1 /\ page'[v].queue[j] = n
  <2>1. \A v \in Tabs : \A j \in 1..Len(page'[v].queue) : Old(v, j) \/ New(v, j)
    <3>1. /\ n \in Packets /\ page'[t].queue = Append(page[t].queue, n)
          /\ \A v \in Tabs : v # t => page'[v] = page[v]
      BY <1>1, <1>6, EditPage DEF Becomes
    <3> HIDE DEF n
    <3>2. \A j \in 1..Len(page'[t].queue) : Old(t, j) \/ New(t, j)
      BY <1>1, <3>1, QueueItems, AppendItems
    <3> QED
      BY <3>1, <3>2
  <2>2. shown[e] = None /\ told' = told /\ shown' = [shown EXCEPT ![e] = page[t].revision]
    BY <1>6 DEF Edit
  <2>3. shown'[e] # None /\ \A d \in Edits : d # e => shown'[d] = shown[d]
    <3>1. page[t] \in Pages
      BY <1>1 DEF TypeOK
    <3>2. page[t].revision \in Nat
      BY <3>1, PageFields
    <3>3. page[t].revision # None
      BY <3>2 DEF SaveConstants
    <3> QED
      BY <1>1, <2>2, <3>3 DEF TypeOK
  <2>4. Copies' \subseteq Copies
    <3>1. ~\E v \in Tabs : Send(v)
      BY <1>6, <2>2, <2>3 DEF Send
    <3> QED
      BY <1>1, <3>1, CopiesShrink
  <2>5. /\ \A q \in Copies : q.edit # e /\ q.edit \in Edits
        /\ \A v \in Tabs : \A j \in 1..Len(page[v].queue) : page[v].queue[j].edit # e
        /\ <<e, "conflict">> \notin told
    <3>1. \A q \in Copies : q.edit # e /\ q.edit \in Edits
      BY <2>2 DEF Inv, SentOnce, Copies, Sent
    <3>2. \A v \in Tabs : \A j \in 1..Len(page[v].queue) : page[v].queue[j].edit # e
      BY <2>2, ItemShown
    <3>3. <<e, "conflict">> \notin told
      BY <2>2 DEF Inv, Refusals
    <3> QED
      BY <3>1, <3>2, <3>3
  <2>6. CASE New(u, i)
    <3>1. p.edit = e /\ p.fresh = FALSE
      BY <2>6
    <3>2. ASSUME NEW v \in Tabs, NEW j \in 1..Len(page'[v].queue),
                 page'[v].queue[j].edit = p.edit
          PROVE  v = u /\ j = i
      <4>1. CASE Old(v, j)
        BY <2>5, <3>1, <3>2, <4>1
      <4>2. CASE New(v, j)
        BY <2>6, <4>2
      <4> QED
        BY <2>1, <4>1, <4>2
    <3> HIDE DEF p
    <3> QED
      BY <2>2, <2>3, <2>4, <2>5, <3>1, <3>2
  <2>7. CASE Old(u, i)
    <3>1. Unsent(u, i) /\ page[u].queue[i] = p /\ p.edit \in Edits
      BY <1>1, <2>7, ItemFields
    <3>2. /\ p.fresh = FALSE /\ shown[p.edit] # None /\ <<p.edit, "conflict">> \notin told
          /\ \A q \in Copies : q.edit # p.edit
          /\ \A v \in Tabs : \A j \in 1..Len(page[v].queue) :
               page[v].queue[j].edit = p.edit => v = u /\ j = i
      BY <1>2, <3>1 DEF Unsent
    <3>3. p.edit # e
      BY <2>2, <3>2
    <3>4. ASSUME NEW v \in Tabs, NEW j \in 1..Len(page'[v].queue),
                 page'[v].queue[j].edit = p.edit
          PROVE  v = u /\ j = i
      <4>1. CASE Old(v, j)
        BY <3>2, <3>4, <4>1
      <4>2. CASE New(v, j)
        <5>1. page'[v].queue[j].edit = e
          BY <4>2
        <5> QED
          BY <3>3, <3>4, <5>1
      <4> QED
        BY <2>1, <4>1, <4>2
    <3> HIDE DEF p
    <3> QED
      BY <2>2, <2>3, <2>4, <3>1, <3>2, <3>3, <3>4
  <2> HIDE DEF p, Old, New
  <2> QED
    BY <2>1, <2>6, <2>7
<1> QED
  BY <1>4, <1>5, <1>6

LEMMA KeepsAwaited ==
  ASSUME Inv, SaveConstants, [Next]_vars, NEW r \in wire'
  PROVE  Awaited(r)'
<1>1. TypeOK /\ \A q \in wire : Awaited(q)
  BY DEF Inv
<1>2. SUFFICES ASSUME r.to # None
               PROVE  page'[r.to].sending = r.packet /\ page'[r.to].answer = None
  BY DEF Awaited
<1>3. ASSUME r \in wire
      PROVE  r.to \in Tabs /\ page[r.to].sending = r.packet /\ page[r.to].answer = None
             /\ r.packet # None
  BY <1>1, <1>2, <1>3, RequestFields, SentSplit DEF Awaited
<1>4. ASSUME NEW t \in Tabs,
             \/ \E e \in Edits : Edit(t, e)
             \/ Saved(t) \/ Refused(t) \/ Retry(t) \/ ReplaceDocument(t)
             \/ \E a \in Adoptions : Adopt(t, a)
      PROVE  page'[r.to].sending = r.packet /\ page'[r.to].answer = None
  <2>1. r \in wire
    BY <1>4 DEF Edit, Saved, Refused, Retry, ReplaceDocument, Adopt
  <2>2. r.to # t => page'[r.to] = page[r.to]
    BY <1>1, <1>3, <1>4, <2>1, EditPage, SavedPage, RefusedPage, RetryPage, ReplacePage,
       AdoptPage DEF Becomes
  <2>3. CASE r.to # t
    BY <1>3, <2>1, <2>2, <2>3
  <2>4. CASE r.to = t
    <3>1. ~Saved(t) /\ ~Refused(t)
      BY <1>3, <2>1, <2>4 DEF Saved, Refused
    <3>2. page'[t].sending = page[t].sending /\ page'[t].answer = page[t].answer
      BY <1>1, <1>4, <3>1, EditPage, RetryPage, ReplacePage, AdoptPage DEF Becomes
    <3> QED
      BY <1>3, <2>1, <2>4, <3>2
  <2> QED
    BY <2>3, <2>4
<1>5. ASSUME NEW t \in Tabs, NEW dropped \in BOOLEAN, wire' = Abandon(t, dropped),
             \A u \in Tabs : u # t => page'[u] = page[u]
      PROVE  page'[r.to].sending = r.packet /\ page'[r.to].answer = None
  <2>1. r \in wire /\ r.to # t
    BY <1>1, <1>2, <1>5, AbandonTypes
  <2> QED
    BY <1>3, <1>5, <2>1
<1>6. ASSUME NEW t \in Tabs, NEW dropped \in BOOLEAN, Fail(t, dropped)
      PROVE  page'[r.to].sending = r.packet /\ page'[r.to].answer = None
  BY <1>1, <1>5, <1>6, FailPage DEF Fail, Becomes
<1>7. ASSUME NEW t \in Tabs, Reload(t)
      PROVE  page'[r.to].sending = r.packet /\ page'[r.to].answer = None
  BY <1>1, <1>5, <1>7, ReloadPage DEF Reload, Becomes
<1>8. ASSUME NEW t \in Tabs, Send(t)
      PROVE  page'[r.to].sending = r.packet /\ page'[r.to].answer = None
  <2>1. page[t].sending = None /\ page[t].answer = None
    BY <1>1, <1>8, SendPage DEF Inv, Behind
  <2>2. PICK n \in Sent : /\ wire' = wire \cup {[packet |-> n, to |-> t]}
                          /\ page'[t].sending = n /\ page'[t].answer = page[t].answer
                          /\ \A u \in Tabs : u # t => page'[u] = page[u]
    BY <1>1, <1>8, SendPage DEF Becomes
  <2>3. CASE r \in wire
    BY <1>3, <2>1, <2>2, <2>3
  <2>4. CASE r = [packet |-> n, to |-> t]
    BY <2>1, <2>2, <2>4
  <2> QED
    BY <2>2, <2>3, <2>4
<1>9. ASSUME NEW q \in wire, Replay(q) \/ Conflict(q) \/ Invalid(q) \/ Apply(q)
      PROVE  page'[r.to].sending = r.packet /\ page'[r.to].answer = None
  <2>1. Revision \in Nat /\ Revision + 1 \in Nat
    BY <1>1 DEF TypeOK, Revision
  <2>2. PICK kind \in {"ok", "conflict", "refused"}, n \in Nat : page' = Answered(q, kind, n)
    BY <1>9, <2>1 DEF Replay, Conflict, Invalid, Apply
  <2>3. r \in wire /\ r # q
    BY <1>9 DEF Replay, Conflict, Invalid, Apply, Served
  <2>4. q.to # r.to
    <3>1. ASSUME q.to = r.to
          PROVE  r = q
      <4>1. q.packet = r.packet
        BY <1>1, <1>2, <1>3, <2>3, <3>1 DEF Awaited
      <4>2. q \in Requests /\ r \in Requests
        BY <1>1, <2>3 DEF TypeOK
      <4> QED
        BY <3>1, <4>1, <4>2 DEF Requests
    <3> QED
      BY <2>3, <3>1
  <2>5. PICK u \in Tabs : u = r.to
    BY <1>3, <2>3
  <2>6. page'[u].sending = page[u].sending /\ page'[u].answer = page[u].answer
    BY <1>1, <2>2, <2>4, <2>5, AnsweredPage
  <2> QED
    BY <1>3, <2>3, <2>5, <2>6
<1>10. CASE UNCHANGED vars
  BY <1>3, <1>10 DEF vars
<1> QED
  BY <1>4, <1>6, <1>7, <1>8, <1>9, <1>10 DEF Next, Network

\* An answer is for the request that was served.
LEMMA AnsweredNow ==
  ASSUME Inv, SaveConstants, NEW q \in wire, NEW t \in Tabs,
         NEW kind \in {"ok", "conflict", "refused"}, NEW n \in Nat,
         page' = Answered(q, kind, n)
  PROVE  /\ page'[t].revision = page[t].revision /\ page'[t].adopted = page[t].adopted
         /\ page'[t].sending = page[t].sending
         /\ \/ page'[t].answer = page[t].answer
            \/ /\ page'[t].answer = [kind |-> kind, revision |-> n]
               /\ page[t].sending = q.packet /\ q.packet # None
<1>1. TypeOK /\ Awaited(q)
  BY DEF Inv
<1>2. /\ page'[t].revision = page[t].revision /\ page'[t].adopted = page[t].adopted
      /\ page'[t].sending = page[t].sending
  BY <1>1, AnsweredPage
<1>3. CASE q.to = t
  <2>1. q.to # None
    BY <1>3 DEF SaveConstants
  <2>2. page[t].sending = q.packet /\ q.packet # None
    BY <1>1, <1>3, <2>1, RequestFields, SentSplit DEF Awaited
  <2> QED
    BY <1>1, <1>2, <1>3, <2>2, AnsweredPage
<1>4. CASE q.to # t
  BY <1>1, <1>2, <1>4, AnsweredPage
<1> QED
  BY <1>3, <1>4

LEMMA KeepsBehind ==
  ASSUME Inv, SaveConstants, [Next]_vars, NEW u \in Tabs
  PROVE  Behind(u)'
<1>1. TypeOK /\ Behind(u) /\ TypeOK'
  <2>1. \A t \in Tabs : page[t].answer # None => page[t].sending # None
    BY DEF Inv, Behind
  <2> QED
    BY <2>1, NextTypes DEF Inv
<1>2. Revision \in Nat /\ Revision' \in Nat /\ Revision <= Revision'
  BY <1>1, LogStep
<1>3. /\ page[u].revision \in Nat /\ page[u].adopted \in Nat \cup {None}
      /\ page[u].answer # None => page[u].answer.revision \in Nat
  <2>1. page[u] \in Pages
    BY <1>1 DEF TypeOK
  <2> QED
    BY <2>1 DEF Pages, Answers
<1>4. ASSUME page'[u].revision = page[u].revision, page'[u].adopted = page[u].adopted,
             page'[u].answer = page[u].answer,
             page[u].sending # None => page'[u].sending # None
      PROVE  Behind(u)'
  BY <1>1, <1>2, <1>3, <1>4 DEF Behind
<1>5. ASSUME page'[u].revision \in Nat, page'[u].revision <= Revision,
             page'[u].adopted \in {page[u].adopted, None},
             page'[u].answer = None
      PROVE  Behind(u)'
  BY <1>1, <1>2, <1>3, <1>5 DEF Behind
<1>6. ASSUME NEW t \in Tabs, NEW e \in Edits, Edit(t, e)
      PROVE  Behind(u)'
  BY <1>1, <1>4, <1>6, EditPage DEF Becomes
<1>7. ASSUME NEW t \in Tabs, Send(t)
      PROVE  Behind(u)'
  <2>1. PICK n \in Sent : Becomes(t, page[t].revision, Tail(page[t].queue), n,
                                  page[t].failed, page[t].answer, page[t].adopted)
    BY <1>1, <1>7, SendPage
  <2>2. n # None
    BY SentSplit
  <2> QED
    BY <1>4, <2>1, <2>2 DEF Becomes
<1>8. ASSUME NEW t \in Tabs, Saved(t)
      PROVE  Behind(u)'
  <2>1. CASE u # t
    BY <1>1, <1>4, <1>8, <2>1, SavedPage DEF Becomes
  <2>2. CASE u = t
    <3>1. page'[u].revision = page[u].answer.revision /\ page'[u].adopted = page[u].adopted
          /\ page'[u].answer = None
      BY <1>1, <1>8, <2>2, SavedPage DEF Becomes
    <3>2. page[u].answer # None
      BY <1>8, <2>2 DEF Saved
    <3> QED
      BY <1>1, <1>3, <1>5, <3>1, <3>2 DEF Behind
  <2> QED
    BY <2>1, <2>2
<1>9. ASSUME NEW t \in Tabs, Refused(t)
      PROVE  Behind(u)'
  <2>1. CASE u # t
    BY <1>1, <1>4, <1>9, <2>1, RefusedPage DEF Becomes
  <2>2. CASE u = t
    <3>1. /\ page'[u].revision \in {page[u].revision, Revision}
          /\ page'[u].adopted = page[u].adopted /\ page'[u].answer = None
      BY <1>1, <1>9, <2>2, RefusedPage DEF Becomes
    <3> QED
      BY <1>1, <1>2, <1>3, <1>5, <3>1 DEF Behind
  <2> QED
    BY <2>1, <2>2
<1>10. ASSUME NEW t \in Tabs, NEW dropped \in BOOLEAN, Fail(t, dropped)
       PROVE  Behind(u)'
  <2>1. CASE u # t
    BY <1>1, <1>4, <1>10, <2>1, FailPage DEF Becomes
  <2>2. CASE u = t
    BY <1>1, <1>3, <1>5, <1>10, <2>2, FailPage DEF Becomes, Behind
  <2> QED
    BY <2>1, <2>2
<1>11. ASSUME NEW t \in Tabs, Retry(t)
       PROVE  Behind(u)'
  BY <1>1, <1>4, <1>11, RetryPage DEF Becomes
<1>12. ASSUME NEW t \in Tabs, Reload(t)
       PROVE  Behind(u)'
  <2>1. CASE u # t
    BY <1>1, <1>4, <1>12, <2>1, ReloadPage DEF Becomes
  <2>2. CASE u = t
    BY <1>1, <1>2, <1>5, <1>12, <2>2, ReloadPage DEF Becomes
  <2> QED
    BY <2>1, <2>2
<1>13. ASSUME NEW t \in Tabs, NEW a \in Adoptions, Adopt(t, a)
       PROVE  Behind(u)'
  <2>1. Becomes(t, page[t].revision, page[t].queue, page[t].sending, page[t].failed,
                page[t].answer, Revision + 1)
    BY <1>1, <1>13, AdoptPage
  <2>2. Revision' = Revision + 1
    <3>1. a \in Changes
      BY DEF Changes
    <3> QED
      BY <1>1, <1>13, <3>1, LogGrows DEF Adopt, Revision
  <2>3. CASE u # t
    BY <1>4, <2>1, <2>3 DEF Becomes
  <2>4. CASE u = t
    <3>1. /\ page'[u].revision = page[u].revision /\ page'[u].adopted = Revision'
          /\ page'[u].answer = page[u].answer /\ page'[u].sending = page[u].sending
      BY <2>1, <2>2, <2>4 DEF Becomes
    <3> QED
      BY <1>1, <1>2, <1>3, <3>1 DEF Behind
  <2> QED
    BY <2>3, <2>4
<1>14. ASSUME NEW t \in Tabs, ReplaceDocument(t)
       PROVE  Behind(u)'
  <2>1. PICK n \in {page[t].revision, page[t].adopted} :
          Becomes(t, n, page[t].queue, page[t].sending, page[t].failed, page[t].answer, None)
    BY <1>1, <1>14, ReplacePage
  <2>2. CASE u # t
    BY <1>4, <2>1, <2>2 DEF Becomes
  <2>3. CASE u = t
    <3>1. /\ page'[u].revision \in {page[u].revision, page[u].adopted}
          /\ page'[u].adopted = None
          /\ page'[u].answer = page[u].answer /\ page'[u].sending = page[u].sending
      BY <2>1, <2>3 DEF Becomes
    <3>2. page[u].adopted \in Nat /\ page[u].adopted # None
      BY <1>1, <1>14, <2>3, ReplacePage DEF ReplaceDocument
    <3> QED
      BY <1>1, <1>2, <1>3, <3>1, <3>2 DEF Behind
  <2> QED
    BY <2>2, <2>3
<1>15. ASSUME NEW q \in wire, NEW kind \in {"ok", "conflict", "refused"}, NEW n \in Nat,
              page' = Answered(q, kind, n), n <= Revision'
       PROVE  Behind(u)'
  <2>1. /\ page'[u].revision = page[u].revision /\ page'[u].adopted = page[u].adopted
        /\ page'[u].sending = page[u].sending
        /\ \/ page'[u].answer = page[u].answer
           \/ page'[u].answer = [kind |-> kind, revision |-> n] /\ page[u].sending # None
    BY <1>15, AnsweredNow
  <2>2. CASE page'[u].answer = page[u].answer
    BY <1>4, <2>1, <2>2
  <2>3. CASE page'[u].answer = [kind |-> kind, revision |-> n] /\ page[u].sending # None
    <3>1. page'[u].answer.revision = n
      BY <2>3
    <3> QED
      BY <1>1, <1>2, <1>3, <1>15, <2>1, <2>3, <3>1 DEF Behind
  <2> QED
    BY <2>1, <2>2, <2>3
<1>16. ASSUME NEW q \in wire, Replay(q) \/ Conflict(q) \/ Invalid(q)
       PROVE  Behind(u)'
  <2>1. PICK kind \in {"ok", "conflict", "refused"} : page' = Answered(q, kind, Revision)
    BY <1>16 DEF Replay, Conflict, Invalid
  <2> QED
    BY <1>2, <1>15, <2>1
<1>17. ASSUME NEW q \in wire, Apply(q)
       PROVE  Behind(u)'
  <2>1. Revision' = Revision + 1
    <3>1. q.packet.edit \in Changes
      BY <1>1, RequestFields DEF Changes
    <3> QED
      BY <1>1, <1>17, <3>1, LogGrows DEF Apply, Revision
  <2> QED
    BY <1>2, <1>15, <1>17, <2>1 DEF Apply
<1>18. CASE UNCHANGED vars
  BY <1>4, <1>18 DEF vars
<1> QED
  BY <1>6, <1>7, <1>8, <1>9, <1>10, <1>11, <1>12, <1>13, <1>14, <1>16, <1>17, <1>18
     DEF Next, Network

LEMMA KeepsConflicting ==
  ASSUME Inv, SaveConstants, [Next]_vars, NEW u \in Tabs
  PROVE  Conflicting(u)'
<1>1. TypeOK /\ Conflicting(u) /\ Behind(u)
  BY DEF Inv
<1>2. Revision \in Nat /\ Revision' \in Nat /\ Revision <= Revision'
  BY <1>1, LogStep
<1>3. page[u].sending # None => page[u].sending \in Copies /\ page[u].sending \in Sent
  <2>1. page[u] \in Pages
    BY <1>1 DEF TypeOK
  <2> QED
    BY <2>1, HeldIsCopy DEF Pages, Holds
<1>4. ASSUME page'[u].answer = page[u].answer, page'[u].sending = page[u].sending
      PROVE  Conflicting(u)'
  <2>1. SUFFICES ASSUME page[u].answer # None, page[u].answer.kind = "conflict"
                 PROVE  /\ ~Applied(page[u].sending.edit)'
                        /\ page[u].sending.expected < Revision'
    BY <1>4 DEF Conflicting, Applied
  <2>2. /\ ~Applied(page[u].sending.edit) /\ page[u].sending.expected < Revision
        /\ page[u].sending # None
    BY <1>1, <2>1 DEF Conflicting, Behind
  <2>3. page[u].sending.edit \in Edits /\ page[u].sending.expected \in Nat
    BY <1>3, <2>2 DEF Sent
  <2>4. ASSUME NEW r \in wire, Apply(r), r.packet.edit = page[u].sending.edit
        PROVE  FALSE
    <3>1. r.packet \in Copies /\ r.packet.expected = Revision
      BY <2>4, NotApplied DEF Apply
    <3>2. r.packet = page[u].sending
      BY <1>3, <2>2, <2>4, <3>1 DEF Inv, SentOnce
    <3> QED
      BY <1>2, <2>2, <3>1, <3>2
  <2>5. ~Applied(page[u].sending.edit)'
    <3>1. PICK d \in Edits : d = page[u].sending.edit
      BY <2>3
    <3>2. ~Applied(d)'
      BY <1>1, <2>2, <2>4, <3>1, AppliedStep
    <3> QED
      BY <1>4, <3>1, <3>2 DEF Applied
  <2> QED
    BY <1>2, <2>2, <2>3, <2>5
<1>5. ASSUME page'[u].answer = None
      PROVE  Conflicting(u)'
  BY <1>5 DEF Conflicting
<1>6. ASSUME NEW t \in Tabs, NEW e \in Edits, Edit(t, e)
      PROVE  Conflicting(u)'
  BY <1>1, <1>4, <1>6, EditPage DEF Becomes
<1>7. ASSUME NEW t \in Tabs, Send(t)
      PROVE  Conflicting(u)'
  <2>1. page[t].answer = None
    BY <1>1, <1>7, SendPage DEF Inv, Behind
  <2>2. \E n \in Sent : Becomes(t, page[t].revision, Tail(page[t].queue), n,
                                page[t].failed, page[t].answer, page[t].adopted)
    BY <1>1, <1>7, SendPage
  <2> QED
    BY <1>4, <1>5, <2>1, <2>2 DEF Becomes
<1>8. ASSUME NEW t \in Tabs, \/ Saved(t) \/ Refused(t) \/ Reload(t)
                             \/ \E dropped \in BOOLEAN : Fail(t, dropped)
      PROVE  Conflicting(u)'
  <2>1. page'[t].answer = None /\ \A v \in Tabs : v # t => page'[v] = page[v]
    BY <1>1, <1>8, SavedPage, RefusedPage, ReloadPage, FailPage DEF Becomes
  <2> QED
    BY <1>4, <1>5, <2>1
<1>9. ASSUME NEW t \in Tabs, \/ Retry(t) \/ ReplaceDocument(t)
                             \/ \E a \in Adoptions : Adopt(t, a)
      PROVE  Conflicting(u)'
  BY <1>1, <1>4, <1>9, RetryPage, ReplacePage, AdoptPage DEF Becomes
<1>10. ASSUME NEW q \in wire, NEW n \in Nat, NEW kind \in {"ok", "conflict", "refused"},
              page' = Answered(q, kind, n),
              kind = "conflict" => ~Seen(q) /\ q.packet.expected # Revision /\ log' = log
       PROVE  Conflicting(u)'
  <2>1. /\ page'[u].sending = page[u].sending
        /\ \/ page'[u].answer = page[u].answer
           \/ /\ page'[u].answer = [kind |-> kind, revision |-> n]
              /\ page[u].sending = q.packet /\ q.packet # None
    BY <1>10, AnsweredNow
  <2>2. CASE page'[u].answer = page[u].answer
    BY <1>4, <2>1, <2>2
  <2>3. CASE /\ page'[u].answer = [kind |-> kind, revision |-> n]
             /\ page[u].sending = q.packet /\ q.packet # None
    <3>1. page'[u].answer.kind = kind
      BY <2>3
    <3>2. CASE kind # "conflict"
      BY <3>1, <3>2 DEF Conflicting
    <3>3. CASE kind = "conflict"
      <4>1. ~Applied(q.packet.edit) /\ q.packet.expected <= Revision
        BY <1>10, <3>3, NotApplied
      <4>2. q.packet.expected < Revision
        BY <1>1, <1>2, <1>10, <3>3, <4>1, RequestFields
      <4>3. ~Applied(q.packet.edit)' /\ Revision' = Revision
        BY <1>10, <3>3, <4>1 DEF Applied, Revision
      <4> QED
        BY <2>1, <2>3, <4>2, <4>3 DEF Conflicting, Applied
    <3> QED
      BY <3>2, <3>3
  <2> QED
    BY <2>1, <2>2, <2>3
<1>11. ASSUME NEW q \in wire, Replay(q) \/ Conflict(q) \/ Invalid(q) \/ Apply(q)
       PROVE  Conflicting(u)'
  <2>1. Revision + 1 \in Nat
    BY <1>2
  <2>2. CASE Conflict(q)
    BY <1>2, <1>10, <2>2 DEF Conflict
  <2>3. CASE Replay(q) \/ Invalid(q) \/ Apply(q)
    <3>1. PICK kind \in {"ok", "refused"}, n \in Nat : page' = Answered(q, kind, n)
      BY <1>2, <2>1, <2>3 DEF Replay, Invalid, Apply
    <3> QED
      BY <1>10, <3>1
  <2> QED
    BY <1>11, <2>2, <2>3
<1>12. CASE UNCHANGED vars
  BY <1>4, <1>12 DEF vars
<1> QED
  BY <1>6, <1>7, <1>8, <1>9, <1>11, <1>12 DEF Next, Network

-----------------------------------------------------------------------------
(* The theorems                                                             *)

LEMMA InitInv ==
  ASSUME SaveConstants, Init
  PROVE  Inv
<1>1. TypeOK /\ Len(log) = 0 /\ Revision = 0
  BY InitTypes DEF Init, Revision
<1>2. \A t \in Tabs : page[t] = [revision |-> 0, queue |-> <<>>, sending |-> None,
                                 failed |-> None, answer |-> None, adopted |-> None]
  BY <1>1 DEF Init, Fresh
<1>3. \A t \in Tabs : Behind(t) /\ Conflicting(t)
  BY <1>1, <1>2 DEF Behind, Conflicting
<1>4. Copies = {}
  BY <1>2, SentSplit DEF Init, Copies, Holds
<1>5. \A t \in Tabs : \A i \in 1..Len(page[t].queue) : Unsent(t, i)
  BY <1>2
<1>6. AppliedOnce
  BY DEF Init, AppliedOnce, IsInjective
<1>7. \A e \in Edits : Refusals(e)
  BY DEF Init, Refusals
<1>8. (\A r \in wire : Awaited(r)) /\ \A i \in 1..Len(log) : Recorded(i)
  BY <1>1 DEF Init
<1> QED
  BY <1>1, <1>3, <1>4, <1>5, <1>6, <1>7, <1>8 DEF Inv

LEMMA InvIsInductive ==
  ASSUME Inv, SaveConstants, [Next]_vars
  PROVE  Inv'
<1>1. TypeOK'
  <2>1. \A t \in Tabs : page[t].answer # None => page[t].sending # None
    BY DEF Inv, Behind
  <2> QED
    BY <2>1, NextTypes DEF Inv
<1> QED
  BY <1>1, KeepsBehind, KeepsConflicting, KeepsSentOnce, KeepsUnsent, KeepsRecord,
     KeepsAwaited, KeepsRefusals DEF Inv

LEMMA Invariant ==
  ASSUME SaveConstants
  PROVE  Spec => []Inv
<1>1. Init => Inv
  BY InitInv
<1>2. Inv /\ [Next]_vars => Inv'
  BY InvIsInductive
<1> QED
  BY <1>1, <1>2, PTL DEF Spec

\* Type correctness: whatever is under way, kept for a retry or stored by the browser
\* says which revision it is for.
THEOREM TypeCorrect ==
  ASSUME SaveConstants
  PROVE  Spec => []TypeOK
<1>1. Inv => TypeOK
  BY DEF Inv
<1> QED
  BY <1>1, Invariant, PTL

\* Neither a retry of a change whose answer was dropped, nor one of a request that is still
\* on its way, nor a reload that sends it again, in any number of pages of one browser,
\* applies a change twice (apply_commands, command in deck-lab-builder.js).
THEOREM Once ==
  ASSUME SaveConstants
  PROVE  Spec => []AppliedOnce
<1>1. Inv => AppliedOnce
  BY DEF Inv
<1> QED
  BY <1>1, Invariant, PTL

\* A change whose user was told of a conflict, and asked to make it again, never reaches
\* the document afterwards, by a retry, a reload or a late request.
THEOREM Conflicted ==
  ASSUME SaveConstants
  PROVE  Spec => []ConflictedNeverLands
<1>1. Inv => ConflictedNeverLands
  BY DEF Inv, Refusals, ConflictedNeverLands
<1> QED
  BY <1>1, Invariant, PTL

-----------------------------------------------------------------------------
(* Experiments                                                              *)

WorkerStates == [at : Trials!Steps, check : BOOLEAN, who : Trials!Subjects, mem : Trials!Payloads \cup {None}]
RequestStates ==
  [at : {"idle", "get", "expire", "verify", "apply", "save"},
   want : Trials!Alt \cup {None}, revision : 0 .. MaxRevision,
   mem : Trials!Payloads \cup {None}]

\* Nothing was measured of the subjects from the given one on.
Clean(p, from) == \A s \in Trials!Subjects : s >= from => p.reports[s] = 0

\* What the worker's own copy is at each of its steps.
Carries(w) ==
  /\ w.mem = None <=> w.at \in {"create", "get", "gone"}
  /\ w.at \in {"recheck", "insert", "early", "claim", "start"} =>
       w.mem.status = "queued" /\ Clean(w.mem, 0)
  /\ w.at = "expire" => w.mem.status \in Trials!Open
  /\ w.at = "acknowledge" => w.mem.status = "stopped"
  /\ w.at \in {"begin", "trial", "waiting", "record", "settle"} =>
       w.mem.status = "running" /\ Clean(w.mem, w.who + 1)
  /\ w.at = "begin" => Clean(w.mem, w.who)
  /\ w.at \in {"begin", "settle"} => w.who \in Trials!Alt
  /\ w.at \in {"trial", "waiting", "record"} => w.mem.reports[w.who] \in 0 .. 1
  /\ w.at = "end" => w.mem.status \in {"done", "failed"}

\* A row is done with its payload, and then its worker is over.
Settled(r) ==
  /\ r.state = "done" <=> r.payload.status = "done"
  /\ r.payload.status = "queued" => Clean(r.payload, 0)
Stored ==
  /\ deck = None => row = None
  /\ row # None => Settled(row) /\ (row.state = "done" => worker.at = "gone")

\* What a request has read is finished and still is what the row says.
Adopts(r) ==
  /\ r.at # "idle" /\ deck # None => row # None
  /\ r.at = "expire" => r.mem # None /\ r.mem.status \in Trials!Open
  /\ r.at \in {"verify", "apply", "save"} =>
       /\ r.want \in Trials!Alt /\ r.mem # None
       /\ r.mem.status = "done" /\ r.mem.alt[r.want] = "done"
       /\ row # None => /\ row.state = "done" /\ row.payload.alt = r.mem.alt
                        /\ row.payload.revision = r.mem.revision
  /\ r.at = "apply" /\ deck # None =>
       /\ r.revision = r.mem.revision /\ r.revision <= deck.revision
       /\ deck.revision = r.revision => deck.cards = Trials!Base

TrialInvariant ==
  /\ Trials!TypeOK /\ Carries(worker) /\ Stored
  /\ \A q \in Visitors : Adopts(request[q])

LEMMA TrialTypes ==
  ASSUME Trials!ExperimentsAssumption, Trials!TypeOK
  PROVE  /\ worker \in WorkerStates /\ request \in [Visitors -> RequestStates]
         /\ None \notin Trials!Alt /\ None \notin Trials!Versions /\ None \notin Trials!Rows
         /\ None \notin Trials!Payloads
         /\ Alternatives \in Nat /\ MaxRevision \in Nat /\ Alternatives >= 1
         /\ Trials!Alt \subseteq Trials!Subjects /\ Trials!Alt \subseteq Nat
         /\ Trials!Subjects \subseteq Nat
         /\ 0 \in Trials!Subjects
  BY DEF Trials!ExperimentsAssumption, Trials!TypeOK, WorkerStates, RequestStates, Trials!Alt,
     Trials!Subjects

LEMMA GoesTyped ==
  ASSUME worker \in WorkerStates, NEW at \in Trials!Steps, NEW check \in BOOLEAN,
         NEW mem \in Trials!Payloads \cup {None}, Trials!Goes(at, check, mem)
  PROVE  /\ worker' \in WorkerStates /\ worker'.at = at /\ worker'.check = check
         /\ worker'.who = worker.who /\ worker'.mem = mem
  BY DEF WorkerStates, Trials!Goes

LEMMA GoesForTyped ==
  ASSUME worker \in WorkerStates, NEW at \in Trials!Steps, NEW who \in Trials!Subjects,
         NEW mem \in Trials!Payloads \cup {None}, Trials!GoesFor(at, who, mem)
  PROVE  /\ worker' \in WorkerStates /\ worker'.at = at
         /\ worker'.who = who /\ worker'.mem = mem
  BY DEF WorkerStates, Trials!GoesFor

LEMMA Restatus ==
  ASSUME NEW p \in Trials!Payloads, NEW st \in Trials!Open \cup Trials!Ended
  PROVE  /\ [p EXCEPT !.status = st] \in Trials!Payloads
         /\ [p EXCEPT !.status = st].status = st
         /\ [p EXCEPT !.status = st].reports = p.reports
         /\ [p EXCEPT !.status = st].revision = p.revision
  BY DEF Trials!Payloads

LEMMA Realternated ==
  ASSUME NEW p \in Trials!Payloads, NEW a \in Trials!Alt,
         NEW v \in Trials!Open \cup {"done", "failed"}
  PROVE  /\ [p EXCEPT !.alt[a] = v] \in Trials!Payloads
         /\ [p EXCEPT !.alt[a] = v].status = p.status
         /\ [p EXCEPT !.alt[a] = v].reports = p.reports
<1>1. PICK al : al = [p.alt EXCEPT ![a] = v]
  OBVIOUS
<1>2. al \in [Trials!Alt -> Trials!Open \cup {"done", "failed"}]
  BY <1>1 DEF Trials!Payloads
<1>3. [p EXCEPT !.alt[a] = v] = [p EXCEPT !.alt = al]
  BY <1>1 DEF Trials!Payloads
<1> QED
  BY <1>2, <1>3 DEF Trials!Payloads

LEMMA Reported ==
  ASSUME NEW p \in Trials!Payloads, NEW s \in Trials!Subjects, p.reports[s] \in 0 .. 1
  PROVE  LET n == [p EXCEPT !.reports[s] = @ + 1] IN
         /\ n \in Trials!Payloads /\ n.status = p.status
         /\ n.reports[s] = p.reports[s] + 1
         /\ \A t \in Trials!Subjects : t # s => n.reports[t] = p.reports[t]
<1>1. PICK re : re = [p.reports EXCEPT ![s] = p.reports[s] + 1]
  OBVIOUS
<1>2. p.reports \in [Trials!Subjects -> 0 .. 2] /\ p.reports[s] + 1 \in 0 .. 2
  BY DEF Trials!Payloads
<1>3. re \in [Trials!Subjects -> 0 .. 2]
  BY <1>1, <1>2
<1>4. [p EXCEPT !.reports[s] = @ + 1] = [p EXCEPT !.reports = re]
  BY <1>1 DEF Trials!Payloads
<1>5. /\ [p EXCEPT !.reports = re] \in Trials!Payloads
      /\ [p EXCEPT !.reports = re].status = p.status
      /\ [p EXCEPT !.reports = re].reports = re
  BY <1>3 DEF Trials!Payloads
<1> QED
  BY <1>1, <1>2, <1>4, <1>5

LEMMA ExpiredTyped ==
  ASSUME NEW p \in Trials!Payloads
  PROVE  Trials!Expired(p) \in Trials!Payloads /\ Trials!Expired(p).status = "failed"
<1>1. PICK al : al = [a \in Trials!Alt |-> IF p.alt[a] \in Trials!Open THEN "failed" ELSE p.alt[a]]
  OBVIOUS
<1>2. al \in [Trials!Alt -> Trials!Open \cup {"done", "failed"}]
  BY <1>1 DEF Trials!Payloads
<1>3. Trials!Expired(p) = [p EXCEPT !.status = "failed", !.alt = al]
  BY <1>1 DEF Trials!Expired
<1> QED
  BY <1>2, <1>3 DEF Trials!Payloads, Trials!Ended

LEMMA FrozenTyped ==
  ASSUME Trials!ExperimentsAssumption, NEW r \in 0 .. MaxRevision
  PROVE  Trials!Frozen(r) \in Trials!Payloads /\ Trials!Frozen(r).status = "queued"
         /\ Clean(Trials!Frozen(r), 0)
<1>1. /\ [s \in Trials!Subjects |-> 0] \in [Trials!Subjects -> 0 .. 2]
      /\ [a \in Trials!Alt |-> "queued"] \in [Trials!Alt -> Trials!Open \cup {"done", "failed"}]
  BY DEF Trials!Open
<1> QED
  BY <1>1 DEF Trials!Frozen, Trials!Payloads, Clean, Trials!Open

-----------------------------------------------------------------------------
(* The worker                                                               *)

\* The row after a save of the worker, whose experiment is not done.
LEMMA SavesRow ==
  ASSUME Trials!ExperimentsAssumption, row \in Trials!Rows \cup {None}, row # None =>
         row.state # "done",
         NEW p \in Trials!Payloads, p.status # "queued", row' = Trials!Saved(row, p)
  PROVE  /\ row' \in Trials!Rows \cup {None}
         /\ row' = row \/ (/\ row # None /\ row' # None /\ Settled(row')
                           /\ row'.state = p.status)
<1>1. PICK new : new = [state |-> p.status, payload |-> p]
  OBVIOUS
<1>2. new \in Trials!Rows /\ Settled(new) /\ new.state = p.status /\ new # None
  <2>1. new \in Trials!Rows
    BY <1>1 DEF Trials!Rows, Trials!Payloads
  <2> QED
    BY <1>1, <2>1 DEF Settled, Trials!ExperimentsAssumption
<1>3. row' = row \/ (row' = new /\ row # None)
  BY <1>1 DEF Trials!Saved
<1> QED
  BY <1>2, <1>3

\* A step of the worker that keeps its copy as it should be and stores what it has.
LEMMA WorkerHolds ==
  ASSUME Trials!ExperimentsAssumption, TrialInvariant, Trials!WorkerUnchanged, late' \in Nat,
         worker.at # "gone", worker' \in WorkerStates, Carries(worker'),
         row' \in Trials!Rows \cup {None},
         row' = row \/ (/\ row' # None /\ deck # None /\ Settled(row')
                        /\ row'.state = "done" => worker'.at = "gone")
  PROVE  TrialInvariant'
<1>1. UNCHANGED <<deck, receipts, old, stop, request>>
  BY DEF Trials!WorkerUnchanged
<1>2. row # None => row.state # "done"
  BY DEF TrialInvariant, Stored
<1>3. Trials!TypeOK'
  BY <1>1 DEF TrialInvariant, Trials!TypeOK, WorkerStates
<1>4. Stored'
  BY <1>1, <1>2 DEF TrialInvariant, Stored
<1>5. ASSUME NEW q \in Visitors
      PROVE  Adopts(request[q])'
  <2>1. Adopts(request[q])
    BY DEF TrialInvariant
  <2> QED
    BY <1>1, <1>2, <2>1 DEF Adopts
<1>6. Carries(worker)'
  OBVIOUS
<1> QED
  BY <1>3, <1>4, <1>5, <1>6 DEF TrialInvariant

\* What the worker's steps start from.
LEMMA WorkerFacts ==
  ASSUME Trials!ExperimentsAssumption, TrialInvariant
  PROVE  /\ worker \in WorkerStates /\ Carries(worker) /\ row \in Trials!Rows \cup {None}
         /\ deck \in Trials!Versions \cup {None} /\ late \in Nat /\ late + 1 \in Nat
         /\ worker.at # "gone" /\ row # None => row.state # "done"
         /\ row # None => deck # None /\ row.payload \in Trials!Payloads /\ Settled(row)
         /\ worker.at \notin {"create", "get", "gone"} => worker.mem \in Trials!Payloads
<1>1. worker \in WorkerStates /\ Carries(worker)
  BY TrialTypes DEF TrialInvariant
<1> QED
  BY <1>1 DEF TrialInvariant, Trials!TypeOK, Stored, Trials!Rows, Carries, WorkerStates

\* A step that leaves the row, ...
LEMMA Leaves ==
  ASSUME Trials!ExperimentsAssumption, TrialInvariant, Trials!WorkerUnchanged, late' \in Nat,
         worker.at # "gone", worker' \in WorkerStates, Carries(worker'), row' = row
  PROVE  TrialInvariant'
  BY WorkerHolds, WorkerFacts

\* ... or that saves the payload [p].
LEMMA Saves ==
  ASSUME Trials!ExperimentsAssumption, TrialInvariant, Trials!WorkerUnchanged, UNCHANGED late,
         worker.at # "gone", worker' \in WorkerStates, Carries(worker'),
         NEW p \in Trials!Payloads, row' = Trials!Saved(row, p), p.status # "queued",
         p.status = "done" => worker'.at = "gone"
  PROVE  TrialInvariant'
<1>1. row \in Trials!Rows \cup {None} /\ (row # None => row.state # "done") /\ late' \in Nat
      /\ (row # None => deck # None)
  BY WorkerFacts
<1>2. /\ row' \in Trials!Rows \cup {None}
      /\ row' = row \/ (/\ row # None /\ row' # None /\ Settled(row')
                        /\ row'.state = p.status)
  BY <1>1, SavesRow
<1> QED
  BY <1>1, <1>2, WorkerHolds

LEMMA Ends ==
  ASSUME Trials!ExperimentsAssumption, worker \in WorkerStates, NEW at, at = "gone",
         Trials!Goes(at, FALSE, None)
  PROVE  worker' \in WorkerStates /\ Carries(worker') /\ worker'.at = "gone"
<1>1. "gone" \in Trials!Steps
  BY DEF Trials!Steps
<1>2. worker' \in WorkerStates /\ worker'.at = "gone" /\ worker'.mem = None
  BY <1>1, GoesTyped
<1> QED
  BY <1>2 DEF Carries

LEMMA Creating ==
  ASSUME Trials!ExperimentsAssumption, TrialInvariant, Trials!Freeze \/ Trials!Recheck
  PROVE  TrialInvariant'
<1>1. "recheck" \in Trials!Steps /\ "insert" \in Trials!Steps /\ "create" \in Trials!Steps
  BY DEF Trials!Steps
<1>2. CASE Trials!Freeze
  <2>1. deck.revision \in 0 .. MaxRevision
    BY <1>2, WorkerFacts DEF Trials!Freeze, Trials!Versions
  <2>2. PICK mem : mem = Trials!Frozen(deck.revision)
    OBVIOUS
  <2>3. mem \in Trials!Payloads /\ mem.status = "queued" /\ Clean(mem, 0)
    BY <2>1, <2>2, FrozenTyped
  <2>4. worker' \in WorkerStates /\ worker'.at = "recheck" /\ worker'.mem = mem
    BY <1>1, <1>2, <2>2, <2>3, GoesTyped, WorkerFacts DEF Trials!Freeze
  <2>5. Carries(worker')
    BY <2>3, <2>4, TrialTypes DEF Carries, TrialInvariant
  <2> QED
    BY <1>2, <2>4, <2>5, Leaves, WorkerFacts DEF Trials!Freeze
<1>3. CASE Trials!Recheck
  <2>1. worker.at = "recheck" /\ worker.mem \in Trials!Payloads /\ worker \in WorkerStates
        /\ worker.mem.status = "queued" /\ Clean(worker.mem, 0)
    BY <1>3, WorkerFacts DEF Trials!Recheck, Carries
  <2>2. CASE Trials!Goes("insert", FALSE, worker.mem)
    <3>1. worker' \in WorkerStates /\ worker'.at = "insert" /\ worker'.mem = worker.mem
      BY <1>1, <2>1, <2>2, GoesTyped
    <3>2. Carries(worker')
      BY <2>1, <3>1, TrialTypes DEF Carries, TrialInvariant
    <3> QED
      BY <1>3, <2>1, <3>1, <3>2, Leaves, WorkerFacts DEF Trials!Recheck
  <2>3. CASE Trials!Goes("gone", FALSE, None)
    BY <1>3, <2>1, <2>3, Ends, Leaves, WorkerFacts DEF Trials!Recheck
  <2> QED
    BY <1>3, <2>2, <2>3 DEF Trials!Recheck
<1> QED
  BY <1>2, <1>3

LEMMA RowInserted ==
  ASSUME Trials!ExperimentsAssumption, TrialInvariant, Trials!Insert
  PROVE  TrialInvariant'
<1>1. /\ worker.at = "insert" /\ worker.mem \in Trials!Payloads /\ worker \in WorkerStates
      /\ worker.mem.status = "queued" /\ Clean(worker.mem, 0) /\ "get" \in Trials!Steps
      /\ Trials!WorkerUnchanged /\ late' \in Nat
  BY WorkerFacts DEF Trials!Insert, Carries, Trials!Steps
<1>2. CASE row' = row /\ Trials!Goes("gone", FALSE, None)
  BY <1>1, <1>2, Ends, Leaves
<1>3. CASE deck # None /\ row' = [state |-> "queued", payload |-> worker.mem]
           /\ Trials!Goes("get", FALSE, None)
  <2>1. worker' \in WorkerStates /\ worker'.at = "get" /\ worker'.mem = None
    BY <1>1, <1>3, GoesTyped
  <2>2. Carries(worker')
    BY <2>1 DEF Carries
  <2>3. row' \in Trials!Rows /\ row'.state = "queued" /\ row'.payload = worker.mem
    BY <1>1, <1>3 DEF Trials!Rows, Trials!Open
  <2>4. row' # None /\ Settled(row')
    BY <1>1, <2>3, TrialTypes DEF Settled, TrialInvariant
  <2> QED
    BY <1>1, <1>3, <2>1, <2>2, <2>3, <2>4, WorkerHolds
<1> QED
  BY <1>2, <1>3 DEF Trials!Insert

LEMMA Getting ==
  ASSUME Trials!ExperimentsAssumption, TrialInvariant, Trials!Get
  PROVE  TrialInvariant'
<1>1. /\ worker.at = "get" /\ worker \in WorkerStates /\ "expire" \in Trials!Steps
      /\ "early" \in Trials!Steps
      /\ Trials!WorkerUnchanged /\ late' \in Nat /\ row' = row
  BY WorkerFacts DEF Trials!Get, Trials!Steps
<1>2. CASE Trials!Goes("gone", FALSE, None)
  BY <1>1, <1>2, Ends, Leaves
<1>3. CASE row # None /\ Trials!Overdue(row.payload)
           /\ Trials!Goes("expire", FALSE, row.payload)
  <2>1. row.payload \in Trials!Payloads /\ row.payload.status \in Trials!Open
    BY <1>3, WorkerFacts DEF Trials!Overdue
  <2>2. worker' \in WorkerStates /\ worker'.at = "expire" /\ worker'.mem = row.payload
    BY <1>1, <1>3, <2>1, GoesTyped
  <2>3. Carries(worker')
    BY <2>1, <2>2, TrialTypes DEF Carries, TrialInvariant
  <2> QED
    BY <1>1, <2>2, <2>3, Leaves
<1>4. CASE row # None /\ row.payload.status = "queued"
           /\ Trials!Goes("early", FALSE, row.payload)
  <2>1. row.payload \in Trials!Payloads /\ Clean(row.payload, 0)
    BY <1>4, WorkerFacts DEF Settled
  <2>2. worker' \in WorkerStates /\ worker'.at = "early" /\ worker'.mem = row.payload
    BY <1>1, <1>4, <2>1, GoesTyped
  <2>3. Carries(worker')
    BY <1>4, <2>1, <2>2, TrialTypes DEF Carries, TrialInvariant
  <2> QED
    BY <1>1, <2>2, <2>3, Leaves
<1> QED
  BY <1>2, <1>3, <1>4 DEF Trials!Get

LEMMA GetExpiring ==
  ASSUME Trials!ExperimentsAssumption, TrialInvariant, Trials!GetExpires
  PROVE  TrialInvariant'
<1>1. /\ worker.at = "expire" /\ worker \in WorkerStates /\ "get" \in Trials!Steps
      /\ Trials!WorkerUnchanged /\ late' \in Nat /\ worker.mem \in Trials!Payloads
  BY WorkerFacts DEF Trials!GetExpires, Trials!Steps
<1>2. CASE row' = row /\ Trials!Goes("get", FALSE, None)
  <2>1. worker' \in WorkerStates /\ worker'.at = "get" /\ worker'.mem = None
    BY <1>1, <1>2, GoesTyped
  <2>2. Carries(worker')
    BY <2>1 DEF Carries
  <2> QED
    BY <1>1, <1>2, <2>1, <2>2, Leaves
<1>3. CASE /\ row # None /\ row' = [state |-> "failed", payload |-> Trials!Expired(worker.mem)]
           /\ Trials!Goes("gone", FALSE, None)
  <2>1. PICK p : p = Trials!Expired(worker.mem)
    OBVIOUS
  <2>2. p \in Trials!Payloads /\ p.status = "failed"
    BY <1>1, <2>1, ExpiredTyped
  <2>3. row' \in Trials!Rows /\ row'.state = "failed" /\ row'.payload = p
    BY <1>3, <2>1, <2>2 DEF Trials!Rows, Trials!Ended
  <2>4. row' # None /\ Settled(row')
    BY <2>2, <2>3, TrialTypes DEF Settled, TrialInvariant
  <2>5. worker' \in WorkerStates /\ Carries(worker')
    BY <1>1, <1>3, Ends
  <2>6. deck # None
    BY <1>3, WorkerFacts
  <2> QED
    BY <1>1, <2>3, <2>4, <2>5, <2>6, WorkerHolds
<1> QED
  BY <1>2, <1>3 DEF Trials!GetExpires, Trials!Expires

LEMMA StoppingEarly ==
  ASSUME Trials!ExperimentsAssumption, TrialInvariant, Trials!StopEarly
  PROVE  TrialInvariant'
<1>1. /\ worker.at = "early" /\ worker \in WorkerStates /\ "acknowledge" \in Trials!Steps
      /\ "claim" \in Trials!Steps /\ Trials!WorkerUnchanged /\ late' \in Nat /\ row' = row
      /\ worker.mem \in Trials!Payloads /\ worker.mem.status = "queued" /\ Clean(worker.mem, 0)
  BY WorkerFacts DEF Trials!StopEarly, Trials!Steps, Carries
<1>2. CASE Trials!Goes("acknowledge", FALSE, [worker.mem EXCEPT !.status = "stopped"])
  <2>1. PICK p : p = [worker.mem EXCEPT !.status = "stopped"]
    OBVIOUS
  <2>2. p \in Trials!Payloads /\ p.status = "stopped"
    BY <1>1, <2>1, Restatus DEF Trials!Ended
  <2>3. worker' \in WorkerStates /\ worker'.at = "acknowledge" /\ worker'.mem = p
    BY <1>1, <1>2, <2>1, <2>2, GoesTyped
  <2>4. Carries(worker')
    BY <2>2, <2>3, TrialTypes DEF Carries, TrialInvariant
  <2> QED
    BY <1>1, <2>3, <2>4, Leaves
<1>3. CASE Trials!Goes("claim", FALSE, worker.mem)
  <2>1. worker' \in WorkerStates /\ worker'.at = "claim" /\ worker'.mem = worker.mem
    BY <1>1, <1>3, GoesTyped
  <2>2. Carries(worker')
    BY <1>1, <2>1, TrialTypes DEF Carries, TrialInvariant
  <2> QED
    BY <1>1, <2>1, <2>2, Leaves
<1> QED
  BY <1>2, <1>3 DEF Trials!StopEarly

LEMMA Claiming ==
  ASSUME Trials!ExperimentsAssumption, TrialInvariant, Trials!Claim
  PROVE  TrialInvariant'
<1>1. /\ worker.at = "claim" /\ worker \in WorkerStates /\ "start" \in Trials!Steps
      /\ Trials!WorkerUnchanged /\ late' \in Nat
      /\ worker.mem \in Trials!Payloads /\ worker.mem.status = "queued" /\ Clean(worker.mem, 0)
  BY WorkerFacts DEF Trials!Claim, Trials!Steps, Carries
<1>2. CASE row' = row /\ Trials!Goes("gone", FALSE, None)
  BY <1>1, <1>2, Ends, Leaves
<1>3. CASE /\ row # None /\ row.state = "queued" /\ row' = [row EXCEPT !.state = "running"]
           /\ Trials!Goes("start", TRUE, worker.mem)
  <2>1. worker' \in WorkerStates /\ worker'.at = "start" /\ worker'.mem = worker.mem
    BY <1>1, <1>3, GoesTyped
  <2>2. Carries(worker')
    BY <1>1, <2>1, TrialTypes DEF Carries, TrialInvariant
  <2>3. row \in Trials!Rows /\ Settled(row) /\ deck # None
    BY <1>3, WorkerFacts
  <2>4. row' \in Trials!Rows /\ row'.state = "running" /\ row'.payload = row.payload
    BY <1>3, <2>3 DEF Trials!Rows, Trials!Open
  <2>5. row' # None /\ Settled(row')
    BY <1>3, <2>3, <2>4, TrialTypes DEF Settled, TrialInvariant
  <2> QED
    BY <1>1, <2>1, <2>2, <2>3, <2>4, <2>5, WorkerHolds
<1> QED
  BY <1>2, <1>3 DEF Trials!Claim

\* Where the worker asks whether it was stopped.
Checked(w) == w.check => w.at \in {"start", "trial", "begin", "record", "settle", "end"}

LEMMA Checking ==
  ASSUME Trials!ExperimentsAssumption, TrialInvariant, Checked(worker), Trials!Check
  PROVE  TrialInvariant'
<1>1. /\ worker.at \in {"start", "trial", "begin", "record", "settle", "end"}
      /\ worker \in WorkerStates /\ "acknowledge" \in Trials!Steps
      /\ Trials!WorkerUnchanged /\ late' \in Nat /\ row' = row
      /\ worker.mem \in Trials!Payloads /\ worker.at \in Trials!Steps /\ Carries(worker)
  BY WorkerFacts DEF Trials!Check, Checked, Trials!Steps
<1>2. CASE Trials!Goes("gone", FALSE, None)
  BY <1>1, <1>2, Ends, Leaves
<1>3. CASE Trials!Goes("acknowledge", FALSE, [worker.mem EXCEPT !.status = "stopped"])
  <2>1. PICK p : p = [worker.mem EXCEPT !.status = "stopped"]
    OBVIOUS
  <2>2. p \in Trials!Payloads /\ p.status = "stopped"
    BY <1>1, <2>1, Restatus DEF Trials!Ended
  <2>3. worker' \in WorkerStates /\ worker'.at = "acknowledge" /\ worker'.mem = p
    BY <1>1, <1>3, <2>1, <2>2, GoesTyped
  <2>4. Carries(worker')
    BY <2>2, <2>3, TrialTypes DEF Carries, TrialInvariant
  <2> QED
    BY <1>1, <2>3, <2>4, Leaves
<1>4. CASE Trials!Goes(worker.at, FALSE, worker.mem)
  <2>1. /\ worker' \in WorkerStates /\ worker'.at = worker.at /\ worker'.mem = worker.mem
        /\ worker'.who = worker.who
    BY <1>1, <1>4, GoesTyped
  <2>2. Carries(worker')
    BY <1>1, <2>1 DEF Carries
  <2> QED
    BY <1>1, <2>1, <2>2, Leaves
<1> QED
  BY <1>2, <1>3, <1>4 DEF Trials!Check

LEMMA Acknowledging ==
  ASSUME Trials!ExperimentsAssumption, TrialInvariant, Trials!Acknowledge \/ Trials!End
  PROVE  TrialInvariant'
<1>1. /\ worker.at \in {"acknowledge", "end"} /\ worker \in WorkerStates
      /\ worker.mem \in Trials!Payloads
      /\ Trials!WorkerUnchanged /\ UNCHANGED late /\ row' = Trials!Saved(row, worker.mem)
      /\ Trials!Goes("gone", FALSE, None) /\ worker.mem.status # "queued"
  BY WorkerFacts DEF Trials!Acknowledge, Trials!End, Trials!At, Carries
<1>2. worker' \in WorkerStates /\ Carries(worker') /\ worker'.at = "gone"
  BY <1>1, Ends
<1> QED
  BY <1>1, <1>2, Saves

LEMMA GoesChecked ==
  ASSUME worker \in WorkerStates, NEW at, NEW check \in BOOLEAN, NEW mem,
         Trials!Goes(at, check, mem),
         check => at \in {"start", "trial", "begin", "record", "settle", "end"}
  PROVE  Checked(worker')
  BY DEF WorkerStates, Trials!Goes, Checked

LEMMA GoesForChecked ==
  ASSUME worker \in WorkerStates, NEW at, NEW who, NEW mem, Trials!GoesFor(at, who, mem),
         at \in {"start", "trial", "begin", "record", "settle", "end"}
  PROVE  Checked(worker')
  BY DEF WorkerStates, Trials!GoesFor, Checked

LEMMA CheckedNext ==
  ASSUME worker \in WorkerStates, Checked(worker), Trials!Next
  PROVE  Checked(worker')
<1>1. CASE Trials!Freeze \/ Trials!Recheck \/ Trials!Insert \/ Trials!Get
           \/ Trials!GetExpires \/ Trials!StopEarly \/ Trials!Claim
  BY <1>1, GoesChecked
     DEF Trials!Freeze, Trials!Recheck, Trials!Insert, Trials!Get, Trials!GetExpires,
        Trials!StopEarly, Trials!Claim
<1>2. CASE Trials!Check \/ Trials!Acknowledge \/ Trials!Trial \/ Trials!Answered
           \/ Trials!Refused \/ Trials!End \/ Trials!Crash
  BY <1>2, GoesChecked
     DEF Trials!Check, Trials!Acknowledge, Trials!Trial, Trials!Answered, Trials!Refused,
        Trials!End, Trials!Crash
<1>3. CASE Trials!Start \/ Trials!Begin
  BY <1>3, GoesForChecked DEF Trials!Start, Trials!Begin
<1>4. CASE Trials!Settle
  BY <1>4, GoesChecked, GoesForChecked DEF Trials!Settle
<1>5. CASE Trials!Record
  BY <1>5, GoesChecked, GoesForChecked DEF Trials!Record
<1>6. CASE UNCHANGED worker
  BY <1>6
<1>7. (\E q \in Visitors :
         \/ Trials!View(q) \/ Trials!RequestStep(q) \/ Trials!Abandon(q)
         \/ \E a \in Trials!Alt : Trials!AskAdoption(q, a)) => UNCHANGED worker
  BY DEF Trials!View, Trials!RequestStep, Trials!Abandon, Trials!AskAdoption, Trials!Read,
     Trials!Expire, Trials!Verify, Trials!Apply, Trials!SaveAdoption,
         Trials!RequestUnchanged
<1>8. Trials!Edit \/ Trials!Delete \/ Trials!Stop \/ Trials!TimePasses => UNCHANGED worker
  BY DEF Trials!Edit, Trials!Delete, Trials!Stop, Trials!TimePasses
<1> QED
  BY <1>1, <1>2, <1>3, <1>4, <1>5, <1>6, <1>7, <1>8 DEF Trials!Next, Trials!WorkerStep

LEMMA Starting ==
  ASSUME Trials!ExperimentsAssumption, TrialInvariant, Trials!Start
  PROVE  TrialInvariant'
<1>1. /\ worker.at = "start" /\ worker \in WorkerStates /\ "trial" \in Trials!Steps
      /\ 0 \in Trials!Subjects
      /\ Trials!WorkerUnchanged /\ UNCHANGED late
      /\ worker.mem \in Trials!Payloads /\ Clean(worker.mem, 0) /\ Trials!Subjects \subseteq Nat
  BY WorkerFacts, TrialTypes DEF Trials!Start, Trials!At, Trials!Steps, Carries, TrialInvariant
<1>2. PICK p : p = [worker.mem EXCEPT !.status = "running"]
  OBVIOUS
<1>3. p \in Trials!Payloads /\ p.status = "running" /\ p.reports = worker.mem.reports
  BY <1>1, <1>2, Restatus DEF Trials!Open
<1>4. row' = Trials!Saved(row, p) /\ Trials!GoesFor("trial", 0, p)
  BY <1>2 DEF Trials!Start
<1>5. worker' \in WorkerStates /\ worker'.at = "trial" /\ worker'.who = 0 /\ worker'.mem = p
  BY <1>1, <1>3, <1>4, GoesForTyped
<1>6. Clean(p, 1) /\ p.reports[0] = 0
  <2>1. ASSUME NEW s \in Trials!Subjects
        PROVE  p.reports[s] = 0
    <3>1. s \in Nat /\ s >= 0
      BY <1>1
    <3> QED
      BY <1>1, <1>3, <3>1 DEF Clean
  <2> QED
    BY <1>1, <2>1 DEF Clean
<1>7. Carries(worker')
  BY <1>3, <1>5, <1>6, TrialTypes DEF Carries, TrialInvariant
<1> QED
  BY <1>1, <1>3, <1>4, <1>5, <1>7, Saves

LEMMA Beginning ==
  ASSUME Trials!ExperimentsAssumption, TrialInvariant, Trials!Begin
  PROVE  TrialInvariant'
<1>1. /\ worker.at = "begin" /\ worker \in WorkerStates /\ "trial" \in Trials!Steps
      /\ worker.who \in Trials!Subjects /\ worker.who \in Trials!Alt /\ Trials!WorkerUnchanged
      /\ UNCHANGED late
      /\ worker.mem \in Trials!Payloads /\ worker.mem.status = "running"
      /\ Clean(worker.mem, worker.who) /\ Clean(worker.mem, worker.who + 1)
      /\ Trials!Subjects \subseteq Nat
  BY WorkerFacts, TrialTypes DEF Trials!Begin, Trials!At, Trials!Steps, Carries, TrialInvariant
<1>2. PICK p : p = [worker.mem EXCEPT !.alt[worker.who] = "running"]
  OBVIOUS
<1>3. p \in Trials!Payloads /\ p.status = "running" /\ p.reports = worker.mem.reports
  BY <1>1, <1>2, Realternated DEF Trials!Open
<1>4. row' = Trials!Saved(row, p) /\ Trials!GoesFor("trial", worker.who, p)
  BY <1>2 DEF Trials!Begin
<1>5. worker' \in WorkerStates /\ worker'.at = "trial" /\ worker'.who = worker.who
      /\ worker'.mem = p
  BY <1>1, <1>3, <1>4, GoesForTyped
<1>6. Clean(p, worker.who + 1) /\ p.reports[worker.who] = 0
  <2>1. Clean(p, worker.who + 1)
    BY <1>1, <1>3 DEF Clean
  <2>2. PICK s \in Trials!Subjects : s = worker.who
    BY <1>1
  <2>3. s >= worker.who
    BY <1>1, <2>2
  <2>4. worker.mem.reports[s] = 0
    BY <1>1, <2>3 DEF Clean
  <2> QED
    BY <1>3, <2>1, <2>2, <2>4
<1>7. Carries(worker')
  BY <1>3, <1>5, <1>6, TrialTypes DEF Carries, TrialInvariant
<1> QED
  BY <1>1, <1>3, <1>4, <1>5, <1>7, Saves

LEMMA Trying ==
  ASSUME Trials!ExperimentsAssumption, TrialInvariant, Trials!Trial \/ Trials!Answered
  PROVE  TrialInvariant'
<1>1. /\ worker.at \in {"trial", "waiting"} /\ worker \in WorkerStates /\ Carries(worker)
      /\ Trials!WorkerUnchanged /\ late' \in Nat /\ row' = row /\ worker.mem \in Trials!Payloads
      /\ "waiting" \in Trials!Steps /\ "record" \in Trials!Steps
  BY WorkerFacts DEF Trials!Trial, Trials!Answered, Trials!At, Trials!Steps
<1>2. /\ worker' \in WorkerStates /\ worker'.at \in {"waiting", "record"}
      /\ worker'.who = worker.who /\ worker'.mem = worker.mem
  BY <1>1, GoesTyped DEF Trials!Trial, Trials!Answered
<1>3. Carries(worker')
  BY <1>1, <1>2 DEF Carries
<1> QED
  BY <1>1, <1>2, <1>3, Leaves

LEMMA Refusing ==
  ASSUME Trials!ExperimentsAssumption, TrialInvariant, Trials!Refused
  PROVE  TrialInvariant'
<1>1. /\ worker.at = "waiting" /\ worker \in WorkerStates /\ Carries(worker)
      /\ Trials!WorkerUnchanged /\ late' \in Nat /\ row' = row /\ worker.mem \in Trials!Payloads
      /\ worker.mem.status = "running" /\ Clean(worker.mem, worker.who + 1)
      /\ "end" \in Trials!Steps /\ "settle" \in Trials!Steps /\ worker.who \in Trials!Subjects
  BY WorkerFacts DEF Trials!Refused, Trials!Steps, Carries, WorkerStates
<1>2. CASE Trials!Goes("end", TRUE, [worker.mem EXCEPT !.status = "failed"])
  <2>1. PICK p : p = [worker.mem EXCEPT !.status = "failed"]
    OBVIOUS
  <2>2. p \in Trials!Payloads /\ p.status = "failed"
    BY <1>1, <2>1, Restatus DEF Trials!Ended
  <2>3. worker' \in WorkerStates /\ worker'.at = "end" /\ worker'.mem = p
    BY <1>1, <1>2, <2>1, <2>2, GoesTyped
  <2>4. Carries(worker')
    BY <2>2, <2>3, TrialTypes DEF Carries, TrialInvariant
  <2> QED
    BY <1>1, <2>3, <2>4, Leaves
<1>3. CASE worker.who # 0 /\ Trials!Goes("settle", TRUE, [worker.mem EXCEPT !.alt[worker.who] = "failed"])
  <2>1. PICK p : p = [worker.mem EXCEPT !.alt[worker.who] = "failed"]
    OBVIOUS
  <2>2. worker.who \in Trials!Alt
    BY <1>1, <1>3, TrialTypes DEF Trials!Alt, Trials!Subjects, TrialInvariant
  <2>3. p \in Trials!Payloads /\ p.status = "running" /\ p.reports = worker.mem.reports
    BY <1>1, <2>1, <2>2, Realternated
  <2>4. /\ worker' \in WorkerStates /\ worker'.at = "settle" /\ worker'.mem = p
        /\ worker'.who = worker.who
    BY <1>1, <1>3, <2>1, <2>3, GoesTyped
  <2>5. Clean(p, worker.who + 1)
    BY <1>1, <2>3 DEF Clean
  <2>6. Carries(worker')
    BY <2>2, <2>3, <2>4, <2>5, TrialTypes DEF Carries, TrialInvariant
  <2> QED
    BY <1>1, <2>4, <2>6, Leaves
<1> QED
  BY <1>2, <1>3 DEF Trials!Refused

\* The report is counted, and the subjects after it are clean as before.
LEMMA Counting ==
  ASSUME Trials!ExperimentsAssumption, TrialInvariant, Trials!At("record"),
         NEW p, p = [worker.mem EXCEPT !.reports[worker.who] = @ + 1]
  PROVE  /\ p \in Trials!Payloads /\ p.status = "running" /\ Clean(p, worker.who + 1)
         /\ p.reports[worker.who] \in 1 .. 2
<1>1. /\ worker.at = "record" /\ worker \in WorkerStates /\ worker.mem \in Trials!Payloads
      /\ worker.mem.status = "running" /\ Clean(worker.mem, worker.who + 1)
      /\ worker.mem.reports[worker.who] \in 0 .. 1 /\ worker.who \in Trials!Subjects
      /\ worker.who \in Nat /\ Trials!Subjects \subseteq Nat
  BY WorkerFacts, TrialTypes DEF Trials!At, Carries, WorkerStates, TrialInvariant
<1>2. /\ p \in Trials!Payloads /\ p.status = "running"
      /\ p.reports[worker.who] = worker.mem.reports[worker.who] + 1
      /\ \A t \in Trials!Subjects : t # worker.who => p.reports[t] = worker.mem.reports[t]
  BY <1>1, Reported
<1>3. ASSUME NEW t \in Trials!Subjects, t >= worker.who + 1
      PROVE  p.reports[t] = 0
  <2>1. t # worker.who
    BY <1>1, <1>3
  <2>2. worker.mem.reports[t] = 0
    BY <1>1, <1>3 DEF Clean
  <2> QED
    BY <1>2, <2>1, <2>2
<1>4. Clean(p, worker.who + 1)
  BY <1>3 DEF Clean
<1> QED
  BY <1>1, <1>2, <1>4

LEMMA CleanLater ==
  ASSUME NEW p, NEW n \in Nat, Trials!Subjects \subseteq Nat, Clean(p, n)
  PROVE  Clean(p, n + 1)
<1>1. ASSUME NEW s \in Trials!Subjects, s >= n + 1
      PROVE  p.reports[s] = 0
  <2>1. s \in Nat
    OBVIOUS
  <2>2. s >= n
    BY <1>1, <2>1
  <2> QED
    BY <2>2 DEF Clean
<1> QED
  BY <1>1 DEF Clean

LEMMA Recording ==
  ASSUME Trials!ExperimentsAssumption, TrialInvariant, Trials!Record
  PROVE  TrialInvariant'
<1>1. /\ worker.at = "record" /\ Trials!At("record") /\ worker \in WorkerStates
      /\ worker.who \in Trials!Subjects
      /\ worker.who \in Nat /\ Trials!WorkerUnchanged /\ UNCHANGED late
      /\ {"trial", "begin", "settle"} \subseteq Trials!Steps /\ Trials!Subjects \subseteq Nat
      /\ 1 \in Trials!Alt /\ 1 \in Trials!Subjects
  BY WorkerFacts, TrialTypes
     DEF Trials!Record, Trials!At, WorkerStates, Trials!Steps, TrialInvariant, Trials!Alt
<1>2. PICK p : p = [worker.mem EXCEPT !.reports[worker.who] = @ + 1]
  OBVIOUS
<1>3. /\ p \in Trials!Payloads /\ p.status = "running" /\ Clean(p, worker.who + 1)
      /\ p.reports[worker.who] \in 1 .. 2
  BY <1>1, <1>2, Counting
<1>4. /\ row' = Trials!Saved(row, p)
      /\ \/ p.reports[worker.who] # 2 /\ Trials!GoesFor("trial", worker.who, p)
         \/ worker.who = 0 /\ Trials!GoesFor("begin", 1, p)
         \/ /\ worker.who # 0
            /\ \E verdict \in {"done", "failed"} :
                 Trials!Goes("settle", TRUE, [p EXCEPT !.alt[worker.who] = verdict])
  BY <1>2 DEF Trials!Record
<1>5. CASE p.reports[worker.who] # 2 /\ Trials!GoesFor("trial", worker.who, p)
  <2>1. worker' \in WorkerStates /\ worker'.at = "trial" /\ worker'.who = worker.who
        /\ worker'.mem = p
    BY <1>1, <1>3, <1>5, GoesForTyped
  <2>2. p.reports[worker.who] \in 0 .. 1
    BY <1>3, <1>5
  <2>3. Carries(worker')
    BY <1>3, <2>1, <2>2, TrialTypes DEF Carries, TrialInvariant
  <2> QED
    BY <1>1, <1>3, <1>4, <2>1, <2>3, Saves
<1>6. CASE worker.who = 0 /\ Trials!GoesFor("begin", 1, p)
  <2>1. worker' \in WorkerStates /\ worker'.at = "begin" /\ worker'.who = 1 /\ worker'.mem = p
    BY <1>1, <1>3, <1>6, GoesForTyped
  <2>2. Clean(p, 1) /\ Clean(p, 1 + 1)
    <3>1. Clean(p, 1)
      BY <1>3, <1>6
    <3> QED
      BY <1>1, <3>1, CleanLater
  <2>3. Carries(worker')
    BY <1>1, <1>3, <2>1, <2>2, TrialTypes DEF Carries, TrialInvariant
  <2> QED
    BY <1>1, <1>3, <1>4, <2>1, <2>3, Saves
<1>7. ASSUME worker.who # 0, NEW verdict \in {"done", "failed"},
             Trials!Goes("settle", TRUE, [p EXCEPT !.alt[worker.who] = verdict])
      PROVE  TrialInvariant'
  <2>1. worker.who \in Trials!Alt
    BY <1>1, <1>7 DEF Trials!Alt, Trials!Subjects
  <2>2. PICK r : r = [p EXCEPT !.alt[worker.who] = verdict]
    OBVIOUS
  <2>3. r \in Trials!Payloads /\ r.status = "running" /\ r.reports = p.reports
    BY <1>3, <2>1, <2>2, Realternated
  <2>4. Clean(r, worker.who + 1)
    BY <1>3, <2>3 DEF Clean
  <2>5. /\ worker' \in WorkerStates /\ worker'.at = "settle" /\ worker'.mem = r
        /\ worker'.who = worker.who
    BY <1>1, <1>7, <2>2, <2>3, GoesTyped
  <2>6. Carries(worker')
    BY <2>1, <2>3, <2>4, <2>5, TrialTypes DEF Carries, TrialInvariant
  <2> QED
    BY <1>1, <1>3, <1>4, <2>5, <2>6, Saves
<1> QED
  BY <1>4, <1>5, <1>6, <1>7

LEMMA Settling ==
  ASSUME Trials!ExperimentsAssumption, TrialInvariant, Trials!Settle
  PROVE  TrialInvariant'
<1>1. /\ worker.at = "settle" /\ worker \in WorkerStates /\ worker.who \in Trials!Alt
      /\ worker.who \in Nat /\ Trials!WorkerUnchanged /\ UNCHANGED late
      /\ {"begin", "end"} \subseteq Trials!Steps /\ Trials!Subjects \subseteq Nat
      /\ worker.mem \in Trials!Payloads /\ worker.mem.status = "running"
      /\ Clean(worker.mem, worker.who + 1) /\ row' = Trials!Saved(row, worker.mem)
  BY WorkerFacts, TrialTypes
     DEF Trials!Settle, Trials!At, WorkerStates, Trials!Steps, Carries, TrialInvariant
<1>2. CASE worker.who < Alternatives /\ Trials!GoesFor("begin", worker.who + 1, worker.mem)
  <2>1. worker.who + 1 \in Trials!Alt /\ worker.who + 1 \in Trials!Subjects
        /\ worker.who + 1 \in Nat
    BY <1>1, <1>2, TrialTypes DEF Trials!Alt, Trials!Subjects, TrialInvariant
  <2>2. /\ worker' \in WorkerStates /\ worker'.at = "begin" /\ worker'.who = worker.who + 1
        /\ worker'.mem = worker.mem
    BY <1>1, <1>2, <2>1, GoesForTyped
  <2>3. Clean(worker.mem, (worker.who + 1) + 1)
    BY <1>1, <2>1, CleanLater
  <2>4. Carries(worker')
    BY <1>1, <2>1, <2>2, <2>3, TrialTypes DEF Carries, TrialInvariant
  <2> QED
    BY <1>1, <2>2, <2>4, Saves
<1>3. CASE Trials!Goes("end", TRUE, [worker.mem EXCEPT !.status = "done"])
  <2>1. PICK p : p = [worker.mem EXCEPT !.status = "done"]
    OBVIOUS
  <2>2. p \in Trials!Payloads /\ p.status = "done"
    BY <1>1, <2>1, Restatus DEF Trials!Ended
  <2>3. worker' \in WorkerStates /\ worker'.at = "end" /\ worker'.mem = p
    BY <1>1, <1>3, <2>1, <2>2, GoesTyped
  <2>4. Carries(worker')
    BY <2>2, <2>3, TrialTypes DEF Carries, TrialInvariant
  <2> QED
    BY <1>1, <2>3, <2>4, Saves
<1> QED
  BY <1>2, <1>3 DEF Trials!Settle

LEMMA Crashing ==
  ASSUME Trials!ExperimentsAssumption, TrialInvariant, Trials!Crash
  PROVE  TrialInvariant'
  BY Ends, Leaves, WorkerFacts DEF Trials!Crash

-----------------------------------------------------------------------------
(* The page requests                                                        *)

LEMMA BecomesTyped ==
  ASSUME request \in [Visitors -> RequestStates], NEW q \in Visitors, NEW r \in RequestStates,
         Trials!Becomes(q, r)
  PROVE  /\ request' \in [Visitors -> RequestStates] /\ request'[q] = r
         /\ \A o \in Visitors : o # q => request'[o] = request[o]
  BY DEF Trials!Becomes

\* What the steps of a request start from.
LEMMA RequestFacts ==
  ASSUME Trials!ExperimentsAssumption, TrialInvariant, NEW q \in Visitors
  PROVE  /\ request \in [Visitors -> RequestStates] /\ request[q] \in RequestStates
         /\ Adopts(request[q])
         /\ deck \in Trials!Versions \cup {None} /\ row \in Trials!Rows \cup {None}
         /\ row # None => /\ deck # None /\ row.payload \in Trials!Payloads /\ Settled(row)
                          /\ row.state = "done" => worker.at = "gone"
         /\ None \notin Trials!Alt /\ None \notin Trials!Versions /\ None \notin Trials!Rows
         /\ None \notin Trials!Payloads
<1>1. request \in [Visitors -> RequestStates]
  BY TrialTypes DEF TrialInvariant
<1> QED
  BY <1>1, TrialTypes DEF TrialInvariant, Trials!TypeOK, Stored, Trials!Rows

\* A request that goes on while the deck and the row stay.
LEMMA GoesOn ==
  ASSUME Trials!ExperimentsAssumption, TrialInvariant, NEW q \in Visitors,
         NEW r \in RequestStates,
         Trials!Becomes(q, r), UNCHANGED <<deck, receipts, row>>, Trials!RequestUnchanged,
         stop' \in BOOLEAN, Adopts(r)
  PROVE  TrialInvariant'
<1>1. /\ request' \in [Visitors -> RequestStates] /\ request'[q] = r
      /\ \A o \in Visitors : o # q => request'[o] = request[o]
  BY BecomesTyped, RequestFacts
<1>2. UNCHANGED <<deck, receipts, row, old, worker, late>>
  BY DEF Trials!RequestUnchanged
<1>3. Trials!TypeOK'
  BY <1>1, <1>2 DEF TrialInvariant, Trials!TypeOK, RequestStates
<1>4. Carries(worker)' /\ Stored'
  BY <1>2 DEF TrialInvariant, Carries, Clean, Stored, Settled
<1>5. ASSUME NEW o \in Visitors
      PROVE  Adopts(request[o])'
  <2>1. Adopts(request'[o])
    BY <1>1 DEF TrialInvariant
  <2> QED
    BY <1>2, <2>1 DEF Adopts
<1> QED
  BY <1>3, <1>4, <1>5 DEF TrialInvariant

LEMMA Idles ==
  ASSUME Trials!ExperimentsAssumption
  PROVE  Trials!Idle \in RequestStates /\ Adopts(Trials!Idle) /\ Trials!Idle.at = "idle"
  BY DEF Trials!ExperimentsAssumption, Trials!Idle, RequestStates, Adopts

\* A request that is over, and left deck and row as they were.
LEMMA Leaving ==
  ASSUME Trials!ExperimentsAssumption, TrialInvariant, NEW q \in Visitors,
         Trials!Becomes(q, Trials!Idle), UNCHANGED <<deck, receipts, row, stop>>,
         Trials!RequestUnchanged
  PROVE  TrialInvariant'
<1>1. stop' \in BOOLEAN
  BY DEF TrialInvariant, Trials!TypeOK
<1> QED
  BY <1>1, GoesOn, Idles

LEMMA Asking ==
  ASSUME Trials!ExperimentsAssumption, TrialInvariant, NEW q \in Visitors,
         Trials!View(q) \/ (\E a \in Trials!Alt : Trials!AskAdoption(q, a))
  PROVE  TrialInvariant'
<1>1. row # None /\ deck # None /\ deck \in Trials!Versions /\ deck.revision \in 0 .. MaxRevision
      /\ stop \in BOOLEAN
  BY RequestFacts
     DEF Trials!View, Trials!AskAdoption, Trials!Versions, TrialInvariant, Trials!TypeOK
<1>2. CASE Trials!View(q)
  <2>1. PICK r : r = [Trials!Idle EXCEPT !.at = "get"]
    OBVIOUS
  <2>2. r \in RequestStates /\ r.at = "get"
    BY <2>1, Idles DEF RequestStates
  <2>3. Adopts(r)
    BY <1>1, <2>2 DEF Adopts
  <2> QED
    BY <1>1, <1>2, <2>1, <2>2, <2>3, GoesOn DEF Trials!View
<1>3. ASSUME NEW a \in Trials!Alt, Trials!AskAdoption(q, a)
      PROVE  TrialInvariant'
  <2>1. PICK r : r = [Trials!Idle EXCEPT !.at = "get", !.want = a, !.revision = deck.revision]
    OBVIOUS
  <2>2. r \in RequestStates /\ r.at = "get"
    BY <1>1, <2>1, Idles DEF RequestStates
  <2>3. Adopts(r)
    BY <1>1, <2>2 DEF Adopts
  <2> QED
    BY <1>3, <2>1, <2>2, <2>3, GoesOn DEF Trials!AskAdoption
<1> QED
  BY <1>2, <1>3

LEMMA Reading ==
  ASSUME Trials!ExperimentsAssumption, TrialInvariant, NEW q \in Visitors, Trials!Read(q)
  PROVE  TrialInvariant'
<1>1. /\ request[q].at = "get" /\ request[q] \in RequestStates
      /\ UNCHANGED <<deck, receipts, row, stop>> /\ Trials!RequestUnchanged /\ stop' \in BOOLEAN
  BY RequestFacts DEF Trials!Read, TrialInvariant, Trials!TypeOK
<1>2. CASE Trials!Becomes(q, Trials!Idle)
  BY <1>1, <1>2, Leaving
<1>3. CASE /\ row # None /\ Trials!Overdue(row.payload)
           /\ Trials!Becomes(q, [request[q] EXCEPT !.at = "expire", !.mem = row.payload])
  <2>1. PICK r : r = [request[q] EXCEPT !.at = "expire", !.mem = row.payload]
    OBVIOUS
  <2>2. row.payload \in Trials!Payloads /\ row.payload # None
    BY <1>3, RequestFacts
  <2>3. r \in RequestStates /\ r.at = "expire" /\ r.mem = row.payload
    BY <1>1, <2>1, <2>2 DEF RequestStates
  <2>4. Adopts(r)
    BY <1>3, <2>2, <2>3 DEF Adopts, Trials!Overdue
  <2> QED
    BY <1>1, <1>3, <2>1, <2>3, <2>4, GoesOn
<1>4. CASE /\ row # None /\ request[q].want # None /\ Trials!Adoptable(row.payload, request[q].want)
           /\ Trials!Becomes(q, [request[q] EXCEPT !.at = "verify", !.mem = row.payload])
  <2>1. PICK r : r = [request[q] EXCEPT !.at = "verify", !.mem = row.payload]
    OBVIOUS
  <2>2. row.payload \in Trials!Payloads /\ row.payload # None /\ Settled(row)
    BY <1>4, RequestFacts
  <2>3. r \in RequestStates /\ r.at = "verify" /\ r.mem = row.payload
        /\ r.want = request[q].want
    BY <1>1, <2>1, <2>2 DEF RequestStates
  <2>4. request[q].want \in Trials!Alt
    BY <1>1, <1>4 DEF RequestStates
  <2>5. Adopts(r)
    BY <1>4, <2>2, <2>3, <2>4 DEF Adopts, Trials!Adoptable, Settled
  <2> QED
    BY <1>1, <1>4, <2>1, <2>3, <2>5, GoesOn
<1> QED
  BY <1>2, <1>3, <1>4 DEF Trials!Read

\* A request that writes the row, which keeps what the others have read of it.
LEMMA RowWritten ==
  ASSUME Trials!ExperimentsAssumption, TrialInvariant, NEW q \in Visitors,
         NEW r \in RequestStates,
         Trials!Becomes(q, r), UNCHANGED <<deck, receipts, stop>>, Trials!RequestUnchanged,
         Adopts(r)', row # None, NEW new \in Trials!Rows, row' = new, Settled(new),
         \/ new.state = "failed" /\ row.state # "done"
         \/ /\ new.state = "done" /\ row.state = "done"
            /\ new.payload.alt = row.payload.alt
            /\ new.payload.revision = row.payload.revision
  PROVE  TrialInvariant'
<1>1. /\ request' \in [Visitors -> RequestStates] /\ request'[q] = r
      /\ \A o \in Visitors : o # q => request'[o] = request[o]
      /\ deck # None /\ new # None
      /\ row.state = "done" => worker.at = "gone"
  BY BecomesTyped, RequestFacts
<1>2. UNCHANGED <<deck, receipts, old, stop, worker, late>>
  BY DEF Trials!RequestUnchanged
<1>3. Trials!TypeOK'
  BY <1>1, <1>2 DEF TrialInvariant, Trials!TypeOK, RequestStates
<1>4. Carries(worker)'
  BY <1>2 DEF TrialInvariant, Carries, Clean
<1>5. Stored'
  BY <1>1, <1>2 DEF Stored, Settled, Clean
<1>6. ASSUME NEW o \in Visitors
      PROVE  Adopts(request[o])'
  <2>1. CASE o = q
    BY <1>1, <2>1 DEF Adopts
  <2>2. CASE o # q
    <3>1. Adopts(request[o]) /\ request'[o] = request[o]
      BY <1>1, <2>2 DEF TrialInvariant
    <3> QED
      BY <1>1, <1>2, <3>1 DEF Adopts
  <2> QED
    BY <2>1, <2>2
<1> QED
  BY <1>3, <1>4, <1>5, <1>6 DEF TrialInvariant

LEMMA Expiring ==
  ASSUME Trials!ExperimentsAssumption, TrialInvariant, NEW q \in Visitors, Trials!Expire(q)
  PROVE  TrialInvariant'
<1>1. /\ request[q].at = "expire" /\ request[q] \in RequestStates /\ request[q].mem # None
      /\ request[q].mem \in Trials!Payloads /\ request[q].mem.status \in Trials!Open
      /\ UNCHANGED <<deck, receipts, stop>> /\ Trials!RequestUnchanged /\ stop' \in BOOLEAN
      /\ Adopts(request[q])
  BY RequestFacts DEF Trials!Expire, TrialInvariant, Trials!TypeOK, Adopts, RequestStates
<1>2. CASE Trials!Expires(row, request[q].mem)
  <2>1. PICK new : new = [state |-> "failed", payload |-> Trials!Expired(request[q].mem)]
    OBVIOUS
  <2>2. new \in Trials!Rows /\ Settled(new) /\ new.state = "failed"
    <3>1. Trials!Expired(request[q].mem) \in Trials!Payloads
          /\ Trials!Expired(request[q].mem).status = "failed"
      BY <1>1, ExpiredTyped
    <3> QED
      BY <2>1, <3>1 DEF Trials!Rows, Settled, Trials!Ended
  <2>3. row # None /\ row.state # "done" /\ row' = new /\ Trials!Becomes(q, Trials!Idle)
    BY <1>2, <2>1 DEF Trials!Expires, Trials!Expire, Trials!Open
  <2>4. Adopts(Trials!Idle)'
    BY Idles DEF Adopts
  <2>5. Trials!Idle \in RequestStates
    BY Idles
  <2> QED
    BY <1>1, <2>2, <2>3, <2>4, <2>5, RowWritten
<1>3. CASE ~Trials!Expires(row, request[q].mem)
  <2>1. PICK r : r = [request[q] EXCEPT !.at = "get", !.mem = None]
    OBVIOUS
  <2>2. r \in RequestStates /\ r.at = "get"
    BY <1>1, <2>1 DEF RequestStates
  <2>3. Adopts(r)
    BY <1>1, <2>2 DEF Adopts
  <2> QED
    BY <1>1, <1>3, <2>1, <2>2, <2>3, GoesOn DEF Trials!Expire
<1> QED
  BY <1>2, <1>3

LEMMA Verifying ==
  ASSUME Trials!ExperimentsAssumption, TrialInvariant, NEW q \in Visitors, Trials!Verify(q)
  PROVE  TrialInvariant'
<1>1. /\ request[q].at = "verify" /\ request[q] \in RequestStates /\ Adopts(request[q])
      /\ UNCHANGED <<deck, receipts, row, stop>> /\ Trials!RequestUnchanged /\ stop' \in BOOLEAN
  BY RequestFacts DEF Trials!Verify, TrialInvariant, Trials!TypeOK
<1>2. CASE Trials!Becomes(q, Trials!Idle)
  BY <1>1, <1>2, Leaving
<1>3. CASE Trials!StillBaseline(request[q]) /\ Trials!Becomes(q, [request[q] EXCEPT !.at = "apply"])
  <2>1. PICK r : r = [request[q] EXCEPT !.at = "apply"]
    OBVIOUS
  <2>2. r \in RequestStates /\ r.at = "apply" /\ r.mem = request[q].mem
        /\ r.want = request[q].want /\ r.revision = request[q].revision
    BY <1>1, <2>1 DEF RequestStates
  <2>3. deck # None /\ deck.revision = r.revision /\ r.revision = r.mem.revision
        /\ deck.cards = Trials!Base /\ r.revision <= deck.revision
    BY <1>3, <2>2 DEF Trials!StillBaseline, RequestStates
  <2>4. Adopts(r)
    BY <1>1, <2>2, <2>3 DEF Adopts
  <2> QED
    BY <1>1, <1>3, <2>1, <2>2, <2>4, GoesOn
<1> QED
  BY <1>2, <1>3 DEF Trials!Verify

\* The adoption lands, replays or is refused; only the first changes the deck.
LEMMA Applying ==
  ASSUME Trials!ExperimentsAssumption, TrialInvariant, NEW q \in Visitors, Trials!Apply(q)
  PROVE  TrialInvariant'
<1>1. /\ request[q].at = "apply" /\ request[q] \in RequestStates /\ Adopts(request[q])
      /\ UNCHANGED <<row, stop>> /\ Trials!RequestUnchanged /\ stop' \in BOOLEAN
      /\ request[q].want \in Trials!Alt /\ request[q].mem \in Trials!Payloads
      /\ request[q].mem # None /\ request[q].mem.status = "done"
      /\ request[q].mem.alt[request[q].want] = "done"
      /\ UNCHANGED <<row, old, stop, worker, late>>
  BY RequestFacts
     DEF Trials!Apply, TrialInvariant, Trials!TypeOK, Adopts, RequestStates,
        Trials!RequestUnchanged
<1>2. PICK p : p = [request[q].mem EXCEPT !.adopted = request[q].want]
  OBVIOUS
<1>3. /\ p \in Trials!Payloads /\ p.status = "done" /\ p.alt = request[q].mem.alt
      /\ p.revision = request[q].mem.revision
  BY <1>1, <1>2 DEF Trials!Payloads
<1>4. PICK r : r = [request[q] EXCEPT !.at = "save", !.mem = p]
  OBVIOUS
<1>5. /\ r \in RequestStates /\ r.at = "save" /\ r.mem = p /\ r.want = request[q].want
      /\ r = [request[q] EXCEPT !.at = "save", !.mem.adopted = request[q].want]
  BY <1>1, <1>2, <1>3, <1>4 DEF RequestStates
<1>6. p # None
  BY <1>3, RequestFacts
<1>7. Adopts(r)
  BY <1>1, <1>3, <1>5, <1>6 DEF Adopts
<1>8. CASE UNCHANGED <<deck, receipts>> /\ Trials!Becomes(q, Trials!Idle)
  BY <1>1, <1>8, Leaving
<1>9. CASE UNCHANGED <<deck, receipts>> /\ Trials!Becomes(q, r)
  BY <1>1, <1>5, <1>7, <1>9, GoesOn
<1>10. CASE /\ Trials!Lands(request[q]) /\ deck.revision < MaxRevision
            /\ deck' = [revision |-> deck.revision + 1, cards |-> request[q].want]
            /\ receipts' = receipts \cup {request[q].want} /\ Trials!Becomes(q, r)
  <2>1. deck \in Trials!Versions /\ deck # None /\ deck.revision \in Nat /\ MaxRevision \in Nat
    BY <1>10, RequestFacts, TrialTypes DEF Trials!Lands, Trials!Versions, TrialInvariant
  <2>2. deck' \in Trials!Versions /\ deck'.revision = deck.revision + 1 /\ deck' # None
    <3>1. deck.revision + 1 \in 0 .. MaxRevision
      BY <1>10, <2>1
    <3>2. request[q].want \in Trials!Contents
      BY <1>1 DEF Trials!Contents
    <3>3. deck' \in Trials!Versions /\ deck'.revision = deck.revision + 1
      BY <1>10, <3>1, <3>2 DEF Trials!Versions
    <3> QED
      BY <3>3, RequestFacts
  <2>3. /\ request' \in [Visitors -> RequestStates] /\ request'[q] = r
        /\ \A o \in Visitors : o # q => request'[o] = request[o]
    BY <1>5, <1>10, BecomesTyped, RequestFacts
  <2>4. Trials!TypeOK'
    BY <1>1, <1>10, <2>2, <2>3 DEF TrialInvariant, Trials!TypeOK, RequestStates
  <2>5. Carries(worker)' /\ Stored'
    BY <1>1, <2>2 DEF TrialInvariant, Carries, Clean, Stored, Settled
  <2>6. ASSUME NEW o \in Visitors
        PROVE  Adopts(request[o])'
    <3>1. CASE o = q
      <4>1. Adopts(r)'
        BY <1>1, <1>5, <1>7, <2>1, <2>2 DEF Adopts
      <4> QED
        BY <2>3, <3>1, <4>1 DEF Adopts
    <3>2. CASE o # q
      <4>1. Adopts(request[o]) /\ request'[o] = request[o]
        BY <2>3, <3>2 DEF TrialInvariant
      <4>2. PICK s \in RequestStates : s = request[o]
        BY RequestFacts
      <4>3. s.at = "apply" => s.revision <= deck.revision /\ s.revision \in Nat
        BY <2>1, <4>1, <4>2 DEF Adopts, RequestStates
      <4>4. s.at = "apply" => s.revision <= deck'.revision /\ deck'.revision # s.revision
        BY <2>1, <2>2, <4>3
      <4>5. Adopts(s)'
        BY <1>1, <2>1, <2>2, <4>1, <4>2, <4>4 DEF Adopts
      <4> QED
        BY <4>1, <4>2, <4>5 DEF Adopts
    <3> QED
      BY <3>1, <3>2
  <2> QED
    BY <2>4, <2>5, <2>6 DEF TrialInvariant
<1> QED
  BY <1>5, <1>8, <1>9, <1>10 DEF Trials!Apply

LEMMA SavingAdoption ==
  ASSUME Trials!ExperimentsAssumption, TrialInvariant, NEW q \in Visitors,
         Trials!SaveAdoption(q)
  PROVE  TrialInvariant'
<1>1. /\ request[q].at = "save" /\ request[q] \in RequestStates /\ Adopts(request[q])
      /\ UNCHANGED <<deck, receipts, stop>> /\ Trials!RequestUnchanged
      /\ Trials!Becomes(q, Trials!Idle)
      /\ request[q].mem \in Trials!Payloads /\ request[q].mem.status = "done"
      /\ row' = Trials!Saved(row, request[q].mem)
  BY RequestFacts DEF Trials!SaveAdoption, TrialInvariant, Trials!TypeOK, Adopts, RequestStates
<1>2. CASE row' = row
  BY <1>1, <1>2, Leaving
<1>3. CASE row # None /\ row' = [state |-> "done", payload |-> request[q].mem]
  <2>1. PICK new : new = [state |-> "done", payload |-> request[q].mem]
    OBVIOUS
  <2>2. new \in Trials!Rows /\ Settled(new) /\ new.state = "done"
        /\ new.payload = request[q].mem
    BY <1>1, <2>1 DEF Trials!Rows, Settled, Trials!Ended
  <2>3. row.state = "done" /\ new.payload.alt = row.payload.alt
        /\ new.payload.revision = row.payload.revision
    BY <1>1, <1>3, <2>2 DEF Adopts
  <2>4. Adopts(Trials!Idle)' /\ Trials!Idle \in RequestStates
    BY Idles DEF Adopts
  <2> QED
    BY <1>1, <1>3, <2>1, <2>2, <2>3, <2>4, RowWritten
<1> QED
  BY <1>1, <1>2, <1>3 DEF Trials!Saved

-----------------------------------------------------------------------------
(* The owner of the deck, and time                                          *)

LEMMA Editing ==
  ASSUME Trials!ExperimentsAssumption, TrialInvariant, Trials!Edit
  PROVE  TrialInvariant'
<1>1. /\ deck # None /\ deck \in Trials!Versions /\ deck.revision \in Nat
      /\ deck.revision < MaxRevision /\ MaxRevision \in Nat
      /\ UNCHANGED <<receipts, row, old, stop, worker, request, late>>
  BY TrialTypes DEF Trials!Edit, TrialInvariant, Trials!TypeOK, Trials!Versions
<1>2. deck' \in Trials!Versions /\ deck'.revision = deck.revision + 1
  BY <1>1 DEF Trials!Edit, Trials!Versions, Trials!Contents
<1>3. deck' # None
  BY <1>2, TrialTypes DEF TrialInvariant
<1>4. Trials!TypeOK'
  BY <1>1, <1>2 DEF TrialInvariant, Trials!TypeOK
<1>5. Carries(worker)' /\ Stored'
  BY <1>1, <1>3 DEF TrialInvariant, Carries, Clean, Stored, Settled
<1>6. ASSUME NEW o \in Visitors
      PROVE  Adopts(request[o])'
  <2>1. Adopts(request[o])
    BY DEF TrialInvariant
  <2>2. PICK s \in RequestStates : s = request[o]
    BY RequestFacts
  <2>3. s.at = "apply" => s.revision <= deck.revision /\ s.revision \in Nat
    BY <1>1, <2>1, <2>2 DEF Adopts, RequestStates
  <2>4. s.at = "apply" => s.revision <= deck'.revision /\ deck'.revision # s.revision
    BY <1>1, <1>2, <2>3
  <2>5. Adopts(s)'
    BY <1>1, <1>3, <2>1, <2>2, <2>4 DEF Adopts
  <2> QED
    BY <1>1, <2>2, <2>5 DEF Adopts
<1> QED
  BY <1>4, <1>5, <1>6 DEF TrialInvariant

LEMMA Deleting ==
  ASSUME Trials!ExperimentsAssumption, TrialInvariant, Trials!Delete
  PROVE  TrialInvariant'
<1>1. /\ deck' = None /\ receipts' = {} /\ row' = None
      /\ UNCHANGED <<old, stop, worker, request, late>>
  BY DEF Trials!Delete
<1>2. Trials!TypeOK'
  BY <1>1 DEF TrialInvariant, Trials!TypeOK
<1>3. Carries(worker)' /\ Stored'
  BY <1>1 DEF TrialInvariant, Carries, Clean, Stored, Settled
<1>4. ASSUME NEW o \in Visitors
      PROVE  Adopts(request[o])'
  BY <1>1 DEF TrialInvariant, Adopts
<1> QED
  BY <1>2, <1>3, <1>4 DEF TrialInvariant

LEMMA Elapsing ==
  ASSUME Trials!ExperimentsAssumption, TrialInvariant, Trials!Stop \/ Trials!TimePasses
         \/ UNCHANGED Trials!vars
  PROVE  TrialInvariant'
<1>1. /\ UNCHANGED <<deck, receipts, row, worker, request, late>>
      /\ stop' \in BOOLEAN /\ old' \in BOOLEAN
  BY DEF Trials!Stop, Trials!TimePasses, TrialInvariant, Trials!TypeOK, Trials!vars
<1>2. Trials!TypeOK'
  BY <1>1 DEF TrialInvariant, Trials!TypeOK
<1>3. Carries(worker)' /\ Stored'
  BY <1>1 DEF TrialInvariant, Carries, Clean, Stored, Settled
<1>4. ASSUME NEW o \in Visitors
      PROVE  Adopts(request[o])'
  BY <1>1 DEF TrialInvariant, Adopts
<1> QED
  BY <1>2, <1>3, <1>4 DEF TrialInvariant

-----------------------------------------------------------------------------
LEMMA TrialStart ==
  ASSUME Trials!ExperimentsAssumption, Trials!Init
  PROVE  TrialInvariant /\ Checked(worker)
<1>1. /\ deck = [revision |-> 0, cards |-> Trials!Base] /\ receipts = {} /\ row = None
      /\ old = FALSE /\ stop = FALSE /\ late = 0
      /\ worker = [at |-> "create", check |-> FALSE, who |-> 0, mem |-> None]
      /\ request = [q \in Visitors |-> [at |-> "idle", want |-> None,
                                        revision |-> 0, mem |-> None]]
  BY DEF Trials!Init
<1>2. deck \in Trials!Versions /\ deck # None
  BY <1>1 DEF Trials!Versions, Trials!Contents, Trials!ExperimentsAssumption
<1>3. worker \in WorkerStates /\ Carries(worker) /\ Checked(worker)
  BY <1>1
     DEF WorkerStates, Carries, Checked, Trials!Steps, Trials!Subjects,
        Trials!ExperimentsAssumption
<1>4. request \in [Visitors -> RequestStates] /\ \A q \in Visitors : request[q].at = "idle"
  BY <1>1 DEF RequestStates, Trials!ExperimentsAssumption
<1>5. Trials!TypeOK
  BY <1>1, <1>2, <1>3, <1>4 DEF Trials!TypeOK, WorkerStates, RequestStates
<1>6. Stored /\ \A q \in Visitors : Adopts(request[q])
  BY <1>1, <1>2, <1>4 DEF Stored, Adopts
<1> QED
  BY <1>3, <1>5, <1>6 DEF TrialInvariant

LEMMA TrialNext ==
  ASSUME Trials!ExperimentsAssumption, TrialInvariant, Checked(worker),
         [Trials!Next]_Trials!vars
  PROVE  TrialInvariant' /\ Checked(worker)'
<1>1. Checked(worker)'
  <2>1. worker \in WorkerStates
    BY TrialTypes DEF TrialInvariant
  <2>2. CASE Trials!Next
    BY <2>1, <2>2, CheckedNext
  <2>3. CASE UNCHANGED Trials!vars
    BY <2>3 DEF Trials!vars, Checked
  <2> QED
    BY <2>2, <2>3
<1>2. CASE Trials!WorkerStep
  BY <1>1, <1>2, Creating, RowInserted, Getting, GetExpiring, StoppingEarly, Claiming, Checking,
     Acknowledging, Starting, Beginning, Trying, Refusing, Recording, Settling
     DEF Trials!WorkerStep
<1>3. CASE Trials!Crash
  BY <1>1, <1>3, Crashing
<1>4. ASSUME NEW q \in Visitors,
             \/ Trials!View(q) \/ Trials!RequestStep(q) \/ Trials!Abandon(q)
             \/ \E a \in Trials!Alt : Trials!AskAdoption(q, a)
      PROVE  TrialInvariant'
  <2>1. CASE Trials!View(q) \/ (\E a \in Trials!Alt : Trials!AskAdoption(q, a))
    BY <2>1, Asking
  <2>2. CASE Trials!RequestStep(q)
    BY <2>2, Reading, Expiring, Verifying, Applying, SavingAdoption DEF Trials!RequestStep
  <2>3. CASE Trials!Abandon(q)
    BY <2>3, Leaving DEF Trials!Abandon
  <2> QED
    BY <1>4, <2>1, <2>2, <2>3
<1>5. CASE Trials!Edit \/ Trials!Delete \/ Trials!Stop \/ Trials!TimePasses
           \/ UNCHANGED Trials!vars
  BY <1>1, <1>5, Editing, Deleting, Elapsing
<1>6. CASE \E q \in Visitors :
             \/ Trials!View(q) \/ Trials!RequestStep(q) \/ Trials!Abandon(q)
             \/ \E a \in Trials!Alt : Trials!AskAdoption(q, a)
  BY <1>1, <1>4, <1>6
<1> QED
  BY <1>2, <1>3, <1>5, <1>6 DEF Trials!Next

\* The row, the payloads the worker and the requests carry and the deck are
\* what their columns hold, whoever wrote them last.
THEOREM TrialTypesHold ==
  ASSUME Trials!ExperimentsAssumption
  PROVE  Trials!Spec => []Trials!TypeOK
<1>1. Trials!Init => TrialInvariant /\ Checked(worker)
  BY TrialStart
<1>2. TrialInvariant /\ Checked(worker) /\ [Trials!Next]_Trials!vars =>
      (TrialInvariant /\ Checked(worker))'
  BY TrialNext
<1>3. TrialInvariant => Trials!TypeOK
  BY DEF TrialInvariant
<1> QED
  BY <1>1, <1>2, <1>3, PTL DEF Trials!Spec

\* The only step that adds a receipt is the one of a request that still finds the
\* deck at the revision it verified.
LEMMA OnlyApplied ==
  ASSUME Trials!ExperimentsAssumption, TrialInvariant, [Trials!Next]_Trials!vars,
         NEW a \in Trials!Alt, a \in receipts' \ receipts
  PROVE  \E q \in Visitors :
           request[q].at = "apply" /\ Trials!Lands(request[q]) /\ a = request[q].want
<1>1. CASE Trials!WorkerStep \/ Trials!Crash
  BY <1>1
     DEF Trials!WorkerStep, Trials!Crash, Trials!Freeze, Trials!Recheck, Trials!Insert,
        Trials!Get, Trials!GetExpires, Trials!StopEarly, Trials!Claim,
     Trials!Check, Trials!Acknowledge, Trials!Start, Trials!Begin, Trials!Trial,
     Trials!Answered, Trials!Refused, Trials!Record, Trials!Settle, Trials!End,
     Trials!WorkerUnchanged
<1>2. CASE Trials!Edit \/ Trials!Delete \/ Trials!Stop \/ Trials!TimePasses
           \/ UNCHANGED Trials!vars
  BY <1>2 DEF Trials!Edit, Trials!Delete, Trials!Stop, Trials!TimePasses, Trials!vars
<1>3. ASSUME NEW q \in Visitors,
             \/ Trials!View(q) \/ Trials!RequestStep(q) \/ Trials!Abandon(q)
             \/ \E c \in Trials!Alt : Trials!AskAdoption(q, c)
      PROVE  request[q].at = "apply" /\ Trials!Lands(request[q]) /\ a = request[q].want
  <2>1. Trials!Apply(q)
    BY <1>3
       DEF Trials!View, Trials!AskAdoption, Trials!RequestStep, Trials!Abandon, Trials!Read,
          Trials!Expire, Trials!Verify, Trials!SaveAdoption
  <2> QED
    BY <2>1 DEF Trials!Apply
<1> QED
  BY <1>1, <1>2, <1>3 DEF Trials!Next

\* assistant_experiments.py adopt: an adoption lands on the very deck that was
\* measured, while its experiment is done, and only for an alternative whose
\* measurements finished, whoever edits, expires or adopts in between.
THEOREM AdoptionIsMeasured ==
  ASSUME Trials!ExperimentsAssumption
  PROVE  Trials!Spec => AdoptsWhatWasMeasured
<1> DEFINE Measured == \A a \in Trials!Alt : a \in receipts' \ receipts =>
                        /\ deck.cards = Trials!Base /\ row.state = "done"
                        /\ deck.revision = row.payload.revision
                        /\ row.payload.alt[a] = "done"
<1>1. Trials!Init => TrialInvariant /\ Checked(worker)
  BY TrialStart
<1>2. TrialInvariant /\ Checked(worker) /\ [Trials!Next]_Trials!vars =>
      (TrialInvariant /\ Checked(worker))'
  BY TrialNext
<1>3. TrialInvariant /\ [Trials!Next]_Trials!vars => [Measured]_Trials!vars
  <2> SUFFICES ASSUME TrialInvariant, [Trials!Next]_Trials!vars, NEW a \in Trials!Alt,
  a \in receipts' \ receipts
               PROVE  /\ deck.cards = Trials!Base /\ row.state = "done"
                      /\ deck.revision = row.payload.revision
                      /\ row.payload.alt[a] = "done"
    OBVIOUS
  <2>1. PICK q \in Visitors :
          request[q].at = "apply" /\ Trials!Lands(request[q]) /\ a = request[q].want
    BY OnlyApplied
  <2>2. Adopts(request[q]) /\ deck # None /\ deck.revision = request[q].revision
    BY <2>1 DEF TrialInvariant, Trials!Lands
  <2> QED
    BY <2>1, <2>2 DEF Adopts
<1> HIDE DEF Measured
<1>4. Trials!Spec => [][Measured]_Trials!vars
  BY <1>1, <1>2, <1>3, PTL DEF Trials!Spec
<1> QED
  BY <1>4 DEF AdoptsWhatWasMeasured, Trials!AdoptsWhatWasMeasured, Measured

-----------------------------------------------------------------------------
(* Simulations                                                              *)

Documents == [rev : Nat, list : Lists]
ShownPages == [rev : Nat, list : Lists, saved : Documents \cup {None}]
RunRecords == [list : Lists, base : Nat, status : Goldfish!Statuses]
AskRecords ==
  [at : {"sent", "prepare", "insert", "submit"}, expected : Nat \cup {None},
   list : Lists \cup {None}, base : Nat, id : Nat]

SimulationTypes ==
  /\ stored \in Documents
  /\ runs \in Seq(RunRecords)
  /\ asking \in [Askers -> AskRecords \cup {None}]
  /\ pool \in Seq(Nat)
  /\ screen \in ShownPages

\* A run that may be pinned as the baseline of a list.
Pinnable(i, l) ==
  /\ i \in DOMAIN runs /\ runs[i].status = "done"
  /\ <<runs[i].list, l>> \in Near

Asked(r) ==
  /\ r.at # "sent" => r.list \in Lists
  /\ r.at = "insert" => r.base = 0 \/ Pinnable(r.base, r.list)
  /\ r.at = "submit" => /\ r.id \in DOMAIN runs /\ runs[r.id].status = "queued"
                        /\ \A k \in DOMAIN pool : pool[k] # r.id

SimulationInvariant ==
  /\ SimulationTypes
  /\ \A q \in Askers : asking[q] # None => Asked(asking[q])
  /\ \A q, o \in Askers :
       /\ asking[q] # None /\ asking[q].at = "submit"
       /\ asking[o] # None /\ asking[o].at = "submit"
       /\ asking[q].id = asking[o].id
       => q = o
  /\ \A k \in DOMAIN pool : pool[k] \in DOMAIN runs /\ runs[pool[k]].status = "queued"
  /\ \A k, n \in DOMAIN pool : pool[k] = pool[n] => k = n
  /\ \A i \in busy : i \in DOMAIN runs /\ runs[i].status = "running"
  /\ Goldfish!PinnedBaselineStands

\* A set of numbers up to a bound has a greatest one.
LEMMA Greatest ==
  ASSUME NEW n \in Nat, NEW S \in SUBSET (1 .. n), S # {}
  PROVE  \E i \in S : \A k \in S : k <= i
<1>1. PICK T : T = {n - i : i \in S}
  OBVIOUS
<1>2. T \subseteq Nat /\ T # {}
  <2>1. ASSUME NEW i \in S
        PROVE  n - i \in Nat
    <3>1. i \in 1 .. n
      OBVIOUS
    <3> QED
      BY <3>1
  <2>2. PICK i : i \in S
    OBVIOUS
  <2>3. n - i \in T
    BY <1>1, <2>2
  <2> QED
    BY <1>1, <2>1, <2>3
<1> DEFINE Below == {p \in Nat \X Nat : p[1] < p[2]}
<1>3. IsWellFoundedOn(Below, Nat)
  BY NatLessThanWellFounded DEF OpToRel
<1>4. \A a \in Nat, b \in Nat : a < b => <<a, b>> \in Below
  OBVIOUS
<1> HIDE DEF Below
<1>5. \E x \in T : \A y \in T : <<y, x>> \notin Below
  BY <1>2, <1>3, WFMin
<1>6. PICK x \in T : \A y \in T : ~(y < x)
  BY <1>2, <1>4, <1>5
<1>7. PICK i \in S : x = n - i
  BY <1>1
<1>8. ASSUME NEW k \in S
      PROVE  k <= i
  <2>1. n - k \in T /\ n - k \in Nat /\ n - i \in Nat /\ k \in Nat /\ i \in Nat
    BY <1>1, <1>7
  <2>2. ~(n - k < n - i)
    BY <1>6, <1>7, <2>1
  <2> QED
    BY <2>1, <2>2
<1> QED
  BY <1>8

\* previous_done names a finished run, if there is one.
LEMMA PreviousIsDone ==
  ASSUME runs \in Seq(RunRecords)
  PROVE  Goldfish!Previous = 0 \/ (Goldfish!Previous \in DOMAIN runs /\ runs[Goldfish!Previous].status = "done")
<1>1. CASE Goldfish!Done = {}
  BY <1>1 DEF Goldfish!Previous
<1>2. CASE Goldfish!Done # {}
  <2>1. PICK n \in Nat : n = Len(runs)
    BY LenProperties
  <2>2. Goldfish!Done \in SUBSET (1 .. n)
    BY <2>1, LenProperties DEF Goldfish!Done
  <2>3. \E i \in Goldfish!Done : \A k \in Goldfish!Done : k <= i
    BY <1>2, <2>1, <2>2, Greatest
  <2>4. Goldfish!Previous \in Goldfish!Done
    BY <1>2, <2>3 DEF Goldfish!Previous
  <2> QED
    BY <2>4 DEF Goldfish!Done
<1> QED
  BY <1>1, <1>2

-----------------------------------------------------------------------------
\* A run's record, and the position it has.
LEMMA RunFacts ==
  ASSUME SimulationInvariant
  PROVE  /\ DOMAIN runs = 1 .. Len(runs) /\ Len(runs) \in Nat
         /\ \A i \in DOMAIN runs : runs[i] \in RunRecords /\ i \in Nat /\ i # 0
<1>1. runs \in Seq(RunRecords)
  BY DEF SimulationInvariant, SimulationTypes
<1>2. DOMAIN runs = 1 .. Len(runs) /\ Len(runs) \in Nat
  BY <1>1, LenProperties
<1>3. \A i \in 1 .. Len(runs) : runs[i] \in RunRecords
  BY <1>1, ElementOfSeq
<1> QED
  BY <1>2, <1>3

LEMMA ChangesStatus ==
  ASSUME NEW s \in Seq(RunRecords), NEW i \in DOMAIN s, NEW status \in Goldfish!Statuses,
         NEW t, t = [s EXCEPT ![i].status = status]
  PROVE  /\ t \in Seq(RunRecords) /\ DOMAIN t = DOMAIN s
         /\ t[i].status = status
         /\ \A k \in DOMAIN s : t[k].list = s[k].list /\ t[k].base = s[k].base
         /\ \A k \in DOMAIN s : k # i => t[k] = s[k]
<1>1. s[i] \in RunRecords /\ i \in 1 .. Len(s)
  BY LenProperties, ElementOfSeq
<1>2. PICK r : r = [s[i] EXCEPT !.status = status]
  OBVIOUS
<1>3. r \in RunRecords /\ r.status = status /\ r.list = s[i].list /\ r.base = s[i].base
  BY <1>1, <1>2 DEF RunRecords
<1>4. t = [s EXCEPT ![i] = r]
  BY <1>2
<1>5. t \in Seq(RunRecords)
  BY <1>1, <1>3, <1>4, ExceptSeq
<1>6. DOMAIN t = DOMAIN s /\ t[i] = r /\ \A k \in DOMAIN s : k # i => t[k] = s[k]
  BY <1>4
<1> QED
  BY <1>3, <1>5, <1>6

\* The status of a run that is not done changes: nothing that was pinned does.
LEMMA PinsStay ==
  ASSUME SimulationInvariant, NEW i \in DOMAIN runs, NEW status \in Goldfish!Statuses,
         runs' = [runs EXCEPT ![i].status = status], runs[i].status # "done"
  PROVE  /\ runs' \in Seq(RunRecords) /\ DOMAIN runs' = DOMAIN runs
         /\ runs'[i].status = status
         /\ \A k \in DOMAIN runs : k # i => runs'[k] = runs[k]
         /\ \A k \in DOMAIN runs : runs[k].status = "done" => runs'[k] = runs[k]
         /\ Goldfish!PinnedBaselineStands'
<1>1. /\ runs' \in Seq(RunRecords) /\ DOMAIN runs' = DOMAIN runs
      /\ runs'[i].status = status
      /\ \A k \in DOMAIN runs : runs'[k].list = runs[k].list /\ runs'[k].base = runs[k].base
      /\ \A k \in DOMAIN runs : k # i => runs'[k] = runs[k]
  <2>1. runs \in Seq(RunRecords)
    BY DEF SimulationInvariant, SimulationTypes
  <2> QED
    BY <2>1, ChangesStatus
<1>2. ASSUME NEW k \in DOMAIN runs, runs[k].base # 0
      PROVE  /\ runs[k].base < k /\ runs'[runs[k].base].status = "done"
             /\ <<runs'[runs[k].base].list, runs'[k].list>> \in Near
  <2>1. /\ runs[k].base < k /\ runs[runs[k].base].status = "done"
        /\ <<runs[runs[k].base].list, runs[k].list>> \in Near
    BY <1>2 DEF SimulationInvariant, Goldfish!PinnedBaselineStands
  <2>2. runs[k].base \in DOMAIN runs
    <3>1. runs[k].base \in Nat /\ k \in 1 .. Len(runs) /\ Len(runs) \in Nat
      BY RunFacts DEF RunRecords
    <3>2. runs[k].base \in 1 .. Len(runs)
      BY <1>2, <2>1, <3>1
    <3> QED
      BY <3>2, RunFacts
  <2>3. runs[k].base # i
    BY <2>1
  <2> QED
    BY <1>1, <2>1, <2>2, <2>3
<1>3. Goldfish!PinnedBaselineStands'
  BY <1>1, <1>2 DEF Goldfish!PinnedBaselineStands
<1> QED
  BY <1>1, <1>3

\* A step of one request that leaves the runs and the pool.
LEMMA RequestGoesOn ==
  ASSUME SimulationInvariant, NEW a \in Askers, NEW r \in AskRecords \cup {None},
         asking' = [asking EXCEPT ![a] = r], r # None => Asked(r) /\ r.at # "submit",
         UNCHANGED <<runs, pool, busy>>, stored' \in Documents, screen' \in ShownPages
  PROVE  SimulationInvariant'
<1>1. /\ asking' \in [Askers -> AskRecords \cup {None}] /\ asking'[a] = r
      /\ \A o \in Askers : o # a => asking'[o] = asking[o]
  BY DEF SimulationInvariant, SimulationTypes
<1>2. SimulationTypes'
  BY <1>1 DEF SimulationInvariant, SimulationTypes
<1>3. ASSUME NEW q \in Askers, asking'[q] # None
      PROVE  Asked(asking[q])'
  <2>1. Asked(asking'[q])
    BY <1>1, <1>3 DEF SimulationInvariant
  <2> QED
    BY <2>1 DEF Asked, Pinnable
<1>4. ASSUME NEW q \in Askers, NEW o \in Askers,
             asking'[q] # None, asking'[q].at = "submit",
             asking'[o] # None, asking'[o].at = "submit",
             asking'[q].id = asking'[o].id
      PROVE  q = o
  <2>1. asking'[q] = asking[q] /\ asking'[o] = asking[o]
    BY <1>1, <1>4
  <2> QED
    BY <1>4, <2>1 DEF SimulationInvariant
<1>5. Goldfish!PinnedBaselineStands'
  BY DEF SimulationInvariant, Goldfish!PinnedBaselineStands
<1> QED
  BY <1>2, <1>3, <1>4, <1>5 DEF SimulationInvariant

\* What a step of a request starts from.
LEMMA AskFacts ==
  ASSUME SimulationInvariant, NEW a \in Askers, asking[a] # None
  PROVE  /\ asking[a] \in AskRecords /\ Asked(asking[a])
         /\ stored \in Documents /\ screen \in ShownPages
         /\ runs \in Seq(RunRecords) /\ pool \in Seq(Nat)
  BY DEF SimulationInvariant, SimulationTypes

LEMMA ReadingDeck ==
  ASSUME SimulationInvariant, NEW a \in Askers, Goldfish!ReadDeck(a)
  PROVE  SimulationInvariant'
<1>1. /\ asking[a] \in AskRecords /\ asking[a].at = "sent"
      /\ stored \in Documents /\ stored.list \in Lists
      /\ UNCHANGED <<stored, runs, pool, busy, screen>>
      /\ screen \in ShownPages
  BY AskFacts DEF Goldfish!ReadDeck, Goldfish!client, Documents
<1>2. CASE asking' = [asking EXCEPT ![a] = None]
  BY <1>1, <1>2, RequestGoesOn
<1>3. CASE asking' = [asking EXCEPT ![a] = [@ EXCEPT !.at = "prepare", !.list = stored.list]]
  <2>1. PICK r : r = [asking[a] EXCEPT !.at = "prepare", !.list = stored.list]
    OBVIOUS
  <2>2. r \in AskRecords /\ r.at = "prepare" /\ r.list = stored.list
    BY <1>1, <2>1 DEF AskRecords
  <2>3. asking' = [asking EXCEPT ![a] = r]
    BY <1>3, <2>1 DEF SimulationInvariant, SimulationTypes
  <2>4. Asked(r)
    BY <1>1, <2>2 DEF Asked
  <2> QED
    BY <1>1, <2>2, <2>3, <2>4, RequestGoesOn
<1> QED
  BY <1>2, <1>3 DEF Goldfish!ReadDeck

LEMMA Preparing ==
  ASSUME SimulationInvariant, NEW a \in Askers, Goldfish!Prepare(a)
  PROVE  SimulationInvariant'
<1>1. /\ asking[a] \in AskRecords /\ asking[a].at = "prepare" /\ Asked(asking[a])
      /\ stored \in Documents /\ runs \in Seq(RunRecords)
      /\ UNCHANGED <<stored, runs, pool, busy, screen>>
      /\ screen \in ShownPages
  BY AskFacts DEF Goldfish!Prepare, Goldfish!client
<1>2. CASE asking' = [asking EXCEPT ![a] = None]
  BY <1>1, <1>2, RequestGoesOn
<1>3. CASE /\ Goldfish!Comparable(Goldfish!Previous, asking[a].list)
           /\ asking' = [asking EXCEPT ![a] = [@ EXCEPT !.at = "insert", !.base = Goldfish!Previous]]
  <2>1. PICK r : r = [asking[a] EXCEPT !.at = "insert", !.base = Goldfish!Previous]
    OBVIOUS
  <2>2. Goldfish!Previous = 0 \/ (Goldfish!Previous \in DOMAIN runs /\ runs[Goldfish!Previous].status = "done")
    BY <1>1, PreviousIsDone
  <2>3. Goldfish!Previous \in Nat
    BY <2>2, RunFacts
  <2>4. /\ r \in AskRecords /\ r.at = "insert" /\ r.base = Goldfish!Previous
        /\ r.list = asking[a].list
    BY <1>1, <2>1, <2>3 DEF AskRecords
  <2>5. asking' = [asking EXCEPT ![a] = r]
    BY <1>3, <2>1 DEF SimulationInvariant, SimulationTypes
  <2>6. Asked(r)
    BY <1>1, <1>3, <2>2, <2>4 DEF Asked, Pinnable, Goldfish!Comparable
  <2> QED
    BY <1>1, <2>4, <2>5, <2>6, RequestGoesOn
<1> QED
  BY <1>2, <1>3 DEF Goldfish!Prepare

LEMMA Inserting ==
  ASSUME SimulationInvariant, NEW a \in Askers, Goldfish!Insert(a)
  PROVE  SimulationInvariant'
<1>1. /\ asking[a] \in AskRecords /\ asking[a].at = "insert" /\ Asked(asking[a])
      /\ asking[a] # None
      /\ runs \in Seq(RunRecords) /\ pool \in Seq(Nat)
      /\ UNCHANGED <<stored, pool, busy, screen>>
  BY AskFacts DEF Goldfish!Insert, Goldfish!client
<1>2. PICK new : new = [list |-> asking[a].list, base |-> asking[a].base, status |-> "queued"]
  OBVIOUS
<1>3. /\ new \in RunRecords /\ new.status = "queued"
      /\ new.list = asking[a].list /\ new.base = asking[a].base
  BY <1>1, <1>2 DEF RunRecords, AskRecords, Asked, Goldfish!Statuses, Goldfish!Active
<1>4. PICK n \in Nat : n = Len(runs)
  BY <1>1, LenProperties
<1>5. /\ runs' \in Seq(RunRecords) /\ Len(runs') = n + 1 /\ DOMAIN runs = 1 .. n
      /\ DOMAIN runs' = 1 .. n + 1 /\ runs'[n + 1] = new
      /\ \A i \in 1 .. n : runs'[i] = runs[i]
  <2>1. runs' = Append(runs, new)
    BY <1>2 DEF Goldfish!Insert
  <2>2. /\ runs' \in Seq(RunRecords) /\ Len(runs') = n + 1
        /\ \A i \in 1 .. n : runs'[i] = runs[i]
        /\ runs'[n + 1] = new
    BY <1>1, <1>3, <1>4, <2>1, AppendProperties
  <2> QED
    BY <1>1, <1>4, <2>2, LenProperties
<1>6. PICK r : r = [asking[a] EXCEPT !.at = "submit", !.id = n + 1]
  OBVIOUS
<1>7. /\ r \in AskRecords /\ r.at = "submit" /\ r.id = n + 1 /\ r.list = asking[a].list
  <2>1. PICK m \in Nat : m = n + 1
    OBVIOUS
  <2>2. r = [asking[a] EXCEPT !.at = "submit", !.id = m]
    BY <1>6, <2>1
  <2>3. /\ r \in AskRecords /\ r.at = "submit" /\ r.id = m /\ r.list = asking[a].list
    BY <1>1, <2>2 DEF AskRecords
  <2> QED
    BY <2>1, <2>3
<1>8. asking' = [asking EXCEPT ![a] = r]
  BY <1>5, <1>6 DEF Goldfish!Insert, SimulationInvariant, SimulationTypes
<1>9. /\ asking' \in [Askers -> AskRecords \cup {None}] /\ asking'[a] = r
      /\ \A o \in Askers : o # a => asking'[o] = asking[o]
  BY <1>7, <1>8 DEF SimulationInvariant, SimulationTypes
<1>10. SimulationTypes'
  BY <1>1, <1>5, <1>9 DEF SimulationInvariant, SimulationTypes
<1>11. \A i \in DOMAIN runs : i \in DOMAIN runs' /\ runs'[i] = runs[i] /\ i # n + 1
  BY <1>5
<1>12. ASSUME NEW k \in DOMAIN pool
       PROVE  pool[k] \in DOMAIN runs' /\ runs'[pool[k]].status = "queued" /\ pool[k] # n + 1
  BY <1>11 DEF SimulationInvariant
<1>13. ASSUME NEW i \in busy
       PROVE  i \in DOMAIN runs' /\ runs'[i].status = "running"
  BY <1>11 DEF SimulationInvariant
<1>14. ASSUME NEW q \in Askers, asking'[q] # None
       PROVE  Asked(asking[q])'
  <2>1. CASE q = a
    <3>1. Asked(r)'
      BY <1>1, <1>3, <1>5, <1>7, <1>12 DEF Asked
    <3> QED
      BY <1>9, <2>1, <3>1 DEF Asked, Pinnable
  <2>2. CASE q # a
    <3>1. Asked(asking[q]) /\ asking'[q] = asking[q]
      BY <1>9, <1>14, <2>2 DEF SimulationInvariant
    <3> QED
      BY <1>1, <1>11, <3>1 DEF Asked, Pinnable
  <2> QED
    BY <2>1, <2>2
<1>15. ASSUME NEW q \in Askers, NEW o \in Askers,
              asking'[q] # None, asking'[q].at = "submit",
              asking'[o] # None, asking'[o].at = "submit",
              asking'[q].id = asking'[o].id
       PROVE  q = o
  <2>1. ASSUME NEW p \in Askers, p # a, asking'[p] # None, asking'[p].at = "submit"
        PROVE  asking'[p].id # n + 1
    <3>1. Asked(asking[p]) /\ asking'[p] = asking[p]
      BY <1>9, <2>1 DEF SimulationInvariant
    <3> QED
      BY <1>11, <2>1, <3>1 DEF Asked
  <2>2. CASE q # a /\ o # a
    BY <1>9, <1>15, <2>2 DEF SimulationInvariant
  <2> QED
    BY <1>7, <1>9, <1>15, <2>1, <2>2
<1>16. Goldfish!PinnedBaselineStands'
  <2>1. ASSUME NEW i \in DOMAIN runs', runs'[i].base # 0
        PROVE  /\ runs'[i].base < i /\ runs'[runs'[i].base].status = "done"
               /\ <<runs'[runs'[i].base].list, runs'[i].list>> \in Near
    <3>1. CASE i = n + 1
      <4>1. Pinnable(new.base, new.list)
        BY <1>1, <1>3, <1>5, <2>1, <3>1 DEF Asked
      <4>2. new.base \in 1 .. n /\ runs[new.base].status = "done"
            /\ <<runs[new.base].list, new.list>> \in Near
        BY <1>5, <4>1 DEF Pinnable
      <4>3. new.base < n + 1
        BY <4>2
      <4> QED
        BY <1>5, <3>1, <4>2, <4>3
    <3>2. CASE i # n + 1
      <4>1. i \in DOMAIN runs /\ i \in 1 .. n /\ runs'[i] = runs[i]
        BY <1>5, <3>2
      <4>2. /\ runs[i].base < i /\ runs[runs[i].base].status = "done"
            /\ <<runs[runs[i].base].list, runs[i].list>> \in Near
        BY <2>1, <4>1 DEF SimulationInvariant, Goldfish!PinnedBaselineStands
      <4>3. runs[i].base \in 1 .. n
        <5>1. runs[i].base \in Nat
          BY <4>1, RunFacts DEF RunRecords
        <5> QED
          BY <2>1, <4>1, <4>2, <5>1
      <4> QED
        BY <1>5, <4>1, <4>2, <4>3
    <3> QED
      BY <3>1, <3>2
  <2> QED
    BY <2>1 DEF Goldfish!PinnedBaselineStands
<1> QED
  BY <1>1, <1>10, <1>12, <1>13, <1>14, <1>15, <1>16 DEF SimulationInvariant

\* The status of one run moves, and who waited for that run no longer does.
LEMMA StatusMoves ==
  ASSUME SimulationInvariant, NEW i \in DOMAIN runs, NEW status \in Goldfish!Statuses,
         runs' = [runs EXCEPT ![i].status = status], runs[i].status # "done",
         UNCHANGED <<stored, screen>>,
         asking' \in [Askers -> AskRecords \cup {None}],
         \A q \in Askers : asking'[q] # None =>
           asking'[q] = asking[q] /\ (asking[q].at = "submit" => asking[q].id # i),
         pool' \in Seq(Nat),
         \A k \in DOMAIN pool' : \E n \in DOMAIN pool : pool'[k] = pool[n] /\ pool[n] # i,
         \A k, n \in DOMAIN pool' : pool'[k] = pool'[n] => k = n,
         busy' \subseteq busy \cup {i}, i \in busy' => status = "running"
  PROVE  SimulationInvariant'
<1>1. /\ runs' \in Seq(RunRecords) /\ DOMAIN runs' = DOMAIN runs
      /\ runs'[i].status = status
      /\ \A k \in DOMAIN runs : k # i => runs'[k] = runs[k]
      /\ \A k \in DOMAIN runs : runs[k].status = "done" => runs'[k] = runs[k]
      /\ Goldfish!PinnedBaselineStands'
  BY PinsStay
<1>2. SimulationTypes'
  BY <1>1 DEF SimulationInvariant, SimulationTypes
<1>3. ASSUME NEW q \in Askers, asking'[q] # None
      PROVE  Asked(asking[q])'
  <2>1. Asked(asking[q]) /\ asking'[q] = asking[q]
        /\ (asking[q].at = "submit" => asking[q].id # i)
    BY <1>3 DEF SimulationInvariant
  <2>2. asking[q].at = "submit" => \A k \in DOMAIN pool' : pool'[k] # asking[q].id
    BY <2>1 DEF Asked
  <2>3. asking[q].at = "insert" =>
          (asking[q].base = 0 \/ Pinnable(asking[q].base, asking[q].list)')
    BY <1>1, <2>1 DEF Asked, Pinnable
  <2> QED
    BY <1>1, <2>1, <2>2, <2>3 DEF Asked, Pinnable
<1>4. ASSUME NEW q \in Askers, NEW o \in Askers,
             asking'[q] # None, asking'[q].at = "submit",
             asking'[o] # None, asking'[o].at = "submit",
             asking'[q].id = asking'[o].id
      PROVE  q = o
  <2>1. asking'[q] = asking[q] /\ asking'[o] = asking[o]
    BY <1>4
  <2> QED
    BY <1>4, <2>1 DEF SimulationInvariant
<1>5. ASSUME NEW k \in DOMAIN pool'
      PROVE  pool'[k] \in DOMAIN runs' /\ runs'[pool'[k]].status = "queued"
  <2>1. PICK n \in DOMAIN pool : pool'[k] = pool[n] /\ pool[n] # i
    OBVIOUS
  <2>2. pool[n] \in DOMAIN runs /\ runs[pool[n]].status = "queued"
    BY DEF SimulationInvariant
  <2> QED
    BY <1>1, <2>1, <2>2
<1>6. ASSUME NEW b \in busy'
      PROVE  b \in DOMAIN runs' /\ runs'[b].status = "running"
  <2>1. b # i => b \in DOMAIN runs /\ runs[b].status = "running"
    BY DEF SimulationInvariant
  <2> QED
    BY <1>1, <2>1
<1> QED
  BY <1>1, <1>2, <1>3, <1>4, <1>5, <1>6 DEF SimulationInvariant

LEMMA Submitting ==
  ASSUME SimulationInvariant, NEW a \in Askers, Goldfish!Submit(a)
  PROVE  SimulationInvariant'
<1>1. /\ asking[a] \in AskRecords /\ asking[a].at = "submit" /\ Asked(asking[a])
      /\ asking[a] # None
      /\ runs \in Seq(RunRecords) /\ pool \in Seq(Nat)
      /\ UNCHANGED <<stored, busy, screen>> /\ asking' = [asking EXCEPT ![a] = None]
  BY AskFacts DEF Goldfish!Submit, Goldfish!client
<1>2. PICK i : i = asking[a].id
  OBVIOUS
<1>3. /\ i \in DOMAIN runs /\ i \in Nat /\ runs[i].status = "queued"
      /\ \A k \in DOMAIN pool : pool[k] # i
  BY <1>1, <1>2 DEF Asked, AskRecords
<1>4. /\ asking' \in [Askers -> AskRecords \cup {None}] /\ asking'[a] = None
      /\ \A o \in Askers : o # a => asking'[o] = asking[o]
  BY <1>1 DEF SimulationInvariant, SimulationTypes
<1>5. ASSUME NEW q \in Askers, asking'[q] # None
      PROVE  /\ asking'[q] = asking[q] /\ Asked(asking[q])
             /\ asking[q].at = "submit" => asking[q].id # i
  <2>1. q # a /\ asking'[q] = asking[q] /\ Asked(asking[q])
    BY <1>4, <1>5 DEF SimulationInvariant
  <2> QED
    BY <1>1, <1>2, <1>5, <2>1 DEF SimulationInvariant
<1>6. CASE pool' = Append(pool, i) /\ UNCHANGED runs
  <2>1. PICK n \in Nat : n = Len(pool)
    BY <1>1, LenProperties
  <2>2. /\ pool' \in Seq(Nat) /\ DOMAIN pool' = 1 .. n + 1 /\ DOMAIN pool = 1 .. n
        /\ pool'[n + 1] = i /\ \A k \in 1 .. n : pool'[k] = pool[k]
    <3>1. /\ pool' \in Seq(Nat) /\ Len(pool') = n + 1
          /\ \A k \in 1 .. n : pool'[k] = pool[k]
          /\ pool'[n + 1] = i
      BY <1>1, <1>3, <1>6, <2>1, AppendProperties
    <3> QED
      BY <1>1, <2>1, <3>1, LenProperties
  <2>3. \A k \in DOMAIN pool' : k = n + 1 \/ k \in DOMAIN pool
    BY <2>2
  <2>4. SimulationTypes'
    BY <1>1, <1>4, <1>6, <2>2 DEF SimulationInvariant, SimulationTypes
  <2>5. ASSUME NEW q \in Askers, asking'[q] # None
        PROVE  Asked(asking[q])'
    <3>1. asking'[q].at = "submit" => \A k \in DOMAIN pool' : pool'[k] # asking'[q].id
      BY <1>5, <2>2, <2>3, <2>5 DEF Asked
    <3> QED
      BY <1>5, <1>6, <2>5, <3>1 DEF Asked, Pinnable
  <2>6. ASSUME NEW q \in Askers, NEW o \in Askers,
               asking'[q] # None, asking'[q].at = "submit",
               asking'[o] # None, asking'[o].at = "submit",
               asking'[q].id = asking'[o].id
        PROVE  q = o
    <3>1. asking'[q] = asking[q] /\ asking'[o] = asking[o]
      BY <1>5, <2>6
    <3> QED
      BY <2>6, <3>1 DEF SimulationInvariant
  <2>7. ASSUME NEW k \in DOMAIN pool'
        PROVE  pool'[k] \in DOMAIN runs' /\ runs'[pool'[k]].status = "queued"
    BY <1>3, <1>6, <2>2, <2>3 DEF SimulationInvariant
  <2>8. ASSUME NEW k \in DOMAIN pool', NEW m \in DOMAIN pool', pool'[k] = pool'[m]
        PROVE  k = m
    BY <1>3, <2>2, <2>3, <2>8 DEF SimulationInvariant
  <2>9. Goldfish!PinnedBaselineStands' /\ \A b \in busy' :
                                            b \in DOMAIN runs' /\ runs'[b].status = "running"
    BY <1>1, <1>6 DEF SimulationInvariant, Goldfish!PinnedBaselineStands
  <2> QED
    BY <2>4, <2>5, <2>6, <2>7, <2>8, <2>9 DEF SimulationInvariant
<1>7. CASE runs' = [runs EXCEPT ![i].status = "not_simulated"] /\ UNCHANGED pool
  <2>1. "not_simulated" \in Goldfish!Statuses
    BY DEF Goldfish!Statuses
  <2>2. \A k \in DOMAIN pool' : \E n \in DOMAIN pool : pool'[k] = pool[n] /\ pool[n] # i
    BY <1>3, <1>7
  <2>3. \A k, n \in DOMAIN pool' : pool'[k] = pool'[n] => k = n
    BY <1>7 DEF SimulationInvariant
  <2>4. busy' \subseteq busy \cup {i} /\ i \notin busy'
    BY <1>1, <1>3 DEF SimulationInvariant
  <2> QED
    BY <1>1, <1>3, <1>4, <1>5, <1>7, <2>1, <2>2, <2>3, <2>4, StatusMoves
<1> QED
  BY <1>2, <1>6, <1>7 DEF Goldfish!Submit

-----------------------------------------------------------------------------
(* The pool                                                                 *)

LEMMA Starts ==
  ASSUME SimulationInvariant, Goldfish!Begins
  PROVE  SimulationInvariant'
<1>1. /\ pool \in Seq(Nat) /\ pool # <<>> /\ UNCHANGED <<stored, asking, screen>>
      /\ asking \in [Askers -> AskRecords \cup {None}]
      /\ runs' = [runs EXCEPT ![Head(pool)].status = "running"]
      /\ busy' = busy \cup {Head(pool)} /\ pool' = Tail(pool)
  BY DEF SimulationInvariant, SimulationTypes, Goldfish!Begins, Goldfish!client
<1>2. PICK n \in Nat : n = Len(pool)
  BY <1>1, LenProperties
<1>3. PICK i : i = Head(pool)
  OBVIOUS
<1>4. 1 \in DOMAIN pool /\ i = pool[1]
  BY <1>1, <1>3, LenProperties, EmptySeq, HeadTailProperties
<1>5. i \in DOMAIN runs /\ runs[i].status = "queued"
  BY <1>4 DEF SimulationInvariant
<1>6. /\ pool' \in Seq(Nat)
      /\ \A k \in DOMAIN pool' : k + 1 \in DOMAIN pool /\ pool'[k] = pool[k + 1] /\ k \in Nat
                                 /\ k + 1 # 1
  <2>1. /\ Tail(pool) \in Seq(Nat) /\ Len(Tail(pool)) = Len(pool) - 1
        /\ \A k \in 1 .. Len(Tail(pool)) : Tail(pool)[k] = pool[k + 1]
    BY <1>1, HeadTailProperties
  <2>2. DOMAIN pool' = 1 .. n - 1 /\ DOMAIN pool = 1 .. n
    BY <1>1, <1>2, <2>1, LenProperties
  <2> QED
    BY <1>1, <1>2, <2>1, <2>2
<1>7. \A k \in DOMAIN pool' : \E m \in DOMAIN pool : pool'[k] = pool[m] /\ pool[m] # i
  BY <1>4, <1>6 DEF SimulationInvariant
<1>8. ASSUME NEW k \in DOMAIN pool', NEW m \in DOMAIN pool', pool'[k] = pool'[m]
      PROVE  k = m
  <2>1. k + 1 = m + 1
    BY <1>6, <1>8 DEF SimulationInvariant
  <2> QED
    BY <1>6, <2>1
<1>9. ASSUME NEW q \in Askers, asking'[q] # None
      PROVE  /\ asking'[q] = asking[q]
             /\ asking[q].at = "submit" => asking[q].id # i
  <2>1. asking'[q] = asking[q] /\ Asked(asking[q])
    BY <1>1, <1>9 DEF SimulationInvariant
  <2> QED
    BY <1>4, <2>1 DEF Asked
<1>10. "running" \in Goldfish!Statuses
  BY DEF Goldfish!Statuses, Goldfish!Active
<1> QED
  BY <1>1, <1>3, <1>5, <1>6, <1>7, <1>8, <1>9, <1>10, StatusMoves

LEMMA Finishing ==
  ASSUME SimulationInvariant, NEW i \in busy, Goldfish!Finishes(i)
  PROVE  SimulationInvariant'
<1>1. /\ i \in DOMAIN runs /\ runs[i].status = "running"
      /\ UNCHANGED <<stored, asking, pool, screen>>
      /\ asking \in [Askers -> AskRecords \cup {None}] /\ pool \in Seq(Nat)
      /\ busy' = busy \ {i}
  BY DEF SimulationInvariant, SimulationTypes, Goldfish!Finishes, Goldfish!client
<1>2. PICK status \in {"done", "not_simulated"} : runs' = [runs EXCEPT ![i].status = status]
  BY DEF Goldfish!Finishes
<1>3. status \in Goldfish!Statuses
  BY DEF Goldfish!Statuses
<1>4. \A k \in DOMAIN pool' : \E n \in DOMAIN pool : pool'[k] = pool[n] /\ pool[n] # i
  BY <1>1 DEF SimulationInvariant
<1>5. \A k, n \in DOMAIN pool' : pool'[k] = pool'[n] => k = n
  BY <1>1 DEF SimulationInvariant
<1>6. ASSUME NEW q \in Askers, asking'[q] # None
      PROVE  /\ asking'[q] = asking[q]
             /\ asking[q].at = "submit" => asking[q].id # i
  <2>1. asking'[q] = asking[q] /\ Asked(asking[q])
    BY <1>1, <1>6 DEF SimulationInvariant
  <2> QED
    BY <1>1, <2>1 DEF Asked
<1> QED
  BY <1>1, <1>2, <1>3, <1>4, <1>5, <1>6, StatusMoves

LEMMA Restarting ==
  ASSUME SimulationInvariant, Goldfish!Restart
  PROVE  SimulationInvariant'
<1>1. /\ UNCHANGED <<stored, runs, screen>> /\ pool' = <<>> /\ busy' = {}
      /\ asking' = [a \in Askers |-> None]
  BY DEF Goldfish!Restart, Goldfish!client
<1>2. SimulationTypes'
  BY <1>1, EmptySeq DEF SimulationInvariant, SimulationTypes
<1>3. DOMAIN pool' = {}
  BY <1>1
<1>4. Goldfish!PinnedBaselineStands'
  BY <1>1 DEF SimulationInvariant, Goldfish!PinnedBaselineStands
<1> QED
  BY <1>1, <1>2, <1>3, <1>4 DEF SimulationInvariant

-----------------------------------------------------------------------------
(* The pages                                                                *)

\* A step that asks for nothing and leaves the runs.
LEMMA RunsRest ==
  ASSUME SimulationInvariant, UNCHANGED <<runs, asking, pool, busy>>,
         stored' \in Documents, screen' \in ShownPages
  PROVE  SimulationInvariant'
<1>1. SimulationTypes'
  BY DEF SimulationInvariant, SimulationTypes
<1>2. ASSUME NEW q \in Askers, asking'[q] # None
      PROVE  Asked(asking[q])'
  BY <1>2 DEF SimulationInvariant, Asked, Pinnable
<1>3. Goldfish!PinnedBaselineStands'
  BY DEF SimulationInvariant, Goldfish!PinnedBaselineStands
<1> QED
  BY <1>1, <1>2, <1>3 DEF SimulationInvariant

LEMMA PageFacts ==
  ASSUME SimulationInvariant
  PROVE  /\ stored \in Documents /\ screen \in ShownPages
  BY DEF SimulationInvariant, SimulationTypes

LEMMA AskingRun ==
  ASSUME SimulationInvariant, NEW a \in Askers, NEW expected \in Nat \cup {None},
         Goldfish!Asks(a, expected), UNCHANGED <<stored, runs, pool, busy, screen>>
  PROVE  SimulationInvariant'
<1>1. PICK r : r = Goldfish!Request(expected)
  OBVIOUS
<1>2. r \in AskRecords /\ r.at = "sent"
  BY <1>1 DEF AskRecords, Goldfish!Request
<1>3. Asked(r) /\ asking' = [asking EXCEPT ![a] = r]
  BY <1>1, <1>2 DEF Asked, Goldfish!Asks
<1> QED
  BY <1>2, <1>3, PageFacts, RequestGoesOn

LEMMA Changing ==
  ASSUME SimulationInvariant, NEW l \in Lists, Goldfish!OtherEdits(l) \/ Goldfish!PageEdits(l)
  PROVE  SimulationInvariant'
<1>1. /\ stored \in Documents /\ stored.rev \in Nat
      /\ stored' = [rev |-> stored.rev + 1, list |-> l]
      /\ UNCHANGED <<runs, asking, pool, busy>>
  BY PageFacts DEF Goldfish!OtherEdits, Goldfish!PageEdits, Goldfish!Changes, Documents
<1>2. stored' \in Documents /\ stored'.rev \in Nat
  <2>1. stored.rev + 1 \in Nat
    BY <1>1
  <2> QED
    BY <1>1, <2>1 DEF Documents
<1>3. UNCHANGED screen \/ screen' = [screen EXCEPT !.saved = stored']
  BY DEF Goldfish!OtherEdits, Goldfish!PageEdits, Goldfish!client
<1>4. screen' \in ShownPages
  BY <1>2, <1>3, PageFacts DEF ShownPages
<1> QED
  BY <1>1, <1>2, <1>4, RunsRest

LEMMA PageSteps ==
  ASSUME SimulationInvariant,
         \/ \E q \in sent : Goldfish!Serve(q) \/ Goldfish!Fails(q)
         \/ Goldfish!Saved \/ Goldfish!Renders \/ Goldfish!Poll
         \/ \E k \in DOMAIN inbox : Goldfish!Receive(k)
         \/ UNCHANGED Goldfish!vars
  PROVE  SimulationInvariant'
<1>1. UNCHANGED <<stored, runs, asking, pool, busy>>
  BY DEF Goldfish!Serve, Goldfish!Fails, Goldfish!Saved, Goldfish!Renders, Goldfish!Poll,
     Goldfish!Receive, Goldfish!vars, Goldfish!server
<1>2. UNCHANGED screen \/ (screen.saved # None /\ screen' = [rev |-> screen.saved.rev,
                                                       list |-> screen.saved.list,
                                                       saved |-> None])
  BY DEF Goldfish!Serve, Goldfish!Fails, Goldfish!Saved, Goldfish!Renders, Goldfish!Poll,
     Goldfish!Receive, Goldfish!vars, Goldfish!client
<1>3. screen' \in ShownPages
  BY <1>2, PageFacts DEF ShownPages, Documents
<1> QED
  BY <1>1, <1>3, PageFacts, RunsRest

LEMMA SimulationStart ==
  ASSUME Goldfish!SimulationsAssumption, Goldfish!Init
  PROVE  SimulationInvariant
<1>1. PICK l \in Lists : /\ stored = [rev |-> 1, list |-> l]
                         /\ screen = [rev |-> 1, list |-> l, saved |-> None]
  BY DEF Goldfish!Init
<1>2. /\ runs = <<>> /\ pool = <<>> /\ busy = {} /\ asking = [a \in Askers |-> None]
  BY DEF Goldfish!Init
<1>3. stored \in Documents /\ screen \in ShownPages
  BY <1>1 DEF Documents, ShownPages
<1>4. runs \in Seq(RunRecords) /\ pool \in Seq(Nat) /\ DOMAIN runs = {} /\ DOMAIN pool = {}
  BY <1>2, EmptySeq
<1>5. SimulationTypes
  BY <1>2, <1>3, <1>4 DEF SimulationTypes
<1> QED
  BY <1>2, <1>4, <1>5 DEF SimulationInvariant, Goldfish!PinnedBaselineStands

LEMMA SimulationNext ==
  ASSUME Goldfish!SimulationsAssumption, SimulationInvariant, [Goldfish!Next]_Goldfish!vars
  PROVE  SimulationInvariant'
<1>1. ASSUME NEW a \in Askers, Goldfish!RequestStep(a) \/ Goldfish!OtherStarts(a)
      PROVE  SimulationInvariant'
  <2>1. CASE Goldfish!RequestStep(a)
    BY <2>1, ReadingDeck, Preparing, Inserting, Submitting DEF Goldfish!RequestStep
  <2>2. CASE Goldfish!OtherStarts(a)
    <3>1. Goldfish!Asks(a, None) /\ UNCHANGED <<stored, runs, pool, busy, screen>>
      BY <2>2 DEF Goldfish!OtherStarts, Goldfish!client
    <3> QED
      BY <3>1, AskingRun
  <2> QED
    BY <1>1, <2>1, <2>2
<1>2. CASE \E a \in Askers : Goldfish!RequestStep(a) \/ Goldfish!OtherStarts(a)
  BY <1>1, <1>2
<1>3. CASE \E l \in Lists : Goldfish!OtherEdits(l) \/ Goldfish!PageEdits(l)
  BY <1>3, Changing
<1>4. CASE Goldfish!Begins \/ (\E i \in busy : Goldfish!Finishes(i)) \/ Goldfish!Restart
  BY <1>4, Starts, Finishing, Restarting
<1>5. CASE Goldfish!Start
  <2>1. Goldfish!Asks(Page, screen.rev) /\ UNCHANGED <<stored, runs, pool, busy, screen>>
    BY <1>5 DEF Goldfish!Start
  <2>2. Page \in Askers /\ screen.rev \in Nat \cup {None}
    BY PageFacts DEF Goldfish!SimulationsAssumption, ShownPages
  <2> QED
    BY <2>1, <2>2, AskingRun
<1>6. CASE \/ \E q \in sent : Goldfish!Serve(q) \/ Goldfish!Fails(q)
           \/ Goldfish!Saved \/ Goldfish!Renders \/ Goldfish!Poll
           \/ \E k \in DOMAIN inbox : Goldfish!Receive(k)
           \/ UNCHANGED Goldfish!vars
  BY <1>6, PageSteps
<1> QED
  BY <1>2, <1>3, <1>4, <1>5, <1>6 DEF Goldfish!Next

\* deck_simulation.py prepare_simulation: the baseline a run is compared with stays
\* what it was when the run was asked for, an older successful run of a list near
\* enough, however many requests, workers and restarts come in between.
THEOREM BaselineStands ==
  ASSUME Goldfish!SimulationsAssumption
  PROVE  Goldfish!Spec => []PinnedBaselineStands
<1>1. Goldfish!Init => SimulationInvariant
  BY SimulationStart
<1>2. SimulationInvariant /\ [Goldfish!Next]_Goldfish!vars => SimulationInvariant'
  BY SimulationNext
<1>3. SimulationInvariant => PinnedBaselineStands
  BY DEF SimulationInvariant, PinnedBaselineStands
<1> QED
  BY <1>1, <1>2, <1>3, PTL DEF Goldfish!Spec
=============================================================================
