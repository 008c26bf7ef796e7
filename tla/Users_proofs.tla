----------------------------- MODULE Users_proofs ----------------------------
(***************************************************************************)
(* Proofs about FeedbackReceipts, for every value of its constants that    *)
(* FeedbackConstants admits, and about Accounts, for every value that      *)
(* AccountConstants admits.                                                *)
(***************************************************************************)
EXTENDS Users, FiniteSetTheorems, SequenceTheorems, TLAPS

-----------------------------------------------------------------------------
(* Feedback                                                                 *)

ReceiptRows == [status : {"none", "sending", "retry", "sent"}, issue : Issues \cup {None},
         leased : BOOLEAN, attempted : BOOLEAN, asset : BOOLEAN]
SenderRows == [phase : Phases, report : Reports \cup {None}, attempted : BOOLEAN, asset : BOOLEAN]

OnRecord(q) == receipt[q].status # "none"

\* A report on record has one issue id, which no other report has.
Issued(q) ==
    /\ used[q] = IF OnRecord(q) THEN {receipt[q].issue} ELSE {}
    /\ OnRecord(q) => receipt[q].issue \in Issues
    /\ \A r \in Reports :
         OnRecord(q) /\ OnRecord(r) /\ receipt[q].issue = receipt[r].issue => q = r

\* An issue at Linear, or on its way there, is that of a report that says so.
Attempted(i) == \E q \in Reports : OnRecord(q) /\ receipt[q].issue = i /\ receipt[q].attempted

\* What a sender is about.
Serves(p) ==
    sender[p].phase # "free" =>
      /\ sender[p].report \in Reports /\ OnRecord(sender[p].report)
      /\ sender[p].phase \in {"attempting", "waiting"} => receipt[sender[p].report].attempted
      /\ sender[p].phase = "done" => receipt[sender[p].report].issue \in filed

\* A creation under way, and the sender that waits for its answer.
Creates(m) ==
    /\ Attempted(m.issue)
    /\ m.from # None => /\ sender[m.from].phase = "waiting"
                        /\ m.issue = receipt[sender[m.from].report].issue
    /\ \A n \in network : m.from # None /\ n.from = m.from => n = m

Invariant ==
    /\ TypeOK /\ SuccessIsFiled
    /\ \A q \in Reports : Issued(q)
    /\ \A q \in told : OnRecord(q)
    /\ \A i \in filed : Attempted(i)
    /\ \A p \in Servers : Serves(p)
    /\ \A m \in network : Creates(m)

-----------------------------------------------------------------------------
(* Types                                                                    *)

LEMMA Types ==
  ASSUME TypeOK
  PROVE  /\ receipt \in [Reports -> ReceiptRows] /\ \A q \in Reports : receipt[q] \in ReceiptRows
         /\ sender \in [Servers -> SenderRows] /\ \A p \in Servers : sender[p] \in SenderRows
<1>1. receipt \in [Reports -> ReceiptRows] /\ sender \in [Servers -> SenderRows]
  BY DEF TypeOK, ReceiptRows, SenderRows
<1> QED
  BY <1>1

LEMMA InitInvariant == ASSUME FeedbackConstants, Init PROVE Invariant
<1>1. NoReceipt \in ReceiptRows /\ NoReceipt.status = "none" /\ ~NoReceipt.leased
  BY DEF NoReceipt, ReceiptRows
<1>2. Free \in SenderRows /\ Free.phase = "free"
  BY DEF Free, SenderRows, Phases
<1>3. TypeOK
  <2>1. receipt \in [Reports -> ReceiptRows] /\ sender \in [Servers -> SenderRows]
        /\ \A q \in Reports : ~receipt[q].leased
    BY <1>1, <1>2 DEF Init
  <2> QED
    BY <2>1 DEF Init, TypeOK, ReceiptRows, SenderRows
<1>4. \A q \in Reports : ~OnRecord(q)
  BY <1>1 DEF Init, OnRecord
<1>5. SuccessIsFiled
  BY <1>1 DEF Init, SuccessIsFiled
<1>6. \A p \in Servers : Serves(p)
  BY <1>2 DEF Init, Serves
<1> QED
  BY <1>3, <1>4, <1>5, <1>6 DEF Init, Invariant, Issued

-----------------------------------------------------------------------------
(* What a step makes of a receipt                                           *)

LEMMA SetStatus ==
  ASSUME NEW x \in ReceiptRows, NEW v \in {"none", "sending", "retry", "sent"}
  PROVE  LET y == [x EXCEPT !.status = v]
         IN  /\ y \in ReceiptRows /\ y.status = v /\ y.issue = x.issue /\ y.leased = x.leased
             /\ y.attempted = x.attempted
  BY DEF ReceiptRows
LEMMA SetLeased ==
  ASSUME NEW x \in ReceiptRows, NEW v \in BOOLEAN
  PROVE  LET y == [x EXCEPT !.leased = v]
         IN  /\ y \in ReceiptRows /\ y.leased = v /\ y.issue = x.issue /\ y.status = x.status
             /\ y.attempted = x.attempted
  BY DEF ReceiptRows
LEMMA SetAttempted ==
  ASSUME NEW x \in ReceiptRows, NEW v \in BOOLEAN
  PROVE  LET y == [x EXCEPT !.attempted = v]
         IN  /\ y \in ReceiptRows /\ y.attempted = v /\ y.issue = x.issue /\ y.status = x.status
             /\ y.leased = x.leased
  BY DEF ReceiptRows
LEMMA SetAsset ==
  ASSUME NEW x \in ReceiptRows, NEW v \in BOOLEAN
  PROVE  LET y == [x EXCEPT !.asset = v]
         IN  /\ y \in ReceiptRows /\ y.attempted = x.attempted /\ y.issue = x.issue
             /\ y.status = x.status /\ y.leased = x.leased
  BY DEF ReceiptRows

\* What a step that is no first submission makes of the row of a report.
Carries(q, x) ==
    /\ x \in ReceiptRows /\ x.issue = receipt[q].issue
    /\ x.status = "none" <=> receipt[q].status = "none"
    /\ receipt[q].attempted => x.attempted
    /\ x.leased => x.status = "sending"
    /\ x.status = "sent" => \/ receipt[q].status = "sent"
                            \/ \E p \in Servers : sender[p].phase = "done" /\ sender[p].report = q

LEMMA RowStays ==
  ASSUME Invariant, NEW q \in Reports
  PROVE  Carries(q, receipt[q])
<1>1. receipt[q] \in ReceiptRows
  BY Types DEF Invariant
<1>2. receipt[q].leased => receipt[q].status = "sending"
  BY DEF Invariant, TypeOK
<1> QED
  BY <1>1, <1>2 DEF Carries

LEMMA RowStep ==
  ASSUME FeedbackConstants, Invariant, [Next]_vars,
         \A p \in Servers, q \in Reports, i \in Issues : ~Submit(p, q, i)
  PROVE  /\ UNCHANGED used
         /\ receipt' = receipt \/ \E q \in Reports, x \in ReceiptRows :
                                    receipt' = [receipt EXCEPT ![q] = x] /\ Carries(q, x)
<1> DEFINE Q == \E q \in Reports, x \in ReceiptRows :
                  receipt' = [receipt EXCEPT ![q] = x] /\ Carries(q, x)
<1>0. receipt \in [Reports -> ReceiptRows] /\ \A q \in Reports : receipt[q] \in ReceiptRows
  BY Types DEF Invariant
<1>l. \A q \in Reports : receipt[q].leased => receipt[q].status = "sending"
  BY DEF Invariant, TypeOK
<1>1. ASSUME NEW p \in Servers, NEW q \in Reports, Resubmit(p, q) PROVE Q
  <2> DEFINE y == [receipt[q] EXCEPT !.status = "sending"]
             x == [y EXCEPT !.leased = TRUE]
  <2>1. receipt' = [receipt EXCEPT ![q] = x] /\ receipt[q].status # "none"
    BY <1>0, <1>1 DEF Resubmit, MayResubmit
  <2>2. y \in ReceiptRows /\ y.status = "sending" /\ y.issue = receipt[q].issue
        /\ y.attempted = receipt[q].attempted
    BY <1>0, SetStatus
  <2> HIDE DEF y
  <2>3. x \in ReceiptRows /\ x.status = "sending" /\ x.issue = receipt[q].issue
        /\ x.attempted = receipt[q].attempted
    BY <2>2, SetLeased
  <2> HIDE DEF x
  <2>4. Carries(q, x)
    BY <2>1, <2>3 DEF Carries
  <2> QED
    BY <2>1, <2>3, <2>4
<1>2. ASSUME NEW p \in Servers, Picture(p), ~UNCHANGED receipt PROVE Q
  <2>1. PICK q \in Reports : q = sender[p].report
    BY <1>2 DEF Picture, Goes, Invariant, Serves
  <2> DEFINE x == [receipt[q] EXCEPT !.asset = TRUE]
  <2>2. receipt' = [receipt EXCEPT ![q] = x]
    BY <1>0, <1>2, <2>1 DEF Picture
  <2>3. x \in ReceiptRows /\ x.status = receipt[q].status /\ x.issue = receipt[q].issue
        /\ x.attempted = receipt[q].attempted /\ x.leased = receipt[q].leased
    BY <1>0, SetAsset
  <2> HIDE DEF x
  <2>4. Carries(q, x)
    BY <1>l, <2>3 DEF Carries
  <2> QED
    BY <2>2, <2>3, <2>4
<1>3. ASSUME NEW p \in Servers, Attempting(p) PROVE Q
  <2>1. PICK q \in Reports : q = sender[p].report
    BY <1>3 DEF Attempting, Goes, Invariant, Serves
  <2> DEFINE x == [receipt[q] EXCEPT !.attempted = TRUE]
  <2>2. receipt' = [receipt EXCEPT ![q] = x]
    BY <1>0, <1>3, <2>1 DEF Attempting
  <2>3. x \in ReceiptRows /\ x.status = receipt[q].status /\ x.issue = receipt[q].issue
        /\ x.attempted /\ x.leased = receipt[q].leased
    BY <1>0, SetAttempted
  <2> HIDE DEF x
  <2>4. Carries(q, x)
    BY <1>l, <2>3 DEF Carries
  <2> QED
    BY <2>2, <2>3, <2>4
<1>4. ASSUME NEW p \in Servers, Finish(p), ~UNCHANGED receipt PROVE Q
  <2>1. PICK q \in Reports : q = sender[p].report /\ OnRecord(q)
    BY <1>4 DEF Finish, Invariant, Serves
  <2>2. PICK v \in {"retry", "sent"} : v = IF sender[p].phase = "done" THEN "sent" ELSE "retry"
    OBVIOUS
  <2> DEFINE y == [receipt[q] EXCEPT !.status = v]
             x == [y EXCEPT !.leased = FALSE]
  <2>3. receipt' = [receipt EXCEPT ![q] = x]
    <3>1. receipt' = [receipt EXCEPT ![q].status = v, ![q].leased = FALSE]
      BY <1>4, <2>1, <2>2 DEF Finish
    <3> QED
      BY <1>0, <3>1
  <2>4. y \in ReceiptRows /\ y.status = v /\ y.issue = receipt[q].issue
        /\ y.attempted = receipt[q].attempted
    <3>1. receipt[q] \in ReceiptRows
      BY <1>0
    <3> QED
      BY <3>1 DEF ReceiptRows
  <2> HIDE DEF y
  <2>5. x \in ReceiptRows /\ x.status = v /\ x.issue = receipt[q].issue
        /\ x.attempted = receipt[q].attempted /\ ~x.leased
    BY <2>4, SetLeased
  <2> HIDE DEF x
  <2>6. Carries(q, x)
    BY <2>1, <2>2, <2>5 DEF Carries, OnRecord
  <2> QED
    BY <2>3, <2>5, <2>6
<1>5. ASSUME NEW q \in Reports, LeaseEnds(q) PROVE Q
  <2> DEFINE x == [receipt[q] EXCEPT !.leased = FALSE]
  <2>2. receipt' = [receipt EXCEPT ![q] = x]
    BY <1>0, <1>5 DEF LeaseEnds
  <2>3. x \in ReceiptRows /\ x.status = receipt[q].status /\ x.issue = receipt[q].issue
        /\ x.attempted = receipt[q].attempted /\ ~x.leased
    BY <1>0, SetLeased
  <2> HIDE DEF x
  <2>4. Carries(q, x)
    BY <2>3 DEF Carries
  <2> QED
    BY <2>2, <2>3, <2>4
<1>6. UNCHANGED used
  BY DEF Next, vars, Resubmit, AlreadySent, Sending, Exists, Picture, Attempting, Create,
     TimeOut,
         Finish, Unavailable, Crash, Arrive, Lose, LeaseEnds, DayPasses
<1>7. \/ UNCHANGED receipt
      \/ \E p \in Servers, q \in Reports : Resubmit(p, q)
      \/ \E p \in Servers : Picture(p) \/ Attempting(p) \/ Finish(p)
      \/ \E q \in Reports : LeaseEnds(q)
  BY DEF Next, vars, AlreadySent, Sending, Exists, Create, TimeOut, Unavailable, Crash, Arrive,
         Lose, DayPasses
<1> QED
  BY <1>1, <1>2, <1>3, <1>4, <1>5, <1>6, <1>7

-----------------------------------------------------------------------------
(* The invariant                                                            *)

\* The first submission of a report.
LEMMA FirstRow ==
  ASSUME FeedbackConstants, Invariant, NEW p \in Servers, NEW q \in Reports, NEW i \in Issues,
         Submit(p, q, i)
  PROVE  \E x \in ReceiptRows : /\ receipt' = [receipt EXCEPT ![q] = x]
                         /\ x.status = "sending" /\ x.issue = i /\ ~x.attempted
<1> DEFINE x1 == [NoReceipt EXCEPT !.status = "sending"]
           x2 == [x1 EXCEPT !.issue = i]
           x3 == [x2 EXCEPT !.leased = TRUE]
<1>1. NoReceipt \in ReceiptRows /\ ~NoReceipt.attempted
  BY DEF NoReceipt, ReceiptRows
<1>2. x1 \in ReceiptRows /\ x1.status = "sending" /\ ~x1.attempted
  BY <1>1 DEF ReceiptRows
<1>3. x2 \in ReceiptRows /\ x2.status = "sending" /\ ~x2.attempted /\ x2.issue = i
  <2> HIDE DEF x1
  <2> QED
    BY <1>2 DEF ReceiptRows
<1>4. x3 \in ReceiptRows /\ x3.status = "sending" /\ ~x3.attempted /\ x3.issue = i
  <2> HIDE DEF x2
  <2> QED
    BY <1>3 DEF ReceiptRows
<1>5. receipt' = [receipt EXCEPT ![q] = x3]
  BY DEF Submit
<1> HIDE DEF x3
<1> QED
  BY <1>4, <1>5

\* Receipts stay on record, with their issue.
LEMMA ReceiptStep ==
  ASSUME FeedbackConstants, Invariant, [Next]_vars
  PROVE  /\ receipt' \in [Reports -> ReceiptRows]
         /\ used' \in [Reports -> SUBSET Issues]
         /\ filed \subseteq filed'
         /\ \A q \in Reports :
              /\ OnRecord(q) => /\ OnRecord(q)' /\ receipt'[q].issue = receipt[q].issue
                                /\ receipt[q].attempted => receipt'[q].attempted
              /\ receipt'[q].leased => receipt'[q].status = "sending"
              /\ receipt'[q].status = "sent" => OnRecord(q) /\ receipt[q].issue \in filed
              /\ Issued(q)'
<1>0. /\ receipt \in [Reports -> ReceiptRows] /\ used \in [Reports -> SUBSET Issues]
      /\ \A q \in Reports : receipt[q] \in ReceiptRows /\ Issued(q) /\ Carries(q, receipt[q])
      /\ None \notin Issues
  BY Types, RowStays DEF Invariant, FeedbackConstants, TypeOK
<1>f. filed \subseteq filed'
  BY DEF Next, vars, Submit, Resubmit, AlreadySent, Sending, Exists, Picture, Attempting,
     Create,
         TimeOut, Finish, Unavailable, Crash, Arrive, Lose, LeaseEnds, DayPasses
<1>d. \A q \in Reports : \A p \in Servers :
        sender[p].phase = "done" /\ sender[p].report = q => OnRecord(q) /\ receipt[q].issue \in filed
  BY DEF Invariant, Serves
<1>s. \A q \in Reports : receipt[q].status = "sent" => OnRecord(q) /\ receipt[q].issue \in filed
  BY DEF Invariant, SuccessIsFiled, OnRecord
<1>1. CASE \E p \in Servers, q \in Reports, i \in Issues : Submit(p, q, i)
  <2>1. PICK p \in Servers, q \in Reports, i \in Issues : Submit(p, q, i)
    BY <1>1
  <2>2. PICK x \in ReceiptRows : /\ receipt' = [receipt EXCEPT ![q] = x]
                          /\ x.status = "sending" /\ x.issue = i /\ ~x.attempted
    BY <2>1, FirstRow
  <2>3. /\ ~OnRecord(q) /\ used' = [used EXCEPT ![q] = @ \cup {i}]
        /\ \A r \in Reports : i \notin used[r]
    BY <2>1 DEF Submit, OnRecord
  <2>4. /\ receipt'[q] = x /\ \A r \in Reports \ {q} : receipt'[r] = receipt[r]
        /\ receipt' \in [Reports -> ReceiptRows]
    BY <1>0, <2>2
  <2>5. /\ used'[q] = {i} /\ \A r \in Reports \ {q} : used'[r] = used[r]
        /\ used' \in [Reports -> SUBSET Issues]
    BY <1>0, <2>3 DEF Issued
  <2>6. \A r \in Reports \ {q} : OnRecord(r) => receipt[r].issue # i
    BY <1>0, <2>3 DEF Issued
  <2>7. \A r \in Reports : Issued(r)'
    BY <1>0, <2>2, <2>4, <2>5, <2>6 DEF Issued, OnRecord
  <2> QED
    BY <1>0, <1>f, <1>s, <2>2, <2>3, <2>4, <2>5, <2>7 DEF OnRecord, Carries
<1>2. CASE \A p \in Servers, q \in Reports, i \in Issues : ~Submit(p, q, i)
  <2>1. /\ UNCHANGED used
        /\ receipt' = receipt \/ \E q \in Reports, x \in ReceiptRows :
                                   receipt' = [receipt EXCEPT ![q] = x] /\ Carries(q, x)
    BY <1>2, RowStep
  <2>2. receipt' \in [Reports -> ReceiptRows] /\ \A q \in Reports : Carries(q, receipt'[q])
    <3>1. CASE receipt' = receipt
      BY <1>0, <3>1
    <3>2. ASSUME NEW q \in Reports, NEW x \in ReceiptRows, receipt' = [receipt EXCEPT ![q] = x],
                 Carries(q, x)
          PROVE  receipt' \in [Reports -> ReceiptRows] /\ \A r \in Reports :
                                                            Carries(r, receipt'[r])
      BY <1>0, <3>2
    <3> QED
      BY <2>1, <3>1, <3>2
  <2>3. \A q \in Reports : /\ receipt'[q].issue = receipt[q].issue
                           /\ OnRecord(q)' <=> OnRecord(q)
    BY <2>2 DEF Carries, OnRecord
  <2>4. \A q \in Reports : Issued(q)'
    BY <1>0, <2>1, <2>3 DEF Issued
  <2> QED
    BY <1>0, <1>d, <1>f, <1>s, <2>1, <2>2, <2>3, <2>4 DEF Carries
<1> QED
  BY <1>1, <1>2

\* Setting the phase of a sender.
LEMMA SetPhase ==
  ASSUME NEW x \in SenderRows, NEW v \in Phases
  PROVE  LET y == [x EXCEPT !.phase = v]
         IN  y \in SenderRows /\ y.phase = v /\ y.report = x.report
  BY DEF SenderRows

\* Where a step takes a sender.
Stands(x) ==
    x.phase # "free" =>
      /\ x.report \in Reports /\ receipt'[x.report].status # "none"
      /\ x.phase \in {"attempting", "waiting"} => receipt'[x.report].attempted
      /\ x.phase = "done" => receipt'[x.report].issue \in filed'

LEMMA SenderStep ==
  ASSUME FeedbackConstants, Invariant, [Next]_vars
  PROVE  /\ sender' \in [Servers -> SenderRows]
         /\ \A p \in Servers : sender'[p] = sender[p] \/ Stands(sender'[p])
         /\ \A p \in Servers : Serves(p)'
<1> DEFINE Q == \E p \in Servers, x \in SenderRows :
                  sender' = [sender EXCEPT ![p] = x] /\ Stands(x)
<1>0. /\ sender \in [Servers -> SenderRows]
      /\ \A p \in Servers : sender[p] \in SenderRows /\ Serves(p)
      /\ \A q \in Reports :
           OnRecord(q) => /\ OnRecord(q)' /\ receipt'[q].issue = receipt[q].issue
                          /\ receipt[q].attempted => receipt'[q].attempted
      /\ filed \subseteq filed'
  BY ReceiptStep, Types DEF Invariant
<1>1. ASSUME NEW p \in Servers, NEW v \in Phases \ {"free"},
             sender' = [sender EXCEPT ![p].phase = v], sender[p].phase # "free",
             v \in {"attempting", "waiting"} => receipt'[sender[p].report].attempted,
             v = "done" => receipt'[sender[p].report].issue \in filed'
      PROVE  Q
  <2> DEFINE x == [sender[p] EXCEPT !.phase = v]
  <2>1. sender' = [sender EXCEPT ![p] = x]
    BY <1>0, <1>1
  <2>2. x \in SenderRows /\ x.phase = v /\ x.report = sender[p].report
    BY <1>0, SetPhase
  <2> HIDE DEF x
  <2>3. sender[p].report \in Reports /\ receipt'[sender[p].report].status # "none"
    BY <1>0, <1>1 DEF Serves, OnRecord
  <2>4. Stands(x)
    BY <1>1, <2>2, <2>3 DEF Stands
  <2> QED
    BY <2>1, <2>2, <2>4
<1>2. ASSUME NEW p \in Servers, NEW q \in Reports, sender' = Taken(p, q),
             receipt'[q].status # "none"
      PROVE  Q
  <2> DEFINE x == [phase |-> "claimed", report |-> q, attempted |-> receipt[q].attempted,
                   asset |-> receipt[q].asset]
  <2>1. receipt[q].attempted \in BOOLEAN /\ receipt[q].asset \in BOOLEAN
    BY Types DEF Invariant, ReceiptRows
  <2>2. x \in SenderRows /\ Stands(x)
    BY <1>2, <2>1 DEF SenderRows, Phases, Stands
  <2>3. sender' = [sender EXCEPT ![p] = x]
    BY <1>2 DEF Taken
  <2> HIDE DEF x
  <2> QED
    BY <2>2, <2>3
<1>3. ASSUME NEW p \in Servers, sender' = [sender EXCEPT ![p] = Free] PROVE Q
  <2>1. Free \in SenderRows /\ Stands(Free)
    BY DEF Free, SenderRows, Phases, Stands
  <2> QED
    BY <1>3, <2>1
<1>4. ASSUME NEW p \in Servers, NEW q \in Reports, NEW i \in Issues, Submit(p, q, i) PROVE Q
  <2>1. receipt'[q].status = "sending"
    BY <1>4, FirstRow, Types DEF Invariant
  <2> QED
    BY <1>2, <1>4, <2>1 DEF Submit
<1>5. ASSUME NEW p \in Servers, NEW q \in Reports, Resubmit(p, q) PROVE Q
  <2>1. OnRecord(q)
    BY <1>5 DEF Resubmit, MayResubmit, OnRecord
  <2>2. receipt'[q].status # "none"
    BY <1>0, <2>1 DEF OnRecord
  <2> QED
    BY <1>2, <1>5, <2>2 DEF Resubmit
<1>6. ASSUME NEW p \in Servers, Exists(p) PROVE Q
  <2>1. /\ sender[p].phase = "claimed"
        /\ \/ sender' = [sender EXCEPT ![p].phase = "checked"]
           \/ /\ sender' = [sender EXCEPT ![p].phase = "done"]
              /\ receipt[sender[p].report].issue \in filed
    BY <1>6 DEF Exists, Goes
  <2>2. "checked" \in Phases \ {"free"} /\ "done" \in Phases \ {"free"}
    BY DEF Phases
  <2>3. sender[p].report \in Reports /\ OnRecord(sender[p].report)
    BY <1>0, <2>1 DEF Serves
  <2>4. receipt'[sender[p].report].issue = receipt[sender[p].report].issue
    BY <1>0, <2>3
  <2> QED
    BY <1>0, <1>1, <2>1, <2>2, <2>4
<1>7. ASSUME NEW p \in Servers, Unavailable(p) \/ Picture(p) \/ TimeOut(p) PROVE Q
  <2>1. /\ sender[p].phase # "free"
        /\ \E v \in {"failed", "pictured"} : sender' = [sender EXCEPT ![p].phase = v]
    BY <1>7 DEF Unavailable, Picture, TimeOut, Goes
  <2>2. {"failed", "pictured"} \subseteq Phases \ {"free"}
    BY DEF Phases
  <2> QED
    BY <1>1, <2>1, <2>2
<1>8. ASSUME NEW p \in Servers, Attempting(p) PROVE Q
  <2>1. sender[p].phase = "pictured" /\ sender' = [sender EXCEPT ![p].phase = "attempting"]
    BY <1>8 DEF Attempting, Goes
  <2>2. PICK q \in Reports : q = sender[p].report
    BY <1>0, <2>1 DEF Serves
  <2>3. receipt'[q].attempted
    BY <1>8, <2>2, Types DEF Attempting, Invariant, ReceiptRows
  <2>4. "attempting" \in Phases \ {"free"}
    BY DEF Phases
  <2> QED
    BY <1>1, <2>1, <2>2, <2>3, <2>4
<1>9. ASSUME NEW p \in Servers, Create(p) PROVE Q
  <2>1. sender[p].phase = "attempting" /\ sender' = [sender EXCEPT ![p].phase = "waiting"]
    BY <1>9 DEF Create, Goes
  <2>2. receipt'[sender[p].report].attempted
    BY <1>0, <2>1 DEF Serves
  <2>3. "waiting" \in Phases \ {"free"}
    BY DEF Phases
  <2> QED
    BY <1>1, <2>1, <2>2, <2>3
<1>10. ASSUME NEW m \in network, Arrive(m) \/ Lose(m) PROVE UNCHANGED sender \/ Q
  <2>1. CASE m.from = None
    BY <1>10, <2>1 DEF Arrive, Lose
  <2>2. CASE m.from # None
    <3>1. PICK p \in Servers : p = m.from
      BY <2>2 DEF Invariant, TypeOK
    <3>2. sender[p].phase = "waiting" /\ m.issue = receipt[sender[p].report].issue
      BY <2>2, <3>1 DEF Invariant, Creates
    <3>3. \/ sender' = [sender EXCEPT ![p].phase = "failed"]
          \/ sender' = [sender EXCEPT ![p].phase = "done"] /\ m.issue \in filed'
      BY <1>10, <2>2, <3>1 DEF Arrive, Lose
    <3>4. receipt'[sender[p].report].issue = receipt[sender[p].report].issue
      BY <1>0, <3>2 DEF Serves
    <3>5. "failed" \in Phases \ {"free"} /\ "done" \in Phases \ {"free"}
      BY DEF Phases
    <3> QED
      BY <1>1, <3>2, <3>3, <3>4, <3>5
  <2> QED
    BY <2>1, <2>2
<1>11. UNCHANGED sender \/ Q
  <2>1. \A p \in Servers : Finish(p) \/ Crash(p) => sender' = [sender EXCEPT ![p] = Free]
    BY DEF Finish, Crash
  <2>2. \A p \in Servers, q \in Reports : AlreadySent(p, q) => UNCHANGED sender
    BY DEF AlreadySent
  <2>3. \A q \in Reports : LeaseEnds(q) \/ DayPasses(q) => UNCHANGED sender
    BY DEF LeaseEnds, DayPasses
  <2> QED
    BY <1>3, <1>4, <1>5, <1>6, <1>7, <1>8, <1>9, <1>10, <2>1, <2>2, <2>3 DEF Next, Sending, vars
<1>12. CASE UNCHANGED sender
  BY <1>0, <1>12 DEF Serves, OnRecord
<1>13. ASSUME NEW p \in Servers, NEW x \in SenderRows, sender' = [sender EXCEPT ![p] = x], Stands(x)
       PROVE  /\ sender' \in [Servers -> SenderRows]
              /\ \A r \in Servers : sender'[r] = sender[r] \/ Stands(sender'[r])
              /\ \A r \in Servers : Serves(r)'
  <2>1. /\ sender' \in [Servers -> SenderRows] /\ sender'[p] = x
        /\ \A r \in Servers \ {p} : sender'[r] = sender[r]
    BY <1>0, <1>13
  <2>2. Serves(p)'
    BY <1>13, <2>1 DEF Serves, Stands, OnRecord
  <2>3. ASSUME NEW r \in Servers \ {p} PROVE Serves(r)'
    BY <1>0, <2>1 DEF Serves, OnRecord
  <2> QED
    BY <1>13, <2>1, <2>2, <2>3
<1> QED
  BY <1>11, <1>12, <1>13

Messages == [issue : Issues, from : Servers \cup {None}]

\* An issue that was attempted stays so.
LEMMA AttemptedStays ==
  ASSUME FeedbackConstants, Invariant, [Next]_vars, NEW i, Attempted(i)
  PROVE  Attempted(i)'
<1>1. PICK q \in Reports : OnRecord(q) /\ receipt[q].issue = i /\ receipt[q].attempted
  BY DEF Attempted
<1>2. OnRecord(q)' /\ receipt'[q].issue = i /\ receipt'[q].attempted
  BY <1>1, ReceiptStep
<1> QED
  BY <1>2 DEF Attempted

LEMMA MessageStep ==
  ASSUME FeedbackConstants, Invariant, [Next]_vars
  PROVE  network' \subseteq Messages /\ \A m \in network' : Creates(m)'
<1> DEFINE Good == network' \subseteq Messages /\ \A m \in network' : Creates(m)'
<1>0. /\ network \subseteq Messages /\ \A m \in network : Creates(m)
      /\ sender \in [Servers -> SenderRows]
      /\ \A p \in Servers : Serves(p)
      /\ None \notin Issues
  BY Types DEF Invariant, TypeOK, Messages, FeedbackConstants
<1>r. \A q \in Reports : OnRecord(q) => receipt'[q].issue = receipt[q].issue
  BY ReceiptStep
<1>1. ASSUME network' \subseteq network,
             \A m \in network' : m.from # None => sender'[m.from] = sender[m.from]
      PROVE  Good
  <2>1. ASSUME NEW m \in network' PROVE Creates(m)'
    <3>1. m \in network /\ Creates(m) /\ m \in Messages
      BY <1>0, <1>1
    <3>2. Attempted(m.issue)'
      BY <3>1, AttemptedStays DEF Creates
    <3>3. ASSUME m.from # None
          PROVE  /\ sender'[m.from].phase = "waiting"
                 /\ m.issue = receipt'[sender'[m.from].report].issue
      <4>1. m.from \in Servers /\ sender'[m.from] = sender[m.from]
            /\ sender[m.from].phase = "waiting"
            /\ m.issue = receipt[sender[m.from].report].issue
        BY <1>1, <3>1, <3>3 DEF Creates, Messages
      <4>2. sender[m.from].report \in Reports /\ OnRecord(sender[m.from].report)
        BY <1>0, <4>1 DEF Serves
      <4> QED
        BY <1>r, <4>1, <4>2
    <3> QED
      BY <1>1, <3>1, <3>2, <3>3 DEF Creates
  <2> QED
    BY <1>0, <1>1, <2>1
<1>2. ASSUME UNCHANGED network,
             \A p \in Servers : sender[p].phase = "waiting" => sender'[p] = sender[p]
      PROVE  Good
  <2>1. \A m \in network : m.from # None => m.from \in Servers /\ sender[m.from].phase = "waiting"
    BY <1>0 DEF Creates, Messages
  <2> QED
    BY <1>1, <1>2, <2>1
<1>3. ASSUME NEW p \in Servers, Create(p) PROVE Good
  <2>1. sender[p].phase = "attempting" /\ sender' = [sender EXCEPT ![p].phase = "waiting"]
    BY <1>3 DEF Create, Goes
  <2>2. PICK q \in Reports : q = sender[p].report /\ OnRecord(q) /\ receipt[q].attempted
    BY <1>0, <2>1 DEF Serves
  <2>3. receipt[q].issue \in Issues
    BY <2>2 DEF Invariant, Issued
  <2>4. PICK n \in Messages : n = [issue |-> receipt[q].issue, from |-> p]
    BY <2>3 DEF Messages
  <2>5. n.issue = receipt[q].issue /\ n.from = p /\ p # None
    BY <2>4 DEF FeedbackConstants
  <2>6. network' = network \cup {n}
    BY <1>3, <2>2, <2>4 DEF Create
  <2>7. /\ sender'[p].phase = "waiting" /\ sender'[p].report = q
        /\ \A r \in Servers \ {p} : sender'[r] = sender[r]
    BY <1>0, <2>1, <2>2 DEF SenderRows
  <2>8. \A m \in network : m.from # None => m.from \in Servers \ {p}
    BY <1>0, <2>1 DEF Creates, Messages
  <2>9. Attempted(n.issue)' /\ receipt'[q].issue = receipt[q].issue
    <3>1. Attempted(receipt[q].issue)
      BY <2>2 DEF Attempted
    <3>2. PICK i \in Issues : i = receipt[q].issue
      BY <2>3
    <3> QED
      BY <1>r, <2>2, <2>5, <3>1, <3>2, AttemptedStays
  <2>10. Creates(n)'
    BY <2>5, <2>6, <2>7, <2>8, <2>9 DEF Creates
  <2>11. ASSUME NEW m \in network PROVE Creates(m)'
    <3>1. Creates(m) /\ Attempted(m.issue)'
      BY <1>0, AttemptedStays DEF Creates
    <3>2. ASSUME m.from # None
          PROVE  /\ sender'[m.from].phase = "waiting"
                 /\ m.issue = receipt'[sender'[m.from].report].issue
                 /\ n.from # m.from
      <4>1. m.from \in Servers \ {p}
        BY <2>8, <3>2
      <4>2. sender[m.from].report \in Reports /\ OnRecord(sender[m.from].report)
        BY <1>0, <3>1, <3>2, <4>1 DEF Serves, Creates
      <4> QED
        BY <1>r, <2>5, <2>7, <3>1, <3>2, <4>1, <4>2 DEF Creates
    <3> QED
      BY <2>6, <3>1, <3>2 DEF Creates
  <2> QED
    BY <1>0, <2>4, <2>6, <2>10, <2>11
<1>4. ASSUME NEW p \in Servers, network' = Unheard(p),
             \A r \in Servers \ {p} : sender'[r] = sender[r]
      PROVE  Good
  <2>1. ASSUME NEW m \in network'
        PROVE  /\ m \in Messages /\ m.from # p
               /\ m.from # None => m \in network
               /\ \E n \in network : n.issue = m.issue
    <3>1. PICK n \in network : m = IF n.from = p THEN [n EXCEPT !.from = None] ELSE n
      BY <1>4 DEF Unheard
    <3>2. n \in Messages
      BY <1>0
    <3> QED
      BY <3>1, <3>2 DEF Messages, FeedbackConstants
  <2>2. ASSUME NEW m \in network' PROVE Creates(m)'
    <3>1. Attempted(m.issue)'
      BY <1>0, <2>1, AttemptedStays DEF Creates
    <3>2. ASSUME m.from # None
          PROVE  /\ sender'[m.from].phase = "waiting"
                 /\ m.issue = receipt'[sender'[m.from].report].issue
                 /\ \A n \in network' : n.from = m.from => n = m
      <4>1. m \in network /\ Creates(m) /\ m.from \in Servers \ {p}
        BY <1>0, <2>1, <3>2 DEF Messages
      <4>2. sender'[m.from] = sender[m.from] /\ sender[m.from].phase = "waiting"
            /\ m.issue = receipt[sender[m.from].report].issue
        BY <1>4, <3>2, <4>1 DEF Creates
      <4>3. sender[m.from].report \in Reports /\ OnRecord(sender[m.from].report)
        BY <1>0, <4>1, <4>2 DEF Serves
      <4>4. ASSUME NEW n \in network', n.from = m.from PROVE n = m
        BY <2>1, <3>2, <4>1, <4>4 DEF Creates
      <4> QED
        BY <1>r, <4>2, <4>3, <4>4
    <3> QED
      BY <3>1, <3>2 DEF Creates
  <2> QED
    BY <2>1, <2>2
<1>5. ASSUME NEW m \in network, Arrive(m) \/ Lose(m) PROVE Good
  <2>1. network' = network \ {m}
    BY <1>5 DEF Arrive, Lose
  <2>2. ASSUME NEW n \in network', n.from # None PROVE sender'[n.from] = sender[n.from]
    <3>1. n.from \in Servers /\ n.from # m.from
      BY <1>0, <2>1, <2>2 DEF Creates, Messages
    <3> QED
      BY <1>0, <1>5, <3>1 DEF Arrive, Lose
  <2> QED
    BY <1>1, <2>1, <2>2
<1>6. ASSUME NEW p \in Servers, TimeOut(p) \/ Crash(p) PROVE Good
  <2>1. network' = Unheard(p) /\ \A r \in Servers \ {p} : sender'[r] = sender[r]
    BY <1>0, <1>6 DEF TimeOut, Crash, Goes
  <2> QED
    BY <1>4, <2>1
<1>7. ASSUME NEW p \in Servers,
             \/ Exists(p) \/ Picture(p) \/ Attempting(p) \/ Finish(p) \/ Unavailable(p)
             \/ \E q \in Reports : Resubmit(p, q) \/ AlreadySent(p, q)
             \/ \E q \in Reports, i \in Issues : Submit(p, q, i)
      PROVE  Good
  <2>1. UNCHANGED network
    BY <1>7 DEF Exists, Picture, Attempting, Finish, Unavailable, Resubmit, AlreadySent, Submit
  <2>2. sender[p].phase # "waiting"
    BY <1>7 DEF Exists, Picture, Attempting, Finish, Unavailable, Resubmit, AlreadySent, Submit,
                Goes, SlotFree
  <2>3. \A r \in Servers \ {p} : sender'[r] = sender[r]
    BY <1>0, <1>7 DEF Exists, Picture, Attempting, Finish, Unavailable, Resubmit, AlreadySent,
                      Submit, Goes, Taken
  <2> QED
    BY <1>2, <2>1, <2>2, <2>3
<1>8. ASSUME NEW q \in Reports, LeaseEnds(q) \/ DayPasses(q) PROVE Good
  BY <1>2, <1>8 DEF LeaseEnds, DayPasses
<1>9. CASE UNCHANGED vars
  BY <1>2, <1>9 DEF vars
<1> QED
  BY <1>3, <1>5, <1>6, <1>7, <1>8, <1>9 DEF Next, Sending

\* A user is told of success when the sender learned of it or the receipt says so.
LEMMA ToldStep ==
  ASSUME FeedbackConstants, Invariant, [Next]_vars, NEW q \in told', q \notin told
  PROVE  q \in Reports /\ OnRecord(q) /\ receipt[q].issue \in filed
<1>1. CASE \E p \in Servers : Finish(p) /\ Replies(p)
  <2>1. PICK p \in Servers : Finish(p) /\ Replies(p)
    BY <1>1
  <2>2. sender[p].phase = "done" /\ q = sender[p].report
    BY <2>1 DEF Replies
  <2> QED
    BY <2>2 DEF Invariant, Serves
<1>2. CASE \E p \in Servers, r \in Reports : AlreadySent(p, r)
  <2>1. PICK p \in Servers, r \in Reports : AlreadySent(p, r)
    BY <1>2
  <2>2. q = r /\ receipt[r].status = "sent"
    BY <2>1 DEF AlreadySent
  <2> QED
    BY <2>2 DEF Invariant, SuccessIsFiled, OnRecord
<1>3. \/ \E p \in Servers : Finish(p) /\ Replies(p)
      \/ \E p \in Servers, r \in Reports : AlreadySent(p, r)
      \/ UNCHANGED told
  BY DEF Next, vars, Submit, Resubmit, Sending, Exists, Picture, Attempting, Create, TimeOut,
     Finish,
         Unavailable, Crash, Arrive, Lose, LeaseEnds, DayPasses
<1> QED
  BY <1>1, <1>2, <1>3

\* An issue is filed by the arrival of a creation.
LEMMA FiledStep ==
  ASSUME FeedbackConstants, Invariant, [Next]_vars
  PROVE  \A i \in filed' : Attempted(i)'
<1>1. \A i \in filed' : i \in filed \/ \E m \in network : m.issue = i
  BY DEF Next, vars, Submit, Resubmit, AlreadySent, Sending, Exists, Picture, Attempting,
     Create,
         TimeOut, Finish, Unavailable, Crash, Arrive, Lose, LeaseEnds, DayPasses
<1>2. \A i \in filed' : Attempted(i)
  BY <1>1 DEF Invariant, Creates
<1> QED
  BY <1>2, AttemptedStays

LEMMA InvariantStep == ASSUME FeedbackConstants, Invariant, [Next]_vars PROVE Invariant'
<1>1. /\ receipt' \in [Reports -> ReceiptRows] /\ used' \in [Reports -> SUBSET Issues]
      /\ \A q \in Reports : Issued(q)' /\ (receipt'[q].leased => receipt'[q].status = "sending")
  BY ReceiptStep
<1>2. sender' \in [Servers -> SenderRows] /\ \A p \in Servers : Serves(p)'
  BY SenderStep
<1>3. network' \subseteq Messages /\ \A m \in network' : Creates(m)'
  BY MessageStep
<1>4. \A i \in filed' : Attempted(i)'
  BY FiledStep
<1>5. recent' \subseteq Reports
  BY DEF Invariant, TypeOK, Next, vars, Submit, Resubmit, AlreadySent, Sending, Exists, Picture,
         Attempting, Create, TimeOut, Finish, Unavailable, Crash, Arrive, Lose, LeaseEnds,
         DayPasses
<1>6. told' \subseteq Reports
  BY ToldStep DEF Invariant, TypeOK
<1>7. filed' \subseteq UNION {used'[q] : q \in Reports}
  BY <1>1, <1>4 DEF Attempted, Issued
<1>8. SuccessIsFiled'
  <2> SUFFICES ASSUME NEW q \in Reports, q \in told' \/ receipt'[q].status = "sent"
               PROVE  receipt'[q].issue \in filed'
    BY DEF SuccessIsFiled
  <2>1. receipt[q].issue \in filed
    BY ToldStep, ReceiptStep DEF Invariant, SuccessIsFiled
  <2>2. OnRecord(q)
    BY ToldStep, ReceiptStep DEF Invariant
  <2> QED
    BY <2>1, <2>2, ReceiptStep
<1>t. \A q \in told' : OnRecord(q)'
  <2>1. \A q \in told' : q \in Reports /\ OnRecord(q)
    BY <1>6, ToldStep DEF Invariant
  <2> QED
    BY <2>1, ReceiptStep
<1>9. TypeOK'
  BY <1>1, <1>2, <1>3, <1>5, <1>6, <1>7 DEF TypeOK, ReceiptRows, SenderRows, Messages
<1> QED
  BY <1>1, <1>2, <1>3, <1>4, <1>8, <1>9, <1>t DEF Invariant

LEMMA Inductive == ASSUME FeedbackConstants PROVE Spec => []Invariant
<1>1. Init => Invariant
  BY InitInvariant
<1>2. Invariant /\ [Next]_vars => Invariant'
  BY InvariantStep
<1> QED
  BY <1>1, <1>2, PTL DEF Spec

-----------------------------------------------------------------------------
(* Theorems                                                                 *)

\* Type correctness of receipts, senders and requests.
THEOREM TypeCorrect == ASSUME FeedbackConstants PROVE Spec => []TypeOK
<1>1. Invariant => TypeOK
  BY DEF Invariant
<1> QED
  BY <1>1, Inductive, PTL

\* A report is one issue at Linear, however often it was retried and by whom.
THEOREM OneIssue == ASSUME FeedbackConstants PROVE Spec => []FiledOnce
<1>1. Invariant => FiledOnce
  <2> SUFFICES ASSUME Invariant, NEW q \in Reports PROVE Cardinality(used[q] \cap filed) <= 1
    BY DEF FiledOnce
  <2>1. used[q] = {receipt[q].issue} \/ used[q] = {}
    BY DEF Invariant, Issued
  <2>2. used[q] \cap filed = {} \/ used[q] \cap filed = {receipt[q].issue}
    <3>1. CASE receipt[q].issue \in filed
      <4>1. {receipt[q].issue} \cap filed = {receipt[q].issue}
        BY <3>1
      <4> QED
        BY <2>1, <4>1
    <3>2. CASE receipt[q].issue \notin filed
      <4>1. {receipt[q].issue} \cap filed = {}
        BY <3>2
      <4> QED
        BY <2>1, <4>1
    <3> QED
      BY <3>1, <3>2
  <2>3. Cardinality({receipt[q].issue}) = 1 /\ Cardinality({}) = 0
    BY FS_EmptySet, FS_Singleton
  <2>4. CASE used[q] \cap filed = {}
    BY <2>3, <2>4
  <2>5. CASE used[q] \cap filed = {receipt[q].issue}
    BY <2>3, <2>5
  <2> QED
    BY <2>2, <2>4, <2>5
<1> QED
  BY <1>1, Inductive, PTL

\* Whoever is told that a report was filed has an issue on file.
THEOREM SuccessTrue == ASSUME FeedbackConstants PROVE Spec => []SuccessIsFiled
<1>1. Invariant => SuccessIsFiled
  BY DEF Invariant
<1> QED
  BY <1>1, Inductive, PTL

\* The receipt of an issue on file says that it was attempted, so a retry looks
\* for it before it creates another.
THEOREM Found == ASSUME FeedbackConstants PROVE Spec => []FiledIsFound
<1>1. Invariant => FiledIsFound
  <2> SUFFICES ASSUME Invariant, NEW q \in Reports, NEW i \in used[q] \cap filed
               PROVE  receipt[q].attempted
    BY DEF FiledIsFound
  <2>1. OnRecord(q) /\ i = receipt[q].issue
    BY DEF Invariant, Issued
  <2>2. PICK r \in Reports : OnRecord(r) /\ receipt[r].issue = i /\ receipt[r].attempted
    BY DEF Invariant, Attempted
  <2>3. q = r
    BY <2>1, <2>2 DEF Invariant, Issued
  <2> QED
    BY <2>2, <2>3
<1> QED
  BY <1>1, Inductive, PTL

-----------------------------------------------------------------------------
(* The account                                                              *)


\* A request that has read the row, and the session it may open.
Started(b) ==
    browser[b].phase \notin {"idle", "accepted"} =>
      browser[b].row \in Account!Rows /\ browser[b].row.version = browser[b].row.password

\* A link that was followed is revoked, and its tick is never used again.
Spent(t) == (reset[t].made /\ reset[t].revoked) \/ (~reset[t].made /\ t < clock)

AccountInvariant ==
    /\ Account!TypeOK
    /\ user.version = user.password /\ user.password = changes /\ log.recoveries <= changes
    /\ \A b \in Browsers : Started(b)
    /\ \A b \in Browsers : session[b].via = "login" => session[b].version = session[b].knew
    /\ \A t \in Account!Ticks : reset[t].made => reset[t].version = log.knew[t]
    /\ \A t \in log.followed : Spent(t)
    /\ \A i \in Invites : invite[i] = "open" => log.before[i] = log.recoveries

Links == [made : BOOLEAN, version : Account!Passwords, revoked : BOOLEAN]
Requests ==
    [phase : {"idle", "read", "missed", "cleared", "changed", "tidied", "accepted"},
     kind : {"none", "login", "change"}, entered : Account!Passwords,
     row : Account!Rows \cup {None}, seen : 0 .. Threshold]
Cookies == [version : Account!Passwords \cup {None}, knew : Account!Passwords, via : {"none", "login", "invite"}]
Logs == [knew : [Account!Ticks -> Account!Passwords], followed : SUBSET Account!Ticks, recoveries : Account!Passwords,
         before : [Invites -> Account!Passwords], accepted : SUBSET Invites]
Mailers == [queue : Seq({"reset", "changed"}), sending : Account!Ticks \cup {None}, slots : 0 .. Slots]

LEMMA AccountTypes ==
  ASSUME Account!TypeOK
  PROVE  /\ user \in Account!Rows /\ changes \in Account!Passwords /\ clock \in Account!Ticks
         /\ inbox \subseteq Account!Ticks
         /\ invite \in [Invites -> {"unmade", "open", "used", "expired"}]
         /\ reset \in [Account!Ticks -> Links] /\ \A t \in Account!Ticks : reset[t] \in Links
         /\ browser \in [Browsers -> Requests] /\ \A b \in Browsers : browser[b] \in Requests
         /\ session \in [Browsers -> Cookies] /\ \A b \in Browsers : session[b] \in Cookies
         /\ log \in Logs /\ mailer \in Mailers
<1>1. /\ user \in Account!Rows /\ changes \in Account!Passwords /\ clock \in Account!Ticks
      /\ inbox \subseteq Account!Ticks
      /\ invite \in [Invites -> {"unmade", "open", "used", "expired"}]
  BY DEF Account!TypeOK
<1>2. reset \in [Account!Ticks -> Links] /\ log \in Logs /\ mailer \in Mailers
  BY DEF Account!TypeOK, Links, Logs, Mailers
<1>3. browser \in [Browsers -> Requests] /\ session \in [Browsers -> Cookies]
  BY DEF Account!TypeOK, Requests, Cookies
<1> QED
  BY <1>1, <1>2, <1>3

LEMMA AccountNumbers ==
  ASSUME Account!AccountConstants
  PROVE  /\ Threshold \in Nat /\ Slots \in Nat /\ Ttl \in Nat /\ Hour \in Nat /\ Day \in Nat
         /\ End \in Nat /\ MaxChanges \in Nat /\ 0 < Threshold /\ None \notin Nat
         /\ Account!Passwords \subseteq Nat /\ Account!Ticks \subseteq Nat
         /\ 0 \in Account!Passwords /\ 0 \in Account!Ticks
  BY DEF Account!AccountConstants, Account!Passwords, Account!Ticks

LEMMA InitAccount == ASSUME Account!AccountConstants, Account!Init PROVE AccountInvariant
<1>0. /\ Threshold \in Nat /\ Slots \in Nat /\ 0 \in Account!Passwords /\ 0 \in Account!Ticks
  BY AccountNumbers
<1>1. user \in Account!Rows /\ user.version = 0 /\ user.password = 0
  BY <1>0 DEF Account!Init, Account!Rows, Account!Statuses
<1>2. Account!NoLink \in Links /\ ~Account!NoLink.made
  BY <1>0 DEF Account!NoLink, Links
<1>3. Account!Idle \in Requests /\ Account!Idle.phase = "idle"
  BY <1>0 DEF Account!Idle, Requests
<1>4. Account!Anonymous \in Cookies /\ Account!Anonymous.via = "none"
  BY <1>0 DEF Account!Anonymous, Cookies
<1>5. log \in Logs /\ log.followed = {} /\ log.recoveries = 0
  BY <1>0 DEF Account!Init, Logs
<1>6. /\ mailer \in Mailers /\ mailer.slots = Slots /\ Len(mailer.queue) = 0 /\ ~Account!Working
  BY <1>0 DEF Account!Init, Mailers, Account!Working
<1>7. reset \in [Account!Ticks -> Links] /\ \A t \in Account!Ticks : ~reset[t].made
  BY <1>2 DEF Account!Init
<1>8. browser \in [Browsers -> Requests] /\ \A b \in Browsers : browser[b].phase = "idle"
  BY <1>3 DEF Account!Init
<1>9. session \in [Browsers -> Cookies] /\ \A b \in Browsers : session[b].via = "none"
  BY <1>4 DEF Account!Init
<1>10. Account!TypeOK
  <2>1. mailer.slots = Slots - Len(mailer.queue) - (IF Account!Working THEN 1 ELSE 0)
    BY <1>0, <1>6
  <2> QED
    BY <1>0, <1>1, <1>5, <1>6, <1>7, <1>8, <1>9, <2>1
       DEF Account!Init, Account!TypeOK, Links, Requests, Cookies, Logs, Mailers
<1> QED
  BY <1>0, <1>1, <1>5, <1>7, <1>8, <1>9, <1>10 DEF Account!Init, AccountInvariant, Started

-----------------------------------------------------------------------------
(* The row of the account                                                   *)
LEMMA SetStatusRow ==
  ASSUME NEW x \in Account!Rows, NEW s \in Account!Statuses
  PROVE  LET y == [x EXCEPT !.status = s]
         IN  y \in Account!Rows /\ y.password = x.password /\ y.version = x.version
  BY DEF Account!Rows
LEMMA SetFailuresRow ==
  ASSUME NEW x \in Account!Rows, NEW n \in 0 .. Threshold, NEW l \in BOOLEAN
  PROVE  LET y == [x EXCEPT !.failed = n, !.locked = l]
         IN  y \in Account!Rows /\ y.password = x.password /\ y.version = x.version
  BY DEF Account!Rows
LEMMA SetLockRow ==
  ASSUME NEW x \in Account!Rows
  PROVE  LET y == [x EXCEPT !.locked = FALSE]
         IN  y \in Account!Rows /\ y.password = x.password /\ y.version = x.version
  BY DEF Account!Rows
LEMMA UnlockedRow ==
  ASSUME Account!AccountConstants, NEW x \in Account!Rows
  PROVE  Account!Unlocked(x) \in Account!Rows /\ Account!Unlocked(x).password = x.password /\ Account!Unlocked(x).version = x.version
<1>1. 0 \in 0 .. Threshold /\ FALSE \in BOOLEAN
  BY AccountNumbers
<1> QED
  BY <1>1, SetFailuresRow DEF Account!Unlocked

LEMMA NewPasswordRow ==
  ASSUME Account!AccountConstants, AccountInvariant, Account!Changing
  PROVE  /\ changes' \in Account!Passwords /\ changes' = changes + 1
         /\ Account!NewPassword(user) \in Account!Rows
         /\ Account!NewPassword(user).password = changes'
         /\ Account!NewPassword(user).version = changes'
<1>1. user \in Account!Rows /\ changes \in Account!Passwords /\ user.version = changes
  BY AccountTypes DEF AccountInvariant
<1>2. changes' = changes + 1 /\ changes' \in Account!Passwords
  BY <1>1, AccountNumbers DEF Account!Changing, Account!Passwords
<1>3. [user EXCEPT !.password = changes + 1, !.version = @ + 1]
        = [user EXCEPT !.password = changes', !.version = changes']
  BY <1>1, <1>2
<1>4. Account!NewPassword(user) = [user EXCEPT !.password = changes', !.version = changes']
  BY <1>3 DEF Account!NewPassword
<1> QED
  BY <1>1, <1>2, <1>4 DEF Account!Rows

LEMMA UserStep ==
  ASSUME Account!AccountConstants, AccountInvariant, [Account!Next]_Account!vars
  PROVE  /\ user' \in Account!Rows /\ changes' \in Account!Passwords /\ changes <= changes'
         /\ user'.version = user'.password /\ user'.password = changes'
<1> DEFINE Q == /\ user' \in Account!Rows /\ changes' \in Account!Passwords /\ changes <= changes'
                /\ user'.version = user'.password /\ user'.password = changes'
<1>0. /\ user \in Account!Rows /\ changes \in Account!Passwords /\ changes \in Nat
      /\ user.version = user.password /\ user.password = changes
  BY AccountTypes, AccountNumbers DEF AccountInvariant
<1>1. ASSUME UNCHANGED <<user, changes>> PROVE Q
  BY <1>0, <1>1
<1>2. ASSUME Account!Changing, user' = Account!NewPassword(user) PROVE Q
  BY <1>0, <1>2, NewPasswordRow
<1>3. ASSUME Account!Changing, user' = Account!Unlocked(Account!NewPassword(user)) PROVE Q
  <2>1. /\ Account!NewPassword(user) \in Account!Rows /\ changes' \in Account!Passwords
        /\ changes' = changes + 1
        /\ Account!NewPassword(user).password = changes'
        /\ Account!NewPassword(user).version = changes'
    BY <1>3, NewPasswordRow
  <2>2. /\ user' \in Account!Rows /\ user'.password = changes' /\ user'.version = changes'
    <3> DEFINE x == Account!NewPassword(user)
    <3>1. x \in Account!Rows /\ x.password = changes' /\ x.version = changes' /\ user' = Account!Unlocked(x)
      BY <1>3, <2>1
    <3> HIDE DEF x
    <3> QED
      BY <3>1, UnlockedRow
  <2> QED
    BY <1>0, <2>1, <2>2
<1>4. ASSUME Account!Changing, user' = [Account!NewPassword(user) EXCEPT !.status = "active"]
      PROVE Q
  <2>1. /\ Account!NewPassword(user) \in Account!Rows /\ changes' \in Account!Passwords
        /\ changes' = changes + 1
        /\ Account!NewPassword(user).password = changes'
        /\ Account!NewPassword(user).version = changes'
    BY <1>4, NewPasswordRow
  <2>2. /\ user' \in Account!Rows /\ user'.password = changes' /\ user'.version = changes'
    <3> DEFINE x == Account!NewPassword(user)
    <3>1. /\ x \in Account!Rows /\ x.password = changes' /\ x.version = changes'
          /\ user' = [x EXCEPT !.status = "active"]
      BY <1>4, <2>1
    <3> HIDE DEF x
    <3> QED
      BY <3>1, SetStatusRow DEF Account!Statuses
  <2> QED
    BY <1>0, <2>1, <2>2
<1>5. ASSUME NEW s \in Account!Statuses, Account!SetStatus(s) PROVE Q
  BY <1>0, <1>5, SetStatusRow DEF Account!SetStatus
<1>6. ASSUME NEW b \in Browsers, Account!RegisterFailure(b) PROVE Q
  <2> DEFINE n == Account!Counted(browser[b].seen)
             l == n >= Threshold
  <2>1. browser[b].seen \in 0 .. Threshold
    BY AccountTypes DEF AccountInvariant, Requests
  <2>2. n \in 0 .. Threshold /\ l \in BOOLEAN
    BY <2>1, AccountNumbers DEF Account!Counted
  <2>3. user' = [user EXCEPT !.failed = n, !.locked = l] /\ changes' = changes
    BY <1>6 DEF Account!RegisterFailure
  <2> HIDE DEF n, l
  <2>4. LET y == [user EXCEPT !.failed = n, !.locked = l]
        IN  y \in Account!Rows /\ y.password = user.password /\ y.version = user.version
    BY <1>0, <2>2, SetFailuresRow
  <2> QED
    BY <1>0, <2>3, <2>4
<1>7. ASSUME NEW b \in Browsers, Account!ClearFailures(b) PROVE Q
  BY <1>0, <1>7, UnlockedRow DEF Account!ClearFailures
<1>8. ASSUME Account!LockElapses PROVE Q
  BY <1>0, <1>8, SetLockRow DEF Account!LockElapses
<1>9. ASSUME NEW b \in Browsers, Account!Changed(b) PROVE Q
  BY <1>1, <1>2, <1>9 DEF Account!Changed
<1>10. ASSUME Account!SetPassword \/ \E b \in Browsers, i \in Invites : Account!Accept(b, i)
       PROVE Q
  BY <1>2, <1>4, <1>10 DEF Account!SetPassword, Account!Accept
<1>11. ASSUME NEW b \in Browsers, NEW t \in Account!Ticks, Account!Consume(b, t) PROVE Q
  BY <1>3, <1>11 DEF Account!Consume
<1>12. ASSUME \/ UNCHANGED Account!vars
              \/ \E i \in Invites : Account!Reinvite(i) \/ Account!InviteExpires(i)
              \/ \E b \in Browsers, p \in 0 .. changes :
                   Account!Login(b, p) \/ Account!ChangePassword(b, p)
              \/ \E b \in Browsers : \/ Account!WrongPassword(b) \/ Account!NotActive(b)
                                     \/ Account!SignIn(b)
                                     \/ Account!RevokeLinks(b) \/ Account!Logout(b)
                                     \/ Account!AcceptSignIn(b)
              \/ Account!Forgot \/ Account!Issue \/ Account!NoMail \/ Account!Sent
              \/ Account!Unconfirmed \/ Account!Tick \/ Account!Restart
       PROVE  Q
  BY <1>1, <1>12
     DEF Account!vars, Account!Reinvite, Account!InviteExpires, Account!Login,
        Account!ChangePassword, Account!Enter, Account!WrongPassword,
     Account!NotActive, Account!SignIn, Account!RevokeLinks, Account!Logout,
     Account!AcceptSignIn, Account!Forgot, Account!Issue, Account!NoMail, Account!Sent,
     Account!Unconfirmed, Account!Tick, Account!Restart
<1> QED
  BY <1>5, <1>6, <1>7, <1>8, <1>9, <1>10, <1>11, <1>12 DEF Account!Next

-----------------------------------------------------------------------------
(* Requests and the sessions they open                                      *)
LEMMA RequestStep ==
  ASSUME Account!AccountConstants, AccountInvariant, [Account!Next]_Account!vars
  PROVE  browser' \in [Browsers -> Requests] /\ \A b \in Browsers : Started(b)'
<1> DEFINE Good(x) == x \in Requests /\ (x.phase \notin {"idle", "accepted"} =>
                                           x.row \in Account!Rows /\ x.row.version = x.row.password)
           Q == browser' \in [Browsers -> Requests] /\ \A b \in Browsers : Started(b)'
<1>0. /\ browser \in [Browsers -> Requests] /\ \A b \in Browsers : Good(browser[b])
      /\ user \in Account!Rows /\ user.version = user.password
      /\ Threshold \in Nat /\ Account!Passwords \subseteq Nat /\ 0 \in Account!Passwords
  BY AccountTypes, AccountNumbers DEF AccountInvariant, Started
<1>1. ASSUME NEW b \in Browsers, NEW x, browser' = [browser EXCEPT ![b] = x], Good(x) PROVE Q
  BY <1>0, <1>1 DEF Started
<1>2. Good(Account!Idle)
  BY <1>0 DEF Account!Idle, Requests
<1>3. ASSUME NEW b \in Browsers, Account!Ends(b) PROVE Q
  BY <1>1, <1>2, <1>3 DEF Account!Ends
<1>4. ASSUME NEW b \in Browsers, browser[b].phase \notin {"idle", "accepted"},
             NEW v \in {"read", "missed", "cleared", "changed", "tidied"}, Account!Step(b, v)
      PROVE  Q
  <2> DEFINE x == [browser[b] EXCEPT !.phase = v]
  <2>1. browser' = [browser EXCEPT ![b] = x]
    BY <1>4 DEF Account!Step
  <2>2. Good(x)
    BY <1>0, <1>4 DEF Requests
  <2> HIDE DEF x, Good, Q
  <2> QED
    BY <1>1, <2>1, <2>2
<1>5. ASSUME NEW b \in Browsers, NEW k \in {"login", "change"}, NEW p \in 0 .. changes, Account!Enter(b, k, p)
      PROVE  Q
  <2> DEFINE x == [phase |-> "read", kind |-> k, entered |-> p, row |-> user, seen |-> 0]
  <2>1. browser' = [browser EXCEPT ![b] = x]
    BY <1>5 DEF Account!Enter
  <2>2. p \in Account!Passwords
    <3>1. changes \in 0 .. MaxChanges /\ MaxChanges \in Nat
      BY AccountTypes, AccountNumbers DEF AccountInvariant, Account!Passwords
    <3> QED
      BY <3>1 DEF Account!Passwords
  <2>3. user \in Account!Rows \cup {None} /\ 0 \in 0 .. Threshold /\ user.version = user.password
    BY <1>0
  <2>4. x \in Requests
    BY <2>2, <2>3 DEF Requests
  <2>5. Good(x)
    BY <1>0, <2>4
  <2> HIDE DEF x, Good, Q
  <2> QED
    BY <1>1, <2>1, <2>5
<1>6. ASSUME NEW b \in Browsers, Account!WrongPassword(b) PROVE Q
  <2> DEFINE x == [browser[b] EXCEPT !.phase = "missed", !.seen = user.failed]
  <2>1. browser' = [browser EXCEPT ![b] = x] /\ browser[b].phase = "read"
    BY <1>6 DEF Account!WrongPassword
  <2>2. user.failed \in 0 .. Threshold
    BY <1>0 DEF Account!Rows
  <2>3. Good(x)
    BY <1>0, <2>1, <2>2 DEF Requests
  <2> HIDE DEF x, Good, Q
  <2> QED
    BY <1>1, <2>1, <2>3
<1>7. ASSUME NEW b \in Browsers, Account!ClearFailures(b) PROVE Q
  BY <1>4, <1>7 DEF Account!ClearFailures
<1>8. ASSUME NEW b \in Browsers, Account!Changed(b) PROVE Q
  BY <1>3, <1>4, <1>8 DEF Account!Changed
<1>9. ASSUME NEW b \in Browsers, NEW i \in Invites, Account!Accept(b, i) PROVE Q
  <2> DEFINE x == [Account!Idle EXCEPT !.phase = "accepted", !.entered = changes']
  <2>1. browser' = [browser EXCEPT ![b] = x] /\ changes' \in Account!Passwords
    BY <1>9, NewPasswordRow DEF Account!Accept
  <2>2. x \in Requests /\ x.phase = "accepted"
    <3>1. [Account!Idle EXCEPT !.phase = "accepted"] \in Requests
      BY <1>0 DEF Account!Idle, Requests
    <3>2. [Account!Idle EXCEPT !.phase = "accepted"].phase = "accepted"
      BY DEF Account!Idle
    <3> DEFINE y == [Account!Idle EXCEPT !.phase = "accepted"]
               z == [y EXCEPT !.entered = changes']
    <3>3. x = z
      BY DEF Account!Idle
    <3> HIDE DEF x, y
    <3>4. z \in Requests /\ z.phase = "accepted"
      BY <2>1, <3>1, <3>2 DEF Requests, y
    <3> QED
      BY <3>3, <3>4
  <2> HIDE DEF x
  <2>4. Good(x)
    BY <2>2
  <2> HIDE DEF x, Good, Q
  <2> QED
    BY <1>1, <2>1, <2>4
<1>10. ASSUME Account!Restart PROVE Q
  <2>1. \A b \in Browsers : browser'[b] = Account!Idle
    BY <1>10 DEF Account!Restart
  <2>2. browser' \in [Browsers -> Requests]
    BY <1>2, <1>10 DEF Account!Restart
  <2> QED
    BY <1>2, <2>1, <2>2 DEF Started
<1>11. ASSUME UNCHANGED browser PROVE Q
  BY <1>0, <1>11 DEF Started
<1>12. ASSUME NEW b \in Browsers, NEW p \in 0 .. changes, Account!Login(b, p) \/ Account!ChangePassword(b, p)
       PROVE  Q
  BY <1>5, <1>12 DEF Account!Login, Account!ChangePassword
<1>13. ASSUME NEW b \in Browsers, \/ Account!RegisterFailure(b) \/ Account!NotActive(b) \/ Account!SignIn(b)
                                  \/ Account!RevokeLinks(b) \/ Account!AcceptSignIn(b)
       PROVE  Q
  BY <1>3, <1>13
     DEF Account!RegisterFailure, Account!NotActive, Account!SignIn, Account!RevokeLinks,
        Account!AcceptSignIn
<1>14. ASSUME \/ UNCHANGED Account!vars \/ Account!SetPassword
              \/ \E s \in Account!Statuses : Account!SetStatus(s)
              \/ \E i \in Invites : Account!Reinvite(i) \/ Account!InviteExpires(i)
              \/ \E b \in Browsers : Account!Logout(b)
              \/ \E b \in Browsers, t \in Account!Ticks : Account!Consume(b, t)
              \/ Account!Forgot \/ Account!Issue \/ Account!NoMail \/ Account!Sent
              \/ Account!Unconfirmed \/ Account!Tick \/ Account!LockElapses
       PROVE  Q
  BY <1>11, <1>14
     DEF Account!vars, Account!SetPassword, Account!SetStatus, Account!Reinvite,
        Account!InviteExpires, Account!Logout, Account!Consume,
     Account!Forgot, Account!Issue, Account!NoMail, Account!Sent, Account!Unconfirmed,
     Account!Tick, Account!LockElapses
<1> HIDE DEF Good
<1> QED
  BY <1>6, <1>7, <1>8, <1>9, <1>10, <1>12, <1>13, <1>14 DEF Account!Next

LEMMA SessionStep ==
  ASSUME Account!AccountConstants, AccountInvariant, [Account!Next]_Account!vars
  PROVE  /\ session' \in [Browsers -> Cookies]
         /\ \A b \in Browsers : session'[b].via = "login" => session'[b].version = session'[b].knew
<1> DEFINE Good(x) == x \in Cookies /\ (x.via = "login" => x.version = x.knew)
           Q == /\ session' \in [Browsers -> Cookies]
                /\ \A b \in Browsers :
                     session'[b].via = "login" => session'[b].version = session'[b].knew
<1>0. /\ session \in [Browsers -> Cookies]
      /\ \A b \in Browsers : Good(session[b]) /\ browser[b] \in Requests
      /\ user \in Account!Rows /\ 0 \in Account!Passwords
  BY AccountTypes, AccountNumbers DEF AccountInvariant
<1>1. ASSUME NEW b \in Browsers, NEW x, session' = [session EXCEPT ![b] = x], Good(x) PROVE Q
  BY <1>0, <1>1
<1>2. Good(Account!Anonymous)
  BY <1>0 DEF Account!Anonymous, Cookies
<1>3. ASSUME UNCHANGED session PROVE Q
  BY <1>0, <1>3
<1>4. ASSUME NEW b \in Browsers, Account!SignIn(b) PROVE Q
  <2> DEFINE x == [version |-> browser[b].row.version, knew |-> browser[b].row.password,
                   via |-> "login"]
  <2>1. session' = [session EXCEPT ![b] = x] /\ browser[b].phase = "cleared"
    BY <1>4 DEF Account!SignIn
  <2>2. browser[b].row \in Account!Rows /\ browser[b].row.version = browser[b].row.password
    BY <2>1 DEF AccountInvariant, Started
  <2>3. Good(x)
    BY <2>2 DEF Account!Rows, Cookies
  <2> HIDE DEF x, Good, Q
  <2> QED
    BY <1>1, <2>1, <2>3
<1>5. ASSUME NEW b \in Browsers, Account!AcceptSignIn(b) PROVE Q
  <2> DEFINE x == [version |-> user.version, knew |-> browser[b].entered, via |-> "invite"]
  <2>1. session' = session \/ session' = [session EXCEPT ![b] = x]
    BY <1>5 DEF Account!AcceptSignIn
  <2>2. Good(x)
    BY <1>0 DEF Account!Rows, Requests, Cookies
  <2> HIDE DEF x, Good, Q
  <2> QED
    BY <1>1, <1>3, <2>1, <2>2
<1>6. ASSUME NEW b \in Browsers, \/ Account!Changed(b) \/ Account!RevokeLinks(b) \/ Account!Logout(b)
                                 \/ \E t \in Account!Ticks : Account!Consume(b, t)
      PROVE  Q
  <2>1. session' = session \/ session' = [session EXCEPT ![b] = Account!Anonymous]
    BY <1>6 DEF Account!Changed, Account!RevokeLinks, Account!Logout, Account!Consume
  <2> HIDE DEF Good, Q
  <2> QED
    BY <1>1, <1>2, <1>3, <2>1
<1>7. ASSUME \/ UNCHANGED Account!vars \/ Account!SetPassword
             \/ \E s \in Account!Statuses : Account!SetStatus(s)
             \/ \E i \in Invites : Account!Reinvite(i) \/ Account!InviteExpires(i)
             \/ \E b \in Browsers, p \in 0 .. changes :
                  Account!Login(b, p) \/ Account!ChangePassword(b, p)
             \/ \E b \in Browsers : \/ Account!WrongPassword(b) \/ Account!RegisterFailure(b)
                                    \/ Account!NotActive(b)
                                    \/ Account!ClearFailures(b)
             \/ \E b \in Browsers, i \in Invites : Account!Accept(b, i)
             \/ Account!Forgot \/ Account!Issue \/ Account!NoMail \/ Account!Sent
             \/ Account!Unconfirmed \/ Account!Tick \/ Account!LockElapses \/ Account!Restart
      PROVE  Q
  BY <1>3, <1>7
     DEF Account!vars, Account!SetPassword, Account!SetStatus, Account!Reinvite,
        Account!InviteExpires, Account!Login, Account!ChangePassword,
     Account!Enter, Account!WrongPassword, Account!RegisterFailure, Account!NotActive,
     Account!ClearFailures, Account!Accept, Account!Forgot, Account!Issue, Account!NoMail,
     Account!Sent, Account!Unconfirmed, Account!Tick, Account!LockElapses, Account!Restart
<1> HIDE DEF Good
<1> QED
  BY <1>4, <1>5, <1>6, <1>7 DEF Account!Next

-----------------------------------------------------------------------------
(* Links, invitations and what is known of them                             *)
LEMMA MadeAfter ==
  ASSUME Account!AccountConstants, AccountInvariant, NEW t \in Account!Ticks
  PROVE  /\ reset[t].made \in BOOLEAN /\ reset[t].revoked \in BOOLEAN
         /\ [reset[t] EXCEPT !.revoked = TRUE] \in Links
         /\ [reset[t] EXCEPT !.revoked = TRUE].made = reset[t].made
         /\ [reset[t] EXCEPT !.revoked = TRUE].version = reset[t].version
         /\ [reset[t] EXCEPT !.revoked = TRUE].revoked
  BY AccountTypes DEF AccountInvariant, Links

\* What a step makes of a link that it does not make: revoked, removed or nothing.
Ages(x, y) ==
    /\ x \in Links /\ (x.made => y.made /\ x.version = y.version)
    /\ y.made /\ y.revoked /\ x.made => x.revoked

LEMMA LinksAge ==
  ASSUME Account!AccountConstants, AccountInvariant, [Account!Next]_Account!vars, ~Account!Issue
  PROVE  /\ reset' \in [Account!Ticks -> Links]
         /\ \A t \in Account!Ticks : Ages(reset'[t], reset[t])
         /\ \A t \in Account!Ticks : reset[t].made /\ ~reset'[t].made => t < clock
         /\ log'.knew = log.knew
<1> DEFINE R == /\ reset' \in [Account!Ticks -> Links]
                /\ \A t \in Account!Ticks : Ages(reset'[t], reset[t])
                /\ \A t \in Account!Ticks : reset[t].made /\ ~reset'[t].made => t < clock
<1>0. /\ reset \in [Account!Ticks -> Links] /\ \A t \in Account!Ticks : reset[t] \in Links
      /\ log \in Logs /\ Account!Ticks \subseteq Nat /\ clock \in Nat /\ Day \in Nat
  BY AccountTypes, AccountNumbers DEF AccountInvariant
<1>1. ASSUME UNCHANGED reset PROVE R
  BY <1>0, <1>1 DEF Ages
<1>2. ASSUME reset' = Account!RevokeAll PROVE R
  <2>1. \A t \in Account!Ticks :
          reset'[t] = IF reset[t].made THEN [reset[t] EXCEPT !.revoked = TRUE] ELSE reset[t]
    BY <1>2 DEF Account!RevokeAll
  <2>2. \A t \in Account!Ticks : Ages(reset'[t], reset[t]) /\ (reset[t].made => reset'[t].made)
    BY <1>0, <2>1, MadeAfter DEF Ages
  <2>3. reset' \in [Account!Ticks -> Links]
    BY <1>2, <2>2 DEF Account!RevokeAll, Ages
  <2> QED
    BY <2>2, <2>3
<1>3. ASSUME reset' = Account!Pruned PROVE R
  <2>1. \A t \in Account!Ticks : reset'[t] = IF t < clock - Day THEN Account!NoLink ELSE reset[t]
    BY <1>3 DEF Account!Pruned
  <2>2. Account!NoLink \in Links /\ ~Account!NoLink.made
    BY AccountNumbers DEF Account!NoLink, Links
  <2>3. \A t \in Account!Ticks : t < clock - Day => t < clock
    BY <1>0
  <2>4. \A t \in Account!Ticks : Ages(reset'[t], reset[t])
    BY <1>0, <2>1, <2>2 DEF Ages
  <2>5. reset' \in [Account!Ticks -> Links]
    BY <1>3, <2>4 DEF Account!Pruned, Ages
  <2> QED
    BY <2>1, <2>3, <2>4, <2>5
<1>4. ASSUME Account!Unconfirmed PROVE R
  <2>1. mailer.sending \in Account!Ticks
    BY <1>4, AccountTypes DEF AccountInvariant, Account!Unconfirmed, Account!Working, Mailers
  <2>2. reset' = [reset EXCEPT ![mailer.sending] = [reset[mailer.sending] EXCEPT !.revoked = TRUE]]
    BY <1>4 DEF Account!Unconfirmed
  <2>3. \A t \in Account!Ticks : Ages(reset'[t], reset[t]) /\ (reset[t].made => reset'[t].made)
    BY <1>0, <2>1, <2>2, MadeAfter DEF Ages
  <2>4. reset' \in [Account!Ticks -> Links]
    BY <1>0, <2>1, <2>2, MadeAfter
  <2> QED
    BY <2>3, <2>4
<1>5. ASSUME \/ Account!NoMail \/ \E b \in Browsers : Account!RevokeLinks(b)
             \/ \E b \in Browsers, t \in Account!Ticks : Account!Consume(b, t)
      PROVE  R
  BY <1>1, <1>2, <1>3, <1>5 DEF Account!NoMail, Account!RevokeLinks, Account!Consume
<1>6. ASSUME \/ UNCHANGED Account!vars \/ Account!SetPassword
             \/ \E s \in Account!Statuses : Account!SetStatus(s)
             \/ \E i \in Invites : Account!Reinvite(i) \/ Account!InviteExpires(i)
             \/ \E b \in Browsers, p \in 0 .. changes :
                  Account!Login(b, p) \/ Account!ChangePassword(b, p)
             \/ \E b \in Browsers : \/ Account!WrongPassword(b) \/ Account!RegisterFailure(b)
                                    \/ Account!NotActive(b)
                                    \/ Account!ClearFailures(b) \/ Account!SignIn(b)
                                    \/ Account!Changed(b) \/ Account!Logout(b)
                                    \/ Account!AcceptSignIn(b)
             \/ \E b \in Browsers, i \in Invites : Account!Accept(b, i)
             \/ Account!Forgot \/ Account!Sent \/ Account!Tick \/ Account!LockElapses
             \/ Account!Restart
      PROVE  R
  BY <1>1, <1>6
     DEF Account!vars, Account!SetPassword, Account!SetStatus, Account!Reinvite,
        Account!InviteExpires, Account!Login, Account!ChangePassword,
     Account!Enter, Account!WrongPassword, Account!RegisterFailure, Account!NotActive,
     Account!ClearFailures, Account!SignIn, Account!Changed, Account!Logout,
     Account!AcceptSignIn, Account!Accept, Account!Forgot, Account!Sent, Account!Tick,
     Account!LockElapses, Account!Restart
<1>7. R
  BY <1>4, <1>5, <1>6 DEF Account!Next
<1>8. log'.knew = log.knew
  <2>1. ASSUME \/ \E i \in Invites : Account!Reinvite(i) \/ \E b \in Browsers :
                                                              Account!Accept(b, i)
               \/ \E b \in Browsers, t \in Account!Ticks : Account!Consume(b, t)
        PROVE  log'.knew = log.knew
    BY <1>0, <2>1 DEF Account!Reinvite, Account!Accept, Account!Consume, Logs
  <2>2. ASSUME \/ UNCHANGED Account!vars \/ Account!SetPassword
               \/ \E s \in Account!Statuses : Account!SetStatus(s)
               \/ \E i \in Invites : Account!InviteExpires(i)
               \/ \E b \in Browsers, p \in 0 .. changes :
                    Account!Login(b, p) \/ Account!ChangePassword(b, p)
               \/ \E b \in Browsers : \/ Account!WrongPassword(b) \/ Account!RegisterFailure(b)
                                      \/ Account!NotActive(b)
                                      \/ Account!ClearFailures(b) \/ Account!SignIn(b)
                                      \/ Account!Changed(b)
                                      \/ Account!RevokeLinks(b) \/ Account!Logout(b)
                                      \/ Account!AcceptSignIn(b)
               \/ Account!Forgot \/ Account!NoMail \/ Account!Sent \/ Account!Unconfirmed
               \/ Account!Tick \/ Account!LockElapses \/ Account!Restart
        PROVE  log' = log
    BY <2>2
       DEF Account!vars, Account!SetPassword, Account!SetStatus, Account!InviteExpires,
          Account!Login, Account!ChangePassword, Account!Enter,
       Account!WrongPassword, Account!RegisterFailure, Account!NotActive, Account!ClearFailures,
       Account!SignIn, Account!Changed, Account!RevokeLinks,
       Account!Logout, Account!AcceptSignIn, Account!Forgot, Account!NoMail, Account!Sent,
       Account!Unconfirmed, Account!Tick, Account!LockElapses, Account!Restart
  <2> QED
    BY <2>1, <2>2 DEF Account!Next
<1> QED
  BY <1>7, <1>8

LEMMA LinkStep ==
  ASSUME Account!AccountConstants, AccountInvariant, [Account!Next]_Account!vars
  PROVE  /\ reset' \in [Account!Ticks -> Links]
         /\ log'.knew \in [Account!Ticks -> Account!Passwords]
         /\ \A t \in Account!Ticks : reset'[t].made => reset'[t].version = log'.knew[t]
<1>0. /\ reset \in [Account!Ticks -> Links] /\ log \in Logs /\ clock \in Account!Ticks
      /\ \A t \in Account!Ticks : reset[t].made => reset[t].version = log.knew[t]
  BY AccountTypes DEF AccountInvariant
<1>k. log.knew \in [Account!Ticks -> Account!Passwords]
  BY <1>0 DEF Logs
<1>1. CASE Account!Issue
  <2> DEFINE x == [made |-> TRUE, version |-> user.version, revoked |-> FALSE]
  <2>1. /\ reset' = [Account!Pruned EXCEPT ![clock] = x]
        /\ log' = [log EXCEPT !.knew = [log.knew EXCEPT ![clock] = user.password]]
    BY <1>0, <1>1 DEF Account!Issue, Logs
  <2>2. log'.knew = [log.knew EXCEPT ![clock] = user.password]
    BY <1>0, <2>1 DEF Logs
  <2>3. user.version \in Account!Passwords /\ user.password = user.version
    BY AccountTypes DEF AccountInvariant, Account!Rows
  <2>4. x \in Links
    BY <2>3 DEF Links
  <2>5. Account!NoLink \in Links /\ ~Account!NoLink.made
    BY AccountNumbers DEF Account!NoLink, Links
  <2>6. /\ Account!Pruned \in [Account!Ticks -> Links]
        /\ \A t \in Account!Ticks :
             Account!Pruned[t].made => Account!Pruned[t].version = log.knew[t]
    BY <1>0, <2>5 DEF Account!Pruned
  <2>7. x.made /\ x.version = user.password
    BY <2>3
  <2> HIDE DEF x
  <2>8. reset'[clock] = x /\ \A t \in Account!Ticks \ {clock} : reset'[t] = Account!Pruned[t]
    BY <1>0, <2>1, <2>6
  <2>9. log'.knew[clock] = user.password /\ \A t \in Account!Ticks \ {clock} :
                                              log'.knew[t] = log.knew[t]
    BY <1>0, <1>k, <2>2
  <2>10. reset' \in [Account!Ticks -> Links] /\ log'.knew \in [Account!Ticks -> Account!Passwords]
    BY <1>k, <2>1, <2>2, <2>3, <2>4, <2>6
  <2> QED
    BY <2>6, <2>7, <2>8, <2>9, <2>10
<1>2. CASE ~Account!Issue
  BY <1>0, <1>k, <1>2, LinksAge DEF Ages
<1> QED
  BY <1>1, <1>2

LEMMA ClockStep ==
  ASSUME Account!AccountConstants, AccountInvariant, [Account!Next]_Account!vars
  PROVE  clock' \in Account!Ticks /\ clock <= clock'
<1>0. clock \in Account!Ticks /\ End \in Nat
  BY AccountTypes, AccountNumbers DEF AccountInvariant
<1>1. CASE Account!Tick
  BY <1>0, <1>1 DEF Account!Tick, Account!Ticks
<1>2. CASE ~Account!Tick
  <2>1. UNCHANGED clock
    BY <1>2
       DEF Account!Next, Account!vars, Account!SetPassword, Account!SetStatus, Account!Reinvite,
          Account!InviteExpires, Account!Login, Account!ChangePassword,
       Account!Enter, Account!WrongPassword, Account!RegisterFailure, Account!NotActive,
       Account!ClearFailures, Account!SignIn, Account!Changed, Account!RevokeLinks,
       Account!Logout, Account!AcceptSignIn, Account!Accept, Account!Forgot, Account!Issue,
       Account!NoMail, Account!Sent, Account!Unconfirmed, Account!Consume, Account!LockElapses,
       Account!Restart
  <2> QED
    BY <1>0, <2>1 DEF Account!Ticks
<1> QED
  BY <1>1, <1>2

\* A link is followed while it can be used, and revoked with the others.
LEMMA Followed ==
  ASSUME Account!AccountConstants, AccountInvariant, [Account!Next]_Account!vars
  PROVE  /\ \A t \in log'.followed \ log.followed :
              t \in Account!Ticks /\ Account!Usable(t) /\ reset'[t].made /\ reset'[t].revoked
         /\ log.followed \subseteq log'.followed
         /\ log'.recoveries # log.recoveries => log'.followed # log.followed
<1>0. log \in Logs /\ reset \in [Account!Ticks -> Links]
  BY AccountTypes DEF AccountInvariant
<1>1. ASSUME NEW b \in Browsers, NEW t \in Account!Ticks, Account!Consume(b, t)
      PROVE  /\ log'.followed = log.followed \cup {t} /\ t \notin log.followed
             /\ Account!Usable(t) /\ reset'[t].made /\ reset'[t].revoked
  <2>1. log'.followed = log.followed \cup {t} /\ Account!Usable(t) /\ reset' = Account!RevokeAll
    BY <1>0, <1>1 DEF Account!Consume, Logs
  <2>2. reset[t].made /\ ~reset[t].revoked
    BY <2>1 DEF Account!Usable
  <2>3. reset'[t] = [reset[t] EXCEPT !.revoked = TRUE]
    BY <2>1, <2>2 DEF Account!RevokeAll
  <2>4. t \notin log.followed
    BY <2>2 DEF AccountInvariant, Spent
  <2> QED
    BY <2>1, <2>2, <2>3, <2>4, MadeAfter
<1>2. ASSUME \A b \in Browsers, t \in Account!Ticks : ~Account!Consume(b, t)
      PROVE  log'.followed = log.followed /\ log'.recoveries = log.recoveries
  <2>1. ASSUME \/ \E i \in Invites : Account!Reinvite(i) \/ \E b \in Browsers :
                                                              Account!Accept(b, i)
               \/ Account!Issue
        PROVE  log'.followed = log.followed /\ log'.recoveries = log.recoveries
    BY <1>0, <2>1 DEF Account!Reinvite, Account!Accept, Account!Issue, Logs
  <2>2. ASSUME \/ UNCHANGED Account!vars \/ Account!SetPassword
               \/ \E s \in Account!Statuses : Account!SetStatus(s)
               \/ \E i \in Invites : Account!InviteExpires(i)
               \/ \E b \in Browsers, p \in 0 .. changes :
                    Account!Login(b, p) \/ Account!ChangePassword(b, p)
               \/ \E b \in Browsers : \/ Account!WrongPassword(b) \/ Account!RegisterFailure(b)
                                      \/ Account!NotActive(b)
                                      \/ Account!ClearFailures(b) \/ Account!SignIn(b)
                                      \/ Account!Changed(b)
                                      \/ Account!RevokeLinks(b) \/ Account!Logout(b)
                                      \/ Account!AcceptSignIn(b)
               \/ Account!Forgot \/ Account!NoMail \/ Account!Sent \/ Account!Unconfirmed
               \/ Account!Tick \/ Account!LockElapses \/ Account!Restart
        PROVE  log' = log
    BY <2>2
       DEF Account!vars, Account!SetPassword, Account!SetStatus, Account!InviteExpires,
          Account!Login, Account!ChangePassword, Account!Enter,
       Account!WrongPassword, Account!RegisterFailure, Account!NotActive, Account!ClearFailures,
       Account!SignIn, Account!Changed, Account!RevokeLinks,
       Account!Logout, Account!AcceptSignIn, Account!Forgot, Account!NoMail, Account!Sent,
       Account!Unconfirmed, Account!Tick, Account!LockElapses, Account!Restart
  <2> QED
    BY <1>2, <2>1, <2>2 DEF Account!Next
<1> QED
  BY <1>1, <1>2

LEMMA SpentStep ==
  ASSUME Account!AccountConstants, AccountInvariant, [Account!Next]_Account!vars
  PROVE  log'.followed \subseteq Account!Ticks /\ \A t \in log'.followed : Spent(t)'
<1>0. /\ log.followed \subseteq Account!Ticks /\ \A t \in log.followed : Spent(t)
      /\ reset \in [Account!Ticks -> Links] /\ clock \in Account!Ticks
      /\ Account!Ticks \subseteq Nat /\ Day \in Nat
      /\ clock' \in Account!Ticks /\ clock <= clock'
  BY AccountTypes, AccountNumbers, ClockStep DEF AccountInvariant, Logs
<1>1. \A t \in log'.followed \ log.followed : t \in Account!Ticks /\ Spent(t)'
  BY Followed DEF Spent
<1>2. ASSUME NEW t \in log.followed, ~Account!Issue PROVE Spent(t)'
  <2>1. /\ Ages(reset'[t], reset[t]) /\ (reset[t].made /\ ~reset'[t].made => t < clock)
        /\ reset' \in [Account!Ticks -> Links]
    BY <1>0, <1>2, LinksAge
  <2>2. t \in Nat /\ clock \in Nat /\ clock' \in Nat
    BY <1>0
  <2> QED
    BY <1>0, <2>1, <2>2 DEF Ages, Spent
<1>3. ASSUME NEW t \in log.followed, Account!Issue PROVE Spent(t)'
  <2>1. /\ reset' = [Account!Pruned EXCEPT ![clock] = [made |-> TRUE, version |-> user.version,
                                               revoked |-> FALSE]]
        /\ ~Account!Kept(clock) /\ clock' = clock
    BY <1>3 DEF Account!Issue, Account!MayIssue
  <2>2. t \in Account!Ticks /\ t \in Nat /\ clock \in Nat /\ clock >= clock - Day
    <3>1. t \in Account!Ticks /\ clock \in Account!Ticks /\ Account!Ticks \subseteq Nat /\ Day \in Nat
      BY <1>0
    <3> QED
      BY <3>1
  <2>3. t # clock
    BY <1>0, <2>1, <2>2 DEF Account!Kept, Spent
  <2>4. reset'[t] = IF t < clock - Day THEN Account!NoLink ELSE reset[t]
    BY <1>0, <2>1, <2>2, <2>3 DEF Account!Pruned
  <2>5. t < clock - Day => t < clock
    BY <1>0, <2>2
  <2> QED
    BY <1>0, <2>1, <2>4, <2>5 DEF Spent, Account!NoLink
<1> QED
  BY <1>0, <1>1, <1>2, <1>3

\* An invitation that can be accepted was made after the last recovery, which closes all.
LEMMA InviteStep ==
  ASSUME Account!AccountConstants, AccountInvariant, [Account!Next]_Account!vars
  PROVE  /\ invite' \in [Invites -> {"unmade", "open", "used", "expired"}]
         /\ log'.before \in [Invites -> Account!Passwords] /\ log'.recoveries \in Account!Passwords
         /\ log'.recoveries <= changes'
         /\ \A i \in Invites : invite'[i] = "open" => log'.before[i] = log'.recoveries
<1> DEFINE Q == /\ invite' \in [Invites -> {"unmade", "open", "used", "expired"}]
                /\ log'.before \in [Invites -> Account!Passwords]
                /\ log'.recoveries \in Account!Passwords
                /\ log'.recoveries <= changes'
                /\ \A i \in Invites : invite'[i] = "open" => log'.before[i] = log'.recoveries
<1>0. /\ invite \in [Invites -> {"unmade", "open", "used", "expired"}] /\ log \in Logs
      /\ log.before \in [Invites -> Account!Passwords] /\ log.recoveries \in Account!Passwords
      /\ log.recoveries <= changes
      /\ \A i \in Invites : invite[i] = "open" => log.before[i] = log.recoveries
  BY AccountTypes DEF AccountInvariant, Logs
<1>n. /\ changes \in Nat /\ changes' \in Account!Passwords /\ changes' \in Nat
      /\ changes <= changes'
      /\ log.recoveries \in Nat /\ log.recoveries <= changes'
  <2>1. changes \in Nat /\ changes' \in Account!Passwords /\ changes' \in Nat /\ log.recoveries \in Nat
    BY <1>0, AccountTypes, AccountNumbers, UserStep DEF AccountInvariant
  <2>2. changes <= changes'
    BY UserStep
  <2> QED
    BY <1>0, <2>1, <2>2
<1>c. /\ Account!CloseInvites \in [Invites -> {"unmade", "open", "used", "expired"}]
      /\ \A i \in Invites : Account!CloseInvites[i] # "open"
  BY <1>0 DEF Account!CloseInvites
<1>1. ASSUME NEW b \in Browsers, NEW t \in Account!Ticks, Account!Consume(b, t) PROVE Q
  <2>1. /\ invite' = Account!CloseInvites /\ changes' = changes + 1
        /\ log' = [log EXCEPT !.followed = @ \cup {t}, !.recoveries = @ + 1]
    BY <1>1 DEF Account!Consume, Account!Changing
  <2>2. log'.before = log.before /\ log'.recoveries = log.recoveries + 1
    BY <1>0, <2>1 DEF Logs
  <2>3. log'.recoveries <= changes'
    BY <1>0, <1>n, <2>1, <2>2
  <2>4. log'.recoveries \in Account!Passwords
    <3>1. changes' \in 0 .. MaxChanges /\ MaxChanges \in Nat /\ log'.recoveries \in Nat
      BY <1>n, <2>2, AccountNumbers DEF Account!Passwords
    <3> QED
      BY <1>n, <2>3, <3>1 DEF Account!Passwords
  <2> QED
    BY <1>0, <1>c, <2>1, <2>2, <2>3, <2>4
<1>2. ASSUME NEW b \in Browsers, NEW i \in Invites, Account!Accept(b, i) PROVE Q
  <2>1. /\ invite' = Account!CloseInvites /\ log'.before = log.before
        /\ log'.recoveries = log.recoveries
    BY <1>0, <1>2 DEF Account!Accept, Logs
  <2> QED
    BY <1>0, <1>c, <1>n, <2>1
<1>3. ASSUME NEW i \in Invites, Account!Reinvite(i) PROVE Q
  <2>1. /\ invite' = [invite EXCEPT ![i] = "open"]
        /\ log' = [log EXCEPT !.before = [log.before EXCEPT ![i] = log.recoveries]]
    BY <1>0, <1>3 DEF Account!Reinvite, Logs
  <2>2. /\ log'.before = [log.before EXCEPT ![i] = log.recoveries]
        /\ log'.recoveries = log.recoveries
    BY <1>0, <2>1 DEF Logs
  <2> QED
    BY <1>0, <1>n, <2>1, <2>2
<1>4. ASSUME NEW i \in Invites, Account!InviteExpires(i) PROVE Q
  <2>1. invite' = [invite EXCEPT ![i] = "expired"] /\ log' = log
    BY <1>4 DEF Account!InviteExpires
  <2> QED
    BY <1>0, <1>n, <2>1
<1>5. ASSUME Account!Issue PROVE Q
  <2>1. invite' = invite /\ log'.before = log.before /\ log'.recoveries = log.recoveries
    BY <1>0, <1>5 DEF Account!Issue, Logs
  <2> QED
    BY <1>0, <1>n, <2>1
<1>6. ASSUME \/ UNCHANGED Account!vars \/ Account!SetPassword
             \/ \E s \in Account!Statuses : Account!SetStatus(s)
             \/ \E b \in Browsers, p \in 0 .. changes :
                  Account!Login(b, p) \/ Account!ChangePassword(b, p)
             \/ \E b \in Browsers : \/ Account!WrongPassword(b) \/ Account!RegisterFailure(b)
                                    \/ Account!NotActive(b)
                                    \/ Account!ClearFailures(b) \/ Account!SignIn(b)
                                    \/ Account!Changed(b)
                                    \/ Account!RevokeLinks(b) \/ Account!Logout(b)
                                    \/ Account!AcceptSignIn(b)
             \/ Account!Forgot \/ Account!NoMail \/ Account!Sent \/ Account!Unconfirmed
             \/ Account!Tick \/ Account!LockElapses \/ Account!Restart
      PROVE  Q
  <2>1. invite' = invite /\ log' = log
    BY <1>6
       DEF Account!vars, Account!SetPassword, Account!SetStatus, Account!Login,
          Account!ChangePassword, Account!Enter,
       Account!WrongPassword, Account!RegisterFailure, Account!NotActive, Account!ClearFailures,
       Account!SignIn, Account!Changed, Account!RevokeLinks,
       Account!Logout, Account!AcceptSignIn, Account!Forgot, Account!NoMail, Account!Sent,
       Account!Unconfirmed, Account!Tick, Account!LockElapses, Account!Restart
  <2> QED
    BY <1>0, <1>n, <2>1
<1> QED
  BY <1>1, <1>2, <1>3, <1>4, <1>5, <1>6 DEF Account!Next

\* Invitations are used as the log says.
LEMMA Accepted ==
  ASSUME Account!AccountConstants, AccountInvariant, [Account!Next]_Account!vars
  PROVE  /\ log'.accepted \subseteq Invites
         /\ \A i \in log'.accepted \ log.accepted : i \in Invites /\ invite[i] = "open"
<1>0. log \in Logs /\ log.accepted \subseteq Invites
  BY AccountTypes DEF AccountInvariant, Logs
<1>1. ASSUME NEW b \in Browsers, NEW i \in Invites, Account!Accept(b, i)
      PROVE  log'.accepted = log.accepted \cup {i} /\ invite[i] = "open"
  BY <1>0, <1>1 DEF Account!Accept, Logs
<1>2. ASSUME \A b \in Browsers, i \in Invites : ~Account!Accept(b, i)
      PROVE log'.accepted = log.accepted
  <2>1. ASSUME \/ Account!Issue \/ \E i \in Invites : Account!Reinvite(i)
               \/ \E b \in Browsers, t \in Account!Ticks : Account!Consume(b, t)
        PROVE  log'.accepted = log.accepted
    BY <1>0, <2>1 DEF Account!Reinvite, Account!Consume, Account!Issue, Logs
  <2>2. ASSUME \/ UNCHANGED Account!vars \/ Account!SetPassword
               \/ \E s \in Account!Statuses : Account!SetStatus(s)
               \/ \E i \in Invites : Account!InviteExpires(i)
               \/ \E b \in Browsers, p \in 0 .. changes :
                    Account!Login(b, p) \/ Account!ChangePassword(b, p)
               \/ \E b \in Browsers : \/ Account!WrongPassword(b) \/ Account!RegisterFailure(b)
                                      \/ Account!NotActive(b)
                                      \/ Account!ClearFailures(b) \/ Account!SignIn(b)
                                      \/ Account!Changed(b)
                                      \/ Account!RevokeLinks(b) \/ Account!Logout(b)
                                      \/ Account!AcceptSignIn(b)
               \/ Account!Forgot \/ Account!NoMail \/ Account!Sent \/ Account!Unconfirmed
               \/ Account!Tick \/ Account!LockElapses \/ Account!Restart
        PROVE  log' = log
    BY <2>2
       DEF Account!vars, Account!SetPassword, Account!SetStatus, Account!InviteExpires,
          Account!Login, Account!ChangePassword, Account!Enter,
       Account!WrongPassword, Account!RegisterFailure, Account!NotActive, Account!ClearFailures,
       Account!SignIn, Account!Changed, Account!RevokeLinks,
       Account!Logout, Account!AcceptSignIn, Account!Forgot, Account!NoMail, Account!Sent,
       Account!Unconfirmed, Account!Tick, Account!LockElapses, Account!Restart
  <2> QED
    BY <1>2, <2>1, <2>2 DEF Account!Next
<1> QED
  BY <1>0, <1>1, <1>2

LEMMA LogStep ==
  ASSUME Account!AccountConstants, AccountInvariant, [Account!Next]_Account!vars
  PROVE  log' \in Logs
<1> DEFINE Whole(x) == x = [knew |-> x.knew, followed |-> x.followed, recoveries |-> x.recoveries,
                            before |-> x.before, accepted |-> x.accepted]
<1>1. Whole(log')
  <2>1. Whole(log)
    BY AccountTypes DEF AccountInvariant, Logs
  <2>2. ASSUME NEW i \in Invites, Account!Reinvite(i) PROVE Whole(log')
    BY <2>1, <2>2 DEF Account!Reinvite
  <2>3. ASSUME NEW i \in Invites, NEW b \in Browsers, Account!Accept(b, i) PROVE Whole(log')
    BY <2>1, <2>3 DEF Account!Accept
  <2>4. ASSUME Account!Issue PROVE Whole(log')
    <3>1. log' = [log EXCEPT !.knew = [log.knew EXCEPT ![clock] = user.password]]
      BY <2>1, <2>4 DEF Account!Issue
    <3> QED
      BY <2>1, <3>1
  <2>5. ASSUME NEW b \in Browsers, NEW t \in Account!Ticks, Account!Consume(b, t)
        PROVE Whole(log')
    <3>1. log' = [log EXCEPT !.followed = @ \cup {t}, !.recoveries = @ + 1]
      BY <2>5 DEF Account!Consume
    <3> QED
      BY <2>1, <3>1
  <2>6. ASSUME \/ UNCHANGED Account!vars \/ Account!SetPassword
               \/ \E s \in Account!Statuses : Account!SetStatus(s)
               \/ \E i \in Invites : Account!InviteExpires(i)
               \/ \E b \in Browsers, p \in 0 .. changes :
                    Account!Login(b, p) \/ Account!ChangePassword(b, p)
               \/ \E b \in Browsers : \/ Account!WrongPassword(b) \/ Account!RegisterFailure(b)
                                      \/ Account!NotActive(b)
                                      \/ Account!ClearFailures(b) \/ Account!SignIn(b)
                                      \/ Account!Changed(b)
                                      \/ Account!RevokeLinks(b) \/ Account!Logout(b)
                                      \/ Account!AcceptSignIn(b)
               \/ Account!Forgot \/ Account!NoMail \/ Account!Sent \/ Account!Unconfirmed
               \/ Account!Tick \/ Account!LockElapses \/ Account!Restart
        PROVE  log' = log
    BY <2>6
       DEF Account!vars, Account!SetPassword, Account!SetStatus, Account!InviteExpires,
          Account!Login, Account!ChangePassword, Account!Enter,
       Account!WrongPassword, Account!RegisterFailure, Account!NotActive, Account!ClearFailures,
       Account!SignIn, Account!Changed, Account!RevokeLinks,
       Account!Logout, Account!AcceptSignIn, Account!Forgot, Account!NoMail, Account!Sent,
       Account!Unconfirmed, Account!Tick, Account!LockElapses, Account!Restart
  <2> QED
    BY <2>1, <2>2, <2>3, <2>4, <2>5, <2>6 DEF Account!Next
<1>2. /\ log'.knew \in [Account!Ticks -> Account!Passwords]
      /\ log'.followed \subseteq Account!Ticks
      /\ log'.recoveries \in Account!Passwords /\ log'.before \in [Invites -> Account!Passwords]
      /\ log'.accepted \subseteq Invites
  BY LinkStep, SpentStep, InviteStep, Accepted
<1> QED
  BY <1>1, <1>2 DEF Logs

\* A mail that is accepted holds a slot until it was sent or failed.
LEMMA MailStep ==
  ASSUME Account!AccountConstants, AccountInvariant, [Account!Next]_Account!vars
  PROVE  /\ mailer' \in Mailers /\ inbox' \subseteq Account!Ticks
         /\ mailer'.slots = Slots - Len(mailer'.queue) - (IF Account!Working' THEN 1 ELSE 0)
<1> DEFINE Jobs == {"reset", "changed"}
           Busy(m) == IF m.sending # None THEN 1 ELSE 0
           Good(m) == m \in Mailers /\ m.slots = Slots - Len(m.queue) - Busy(m)
           Q == Good(mailer') /\ inbox' \subseteq Account!Ticks
<1>0. /\ Good(mailer) /\ inbox \subseteq Account!Ticks /\ clock \in Account!Ticks /\ Slots \in Nat
      /\ Account!Ticks \subseteq Nat /\ None \notin Nat
  BY AccountTypes, AccountNumbers DEF AccountInvariant, Account!TypeOK, Account!Working
<1>1. /\ mailer.queue \in Seq(Jobs) /\ mailer.sending \in Account!Ticks \cup {None}
      /\ mailer.slots \in 0 .. Slots /\ Len(mailer.queue) \in Nat
  BY <1>0, LenProperties DEF Mailers
<1>n. Slots \in Nat /\ Len(mailer.queue) \in Nat /\ mailer.slots \in Nat
  BY <1>0, <1>1
<1>2. ASSUME UNCHANGED <<mailer, inbox>> PROVE Q
  BY <1>0, <1>2
<1>3. ASSUME NEW job \in Jobs PROVE Good(Account!Submitted(job))
  <2>1. CASE mailer.slots = 0
    BY <1>0, <2>1 DEF Account!Submitted
  <2>2. CASE mailer.slots # 0
    <3> DEFINE q == Append(mailer.queue, job)
               m == [mailer EXCEPT !.queue = q, !.slots = mailer.slots - 1]
    <3>1. Account!Submitted(job) = m
      BY <2>2 DEF Account!Submitted
    <3>2. q \in Seq(Jobs) /\ Len(q) = Len(mailer.queue) + 1
      BY <1>1, <1>3, AppendProperties
    <3> HIDE DEF q
    <3>3. mailer.slots - 1 \in 0 .. Slots
      BY <1>0, <1>1, <2>2
    <3>4. m \in Mailers /\ m.queue = q /\ m.slots = mailer.slots - 1 /\ m.sending = mailer.sending
      BY <1>0, <3>2, <3>3 DEF Mailers
    <3>5. Busy(m) = Busy(mailer) /\ Busy(mailer) \in Int
      BY <3>4
    <3> HIDE DEF m, Busy
    <3>6. m.slots = Slots - Len(m.queue) - Busy(m)
      BY <1>0, <1>1, <3>2, <3>4, <3>5
    <3> QED
      BY <3>1, <3>4, <3>6
  <2> QED
    BY <2>1, <2>2
<1>4. ASSUME Account!Forgot PROVE Q
  BY <1>0, <1>3, <1>4 DEF Account!Forgot
<1>5. ASSUME NEW b \in Browsers, NEW t \in Account!Ticks, Account!Consume(b, t) PROVE Q
  BY <1>0, <1>3, <1>5 DEF Account!Consume
<1>6. ASSUME ~Account!Working, mailer.queue # <<>>
      PROVE  /\ Tail(mailer.queue) \in Seq(Jobs) /\ Len(Tail(mailer.queue)) = Len(mailer.queue) - 1
             /\ mailer.slots + 1 \in 0 .. Slots /\ Len(mailer.queue) > 0
  <2>1. Tail(mailer.queue) \in Seq(Jobs) /\ Len(Tail(mailer.queue)) = Len(mailer.queue) - 1
    BY <1>1, <1>6, HeadTailProperties
  <2>2. Len(mailer.queue) > 0
    BY <1>1, <1>6, EmptySeq
  <2>3. mailer.slots = Slots - Len(mailer.queue)
    BY <1>0, <1>1, <1>6 DEF Account!Working
  <2>4. mailer.slots + 1 <= Slots
    BY <1>n, <2>2, <2>3
  <2> QED
    BY <1>n, <2>1, <2>2, <2>4
<1>7. ASSUME Account!Issue PROVE Q
  <2> DEFINE q == Tail(mailer.queue)
             m == [mailer EXCEPT !.queue = q, !.sending = clock]
  <2>1. mailer' = m /\ inbox' = inbox /\ ~Account!Working /\ mailer.queue # <<>>
    BY <1>0, <1>7 DEF Account!Issue, Account!Taken, Mailers
  <2>2. q \in Seq(Jobs) /\ Len(q) = Len(mailer.queue) - 1
    BY <1>6, <2>1
  <2> HIDE DEF q
  <2>3. m \in Mailers /\ m.queue = q /\ m.sending = clock /\ m.slots = mailer.slots
    BY <1>0, <2>2 DEF Mailers
  <2> HIDE DEF m
  <2>4. m.slots = Slots - Len(m.queue) - 1 /\ m.sending # None
    BY <1>0, <1>1, <2>1, <2>2, <2>3 DEF Account!Working
  <2> QED
    BY <1>0, <2>1, <2>3, <2>4
<1>8. ASSUME Account!NoMail PROVE Q
  <2> DEFINE q == Tail(mailer.queue)
             m == [mailer EXCEPT !.queue = q, !.slots = mailer.slots + 1]
  <2>1. mailer' = m /\ inbox' = inbox /\ ~Account!Working /\ mailer.queue # <<>>
    BY <1>0, <1>8 DEF Account!NoMail, Account!Taken, Mailers
  <2>2. q \in Seq(Jobs) /\ Len(q) = Len(mailer.queue) - 1 /\ mailer.slots + 1 \in 0 .. Slots
    BY <1>6, <2>1
  <2> HIDE DEF q
  <2>3. m \in Mailers /\ m.queue = q /\ m.sending = mailer.sending /\ m.slots = mailer.slots + 1
    BY <1>0, <2>2 DEF Mailers
  <2> HIDE DEF m
  <2>4. m.slots = Slots - Len(m.queue) /\ m.sending = None
    BY <1>0, <1>1, <2>1, <2>2, <2>3 DEF Account!Working
  <2>5. Slots - Len(m.queue) = Slots - Len(m.queue) - 0
    BY <1>0, <1>1, <2>2, <2>3
  <2> QED
    BY <1>0, <2>1, <2>3, <2>4, <2>5
<1>9. ASSUME Account!Sent \/ Account!Unconfirmed PROVE Q
  <2> DEFINE m == [mailer EXCEPT !.sending = None, !.slots = mailer.slots + 1]
  <2>1. mailer' = m /\ Account!Working /\ inbox' \in {inbox, Account!Delivered}
    BY <1>9 DEF Account!Sent, Account!Unconfirmed
  <2>2. mailer.sending \in Account!Ticks /\ mailer.slots = Slots - Len(mailer.queue) - 1
    BY <1>0, <1>1, <2>1 DEF Account!Working
  <2>3. inbox' \subseteq Account!Ticks
    BY <1>0, <2>1, <2>2 DEF Account!Delivered
  <2>4. mailer.slots + 1 \in 0 .. Slots
    <3>1. mailer.slots + 1 <= Slots
      BY <1>n, <2>2
    <3> QED
      BY <1>n, <3>1
  <2>5. m \in Mailers /\ m.queue = mailer.queue /\ m.sending = None /\ m.slots = mailer.slots + 1
    BY <1>0, <2>4 DEF Mailers
  <2> HIDE DEF m
  <2>6. m.slots = Slots - Len(m.queue) - 0
    BY <1>0, <1>1, <2>2, <2>5
  <2> QED
    BY <2>1, <2>3, <2>5, <2>6
<1>10. ASSUME Account!Restart PROVE Q
  <2> DEFINE m == [queue |-> <<>>, sending |-> None, slots |-> Slots]
  <2>1. mailer' = m /\ inbox' \in {inbox, Account!Delivered} /\ (inbox' # inbox => Account!Working)
    BY <1>10 DEF Account!Restart
  <2>2. inbox' \subseteq Account!Ticks
    BY <1>0, <1>1, <2>1 DEF Account!Delivered, Account!Working
  <2>3. <<>> \in Seq(Jobs) /\ Len(<<>>) = 0 /\ Slots \in 0 .. Slots /\ Slots = Slots - 0 - 0
    BY <1>0
  <2>4. m \in Mailers
    BY <2>3 DEF Mailers
  <2> QED
    BY <2>1, <2>2, <2>3, <2>4
<1>11. ASSUME \/ UNCHANGED Account!vars \/ Account!SetPassword
              \/ \E s \in Account!Statuses : Account!SetStatus(s)
              \/ \E i \in Invites : Account!Reinvite(i) \/ Account!InviteExpires(i)
              \/ \E b \in Browsers, p \in 0 .. changes :
                   Account!Login(b, p) \/ Account!ChangePassword(b, p)
              \/ \E b \in Browsers : \/ Account!WrongPassword(b) \/ Account!RegisterFailure(b)
                                     \/ Account!NotActive(b)
                                     \/ Account!ClearFailures(b) \/ Account!SignIn(b)
                                     \/ Account!Changed(b)
                                     \/ Account!RevokeLinks(b) \/ Account!Logout(b)
                                     \/ Account!AcceptSignIn(b)
              \/ \E b \in Browsers, i \in Invites : Account!Accept(b, i)
              \/ Account!Tick \/ Account!LockElapses
       PROVE  Q
  BY <1>2, <1>11
     DEF Account!vars, Account!SetPassword, Account!SetStatus, Account!Reinvite,
        Account!InviteExpires, Account!Login, Account!ChangePassword,
     Account!Enter, Account!WrongPassword, Account!RegisterFailure, Account!NotActive,
     Account!ClearFailures, Account!SignIn, Account!Changed, Account!RevokeLinks,
     Account!Logout, Account!AcceptSignIn, Account!Accept, Account!Tick, Account!LockElapses
<1>12. Q
  <2> HIDE DEF Q
  <2> QED
    BY <1>4, <1>5, <1>7, <1>8, <1>9, <1>10, <1>11 DEF Account!Next
<1> QED
  BY <1>12 DEF Account!Working

-----------------------------------------------------------------------------
(* The invariant                                                            *)

LEMMA AccountInductive ==
  ASSUME Account!AccountConstants, AccountInvariant, [Account!Next]_Account!vars
  PROVE  AccountInvariant'
<1>1. Account!TypeOK'
  BY UserStep, RequestStep, SessionStep, LinkStep, ClockStep, InviteStep, LogStep, MailStep
     DEF Account!TypeOK, Links, Requests, Cookies, Logs, Mailers
<1> QED
  BY <1>1, UserStep, RequestStep, SessionStep, LinkStep, SpentStep, InviteStep
     DEF AccountInvariant

\* The types of the account's state, and every slot of the mailer is with a mail or free
\* (the bounded queue of ui/recovery.py).
THEOREM AccountTypeCorrect ==
  ASSUME Account!AccountConstants
  PROVE  Account!Spec => []Account!TypeOK
<1>1. AccountInvariant => Account!TypeOK
  BY DEF AccountInvariant
<1> QED
  BY <1>1, InitAccount, AccountInductive, PTL DEF Account!Spec

\* A session that signing in opened and that still holds was opened with the password in
\* force: the version taken from the row that was read before the password was hashed
\* (ui/auth.py), whatever changed the password meanwhile.
THEOREM SessionsAreCurrent ==
  ASSUME Account!AccountConstants
  PROVE  Account!Spec => []SessionsKnowPassword
<1>1. AccountInvariant => SessionsKnowPassword
  BY DEF AccountInvariant, SessionsKnowPassword, Account!SessionsKnowPassword, Account!Live
<1> QED
  BY <1>1, InitAccount, AccountInductive, PTL DEF Account!Spec

\* A link followed was sent for the password it replaces and never followed before, and
\* an invitation accepted was made after the last recovery: PasswordResetRepo.consume
\* and the acceptance check again in the transaction that uses them.
THEOREM OldLinksAreDead == ASSUME Account!AccountConstants PROVE Account!Spec => OldLinksDie
<1> DEFINE A == /\ \A t \in log'.followed \ log.followed : log.knew[t] = user.password
                /\ log'.recoveries # log.recoveries => log'.followed # log.followed
                /\ \A i \in log'.accepted \ log.accepted : log.before[i] = log.recoveries
<1>1. ASSUME AccountInvariant, [Account!Next]_Account!vars PROVE [A]_Account!vars
  <2>1. \A t \in log'.followed \ log.followed : log.knew[t] = user.password
    BY <1>1, Followed DEF Account!Usable, AccountInvariant
  <2>2. \A i \in log'.accepted \ log.accepted : log.before[i] = log.recoveries
    BY <1>1, Accepted DEF AccountInvariant
  <2> QED
    BY <1>1, <2>1, <2>2, Followed
<1> QED
  BY <1>1, InitAccount, AccountInductive, PTL DEF Account!Spec, OldLinksDie, Account!OldLinksDie
=============================================================================
