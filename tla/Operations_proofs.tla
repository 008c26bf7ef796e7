-------------------------- MODULE Operations_proofs --------------------------
(***************************************************************************)
(* Proofs about AlertEmail, ComboCatalog, Backups and Releases, for every  *)
(* value of their constants that EmailConstants, CatalogAssumption,        *)
(* BackupConstants and ReleasesAssumption admit.                           *)
(***************************************************************************)
EXTENDS Operations, FiniteSetTheorems, SequenceTheorems, WellFoundedInduction, TLAPS

-----------------------------------------------------------------------------
(* Alert email                                                              *)

\* A run that posts, waits or reports has claimed the alert it is about.
Drains(r) ==
    /\ run[r].phase # "idle" => run[r].config \in Settings
    /\ run[r].phase \in {"posting", "waiting", "refused", "accepted"} =>
         run[r].alert \in Alerts /\ Attempted(run[r].alert)

\* A request carries the payload of the first claim, and a run waits for one answer.
Requested(m) ==
    /\ m.payload = outbox[m.alert].payload
    /\ m.from # None => run[m.from].phase = "waiting"
    /\ \A n \in network : m.from # None /\ n.from = m.from => n = m

Tied ==
    /\ TypeOK
    /\ \A r \in Runs : Drains(r)
    /\ \A m \in network : Requested(m)

OutboxRows == [acknowledged : BOOLEAN, review : BOOLEAN, accepted : BOOLEAN,
         payload : Settings \cup {None}, age : 0..Review,
         lease : Runs \cup {None}, leased : 0..Lease,
         wait : Nat, attempts : 0..Len(Backoff)]
Processes == [phase : {"idle", "draining", "posting", "waiting", "refused", "accepted"},
              todo : SUBSET Alerts, alert : Alerts \cup {None}, claims : 0..Limit,
              config : Settings \cup {None}, age : 0..Delay]
Messages == [alert : Alerts, payload : Settings, age : 0..Delay, from : Runs \cup {None}]

-----------------------------------------------------------------------------
(* Types                                                                    *)

LEMMA LeastIn ==
  ASSUME EmailConstants, NEW S \in SUBSET Alerts, S # {}
  PROVE  Least(S) \in S
<1>1. S \subseteq Nat
  BY DEF EmailConstants
<1> DEFINE Below == {p \in Nat \X Nat : p[1] < p[2]}
<1>2. IsWellFoundedOn(Below, Nat)
  BY NatLessThanWellFounded DEF OpToRel
<1>3. \A x \in Nat, y \in Nat : y < x => <<y, x>> \in Below
  OBVIOUS
<1> HIDE DEF Below
<1>4. \E x \in S : \A y \in S : <<y, x>> \notin Below
  BY <1>1, <1>2, WFMin
<1>5. PICK x \in S : \A y \in S : x <= y
  <2>1. PICK x \in S : \A y \in S : <<y, x>> \notin Below
    BY <1>4
  <2>2. \A y \in S : ~(y < x)
    BY <1>1, <1>3, <2>1
  <2>3. \A y \in S : x <= y
    BY <1>1, <2>2
  <2> QED
    BY <2>3
<1> QED
  BY <1>5 DEF Least

LEMMA Constants ==
  ASSUME EmailConstants
  PROVE  /\ None \notin Runs /\ None \notin Settings
         /\ Limit \in Nat /\ Limit > 0 /\ Lease \in Nat /\ Lease > 0 /\ Delay \in Nat
         /\ Review \in Nat /\ Review > 0 /\ Window \in Nat /\ Window > 0
         /\ Review + Delay < Window
         /\ Len(Backoff) \in Nat /\ Len(Backoff) > 0
         /\ \A k \in 1..Len(Backoff) : Backoff[k] \in Nat
  BY DEF EmailConstants

LEMMA InitTied == ASSUME EmailConstants, Init PROVE Tied
  BY Constants DEF Init, Tied, TypeOK, Drains, Pending, NoRun, Attempted

\* Type correctness of a row and of a process, step by step.
LEMMA RowTypes ==
  ASSUME EmailConstants, TypeOK, NEW a \in Alerts
  PROVE  /\ outbox[a] \in OutboxRows
         /\ outbox[a].accepted => outbox[a].acknowledged
         /\ outbox[a].attempts > 0 <=> Attempted(a)
<1>1. outbox[a] \in OutboxRows
  BY DEF TypeOK, OutboxRows
<1>2. outbox[a].accepted => outbox[a].acknowledged
  BY DEF TypeOK
<1>3. outbox[a].attempts > 0 <=> Attempted(a)
  BY DEF TypeOK
<1> QED
  BY <1>1, <1>2, <1>3

\* Setting one field of a row.
LEMMA SetFlags ==
  ASSUME NEW q \in OutboxRows, NEW v \in BOOLEAN
  PROVE  LET a == [q EXCEPT !.acknowledged = v]
             b == [q EXCEPT !.review = v]
             c == [q EXCEPT !.accepted = v]
         IN /\ a \in OutboxRows /\ b \in OutboxRows /\ c \in OutboxRows
            /\ a.acknowledged = v /\ b.acknowledged = q.acknowledged
            /\ c.acknowledged = q.acknowledged
            /\ c.accepted = v /\ a.accepted = q.accepted /\ b.accepted = q.accepted
            /\ \A d \in {a, b, c} :
                 /\ d.payload = q.payload /\ d.attempts = q.attempts /\ d.age = q.age
                 /\ d.lease = q.lease /\ d.leased = q.leased
  BY DEF OutboxRows

LEMMA SetPayload ==
  ASSUME NEW q \in OutboxRows, NEW v \in Settings \cup {None}
  PROVE  LET d == [q EXCEPT !.payload = v]
         IN /\ d \in OutboxRows /\ d.acknowledged = q.acknowledged /\ d.accepted = q.accepted
            /\ d.payload = v /\ d.attempts = q.attempts /\ d.age = q.age
            /\ d.lease = q.lease /\ d.leased = q.leased /\ d.wait = q.wait
  BY DEF OutboxRows

LEMMA SetAge ==
  ASSUME NEW q \in OutboxRows, NEW v \in 0..Review
  PROVE  LET d == [q EXCEPT !.age = v]
         IN /\ d \in OutboxRows /\ d.acknowledged = q.acknowledged /\ d.accepted = q.accepted
            /\ d.payload = q.payload /\ d.attempts = q.attempts /\ d.age = v
            /\ d.lease = q.lease /\ d.leased = q.leased /\ d.wait = q.wait
  BY DEF OutboxRows

LEMMA SetLease ==
  ASSUME NEW q \in OutboxRows, NEW v \in Runs \cup {None}
  PROVE  LET d == [q EXCEPT !.lease = v]
         IN /\ d \in OutboxRows /\ d.acknowledged = q.acknowledged /\ d.accepted = q.accepted
            /\ d.payload = q.payload /\ d.attempts = q.attempts /\ d.age = q.age
            /\ d.lease = v /\ d.leased = q.leased /\ d.wait = q.wait
  BY DEF OutboxRows

LEMMA SetLeased ==
  ASSUME NEW q \in OutboxRows, NEW v \in 0..Lease
  PROVE  LET d == [q EXCEPT !.leased = v]
         IN /\ d \in OutboxRows /\ d.acknowledged = q.acknowledged /\ d.accepted = q.accepted
            /\ d.payload = q.payload /\ d.attempts = q.attempts /\ d.age = q.age
            /\ d.lease = q.lease /\ d.leased = v /\ d.wait = q.wait
  BY DEF OutboxRows

LEMMA SetWait ==
  ASSUME NEW q \in OutboxRows, NEW v \in Nat
  PROVE  LET d == [q EXCEPT !.wait = v]
         IN /\ d \in OutboxRows /\ d.acknowledged = q.acknowledged /\ d.accepted = q.accepted
            /\ d.payload = q.payload /\ d.attempts = q.attempts /\ d.age = q.age
            /\ d.lease = q.lease /\ d.leased = q.leased
  BY DEF OutboxRows

LEMMA SetAttempts ==
  ASSUME NEW q \in OutboxRows, NEW v \in 0..Len(Backoff)
  PROVE  LET d == [q EXCEPT !.attempts = v]
         IN /\ d \in OutboxRows /\ d.acknowledged = q.acknowledged /\ d.accepted = q.accepted
            /\ d.payload = q.payload /\ d.attempts = v /\ d.age = q.age
            /\ d.lease = q.lease /\ d.leased = q.leased /\ d.wait = q.wait
  BY DEF OutboxRows

\* What a claim, a report and a tick make of a row.
LEMMA ClaimedRow ==
  ASSUME EmailConstants, Tied, NEW a \in Alerts, NEW r \in Runs, run[r].config \in Settings
  PROVE  LET q == Claimed(a, r) IN
         /\ q \in OutboxRows /\ q.attempts > 0 /\ q.payload # None
         /\ q.payload = IF Attempted(a) THEN outbox[a].payload ELSE run[r].config
         /\ q.acknowledged = outbox[a].acknowledged /\ q.accepted = outbox[a].accepted
         /\ q.age = outbox[a].age /\ q.lease = r /\ q.leased = Lease
<1> DEFINE q0 == outbox[a]
           p == IF q0.payload = None THEN run[r].config ELSE q0.payload
           n == IF q0.attempts = Len(Backoff) THEN q0.attempts ELSE q0.attempts + 1
           q1 == [q0 EXCEPT !.payload = p]
           q2 == [q1 EXCEPT !.lease = r]
           q3 == [q2 EXCEPT !.leased = Lease]
           q4 == [q3 EXCEPT !.attempts = n]
<1>1. q0 \in OutboxRows
  BY RowTypes DEF Tied
<1>2. /\ p \in Settings /\ n \in 1..Len(Backoff) /\ p # None
      /\ p = IF Attempted(a) THEN q0.payload ELSE run[r].config
  <2>1. q0.payload \in Settings \cup {None} /\ q0.attempts \in 0..Len(Backoff)
    BY <1>1 DEF OutboxRows
  <2> QED
    BY <2>1, Constants DEF Attempted
<1>3. q3.attempts = q0.attempts /\ q4 = Claimed(a, r)
  BY <1>1 DEF Claimed, OutboxRows
<1> HIDE DEF p, n
<1>4. q1 \in OutboxRows /\ q1.payload = p /\ q1.acknowledged = q0.acknowledged
      /\ q1.accepted = q0.accepted /\ q1.age = q0.age
  BY <1>1, <1>2, SetPayload
<1> HIDE DEF q1
<1>5. q2 \in OutboxRows /\ q2.payload = p /\ q2.acknowledged = q0.acknowledged
      /\ q2.accepted = q0.accepted /\ q2.age = q0.age /\ q2.lease = r
  BY <1>4, SetLease
<1> HIDE DEF q2
<1>6. q3 \in OutboxRows /\ q3.payload = p /\ q3.acknowledged = q0.acknowledged
      /\ q3.accepted = q0.accepted /\ q3.age = q0.age /\ q3.lease = r /\ q3.leased = Lease
  BY <1>5, SetLeased, Constants
<1> HIDE DEF q3
<1>7. q4 \in OutboxRows /\ q4.payload = p /\ q4.acknowledged = q0.acknowledged /\ q4.attempts = n
      /\ q4.accepted = q0.accepted /\ q4.age = q0.age /\ q4.lease = r /\ q4.leased = Lease
  BY <1>2, <1>6, SetAttempts
<1>8. n > 0
  BY <1>2, Constants
<1> QED
  BY <1>2, <1>3, <1>7, <1>8

LEMMA ReportedRow ==
  ASSUME EmailConstants, Tied, NEW a \in Alerts, Attempted(a),
         NEW q \in {Confirmed(a), Unconfirmed(a)}
  PROVE  /\ q \in OutboxRows /\ q.attempts = outbox[a].attempts /\ q.payload = outbox[a].payload
         /\ q.age = outbox[a].age /\ (q.accepted => q.acknowledged)
         /\ q.lease = outbox[a].lease /\ q.leased = 0
<1> DEFINE q0 == outbox[a]
<1>1. q0 \in OutboxRows /\ q0.attempts \in 1..Len(Backoff) /\ (q0.accepted => q0.acknowledged)
  <2>1. q0 \in OutboxRows /\ q0.attempts > 0 /\ (q0.accepted => q0.acknowledged)
    BY RowTypes DEF Tied
  <2> QED
    BY <2>1, Constants DEF OutboxRows
<1>2. Backoff[q0.attempts] \in Nat /\ 0 \in 0..Lease
  BY <1>1, Constants
<1>3. CASE q = Confirmed(a)
  <2> DEFINE q1 == [q0 EXCEPT !.accepted = TRUE]
             q2 == [q1 EXCEPT !.acknowledged = TRUE]
             q3 == [q2 EXCEPT !.leased = 0]
  <2>0. q = q3
    BY <1>3 DEF Confirmed
  <2>1. /\ q1 \in OutboxRows /\ q1.payload = q0.payload /\ q1.attempts = q0.attempts
        /\ q1.age = q0.age /\ q1.lease = q0.lease
    BY <1>1, SetFlags
  <2> HIDE DEF q1
  <2>2. /\ q2 \in OutboxRows /\ q2.payload = q0.payload /\ q2.attempts = q0.attempts
        /\ q2.age = q0.age /\ q2.lease = q0.lease /\ q2.acknowledged = TRUE
    BY <2>1, SetFlags
  <2> HIDE DEF q2
  <2>3. /\ q3 \in OutboxRows /\ q3.payload = q0.payload /\ q3.attempts = q0.attempts
        /\ q3.age = q0.age /\ q3.lease = q0.lease /\ q3.acknowledged = TRUE /\ q3.leased = 0
    BY <1>2, <2>2, SetLeased
  <2> QED
    BY <2>0, <2>3
<1>4. CASE q = Unconfirmed(a)
  <2> DEFINE q1 == [q0 EXCEPT !.wait = Backoff[q0.attempts]]
             q2 == [q1 EXCEPT !.leased = 0]
  <2>0. q = q2
    BY <1>4 DEF Unconfirmed
  <2>1. /\ q1 \in OutboxRows /\ q1.payload = q0.payload /\ q1.attempts = q0.attempts
        /\ q1.age = q0.age /\ q1.lease = q0.lease
        /\ q1.acknowledged = q0.acknowledged /\ q1.accepted = q0.accepted
    BY <1>1, <1>2, SetWait
  <2> HIDE DEF q1
  <2>2. /\ q2 \in OutboxRows /\ q2.payload = q0.payload /\ q2.attempts = q0.attempts
        /\ q2.age = q0.age /\ q2.lease = q0.lease /\ q2.leased = 0
        /\ q2.acknowledged = q0.acknowledged /\ q2.accepted = q0.accepted
    BY <1>2, <2>1, SetLeased
  <2> QED
    BY <1>1, <2>0, <2>2
<1> QED
  BY <1>3, <1>4

LEMMA AgedRow ==
  ASSUME EmailConstants, Tied, NEW a \in Alerts, Tick
  PROVE  /\ outbox'[a] \in OutboxRows /\ outbox'[a].payload = outbox[a].payload
         /\ outbox'[a].attempts = outbox[a].attempts
         /\ outbox'[a].accepted = outbox[a].accepted
         /\ outbox'[a].acknowledged = outbox[a].acknowledged
         /\ outbox'[a].age = IF Attempted(a) /\ outbox[a].age < Review
                             THEN outbox[a].age + 1 ELSE outbox[a].age
         /\ outbox'[a].lease = outbox[a].lease /\ outbox'[a].leased = Down(outbox[a].leased)
<1> DEFINE q0 == outbox[a]
           n == IF Attempted(a) /\ q0.age < Review THEN q0.age + 1 ELSE q0.age
           q1 == [q0 EXCEPT !.age = n]
           q2 == [q1 EXCEPT !.leased = Down(q0.leased)]
           q3 == [q2 EXCEPT !.wait = Down(q0.wait)]
<1>1. q0 \in OutboxRows
  BY RowTypes DEF Tied
<1>2. n \in 0..Review /\ Down(q0.leased) \in 0..Lease /\ Down(q0.wait) \in Nat
  <2>1. q0.age \in 0..Review /\ q0.leased \in 0..Lease /\ q0.wait \in Nat
    BY <1>1 DEF OutboxRows
  <2>2. n \in 0..Review
    BY <2>1, Constants
  <2>3. \A k \in Nat : \A c \in 0..k : Down(c) \in 0..k
    BY DEF Down
  <2>4. \A k \in Nat : Down(k) \in Nat
    BY DEF Down
  <2> QED
    BY <2>1, <2>2, <2>3, <2>4, Constants
<1>3. outbox'[a] = [q0 EXCEPT !.age = IF Attempted(a) /\ @ < Review THEN @ + 1 ELSE @,
                              !.leased = Down(@), !.wait = Down(@)]
  BY DEF Tick
<1>4. q1.leased = q0.leased /\ q2.wait = q0.wait
  BY <1>1 DEF OutboxRows
<1>5. outbox'[a] = q3
  BY <1>3, <1>4
<1> HIDE DEF n
<1>6. /\ q1 \in OutboxRows /\ q1.payload = q0.payload /\ q1.attempts = q0.attempts /\ q1.age = n
      /\ q1.lease = q0.lease /\ q1.acknowledged = q0.acknowledged /\ q1.accepted = q0.accepted
  BY <1>1, <1>2, SetAge
<1> HIDE DEF q1
<1>7. /\ q2 \in OutboxRows /\ q2.payload = q0.payload /\ q2.attempts = q0.attempts /\ q2.age = n
      /\ q2.lease = q0.lease /\ q2.acknowledged = q0.acknowledged /\ q2.accepted = q0.accepted
      /\ q2.leased = Down(q0.leased)
  BY <1>2, <1>6, SetLeased
<1> HIDE DEF q2
<1>8. /\ q3 \in OutboxRows /\ q3.payload = q0.payload /\ q3.attempts = q0.attempts /\ q3.age = n
      /\ q3.lease = q0.lease /\ q3.acknowledged = q0.acknowledged /\ q3.accepted = q0.accepted
      /\ q3.leased = Down(q0.leased)
  BY <1>2, <1>7, SetWait
<1> QED
  BY <1>5, <1>8 DEF n

\* The request a run waits for is forgotten, not lost.
LEMMA UnheardMessages ==
  ASSUME EmailConstants, Tied, NEW r \in Runs, NEW m \in Unheard(r)
  PROVE  /\ m \in Messages
         /\ m.from # r /\ m.from # None => m \in network
         /\ m.from # r
         /\ \E n \in network : n.alert = m.alert /\ n.payload = m.payload /\ n.age = m.age
<1>1. PICK n \in network : m = IF n.from = r THEN [n EXCEPT !.from = None] ELSE n
  BY DEF Unheard
<1>2. n \in Messages
  BY DEF Tied, TypeOK, Messages
<1> QED
  BY <1>1, <1>2, Constants DEF Messages

\* The run about to claim, and its alert.
LEMMA NextAlert ==
  ASSUME EmailConstants, Tied, NEW r \in Runs, CanClaim(r)
  PROVE  /\ Next1(r) \in Alerts /\ run[r].config \in Settings
         /\ run[r] \in Processes /\ run[r].claims < Limit
<1>1. run[r] \in Processes
  BY DEF Tied, TypeOK, Processes
<1>2. run[r].todo \in SUBSET Alerts /\ run[r].todo # {}
  BY <1>1 DEF CanClaim, Processes
<1>3. Next1(r) \in Alerts
  BY <1>2, LeastIn DEF Next1
<1> QED
  BY <1>1, <1>3 DEF Tied, Drains, CanClaim

\* What a step does to the outbox and to a row.
Remains == outbox' = [a \in Alerts |-> outbox'[a]]

RowStepped(a) ==
    /\ outbox'[a] \in OutboxRows
    /\ outbox'[a].accepted => outbox'[a].acknowledged
    /\ outbox'[a].attempts > 0 <=> outbox'[a].payload # None
    /\ Attempted(a) => outbox'[a].payload = outbox[a].payload
    /\ outbox'[a].age = outbox[a].age \/ Tick

LEMMA RowStays ==
  ASSUME EmailConstants, Tied, NEW a \in Alerts, outbox'[a] = outbox[a]
  PROVE  RowStepped(a)
  BY RowTypes DEF Tied, RowStepped, Attempted

LEMMA RowStep ==
  ASSUME EmailConstants, Tied, [Next]_vars
  PROVE  Remains /\ \A a \in Alerts : RowStepped(a)
<1>0. TypeOK /\ outbox \in [Alerts -> OutboxRows]
  BY DEF Tied, TypeOK, OutboxRows
<1>r. \A a \in Alerts : /\ outbox[a] \in OutboxRows
                        /\ (outbox[a].accepted => outbox[a].acknowledged)
                        /\ (outbox[a].attempts > 0 <=> outbox[a].payload # None)
  BY <1>0, RowTypes DEF Attempted
<1>1. CASE UNCHANGED outbox
  BY <1>0, <1>1, RowStays DEF Remains
<1>2. ASSUME NEW a \in Alerts, NEW q \in OutboxRows,
             outbox' = [outbox EXCEPT ![a] = q], q.accepted => q.acknowledged,
             q.attempts > 0 <=> q.payload # None,
             Attempted(a) => q.payload = outbox[a].payload, q.age = outbox[a].age
      PROVE  Remains /\ \A b \in Alerts : RowStepped(b)
  <2>1. outbox'[a] = q /\ \A b \in Alerts \ {a} : outbox'[b] = outbox[b]
    BY <1>0, <1>2
  <2>2. Remains
    BY <1>0, <1>2 DEF Remains
  <2> QED
    BY <1>0, <1>2, <2>1, <2>2, RowStays DEF RowStepped
<1>3. ASSUME NEW a \in Alerts, Acknowledge(a)
      PROVE  Remains /\ \A b \in Alerts : RowStepped(b)
  <2> DEFINE q == [outbox[a] EXCEPT !.acknowledged = TRUE]
  <2>1. outbox' = [outbox EXCEPT ![a] = q]
    BY <1>0, <1>3 DEF Acknowledge
  <2>2. /\ q \in OutboxRows /\ q.acknowledged = TRUE /\ q.payload = outbox[a].payload
        /\ q.attempts = outbox[a].attempts /\ q.age = outbox[a].age
    BY <1>r, SetFlags
  <2> HIDE DEF q
  <2> QED
    BY <1>2, <1>r, <2>1, <2>2
<1>4. ASSUME NEW r \in Runs, GiveUp(r)
      PROVE  Remains /\ \A b \in Alerts : RowStepped(b)
  <2> DEFINE a == Next1(r)
             q == [outbox[a] EXCEPT !.review = TRUE]
  <2>0. a \in Alerts
    BY <1>4, NextAlert DEF GiveUp
  <2>1. outbox' = [outbox EXCEPT ![a] = q]
    BY <1>0, <1>4 DEF GiveUp
  <2> HIDE DEF a
  <2>2. /\ q \in OutboxRows /\ q.acknowledged = outbox[a].acknowledged
        /\ q.payload = outbox[a].payload
        /\ q.accepted = outbox[a].accepted
        /\ q.attempts = outbox[a].attempts /\ q.age = outbox[a].age
    BY <1>r, <2>0, SetFlags
  <2> HIDE DEF q
  <2> QED
    BY <1>2, <1>r, <2>0, <2>1, <2>2
<1>5. ASSUME NEW r \in Runs, Claim(r)
      PROVE  Remains /\ \A b \in Alerts : RowStepped(b)
  <2> DEFINE a == Next1(r)
             q == Claimed(a, r)
  <2>0. a \in Alerts /\ run[r].config \in Settings
    BY <1>5, NextAlert DEF Claim
  <2>1. outbox' = [outbox EXCEPT ![a] = q]
    BY <1>0, <1>5 DEF Claim
  <2> HIDE DEF a
  <2>2. /\ q \in OutboxRows /\ q.attempts > 0 /\ q.payload # None
        /\ (Attempted(a) => q.payload = outbox[a].payload)
        /\ q.acknowledged = outbox[a].acknowledged /\ q.accepted = outbox[a].accepted
        /\ q.age = outbox[a].age
    BY <2>0, ClaimedRow
  <2> HIDE DEF q
  <2> QED
    BY <1>2, <1>r, <2>0, <2>1, <2>2
<1>6. ASSUME NEW r \in Runs, Record(r)
      PROVE  Remains /\ \A b \in Alerts : RowStepped(b)
  <2>1. CASE UNCHANGED outbox
    BY <1>1, <2>1
  <2>2. CASE ~UNCHANGED outbox
    <3> DEFINE a == run[r].alert
    <3>0. a \in Alerts /\ Attempted(a)
      BY <1>6 DEF Tied, Drains, Record
    <3>1. PICK q \in {Confirmed(a), Unconfirmed(a)} : outbox' = [outbox EXCEPT ![a] = q]
      BY <1>6, <2>2 DEF Record
    <3> HIDE DEF a
    <3>2. /\ q \in OutboxRows /\ q.attempts = outbox[a].attempts /\ q.payload = outbox[a].payload
          /\ q.age = outbox[a].age /\ (q.accepted => q.acknowledged)
      BY <3>0, ReportedRow
    <3> QED
      BY <1>2, <1>r, <3>0, <3>1, <3>2
  <2> QED
    BY <2>1, <2>2
<1>7. CASE Tick
  <2>1. Remains
    BY <1>7 DEF Tick, Remains
  <2> QED
    BY <1>r, <1>7, <2>1, AgedRow DEF RowStepped
<1>8. ASSUME NEW r \in Runs, StartRun(r) \/ Skip(r) \/ EndRun(r) \/ Post(r) \/ TimeOut(r) \/ Die(r)
      PROVE  UNCHANGED outbox
  BY <1>8 DEF StartRun, Skip, EndRun, Post, TimeOut, Die
<1>9. ASSUME NEW m \in network, Arrive(m) \/ Lose(m) PROVE UNCHANGED outbox
  BY <1>9 DEF Arrive, Lose
<1>10. CASE UNCHANGED vars
  BY <1>1, <1>10 DEF vars
<1> QED
  BY <1>1, <1>3, <1>4, <1>5, <1>6, <1>7, <1>8, <1>9, <1>10 DEF Next, Draining

\* Setting one field of a process.
LEMMA SetPhase ==
  ASSUME NEW p \in Processes, NEW v \in {"draining", "posting", "waiting", "refused", "accepted"}
  PROVE  LET q == [p EXCEPT !.phase = v]
         IN  /\ q \in Processes /\ q.phase = v /\ q.alert = p.alert /\ q.config = p.config
             /\ q.claims = p.claims /\ q.age = p.age
  BY DEF Processes

LEMMA SetTodo ==
  ASSUME NEW p \in Processes, NEW v \in SUBSET Alerts
  PROVE  LET q == [p EXCEPT !.todo = v]
         IN  /\ q \in Processes /\ q.phase = p.phase /\ q.alert = p.alert /\ q.config = p.config
             /\ q.claims = p.claims /\ q.age = p.age
  BY DEF Processes

LEMMA SetAlert ==
  ASSUME NEW p \in Processes, NEW v \in Alerts \cup {None}
  PROVE  LET q == [p EXCEPT !.alert = v]
         IN  /\ q \in Processes /\ q.phase = p.phase /\ q.alert = v /\ q.config = p.config
             /\ q.claims = p.claims /\ q.age = p.age
  BY DEF Processes

LEMMA SetClaims ==
  ASSUME NEW p \in Processes, NEW v \in 0..Limit
  PROVE  LET q == [p EXCEPT !.claims = v]
         IN  /\ q \in Processes /\ q.phase = p.phase /\ q.alert = p.alert /\ q.config = p.config
             /\ q.claims = v /\ q.age = p.age
  BY DEF Processes

LEMMA SetRunAge ==
  ASSUME NEW p \in Processes, NEW v \in 0..Delay
  PROVE  LET q == [p EXCEPT !.age = v]
         IN  /\ q \in Processes /\ q.phase = p.phase /\ q.alert = p.alert /\ q.config = p.config
             /\ q.claims = p.claims /\ q.age = v
  BY DEF Processes

LEMMA NoRunType == ASSUME EmailConstants PROVE NoRun \in Processes /\ NoRun.phase = "idle"
  BY Constants DEF NoRun, Processes

\* What a claim makes of its run.
LEMMA ClaimingRun ==
  ASSUME EmailConstants, Tied, NEW r \in Runs, Claim(r)
  PROVE  /\ run' \in [Runs -> Processes]
         /\ run'[r].phase = "posting" /\ run'[r].alert = Next1(r) /\ run'[r].age = 0
         /\ run'[r].config = run[r].config
         /\ \A q \in Runs \ {r} : run'[q] = run[q]
<1>0. run \in [Runs -> Processes]
  BY DEF Tied, TypeOK, Processes
<1> DEFINE a == Next1(r)
           p0 == run[r]
           p1 == [p0 EXCEPT !.todo = p0.todo \ {a}]
           p2 == [p1 EXCEPT !.phase = "posting"]
           p3 == [p2 EXCEPT !.alert = a]
           p4 == [p3 EXCEPT !.claims = p0.claims + 1]
           p5 == [p4 EXCEPT !.age = 0]
<1>1. a \in Alerts /\ p0 \in Processes /\ p0.claims < Limit
  BY NextAlert DEF Claim
<1>2. p0.claims + 1 \in 0..Limit /\ p0.todo \ {a} \in SUBSET Alerts /\ 0 \in 0..Delay
  BY <1>1, Constants DEF Processes
<1>3. p3.claims = p0.claims
  BY <1>1 DEF Processes
<1>4. run' = [run EXCEPT ![r] = p5]
  BY <1>0, <1>3 DEF Claim, Passed
<1> HIDE DEF a
<1>5. p1 \in Processes /\ p1.config = p0.config
  BY <1>1, <1>2, SetTodo
<1> HIDE DEF p1
<1>6. p2 \in Processes /\ p2.config = p0.config /\ p2.phase = "posting"
  BY <1>5, SetPhase
<1> HIDE DEF p2
<1>7. p3 \in Processes /\ p3.config = p0.config /\ p3.phase = "posting" /\ p3.alert = a
  BY <1>1, <1>6, SetAlert
<1> HIDE DEF p3
<1>8. p4 \in Processes /\ p4.config = p0.config /\ p4.phase = "posting" /\ p4.alert = a
  BY <1>2, <1>7, SetClaims
<1> HIDE DEF p4
<1>9. p5 \in Processes /\ p5.config = p0.config /\ p5.phase = "posting" /\ p5.alert = a /\ p5.age = 0
  BY <1>2, <1>8, SetRunAge
<1> HIDE DEF p5
<1> QED
  BY <1>0, <1>4, <1>9 DEF a

\* What a step may make of a process, except for a claim and time.
Moves(r, p) ==
    /\ p \in Processes
    /\ \/ p.phase = "idle"
       \/ p.phase = "draining" /\ p.config \in Settings
       \/ /\ p.phase \in {"waiting", "refused", "accepted"} /\ p.alert = run[r].alert
          /\ p.config = run[r].config
          /\ run[r].phase \in {"posting", "waiting"}

LEMMA RunCases ==
  ASSUME EmailConstants, Tied, [Next]_vars
  PROVE  \/ UNCHANGED run \/ Tick
         \/ \E r \in Runs : Claim(r)
         \/ \E r \in Runs, p \in Processes : run' = [run EXCEPT ![r] = p] /\ Moves(r, p)
<1>0. run \in [Runs -> Processes] /\ \A r \in Runs : run[r] \in Processes
  BY DEF Tied, TypeOK, Processes
<1>d. \A r \in Runs : Drains(r)
  BY DEF Tied
<1> DEFINE Q == \E r \in Runs, p \in Processes : run' = [run EXCEPT ![r] = p] /\ Moves(r, p)
<1>1. ASSUME NEW r \in Runs, StartRun(r) PROVE Q
  <2> DEFINE A == {a \in Alerts : ~outbox[a].acknowledged}
             P(c) == [NoRun EXCEPT !.phase = "draining", !.config = c, !.todo = A]
  <2>1. PICK c \in Settings : run' = [run EXCEPT ![r] = P(c)]
    BY <1>1 DEF StartRun
  <2>2. A \in SUBSET Alerts
    OBVIOUS
  <2> HIDE DEF A
  <2> DEFINE p1 == [NoRun EXCEPT !.phase = "draining"]
             p2 == [p1 EXCEPT !.config = c]
             p3 == [p2 EXCEPT !.todo = A]
  <2>3. p1 \in Processes /\ p1.phase = "draining"
    BY NoRunType, SetPhase
  <2>4. p2 \in Processes /\ p2.phase = "draining" /\ p2.config = c
    <3> HIDE DEF p1
    <3> QED
      BY <2>1, <2>3 DEF Processes
  <2>5. p3 \in Processes /\ p3.phase = "draining" /\ p3.config = c
    <3> HIDE DEF p2
    <3> QED
      BY <2>2, <2>4, SetTodo
  <2>6. run' = [run EXCEPT ![r] = p3]
    BY <2>1
  <2> HIDE DEF p3
  <2>7. Moves(r, p3)
    BY <2>1, <2>5 DEF Moves
  <2> QED
    BY <2>5, <2>6, <2>7
<1>2. ASSUME NEW r \in Runs, Skip(r) \/ GiveUp(r) PROVE Q
  <2> DEFINE p == [run[r] EXCEPT !.todo = run[r].todo \ {Next1(r)}]
  <2>1. run' = [run EXCEPT ![r] = p]
    BY <1>2 DEF Skip, GiveUp, Passed
  <2>2. run[r].phase = "draining" /\ run[r].todo \ {Next1(r)} \in SUBSET Alerts
    BY <1>0, <1>2 DEF Skip, GiveUp, CanClaim, Processes
  <2>3. p \in Processes /\ p.phase = "draining" /\ p.config = run[r].config
    BY <1>0, <2>2, SetTodo
  <2>4. Moves(r, p)
    BY <1>d, <2>2, <2>3 DEF Moves, Drains
  <2> QED
    BY <2>1, <2>3, <2>4
<1>3. ASSUME NEW r \in Runs, run' = [run EXCEPT ![r] = NoRun] PROVE Q
  BY <1>3, NoRunType DEF Moves
<1>4. ASSUME NEW r \in Runs, NEW phase \in {"waiting", "refused", "accepted"},
             run[r].phase \in {"posting", "waiting"}, run' = [run EXCEPT ![r].phase = phase]
      PROVE  Q
  <2> DEFINE p == [run[r] EXCEPT !.phase = phase]
  <2>1. run' = [run EXCEPT ![r] = p]
    BY <1>4
  <2>a. phase \in {"draining", "posting", "waiting", "refused", "accepted"}
    OBVIOUS
  <2>b. run[r] \in Processes
    BY <1>0
  <2>2. p \in Processes /\ p.phase = phase /\ p.alert = run[r].alert /\ p.config = run[r].config
    BY <2>a, <2>b, SetPhase
  <2> HIDE DEF p
  <2>3. Moves(r, p)
    BY <1>4, <2>2 DEF Moves
  <2> QED
    BY <2>1, <2>2, <2>3
<1>5. ASSUME NEW r \in Runs, Post(r) \/ TimeOut(r) PROVE Q
  BY <1>4, <1>5 DEF Post, TimeOut
<1>6. ASSUME NEW r \in Runs, Record(r) PROVE Q
  <2>1. CASE run' = [run EXCEPT ![r].phase = "draining", ![r].alert = None]
    <3> DEFINE p1 == [run[r] EXCEPT !.phase = "draining"]
               p2 == [p1 EXCEPT !.alert = None]
    <3>1. run' = [run EXCEPT ![r] = p2]
      BY <1>0, <2>1
    <3>2. p1 \in Processes /\ p1.phase = "draining" /\ p1.config = run[r].config
      BY <1>0, SetPhase
    <3> HIDE DEF p1
    <3>3. p2 \in Processes /\ p2.phase = "draining" /\ p2.config = run[r].config
      BY <3>2, SetAlert
    <3>4. Moves(r, p2)
      BY <1>6, <1>d, <3>3 DEF Moves, Drains, Record
    <3> QED
      BY <3>1, <3>3, <3>4
  <2> QED
    BY <1>3, <1>6, <2>1 DEF Record
<1>7. ASSUME NEW m \in network, Arrive(m) \/ Lose(m) PROVE UNCHANGED run \/ Q
  <2>1. CASE m.from = None
    BY <1>7, <2>1 DEF Arrive, Lose
  <2>2. CASE m.from # None
    <3>1. m.from \in Runs /\ run[m.from].phase = "waiting"
      BY <2>2 DEF Tied, TypeOK, Requested
    <3> QED
      BY <1>4, <1>7, <2>2, <3>1 DEF Arrive, Lose
  <2> QED
    BY <2>1, <2>2
<1>8. ASSUME NEW a \in Alerts, Acknowledge(a) PROVE UNCHANGED run
  BY <1>8 DEF Acknowledge
<1>9. CASE UNCHANGED vars
  BY <1>9 DEF vars
<1> QED
  BY <1>1, <1>2, <1>3, <1>5, <1>6, <1>7, <1>8, <1>9 DEF Next, Draining, EndRun, Die

\* Time for the runs.
LEMMA RunsAge ==
  ASSUME EmailConstants, Tied, Tick, NEW r \in Runs
  PROVE  /\ run'[r] \in Processes
         /\ run'[r].phase = run[r].phase /\ run'[r].alert = run[r].alert
         /\ run'[r].config = run[r].config
         /\ run[r].phase = "posting" => run'[r].age = run[r].age + 1
<1>1. run[r] \in Processes /\ run[r].age \in 0..Delay
  BY DEF Tied, TypeOK, Processes
<1>2. CASE run[r].phase = "posting"
  <2>1. run'[r] = [run[r] EXCEPT !.age = run[r].age + 1] /\ run[r].age < Delay
    BY <1>2 DEF Tick
  <2>2. run[r].age + 1 \in 0..Delay
    BY <1>1, <2>1, Constants
  <2> QED
    BY <1>1, <2>1, <2>2, SetRunAge
<1>3. CASE run[r].phase # "posting"
  BY <1>1, <1>3 DEF Tick
<1> QED
  BY <1>2, <1>3

LEMMA RunStep ==
  ASSUME EmailConstants, Tied, [Next]_vars
  PROVE  run' \in [Runs -> Processes] /\ \A r \in Runs : Drains(r)'
<1>0. run \in [Runs -> Processes] /\ \A r \in Runs : Drains(r)
  BY DEF Tied, TypeOK, Processes
<1>1. \A a \in Alerts : Attempted(a) => Attempted(a)'
  BY RowStep DEF RowStepped, Attempted
<1>2. CASE UNCHANGED run
  BY <1>0, <1>1, <1>2 DEF Drains
<1>3. CASE Tick
  <2>1. run' \in [Runs -> Processes]
    <3>1. DOMAIN run' = Runs /\ run' = [r \in Runs |-> run'[r]]
      BY <1>3 DEF Tick
    <3> QED
      BY <1>3, <3>1, RunsAge
  <2> QED
    BY <1>0, <1>1, <1>3, <2>1, RunsAge DEF Drains
<1>4. ASSUME NEW r \in Runs, Claim(r)
      PROVE run' \in [Runs -> Processes] /\ \A q \in Runs : Drains(q)'
  <2>1. Next1(r) \in Alerts /\ run[r].config \in Settings
    BY <1>4, NextAlert DEF Claim
  <2>2. PICK a \in Alerts : a = Next1(r)
    BY <2>1
  <2>3. outbox'[a] = Claimed(a, r)
    BY <1>4, <2>2 DEF Claim, Tied, TypeOK
  <2>4. outbox'[a].payload # None
    BY <2>1, <2>3, ClaimedRow
  <2>5. Attempted(a)'
    BY <2>4 DEF Attempted
  <2>6. /\ run' \in [Runs -> Processes] /\ run'[r].alert = a
        /\ run'[r].config = run[r].config /\ \A q \in Runs \ {r} : run'[q] = run[q]
    BY <1>4, <2>2, ClaimingRun
  <2>7. Drains(r)'
    BY <2>1, <2>5, <2>6 DEF Drains
  <2>8. ASSUME NEW q \in Runs \ {r} PROVE Drains(q)'
    BY <1>0, <1>1, <2>6 DEF Drains
  <2> QED
    BY <2>6, <2>7, <2>8
<1>5. ASSUME NEW r \in Runs, NEW p \in Processes, run' = [run EXCEPT ![r] = p], Moves(r, p)
      PROVE  run' \in [Runs -> Processes] /\ \A q \in Runs : Drains(q)'
  <2>1. run' \in [Runs -> Processes] /\ run'[r] = p /\ \A q \in Runs \ {r} : run'[q] = run[q]
    BY <1>0, <1>5
  <2> QED
    BY <1>0, <1>1, <1>5, <2>1 DEF Drains, Moves
<1> QED
  BY <1>2, <1>3, <1>4, <1>5, RunCases

\* The row of a request keeps the payload the request carries.
LEMMA PayloadStays ==
  ASSUME EmailConstants, Tied, [Next]_vars, NEW m \in network
  PROVE  /\ m \in Messages /\ Attempted(m.alert)
         /\ m.payload = outbox[m.alert].payload /\ m.payload = outbox'[m.alert].payload
<1>1. m \in Messages /\ m.payload = outbox[m.alert].payload
  BY DEF Tied, TypeOK, Requested, Messages
<1>2. m.alert \in Alerts /\ m.payload # None
  BY <1>1, Constants DEF Messages
<1>3. RowStepped(m.alert)
  BY <1>2, RowStep
<1> QED
  BY <1>1, <1>2, <1>3 DEF RowStepped, Attempted

LEMMA MessageStep ==
  ASSUME EmailConstants, Tied, [Next]_vars
  PROVE  network' \subseteq Messages /\ \A m \in network' : Requested(m)'
<1> DEFINE Good == network' \subseteq Messages /\ \A m \in network' : Requested(m)'
<1>0. network \subseteq Messages /\ run \in [Runs -> Processes] /\ \A m \in network : Requested(m)
  BY DEF Tied, TypeOK, Messages, Processes
<1>1. ASSUME network' \subseteq network,
             \A m \in network' : m.from # None => run'[m.from].phase = "waiting"
      PROVE  Good
  BY <1>0, <1>1, PayloadStays DEF Requested
<1>2. ASSUME UNCHANGED network, NEW r \in Runs, run[r].phase # "waiting",
             \A q \in Runs \ {r} : run'[q] = run[q]
      PROVE  Good
  <2>1. \A m \in network : m.from # None => m.from \in Runs \ {r}
    BY <1>0, <1>2 DEF Requested, Messages
  <2>2. \A m \in network : m.from # None => run'[m.from].phase = "waiting"
    BY <1>0, <1>2, <2>1 DEF Requested
  <2> QED
    BY <1>1, <1>2, <2>2
<1>3. ASSUME NEW r \in Runs, StartRun(r) \/ Skip(r) \/ GiveUp(r) \/ EndRun(r) \/ Record(r)
      PROVE  Good
  <2>1. UNCHANGED network /\ run[r].phase # "waiting"
    BY <1>3 DEF StartRun, Skip, GiveUp, EndRun, Record, CanClaim
  <2>2. \A q \in Runs \ {r} : run'[q] = run[q]
    BY <1>0, <1>3 DEF StartRun, Skip, GiveUp, EndRun, Record, Passed
  <2> QED
    BY <1>2, <2>1, <2>2
<1>4. ASSUME NEW r \in Runs, Claim(r) PROVE Good
  <2>1. UNCHANGED network /\ run[r].phase # "waiting"
    BY <1>4 DEF Claim, CanClaim
  <2> QED
    BY <1>2, <1>4, <2>1, ClaimingRun
<1>5. ASSUME NEW r \in Runs, Post(r) PROVE Good
  <2>1. run[r].phase = "posting" /\ run[r] \in Processes /\ run[r].alert \in Alerts
        /\ Attempted(run[r].alert)
    BY <1>0, <1>5 DEF Post, Tied, Drains
  <2>2. outbox[run[r].alert].payload \in Settings
    BY <2>1, RowTypes DEF Tied, OutboxRows, Attempted
  <2>3. PICK n \in Messages : n = [alert |-> run[r].alert, payload |-> outbox[run[r].alert].payload,
                                  age |-> run[r].age, from |-> r]
    BY <2>1, <2>2 DEF Messages, Processes
  <2>4. network' = network \cup {n} /\ UNCHANGED outbox
    BY <1>5, <2>3 DEF Post
  <2>5. /\ run'[r].phase = "waiting" /\ \A q \in Runs \ {r} : run'[q] = run[q]
    BY <1>0, <1>5 DEF Post, Processes
  <2>6. \A m \in network : m.from # None => m.from \in Runs \ {r}
    BY <1>0, <2>1 DEF Requested, Messages
  <2>a. n.from = r /\ n.payload = outbox[n.alert].payload
    BY <2>3
  <2>7. Requested(n)'
    BY <2>a, <2>4, <2>5, <2>6, Constants DEF Requested
  <2>8. ASSUME NEW m \in network PROVE Requested(m)'
    BY <1>0, <2>a, <2>4, <2>5, <2>6, <2>8 DEF Requested
  <2> QED
    BY <1>0, <2>3, <2>4, <2>7, <2>8
<1>6. ASSUME NEW r \in Runs, network' = Unheard(r), \A q \in Runs \ {r} : run'[q] = run[q]
      PROVE  Good
  <2>1. \A m \in Unheard(r) : /\ m \in Messages /\ m.from # r
                              /\ m.from # None => m \in network
                              /\ \E n \in network : n.alert = m.alert /\ n.payload = m.payload
    BY UnheardMessages
  <2>2. ASSUME NEW m \in Unheard(r) PROVE m.payload = outbox'[m.alert].payload
    BY <2>1, PayloadStays
  <2>3. ASSUME NEW m \in Unheard(r), m.from # None
        PROVE  run'[m.from].phase = "waiting" /\ \A n \in Unheard(r) : n.from = m.from => n = m
    <3>1. m \in network /\ m.from \in Runs \ {r}
      BY <2>1, <2>3 DEF Messages
    <3> QED
      BY <1>0, <1>6, <2>1, <2>3, <3>1 DEF Requested
  <2> QED
    BY <1>6, <2>1, <2>2, <2>3 DEF Requested
<1>7. ASSUME NEW r \in Runs, TimeOut(r) \/ Die(r) PROVE Good
  <2>1. network' = Unheard(r)
    BY <1>7 DEF TimeOut, Die
  <2>2. \A q \in Runs \ {r} : run'[q] = run[q]
    BY <1>0, <1>7 DEF TimeOut, Die
  <2> QED
    BY <1>6, <2>1, <2>2
<1>8. ASSUME NEW m \in network, Arrive(m) \/ Lose(m) PROVE Good
  <2>1. network' = network \ {m}
    BY <1>8 DEF Arrive, Lose
  <2>2. ASSUME NEW n \in network', n.from # None PROVE run'[n.from].phase = "waiting"
    <3>1. n \in network /\ n # m /\ n.from \in Runs /\ run[n.from].phase = "waiting"
      BY <1>0, <2>1, <2>2 DEF Requested, Messages
    <3>2. n.from # m.from
      BY <1>0, <2>2, <3>1 DEF Requested
    <3>3. run'[n.from] = run[n.from]
      BY <1>0, <1>8, <3>1, <3>2 DEF Arrive, Lose
    <3> QED
      BY <3>1, <3>3
  <2> QED
    BY <1>1, <2>1, <2>2
<1>9. CASE Tick
  <2>1. \A m \in network : m.age < Delay
    BY <1>9 DEF Tick
  <2>2. \A n \in network' : \E m \in network : n = [m EXCEPT !.age = m.age + 1]
    BY <1>9 DEF Tick
  <2>3. ASSUME NEW n \in network', NEW m \in network, n = [m EXCEPT !.age = m.age + 1]
        PROVE  /\ n \in Messages /\ n.alert = m.alert /\ n.payload = m.payload /\ n.from = m.from
    <3>1. m \in Messages /\ m.age + 1 \in 0..Delay
      <4>1. m \in Messages /\ m.age \in 0..Delay
        BY <1>0 DEF Messages
      <4> QED
        BY <2>1, <4>1, Constants
    <3> QED
      BY <2>3, <3>1 DEF Messages
  <2>4. ASSUME NEW n \in network' PROVE Requested(n)'
    <3>1. PICK m \in network : n = [m EXCEPT !.age = m.age + 1]
      BY <2>2
    <3>2. n.alert = m.alert /\ n.payload = m.payload /\ n.from = m.from
      BY <2>3, <3>1
    <3>3. n.payload = outbox'[n.alert].payload
      BY <3>2, PayloadStays
    <3>4. ASSUME n.from # None PROVE run'[n.from].phase = "waiting"
      <4>1. m.from \in Runs /\ run[m.from].phase = "waiting"
        BY <1>0, <3>2, <3>4 DEF Requested, Messages
      <4> QED
        BY <1>9, <3>2, <4>1, RunsAge
    <3>5. ASSUME NEW o \in network', n.from # None, o.from = n.from PROVE o = n
      <4>1. PICK k \in network : o = [k EXCEPT !.age = k.age + 1]
        BY <2>2
      <4>2. k.from = m.from
        BY <2>3, <3>2, <3>5, <4>1
      <4>3. k = m
        BY <1>0, <3>2, <3>5, <4>2 DEF Requested
      <4> QED
        BY <3>1, <4>1, <4>3
    <3> QED
      BY <3>3, <3>4, <3>5 DEF Requested
  <2> QED
    BY <2>2, <2>3, <2>4
<1>10. ASSUME NEW a \in Alerts, Acknowledge(a) PROVE Good
  BY <1>0, <1>1, <1>10 DEF Acknowledge, Requested
<1>11. CASE UNCHANGED vars
  BY <1>0, <1>1, <1>11 DEF vars, Requested
<1> QED
  BY <1>3, <1>4, <1>5, <1>7, <1>8, <1>9, <1>10, <1>11 DEF Next, Draining

\* What the provider knows and has sent.
LEMMA ProviderStep ==
  ASSUME EmailConstants, Tied, [Next]_vars
  PROVE  /\ known' \in [Alerts -> 0..Window]
         /\ sent' \in [Alerts -> [emails : 0..2, payloads : SUBSET Settings]]
<1>0. known \in [Alerts -> 0..Window]
      /\ sent \in [Alerts -> [emails : 0..2, payloads : SUBSET Settings]]
      /\ network \subseteq Messages
  BY DEF Tied, TypeOK, Messages
<1>1. CASE UNCHANGED <<known, sent>>
  BY <1>0, <1>1
<1>2. ASSUME NEW m \in network, Arrive(m)
      PROVE  /\ known' \in [Alerts -> 0..Window]
             /\ sent' \in [Alerts -> [emails : 0..2, payloads : SUBSET Settings]]
  <2>1. m.alert \in Alerts /\ m.payload \in Settings
    BY <1>0 DEF Messages
  <2>2. known' \in [Alerts -> 0..Window]
    <3>1. Window \in 0..Window
      BY Constants
    <3> QED
      BY <1>0, <1>2, <2>1, <3>1 DEF Arrive
  <2>3. sent[m.alert] \in [emails : 0..2, payloads : SUBSET Settings]
    BY <1>0, <2>1
  <2>4. (IF sent[m.alert].emails = 2 THEN 2 ELSE sent[m.alert].emails + 1) \in 0..2
        /\ sent[m.alert].payloads \cup {m.payload} \in SUBSET Settings
    BY <2>1, <2>3
  <2>5. sent' \in [Alerts -> [emails : 0..2, payloads : SUBSET Settings]]
    BY <1>0, <1>2, <2>1, <2>3, <2>4 DEF Arrive
  <2> QED
    BY <2>2, <2>5
<1>3. CASE Tick
  <2>1. \A k \in 0..Window : Down(k) \in 0..Window
    BY Constants DEF Down
  <2> QED
    BY <1>0, <1>3, <2>1 DEF Tick
<1>4. ASSUME NEW a \in Alerts, Acknowledge(a) PROVE UNCHANGED <<known, sent>>
  BY <1>4 DEF Acknowledge
<1>5. ASSUME NEW r \in Runs, StartRun(r) \/ Draining(r) \/ Die(r)
      PROVE UNCHANGED <<known, sent>>
  BY <1>5 DEF StartRun, Draining, Die, Skip, GiveUp, Claim, EndRun, Post, TimeOut, Record
<1>6. ASSUME NEW m \in network, Lose(m) PROVE UNCHANGED <<known, sent>>
  BY <1>6 DEF Lose
<1> QED
  BY <1>1, <1>2, <1>3, <1>4, <1>5, <1>6 DEF Next, vars

LEMMA TiedStep == ASSUME EmailConstants, Tied, [Next]_vars PROVE Tied'
<1>1. /\ outbox' \in [Alerts -> OutboxRows]
      /\ \A a \in Alerts : /\ outbox'[a].accepted => outbox'[a].acknowledged
                           /\ outbox'[a].attempts > 0 <=> outbox'[a].payload # None
  BY RowStep DEF RowStepped, Remains
<1>2. run' \in [Runs -> Processes] /\ \A r \in Runs : Drains(r)'
  BY RunStep
<1>3. network' \subseteq Messages /\ \A m \in network' : Requested(m)'
  BY MessageStep
<1>4. /\ known' \in [Alerts -> 0..Window]
      /\ sent' \in [Alerts -> [emails : 0..2, payloads : SUBSET Settings]]
  BY ProviderStep
<1>5. TypeOK'
  BY <1>1, <1>2, <1>3, <1>4 DEF TypeOK, OutboxRows, Processes, Messages, Attempted
<1> QED
  BY <1>2, <1>3, <1>5 DEF Tied

\* A request of that age finds its key still known, once an email was sent.
Soon(a, age) == sent[a].emails > 0 => known[a] + age + Review > Window

\* An alert that was emailed, until the provider forgets it: no claim starts so
\* late that its request could arrive afterwards.
Once(a) ==
    /\ sent[a].emails <= 1
    /\ sent[a].emails > 0 => /\ Attempted(a)
                             /\ outbox[a].age < Review => known[a] + outbox[a].age >= Window
    /\ \A r \in Runs : run[r].phase = "posting" /\ run[r].alert = a => Soon(a, run[r].age)
    /\ \A m \in network : m.alert = a => Soon(a, m.age)
    /\ sent[a].payloads \subseteq {outbox[a].payload}

\* Types of what the invariant counts.
LEMMA Counters ==
  ASSUME EmailConstants, Tied, NEW a \in Alerts
  PROVE  /\ known[a] \in Nat /\ sent[a].emails \in Nat /\ outbox[a].age \in Nat
         /\ sent[a].payloads \in SUBSET Settings
         /\ \A r \in Runs : run[r].age \in Nat
         /\ \A m \in network : m.age \in 0..Delay
<1>1. outbox[a].age \in Nat
  BY RowTypes, Constants DEF Tied, OutboxRows
<1>2. known[a] \in Nat
  BY Constants DEF Tied, TypeOK
<1>3. sent[a] \in [emails : 0..2, payloads : SUBSET Settings]
  BY DEF Tied, TypeOK
<1>4. \A r \in Runs : run[r].age \in Nat
  <2>1. \A r \in Runs : run[r] \in Processes
    BY DEF Tied, TypeOK, Processes
  <2> QED
    BY <2>1, Constants DEF Processes
<1>5. \A m \in network : m.age \in 0..Delay
  BY DEF Tied, TypeOK
<1> QED
  BY <1>1, <1>2, <1>3, <1>4, <1>5

\* The payloads seen are those of the row.
LEMMA PayloadsStep ==
  ASSUME EmailConstants, Tied, [Next]_vars, NEW a \in Alerts, Once(a)
  PROVE  sent'[a].payloads \subseteq {outbox'[a].payload}
<1>1. sent[a].payloads \subseteq {outbox'[a].payload}
  <2>1. CASE Attempted(a)
    BY <2>1, RowStep DEF RowStepped, Once
  <2>2. CASE ~Attempted(a)
    <3>1. sent[a].payloads \subseteq {None} /\ sent[a].payloads \in SUBSET Settings
      BY <2>2, Counters DEF Attempted, Once
    <3> QED
      BY <3>1, Constants
  <2> QED
    BY <2>1, <2>2
<1>2. ASSUME NEW m \in network, Arrive(m) PROVE sent'[a].payloads \subseteq {outbox'[a].payload}
  <2>1. sent'[a].payloads = IF a = m.alert THEN sent[a].payloads \cup {m.payload}
                            ELSE sent[a].payloads
    <3>1. sent \in [Alerts -> [emails : 0..2, payloads : SUBSET Settings]] /\ m.alert \in Alerts
      BY DEF Tied, TypeOK
    <3>2. sent[a] \in [emails : 0..2, payloads : SUBSET Settings]
      BY <3>1
    <3>3. CASE a = m.alert
      BY <1>2, <3>1, <3>2, <3>3 DEF Arrive
    <3>4. CASE a # m.alert
      BY <1>2, <3>1, <3>4 DEF Arrive
    <3> QED
      BY <3>3, <3>4
  <2>2. m.payload = outbox'[m.alert].payload
    BY PayloadStays
  <2> QED
    BY <1>1, <2>1, <2>2
<1>3. CASE UNCHANGED sent
  BY <1>1, <1>3
<1>4. (\E m \in network : Arrive(m)) \/ UNCHANGED sent
  BY DEF Next, vars, Acknowledge, StartRun, Draining, Die, Skip, GiveUp, Claim, EndRun, Post,
         TimeOut, Record, Lose, Tick
<1> QED
  BY <1>2, <1>3, <1>4

\* A step that only moves requests on.
LEMMA QuietOnce ==
  ASSUME EmailConstants, Tied, [Next]_vars, ~Tick, UNCHANGED <<known, sent>>,
         NEW a \in Alerts, Once(a),
         \A r \in Runs : run'[r].phase = "posting" => run'[r] = run[r],
         \A m \in network' : \/ \E n \in network : n.alert = m.alert /\ n.age = m.age
                             \/ \E r \in Runs : run[r].phase = "posting" /\ run[r].alert = m.alert
                                                /\ run[r].age = m.age
  PROVE  Once(a)'
<1>1. RowStepped(a)
  BY RowStep
<1>2. sent'[a].payloads \subseteq {outbox'[a].payload}
  BY PayloadsStep
<1>3. outbox'[a].age = outbox[a].age /\ (Attempted(a) => outbox'[a].payload # None)
  BY <1>1 DEF RowStepped, Attempted
<1>4. \A m \in network' : m.alert = a => Soon(a, m.age)
  BY DEF Once
<1> QED
  BY <1>2, <1>3, <1>4 DEF Once, Soon, Attempted

LEMMA ClaimOnce ==
  ASSUME EmailConstants, Tied, NEW r \in Runs, Claim(r), NEW a \in Alerts, Once(a)
  PROVE  Once(a)'
<1>0. [Next]_vars
  BY DEF Next, Draining
<1>1. RowStepped(a) /\ ~Tick
  <2>1. ~Tick
    <3>1. run'[r].phase = "posting" /\ run[r].phase = "draining"
      BY ClaimingRun DEF Claim, CanClaim
    <3>2. Tick => run'[r].phase = run[r].phase
      BY RunsAge
    <3> QED
      BY <3>1, <3>2
  <2> QED
    BY <1>0, <2>1, RowStep
<1>2. sent'[a].payloads \subseteq {outbox'[a].payload}
  BY <1>0, PayloadsStep
<1>3. outbox'[a].age = outbox[a].age /\ (Attempted(a) => outbox'[a].payload # None)
  BY <1>1 DEF RowStepped, Attempted
<1>4. UNCHANGED <<network, known, sent>>
  BY DEF Claim
<1>5. /\ run'[r].alert = Next1(r) /\ run'[r].age = 0
      /\ \A q \in Runs \ {r} : run'[q] = run[q]
  BY ClaimingRun
<1>6. ASSUME Next1(r) = a PROVE Soon(a, 0)
  <2>1. Attempted(a) => outbox[a].age < Review
    BY <1>6, Counters, Constants DEF Claim, TooOld
  <2> QED
    BY <2>1, Counters, Constants DEF Once, Soon
<1>7. ASSUME NEW q \in Runs, run'[q].phase = "posting", run'[q].alert = a
      PROVE  Soon(a, run'[q].age)
  BY <1>5, <1>6, <1>7 DEF Once
<1> QED
  BY <1>2, <1>3, <1>4, <1>7 DEF Once, Soon, Attempted

LEMMA ArriveOnce ==
  ASSUME EmailConstants, Tied, NEW m \in network, Arrive(m), NEW a \in Alerts, Once(a)
  PROVE  Once(a)'
<1>0. [Next]_vars
  BY DEF Next
<1>1. sent'[a].payloads \subseteq {outbox'[a].payload} /\ UNCHANGED outbox
        /\ network' \subseteq network
  BY <1>0, PayloadsStep DEF Arrive
<1>2. \A r \in Runs : run'[r].phase = "posting" => run'[r] = run[r]
  <2>1. run \in [Runs -> Processes]
    BY DEF Tied, TypeOK, Processes
  <2> QED
    BY <2>1 DEF Arrive
<1>3. m \in Messages /\ Attempted(m.alert)
  BY <1>0, PayloadStays
<1>4. /\ known \in [Alerts -> 0..Window]
      /\ sent \in [Alerts -> [emails : 0..2, payloads : SUBSET Settings]]
  BY DEF Tied, TypeOK
<1>5. sent[a] \in [emails : 0..2, payloads : SUBSET Settings]
  BY <1>4
<1>6. CASE a # m.alert \/ known[m.alert] > 0
  <2>1. known'[a] = known[a] /\ sent'[a].emails = sent[a].emails
    BY <1>3, <1>4, <1>5, <1>6 DEF Arrive, Messages
  <2> QED
    BY <1>1, <1>2, <2>1 DEF Once, Soon, Attempted
<1>7. CASE a = m.alert /\ ~(known[m.alert] > 0)
  <2>1. known[a] = 0
    BY <1>7 DEF Arrive
  <2>2. Soon(a, m.age)
    BY <1>7 DEF Once
  <2>3. sent[a].emails = 0
    BY <1>5, <2>1, <2>2, Counters, Constants DEF Soon
  <2>4. known'[a] = Window /\ sent'[a].emails = 1
    BY <1>4, <1>5, <1>7, <2>3 DEF Arrive
  <2>5. \A n \in Nat : Window + n + Review > Window /\ Window + n >= Window
    BY Constants
  <2>6. \A n \in network : n.age \in Nat
    BY Counters, Constants
  <2> QED
    BY <1>1, <1>2, <1>3, <1>7, <2>4, <2>5, <2>6, Counters DEF Once, Soon, Attempted
<1> QED
  BY <1>6, <1>7

LEMMA TickOnce ==
  ASSUME EmailConstants, Tied, Tick, NEW a \in Alerts, Once(a)
  PROVE  Once(a)'
<1>0. [Next]_vars
  BY DEF Next
<1>1. sent'[a].payloads \subseteq {outbox'[a].payload} /\ UNCHANGED sent
  BY <1>0, PayloadsStep DEF Tick
<1>2. known'[a] = Down(known[a]) /\ known[a] \in Nat
  BY Counters DEF Tick
<1>3. /\ outbox'[a].payload = outbox[a].payload
      /\ outbox'[a].age = IF Attempted(a) /\ outbox[a].age < Review
                          THEN outbox[a].age + 1 ELSE outbox[a].age
  BY AgedRow
<1>4. \A n \in Nat : \A k \in Nat :
        k + n + Review > Window => Down(k) + (n + 1) + Review > Window
  BY Constants DEF Down
<1>5. ASSUME NEW r \in Runs, run'[r].phase = "posting", run'[r].alert = a
      PROVE  sent'[a].emails > 0 => known'[a] + run'[r].age + Review > Window
  <2>1. run[r].phase = "posting" /\ run[r].alert = a /\ run'[r].age = run[r].age + 1
    BY <1>5, RunsAge
  <2>2. Soon(a, run[r].age) /\ run[r].age \in Nat
    BY <2>1, Counters DEF Once
  <2>3. known[a] + run[r].age + Review > Window
          => Down(known[a]) + (run[r].age + 1) + Review > Window
    BY <1>2, <1>4, <2>2
  <2> QED
    BY <1>1, <1>2, <2>1, <2>2, <2>3 DEF Soon
<1>6. ASSUME NEW n \in network', n.alert = a PROVE Soon(a, n.age)'
  <2>1. PICK m \in network : n = [m EXCEPT !.age = m.age + 1]
    BY DEF Tick
  <2>2. m \in Messages /\ m.age \in Nat
    BY <1>0, PayloadStays, Constants DEF Messages
  <2>3. n.alert = m.alert /\ n.age = m.age + 1
    BY <2>1, <2>2 DEF Messages
  <2>4. Soon(a, m.age)
    BY <1>6, <2>3 DEF Once
  <2> QED
    BY <1>1, <1>2, <1>4, <2>2, <2>3, <2>4 DEF Soon
<1>7. ASSUME sent[a].emails > 0, outbox'[a].age < Review
      PROVE  known'[a] + outbox'[a].age >= Window
  <2>1. Attempted(a) /\ outbox[a].age \in Nat
    BY <1>7, Counters DEF Once
  <2>2. outbox[a].age < Review /\ outbox'[a].age = outbox[a].age + 1
    BY <1>3, <1>7, <2>1, Constants
  <2>3. known[a] + outbox[a].age >= Window
    BY <1>7, <2>2 DEF Once
  <2>4. known[a] > 0
    BY <1>2, <2>1, <2>2, <2>3, Constants
  <2>5. Down(known[a]) = known[a] - 1
    BY <1>2, <2>4 DEF Down
  <2> QED
    BY <1>2, <2>1, <2>2, <2>3, <2>5, Constants
<1> QED
  BY <1>1, <1>3, <1>5, <1>6, <1>7 DEF Once, Soon, Attempted

LEMMA OnceStep ==
  ASSUME EmailConstants, Tied, [Next]_vars, \A a \in Alerts : Once(a)
  PROVE  \A a \in Alerts : Once(a)'
<1> SUFFICES ASSUME NEW a \in Alerts PROVE Once(a)'
  OBVIOUS
<1>1. ASSUME NEW r \in Runs, Claim(r) PROVE Once(a)'
  BY <1>1, ClaimOnce
<1>2. ASSUME NEW m \in network, Arrive(m) PROVE Once(a)'
  BY <1>2, ArriveOnce
<1>3. CASE Tick
  BY <1>3, TickOnce
<1>4. CASE /\ ~Tick /\ \A r \in Runs : ~Claim(r)
           /\ \A m \in network : ~Arrive(m)
  <2>1. UNCHANGED <<known, sent>>
    BY <1>4 DEF Next, vars, Acknowledge, StartRun, Draining, Die, Skip, GiveUp, EndRun, Post,
                TimeOut, Record, Lose
  <2>2. \A r \in Runs : run'[r].phase = "posting" => run'[r] = run[r]
    <3>1. run \in [Runs -> Processes]
      BY DEF Tied, TypeOK, Processes
    <3> QED
      BY <1>4, <3>1, RunCases DEF Moves
  <2>3. \A m \in network' : \/ \E n \in network : n.alert = m.alert /\ n.age = m.age
                            \/ \E r \in Runs : run[r].phase = "posting" /\ run[r].alert = m.alert
                                               /\ run[r].age = m.age
    <3>1. CASE network' \subseteq network
      BY <3>1
    <3>2. ASSUME NEW r \in Runs, network' = Unheard(r)
          PROVE  \A m \in network' : \E n \in network : n.alert = m.alert /\ n.age = m.age
      BY <3>2, UnheardMessages
    <3>3. ASSUME NEW r \in Runs, Post(r)
          PROVE  \A m \in network' :
                    \/ \E n \in network : n.alert = m.alert /\ n.age = m.age
                    \/ run[r].phase = "posting" /\ run[r].alert = m.alert /\ run[r].age = m.age
      <4> DEFINE new == [alert |-> run[r].alert, payload |-> outbox[run[r].alert].payload,
                         age |-> run[r].age, from |-> r]
      <4>1. network' = network \cup {new} /\ run[r].phase = "posting"
        BY <3>3 DEF Post
      <4>2. new.alert = run[r].alert /\ new.age = run[r].age
        OBVIOUS
      <4> HIDE DEF new
      <4>3. ASSUME NEW m \in network'
            PROVE  \/ \E k \in network : k.alert = m.alert /\ k.age = m.age
                   \/ run[r].phase = "posting" /\ run[r].alert = m.alert /\ run[r].age = m.age
        <5>1. CASE m \in network
          BY <5>1
        <5>2. CASE m = new
          BY <4>1, <4>2, <5>2
        <5> QED
          BY <4>1, <5>1, <5>2
      <4> QED
        BY <4>3
    <3>4. \/ network' \subseteq network \/ \E r \in Runs : network' = Unheard(r) \/ Post(r)
      BY <1>4 DEF Next, vars, Acknowledge, StartRun, Draining, Die, Skip, GiveUp, EndRun,
                  TimeOut, Record, Lose
    <3> QED
      BY <3>1, <3>2, <3>3, <3>4
  <2> QED
    BY <1>4, <2>1, <2>2, <2>3, QuietOnce
<1> QED
  BY <1>1, <1>2, <1>3, <1>4

\* What a step makes of the claim of an alert.
LeaseMoves(a) ==
    \/ outbox'[a].lease = outbox[a].lease /\ outbox'[a].leased = outbox[a].leased /\ ~Tick
    \/ Tick /\ outbox'[a].lease = outbox[a].lease /\ outbox'[a].leased = Down(outbox[a].leased)
    \/ \E r \in Runs : /\ Claim(r) /\ a = Next1(r) /\ ~(outbox[a].leased > 0)
                       /\ outbox'[a].lease = r /\ outbox'[a].leased = Lease
    \/ \E r \in Runs : /\ Record(r) /\ a = run[r].alert /\ run'[r].alert = None
                       /\ outbox[a].lease = r /\ outbox'[a].lease = r /\ outbox'[a].leased = 0

LEMMA LeaseStep ==
  ASSUME EmailConstants, Tied, [Next]_vars, NEW b \in Alerts
  PROVE  LeaseMoves(b)
<1>0. outbox \in [Alerts -> OutboxRows] /\ run \in [Runs -> Processes]
  BY DEF Tied, TypeOK, OutboxRows, Processes
<1>1. CASE Tick
  BY <1>1, AgedRow DEF LeaseMoves
<1>2. ASSUME ~Tick, NEW a \in Alerts, NEW v \in BOOLEAN,
             \/ outbox' = [outbox EXCEPT ![a].acknowledged = v]
             \/ outbox' = [outbox EXCEPT ![a].review = v]
      PROVE  LeaseMoves(b)
  <2> DEFINE q == [outbox[a] EXCEPT !.acknowledged = v]
             p == [outbox[a] EXCEPT !.review = v]
  <2>0. outbox[a] \in OutboxRows
    BY <1>0
  <2>1. /\ q.lease = outbox[a].lease /\ q.leased = outbox[a].leased
        /\ p.lease = outbox[a].lease /\ p.leased = outbox[a].leased
    BY <2>0, SetFlags
  <2>2. outbox' = [outbox EXCEPT ![a] = q] \/ outbox' = [outbox EXCEPT ![a] = p]
    BY <1>0, <1>2
  <2> HIDE DEF p, q
  <2>3. outbox'[b] = outbox[b] \/ (a = b /\ outbox'[b] \in {q, p})
    BY <1>0, <2>2
  <2> QED
    BY <1>2, <2>1, <2>3 DEF LeaseMoves
<1>3. ASSUME NEW a \in Alerts, Acknowledge(a), ~Tick PROVE LeaseMoves(b)
  BY <1>2, <1>3 DEF Acknowledge
<1>4. ASSUME NEW r \in Runs, GiveUp(r), ~Tick PROVE LeaseMoves(b)
  <2>1. Next1(r) \in Alerts
    BY <1>4, NextAlert DEF GiveUp
  <2> QED
    BY <1>2, <1>4, <2>1 DEF GiveUp
<1>5. ASSUME NEW r \in Runs, Claim(r), ~Tick PROVE LeaseMoves(b)
  <2>1. PICK a \in Alerts : a = Next1(r)
    BY <1>5, NextAlert DEF Claim
  <2>2. outbox' = [outbox EXCEPT ![a] = Claimed(a, r)] /\ ~(outbox[a].leased > 0)
    BY <1>5, <2>1 DEF Claim, Busy
  <2>3. Claimed(a, r).lease = r /\ Claimed(a, r).leased = Lease
    BY <1>5, <2>1, ClaimedRow, NextAlert DEF Claim
  <2>4. outbox'[a] = Claimed(a, r) /\ (b # a => outbox'[b] = outbox[b])
    BY <1>0, <2>2
  <2> QED
    BY <1>5, <2>1, <2>2, <2>3, <2>4 DEF LeaseMoves
<1>6. ASSUME NEW r \in Runs, Record(r), ~Tick PROVE LeaseMoves(b)
  <2>1. CASE UNCHANGED outbox
    BY <1>6, <2>1 DEF LeaseMoves
  <2>2. CASE ~UNCHANGED outbox
    <3>1. PICK a \in Alerts : a = run[r].alert /\ Attempted(a)
      BY <1>6 DEF Tied, Drains, Record
    <3>2. /\ outbox[a].lease = r
          /\ run' = [run EXCEPT ![r].phase = "draining", ![r].alert = None]
          /\ \E q \in {Confirmed(a), Unconfirmed(a)} : outbox' = [outbox EXCEPT ![a] = q]
      BY <1>6, <2>2, <3>1 DEF Record, Held
    <3>3. run'[r].alert = None
      BY <1>0, <3>2 DEF Processes
    <3>4. PICK q \in {Confirmed(a), Unconfirmed(a)} : outbox' = [outbox EXCEPT ![a] = q]
      BY <3>2
    <3>5. q.lease = r /\ q.leased = 0
      BY <3>1, <3>2, ReportedRow
    <3>6. outbox'[a] = q /\ (b # a => outbox'[b] = outbox[b])
      BY <1>0, <3>4
    <3> QED
      BY <1>6, <3>1, <3>2, <3>3, <3>5, <3>6 DEF LeaseMoves
  <2> QED
    BY <2>1, <2>2
<1>7. ASSUME UNCHANGED outbox, ~Tick PROVE LeaseMoves(b)
  BY <1>7 DEF LeaseMoves
<1>8. ASSUME NEW r \in Runs, StartRun(r) \/ Skip(r) \/ EndRun(r) \/ Post(r) \/ TimeOut(r) \/ Die(r)
      PROVE  UNCHANGED outbox
  BY <1>8 DEF StartRun, Skip, EndRun, Post, TimeOut, Die
<1>9. ASSUME NEW m \in network, Arrive(m) \/ Lose(m) PROVE UNCHANGED outbox
  BY <1>9 DEF Arrive, Lose
<1>10. CASE UNCHANGED outbox
  BY <1>1, <1>7, <1>10
<1> QED
  BY <1>1, <1>3, <1>4, <1>5, <1>6, <1>8, <1>9, <1>10 DEF Next, Draining, vars

\* The claim of a run about to send: its own until the lease runs out.
Claims(r) ==
    run[r].phase = "posting" =>
      /\ outbox[run[r].alert].lease = r => outbox[run[r].alert].leased + run[r].age >= Lease
      /\ outbox[run[r].alert].lease # r => run[r].age >= Lease

\* What a run about to send was before the step.
LEMMA Posting ==
  ASSUME EmailConstants, Tied, [Next]_vars, NEW r \in Runs, run'[r].phase = "posting"
  PROVE  \/ Claim(r) /\ run'[r].alert = Next1(r) /\ run'[r].age = 0
         \/ /\ run[r].phase = "posting" /\ run'[r].alert = run[r].alert
            /\ IF Tick THEN run'[r].age = run[r].age + 1 ELSE run'[r].age = run[r].age
<1>1. run \in [Runs -> Processes]
  BY DEF Tied, TypeOK, Processes
<1>2. CASE Tick
  BY <1>2, RunsAge
<1>3. CASE UNCHANGED run /\ ~Tick
  BY <1>3
<1>4. ASSUME ~Tick, NEW q \in Runs, Claim(q) PROVE Claim(r) \/ run'[r] = run[r]
  BY <1>4, ClaimingRun
<1>5. ASSUME ~Tick, NEW q \in Runs, NEW p \in Processes, run' = [run EXCEPT ![q] = p], Moves(q, p)
      PROVE  run'[r] = run[r]
  BY <1>1, <1>5 DEF Moves
<1> QED
  BY <1>2, <1>3, <1>4, <1>5, RunCases, ClaimingRun

LEMMA ClaimsStep ==
  ASSUME EmailConstants, Tied, [Next]_vars, \A r \in Runs : Claims(r), NEW r \in Runs
  PROVE  Claims(r)'
<1> SUFFICES ASSUME run'[r].phase = "posting" PROVE Claims(r)'
  BY DEF Claims
<1>1. CASE Claim(r) /\ run'[r].alert = Next1(r) /\ run'[r].age = 0
  <2>1. PICK a \in Alerts : a = Next1(r)
    BY <1>1, NextAlert DEF Claim
  <2>2. outbox' = [outbox EXCEPT ![a] = Claimed(a, r)]
    BY <1>1, <2>1 DEF Claim
  <2>3. Claimed(a, r).lease = r /\ Claimed(a, r).leased = Lease
    BY <1>1, <2>1, ClaimedRow, NextAlert DEF Claim
  <2>4. outbox'[a].lease = r /\ outbox'[a].leased = Lease /\ run'[r].alert = a
    BY <1>1, <2>1, <2>2, <2>3 DEF Tied, TypeOK
  <2> QED
    BY <1>1, <2>4, Constants DEF Claims
<1>2. CASE /\ run[r].phase = "posting" /\ run'[r].alert = run[r].alert
           /\ IF Tick THEN run'[r].age = run[r].age + 1 ELSE run'[r].age = run[r].age
  <2>1. PICK a \in Alerts : a = run[r].alert
    BY <1>2 DEF Tied, Drains
  <2>2. LeaseMoves(a)
    BY LeaseStep
  <2>3. /\ run[r].age \in Nat /\ outbox[a].leased \in Nat
        /\ outbox[a].lease = r => outbox[a].leased + run[r].age >= Lease
        /\ outbox[a].lease # r => run[r].age >= Lease
    BY <1>2, <2>1, Counters, RowTypes, Constants DEF Claims, Tied, OutboxRows
  <2>4. \A k \in Nat : \A n \in Nat : k + n >= Lease => Down(k) + (n + 1) >= Lease
    BY Constants DEF Down
  <2>5. CASE Tick
    <3>1. run'[r].age = run[r].age + 1 /\ run'[r].alert = a
      BY <1>2, <2>1, <2>5
    <3>2. outbox'[a].lease = outbox[a].lease /\ outbox'[a].leased = Down(outbox[a].leased)
      BY <2>5, AgedRow
    <3>3. outbox[a].leased + run[r].age >= Lease
            => Down(outbox[a].leased) + (run[r].age + 1) >= Lease
      BY <2>3, <2>4
    <3>4. run[r].age >= Lease => run[r].age + 1 >= Lease
      BY <2>3, Constants
    <3> QED
      BY <2>3, <3>1, <3>2, <3>3, <3>4 DEF Claims
  <2>6. CASE ~Tick
    <3>1. run'[r].age = run[r].age /\ run'[r].alert = a
      BY <1>2, <2>1, <2>6
    <3>2. ASSUME NEW q \in Runs, ~(outbox[a].leased > 0), outbox'[a].lease = q, q # r
          PROVE  Claims(r)'
      <4>1. run[r].age >= Lease
        BY <2>3, <3>2, Constants
      <4> QED
        BY <3>1, <3>2, <4>1 DEF Claims
    <3>3. ASSUME NEW q \in Runs, Claim(q), a = Next1(q), ~(outbox[a].leased > 0),
                 outbox'[a].lease = q
          PROVE  Claims(r)'
      <4>1. q # r
        BY <1>2, <3>3 DEF Claim, CanClaim
      <4> QED
        BY <3>2, <3>3, <4>1
    <3>4. ASSUME NEW q \in Runs, Record(q), outbox[a].lease = q, outbox'[a].lease = q
          PROVE  Claims(r)'
      <4>1. q # r
        BY <1>2, <3>4 DEF Record
      <4> QED
        BY <2>3, <3>1, <3>4, <4>1 DEF Claims
    <3> QED
      BY <2>2, <2>3, <2>6, <3>1, <3>3, <3>4 DEF LeaseMoves, Claims
  <2> QED
    BY <2>5, <2>6
<1> QED
  BY <1>1, <1>2, Posting

-----------------------------------------------------------------------------
(* Theorems                                                                 *)

Invariant ==
    /\ Tied
    /\ \A a \in Alerts : Once(a)
    /\ \A r \in Runs : Claims(r)

LEMMA Inductive == ASSUME EmailConstants PROVE Spec => []Invariant
<1>1. Init => Invariant
  <2> SUFFICES ASSUME Init PROVE Invariant
    OBVIOUS
  <2>1. \A a \in Alerts : Once(a)
    BY DEF Init, Once, Soon, NoRun, Pending
  <2>2. \A r \in Runs : Claims(r)
    BY DEF Init, Claims, NoRun
  <2> QED
    BY <2>1, <2>2, InitTied DEF Invariant
<1>2. Invariant /\ [Next]_vars => Invariant'
  BY TiedStep, OnceStep, ClaimsStep DEF Invariant
<1> QED
  BY <1>1, <1>2, PTL DEF Spec

\* Type correctness of the outbox, the runs, the requests and the provider.
THEOREM TypeCorrect == ASSUME EmailConstants PROVE Spec => []TypeOK
<1>1. Invariant => TypeOK
  BY DEF Invariant, Tied
<1> QED
  BY <1>1, Inductive, PTL

\* An alert is emailed once, however runs overlap, wait and die and requests are
\* lost or late, as long as a request arrives within Delay of its claim.
THEOREM OneEmail == ASSUME EmailConstants PROVE Spec => []EmailedOnce
<1>1. Invariant => EmailedOnce
  BY DEF Invariant, Once, EmailedOnce
<1> QED
  BY <1>1, Inductive, PTL

\* All requests under a key carry the payload of its first claim.
THEOREM SamePayload == ASSUME EmailConstants PROVE Spec => []OnePayload
<1>1. Invariant => OnePayload
  <2> SUFFICES ASSUME Invariant, NEW a \in Alerts PROVE Cardinality(sent[a].payloads) <= 1
    BY DEF OnePayload
  <2>1. sent[a].payloads \subseteq {outbox[a].payload}
    BY DEF Invariant, Once
  <2>2. sent[a].payloads = {} \/ sent[a].payloads = {outbox[a].payload}
    BY <2>1
  <2> QED
    BY <2>2, FS_EmptySet, FS_Singleton
<1> QED
  BY <1>1, Inductive, PTL

\* Two processes are about to send the same alert only when one sat on its claim
\* until the lease ran out.
THEOREM Senders == ASSUME EmailConstants PROVE Spec => []OneSender
<1>1. Invariant => OneSender
  <2> SUFFICES ASSUME Invariant, NEW r \in Runs, NEW q \in Runs, r # q,
                      run[r].phase = "posting", run[q].phase = "posting",
                      run[r].alert = run[q].alert
               PROVE  \E x \in {r, q} : outbox[run[x].alert].lease # x /\ run[x].age >= Lease
    BY DEF OneSender
  <2>1. PICK x \in {r, q} : outbox[run[x].alert].lease # x
    OBVIOUS
  <2> QED
    BY <2>1 DEF Invariant, Claims
<1> QED
  BY <1>1, Inductive, PTL

\* A late report leaves the claim of another run alone.
THEOREM Undisturbed == ASSUME EmailConstants PROVE Spec => ClaimsUndisturbed
<1>1. ASSUME Invariant, [Next]_vars, NEW a \in Alerts, outbox[a].leased > 0
      PROVE  \/ outbox'[a].leased >= outbox[a].leased - 1
             \/ \E r \in Runs : run[r].alert = a /\ outbox[a].lease = r /\ run'[r].alert = None
  <2>1. LeaseMoves(a) /\ outbox[a].leased \in Nat
    BY <1>1, LeaseStep, RowTypes, Constants DEF Invariant, Tied, OutboxRows
  <2> QED
    BY <1>1, <2>1 DEF LeaseMoves, Down
<1>2. Invariant /\ [Next]_vars
        => [\A a \in Alerts : outbox[a].leased > 0
              => \/ outbox'[a].leased >= outbox[a].leased - 1
                 \/ \E r \in Runs :
                      run[r].alert = a /\ outbox[a].lease = r /\ run'[r].alert = None]_vars
  BY <1>1
<1> QED
  BY <1>2, Inductive, PTL DEF Spec, ClaimsUndisturbed

-----------------------------------------------------------------------------
(* The catalog                                                              *)

CatalogInvariant ==
  /\ rows \in [Variants -> Catalog!Rows \cup {None}] /\ stored \subseteq Catalog!Snapshots
  /\ complete \in BOOLEAN /\ imports \in Nat
  /\ Catalog!NewestWins

LEMMA CatalogInit == ASSUME Catalog!CatalogAssumption, Catalog!Init PROVE CatalogInvariant
  BY DEF Catalog!CatalogAssumption, Catalog!Init, CatalogInvariant, Catalog!NewestWins,
     Catalog!Saying

\* What an import makes of the row of a variant that the snapshot names: a row of the
\* snapshot's time that says what the snapshot says, or a newer one that was there.
LEMMA Imported ==
  ASSUME Catalog!CatalogAssumption, CatalogInvariant, NEW s \in Catalog!Snapshots, Catalog!Import(s),
         NEW v \in Variants, s.says[v] # None
  PROVE  /\ Catalog!NewRow(s, v) \in Catalog!Rows /\ Catalog!NewRow(s, v).time >= s.time
         /\ Catalog!NewRow(s, v).time = s.time => Catalog!NewRow(s, v).payload.claim = s.says[v]
         /\ rows[v] # None => /\ Catalog!NewRow(s, v).time >= rows[v].time
                              /\ Catalog!NewRow(s, v).time = rows[v].time =>
                                   Catalog!NewRow(s, v).payload.claim = rows[v].payload.claim
<1>0. /\ rows[v] \in Catalog!Rows \cup {None} /\ None \notin Catalog!Rows /\ complete \in BOOLEAN
      /\ s.time \in 1 .. MaxTime /\ s.says[v] \in Catalog!Claims /\ MaxTime \in Nat
  BY DEF CatalogInvariant, Catalog!CatalogAssumption, Catalog!Snapshots
<1>1. /\ Catalog!Payload(s.says[v]) \in [claim : Catalog!Claims, complete : BOOLEAN]
      /\ Catalog!Payload(s.says[v]).claim = s.says[v]
  BY <1>0 DEF Catalog!Payload
<1>2. /\ Catalog!Row(s, v) \in Catalog!Rows /\ Catalog!Row(s, v).time = s.time
      /\ Catalog!Row(s, v).payload = Catalog!Payload(s.says[v])
  BY <1>0, <1>1 DEF Catalog!Row, Catalog!Rows
<1>3. ~Catalog!Conflict(s, v)
  BY DEF Catalog!Import
<1>4. rows[v] # None => rows[v] \in Catalog!Rows /\ rows[v].time \in Nat /\ s.time \in Nat
  BY <1>0 DEF Catalog!Rows
<1>9. (Catalog!Older(s, v) \/ Catalog!Same(s, v)) => ~Catalog!Reprojected(s, v)
  BY <1>4 DEF Catalog!Older, Catalog!Reprojected, Catalog!Same
<1>5. CASE Catalog!Older(s, v)
  <2>1. Catalog!NewRow(s, v) = rows[v]
    BY <1>5, <1>9 DEF Catalog!NewRow
  <2> QED
    BY <1>4, <1>5, <2>1 DEF Catalog!Older
<1>6. CASE ~Catalog!Older(s, v) /\ Catalog!Same(s, v)
  <2>1. Catalog!NewRow(s, v) = rows[v]
    BY <1>6, <1>9 DEF Catalog!NewRow
  <2> QED
    BY <1>1, <1>4, <1>6, <2>1 DEF Catalog!Same
<1>7. CASE Catalog!Reprojected(s, v)
  <2>1. Catalog!NewRow(s, v) = [rows[v] EXCEPT !.payload = Catalog!Payload(s.says[v])]
    BY <1>7 DEF Catalog!NewRow, Catalog!Reprojected, Catalog!Older, Catalog!Same
  <2>2. /\ Catalog!NewRow(s, v) \in Catalog!Rows /\ Catalog!NewRow(s, v).time = rows[v].time
        /\ Catalog!NewRow(s, v).payload = Catalog!Payload(s.says[v])
    BY <1>1, <1>4, <1>7, <2>1 DEF Catalog!Rows, Catalog!Reprojected
  <2> QED
    BY <1>1, <1>4, <1>7, <2>2 DEF Catalog!Reprojected
<1>8. CASE ~Catalog!Older(s, v) /\ ~Catalog!Same(s, v) /\ ~Catalog!Reprojected(s, v)
  <2>1. Catalog!NewRow(s, v) = Catalog!Row(s, v)
    BY <1>8 DEF Catalog!NewRow
  <2>2. rows[v] # None => rows[v].time # s.time /\ ~(rows[v].time > s.time)
    BY <1>3, <1>8 DEF Catalog!Conflict, Catalog!Older
  <2>3. rows[v] # None => rows[v].time < s.time
    BY <1>4, <2>2
  <2> QED
    BY <1>0, <1>1, <1>2, <1>4, <2>1, <2>3
<1> QED
  BY <1>5, <1>6, <1>7, <1>8

LEMMA CatalogStep ==
  ASSUME Catalog!CatalogAssumption, CatalogInvariant, [Catalog!Next]_Catalog!vars PROVE CatalogInvariant'
<1>0. /\ rows \in [Variants -> Catalog!Rows \cup {None}] /\ stored \subseteq Catalog!Snapshots
      /\ complete \in BOOLEAN /\ imports \in Nat /\ Catalog!NewestWins
  BY DEF CatalogInvariant
<1>1. CASE UNCHANGED Catalog!vars
  BY <1>0, <1>1 DEF Catalog!vars, CatalogInvariant, Catalog!NewestWins, Catalog!Saying
<1>2. CASE Catalog!Upgrade
  BY <1>0, <1>2 DEF Catalog!Upgrade, CatalogInvariant, Catalog!NewestWins, Catalog!Saying
<1>3. ASSUME NEW s \in Catalog!Snapshots, Catalog!Import(s) PROVE CatalogInvariant'
  <2>1. /\ rows' = [v \in Variants |-> Catalog!NewRow(s, v)] /\ stored' = stored \cup {s}
        /\ complete' = complete /\ imports' = imports + 1
    BY <1>3 DEF Catalog!Import
  <2>2. ASSUME NEW v \in Variants, s.says[v] = None PROVE Catalog!NewRow(s, v) = rows[v]
    <3>1. ~Catalog!Reprojected(s, v)
      BY <1>0, <2>2
         DEF Catalog!Reprojected, Catalog!Rows, Catalog!Claims, Catalog!CatalogAssumption
    <3> QED
      BY <2>2, <3>1 DEF Catalog!NewRow
  <2>3. rows' \in [Variants -> Catalog!Rows \cup {None}]
    BY <1>0, <1>3, <2>1, <2>2, Imported
  <2>4. ASSUME NEW v \in Variants, NEW t \in stored', t.says[v] # None
        PROVE  /\ rows'[v] # None /\ rows'[v].time >= t.time
               /\ rows'[v].time = t.time => rows'[v].payload.claim = t.says[v]
    <3>0. None \notin Catalog!Rows /\ t.time \in Nat /\ rows'[v] = Catalog!NewRow(s, v) /\ MaxTime \in Nat
      BY <1>0, <2>1, <2>4 DEF Catalog!CatalogAssumption, Catalog!Snapshots
    <3>1. CASE t = s
      BY <1>3, <2>4, <3>0, <3>1, Imported
    <3>2. CASE t \in stored
      <4>1. /\ rows[v] # None /\ rows[v].time >= t.time
            /\ rows[v].time = t.time => rows[v].payload.claim = t.says[v]
        BY <1>0, <2>4, <3>2 DEF Catalog!NewestWins, Catalog!Saying
      <4>2. CASE s.says[v] = None
        BY <2>2, <3>0, <4>1, <4>2
      <4>3. CASE s.says[v] # None
        <5>1. /\ Catalog!NewRow(s, v) \in Catalog!Rows /\ Catalog!NewRow(s, v).time >= rows[v].time
              /\ Catalog!NewRow(s, v).time = rows[v].time =>
                   Catalog!NewRow(s, v).payload.claim = rows[v].payload.claim
          BY <1>3, <4>1, <4>3, Imported
        <5>2. Catalog!NewRow(s, v).time \in Nat /\ rows[v].time \in Nat
          BY <1>0, <3>0, <4>1, <5>1 DEF Catalog!Rows
        <5> QED
          BY <3>0, <4>1, <5>1, <5>2
      <4> QED
        BY <4>2, <4>3
    <3> QED
      BY <2>1, <3>1, <3>2
  <2>5. Catalog!NewestWins'
    BY <2>4 DEF Catalog!NewestWins, Catalog!Saying
  <2> QED
    BY <1>0, <1>3, <2>1, <2>3, <2>5 DEF CatalogInvariant
<1> QED
  BY <1>1, <1>2, <1>3 DEF Catalog!Next

\* Whatever the order in which snapshots are imported, again and by later releases of the
\* code, a combination's row says what the newest accepted snapshots say of it.
THEOREM NewestIsKept == ASSUME Catalog!CatalogAssumption PROVE Catalog!Spec => []NewestWins
<1>1. CatalogInvariant => NewestWins
  BY DEF CatalogInvariant, NewestWins
<1> QED
  BY <1>1, CatalogInit, CatalogStep, PTL DEF Catalog!Spec

-----------------------------------------------------------------------------
(* Backups                                                                  *)

\* Finite sets are those of the instance too.
LEMMA SameFinite == \A S : Backup!IsFiniteSet(S) <=> IsFiniteSet(S)
  BY DEF Backup!IsFiniteSet, IsFiniteSet
LEMMA SameSize == \A S : Backup!Cardinality(S) = Cardinality(S)
  BY DEF Backup!Cardinality, Cardinality

Operations ==
    [phase : {"idle", "backup", "received", "checked", "listed", "present", "pruning", "thinning"},
     id : Ids \cup {None}, rows : SUBSET Ids, left : SUBSET Ids, since : Nat]
Stamps == [order : Nat, at : Nat, kind : {"hourly", "release"}]

\* Jobs that wrote to the bucket, and operations that back up or thin.
Wrote(i) == job[i] \in {"uploaded", "published", "done"}
BacksUp(x) == x.phase \in {"backup", "received", "checked"}
Thins(x) == x.phase \in {"listed", "present", "pruning", "thinning"}

\* An operation ends within its limit.
Timely(x) == x.phase # "idle" => x.since <= clock /\ clock <= x.since + Duration

\* The backup that an operation makes is its own, is not on record, and is not old.
Makes(x) ==
    BacksUp(x) =>
      /\ x.id \in Ids /\ job[x.id] # "none" /\ x.id \notin recorded
      /\ x.phase = "backup" => (Wrote(x.id) => made[x.id].at >= x.since)
      /\ x.phase # "backup" => job[x.id] = "gone" /\ made[x.id].at >= x.since
      /\ x.phase = "checked" => x.id \in data

\* What an operation that thins does not know is on record was made lately.
Knows(x) ==
    Thins(x) =>
      /\ x.rows \subseteq recorded
      /\ \A i \in manifest : i \notin x.rows => made[i].at + Duration >= x.since
      /\ x.phase = "thinning" => x.left \subseteq x.rows

BackupInvariant ==
    /\ data \subseteq Ids /\ manifest \subseteq recorded /\ recorded \subseteq Ids
    /\ job \in [Ids -> Backup!Phases] /\ made \in [Ids -> Stamps] /\ clock \in Nat
    /\ controller \in [Controllers -> Operations]
    /\ \A i \in recorded : job[i] = "gone"
    /\ \A c \in Controllers : Timely(controller[c]) /\ Makes(controller[c]) /\ Knows(controller[c])
    /\ \A c, d \in Controllers :
         BacksUp(controller[c]) /\ BacksUp(controller[d]) /\ controller[c].id = controller[d].id
           => c = d
    /\ Backup!RecordedIsThere

LEMMA BackupInit == ASSUME Backup!BackupConstants, Backup!Init PROVE BackupInvariant
<1>1. Backup!Idle \in Operations /\ Backup!Idle.phase = "idle"
  BY DEF Backup!Idle, Operations
<1>2. controller \in [Controllers -> Operations]
      /\ \A c \in Controllers : controller[c].phase = "idle"
  BY <1>1 DEF Backup!Init
<1>3. made \in [Ids -> Stamps] /\ job \in [Ids -> Backup!Phases]
  BY DEF Backup!Init, Stamps, Backup!Phases
<1> QED
  BY <1>2, <1>3
     DEF Backup!Init, BackupInvariant, Timely, Makes, Knows, BacksUp, Thins,
        Backup!RecordedIsThere

\* What jobs do: an archive is uploaded now, a job that is gone stays so.
LEMMA JobMoves ==
  ASSUME Backup!BackupConstants, BackupInvariant,
         UNCHANGED <<manifest, controller, clock, recorded>>,
         data \subseteq data', data' \subseteq Ids, job' \in [Ids -> Backup!Phases],
         made' \in [Ids -> Stamps],
         \A i \in Ids : /\ job[i] = "gone" => job'[i] = "gone" /\ made'[i].at = made[i].at
                        /\ job[i] # "none" => job'[i] # "none"
                        /\ Wrote(i)' => \/ Wrote(i) /\ made'[i].at = made[i].at
                                        \/ made'[i].at = clock
  PROVE  BackupInvariant'
<1>0. /\ \A c \in Controllers : /\ controller[c] \in Operations /\ Timely(controller[c])
                                /\ Makes(controller[c]) /\ Knows(controller[c])
      /\ clock \in Nat /\ manifest \subseteq recorded /\ recorded \subseteq Ids
      /\ \A i \in recorded : job[i] = "gone"
  BY DEF BackupInvariant
<1>1. ASSUME NEW c \in Controllers PROVE Makes(controller[c])'
  <2>1. PICK x \in Operations : /\ x = controller[c] /\ controller'[c] = x
                                /\ Timely(x) /\ Makes(x) /\ x.since \in Nat
    BY <1>0 DEF Operations
  <2>2. CASE BacksUp(x)
    <3>1. x.id \in Ids /\ x.since <= clock
      BY <2>1, <2>2 DEF Makes, BacksUp, Timely
    <3>2. /\ job[x.id] # "none" /\ x.id \notin recorded
          /\ x.phase = "backup" => (Wrote(x.id) => made[x.id].at >= x.since)
          /\ x.phase # "backup" => job[x.id] = "gone" /\ made[x.id].at >= x.since
          /\ x.phase = "checked" => x.id \in data
      BY <2>1, <2>2 DEF Makes
    <3>3. x.phase = "backup" => (Wrote(x.id)' => made'[x.id].at >= x.since)
      BY <3>1, <3>2, <1>0, <2>1
    <3> QED
      BY <2>1, <3>1, <3>2, <3>3 DEF Makes, Wrote
  <2>3. CASE ~BacksUp(x)
    BY <2>1, <2>3 DEF Makes, BacksUp
  <2> QED
    BY <2>2, <2>3
<1>2. ASSUME NEW c \in Controllers PROVE Knows(controller[c])'
  <2>1. \A i \in manifest : made'[i].at = made[i].at
    BY <1>0
  <2> QED
    BY <1>0, <2>1 DEF Knows, Thins
<1>3. \A c \in Controllers : Timely(controller[c])'
  BY <1>0 DEF Timely
<1>4. \A i \in recorded : job'[i] = "gone"
  BY <1>0
<1> QED
  BY <1>1, <1>2, <1>3, <1>4 DEF BackupInvariant, Backup!RecordedIsThere, BacksUp

LEMMA Jobs ==
  ASSUME Backup!BackupConstants, BackupInvariant,
         \/ \E i \in Ids : Backup!JobStep(i) \/ Backup!JobFails(i)
         \/ \E p \in prunes : Backup!PruneStep(p)
         \/ Backup!MachineRestarts \/ UNCHANGED Backup!vars
  PROVE  BackupInvariant'
<1>0. /\ data \subseteq Ids /\ job \in [Ids -> Backup!Phases] /\ made \in [Ids -> Stamps]
      /\ clock \in Nat
      /\ \A i \in Ids : made[i] \in Stamps
  BY DEF BackupInvariant
<1>1. ASSUME UNCHANGED <<Backup!bucket, controller, clock, recorded, job, made>>
      PROVE BackupInvariant'
  BY <1>0, <1>1, JobMoves DEF Backup!bucket, Wrote
<1>2. ASSUME NEW i \in Ids, Backup!Upload(i) PROVE BackupInvariant'
  <2> DEFINE x == [made[i] EXCEPT !.at = clock]
  <2>1. /\ job' = [job EXCEPT ![i] = "uploaded"] /\ job[i] = "copying" /\ data' = data \cup {i}
        /\ made' = [made EXCEPT ![i] = x] /\ UNCHANGED <<manifest, controller, clock, recorded>>
    BY <1>2 DEF Backup!Upload, Backup!Becomes
  <2>2. x \in Stamps /\ x.at = clock
    BY <1>0 DEF Stamps
  <2> HIDE DEF x
  <2>3. made' \in [Ids -> Stamps] /\ job' \in [Ids -> Backup!Phases]
    BY <1>0, <2>1, <2>2 DEF Backup!Phases
  <2>4. \A j \in Ids : /\ job[j] = "gone" => job'[j] = "gone" /\ made'[j].at = made[j].at
                       /\ job[j] # "none" => job'[j] # "none"
                       /\ Wrote(j)' => \/ Wrote(j) /\ made'[j].at = made[j].at
                                       \/ made'[j].at = clock
    BY <1>0, <2>1, <2>2 DEF Wrote
  <2> QED
    BY <1>0, <2>1, <2>3, <2>4, JobMoves
<1>3. ASSUME NEW i \in Ids, Backup!Mark(i) PROVE BackupInvariant'
  <2> DEFINE n == 1 + Backup!Cardinality({j \in Ids : made[j].order > 0})
             x == [made[i] EXCEPT !.order = n]
  <2>1. /\ job' = [job EXCEPT ![i] = "done"] /\ job[i] = "published" /\ data' = data
        /\ made' = [made EXCEPT ![i] = x] /\ UNCHANGED <<manifest, controller, clock, recorded>>
    BY <1>3 DEF Backup!Mark, Backup!Becomes, Backup!bucket
  <2>2. n \in Nat
    <3>1. IsFiniteSet({j \in Ids : made[j].order > 0})
      BY FS_Subset, SameFinite DEF Backup!BackupConstants
    <3> QED
      BY <3>1, FS_CardinalityType, SameSize
  <2> HIDE DEF n
  <2>3. x \in Stamps /\ x.at = made[i].at
    BY <1>0, <2>2 DEF Stamps
  <2> HIDE DEF x
  <2>4. made' \in [Ids -> Stamps] /\ job' \in [Ids -> Backup!Phases]
    BY <1>0, <2>1, <2>3 DEF Backup!Phases
  <2>5. \A j \in Ids : /\ job[j] = "gone" => job'[j] = "gone" /\ made'[j].at = made[j].at
                       /\ job[j] # "none" => job'[j] # "none"
                       /\ Wrote(j)' => Wrote(j) /\ made'[j].at = made[j].at
    BY <1>0, <2>1, <2>3 DEF Wrote
  <2> QED
    BY <1>0, <2>1, <2>4, <2>5, JobMoves
<1>4. ASSUME NEW i \in Ids, NEW v \in Backup!Phases \ {"none", "uploaded", "done"}, Backup!Becomes(i, v),
             job[i] \notin {"none", "gone"}, v = "published" => job[i] = "uploaded",
             UNCHANGED <<Backup!bucket, controller, made, clock, recorded>>
      PROVE  BackupInvariant'
  <2>1. job' = [job EXCEPT ![i] = v]
    BY <1>4 DEF Backup!Becomes
  <2>2. job' \in [Ids -> Backup!Phases]
    BY <1>0, <2>1
  <2>3. \A j \in Ids : /\ job[j] = "gone" => job'[j] = "gone"
                       /\ job[j] # "none" => job'[j] # "none"
                       /\ Wrote(j)' => Wrote(j)
    BY <1>0, <1>4, <2>1 DEF Wrote
  <2> QED
    BY <1>0, <1>4, <2>2, <2>3, JobMoves DEF Backup!bucket
<1>5. ASSUME NEW i \in Ids, Backup!JobStep(i) \/ Backup!JobFails(i) PROVE BackupInvariant'
  <2>1. ASSUME Backup!JobFails(i) PROVE BackupInvariant'
    <3>1. job[i] \notin {"none", "gone"}
      BY <2>1 DEF Backup!JobFails, Backup!Locking
    <3> QED
      BY <1>4, <2>1, <3>1 DEF Backup!JobFails, Backup!Phases
  <2>2. ASSUME Backup!Start(i) \/ Backup!Lock(i) \/ Backup!LockTimesOut(i) \/ Backup!Publish(i)
        PROVE BackupInvariant'
    BY <1>4, <2>2
       DEF Backup!Start, Backup!Lock, Backup!LockTimesOut, Backup!Publish, Backup!Phases
  <2> QED
    BY <1>2, <1>3, <1>5, <2>1, <2>2 DEF Backup!JobStep
<1>6. ASSUME Backup!MachineRestarts PROVE BackupInvariant'
  <2>1. /\ job' = [i \in Ids |-> IF job[i] \in {"none", "sent"} THEN job[i] ELSE "gone"]
        /\ UNCHANGED <<data, manifest, controller, made, clock, recorded>>
    BY <1>6 DEF Backup!MachineRestarts, Backup!bucket
  <2>2. job' \in [Ids -> Backup!Phases]
    BY <1>0, <2>1 DEF Backup!Phases
  <2>3. \A j \in Ids : /\ job[j] = "gone" => job'[j] = "gone"
                       /\ job[j] # "none" => job'[j] # "none"
                       /\ ~Wrote(j)'
    BY <2>1 DEF Wrote
  <2> QED
    BY <1>0, <2>1, <2>2, <2>3, JobMoves
<1>7. ASSUME NEW p \in prunes, Backup!PruneStep(p) PROVE BackupInvariant'
  BY <1>1, <1>7
     DEF Backup!PruneStep, Backup!PruneStarts, Backup!PruneEnds, Backup!PruneArchive,
        Backup!PruneMarker
<1> QED
  BY <1>1, <1>5, <1>6, <1>7 DEF Backup!vars, Backup!bucket

\* What controllers do: one operation goes on as x, and what is taken from the bucket is
\* neither on record nor checked by another.
LEMMA ControllerMoves ==
  ASSUME Backup!BackupConstants, BackupInvariant, NEW c \in Controllers, NEW x \in Operations,
         controller' = [controller EXCEPT ![c] = x],
         UNCHANGED <<clock, recorded>>, made' \in [Ids -> Stamps],
         \A i \in Ids : made'[i].at = made[i].at,
         manifest' \subseteq manifest, manifest' \subseteq data', data' \subseteq data,
         \A d \in Controllers \ {c} :
           controller[d].phase = "checked" => controller[d].id \in data',
         job' \in [Ids -> Backup!Phases],
         \A i \in Ids : /\ job[i] = "gone" => job'[i] = "gone"
                        /\ job[i] # "none" => job'[i] # "none"
                        /\ Wrote(i)' => Wrote(i),
         Timely(x), Makes(x)', Knows(x)',
         BacksUp(x) => \A d \in Controllers \ {c} :
                         BacksUp(controller[d]) => x.id # controller[d].id
  PROVE  BackupInvariant'
<1>0. /\ controller \in [Controllers -> Operations] /\ clock \in Nat
      /\ \A d \in Controllers :
           Timely(controller[d]) /\ Makes(controller[d]) /\ Knows(controller[d])
      /\ manifest \subseteq recorded /\ recorded \subseteq Ids
      /\ \A i \in recorded : job[i] = "gone"
      /\ data \subseteq Ids
      /\ \A d, e \in Controllers :
           BacksUp(controller[d]) /\ BacksUp(controller[e]) /\ controller[d].id = controller[e].id
             => d = e
  BY DEF BackupInvariant
<1>1. /\ controller' \in [Controllers -> Operations] /\ controller'[c] = x
      /\ \A d \in Controllers \ {c} : controller'[d] = controller[d]
  BY <1>0
<1>2. ASSUME NEW d \in Controllers
      PROVE  Timely(controller[d])' /\ Makes(controller[d])' /\ Knows(controller[d])'
  <2>1. CASE d = c
    BY <1>1, <2>1 DEF Timely, Makes, Knows, BacksUp, Thins
  <2>2. CASE d # c
    <3>1. PICK y \in Operations : y = controller[d] /\ controller'[d] = y
      BY <1>0, <1>1, <2>2
    <3>2. Timely(y) /\ Makes(y) /\ Knows(y) /\ (y.phase = "checked" => y.id \in data')
      BY <1>0, <2>2, <3>1
    <3>3. Timely(y)' /\ Knows(y)'
      BY <1>0, <3>2 DEF Timely, Knows, Thins
    <3>4. Makes(y)'
      <4>1. CASE BacksUp(y)
        <5>1. y.id \in Ids
          BY <3>2, <4>1 DEF Makes
        <5>2. /\ job[y.id] = "gone" => job'[y.id] = "gone"
              /\ job[y.id] # "none" => job'[y.id] # "none"
              /\ Wrote(y.id)' => Wrote(y.id)
          BY <5>1
        <5> QED
          BY <3>2, <4>1, <5>1, <5>2 DEF Makes, BacksUp
      <4>2. CASE ~BacksUp(y)
        BY <4>2 DEF Makes, BacksUp
      <4> QED
        BY <4>1, <4>2
    <3> QED
      BY <3>1, <3>3, <3>4 DEF Timely, Makes, Knows, BacksUp, Thins
  <2> QED
    BY <2>1, <2>2
<1>3. \A d, e \in Controllers :
        BacksUp(controller'[d]) /\ BacksUp(controller'[e]) /\ controller'[d].id = controller'[e].id
          => d = e
  BY <1>0, <1>1
<1>4. \A i \in recorded : job'[i] = "gone"
  BY <1>0
<1>5. manifest' \subseteq recorded /\ data' \subseteq Ids
  BY <1>0
<1> QED
  BY <1>0, <1>1, <1>2, <1>3, <1>4, <1>5 DEF BackupInvariant, Backup!RecordedIsThere, BacksUp

\* The operation of a controller, with what is known of it.
LEMMA Operation ==
  ASSUME Backup!BackupConstants, BackupInvariant, NEW c \in Controllers
  PROVE  /\ controller[c] \in Operations /\ Timely(controller[c]) /\ Makes(controller[c])
         /\ Knows(controller[c]) /\ clock \in Nat /\ Duration \in Nat /\ Grace \in Nat
         /\ manifest \subseteq data /\ manifest \subseteq recorded /\ recorded \subseteq Ids
         /\ \A d \in Controllers \ {c} :
              BacksUp(controller[c]) /\ BacksUp(controller[d]) => controller[c].id # controller[d].id
         /\ \A d \in Controllers : controller[d].phase = "checked" => controller[d].id \in data
         /\ job \in [Ids -> Backup!Phases] /\ made \in [Ids -> Stamps]
  BY DEF Backup!BackupConstants, BackupInvariant, Backup!RecordedIsThere, Makes, BacksUp

LEMMA StopsIdle ==
  ASSUME Backup!BackupConstants, BackupInvariant, NEW c \in Controllers, Backup!Stops(c),
         UNCHANGED <<Backup!bucket, job, clock, recorded, made>>
  PROVE  BackupInvariant'
<1>1. Backup!Idle \in Operations /\ Backup!Idle.phase = "idle"
  BY DEF Backup!Idle, Operations
<1>2. Timely(Backup!Idle) /\ Makes(Backup!Idle)' /\ Knows(Backup!Idle)' /\ ~BacksUp(Backup!Idle)
  BY <1>1 DEF Timely, Makes, Knows, BacksUp, Thins
<1>3. controller' = [controller EXCEPT ![c] = Backup!Idle]
  BY DEF Backup!Stops
<1> QED
  BY <1>1, <1>2, <1>3, Operation, ControllerMoves DEF Backup!bucket, Wrote

LEMMA Backing ==
  ASSUME Backup!BackupConstants, BackupInvariant, NEW c \in Controllers,
         (\E i \in Ids : Backup!Backup(c, i)) \/ Backup!Polled(c) \/ Backup!Head(c)
  PROVE  BackupInvariant'
<1>0. PICK y \in Operations :
        /\ y = controller[c] /\ Timely(y) /\ Makes(y) /\ Knows(y)
        /\ \A d \in Controllers \ {c} :
             BacksUp(y) /\ BacksUp(controller[d]) => y.id # controller[d].id
  BY Operation
<1>t. /\ clock \in Nat /\ Duration \in Nat /\ manifest \subseteq data
      /\ job \in [Ids -> Backup!Phases]
      /\ made \in [Ids -> Stamps]
      /\ \A d \in Controllers : controller[d].phase = "checked" => controller[d].id \in data
      /\ \A d \in Controllers : Makes(controller[d])
  BY Operation
<1>1. ASSUME NEW i \in Ids, Backup!Backup(c, i) PROVE BackupInvariant'
  <2>0. PICK x : x = [Backup!Idle EXCEPT !.phase = "backup", !.id = i, !.since = clock]
    OBVIOUS
  <2> DEFINE k == IF c \in Releases THEN "release" ELSE "hourly"
             z == [made[i] EXCEPT !.kind = k]
  <2>1. /\ controller' = [controller EXCEPT ![c] = x] /\ job[i] = "none"
        /\ job' = [job EXCEPT ![i] = "sent"] /\ made' = [made EXCEPT ![i] = z]
        /\ UNCHANGED <<data, manifest, clock, recorded>>
    BY <1>1, <2>0 DEF Backup!Backup, Backup!Becomes, Backup!bucket
  <2>2. Backup!Idle \in Operations
    BY DEF Backup!Idle, Operations
  <2>3. x \in Operations /\ x.phase = "backup" /\ x.id = i /\ x.since = clock
    BY <1>t, <2>0, <2>2 DEF Operations
  <2>4. k \in {"hourly", "release"}
    OBVIOUS
  <2> HIDE DEF k
  <2>5. z \in Stamps /\ z.at = made[i].at
    BY <1>t, <2>4 DEF Stamps
  <2> HIDE DEF z
  <2>6. made' \in [Ids -> Stamps] /\ \A j \in Ids : made'[j].at = made[j].at
    BY <1>t, <2>1, <2>5
  <2>7. /\ job' \in [Ids -> Backup!Phases] /\ job'[i] = "sent"
        /\ \A j \in Ids : /\ job[j] = "gone" => job'[j] = "gone"
                          /\ job[j] # "none" => job'[j] # "none"
                          /\ Wrote(j)' => Wrote(j)
    BY <1>t, <2>1 DEF Wrote, Backup!Phases
  <2>8. i \notin recorded
    BY <2>1 DEF BackupInvariant
  <2>9. Timely(x) /\ ~Thins(x) /\ BacksUp(x)
    BY <1>t, <2>3 DEF Timely, Thins, BacksUp
  <2>10. Knows(x)'
    BY <2>9 DEF Knows, Thins
  <2>11. Makes(x)'
    BY <2>1, <2>3, <2>7, <2>8 DEF Makes, Wrote
  <2>12. \A d \in Controllers \ {c} : BacksUp(controller[d]) => x.id # controller[d].id
    BY <1>t, <2>1, <2>3 DEF Makes
  <2> QED
    BY <1>t, <2>1, <2>3, <2>6, <2>7, <2>9, <2>10, <2>11, <2>12, ControllerMoves
<1>2. ASSUME Backup!Polled(c), ~Backup!Stops(c) PROVE BackupInvariant'
  <2>0. PICK x : x = [y EXCEPT !.phase = "received"]
    OBVIOUS
  <2>1. /\ controller' = [controller EXCEPT ![c] = x] /\ y.phase = "backup" /\ job[y.id] = "done"
        /\ job' = [job EXCEPT ![y.id] = "gone"]
        /\ UNCHANGED <<data, manifest, made, clock, recorded>>
    BY <1>0, <1>2, <2>0 DEF Backup!Polled, Backup!Goes, Backup!Becomes, Backup!bucket
  <2>2. x \in Operations /\ x.phase = "received" /\ x.id = y.id /\ x.since = y.since
    BY <1>0, <2>0 DEF Operations
  <2>3. y.id \in Ids /\ y.id \notin recorded /\ made[y.id].at >= y.since
    BY <1>0, <2>1 DEF Makes, BacksUp, Wrote
  <2>4. /\ job' \in [Ids -> Backup!Phases] /\ job'[y.id] = "gone"
        /\ \A j \in Ids : /\ job[j] = "gone" => job'[j] = "gone"
                          /\ job[j] # "none" => job'[j] # "none"
                          /\ Wrote(j)' => Wrote(j)
    BY <1>t, <2>1, <2>3 DEF Wrote, Backup!Phases
  <2>5. Timely(x) /\ Knows(x)' /\ Makes(x)'
    BY <1>0, <2>1, <2>2, <2>3, <2>4 DEF Timely, Knows, Makes, Thins
  <2>6. \A d \in Controllers \ {c} : BacksUp(controller[d]) => x.id # controller[d].id
    BY <1>0, <2>1, <2>2 DEF BacksUp
  <2> QED
    BY <1>t, <2>1, <2>2, <2>4, <2>5, <2>6, ControllerMoves
<1>3. ASSUME Backup!Head(c), ~Backup!Stops(c) PROVE BackupInvariant'
  <2>0. PICK x : x = [y EXCEPT !.phase = "checked"]
    OBVIOUS
  <2>1. /\ controller' = [controller EXCEPT ![c] = x] /\ y.phase = "received" /\ y.id \in data
        /\ UNCHANGED <<data, manifest, made, clock, recorded, job>>
    BY <1>0, <1>3, <2>0 DEF Backup!Head, Backup!Goes, Backup!bucket
  <2>2. x \in Operations /\ x.phase = "checked" /\ x.id = y.id /\ x.since = y.since
    BY <1>0, <2>0 DEF Operations
  <2>3. Timely(x) /\ Knows(x)' /\ Makes(x)'
    BY <1>0, <2>1, <2>2 DEF Timely, Knows, Makes, Thins, BacksUp
  <2>4. \A d \in Controllers \ {c} : BacksUp(controller[d]) => x.id # controller[d].id
    BY <1>0, <2>1, <2>2 DEF BacksUp
  <2>5. \A j \in Ids : Wrote(j)' => Wrote(j)
    BY <2>1 DEF Wrote
  <2> QED
    BY <1>t, <2>1, <2>2, <2>3, <2>4, <2>5, ControllerMoves
<1>4. ASSUME Backup!Stops(c), Backup!Polled(c) \/ Backup!Head(c) PROVE BackupInvariant'
  <2>1. UNCHANGED <<Backup!bucket, clock, recorded, made>>
    BY <1>4 DEF Backup!Polled, Backup!Head
  <2>2. CASE UNCHANGED job
    BY <1>4, <2>1, <2>2, StopsIdle
  <2>3. CASE Backup!Polled(c) /\ job[controller[c].id] = "done" /\ Backup!Goes(c, "received")
    <3>1. controller' = [controller EXCEPT ![c] = Backup!Idle] /\ Backup!Idle.phase = "idle"
      BY <1>4 DEF Backup!Stops, Backup!Idle
    <3>2. controller'[c].phase = "received" /\ controller'[c].phase = "idle"
      BY <2>3, <3>1 DEF Backup!Goes, BackupInvariant, Operations
    <3> QED
      BY <3>2
  <2> QED
    BY <1>4, <2>2, <2>3 DEF Backup!Polled, Backup!Head
<1> QED
  BY <1>1, <1>2, <1>3, <1>4

\* A backup goes on record that was made within the limit of its operation: it is recent
\* to every operation that thins.
LEMMA Recording ==
  ASSUME Backup!BackupConstants, BackupInvariant, NEW c \in Controllers, Backup!Record(c)
  PROVE  BackupInvariant'
<1>0. PICK y \in Operations :
        /\ y = controller[c] /\ y.phase = "checked" /\ Timely(y) /\ Makes(y)
        /\ \A d \in Controllers \ {c} :
             BacksUp(y) /\ BacksUp(controller[d]) => y.id # controller[d].id
  BY Operation DEF Backup!Record
<1>1. /\ y.id \in Ids /\ y.id \in data /\ job[y.id] = "gone" /\ made[y.id].at >= y.since
      /\ clock <= y.since + Duration
  BY <1>0 DEF Makes, BacksUp, Timely
<1>2. /\ controller' = [controller EXCEPT ![c] = Backup!Idle] /\ manifest' = manifest \cup {y.id}
      /\ recorded' = recorded \cup {y.id} /\ UNCHANGED <<data, job, made, clock>>
  BY <1>0 DEF Backup!Record, Backup!Stops
<1>3. /\ controller \in [Controllers -> Operations] /\ clock \in Nat /\ Duration \in Nat
      /\ \A d \in Controllers :
           Timely(controller[d]) /\ Makes(controller[d]) /\ Knows(controller[d])
      /\ manifest \subseteq recorded /\ recorded \subseteq Ids
      /\ \A i \in recorded : job[i] = "gone"
      /\ data \subseteq Ids /\ made \in [Ids -> Stamps] /\ manifest \subseteq data
      /\ job \in [Ids -> Backup!Phases]
      /\ \A d, e \in Controllers :
           BacksUp(controller[d]) /\ BacksUp(controller[e]) /\ controller[d].id = controller[e].id
             => d = e
  BY DEF BackupInvariant, Backup!BackupConstants, Backup!RecordedIsThere
<1>4. Backup!Idle \in Operations /\ Backup!Idle.phase = "idle"
  BY DEF Backup!Idle, Operations
<1>5. /\ controller' \in [Controllers -> Operations] /\ controller'[c].phase = "idle"
      /\ \A d \in Controllers \ {c} : controller'[d] = controller[d]
  BY <1>2, <1>3, <1>4
<1>6. made[y.id].at + Duration >= clock
  <2>1. made[y.id].at \in Nat /\ y.since \in Nat
    BY <1>0, <1>1, <1>3 DEF Stamps, Operations
  <2> QED
    BY <1>1, <1>3, <2>1
<1>7. ASSUME NEW d \in Controllers
      PROVE  Timely(controller[d])' /\ Makes(controller[d])' /\ Knows(controller[d])'
  <2>1. CASE d = c
    BY <1>5, <2>1 DEF Timely, Makes, Knows, BacksUp, Thins
  <2>2. CASE d # c
    <3>1. PICK z \in Operations : z = controller[d] /\ controller'[d] = z
      BY <1>3, <1>5, <2>2
    <3>2. Timely(z) /\ Makes(z) /\ Knows(z) /\ (BacksUp(z) => z.id # y.id)
      BY <1>0, <1>3, <2>2, <3>1 DEF BacksUp
    <3>3. Timely(z)' /\ Makes(z)'
      BY <1>2, <3>2 DEF Timely, Makes, BacksUp, Wrote
    <3>4. Knows(z)'
      <4>1. CASE Thins(z)
        <5>1. z.since <= clock /\ z.since \in Nat
          BY <3>1, <3>2, <4>1 DEF Timely, Thins, Operations
        <5>2. made[y.id].at \in Nat
          BY <1>1, <1>3 DEF Stamps
        <5>3. made[y.id].at + Duration >= z.since
          BY <1>3, <1>6, <5>1, <5>2
        <5> QED
          BY <1>2, <3>2, <4>1, <5>3 DEF Knows, Thins
      <4>2. CASE ~Thins(z)
        BY <4>2 DEF Knows, Thins
      <4> QED
        BY <4>1, <4>2
    <3> QED
      BY <3>1, <3>3, <3>4 DEF Timely, Makes, Knows, BacksUp, Thins
  <2> QED
    BY <2>1, <2>2
<1>8. \A d, e \in Controllers :
        BacksUp(controller'[d]) /\ BacksUp(controller'[e]) /\ controller'[d].id = controller'[e].id
          => d = e
  BY <1>3, <1>5 DEF BacksUp
<1>9. manifest' \subseteq data' /\ manifest' \subseteq recorded' /\ recorded' \subseteq Ids
      /\ \A i \in recorded' : job'[i] = "gone"
  BY <1>1, <1>2, <1>3
<1> QED
  BY <1>2, <1>3, <1>5, <1>7, <1>8, <1>9 DEF BackupInvariant, Backup!RecordedIsThere, BacksUp

LEMMA Thinning ==
  ASSUME Backup!BackupConstants, BackupInvariant, NEW c \in Controllers,
         \/ Backup!Listed(c) \/ Backup!Present(c) \/ Backup!Prune(c) \/ Backup!Pruned(c)
         \/ Backup!PruneFailed(c)
         \/ Backup!ControllerStops(c) \/ Backup!Sweep(c) \/ \E i \in Ids : Backup!Thin(c, i)
  PROVE  BackupInvariant'
<1>0. PICK y \in Operations :
        /\ y = controller[c] /\ Timely(y) /\ Makes(y) /\ Knows(y)
        /\ \A d \in Controllers \ {c} :
             BacksUp(y) /\ BacksUp(controller[d]) => y.id # controller[d].id
  BY Operation
<1>t. /\ clock \in Nat /\ Duration \in Nat /\ manifest \subseteq data
      /\ job \in [Ids -> Backup!Phases]
      /\ made \in [Ids -> Stamps] /\ manifest \subseteq recorded /\ recorded \subseteq Ids
      /\ \A d \in Controllers : controller[d].phase = "checked" => controller[d].id \in data
  BY Operation
<1>1. ASSUME NEW x \in Operations, controller' = [controller EXCEPT ![c] = x],
             UNCHANGED <<Backup!bucket, job, made, clock, recorded>>, ~BacksUp(x), Timely(x), Knows(x)
      PROVE  BackupInvariant'
  <2>1. Makes(x)' /\ Knows(x)' /\ \A i \in Ids : Wrote(i)' => Wrote(i)
    BY <1>1 DEF Makes, BacksUp, Knows, Thins, Wrote, Backup!bucket
  <2> QED
    BY <1>1, <1>t, <2>1, ControllerMoves DEF Backup!bucket
<1>2. ASSUME Backup!Listed(c) PROVE BackupInvariant'
  <2>1. Backup!Idle \in Operations /\ Backup!Idle.phase = "idle" /\ Backup!Idle.rows = {}
    BY DEF Backup!Idle, Operations
  <2>2. CASE manifest \subseteq data
    <3>1. PICK x : x = [Backup!Idle EXCEPT !.phase = "listed", !.rows = manifest, !.since = clock]
      OBVIOUS
    <3>2. x \in Operations /\ x.phase = "listed" /\ x.rows = manifest /\ x.since = clock
      BY <1>t, <2>1, <3>1 DEF Operations
    <3>3. ~BacksUp(x) /\ Timely(x) /\ Knows(x)
      BY <1>t, <3>2 DEF BacksUp, Timely, Knows, Thins
    <3>4. controller' = [controller EXCEPT ![c] = x] /\ UNCHANGED <<Backup!bucket, job, made, clock, recorded>>
      BY <1>2, <2>2, <3>1 DEF Backup!Listed
    <3> QED
      BY <1>1, <3>2, <3>3, <3>4
  <2> QED
    BY <1>t, <2>2
<1>3. ASSUME Backup!Present(c), ~Backup!Stops(c) PROVE BackupInvariant'
  <2>1. PICK l \in SUBSET y.rows : controller' = [controller EXCEPT ![c].phase = "present", ![c].left = l]
    BY <1>0, <1>3 DEF Backup!Present
  <2>2. PICK x : x = [y EXCEPT !.phase = "present", !.left = l]
    OBVIOUS
  <2>3. controller' = [controller EXCEPT ![c] = x]
    BY <1>0, <2>1, <2>2 DEF BackupInvariant
  <2>4. x \in Operations /\ x.phase = "present" /\ x.rows = y.rows /\ x.since = y.since
    BY <1>0, <2>1, <2>2 DEF Operations
  <2>5. y.phase = "listed" /\ UNCHANGED <<Backup!bucket, job, made, clock, recorded>>
    BY <1>0, <1>3 DEF Backup!Present
  <2>6. ~BacksUp(x) /\ Timely(x) /\ Knows(x)
    BY <1>0, <2>4, <2>5 DEF BacksUp, Timely, Knows, Thins
  <2> QED
    BY <1>1, <2>3, <2>4, <2>5, <2>6
<1>4. ASSUME Backup!Prune(c) PROVE BackupInvariant'
  <2>1. PICK x : x = [y EXCEPT !.phase = "pruning"]
    OBVIOUS
  <2>2. /\ controller' = [controller EXCEPT ![c] = x] /\ y.phase = "present"
        /\ UNCHANGED <<Backup!bucket, job, made, clock, recorded>>
    BY <1>0, <1>4, <2>1 DEF Backup!Prune, Backup!Goes
  <2>3. x \in Operations /\ x.phase = "pruning" /\ x.rows = y.rows /\ x.since = y.since
    BY <1>0, <2>1 DEF Operations
  <2>4. ~BacksUp(x) /\ Timely(x) /\ Knows(x)
    BY <1>0, <2>2, <2>3 DEF BacksUp, Timely, Knows, Thins
  <2> QED
    BY <1>1, <2>2, <2>3, <2>4
<1>5. ASSUME Backup!Pruned(c) PROVE BackupInvariant'
  <2>1. /\ controller' = [controller EXCEPT ![c].phase = "thinning", ![c].left = Backup!Unwanted(y.rows)]
        /\ y.phase = "pruning" /\ UNCHANGED <<Backup!bucket, job, made, clock, recorded>>
    BY <1>0, <1>5 DEF Backup!Pruned
  <2>2. PICK l \in SUBSET y.rows : l = Backup!Unwanted(y.rows)
    BY DEF Backup!Unwanted
  <2>3. PICK x : x = [y EXCEPT !.phase = "thinning", !.left = l]
    OBVIOUS
  <2>4. controller' = [controller EXCEPT ![c] = x]
    BY <1>0, <2>1, <2>2, <2>3 DEF BackupInvariant
  <2>5. x \in Operations /\ x.phase = "thinning" /\ x.rows = y.rows /\ x.since = y.since /\ x.left = l
    BY <1>0, <2>2, <2>3 DEF Operations
  <2>6. ~BacksUp(x) /\ Timely(x) /\ Knows(x)
    BY <1>0, <2>1, <2>2, <2>5 DEF BacksUp, Timely, Knows, Thins
  <2> QED
    BY <1>1, <2>1, <2>4, <2>5, <2>6
<1>6. ASSUME Backup!Stops(c), Backup!Present(c) \/ Backup!PruneFailed(c) \/ Backup!ControllerStops(c) PROVE BackupInvariant'
  <2>1. UNCHANGED <<Backup!bucket, job, clock, recorded, made>>
    BY <1>6 DEF Backup!Present, Backup!PruneFailed, Backup!ControllerStops
  <2> QED
    BY <1>6, <2>1, StopsIdle
<1>7. ASSUME NEW i \in Ids, Backup!Thin(c, i) PROVE BackupInvariant'
  <2>1. /\ y.phase = "thinning" /\ i \in y.left /\ UNCHANGED <<job, made, clock, recorded>>
        /\ i \in recorded
    BY <1>0, <1>7 DEF Backup!Thin, Knows, Thins
  <2>2. \A j \in Ids : Wrote(j)' => Wrote(j)
    BY <2>1 DEF Wrote
  <2>3. CASE i \in manifest /\ manifest' = manifest \ {i} /\ UNCHANGED <<data, controller>>
    <3>1. controller' = [controller EXCEPT ![c] = y]
      BY <1>0, <2>3 DEF BackupInvariant
    <3>2. Timely(y) /\ Makes(y)' /\ Knows(y)' /\ ~BacksUp(y)
      BY <1>0, <2>1, <2>3 DEF Timely, Makes, Knows, BacksUp, Thins
    <3> QED
      BY <1>t, <2>1, <2>2, <2>3, <3>1, <3>2, ControllerMoves
  <2>4. CASE /\ i \notin manifest /\ data' = data \ {i} /\ UNCHANGED manifest
             /\ controller' = [controller EXCEPT ![c].left = @ \ {i}]
    <3>1. PICK x : x = [y EXCEPT !.left = y.left \ {i}]
      OBVIOUS
    <3>2. controller' = [controller EXCEPT ![c] = x]
      BY <1>0, <2>4, <3>1 DEF BackupInvariant
    <3>3. /\ x \in Operations /\ x.phase = "thinning" /\ x.rows = y.rows /\ x.since = y.since
          /\ x.left \subseteq y.left
      BY <1>0, <2>1, <3>1 DEF Operations
    <3>4. Timely(x) /\ Makes(x)' /\ Knows(x)' /\ ~BacksUp(x)
      BY <1>0, <2>1, <2>4, <3>3 DEF Timely, Makes, Knows, BacksUp, Thins
    <3>5. \A d \in Controllers \ {c} :
            controller[d].phase = "checked" => controller[d].id \in data'
      <4>1. ASSUME NEW d \in Controllers, controller[d].phase = "checked"
            PROVE controller[d].id # i
        BY <2>1, <4>1, Operation DEF Makes, BacksUp
      <4> QED
        BY <1>t, <2>4, <4>1
    <3>6. manifest' \subseteq manifest /\ manifest' \subseteq data' /\ data' \subseteq data
      BY <1>t, <2>4
    <3> QED
      BY <1>t, <2>1, <2>2, <3>2, <3>3, <3>4, <3>5, <3>6, ControllerMoves
  <2> QED
    BY <1>7, <2>3, <2>4 DEF Backup!Thin
<1>8. ASSUME Backup!Sweep(c) PROVE BackupInvariant'
  <2>1. /\ y.phase = "thinning" /\ controller' = [controller EXCEPT ![c] = Backup!Idle]
        /\ data' = data \ Backup!Orphans(c) /\ UNCHANGED <<manifest, job, made, clock, recorded>>
    BY <1>0, <1>8 DEF Backup!Sweep, Backup!Stops
  <2>2. \A i \in Ids : made[i].at \in Nat
    BY <1>t DEF Stamps
  <2>3. 2 * Duration <= Grace /\ Grace \in Nat
    BY DEF Backup!BackupConstants
  <2>4. y.since \in Nat /\ clock <= y.since + Duration
    BY <1>0, <2>1 DEF Timely, Operations
  <2>5. ASSUME NEW i \in manifest PROVE i \notin Backup!Orphans(c)
    <3>1. i \notin y.rows => made[i].at + Duration >= y.since
      BY <1>0, <2>1, <2>5 DEF Knows, Thins
    <3>2. i \notin y.rows => clock <= made[i].at + 2 * Duration
      BY <1>t, <2>2, <2>4, <2>5, <3>1
    <3>3. i \notin y.rows => ~(clock - made[i].at > Grace)
      BY <1>t, <2>2, <2>3, <2>5, <3>2
    <3> QED
      BY <1>0, <3>3 DEF Backup!Orphans
  <2>6. ASSUME NEW d \in Controllers, controller[d].phase = "checked"
        PROVE  controller[d].id \in data'
    <3>1. /\ controller[d].id \in data /\ controller[d].id \in Ids
          /\ made[controller[d].id].at >= controller[d].since
          /\ clock <= controller[d].since + Duration /\ controller[d].since \in Nat
      BY <2>6, Operation DEF Makes, BacksUp, Timely, Operations
    <3>2. ~(clock - made[controller[d].id].at > Grace)
      BY <1>t, <2>2, <2>3, <3>1
    <3> QED
      BY <2>1, <3>1, <3>2 DEF Backup!Orphans
  <2>7. Backup!Idle \in Operations /\ Backup!Idle.phase = "idle"
    BY DEF Backup!Idle, Operations
  <2>8. Timely(Backup!Idle) /\ Makes(Backup!Idle)' /\ Knows(Backup!Idle)' /\ ~BacksUp(Backup!Idle)
    BY <2>7 DEF Timely, Makes, Knows, BacksUp, Thins
  <2>9. \A j \in Ids : Wrote(j)' => Wrote(j)
    BY <2>1 DEF Wrote
  <2>10. manifest' \subseteq manifest /\ manifest' \subseteq data' /\ data' \subseteq data
    BY <1>t, <2>1, <2>5
  <2> QED
    BY <1>t, <2>1, <2>6, <2>7, <2>8, <2>9, <2>10, ControllerMoves
<1> QED
  BY <1>2, <1>3, <1>4, <1>5, <1>6, <1>7, <1>8 DEF Backup!PruneFailed, Backup!ControllerStops

LEMMA Ticking ==
  ASSUME Backup!BackupConstants, BackupInvariant, Backup!Tick
  PROVE  BackupInvariant'
<1>1. /\ clock' = clock + 1 /\ UNCHANGED <<Backup!bucket, job, controller, made, recorded>>
      /\ \A c \in Controllers :
           controller[c].phase # "idle" => clock' - controller[c].since <= Duration
  BY DEF Backup!Tick
<1>2. ASSUME NEW c \in Controllers
      PROVE  Timely(controller[c])' /\ Makes(controller[c])' /\ Knows(controller[c])'
  <2>1. PICK y \in Operations : /\ y = controller[c] /\ controller'[c] = y
                                /\ Timely(y) /\ Makes(y) /\ Knows(y)
    BY <1>1, Operation
  <2>2. y.since \in Nat /\ clock \in Nat /\ Duration \in Nat
    BY <2>1, Operation DEF Operations
  <2>3. Timely(y)'
    BY <1>1, <2>1, <2>2 DEF Timely
  <2>4. Makes(y)' /\ Knows(y)'
    BY <1>1, <2>1 DEF Makes, Knows, BacksUp, Thins, Wrote, Backup!bucket
  <2> QED
    BY <2>1, <2>3, <2>4 DEF Timely, Makes, Knows, BacksUp, Thins
<1>3. clock' \in Nat
  BY <1>1 DEF BackupInvariant
<1> QED
  BY <1>1, <1>2, <1>3 DEF BackupInvariant, Backup!RecordedIsThere, BacksUp, Backup!bucket

LEMMA BackupStep ==
  ASSUME Backup!BackupConstants, BackupInvariant, [Backup!Next]_Backup!vars PROVE BackupInvariant'
<1>1. ASSUME NEW c \in Controllers, Backup!ControllerStep(c) PROVE BackupInvariant'
  BY <1>1, Backing, Recording, Thinning DEF Backup!ControllerStep
<1>2. ASSUME NEW c \in Controllers, NEW i \in Ids, Backup!Backup(c, i) PROVE BackupInvariant'
  BY <1>2, Backing
<1>3. ASSUME NEW c \in Controllers, Backup!Listed(c) \/ Backup!ControllerStops(c)
      PROVE BackupInvariant'
  BY <1>3, Thinning
<1> QED
  BY <1>1, <1>2, <1>3, Jobs, Ticking DEF Backup!Next

\* Whatever is on record has its archive: cmd_retain of one controller lists, deletes and
\* sweeps while another records (scripts/storage_control.py), and the grace of an upload
\* covers what the two can be apart.
THEOREM RecordedIsKept == ASSUME Backup!BackupConstants PROVE Backup!Spec => []RecordedIsThere
<1>1. BackupInvariant => RecordedIsThere
  BY DEF BackupInvariant, RecordedIsThere
<1> QED
  BY <1>1, BackupInit, BackupStep, PTL DEF Backup!Spec

-----------------------------------------------------------------------------
(* Releases                                                                 *)

\* Cardinality is that of the instance too.
LEMMA SameCardinality == \A S : Release!Cardinality(S) = Cardinality(S)
  BY DEF Release!Cardinality, Cardinality

Taken == [data : 0 .. MaxWrites, time : Nat, created : BOOLEAN]
RunRecords == [no : 0 .. MaxReleases, phase : Release!Phases \cup {None},
             image : Release!Images \cup {None}, old : Release!Images \cup {None},
             before : SUBSET (1 .. MaxSnapshots), after : Nat]

\* What the receipt of a release names: a backup, and a completed snapshot that is no
\* older.
TwiceSaved(n) ==
    /\ receipt[n] # None /\ receipt[n].backup # None
    /\ receipt[n].snapshot # None
    /\ receipt[n].snapshot \in DOMAIN snapshots
    /\ snapshots[receipt[n].snapshot].created
    /\ snapshots[receipt[n].snapshot].data >= receipt[n].backup

\* The image is known from the preparation on, the one it replaces from the reading on.
Informed ==
    /\ rel.phase \in Release!Phases \ {"prepare"} => rel.image \in Release!Images
    /\ rel.phase \in {"compare"} \cup Release!Saving => rel.old \in Release!Images

\* What has replaced the machine, or still may, was preceded by both copies.
Covered ==
    /\ late # None => rel.phase = None /\ rel.no > 0 /\ TwiceSaved(rel.no)
    /\ \A d \in replaced :
         /\ TwiceSaved(d.release) /\ d.release <= rel.no
         /\ d.release = rel.no => rel.phase \in {None, "confirm"}

\* How far the copies of the release in progress are.
Copying ==
    /\ rel.phase \in {"list", "request", "observe"} =>
         receipt[rel.no].backup \in 0 .. writes
    /\ rel.phase \in {"request", "observe"} =>
         \A n \in DOMAIN snapshots \ rel.before :
            snapshots[n].data >= receipt[rel.no].backup
    /\ rel.phase \in {"push", "recheck", "deploy", "confirm"} => TwiceSaved(rel.no)

ReleaseInvariant == Release!TypeOK /\ Informed /\ Covered /\ Copying

LEMMA IdleTyped ==
  ASSUME Release!ReleasesAssumption, Release!TypeOK
  PROVE  /\ Release!Idle \in RunRecords /\ Release!Idle.phase = None /\ Release!Idle.no = 0
         /\ [Release!Idle EXCEPT !.no = rel.no] \in RunRecords
         /\ [Release!Idle EXCEPT !.no = rel.no].phase = None
         /\ [Release!Idle EXCEPT !.no = rel.no].no = rel.no
<1>1. /\ 0 \in 0 .. MaxReleases /\ 0 \in Nat /\ rel.no \in 0 .. MaxReleases
      /\ {} \in SUBSET (1 .. MaxSnapshots)
  BY DEF Release!ReleasesAssumption, Release!TypeOK
<1>2. Release!Idle \in RunRecords /\ Release!Idle.phase = None /\ Release!Idle.no = 0
  BY <1>1 DEF Release!Idle, RunRecords
<1> QED
  BY <1>1, <1>2 DEF RunRecords

LEMMA StopsTyped ==
  ASSUME Release!ReleasesAssumption, Release!TypeOK, Release!Stops
  PROVE  rel' \in RunRecords /\ rel'.phase = None /\ rel'.no = rel.no
  BY IdleTyped DEF Release!Stops

LEMMA Distinct ==
  ASSUME Release!ReleasesAssumption
  PROVE  None \notin Release!Phases /\ None \notin Release!Saving /\ None \notin Release!Receipts /\ None \notin Nat
  BY DEF Release!ReleasesAssumption, Release!Phases

LEMMA SecondTyped ==
  ASSUME Release!ReleasesAssumption, Release!TypeOK
  PROVE  Release!Second \in Nat
<1>1. writes \in Nat
  BY DEF Release!TypeOK
<1> QED
  BY <1>1 DEF Release!Second

\* A snapshot that is begun holds the data of the moment; the earlier ones stay.
LEMMA WithSnapshotTyped ==
  ASSUME Release!ReleasesAssumption, Release!TypeOK, Release!Begun(snapshots) < MaxSnapshots,
         NEW s, s = Release!WithSnapshot(snapshots, writes, Release!Second)
  PROVE  /\ Cardinality(DOMAIN s) \in 0 .. MaxSnapshots
         /\ s \in [1 .. Cardinality(DOMAIN s) -> Taken]
         /\ DOMAIN snapshots \subseteq DOMAIN s
         /\ \A n \in DOMAIN snapshots : s[n] = snapshots[n]
         /\ \A n \in DOMAIN s \ DOMAIN snapshots : s[n].data = writes
<1> DEFINE k == Release!Begun(snapshots)
<1>1. k \in 0 .. MaxSnapshots /\ snapshots \in [1 .. k -> Taken] /\ MaxSnapshots \in Nat
  BY DEF Release!TypeOK, Taken, Release!Begun, Release!ReleasesAssumption
<1>2. k \in Nat /\ k + 1 \in 0 .. MaxSnapshots
  BY <1>1
<1>4. PICK fresh : fresh = [data |-> writes, time |-> Release!Second, created |-> FALSE]
  OBVIOUS
<1>5. fresh \in Taken /\ fresh.data = writes
  BY <1>4, SecondTyped DEF Release!TypeOK, Taken
<1>6. s = [n \in 1 .. k + 1 |-> IF n = k + 1 THEN fresh ELSE snapshots[n]]
  BY <1>4 DEF Release!WithSnapshot
<1> HIDE DEF k
<1>7. \A n \in 1 .. k + 1 :
        /\ s[n] \in Taken
        /\ n \in 1 .. k => s[n] = snapshots[n]
        /\ n \notin 1 .. k => s[n] = fresh
  BY <1>1, <1>2, <1>5, <1>6
<1>8. DOMAIN s = 1 .. k + 1 /\ DOMAIN snapshots = 1 .. k
  BY <1>1, <1>6
<1>9. Cardinality(1 .. k + 1) = k + 1
  <2>1. Cardinality(1 .. k + 1) = IF 1 > k + 1 THEN 0 ELSE (k + 1) - 1 + 1
    BY <1>2, FS_Interval
  <2> QED
    BY <1>2, <2>1
<1>10. s \in [1 .. k + 1 -> Taken]
  BY <1>6, <1>7
<1>11. 1 .. k \subseteq 1 .. k + 1
  BY <1>2
<1> QED
  BY <1>2, <1>5, <1>7, <1>8, <1>9, <1>10, <1>11

-----------------------------------------------------------------------------
(* Types                                                                    *)

LEMMA ReceiptTyped ==
  ASSUME Release!ReleasesAssumption, Release!TypeOK, rel.phase \in Release!Saving,
         NEW new \in Release!Receipts, Release!SaveReceipt(new)
  PROVE  /\ rel.no \in 1 .. MaxReleases
         /\ receipt' \in [1 .. MaxReleases -> Release!Receipts \cup {None}]
         /\ receipt'[rel.no] = new /\ new # None
         /\ \A n \in 1 .. MaxReleases \ {rel.no} : receipt'[n] = receipt[n]
<1>1. rel.no \in 1 .. MaxReleases
  BY Distinct DEF Release!TypeOK, Release!Phases
<1> QED
  BY <1>1, Distinct DEF Release!TypeOK, Release!SaveReceipt

\* A run that fails leaves what its receipt names.
LEMMA RaiseTyped ==
  ASSUME Release!ReleasesAssumption, Release!TypeOK, rel.phase \in Release!Saving, Release!Raise
  PROVE  /\ rel.no \in 1 .. MaxReleases
         /\ rel' \in RunRecords /\ rel'.phase = None /\ rel'.no = rel.no
         /\ receipt' \in [1 .. MaxReleases -> Release!Receipts \cup {None}]
         /\ \A n \in 1 .. MaxReleases :
              /\ receipt'[n] = None <=> receipt[n] = None
              /\ receipt[n] # None => /\ receipt'[n].backup = receipt[n].backup
                                      /\ receipt'[n].snapshot = receipt[n].snapshot
<1>1. rel.no \in 1 .. MaxReleases
  BY Distinct DEF Release!TypeOK, Release!Phases
<1>2. rel' \in RunRecords /\ rel'.phase = None /\ rel'.no = rel.no
  BY StopsTyped DEF Release!Raise
<1>3. receipt[rel.no] \in Release!Receipts /\ receipt[rel.no] # None
  BY <1>1 DEF Release!TypeOK
<1>4. PICK new : new = [receipt[rel.no] EXCEPT !.status = "failed"]
  OBVIOUS
<1>5. /\ new \in Release!Receipts /\ new # None
      /\ new.backup = receipt[rel.no].backup /\ new.snapshot = receipt[rel.no].snapshot
  BY <1>3, <1>4, Distinct DEF Release!Receipts
<1>6. receipt' = [receipt EXCEPT ![rel.no] = new]
  BY <1>3, <1>4 DEF Release!Raise
<1>7. receipt \in [1 .. MaxReleases -> Release!Receipts \cup {None}]
  BY DEF Release!TypeOK
<1> QED
  BY <1>1, <1>2, <1>3, <1>5, <1>6, <1>7

LEMMA GoesTyped ==
  ASSUME Release!ReleasesAssumption, Release!TypeOK, NEW p \in Release!Phases, Release!Goes(p), rel.phase # None
  PROVE  /\ rel' \in RunRecords /\ rel'.phase = p /\ rel'.no = rel.no
         /\ rel'.image = rel.image /\ rel'.old = rel.old /\ rel'.before = rel.before
  BY Distinct DEF Release!TypeOK, RunRecords, Release!Goes

\* Commits, attempts and images.
LEMMA CITypes ==
  ASSUME Release!ReleasesAssumption, Release!TypeOK, Release!Next
  PROVE  /\ main' \in Release!Commits
         /\ ci' \in [Release!Commits -> [attempt : 1 .. MaxAttempts,
                         conclusion : {"success", "failure", "running"}]]
         /\ tested' \subseteq Release!Images
<1> DEFINE Kinds == [attempt : 1 .. MaxAttempts,
                     conclusion : {"success", "failure", "running"}]
<1>1. main \in Release!Commits /\ ci \in [Release!Commits -> Kinds] /\ tested \subseteq Release!Images
  BY DEF Release!TypeOK
<1>2. Release!Merge => main' \in Release!Commits /\ ci' \in [Release!Commits -> Kinds] /\ tested' \subseteq Release!Images
  <2> SUFFICES ASSUME Release!Merge
               PROVE main' \in Release!Commits /\ ci' \in [Release!Commits -> Kinds] /\ tested' \subseteq Release!Images
    OBVIOUS
  <2>1. main' \in Release!Commits
    BY <1>1 DEF Release!Merge, Release!Commits, Release!ReleasesAssumption
  <2> QED
    BY <1>1, <2>1 DEF Release!Merge
<1>3. ASSUME NEW c \in Release!Commits, Release!Rerun(c)
      PROVE  main' = main /\ tested' = tested /\ ci' \in [Release!Commits -> Kinds]
  <2>1. ci[c].attempt + 1 \in 1 .. MaxAttempts
    BY <1>1, <1>3 DEF Release!Rerun, Release!ReleasesAssumption
  <2> QED
    BY <1>1, <1>3, <2>1 DEF Release!Rerun
<1>4. ASSUME NEW c \in Release!Commits, NEW r \in {"success", "failure"}, Release!CIEnds(c, r)
      PROVE  main' = main /\ tested' \subseteq Release!Images /\ ci' \in [Release!Commits -> Kinds]
  <2>1. Release!Image(c, ci[c].attempt) \in Release!Images
    BY <1>1, <1>4 DEF Release!Image, Release!Images
  <2> QED
    BY <1>1, <1>4, <2>1 DEF Release!CIEnds
<1>5. UNCHANGED <<main, ci, tested>> => main' \in Release!Commits /\ ci' \in [Release!Commits -> Kinds] /\ tested' \subseteq Release!Images
  BY <1>1
<1>6. Release!Write \/ Release!Scheduled \/ Release!ByHand \/ Release!Dispatch \/ Release!Controller \/ Release!Lands \/ Release!Killed
      \/ (\E n \in 1 .. MaxSnapshots : Release!Completes(n))
      => UNCHANGED <<main, ci, tested>>
  BY DEF Release!Write, Release!Scheduled, Release!ByHand, Release!Dispatch, Release!Controller,
     Release!Lands, Release!Killed, Release!Completes, Release!Prepare,
         Release!Begin, Release!ReadMachine, Release!Compare, Release!Backup, Release!List,
         Release!Ask, Release!Observe, Release!Push, Release!Recheck, Release!Deploy,
         Release!Confirm
<1> HIDE DEF Kinds
<1>7. main' \in Release!Commits /\ ci' \in [Release!Commits -> Kinds] /\ tested' \subseteq Release!Images
  <2>1. CASE \E r \in {"success", "failure"} : \E c \in Release!Commits : Release!CIEnds(c, r)
    BY <1>1, <1>4, <2>1
  <2>2. CASE \E c \in Release!Commits : Release!Rerun(c)
    BY <1>1, <1>3, <2>2
  <2> QED
    BY <1>2, <1>5, <1>6, <2>1, <2>2 DEF Release!Next
<1> USE DEF Kinds
<1> QED
  BY <1>7

\* The rest of the types, in three parts.
RunTypes ==
  /\ rel \in RunRecords
  /\ rel.phase # None => rel.no > 0
  /\ receipt \in [1 .. MaxReleases -> Release!Receipts \cup {None}]
  /\ rel.phase \in Release!Saving => receipt[rel.no] # None
MachineTypes ==
  /\ live \in Release!Images
  /\ replaced \subseteq [release : 1 .. MaxReleases, from : Release!Images, to : Release!Images]
  /\ late # None => late \in [no : {rel.no}, image : Release!Images]
VolumeTypes ==
  /\ writes \in 0 .. MaxWrites
  /\ Cardinality(DOMAIN snapshots) \in 0 .. MaxSnapshots
  /\ snapshots \in [1 .. Cardinality(DOMAIN snapshots) -> Taken]

LEMMA TypeParts ==
  Release!TypeOK <=>
    /\ main \in Release!Commits
    /\ ci \in [Release!Commits -> [attempt : 1 .. MaxAttempts,
                         conclusion : {"success", "failure", "running"}]]
    /\ tested \subseteq Release!Images
    /\ RunTypes /\ MachineTypes /\ VolumeTypes
  BY SameCardinality DEF Release!TypeOK, RunTypes, MachineTypes, VolumeTypes, Taken, RunRecords

-----------------------------------------------------------------------------
(* The volume                                                               *)

\* Snapshots stay, and a new one has the data of the moment.
Grows ==
  /\ writes' \in Nat /\ writes' >= writes
  /\ DOMAIN snapshots \subseteq DOMAIN snapshots'
  /\ \A n \in DOMAIN snapshots :
       /\ snapshots'[n].data = snapshots[n].data
       /\ snapshots[n].created => snapshots'[n].created
  /\ \A n \in DOMAIN snapshots' \ DOMAIN snapshots : snapshots'[n].data = writes

LEMMA VolumeNext ==
  ASSUME Release!ReleasesAssumption, Release!TypeOK, Release!Next
  PROVE  VolumeTypes' /\ Grows
<1>1. VolumeTypes /\ writes \in Nat
  BY TypeParts DEF VolumeTypes
<1>2. CASE UNCHANGED <<writes, snapshots>>
  BY <1>1, <1>2 DEF VolumeTypes, Grows
<1>3. CASE Release!Write
  <2>1. writes' \in 0 .. MaxWrites /\ writes' >= writes
    BY <1>1, <1>3 DEF Release!Write, Release!ReleasesAssumption
  <2> QED
    BY <1>1, <1>3, <2>1 DEF Release!Write, VolumeTypes, Grows
<1>4. CASE Release!Scheduled \/ Release!Ask
  <2>1. /\ Release!Begun(snapshots) < MaxSnapshots /\ UNCHANGED writes
        /\ snapshots' = Release!WithSnapshot(snapshots, writes, Release!Second)
    BY <1>4 DEF Release!Scheduled, Release!Ask
  <2>2. /\ Cardinality(DOMAIN snapshots') \in 0 .. MaxSnapshots
        /\ snapshots' \in [1 .. Cardinality(DOMAIN snapshots') -> Taken]
        /\ DOMAIN snapshots \subseteq DOMAIN snapshots'
        /\ \A n \in DOMAIN snapshots : snapshots'[n] = snapshots[n]
        /\ \A n \in DOMAIN snapshots' \ DOMAIN snapshots : snapshots'[n].data = writes
    BY <2>1, WithSnapshotTyped
  <2> QED
    BY <1>1, <2>1, <2>2 DEF VolumeTypes, Grows
<1>5. ASSUME NEW n \in 1 .. MaxSnapshots, Release!Completes(n)
      PROVE  VolumeTypes' /\ Grows
  <2>1. snapshots[n] \in Taken
    BY <1>1, <1>5 DEF VolumeTypes, Release!Completes
  <2>2. PICK done : done = [snapshots[n] EXCEPT !.created = TRUE]
    OBVIOUS
  <2>3. done \in Taken /\ done.data = snapshots[n].data /\ done.created
    BY <2>1, <2>2 DEF Taken
  <2>4. snapshots' = [snapshots EXCEPT ![n] = done] /\ n \in DOMAIN snapshots
        /\ UNCHANGED writes
    BY <1>5, <2>2 DEF Release!Completes
  <2>5. DOMAIN snapshots' = DOMAIN snapshots
    BY <2>4
  <2> QED
    BY <1>1, <2>3, <2>4, <2>5 DEF VolumeTypes, Grows
<1>6. Release!Merge \/ (\E r \in {"success", "failure"} : \E c \in Release!Commits :
                                                            Release!CIEnds(c, r))
      \/ (\E c \in Release!Commits : Release!Rerun(c)) \/ Release!ByHand \/ Release!Dispatch \/ Release!Lands \/ Release!Killed
      => UNCHANGED <<writes, snapshots>>
  BY DEF Release!Merge, Release!CIEnds, Release!Rerun, Release!ByHand, Release!Dispatch,
     Release!Lands, Release!Killed
<1>7. Release!Controller => UNCHANGED <<writes, snapshots>> \/ Release!Ask
  BY DEF Release!Controller, Release!Prepare, Release!Begin, Release!ReadMachine,
     Release!Compare, Release!Backup, Release!List, Release!Observe, Release!Push,
         Release!Recheck, Release!Deploy, Release!Confirm
<1> QED
  BY <1>2, <1>3, <1>4, <1>5, <1>6, <1>7 DEF Release!Next

\* Both copies stay where they are, and what names them is kept.
LEMMA StaysSaved ==
  ASSUME Grows, NEW m, TwiceSaved(m), receipt'[m] # None,
         receipt'[m].backup = receipt[m].backup,
         receipt'[m].snapshot = receipt[m].snapshot
  PROVE  TwiceSaved(m)'
  BY DEF Grows, TwiceSaved

-----------------------------------------------------------------------------
(* The release in progress                                                  *)

\* What a step that does not deploy does to the run and to its receipt.
RunNext ==
  /\ RunTypes' /\ Informed'
  /\ rel'.no >= rel.no

LEMMA Outside ==
  ASSUME Release!ReleasesAssumption, Release!TypeOK, Informed, UNCHANGED <<rel, receipt>>
  PROVE  RunNext
  BY TypeParts DEF RunTypes, RunNext, Informed, RunRecords, Release!ReleasesAssumption

\* A run that ends, without or with a receipt.
LEMMA Ends ==
  ASSUME Release!ReleasesAssumption, Release!TypeOK, Informed,
         (Release!Stops /\ UNCHANGED receipt) \/ (Release!Raise /\ rel.phase \in Release!Saving)
  PROVE  RunNext /\ rel'.phase = None /\ rel'.no = rel.no
<1>1. rel' \in RunRecords /\ rel'.phase = None /\ rel'.no = rel.no
  BY StopsTyped, RaiseTyped
<1>2. receipt' \in [1 .. MaxReleases -> Release!Receipts \cup {None}]
  BY RaiseTyped, TypeParts DEF RunTypes
<1>3. rel.no \in Nat
  BY DEF Release!TypeOK
<1> QED
  BY <1>1, <1>2, <1>3, Distinct DEF RunNext, RunTypes, Informed, Release!Phases

\* The next step of a run, which knows its image and the one it replaces.
LEMMA GoesOn ==
  ASSUME Release!ReleasesAssumption, Release!TypeOK, Informed, NEW p \in Release!Phases, Release!Goes(p), rel.phase # None,
         rel.phase \notin {"prepare"},
         p \in {"compare"} \cup Release!Saving => rel.phase \in {"compare"} \cup Release!Saving,
         receipt' \in [1 .. MaxReleases -> Release!Receipts \cup {None}],
         p \in Release!Saving => receipt'[rel.no] # None
  PROVE  RunNext /\ rel'.phase = p /\ rel'.no = rel.no
<1>1. /\ rel' \in RunRecords /\ rel'.phase = p /\ rel'.no = rel.no
      /\ rel'.image = rel.image /\ rel'.old = rel.old
  BY GoesTyped
<1>2. rel.no \in Nat /\ rel.no > 0 /\ rel.phase \in Release!Phases \ {"prepare"}
  BY DEF Release!TypeOK
<1>3. Informed'
  BY <1>1, <1>2, Distinct DEF Informed
<1> QED
  BY <1>1, <1>2, <1>3 DEF RunNext, RunTypes

-----------------------------------------------------------------------------
(* What has replaced the machine                                            *)

LEMMA InPhases ==
  ASSUME Release!ReleasesAssumption, Release!TypeOK, rel.phase # None
  PROVE  rel.phase \in Release!Phases /\ rel.no \in 1 .. MaxReleases /\ rel.no > 0
  BY DEF Release!TypeOK

\* A step that neither deploys nor lands, and keeps the receipts of what did.
LEMMA StaysCovered ==
  ASSUME Release!ReleasesAssumption, ReleaseInvariant, Grows, UNCHANGED <<replaced, late>>,
         live' \in Release!Images, rel'.no \in Nat, rel'.no >= rel.no,
         late # None => rel'.phase = None /\ rel'.no = rel.no,
         \A d \in replaced : d.release = rel'.no => rel'.phase \in {None, "confirm"},
         \A m \in 1 .. MaxReleases :
            TwiceSaved(m) /\ ((late # None /\ m = rel.no) \/ \E d \in replaced : d.release = m)
            => /\ receipt'[m] # None /\ receipt'[m].backup = receipt[m].backup
               /\ receipt'[m].snapshot = receipt[m].snapshot
  PROVE  MachineTypes' /\ Covered'
<1>1. /\ MachineTypes /\ rel.no \in 0 .. MaxReleases /\ rel.no \in Nat
      /\ \A d \in replaced : d.release \in 1 .. MaxReleases /\ d.release \in Nat
  BY DEF ReleaseInvariant, Release!TypeOK, MachineTypes
<1>2. MachineTypes'
  BY <1>1 DEF MachineTypes
<1>3. ASSUME late # None
      PROVE  rel'.phase = None /\ rel'.no > 0 /\ TwiceSaved(rel.no)'
  <2>1. rel.no > 0 /\ TwiceSaved(rel.no) /\ rel'.no = rel.no /\ rel'.phase = None
    BY <1>3 DEF ReleaseInvariant, Covered
  <2>2. PICK m \in 1 .. MaxReleases : m = rel.no
    BY <1>1, <2>1
  <2>3. TwiceSaved(m)
    BY <2>1, <2>2
  <2>4. TwiceSaved(m)'
    BY <1>3, <2>2, <2>3, StaysSaved
  <2> QED
    BY <2>1, <2>2, <2>4 DEF TwiceSaved
<1>4. ASSUME NEW d \in replaced
      PROVE  /\ TwiceSaved(d.release)' /\ d.release <= rel'.no
             /\ d.release = rel'.no => rel'.phase \in {None, "confirm"}
  <2>1. TwiceSaved(d.release) /\ d.release <= rel.no
    BY DEF ReleaseInvariant, Covered
  <2>2. d.release <= rel'.no
    BY <1>1, <2>1
  <2>3. PICK m \in 1 .. MaxReleases : m = d.release
    BY <1>1
  <2>4. TwiceSaved(m)
    BY <2>1, <2>3
  <2>5. TwiceSaved(m)'
    BY <2>3, <2>4, StaysSaved
  <2> QED
    BY <1>4, <2>1, <2>2, <2>3, <2>5 DEF TwiceSaved
<1>5. late' = late /\ replaced' = replaced
  OBVIOUS
<1> QED
  BY <1>2, <1>3, <1>4, <1>5 DEF Covered

\* The releases that replaced something are over, or this one confirms.
LEMMA OthersReplaced ==
  ASSUME Release!ReleasesAssumption, ReleaseInvariant, rel.phase \in Release!Phases
  PROVE  /\ late = None /\ rel.phase # None
         /\ \A d \in replaced : d.release <= rel.no
         /\ rel.phase # "confirm" => \A d \in replaced : d.release # rel.no
  BY Distinct DEF ReleaseInvariant, Covered

LEMMA StaysCopied ==
  ASSUME Release!ReleasesAssumption, ReleaseInvariant, Grows, UNCHANGED <<rel, receipt>>
  PROVE  Copying'
<1>1. rel' = rel /\ receipt' = receipt /\ writes' >= writes /\ writes \in Nat
  BY DEF Grows, ReleaseInvariant, Release!TypeOK
<1>2. ASSUME rel.phase \in {"list", "request", "observe"}
      PROVE  receipt[rel.no].backup \in 0 .. writes'
  <2>1. receipt[rel.no].backup \in 0 .. writes
    BY <1>2 DEF ReleaseInvariant, Copying
  <2>2. writes' \in Nat
    BY DEF Grows
  <2> QED
    BY <1>1, <2>1, <2>2
<1>3. ASSUME rel.phase \in {"request", "observe"},
             NEW n \in DOMAIN snapshots' \ rel.before
      PROVE  snapshots'[n].data >= receipt[rel.no].backup
  <2>1. receipt[rel.no].backup \in 0 .. writes
    BY <1>3 DEF ReleaseInvariant, Copying
  <2>2. CASE n \in DOMAIN snapshots
    BY <1>3, <2>2 DEF Grows, ReleaseInvariant, Copying
  <2>3. CASE n \notin DOMAIN snapshots
    BY <1>1, <2>1, <2>3 DEF Grows
  <2> QED
    BY <2>2, <2>3
<1>4. ASSUME rel.phase \in {"push", "recheck", "deploy", "confirm"}
      PROVE  TwiceSaved(rel.no)'
  <2>1. PICK m : m = rel.no
    OBVIOUS
  <2>2. TwiceSaved(m) /\ receipt[m] # None
    BY <1>4, <2>1 DEF ReleaseInvariant, Copying, TwiceSaved
  <2>3. TwiceSaved(m)'
    BY <1>1, <2>2, StaysSaved
  <2> QED
    BY <1>1, <2>1, <2>3 DEF TwiceSaved
<1> QED
  BY <1>1, <1>2, <1>3, <1>4 DEF Copying

-----------------------------------------------------------------------------
(* The steps                                                                *)

\* What every step has to establish, besides the types of the rest.
Holds == RunNext /\ MachineTypes' /\ Covered' /\ Copying'

LEMMA OutsideHolds ==
  ASSUME Release!ReleasesAssumption, ReleaseInvariant, Grows, live' \in Release!Images,
         UNCHANGED <<rel, receipt, replaced, late>>
  PROVE  Holds
<1>1. RunNext /\ Copying'
  BY Outside, StaysCopied DEF ReleaseInvariant
<1>2. MachineTypes' /\ Covered'
  <2>1. rel'.no \in Nat /\ rel'.no >= rel.no
    BY DEF ReleaseInvariant, Release!TypeOK
  <2>2. late # None => rel'.phase = None /\ rel'.no = rel.no
    BY DEF ReleaseInvariant, Covered
  <2>3. \A d \in replaced : d.release = rel'.no => rel'.phase \in {None, "confirm"}
    BY DEF ReleaseInvariant, Covered
  <2>4. \A m : TwiceSaved(m) => receipt'[m] # None
    BY DEF TwiceSaved
  <2> QED
    BY <2>1, <2>2, <2>3, <2>4, StaysCovered
<1> QED
  BY <1>1, <1>2 DEF Holds

\* A run ends by itself, with an error or because the runner dies.
LEMMA EndsHolds ==
  ASSUME Release!ReleasesAssumption, ReleaseInvariant, Grows, UNCHANGED <<live, replaced, late>>,
         rel.phase \in Release!Phases,
         (Release!Stops /\ UNCHANGED receipt) \/ (Release!Raise /\ rel.phase \in Release!Saving)
  PROVE  Holds
<1>1. Release!TypeOK /\ Informed /\ rel.no \in Nat /\ live \in Release!Images
  BY DEF ReleaseInvariant, Release!TypeOK
<1>2. RunNext /\ rel'.phase = None /\ rel'.no = rel.no
  BY <1>1, Ends
<1>3. Copying'
  BY <1>2, Distinct DEF Copying, Release!Phases, Release!Saving
<1>4. late = None
  BY OthersReplaced
<1>5. \A m \in 1 .. MaxReleases :
        TwiceSaved(m) => /\ receipt'[m] # None /\ receipt'[m].backup = receipt[m].backup
                         /\ receipt'[m].snapshot = receipt[m].snapshot
  BY <1>1, RaiseTyped DEF TwiceSaved
<1>6. MachineTypes' /\ Covered'
  BY <1>1, <1>2, <1>4, <1>5, StaysCovered
<1> QED
  BY <1>2, <1>3, <1>6 DEF Holds

\* The next step of a run that writes nothing to its receipt.
LEMMA GoesOnHolds ==
  ASSUME Release!ReleasesAssumption, ReleaseInvariant, Grows,
         UNCHANGED <<live, receipt, replaced, late>>,
         RunNext, rel'.phase # "confirm", rel'.no = rel.no,
         rel.phase \in Release!Phases \ {"confirm"}, Copying'
  PROVE  Holds
<1>1. rel.no \in Nat /\ live \in Release!Images
  BY DEF ReleaseInvariant, Release!TypeOK
<1>2. late = None /\ \A d \in replaced : d.release # rel.no
  BY OthersReplaced
<1>3. \A m \in 1 .. MaxReleases : TwiceSaved(m) => receipt'[m] # None
  BY DEF TwiceSaved
<1>4. MachineTypes' /\ Covered'
  BY <1>1, <1>2, <1>3, StaysCovered
<1> QED
  BY <1>4 DEF Holds

\* A step that writes to the receipt of the run.
LEMMA SavesHolds ==
  ASSUME Release!ReleasesAssumption, ReleaseInvariant, Grows, UNCHANGED <<live, replaced, late>>,
         RunNext, rel'.no = rel.no, rel.phase \in Release!Phases \ {"confirm"},
         rel.no \in 1 .. MaxReleases,
         \A n \in 1 .. MaxReleases \ {rel.no} : receipt'[n] = receipt[n], Copying'
  PROVE  Holds
<1>1. rel.no \in Nat /\ live \in Release!Images
  BY DEF ReleaseInvariant, Release!TypeOK
<1>2. late = None /\ \A d \in replaced : d.release # rel.no
  BY OthersReplaced
<1>3. \A m \in 1 .. MaxReleases \ {rel.no} : TwiceSaved(m) => receipt'[m] # None
  BY DEF TwiceSaved
<1>4. MachineTypes' /\ Covered'
  BY <1>1, <1>2, <1>3, StaysCovered
<1> QED
  BY <1>4 DEF Holds

LEMMA DispatchHolds ==
  ASSUME Release!ReleasesAssumption, ReleaseInvariant, Grows, Release!Dispatch
  PROVE  Holds
<1>1. rel.no \in 0 .. MaxReleases /\ live \in Release!Images /\ late = None /\ rel.no < MaxReleases
  BY DEF ReleaseInvariant, Release!TypeOK, Release!Dispatch
<1>2. rel.no + 1 \in 0 .. MaxReleases /\ rel.no + 1 > rel.no /\ rel.no + 1 > 0
      /\ rel.no + 1 \in Nat
  BY <1>1 DEF Release!ReleasesAssumption
<1>3. PICK n : n = rel.no + 1
  OBVIOUS
<1>4. rel' = [Release!Idle EXCEPT !.no = n, !.phase = "prepare"]
  BY <1>3 DEF Release!Dispatch
<1>5. rel' \in RunRecords /\ rel'.no = n /\ rel'.phase = "prepare"
  <2>1. Release!Idle \in RunRecords
    BY IdleTyped DEF ReleaseInvariant
  <2>2. "prepare" \in Release!Phases
    BY DEF Release!Phases
  <2> QED
    BY <1>2, <1>3, <1>4, <2>1, <2>2 DEF RunRecords
<1>6. RunNext
  <2>1. receipt' \in [1 .. MaxReleases -> Release!Receipts \cup {None}]
    BY DEF ReleaseInvariant, Release!TypeOK, Release!Dispatch
  <2>2. rel'.no > 0 /\ rel'.no >= rel.no /\ rel'.phase \notin Release!Saving /\ rel'.phase # "compare"
    BY <1>1, <1>2, <1>3, <1>5 DEF Release!Saving
  <2> QED
    BY <1>5, <2>1, <2>2, Distinct DEF RunNext, RunTypes, Informed
<1>7. Copying'
  BY <1>5 DEF Copying
<1>8. \A d \in replaced : d.release # rel'.no
  <2>1. \A d \in replaced : d.release <= rel.no /\ d.release \in Nat
    <3>1. replaced \subseteq [release : 1 .. MaxReleases, from : Release!Images, to : Release!Images]
      BY DEF ReleaseInvariant, Release!TypeOK
    <3> QED
      BY <3>1 DEF ReleaseInvariant, Covered
  <2> QED
    BY <1>1, <1>2, <1>3, <1>5, <2>1
<1>9. \A m \in 1 .. MaxReleases : TwiceSaved(m) => receipt'[m] # None
  BY DEF TwiceSaved, Release!Dispatch
<1>10. rel'.no \in Nat /\ rel'.no >= rel.no
  BY <1>1, <1>2, <1>3, <1>5
<1>11. UNCHANGED <<live, replaced, late, receipt>>
  BY DEF Release!Dispatch
<1>12. MachineTypes' /\ Covered'
  BY <1>1, <1>8, <1>9, <1>10, <1>11, StaysCovered
<1> QED
  BY <1>6, <1>7, <1>12 DEF Holds

\* Preparation: the image of a run of main, or nothing.
LEMMA PrepareHolds ==
  ASSUME Release!ReleasesAssumption, ReleaseInvariant, Grows, Release!Prepare
  PROVE  Holds
<1> USE DEF Release!Phases, Release!Saving
<1>1. rel.phase \in Release!Phases /\ rel.phase = "prepare" /\ UNCHANGED <<live, receipt, replaced, late>>
  BY DEF Release!Prepare, Release!At
<1>2. CASE Release!Stops
  <2>1. Release!Stops /\ UNCHANGED receipt /\ rel.phase \in Release!Phases /\ UNCHANGED <<live, replaced, late>>
    BY <1>1, <1>2
  <2> HIDE DEF Release!Phases, Release!Saving
  <2> QED
    BY <2>1, EndsHolds
<1>3. CASE \E c \in Release!Commits :
            /\ Release!CurrentRun(c)
            /\ rel' = [rel EXCEPT !.phase = "approval", !.image = Release!Image(c, ci[c].attempt)]
  <2>1. PICK c \in Release!Commits :
          rel' = [rel EXCEPT !.phase = "approval", !.image = Release!Image(c, ci[c].attempt)]
    BY <1>3
  <2>2. Release!Image(c, ci[c].attempt) \in Release!Images
    BY DEF ReleaseInvariant, Release!TypeOK, Release!Image, Release!Images
  <2>3. PICK image \in Release!Images : image = Release!Image(c, ci[c].attempt)
    BY <2>2
  <2>4. /\ rel \in RunRecords /\ rel.no > 0 /\ rel.no \in Nat
        /\ receipt \in [1 .. MaxReleases -> Release!Receipts \cup {None}]
    BY <1>1, Distinct DEF ReleaseInvariant, Release!TypeOK, RunRecords
  <2>5. /\ rel' \in RunRecords /\ rel'.no = rel.no /\ rel'.phase = "approval"
        /\ rel'.image \in Release!Images
    BY <2>1, <2>3, <2>4 DEF RunRecords
  <2>6. RunNext
    BY <1>1, <2>4, <2>5 DEF RunNext, RunTypes, Informed
  <2>7. Copying'
    BY <2>5 DEF Copying
  <2> QED
    BY <1>1, <2>5, <2>6, <2>7, GoesOnHolds
<1> QED
  BY <1>2, <1>3 DEF Release!Prepare

LEMMA BeginHolds ==
  ASSUME Release!ReleasesAssumption, ReleaseInvariant, Grows, Release!Begin
  PROVE  Holds
<1> USE DEF Release!Phases, Release!Saving
<1>1. rel.phase \in Release!Phases /\ rel.phase = "approval" /\ UNCHANGED <<live, receipt, replaced, late>>
  BY DEF Release!Begin, Release!At
<1>2. CASE Release!Stops
  <2>1. Release!Stops /\ UNCHANGED receipt /\ rel.phase \in Release!Phases /\ UNCHANGED <<live, replaced, late>>
    BY <1>1, <1>2
  <2> HIDE DEF Release!Phases, Release!Saving
  <2> QED
    BY <2>1, EndsHolds
<1>3. CASE Release!Goes("machine")
  <2>1. RunNext /\ rel'.phase = "machine" /\ rel'.no = rel.no
    BY <1>1, <1>3, Distinct, GoesOn DEF ReleaseInvariant, Release!TypeOK
  <2>2. Copying'
    BY <2>1 DEF Copying
  <2> QED
    BY <1>1, <2>1, <2>2, GoesOnHolds
<1> QED
  BY <1>2, <1>3 DEF Release!Begin

LEMMA ReadMachineHolds ==
  ASSUME Release!ReleasesAssumption, ReleaseInvariant, Grows, Release!ReadMachine
  PROVE  Holds
<1> USE DEF Release!Phases, Release!Saving
<1>1. /\ rel.phase \in Release!Phases /\ rel.phase = "machine"
      /\ UNCHANGED <<live, receipt, replaced, late>>
      /\ rel' = [rel EXCEPT !.phase = "compare", !.old = live]
  BY DEF Release!ReadMachine, Release!At
<1>2. /\ rel \in RunRecords /\ rel.no > 0 /\ rel.no \in Nat /\ live \in Release!Images
      /\ receipt \in [1 .. MaxReleases -> Release!Receipts \cup {None}]
      /\ rel.image \in Release!Images
  BY <1>1, Distinct DEF ReleaseInvariant, Release!TypeOK, RunRecords, Informed
<1>3. /\ rel' \in RunRecords /\ rel'.no = rel.no /\ rel'.phase = "compare"
      /\ rel'.image = rel.image /\ rel'.old = live
  BY <1>1, <1>2 DEF RunRecords
<1>4. RunNext
  BY <1>1, <1>2, <1>3 DEF RunNext, RunTypes, Informed
<1>5. Copying'
  BY <1>3 DEF Copying
<1> QED
  BY <1>1, <1>3, <1>4, <1>5, GoesOnHolds

LEMMA CompareHolds ==
  ASSUME Release!ReleasesAssumption, ReleaseInvariant, Grows, Release!Compare
  PROVE  Holds
<1> USE DEF Release!Phases, Release!Saving
<1>1. rel.phase \in Release!Phases /\ rel.phase = "compare" /\ UNCHANGED <<live, replaced, late>>
  BY DEF Release!Compare, Release!At
<1>2. CASE Release!Stops /\ UNCHANGED receipt
  <2>1. rel.phase \in Release!Phases /\ UNCHANGED <<live, replaced, late>>
    BY <1>1, <1>2
  <2> HIDE DEF Release!Phases, Release!Saving
  <2> QED
    BY <1>2, <2>1, EndsHolds
<1>3. CASE Release!Goes("backup") /\ Release!SaveReceipt(Release!Receipt)
  <2>1. /\ rel.image \in Release!Images /\ rel.old \in Release!Images
        /\ rel.no \in 1 .. MaxReleases
        /\ receipt \in [1 .. MaxReleases -> Release!Receipts \cup {None}]
    BY <1>1, InPhases, Distinct DEF ReleaseInvariant, Informed, Release!TypeOK
  <2>2. Release!Receipt \in Release!Receipts
    BY <2>1 DEF Release!Receipt, Release!Receipts
  <2>3. PICK new \in Release!Receipts : new = Release!Receipt
    BY <2>2
  <2>4. /\ receipt' \in [1 .. MaxReleases -> Release!Receipts \cup {None}]
        /\ receipt'[rel.no] = new /\ new # None
        /\ \A n \in 1 .. MaxReleases \ {rel.no} : receipt'[n] = receipt[n]
    BY <1>3, <2>1, <2>3, Distinct DEF Release!SaveReceipt
  <2>5. RunNext /\ rel'.phase = "backup" /\ rel'.no = rel.no
    BY <1>1, <1>3, <2>4, Distinct, GoesOn DEF ReleaseInvariant
  <2>6. Copying'
    BY <2>5 DEF Copying
  <2> QED
    BY <1>1, <2>1, <2>4, <2>5, <2>6, SavesHolds
<1> QED
  BY <1>2, <1>3 DEF Release!Compare

\* A step that saves the receipt [new] and goes on to [p].
LEMMA SavesAndGoes ==
  ASSUME Release!ReleasesAssumption, ReleaseInvariant, rel.phase \in Release!Saving,
         NEW new \in Release!Receipts, Release!SaveReceipt(new), NEW p \in Release!Saving, Release!Goes(p)
  PROVE  /\ RunNext /\ rel'.phase = p /\ rel'.no = rel.no /\ rel'.before = rel.before
         /\ rel.no \in 1 .. MaxReleases
         /\ receipt'[rel'.no] = new /\ new # None
         /\ \A n \in 1 .. MaxReleases \ {rel.no} : receipt'[n] = receipt[n]
<1>1. Release!TypeOK /\ Informed /\ p \in Release!Phases /\ rel.phase \in Release!Phases /\ rel.phase # None
      /\ rel.phase # "prepare"
  BY Distinct DEF ReleaseInvariant, Release!Phases, Release!Saving
<1>2. /\ rel.no \in 1 .. MaxReleases
      /\ receipt' \in [1 .. MaxReleases -> Release!Receipts \cup {None}]
      /\ receipt'[rel.no] = new /\ new # None
      /\ \A n \in 1 .. MaxReleases \ {rel.no} : receipt'[n] = receipt[n]
  BY <1>1, ReceiptTyped
<1>3. RunNext /\ rel'.phase = p /\ rel'.no = rel.no
  BY <1>1, <1>2, GoesOn
<1>4. rel'.before = rel.before
  BY <1>1, GoesTyped
<1> QED
  BY <1>2, <1>3, <1>4

LEMMA BackupHolds ==
  ASSUME Release!ReleasesAssumption, ReleaseInvariant, Grows, Release!Backup
  PROVE  Holds
<1>1. /\ rel.phase = "backup" /\ rel.phase \in Release!Saving
      /\ rel.phase \in Release!Phases \ {"confirm"}
      /\ UNCHANGED <<live, replaced, late>> /\ "list" \in Release!Saving
  BY DEF Release!Backup, Release!At, Release!Saving, Release!Phases
<1>2. CASE Release!Raise
  BY <1>1, <1>2, EndsHolds
<1>3. CASE Release!Goes("list") /\ Release!SaveReceipt([receipt[rel.no] EXCEPT !.backup = writes])
  <2>1. receipt[rel.no] \in Release!Receipts /\ writes \in 0 .. MaxWrites /\ writes \in Nat
    BY <1>1, InPhases, Distinct DEF ReleaseInvariant, Release!TypeOK
  <2>2. PICK new : new = [receipt[rel.no] EXCEPT !.backup = writes]
    OBVIOUS
  <2>3. new \in Release!Receipts /\ new.backup = writes
    BY <2>1, <2>2 DEF Release!Receipts
  <2>4. /\ RunNext /\ rel'.phase = "list" /\ rel'.no = rel.no /\ rel.no \in 1 .. MaxReleases
        /\ receipt'[rel'.no] = new
        /\ \A n \in 1 .. MaxReleases \ {rel.no} : receipt'[n] = receipt[n]
    BY <1>1, <1>3, <2>2, <2>3, SavesAndGoes
  <2>5. writes' = writes
    BY DEF Release!Backup
  <2>6. Copying'
    BY <2>1, <2>3, <2>4, <2>5 DEF Copying
  <2> QED
    BY <1>1, <2>4, <2>6, SavesHolds
<1> QED
  BY <1>2, <1>3 DEF Release!Backup

LEMMA ListHolds ==
  ASSUME Release!ReleasesAssumption, ReleaseInvariant, Grows, Release!List
  PROVE  Holds
<1>1. /\ rel.phase = "list" /\ rel.phase \in Release!Saving
      /\ rel.phase \in Release!Phases \ {"confirm"}
      /\ UNCHANGED <<live, receipt, replaced, late, snapshots, writes>>
      /\ "request" \in Release!Phases
      /\ rel' = [rel EXCEPT !.phase = "request", !.before = DOMAIN snapshots]
  BY DEF Release!List, Release!At, Release!Saving, Release!Phases
<1>2. /\ rel \in RunRecords /\ rel.no > 0 /\ rel.no \in Nat
      /\ receipt \in [1 .. MaxReleases -> Release!Receipts \cup {None}] /\ receipt[rel.no] # None
      /\ rel.image \in Release!Images /\ rel.old \in Release!Images
  BY <1>1, Distinct DEF ReleaseInvariant, Release!TypeOK, RunRecords, Informed
<1>3. DOMAIN snapshots \in SUBSET (1 .. MaxSnapshots)
  <2>1. PICK k \in 0 .. MaxSnapshots : DOMAIN snapshots = 1 .. k
    BY DEF ReleaseInvariant, Release!TypeOK
  <2>2. 1 .. k \subseteq 1 .. MaxSnapshots
    BY DEF Release!ReleasesAssumption
  <2> QED
    BY <2>1, <2>2
<1>4. /\ rel' \in RunRecords /\ rel'.no = rel.no /\ rel'.phase = "request"
      /\ rel'.image = rel.image /\ rel'.old = rel.old /\ rel'.before = DOMAIN snapshots
  BY <1>1, <1>2, <1>3 DEF RunRecords
<1>5. RunNext
  BY <1>1, <1>2, <1>4 DEF RunNext, RunTypes, Informed
<1>6. Copying'
  <2>1. receipt[rel.no].backup \in 0 .. writes
    BY <1>1 DEF ReleaseInvariant, Copying
  <2> QED
    BY <1>1, <1>4, <2>1 DEF Copying
<1> QED
  BY <1>1, <1>4, <1>5, <1>6, GoesOnHolds

LEMMA AskHolds ==
  ASSUME Release!ReleasesAssumption, ReleaseInvariant, Grows, Release!Ask
  PROVE  Holds
<1>1. /\ rel.phase = "request" /\ rel.phase \in Release!Saving
      /\ rel.phase \in Release!Phases \ {"confirm"}
      /\ UNCHANGED <<live, receipt, replaced, late, writes>> /\ "observe" \in Release!Phases
      /\ rel' = [rel EXCEPT !.phase = "observe", !.after = Release!Second]
  BY DEF Release!Ask, Release!At, Release!Saving, Release!Phases
<1>2. /\ rel \in RunRecords /\ rel.no > 0 /\ rel.no \in Nat
      /\ receipt \in [1 .. MaxReleases -> Release!Receipts \cup {None}] /\ receipt[rel.no] # None
      /\ rel.image \in Release!Images /\ rel.old \in Release!Images
  BY <1>1, Distinct DEF ReleaseInvariant, Release!TypeOK, RunRecords, Informed
<1>3. PICK second \in Nat : second = Release!Second
  BY SecondTyped DEF ReleaseInvariant
<1>4. /\ rel' \in RunRecords /\ rel'.no = rel.no /\ rel'.phase = "observe"
      /\ rel'.image = rel.image /\ rel'.old = rel.old /\ rel'.before = rel.before
  BY <1>1, <1>2, <1>3 DEF RunRecords
<1>5. RunNext
  BY <1>1, <1>2, <1>4 DEF RunNext, RunTypes, Informed
<1>6. Copying'
  <2>1. receipt[rel.no].backup \in 0 .. writes /\ writes \in Nat
    BY <1>1 DEF ReleaseInvariant, Release!TypeOK, Copying
  <2>2. ASSUME NEW n \in DOMAIN snapshots' \ rel.before
        PROVE  snapshots'[n].data >= receipt[rel.no].backup
    <3>1. CASE n \in DOMAIN snapshots
      BY <1>1, <2>2, <3>1 DEF Grows, ReleaseInvariant, Copying
    <3>2. CASE n \notin DOMAIN snapshots
      BY <2>1, <2>2, <3>2 DEF Grows
    <3> QED
      BY <3>1, <3>2
  <2> QED
    BY <1>1, <1>4, <2>1, <2>2 DEF Copying
<1> QED
  BY <1>1, <1>4, <1>5, <1>6, GoesOnHolds

LEMMA ObserveHolds ==
  ASSUME Release!ReleasesAssumption, ReleaseInvariant, Grows, Release!Observe
  PROVE  Holds
<1>1. /\ rel.phase = "observe" /\ rel.phase \in Release!Saving
      /\ rel.phase \in Release!Phases \ {"confirm"}
      /\ UNCHANGED <<live, replaced, late, snapshots, writes>> /\ "push" \in Release!Saving
  BY DEF Release!Observe, Release!At, Release!Saving, Release!Phases
<1>2. CASE Release!Raise
  BY <1>1, <1>2, EndsHolds
<1>3. CASE \E n \in Release!NewSnapshots :
             Release!Goes("push") /\ Release!SaveReceipt([receipt[rel.no] EXCEPT !.snapshot = n])
  <2>1. PICK n \in Release!NewSnapshots :
             Release!Goes("push") /\ Release!SaveReceipt([receipt[rel.no] EXCEPT !.snapshot = n])
    BY <1>3
  <2>2. n \in DOMAIN snapshots \ rel.before /\ snapshots[n].created
    BY DEF Release!NewSnapshots
  <2>3. /\ receipt[rel.no] \in Release!Receipts /\ receipt[rel.no].backup \in 0 .. writes
        /\ snapshots[n].data >= receipt[rel.no].backup
    BY <1>1, <2>2, InPhases, Distinct DEF ReleaseInvariant, Release!TypeOK, Copying
  <2>4. n \in 1 .. MaxSnapshots /\ n \in Nat
    <3>1. PICK k \in 0 .. MaxSnapshots : DOMAIN snapshots = 1 .. k
      BY DEF ReleaseInvariant, Release!TypeOK
    <3>2. 1 .. k \subseteq 1 .. MaxSnapshots /\ 1 .. k \subseteq Nat
      BY DEF Release!ReleasesAssumption
    <3> QED
      BY <2>2, <3>1, <3>2
  <2>5. PICK new : new = [receipt[rel.no] EXCEPT !.snapshot = n]
    OBVIOUS
  <2>6. new \in Release!Receipts /\ new.backup = receipt[rel.no].backup /\ new.snapshot = n
    BY <2>3, <2>4, <2>5 DEF Release!Receipts
  <2>7. /\ RunNext /\ rel'.phase = "push" /\ rel'.no = rel.no /\ rel.no \in 1 .. MaxReleases
        /\ receipt'[rel'.no] = new /\ new # None
        /\ \A m \in 1 .. MaxReleases \ {rel.no} : receipt'[m] = receipt[m]
    BY <1>1, <2>1, <2>5, <2>6, SavesAndGoes
  <2>8. new.backup # None /\ n # None
    BY <2>3, <2>4, <2>6, Distinct
  <2>9. TwiceSaved(rel.no)'
    BY <1>1, <2>2, <2>3, <2>6, <2>7, <2>8 DEF TwiceSaved
  <2>10. Copying'
    BY <2>7, <2>9 DEF Copying
  <2> QED
    BY <1>1, <2>7, <2>10, SavesHolds
<1> QED
  BY <1>2, <1>3 DEF Release!Observe

\* What the receipt says of the copies, when only its status changes.
LEMMA StatusKeeps ==
  ASSUME Release!ReleasesAssumption, ReleaseInvariant, Grows, rel.phase \in {"push", "confirm"},
         NEW st \in {"preparing", "deploying", "deployed", "failed"},
         Release!SaveReceipt([receipt[rel.no] EXCEPT !.status = st]), rel'.no = rel.no
  PROVE  /\ rel.no \in 1 .. MaxReleases
         /\ \E new \in Release!Receipts : Release!SaveReceipt(new)
         /\ receipt' \in [1 .. MaxReleases -> Release!Receipts \cup {None}]
         /\ \A n \in 1 .. MaxReleases \ {rel.no} : receipt'[n] = receipt[n]
         /\ receipt'[rel.no] # None
         /\ receipt'[rel.no].backup = receipt[rel.no].backup
         /\ receipt'[rel.no].snapshot = receipt[rel.no].snapshot
         /\ TwiceSaved(rel.no)'
<1>1. /\ rel.phase \in Release!Saving /\ rel.phase # None /\ rel.no \in 1 .. MaxReleases
      /\ receipt[rel.no] \in Release!Receipts /\ TwiceSaved(rel.no)
  BY InPhases, Distinct DEF ReleaseInvariant, Release!TypeOK, Release!Saving, Copying
<1>2. PICK new : new = [receipt[rel.no] EXCEPT !.status = st]
  OBVIOUS
<1>3. /\ new \in Release!Receipts /\ new.backup = receipt[rel.no].backup
      /\ new.snapshot = receipt[rel.no].snapshot
  BY <1>1, <1>2 DEF Release!Receipts
<1>4. Release!SaveReceipt(new)
  BY <1>2
<1>5. /\ receipt' \in [1 .. MaxReleases -> Release!Receipts \cup {None}]
      /\ receipt'[rel.no] = new /\ new # None
      /\ \A n \in 1 .. MaxReleases \ {rel.no} : receipt'[n] = receipt[n]
  BY <1>1, <1>3, <1>4, ReceiptTyped DEF ReleaseInvariant
<1>6. PICK m \in 1 .. MaxReleases : m = rel.no
  BY <1>1
<1>7. TwiceSaved(m)
  BY <1>1, <1>6
<1>8. TwiceSaved(m)'
  BY <1>3, <1>5, <1>6, <1>7, StaysSaved
<1>9. TwiceSaved(rel.no)'
  BY <1>6, <1>8 DEF TwiceSaved
<1> QED
  BY <1>1, <1>3, <1>4, <1>5, <1>9

LEMMA PushHolds ==
  ASSUME Release!ReleasesAssumption, ReleaseInvariant, Grows, Release!Push
  PROVE  Holds
<1>1. /\ rel.phase = "push" /\ rel.phase \in Release!Saving
      /\ rel.phase \in Release!Phases \ {"confirm"}
      /\ UNCHANGED <<live, replaced, late>> /\ "recheck" \in Release!Saving
      /\ "recheck" \in Release!Phases
  BY DEF Release!Push, Release!At, Release!Saving, Release!Phases
<1>2. CASE Release!Raise
  BY <1>1, <1>2, EndsHolds
<1>3. CASE Release!Goes("recheck") /\ Release!SaveReceipt([receipt[rel.no] EXCEPT !.status = "deploying"])
  <2>1. rel'.no = rel.no
    BY <1>1, <1>3, GoesTyped, Distinct DEF ReleaseInvariant
  <2>2. /\ TwiceSaved(rel.no)' /\ rel.no \in 1 .. MaxReleases
        /\ \A n \in 1 .. MaxReleases \ {rel.no} : receipt'[n] = receipt[n]
        /\ \E new \in Release!Receipts : Release!SaveReceipt(new)
    BY <1>1, <1>3, <2>1, StatusKeeps
  <2>3. RunNext /\ rel'.phase = "recheck"
    BY <1>1, <1>3, <2>2, SavesAndGoes
  <2>4. Copying'
    BY <2>2, <2>3 DEF Copying
  <2> QED
    BY <1>1, <2>1, <2>2, <2>3, <2>4, SavesHolds
<1> QED
  BY <1>2, <1>3 DEF Release!Push

LEMMA RecheckHolds ==
  ASSUME Release!ReleasesAssumption, ReleaseInvariant, Grows, Release!Recheck
  PROVE  Holds
<1>1. /\ rel.phase = "recheck" /\ rel.phase \in Release!Saving
      /\ rel.phase \in Release!Phases \ {"confirm"}
      /\ UNCHANGED <<live, replaced, late>> /\ "deploy" \in Release!Phases
      /\ rel.phase # None /\ rel.phase # "prepare"
  BY Distinct DEF Release!Recheck, Release!At, Release!Saving, Release!Phases
<1>2. CASE Release!Raise
  BY <1>1, <1>2, EndsHolds
<1>3. CASE Release!Goes("deploy") /\ UNCHANGED receipt
  <2>1. /\ receipt \in [1 .. MaxReleases -> Release!Receipts \cup {None}] /\ receipt[rel.no] # None
        /\ Release!TypeOK /\ Informed
    BY <1>1 DEF ReleaseInvariant, Release!TypeOK
  <2>2. RunNext /\ rel'.phase = "deploy" /\ rel'.no = rel.no
    BY <1>1, <1>3, <2>1, GoesOn
  <2>3. TwiceSaved(rel.no)'
    <3>1. PICK m : m = rel.no
      OBVIOUS
    <3>2. TwiceSaved(m) /\ receipt[m] # None
      BY <1>1, <2>1, <3>1 DEF ReleaseInvariant, Copying
    <3>3. TwiceSaved(m)'
      BY <1>3, <3>2, StaysSaved
    <3> QED
      BY <2>2, <3>1, <3>3 DEF TwiceSaved
  <2>4. Copying'
    BY <2>2, <2>3 DEF Copying
  <2> QED
    BY <1>1, <1>3, <2>2, <2>4, GoesOnHolds
<1> QED
  BY <1>2, <1>3 DEF Release!Recheck

\* A replacement is entered under a release whose copies are there.
LEMMA ReplacesHolds ==
  ASSUME Release!ReleasesAssumption, ReleaseInvariant, Grows,
         NEW no \in 1 .. MaxReleases, no = rel.no, TwiceSaved(no), NEW image \in Release!Images,
         Release!Replaces(no, image), late' = None, UNCHANGED receipt, RunNext,
         rel'.no = rel.no,
         rel'.phase \in {None, "confirm"}
  PROVE  Holds
<1>1. /\ live \in Release!Images /\ no \in Nat
      /\ replaced \subseteq [release : 1 .. MaxReleases, from : Release!Images, to : Release!Images]
  BY DEF ReleaseInvariant, Release!TypeOK
<1>2. PICK new : new = [release |-> no, from |-> live, to |-> image]
  OBVIOUS
<1>3. /\ new \in [release : 1 .. MaxReleases, from : Release!Images, to : Release!Images]
      /\ new.release = no /\ replaced' = replaced \cup {new} /\ live' = image
  BY <1>1, <1>2 DEF Release!Replaces
<1>4. MachineTypes'
  BY <1>1, <1>3 DEF MachineTypes
<1>5. TwiceSaved(no)'
  BY StaysSaved DEF TwiceSaved
<1>6. ASSUME NEW d \in replaced
      PROVE  TwiceSaved(d.release)' /\ d.release <= rel'.no
  <2>1. TwiceSaved(d.release) /\ d.release <= rel.no
    BY DEF ReleaseInvariant, Covered
  <2>2. PICK m : m = d.release
    OBVIOUS
  <2>3. TwiceSaved(m) /\ receipt[m] # None
    BY <2>1, <2>2 DEF TwiceSaved
  <2>4. TwiceSaved(m)'
    BY <2>3, StaysSaved
  <2> QED
    BY <2>1, <2>2, <2>4 DEF TwiceSaved
<1>7. TwiceSaved(new.release)' /\ new.release <= rel'.no
  BY <1>1, <1>3, <1>5 DEF TwiceSaved
<1>8. Covered'
  BY <1>3, <1>6, <1>7 DEF Covered
<1>9. Copying'
  <2>1. rel'.phase = "confirm" => TwiceSaved(rel.no)'
    BY <1>5 DEF TwiceSaved
  <2> QED
    BY <2>1, Distinct DEF Copying, Release!Phases, Release!Saving
<1> QED
  BY <1>4, <1>8, <1>9 DEF Holds

LEMMA DeployHolds ==
  ASSUME Release!ReleasesAssumption, ReleaseInvariant, Grows, Release!Deploy
  PROVE  Holds
<1>1. /\ rel.phase = "deploy" /\ rel.phase \in Release!Saving
      /\ rel.phase \in Release!Phases \ {"confirm"}
      /\ "confirm" \in Release!Phases /\ rel.phase # None /\ rel.phase # "prepare"
  BY Distinct DEF Release!Deploy, Release!At, Release!Saving, Release!Phases
<1>2. /\ rel.no \in 1 .. MaxReleases /\ rel.image \in Release!Images /\ TwiceSaved(rel.no)
      /\ receipt \in [1 .. MaxReleases -> Release!Receipts \cup {None}] /\ receipt[rel.no] # None
      /\ Release!TypeOK /\ Informed /\ late = None /\ live \in Release!Images
  BY <1>1, InPhases, OthersReplaced
     DEF ReleaseInvariant, Release!TypeOK, Informed, Copying, Release!Phases
<1>3. PICK no \in 1 .. MaxReleases, image \in Release!Images : no = rel.no /\ image = rel.image
  BY <1>2
<1>4. CASE Release!Replaces(rel.no, rel.image) /\ Release!Goes("confirm") /\ UNCHANGED <<receipt, late>>
  <2>1. RunNext /\ rel'.phase = "confirm" /\ rel'.no = rel.no
    BY <1>1, <1>2, <1>4, GoesOn
  <2> QED
    BY <1>2, <1>3, <1>4, <2>1, ReplacesHolds
<1>5. CASE Release!Raise /\ UNCHANGED <<live, replaced, late>>
  BY <1>1, <1>5, EndsHolds
<1>6. CASE Release!Raise /\ late' = [no |-> rel.no, image |-> rel.image] /\ UNCHANGED <<live, replaced>>
  <2>1. RunNext /\ rel'.phase = None /\ rel'.no = rel.no
    BY <1>1, <1>2, <1>6, Ends
  <2>2. MachineTypes'
    <3>1. late' \in [no : {rel'.no}, image : Release!Images]
      BY <1>2, <1>6, <2>1
    <3> QED
      BY <1>6, <3>1 DEF ReleaseInvariant, Release!TypeOK, MachineTypes
  <2>3. \A n \in 1 .. MaxReleases :
          TwiceSaved(n) => /\ receipt'[n] # None /\ receipt'[n].backup = receipt[n].backup
                           /\ receipt'[n].snapshot = receipt[n].snapshot
    BY <1>1, <1>2, <1>6, RaiseTyped DEF TwiceSaved
  <2>4. \A n \in 1 .. MaxReleases : TwiceSaved(n) => TwiceSaved(n)'
    BY <2>3, StaysSaved
  <2>5. TwiceSaved(rel.no)' /\ rel'.no > 0
    <3>1. TwiceSaved(no)'
      BY <1>2, <1>3, <2>4
    <3> QED
      BY <1>3, <2>1, <3>1 DEF TwiceSaved
  <2>6. \A d \in replaced : d.release \in 1 .. MaxReleases /\ TwiceSaved(d.release)
                            /\ d.release <= rel.no
    BY DEF ReleaseInvariant, Covered, Release!TypeOK
  <2>7. \A d \in replaced : TwiceSaved(d.release)'
    BY <2>4, <2>6
  <2>8. Covered'
    BY <1>6, <2>1, <2>5, <2>6, <2>7 DEF Covered
  <2>9. Copying'
    BY <2>1, Distinct DEF Copying, Release!Phases, Release!Saving
  <2> QED
    BY <2>1, <2>2, <2>8, <2>9 DEF Holds
<1> QED
  BY <1>4, <1>5, <1>6 DEF Release!Deploy

LEMMA LandsHolds ==
  ASSUME Release!ReleasesAssumption, ReleaseInvariant, Grows, Release!Lands
  PROVE  Holds
<1>1. /\ late # None /\ late' = None /\ Release!Replaces(late.no, late.image)
      /\ UNCHANGED <<rel, receipt>>
  BY DEF Release!Lands
<1>2. /\ rel.phase = None /\ rel.no > 0 /\ TwiceSaved(rel.no) /\ rel.no \in 0 .. MaxReleases
      /\ late.no = rel.no /\ late.image \in Release!Images
  BY <1>1 DEF ReleaseInvariant, Release!TypeOK, Covered
<1>3. rel.no \in 1 .. MaxReleases
  BY <1>2
<1>4. PICK no \in 1 .. MaxReleases, image \in Release!Images : no = rel.no /\ image = late.image
  BY <1>2, <1>3
<1>5. RunNext /\ rel'.no = rel.no /\ rel'.phase = None
  BY <1>1, <1>2, Outside DEF ReleaseInvariant
<1> QED
  BY <1>1, <1>2, <1>4, <1>5, ReplacesHolds

LEMMA ConfirmHolds ==
  ASSUME Release!ReleasesAssumption, ReleaseInvariant, Grows, Release!Confirm
  PROVE  Holds
<1>1. /\ rel.phase = "confirm" /\ rel.phase \in Release!Saving /\ rel.phase \in Release!Phases
      /\ UNCHANGED <<live, replaced, late>>
  BY DEF Release!Confirm, Release!At, Release!Saving, Release!Phases
<1>2. CASE Release!Raise
  BY <1>1, <1>2, EndsHolds
<1>3. CASE Release!Stops /\ Release!SaveReceipt([receipt[rel.no] EXCEPT !.status = "deployed"])
  <2>1. rel' \in RunRecords /\ rel'.phase = None /\ rel'.no = rel.no
    BY <1>3, StopsTyped DEF ReleaseInvariant
  <2>2. /\ rel.no \in 1 .. MaxReleases
        /\ receipt' \in [1 .. MaxReleases -> Release!Receipts \cup {None}]
        /\ \A n \in 1 .. MaxReleases \ {rel.no} : receipt'[n] = receipt[n]
        /\ receipt'[rel.no] # None
        /\ receipt'[rel.no].backup = receipt[rel.no].backup
        /\ receipt'[rel.no].snapshot = receipt[rel.no].snapshot
    BY <1>1, <1>3, <2>1, StatusKeeps
  <2>3. RunNext
    BY <2>1, <2>2, Distinct DEF RunNext, RunTypes, Informed, Release!Phases
  <2>4. Copying'
    BY <2>1, Distinct DEF Copying, Release!Phases, Release!Saving
  <2>5. late = None /\ live \in Release!Images /\ rel.no \in Nat
    BY <1>1, OthersReplaced DEF ReleaseInvariant, Release!TypeOK
  <2>6. \A m \in 1 .. MaxReleases :
          TwiceSaved(m) => /\ receipt'[m] # None /\ receipt'[m].backup = receipt[m].backup
                           /\ receipt'[m].snapshot = receipt[m].snapshot
    BY <2>2 DEF TwiceSaved
  <2>7. MachineTypes' /\ Covered'
    BY <1>1, <2>1, <2>5, <2>6, StaysCovered
  <2> QED
    BY <2>3, <2>4, <2>7 DEF Holds
<1> QED
  BY <1>2, <1>3 DEF Release!Confirm

LEMMA KilledHolds ==
  ASSUME Release!ReleasesAssumption, ReleaseInvariant, Grows, Release!Killed
  PROVE  Holds
<1>1. /\ rel.phase \in Release!Phases /\ Release!Stops /\ UNCHANGED receipt
      /\ UNCHANGED <<live, replaced, late>>
  BY DEF Release!Killed, ReleaseInvariant, Release!TypeOK
<1> QED
  BY <1>1, EndsHolds

\* Between the steps of a release others merge, test, write, take snapshots and roll back.
LEMMA OthersHold ==
  ASSUME Release!ReleasesAssumption, ReleaseInvariant, Grows,
         \/ \E r \in {"success", "failure"} : \E c \in Release!Commits : Release!CIEnds(c, r)
         \/ \E c \in Release!Commits : Release!Rerun(c)
         \/ Release!Merge \/ Release!Write \/ Release!Scheduled \/ Release!ByHand
         \/ \E n \in 1 .. MaxSnapshots : Release!Completes(n)
  PROVE  Holds
<1>1. UNCHANGED <<rel, receipt, replaced, late>>
  BY DEF Release!CIEnds, Release!Rerun, Release!Merge, Release!Write, Release!Scheduled,
     Release!ByHand, Release!Completes
<1>2. live' \in Release!Images
  <2>1. live \in Release!Images /\ tested \subseteq Release!Images
    BY DEF ReleaseInvariant, Release!TypeOK
  <2> QED
    BY <2>1
       DEF Release!CIEnds, Release!Rerun, Release!Merge, Release!Write, Release!Scheduled,
          Release!ByHand, Release!Completes
<1> QED
  BY <1>1, <1>2, OutsideHolds

-----------------------------------------------------------------------------
(* The invariant                                                            *)

LEMMA ReleaseInit ==
  ASSUME Release!ReleasesAssumption, Release!Init
  PROVE  ReleaseInvariant
<1>1. 1 \in Release!Commits /\ 1 \in 1 .. MaxAttempts /\ 0 \in 0 .. MaxWrites /\ 0 \in 0 .. MaxReleases
      /\ 0 \in 0 .. MaxSnapshots
  BY DEF Release!ReleasesAssumption, Release!Commits
<1>2. Release!Image(1, 1) \in Release!Images
  BY <1>1 DEF Release!Image, Release!Images
<1>3. rel \in RunRecords /\ rel.phase = None /\ rel.no = 0
  BY <1>1 DEF Release!Init, Release!Idle, RunRecords
<1>4. DOMAIN snapshots = {} /\ snapshots \in [1 .. 0 -> Taken]
  <2>1. <<>> \in Seq(Taken) /\ Len(<<>>) = 0
    BY EmptySeq
  <2>2. <<>> \in [1 .. Len(<<>>) -> Taken]
    BY <2>1, LenProperties
  <2>3. snapshots \in [1 .. 0 -> Taken]
    BY <2>1, <2>2 DEF Release!Init
  <2> QED
    BY <2>3
<1>5. Cardinality(DOMAIN snapshots) = 0
  BY <1>4, FS_EmptySet
<1>6. VolumeTypes
  BY <1>1, <1>4, <1>5 DEF VolumeTypes, Release!Init
<1>7. RunTypes /\ Informed /\ Copying
  BY <1>3, Distinct
     DEF RunTypes, Informed, Copying, Release!Init, Release!Phases, Release!Saving
<1>8. MachineTypes /\ Covered
  BY <1>2 DEF MachineTypes, Covered, Release!Init
<1>9. /\ main \in Release!Commits /\ tested \subseteq Release!Images
      /\ ci \in [Release!Commits -> [attempt : 1 .. MaxAttempts,
                         conclusion : {"success", "failure", "running"}]]
  BY <1>1, <1>2 DEF Release!Init
<1> QED
  BY <1>6, <1>7, <1>8, <1>9, TypeParts DEF ReleaseInvariant

LEMMA ReleaseNext ==
  ASSUME Release!ReleasesAssumption, ReleaseInvariant, Release!Next
  PROVE  ReleaseInvariant'
<1>1. VolumeTypes' /\ Grows
  BY VolumeNext DEF ReleaseInvariant
<1>2. Holds
  <2>1. CASE Release!Controller
    BY <1>1, <2>1, PrepareHolds, BeginHolds, ReadMachineHolds, CompareHolds, BackupHolds,
       ListHolds, AskHolds, ObserveHolds, PushHolds, RecheckHolds, DeployHolds, ConfirmHolds
       DEF Release!Controller
  <2> QED
    BY <1>1, <2>1, OthersHold, DispatchHolds, LandsHolds, KilledHolds DEF Release!Next
<1>3. /\ main' \in Release!Commits /\ tested' \subseteq Release!Images
      /\ ci' \in [Release!Commits -> [attempt : 1 .. MaxAttempts,
                         conclusion : {"success", "failure", "running"}]]
  BY CITypes DEF ReleaseInvariant
<1>4. RunTypes' /\ Informed' /\ MachineTypes' /\ Covered' /\ Copying'
  BY <1>2 DEF Holds, RunNext
<1>5. Release!TypeOK'
  BY <1>1, <1>3, <1>4, SameCardinality
     DEF Release!TypeOK, RunTypes, MachineTypes, VolumeTypes, Taken, RunRecords
<1> QED
  BY <1>4, <1>5 DEF ReleaseInvariant

LEMMA ReleaseInductive ==
  ASSUME Release!ReleasesAssumption
  PROVE  Release!Spec => []ReleaseInvariant
<1>1. ReleaseInvariant /\ [Release!Next]_Release!vars => ReleaseInvariant'
  <2> SUFFICES ASSUME ReleaseInvariant, [Release!Next]_Release!vars
               PROVE  ReleaseInvariant'
    OBVIOUS
  <2>1. CASE Release!Next
    BY <2>1, ReleaseNext
  <2>2. CASE UNCHANGED Release!vars
    BY <2>2
       DEF Release!vars, ReleaseInvariant, Release!TypeOK, Informed, Covered, Copying,
          TwiceSaved, Release!Begun
  <2> QED
    BY <2>1, <2>2
<1>2. Release!Init => ReleaseInvariant
  BY ReleaseInit
<1> QED
  BY <1>1, <1>2, PTL DEF Release!Spec

\* TypeOK of Releases: in every behaviour the workflow run, its receipts, the snapshots and
\* the images are of their types, and a run that saves has its receipt.
THEOREM ReleaseTypes ==
  ASSUME Release!ReleasesAssumption
  PROVE  Release!Spec => []Release!TypeOK
<1>1. ReleaseInvariant => Release!TypeOK
  BY DEF ReleaseInvariant
<1> QED
  BY <1>1, ReleaseInductive, PTL

\* Whatever has replaced the production machine was preceded by a backup and by a completed
\* snapshot that is no older, although the facts are read one after the other, deployments
\* time out and land late, and the operator rolls back by hand.
THEOREM NothingUnsaved ==
  ASSUME Release!ReleasesAssumption
  PROVE  Release!Spec => []SavedFirst
<1>1. ReleaseInvariant => SavedFirst
  BY DEF ReleaseInvariant, Covered, TwiceSaved, SavedFirst, Release!SavedFirst
<1> QED
  BY <1>1, ReleaseInductive, PTL
=============================================================================
