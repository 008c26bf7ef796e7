----------------------------- MODULE AlertEmail -----------------------------
(***************************************************************************)
(* One email for each spending alert: the outbox the authority keeps       *)
(* (claim_alert_email, finish_alert_email, ack_alert in ai_cost_control.py)*)
(* and the runs that drain it every minute (ai_cost_email.py).  Runs may   *)
(* overlap, be suspended and die; a request may be lost, arrive late, or   *)
(* be answered when nobody listens.  The provider drops a repeated key for *)
(* a while only, so the outbox gives up into review before it forgets.     *)
(*                                                                         *)
(* Alerts are those of the scopes that are emailed, in the order of the    *)
(* outbox.  Time is kept in timers that Tick advances.                     *)
(***************************************************************************)
EXTENDS Integers, FiniteSets, Sequences

CONSTANTS
    Alerts,         \* positions in the outbox
    Runs,           \* processes that drain it
    Settings,       \* sender and recipient a run is configured with
    None,
    Limit,          \* claims of a run (20)
    Lease,          \* a claim is exclusive for 120 s
    Backoff,        \* wait after the first, second, ... attempt (60 s, doubled, to 1 h)
    Review,         \* age of the first attempt at which nothing is sent (23 h)
    Window,         \* the provider drops a repeated key that long (24 h)
    Delay           \* assumed: from a claim to the arrival of its request

\* What the constants are assumed to be.
EmailConstants ==
    /\ Alerts \subseteq Nat /\ IsFiniteSet(Alerts)
    /\ None \notin Runs \cup Settings
    /\ {Limit, Lease, Review, Window} \subseteq Nat \ {0} /\ Delay \in Nat
    /\ Backoff \in Seq(Nat \ {0}) /\ Backoff # <<>>
    /\ Review + Delay < Window

VARIABLES
    outbox,         \* alert -> its record and email_delivery
    run,            \* process -> where it is in drain
    network,        \* requests under way
    known,          \* alert -> how long the provider still knows its key
    sent            \* history: alert -> emails sent, payloads seen for its key

vars == <<outbox, run, network, known, sent>>

Least(S) == CHOOSE a \in S : \A b \in S : a <= b

Attempted(a) == outbox[a].payload # None

\* Type correctness; acceptance by the provider acknowledges the alert.
TypeOK ==
    /\ outbox \in [Alerts -> [acknowledged : BOOLEAN, review : BOOLEAN, accepted : BOOLEAN,
                              payload : Settings \cup {None}, age : 0..Review,
                              lease : Runs \cup {None}, leased : 0..Lease,
                              wait : Nat, attempts : 0..Len(Backoff)]]
    /\ \A a \in Alerts : /\ outbox[a].accepted => outbox[a].acknowledged
                         /\ outbox[a].attempts > 0 <=> Attempted(a)
    /\ run \in [Runs -> [phase : {"idle", "draining", "posting", "waiting", "refused", "accepted"},
                         todo : SUBSET Alerts, alert : Alerts \cup {None}, claims : 0..Limit,
                         config : Settings \cup {None}, age : 0..Delay]]
    /\ network \subseteq [alert : Alerts, payload : Settings, age : 0..Delay,
                          from : Runs \cup {None}]
    /\ known \in [Alerts -> 0..Window]
    /\ sent \in [Alerts -> [emails : 0..2, payloads : SUBSET Settings]]

Pending == [acknowledged |-> FALSE, review |-> FALSE, accepted |-> FALSE, payload |-> None,
            age |-> 0, lease |-> None, leased |-> 0, wait |-> 0, attempts |-> 0]
NoRun == [phase |-> "idle", todo |-> {}, alert |-> None, claims |-> 0, config |-> None, age |-> 0]

Init ==
    /\ outbox = [a \in Alerts |-> Pending]
    /\ run = [r \in Runs |-> NoRun]
    /\ network = {} /\ known = [a \in Alerts |-> 0]
    /\ sent = [a \in Alerts |-> [emails |-> 0, payloads |-> {}]]

-----------------------------------------------------------------------------
(* The outbox                                                               *)

Closed(a) == outbox[a].acknowledged \/ outbox[a].review \/ outbox[a].accepted

TooOld(a) == Attempted(a) /\ outbox[a].age >= Review
Busy(a) == outbox[a].leased > 0 \/ outbox[a].wait > 0

\* The first claim fixes what every later one sends, and starts the clock.
SlipClaimed(a, r) ==
    [outbox[a] EXCEPT !.payload = run[r].config, !.lease = r, !.leased = Lease,
                      !.attempts = IF @ = Len(Backoff) THEN @ ELSE @ + 1]
SlipClaimedAnew(a, r) ==
    [outbox[a] EXCEPT !.payload = IF @ = None THEN run[r].config ELSE @, !.age = 0,
                      !.lease = r, !.leased = Lease,
                      !.attempts = IF @ = Len(Backoff) THEN @ ELSE @ + 1]
Claimed(a, r) ==
    [outbox[a] EXCEPT !.payload = IF @ = None THEN run[r].config ELSE @,
                      !.lease = r, !.leased = Lease,
                      !.attempts = IF @ = Len(Backoff) THEN @ ELSE @ + 1]

Confirmed(a) == [outbox[a] EXCEPT !.accepted = TRUE, !.acknowledged = TRUE, !.leased = 0]
Unconfirmed(a) == [outbox[a] EXCEPT !.wait = Backoff[outbox[a].attempts], !.leased = 0]

\* ack_alert, by an administrator.
Acknowledge(a) ==
    /\ ~outbox[a].acknowledged
    /\ outbox' = [outbox EXCEPT ![a].acknowledged = TRUE]
    /\ UNCHANGED <<run, network, known, sent>>

-----------------------------------------------------------------------------
(* A run of drain                                                           *)

StartRun(r) ==
    /\ run[r].phase = "idle"
    /\ \E c \in Settings :
         run' = [run EXCEPT ![r] = [NoRun EXCEPT !.phase = "draining", !.config = c,
                    !.todo = {a \in Alerts : ~outbox[a].acknowledged}]]
    /\ UNCHANGED <<outbox, network, known, sent>>

Next1(r) == Least(run[r].todo)
Passed(r) == [run EXCEPT ![r].todo = @ \ {Next1(r)}]
CanClaim(r) == run[r].phase = "draining" /\ run[r].todo # {} /\ run[r].claims < Limit

\* claim_alert_email: nothing to do, too old, not yet, or a claim.
Skip(r) ==
    /\ CanClaim(r)
    /\ Closed(Next1(r)) \/ (~TooOld(Next1(r)) /\ Busy(Next1(r)))
    /\ run' = Passed(r)
    /\ UNCHANGED <<outbox, network, known, sent>>
GiveUp(r) ==
    /\ CanClaim(r) /\ ~Closed(Next1(r)) /\ TooOld(Next1(r))
    /\ outbox' = [outbox EXCEPT ![Next1(r)].review = TRUE] /\ run' = Passed(r)
    /\ UNCHANGED <<network, known, sent>>
Claim(r) ==
    /\ CanClaim(r) /\ ~Closed(Next1(r)) /\ ~TooOld(Next1(r)) /\ ~Busy(Next1(r))
    /\ outbox' = [outbox EXCEPT ![Next1(r)] = Claimed(Next1(r), r)]
    /\ run' = [Passed(r) EXCEPT ![r].phase = "posting", ![r].alert = Next1(r),
                                ![r].claims = @ + 1, ![r].age = 0]
    /\ UNCHANGED <<network, known, sent>>
EndRun(r) ==
    /\ run[r].phase = "draining" /\ (run[r].todo = {} \/ run[r].claims = Limit)
    /\ run' = [run EXCEPT ![r] = NoRun]
    /\ UNCHANGED <<outbox, network, known, sent>>

\* The payload is the one the claim returned.
Post(r) ==
    /\ run[r].phase = "posting"
    /\ network' = network \cup {[alert |-> run[r].alert, payload |-> outbox[run[r].alert].payload,
                                 age |-> run[r].age, from |-> r]}
    /\ run' = [run EXCEPT ![r].phase = "waiting"]
    /\ UNCHANGED <<outbox, known, sent>>

Unheard(r) == {IF m.from = r THEN [m EXCEPT !.from = None] ELSE m : m \in network}

\* The wait ends without a usable answer; the request may still be under way.
TimeOut(r) ==
    /\ run[r].phase = "waiting"
    /\ run' = [run EXCEPT ![r].phase = "refused"] /\ network' = Unheard(r)
    /\ UNCHANGED <<outbox, known, sent>>

\* finish_alert_email.  A claim that was taken over raises, which ends the run.
Held(r) == outbox[run[r].alert].lease = r
Record(r) ==
    /\ run[r].phase \in {"accepted", "refused"}
    /\ \/ /\ Held(r)
          /\ outbox' = [outbox EXCEPT ![run[r].alert] =
                          IF run[r].phase = "accepted" THEN Confirmed(run[r].alert)
                          ELSE Unconfirmed(run[r].alert)]
          /\ run' = [run EXCEPT ![r].phase = "draining", ![r].alert = None]
       \/ ~Held(r) /\ UNCHANGED outbox /\ run' = [run EXCEPT ![r] = NoRun]
    /\ UNCHANGED <<network, known, sent>>

\* The process dies, or the authority cannot be reached, which ends the run too.
Die(r) ==
    /\ run[r].phase # "idle"
    /\ run' = [run EXCEPT ![r] = NoRun] /\ network' = Unheard(r)
    /\ UNCHANGED <<outbox, known, sent>>

-----------------------------------------------------------------------------
(* The provider, the network and time                                       *)

\* A key the provider knows is answered again without another email.
Arrive(m) ==
    /\ m \in network /\ network' = network \ {m}
    /\ \/ /\ known[m.alert] = 0
          /\ known' = [known EXCEPT ![m.alert] = Window]
          /\ sent' = [sent EXCEPT ![m.alert].emails = IF @ = 2 THEN 2 ELSE @ + 1,
                                  ![m.alert].payloads = @ \cup {m.payload}]
       \/ /\ known[m.alert] > 0 /\ UNCHANGED known
          /\ sent' = [sent EXCEPT ![m.alert].payloads = @ \cup {m.payload}]
    /\ run' = IF m.from = None THEN run ELSE [run EXCEPT ![m.from].phase = "accepted"]
    /\ UNCHANGED outbox
Lose(m) ==
    /\ m \in network /\ network' = network \ {m}
    /\ run' = IF m.from = None THEN run ELSE [run EXCEPT ![m.from].phase = "refused"]
    /\ UNCHANGED <<outbox, known, sent>>

Down(n) == IF n = 0 THEN 0 ELSE n - 1

\* A request that was claimed arrives, or is lost, within Delay.
Tick ==
    /\ \A r \in Runs : run[r].phase = "posting" => run[r].age < Delay
    /\ \A m \in network : m.age < Delay
    /\ outbox' = [a \in Alerts |->
         [outbox[a] EXCEPT !.age = IF Attempted(a) /\ @ < Review THEN @ + 1 ELSE @,
                           !.leased = Down(@), !.wait = Down(@)]]
    /\ run' = [r \in Runs |-> IF run[r].phase = "posting" THEN [run[r] EXCEPT !.age = @ + 1]
                              ELSE run[r]]
    /\ network' = {[m EXCEPT !.age = @ + 1] : m \in network}
    /\ known' = [a \in Alerts |-> Down(known[a])]
    /\ UNCHANGED sent

-----------------------------------------------------------------------------
Draining(r) ==
    Skip(r) \/ GiveUp(r) \/ Claim(r) \/ EndRun(r) \/ Post(r) \/ TimeOut(r) \/ Record(r)

Next ==
    \/ \E a \in Alerts : Acknowledge(a)
    \/ \E r \in Runs : StartRun(r) \/ Draining(r) \/ Die(r)
    \/ \E m \in network : Arrive(m) \/ Lose(m)
    \/ Tick

Spec == Init /\ [][Next]_vars

-----------------------------------------------------------------------------
(* Properties                                                               *)

\* An alert is emailed once, whichever runs overlapped, died or lost the answer:
\* the last request under its key arrives while the provider still knows the key.
EmailedOnce == \A a \in Alerts : sent[a].emails <= 1

\* All requests under a key carry one payload, although the configuration may
\* change between runs; the provider refuses a key that returns changed.
OnePayload == \A a \in Alerts : Cardinality(sent[a].payloads) <= 1

\* Two processes are never both about to send the same alert, except one whose
\* lease ran out before it sent.
OneSender ==
    \A r, q \in Runs :
        /\ r # q /\ run[r].phase = "posting" /\ run[q].phase = "posting"
        /\ run[r].alert = run[q].alert
        => \E x \in {r, q} : outbox[run[x].alert].lease # x /\ run[x].age >= Lease

\* The late report of a run that lost its claim does not release the claim of
\* another, which may be sending: only time and the holder's own report end one.
ClaimsUndisturbed ==
    [][\A a \in Alerts : outbox[a].leased > 0
         => \/ outbox'[a].leased >= outbox[a].leased - 1
            \/ \E r \in Runs : run[r].alert = a /\ outbox[a].lease = r /\ run'[r].alert = None]_vars

=============================================================================
