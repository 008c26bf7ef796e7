-------------------------- MODULE FeedbackReceipts --------------------------
(***************************************************************************)
(* A user's report, filed as an issue at Linear once (ui/feedback_store.py *)
(* and submit in ui/issue_feedback.py).  The receipt in SQLite carries the *)
(* id of the issue, chosen before anything is sent, and a lease; a retry   *)
(* of the same submission looks whether the issue exists before it creates *)
(* it.  Senders may be suspended past their lease or die, server processes *)
(* overlap in a restart, and a request may be lost or filed unheard.       *)
(*                                                                         *)
(* A resubmission with changed contents is refused before all this.        *)
(***************************************************************************)
EXTENDS Integers, FiniteSets

CONSTANTS
    Reports,        \* submission ids of one user
    Issues,         \* issue uuids
    Servers,        \* server processes, each with its one sending slot
    None,
    Pictured,       \* reports with a screenshot
    Daily           \* reports a user may file in a day (20)

\* What the constants are assumed to be.
FeedbackConstants ==
    /\ None \notin Reports \cup Issues \cup Servers /\ IsFiniteSet(Reports)
    /\ Pictured \subseteq Reports /\ Daily \in Nat

VARIABLES
    receipt,        \* report -> its row
    recent,         \* reports first submitted within a day
    sender,         \* server -> the request in its slot
    network,        \* creations under way
    filed,          \* issues that exist at Linear
    used,           \* history: report -> issue ids used for it
    told            \* history: reports whose user was told of success

vars == <<receipt, recent, sender, network, filed, used, told>>

Phases == {"free", "claimed", "checked", "pictured", "attempting", "waiting", "failed", "done"}

\* Type correctness; a lease belongs to a receipt that is being sent, and an issue
\* on file to a report on record.
TypeOK ==
    /\ receipt \in [Reports -> [status : {"none", "sending", "retry", "sent"},
                                issue : Issues \cup {None}, leased : BOOLEAN,
                                attempted : BOOLEAN, asset : BOOLEAN]]
    /\ \A q \in Reports : receipt[q].leased => receipt[q].status = "sending"
    /\ recent \subseteq Reports
    /\ sender \in [Servers -> [phase : Phases, report : Reports \cup {None},
                               attempted : BOOLEAN, asset : BOOLEAN]]
    /\ network \subseteq [issue : Issues, from : Servers \cup {None}]
    /\ filed \subseteq UNION {used[q] : q \in Reports}
    /\ used \in [Reports -> SUBSET Issues] /\ told \subseteq Reports

NoReceipt == [status |-> "none", issue |-> None, leased |-> FALSE, attempted |-> FALSE,
              asset |-> FALSE]
Free == [phase |-> "free", report |-> None, attempted |-> FALSE, asset |-> FALSE]

Init ==
    /\ receipt = [q \in Reports |-> NoReceipt] /\ recent = {}
    /\ sender = [p \in Servers |-> Free]
    /\ network = {} /\ filed = {}
    /\ used = [q \in Reports |-> {}] /\ told = {}

-----------------------------------------------------------------------------
(* claim                                                                    *)

\* The slot is tried without waiting.
SlotFree(p) == sender[p].phase = "free"
Taken(p, q) ==
    [sender EXCEPT ![p] = [phase |-> "claimed", report |-> q,
                           attempted |-> receipt[q].attempted, asset |-> receipt[q].asset]]

Submit(p, q, i) ==
    /\ SlotFree(p) /\ receipt[q].status = "none"
    /\ Cardinality(recent) < Daily
    /\ \A r \in Reports : i \notin used[r]
    /\ receipt' = [receipt EXCEPT ![q] =
                      [NoReceipt EXCEPT !.status = "sending", !.issue = i, !.leased = TRUE]]
    /\ recent' = recent \cup {q} /\ used' = [used EXCEPT ![q] = @ \cup {i}]
    /\ sender' = Taken(p, q)
    /\ UNCHANGED <<network, filed, told>>

\* The row as read before the update tells the sender what was done already.
MayResubmit(q) ==
    receipt[q].status = "retry" \/ (receipt[q].status = "sending" /\ ~receipt[q].leased)
SlipResubmit(p, q) ==
    /\ SlotFree(p) /\ MayResubmit(q)
    /\ \E i \in Issues :
         /\ \A r \in Reports : i \notin used[r]
         /\ receipt' = [receipt EXCEPT ![q] = [NoReceipt EXCEPT !.status = "sending",
                                                  !.issue = i, !.leased = TRUE]]
         /\ used' = [used EXCEPT ![q] = @ \cup {i}]
    /\ sender' = Taken(p, q)
    /\ UNCHANGED <<recent, network, filed, told>>
Resubmit(p, q) ==
    /\ SlotFree(p) /\ MayResubmit(q)
    /\ receipt' = [receipt EXCEPT ![q].status = "sending", ![q].leased = TRUE]
    /\ sender' = Taken(p, q)
    /\ UNCHANGED <<recent, network, filed, used, told>>
AlreadySent(p, q) ==
    /\ SlotFree(p) /\ receipt[q].status = "sent" /\ q \notin told
    /\ told' = told \cup {q}
    /\ UNCHANGED <<receipt, recent, sender, network, filed, used>>

-----------------------------------------------------------------------------
(* submit, from the claim to the finish                                     *)

Goes(p, from, to) == sender[p].phase = from /\ sender' = [sender EXCEPT ![p].phase = to]

\* Each request to Linear before the creation fails, or answers.
Unavailable(p) ==
    /\ \E phase \in {"claimed", "checked"} : Goes(p, phase, "failed")
    /\ UNCHANGED <<receipt, recent, network, filed, used, told>>

Exists(p) ==
    /\ IF sender[p].attempted /\ receipt[sender[p].report].issue \in filed
       THEN Goes(p, "claimed", "done") ELSE Goes(p, "claimed", "checked")
    /\ UNCHANGED <<receipt, recent, network, filed, used, told>>

\* The screenshot is uploaded once, unless the process dies before it is saved.
Picture(p) ==
    /\ Goes(p, "checked", "pictured")
    /\ receipt' = IF sender[p].report \in Pictured /\ ~sender[p].asset
                  THEN [receipt EXCEPT ![sender[p].report].asset = TRUE] ELSE receipt
    /\ UNCHANGED <<recent, network, filed, used, told>>

Attempting(p) ==
    /\ Goes(p, "pictured", "attempting")
    /\ receipt' = [receipt EXCEPT ![sender[p].report].attempted = TRUE]
    /\ UNCHANGED <<recent, network, filed, used, told>>

Create(p) ==
    /\ Goes(p, "attempting", "waiting")
    /\ network' = network \cup {[issue |-> receipt[sender[p].report].issue, from |-> p]}
    /\ UNCHANGED <<receipt, recent, filed, used, told>>

Unheard(p) == {IF m.from = p THEN [m EXCEPT !.from = None] ELSE m : m \in network}
TimeOut(p) ==
    /\ Goes(p, "waiting", "failed") /\ network' = Unheard(p)
    /\ UNCHANGED <<receipt, recent, filed, used, told>>

\* finish, whoever holds the lease by now, and the reply: recording may fail, and the
\* reply may be lost.
Replies(p) == sender[p].phase = "done" /\ told' = told \cup {sender[p].report}
Finish(p) ==
    /\ sender[p].phase \in {"failed", "done"}
    /\ \/ receipt' = [receipt EXCEPT
                         ![sender[p].report].status = IF sender[p].phase = "done" THEN "sent"
                                                      ELSE "retry",
                         ![sender[p].report].leased = FALSE]
       \/ UNCHANGED receipt
    /\ told' = told \/ Replies(p)
    /\ sender' = [sender EXCEPT ![p] = Free]
    /\ UNCHANGED <<recent, network, filed, used>>

-----------------------------------------------------------------------------
(* Linear, time and failures                                                *)

\* An id that exists is an error to the sender.
Arrive(m) ==
    /\ m \in network /\ network' = network \ {m} /\ filed' = filed \cup {m.issue}
    /\ sender' = IF m.from = None THEN sender
                 ELSE [sender EXCEPT ![m.from].phase =
                          IF m.issue \in filed THEN "failed" ELSE "done"]
    /\ UNCHANGED <<receipt, recent, used, told>>
Lose(m) ==
    /\ m \in network /\ network' = network \ {m}
    /\ sender' = IF m.from = None THEN sender ELSE [sender EXCEPT ![m.from].phase = "failed"]
    /\ UNCHANGED <<receipt, recent, filed, used, told>>

LeaseEnds(q) ==
    /\ receipt[q].leased /\ receipt' = [receipt EXCEPT ![q].leased = FALSE]
    /\ UNCHANGED <<recent, sender, network, filed, used, told>>
DayPasses(q) ==
    /\ q \in recent /\ recent' = recent \ {q}
    /\ UNCHANGED <<receipt, sender, network, filed, used, told>>

Crash(p) ==
    /\ sender[p].phase # "free"
    /\ sender' = [sender EXCEPT ![p] = Free] /\ network' = Unheard(p)
    /\ UNCHANGED <<receipt, recent, filed, used, told>>

-----------------------------------------------------------------------------
Sending(p) ==
    Exists(p) \/ Picture(p) \/ Attempting(p) \/ Create(p) \/ TimeOut(p) \/ Finish(p)

Next ==
    \/ \E p \in Servers, q \in Reports : Resubmit(p, q) \/ AlreadySent(p, q)
    \/ \E p \in Servers, q \in Reports, i \in Issues : Submit(p, q, i)
    \/ \E p \in Servers : Sending(p) \/ Unavailable(p) \/ Crash(p)
    \/ \E m \in network : Arrive(m) \/ Lose(m)
    \/ \E q \in Reports : LeaseEnds(q) \/ DayPasses(q)

Spec == Init /\ [][Next]_vars

-----------------------------------------------------------------------------
(* Properties                                                               *)

\* A report is one issue, however often it was retried and by whom.
FiledOnce == \A q \in Reports : Cardinality(used[q] \cap filed) <= 1

\* A user who is told of success, now or on a later retry, has an issue on file:
\* no late failure, lost answer or overwritten state makes the receipt lie.
SuccessIsFiled ==
    \A q \in Reports : q \in told \/ receipt[q].status = "sent" => receipt[q].issue \in filed

\* An issue that exists is found again: its receipt says that it was attempted,
\* also when a late finish put the receipt back to retry.
FiledIsFound ==
    \A q \in Reports : used[q] \cap filed # {} => receipt[q].attempted

=============================================================================
