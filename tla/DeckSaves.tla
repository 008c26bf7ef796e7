------------------------------ MODULE DeckSaves ------------------------------
(***************************************************************************)
(* Saving a deck from the builder page (command in deck-lab-builder.js and *)
(* apply_commands in deck_documents.py).  A page sends its changes one     *)
(* after another; a change carries its mutation id and the revision the    *)
(* page shows when it is sent; a failed one is kept and sent again as it   *)
(* was, by the "Retry save" button or, from the browser's storage, by the  *)
(* next load of the page.  Pages of one browser share that storage.  The   *)
(* server applies a mutation once, and only to the revision it names.      *)
(*                                                                         *)
(* The document is the sequence of the changes applied to it, so that a    *)
(* revision is a length, and what a page shows is a prefix.                *)
(***************************************************************************)
EXTENDS Integers, Sequences, SequencesExt

CONSTANTS
    Tabs,           \* pages of one browser that show the deck
    Edits,          \* changes of the user
    Adoptions,      \* changes of the assistant
    None

\* A change as a page sends it: fresh if its mutation id was made anew, and the
\* revision it expects, None until it is first sent.
Packets == [edit : Edits, fresh : BOOLEAN, expected : Nat \cup {None}]
Sent == [edit : Edits, fresh : BOOLEAN, expected : Nat]

\* What the constants are assumed to be.
SaveConstants ==
    /\ None \notin Tabs \cup Edits \cup Adoptions \cup Nat \cup Packets
    /\ Edits \cap Adoptions = {}

VARIABLES
    log,            \* the changes the document is made of
    mutations,      \* deck_mutations
    page,           \* tab -> what its page holds
    wire,           \* requests under way
    storage,        \* the packet in localStorage, or None
    made,           \* history: tab -> its changes, as its user made them
    shown,          \* history: change -> the revision its user saw
    told            \* history: changes whose refusal or conflict was shown, with which

vars == <<log, mutations, page, wire, storage, made, shown, told>>

Changes == Edits \cup Adoptions
Mutation(p) == [edit |-> p.edit, fresh |-> p.fresh]
Revision == Len(log)

Answers == [kind : {"ok", "conflict", "refused"}, revision : Nat]
Pages == [revision : Nat, queue : Seq(Packets), sending : Sent \cup {None},
          failed : Sent \cup {None}, answer : Answers \cup {None},
          adopted : Nat \cup {None}]
Requests == [packet : Sent, to : Tabs \cup {None}]

\* Type correctness; what is under way or stored says which revision it is for.
TypeOK ==
    /\ log \in Seq(Changes)
    /\ mutations \subseteq [edit : Changes, fresh : BOOLEAN]
    /\ page \in [Tabs -> Pages]
    /\ wire \subseteq Requests
    /\ storage \in Sent \cup {None}
    /\ made \in [Tabs -> Seq(Edits)]
    /\ shown \in [Edits -> Nat \cup {None}]
    /\ told \subseteq Edits \X {"conflict", "refused"}

Fresh == [revision |-> Revision, queue |-> <<>>, sending |-> None, failed |-> None,
          answer |-> None, adopted |-> None]

Init ==
    /\ log = <<>> /\ mutations = {} /\ wire = {} /\ storage = None
    /\ page = [t \in Tabs |-> Fresh]
    /\ made = [t \in Tabs |-> <<>>]
    /\ shown = [e \in Edits |-> None] /\ told = {}

Pending(t) == page[t].sending # None \/ page[t].queue # <<>>
Enqueue(t, p) == [page[t] EXCEPT !.queue = Append(@, p)]

-----------------------------------------------------------------------------
(* the page                                                                 *)

Edit(t, e) ==
    /\ shown[e] = None
    /\ page' = [page EXCEPT ![t] =
                   Enqueue(t, [edit |-> e, fresh |-> FALSE, expected |-> None])]
    /\ made' = [made EXCEPT ![t] = Append(@, e)]
    /\ shown' = [shown EXCEPT ![e] = page[t].revision]
    /\ UNCHANGED <<log, mutations, wire, storage,  told>>

\* The queue goes on when the change before is settled, well or badly.
Send(t) ==
    /\ page[t].sending = None /\ page[t].queue # <<>>
    /\ LET head == Head(page[t].queue)
           packet == IF head.expected = None
                     THEN [head EXCEPT !.expected = page[t].revision] ELSE head
       IN /\ page' = [page EXCEPT ![t].sending = packet, ![t].queue = Tail(@)]
          /\ storage' = packet
          /\ wire' = wire \cup {[packet |-> packet, to |-> t]}
    /\ UNCHANGED <<log, mutations, made, shown, told>>

\* A 409 loads the latest document before it is reported.
Saved(t) ==
    /\ page[t].answer # None /\ page[t].answer.kind = "ok"
    /\ page' = [page EXCEPT ![t].revision = page[t].answer.revision, ![t].sending = None,
                            ![t].failed = None, ![t].answer = None]
    /\ storage' = None
    /\ UNCHANGED <<log, mutations, wire, made, shown, told>>
Refused(t) ==
    /\ page[t].answer # None /\ page[t].answer.kind # "ok"
    /\ page' = [page EXCEPT ![t].revision =
                                IF page[t].answer.kind = "conflict" THEN Revision ELSE @,
                            ![t].failed = page[t].sending, ![t].sending = None,
                            ![t].answer = None]
    /\ told' = told \cup {<<page[t].sending.edit, page[t].answer.kind>>}
    /\ UNCHANGED <<log, mutations, wire, storage, made, shown>>

\* A request that failed for the page is lost, or still on its way to the server.
Abandon(t, lost) ==
    {r \in wire : r.to # t}
    \cup IF lost THEN {} ELSE {[r EXCEPT !.to = None] : r \in {r \in wire : r.to = t}}
Fail(t, lost) ==
    /\ page[t].sending # None
    /\ page' = [page EXCEPT ![t].failed = page[t].sending, ![t].sending = None,
                            ![t].answer = None]
    /\ wire' = Abandon(t, lost)
    /\ UNCHANGED <<log, mutations, storage, made, shown, told>>

SlipRetryAnew(t) ==
    /\ page[t].failed # None
    /\ page' = [page EXCEPT ![t] =
                   [Enqueue(t, [page[t].failed EXCEPT !.fresh = TRUE, !.expected = None])
                       EXCEPT !.failed = None]]
    /\ UNCHANGED <<log, mutations, wire, storage, made, shown, told>>
SlipRetry(t) ==
    /\ page[t].failed # None
    /\ page' = [page EXCEPT ![t] =
                   [Enqueue(t, [page[t].failed EXCEPT !.expected = None])
                       EXCEPT !.failed = None]]
    /\ UNCHANGED <<log, mutations, wire, storage, made, shown, told>>
Retry(t) ==
    /\ page[t].failed # None
    /\ page' = [page EXCEPT ![t] = [Enqueue(t, page[t].failed) EXCEPT !.failed = None]]
    /\ UNCHANGED <<log, mutations, wire, storage, made, shown, told>>

\* A page may be left at any time; the next one sends what is stored.  A change that
\* finds the queue idle is on its way before the page can be left.
Reload(t) ==
    /\ page[t].sending # None \/ page[t].queue = <<>>
    /\ page' = [page EXCEPT ![t] =
                   IF storage = None THEN Fresh ELSE [Fresh EXCEPT !.queue = <<storage>>]]
    /\ \E lost \in BOOLEAN : wire' = Abandon(t, lost)
    /\ UNCHANGED <<log, mutations, storage, made, shown, told>>

-----------------------------------------------------------------------------
(* the server                                                               *)

Answered(r, kind, revision) ==
    IF r.to = None THEN page
    ELSE [page EXCEPT ![r.to].answer = [kind |-> kind, revision |-> revision]]

Served(r) == r \in wire /\ wire' = wire \ {r}
Seen(r) == Mutation(r.packet) \in mutations

Replay(r) ==
    /\ Served(r) /\ Seen(r)
    /\ page' = Answered(r, "ok", Revision)
    /\ UNCHANGED <<log, mutations, storage, made, shown, told>>
Conflict(r) ==
    /\ Served(r) /\ ~Seen(r) /\ r.packet.expected # Revision
    /\ page' = Answered(r, "conflict", Revision)
    /\ UNCHANGED <<log, mutations, storage, made, shown, told>>
Apply(r) ==
    /\ Served(r) /\ ~Seen(r) /\ r.packet.expected = Revision
    /\ log' = Append(log, r.packet.edit)
    /\ mutations' = mutations \cup {Mutation(r.packet)}
    /\ page' = Answered(r, "ok", Revision + 1)
    /\ UNCHANGED <<storage, made, shown, told>>
Invalid(r) ==
    /\ Served(r) /\ ~Seen(r) /\ r.packet.expected = Revision
    /\ page' = Answered(r, "refused", Revision)
    /\ UNCHANGED <<log, mutations, storage, made, shown, told>>

\* The assistant changes the deck for a page without unsaved changes, and the page
\* takes the new document if it still has none.
Adopt(t, a) ==
    /\ ~Pending(t) /\ page[t].failed = None /\ page[t].adopted = None
    /\ page[t].revision = Revision /\ ~Contains(log, a)
    /\ log' = Append(log, a)
    /\ mutations' = mutations \cup {[edit |-> a, fresh |-> FALSE]}
    /\ page' = [page EXCEPT ![t].adopted = Revision + 1]
    /\ UNCHANGED <<wire, storage, made, shown, told>>
ReplaceDocument(t) ==
    /\ page[t].adopted # None
    /\ IF Pending(t) \/ page[t].failed # None
       THEN page' = [page EXCEPT ![t].adopted = None] /\ UNCHANGED storage
       ELSE /\ page' = [page EXCEPT ![t].adopted = None, ![t].revision = page[t].adopted]
            /\ storage' = None
    /\ UNCHANGED <<log, mutations, wire, made, shown, told>>

Network ==
    \/ \E r \in wire : Replay(r) \/ Conflict(r) \/ Apply(r) \/ Invalid(r)
    \/ \E t \in Tabs :
         \/ Send(t) \/ Saved(t) \/ Refused(t) \/ ReplaceDocument(t)
         \/ \E lost \in BOOLEAN : Fail(t, lost)

Next ==
    \/ Network
    \/ \E t \in Tabs :
         \/ \E e \in Edits : Edit(t, e)
         \/ Retry(t) \/ Reload(t)
         \/ \E a \in Adoptions : Adopt(t, a)

Spec == Init /\ [][Next]_vars

\* A fetch is answered or fails.
FairSpec == Spec /\ WF_vars(Network)

-----------------------------------------------------------------------------

Applied(e) == Contains(log, e)

\* Neither a retry of a change whose answer was lost, nor one of a request that is
\* still on its way, nor a reload that sends it again applies a change twice.
AppliedOnce == IsInjective(log)

\* The user who is told of a conflict is asked to make the change again: the
\* conflicting one never lands afterwards, by a retry, a reload or a late request.
ConflictedNeverLands == \A e \in Edits : <<e, "conflict">> \in told => ~Applied(e)

\* docs: failed saves remain visibly recoverable.  A page that says "Saved" has no
\* change whose save failed without a word from the server and was not applied.
FailedStaysRecoverable ==
    \A t \in Tabs : ~Pending(t) /\ page[t].failed = None =>
        \A i \in 1..Len(made[t]) : LET e == made[t][i] IN
            \/ Applied(e) \/ \E kind \in {"refused", "conflict"} : <<e, kind>> \in told
            \/ \E r \in wire : r.packet.edit = e
            \/ storage # None /\ storage.edit = e
            \/ \E u \in Tabs : e \in {p.edit : p \in ToSet(page[u].queue) \cup
                                       ({page[u].sending, page[u].failed} \ {None})}

=============================================================================
