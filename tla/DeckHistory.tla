----------------------------- MODULE DeckHistory -----------------------------
(***************************************************************************)
(* Undo and redo on the builder page (deck-lab-history.js) over the        *)
(* commands of the server (_apply_command in deck_documents.py).  The page *)
(* keeps, for every change that was saved, the commands that made it and   *)
(* the commands that take it back, planned from the document before it:    *)
(* for a command sent through DeckLabBuilder.command from the command, for *)
(* one of the page's own controls from the difference two renders show.    *)
(* An undo sends the inverse like any other change, behind those under way.*)
(*                                                                         *)
(* A document is its rows (entry id -> card, zone, quantity) and zones,    *)
(* with its revision and the number of entry ids given out so far.         *)
(***************************************************************************)
EXTENDS Integers, Sequences, FiniteSets, SequencesExt, TLC

CONSTANTS
    Cards, Zones,
    Unsorted,       \* the permanent zone
    MaxQuantity,    \* 99 in the code
    Limit,          \* history entries kept, 50 in the code
    Habits,         \* of the user and its network: see Eager, Doubles, Controls, Offline
    MaxRevision,    \* bound of the model
    MaxForeign,     \* bound of the model: changes of another page
    None

\* What the constants are assumed to be.
HistoryConstants ==
    /\ Unsorted \in Zones /\ Limit \in Nat \ {0} /\ MaxQuantity \in Nat \ {0}
    /\ Habits \subseteq {"eager", "doubles", "controls", "offline"}

VARIABLES
    server,         \* the document of the server
    shown,          \* the document of the page (state)
    baseline,       \* the document history compares with
    queue,          \* requests of the page: the first is under way
    failed,         \* failedSave, or None
    undo, redo,     \* undoStack, redoStack
    foreign,        \* changes another page made
    base,           \* history: the contents that undoing everything leads to
    told,           \* history: the page said that a change cannot be undone
    missed          \* history: the last answer: "conflict" or "gone", or None

vars == <<server, shown, baseline, queue, failed, undo, redo, foreign, base, told, missed>>

-----------------------------------------------------------------------------
(* commands of the server: the document after one, None when it is refused  *)

Same(d, card, zone) == {i \in DOMAIN d.rows : d.rows[i].card = card /\ d.rows[i].zone = zone}
Without(d, ids) == [d EXCEPT !.rows = [i \in DOMAIN d.rows \ ids |-> d.rows[i]]]
First(ids) == CHOOSE i \in ids : \A j \in ids : i <= j

AddCard(d, c) ==
    LET stack == Same(d, c.card, c.zone)
        fresh == d.issued + 1
        sum == d.rows[First(stack)].quantity + c.quantity
    IN IF c.zone \notin d.zones THEN None
       ELSE IF stack # {}
       THEN [d EXCEPT !.rows[First(stack)].quantity =
                          IF sum > MaxQuantity THEN MaxQuantity ELSE sum]
       ELSE [d EXCEPT !.issued = fresh,
                      !.rows = [i \in DOMAIN d.rows \cup {fresh} |->
                                   IF i # fresh THEN d.rows[i]
                                   ELSE [card |-> c.card, zone |-> c.zone, quantity |-> c.quantity]]]
SetQuantity(d, c) ==
    IF c.entry \notin DOMAIN d.rows \/ c.quantity > MaxQuantity THEN None
    ELSE IF c.quantity = 0 THEN Without(d, {c.entry})
    ELSE [d EXCEPT !.rows[c.entry].quantity = c.quantity]
MoveEntry(d, c) ==
    IF c.entry \notin DOMAIN d.rows \/ c.zone \notin d.zones THEN None
    ELSE [d EXCEPT !.rows[c.entry].zone = c.zone]
CreateZone(d, c) == IF c.zone \in d.zones THEN None ELSE [d EXCEPT !.zones = @ \cup {c.zone}]
DeleteZone(d, c) ==
    IF c.zone \notin d.zones \ {Unsorted} THEN None
    ELSE [d EXCEPT !.zones = @ \ {c.zone},
                   !.rows = [i \in DOMAIN @ |->
                                IF @[i].zone = c.zone THEN [@[i] EXCEPT !.zone = Unsorted] ELSE @[i]]]

ApplyCommand(d, c) ==
    CASE c.type = "add" -> AddCard(d, c)
      [] c.type = "set" -> SetQuantity(d, c)
      [] c.type = "move" -> MoveEntry(d, c)
      [] c.type = "create" -> CreateZone(d, c)
      [] c.type = "delete" -> DeleteZone(d, c)

\* A batch is applied whole or not at all, and is one revision.
Result(d, batch) ==
    LET end == FoldLeft(LAMBDA e, c : IF e = None THEN None ELSE ApplyCommand(e, c), d, batch)
    IN IF end = None THEN None ELSE [end EXCEPT !.revision = d.revision + 1]

Add(card, zone, quantity) == [type |-> "add", card |-> card, zone |-> zone, quantity |-> quantity]
Set(entry, quantity) == [type |-> "set", entry |-> entry, quantity |-> quantity]
Move(entry, zone) == [type |-> "move", entry |-> entry, zone |-> zone]
Create(zone) == [type |-> "create", zone |-> zone]
Delete(zone) == [type |-> "delete", zone |-> zone]

\* remove_entry is Set(entry, 0).
Restore(d, i) == Add(d.rows[i].card, d.rows[i].zone, d.rows[i].quantity)
InZone(d, zone) == {i \in DOMAIN d.rows : d.rows[i].zone = zone}
Recreate(d, zone) ==
    <<Create(zone)>> \o SetToSeq({Move(i, zone) : i \in InZone(d, zone)})

\* What takes c back, planned from the document before; None when it cannot be.
SlipInverseOfAdd(before, c, after) == <<Set(First(Same(after, c.card, c.zone)), 0)>>
InverseOfAdd(before, c, after) ==
    LET stack == Same(before, c.card, c.zone)
        created == Same(after, c.card, c.zone) \ DOMAIN before.rows
    IN IF stack # {} THEN <<Set(First(stack), before.rows[First(stack)].quantity)>>
       ELSE IF created # {} THEN <<Set(First(created), 0)>> ELSE None
InverseOf(before, c, after) ==
    CASE c.type = "add" -> InverseOfAdd(before, c, after)
      [] c.type \in {"set", "move"} /\ c.entry \notin DOMAIN before.rows -> None
      [] c.type = "set" /\ c.quantity = 0 -> <<Restore(before, c.entry)>>
      [] c.type = "set" -> <<Set(c.entry, before.rows[c.entry].quantity)>>
      [] c.type = "move" -> <<Move(c.entry, before.rows[c.entry].zone)>>
      [] c.type = "create" -> <<Delete(c.zone)>>
      [] c.type = "delete" /\ c.zone \notin before.zones -> None
      [] c.type = "delete" -> Recreate(before, c.zone)

\* Both ways between two documents, for a change that no command of the wrapper made.
\* An entry that left a zone with the zone comes back with it.
Each(S, Op(_)) == FoldLeft(LAMBDA s, x : s \o Op(x), <<>>, SetToSeq(S))
Changed(b, a, field) == {i \in DOMAIN b.rows \cap DOMAIN a.rows : b.rows[i][field] # a.rows[i][field]}
Diff(b, a) ==
    LET dropped == DOMAIN b.rows \ DOMAIN a.rows
        added == DOMAIN a.rows \ DOMAIN b.rows
        moved == {i \in Changed(b, a, "zone") : b.rows[i].zone \in a.zones}
    IN [forward |->
            Each(b.zones \ a.zones, LAMBDA z : <<Delete(z)>>)
            \o Each(a.zones \ b.zones, LAMBDA z : <<Create(z)>>)
            \o Each(dropped, LAMBDA i : <<Set(i, 0)>>) \o Each(added, LAMBDA i : <<Restore(a, i)>>)
            \o Each(Changed(b, a, "quantity"), LAMBDA i : <<Set(i, a.rows[i].quantity)>>)
            \o Each(moved, LAMBDA i : <<Move(i, a.rows[i].zone)>>),
        inverse |->
            Each(moved, LAMBDA i : <<Move(i, b.rows[i].zone)>>)
            \o Each(Changed(b, a, "quantity"), LAMBDA i : <<Set(i, b.rows[i].quantity)>>)
            \o Each(added, LAMBDA i : <<Set(i, 0)>>) \o Each(dropped, LAMBDA i : <<Restore(b, i)>>)
            \o Each(a.zones \ b.zones, LAMBDA z : <<Delete(z)>>)
            \o Each(b.zones \ a.zones, LAMBDA z : Recreate(b, z))]

\* What a user sees of a document: its zones, and how often each row occurs in it.
Contents(d) ==
    LET seen == {d.rows[i] : i \in DOMAIN d.rows}
    IN [zones |-> d.zones, rows |-> [r \in seen |-> Cardinality({i \in DOMAIN d.rows : d.rows[i] = r})]]
-----------------------------------------------------------------------------
(* the page                                                                 *)

\* Type correctness; the rows of a document are in zones it has, and one stays.
Document(d) ==
    /\ \A i \in DOMAIN d.rows :
         i \in 1..d.issued /\ d.rows[i] \in [card : Cards, zone : d.zones, quantity : 1..MaxQuantity]
    /\ Unsorted \in d.zones /\ d.zones \subseteq Zones
TypeOK ==
    /\ Document(server) /\ Document(shown) /\ Document(baseline)
    /\ shown.revision <= server.revision /\ server.revision \in 0..MaxRevision
    /\ \A i \in DOMAIN queue : queue[i].kind \in {"wrapped", "control", "undo", "redo"}
    /\ foreign \in 0..MaxForeign

Init ==
    /\ \E card \in Cards :
         server = [rows |-> (1 :> [card |-> card, zone |-> Unsorted, quantity |-> 1]),
                   zones |-> {Unsorted}, issued |-> 1, revision |-> 0]
    /\ shown = server /\ baseline = server
    /\ queue = <<>> /\ failed = None /\ undo = <<>> /\ redo = <<>>
    /\ foreign = 0 /\ base = Contents(server) /\ told = FALSE /\ missed = None

Eager == "eager" \in Habits        \* goes on while a change is being saved
Doubles == "doubles" \in Habits    \* puts a card where another row of it is
Controls == "controls" \in Habits  \* uses the page's own controls as well
Offline == "offline" \in Habits    \* a request may fail, before or after it is served

Idle == queue = <<>> \/ (Eager /\ Len(queue) < 2)
Applying == \E i \in DOMAIN queue : queue[i].kind \in {"undo", "redo"}
Watching == \A i \in DOMAIN queue : queue[i].kind = "control"

Distinct(d) == \A i \in DOMAIN d.rows : Same(d, d.rows[i].card, d.rows[i].zone) = {i}
Commands(d) ==
    {c \in {Add(card, zone, 1) : card \in Cards, zone \in d.zones}
           \cup {Set(i, q) : i \in DOMAIN d.rows, q \in 0..MaxQuantity}
           \cup {Move(i, zone) : i \in DOMAIN d.rows, zone \in d.zones}
           \cup {Create(zone) : zone \in Zones} \cup {Delete(zone) : zone \in Zones} :
        LET end == ApplyCommand(d, c) IN end \notin {None, d} /\ (Doubles \/ Distinct(end))}

Request(kind, batch, entry) ==
    [kind |-> kind, batch |-> batch, entry |-> entry, expected |-> None, done |-> FALSE]
Enqueue(r) ==
    /\ server.revision < MaxRevision
    /\ queue' = Append(queue, r) /\ missed' = None

\* While an undo is under way the wrapper passes a change on unrecorded.
Change(kind, c) ==
    /\ Idle
    /\ Enqueue(Request(IF Applying THEN "control" ELSE kind, <<c>>, None))
    /\ UNCHANGED <<server, shown, baseline, failed, undo, redo, foreign, base, told>>

Undo ==
    /\ Idle /\ ~Applying /\ undo # <<>>
    /\ Enqueue(Request("undo", Last(undo).inverse, Last(undo)))
    /\ undo' = Front(undo)
    /\ UNCHANGED <<server, shown, baseline, failed, redo, foreign, base, told>>
Redo ==
    /\ Idle /\ ~Applying /\ redo # <<>>
    /\ Enqueue(Request("redo", Last(redo).forward, Last(redo)))
    /\ redo' = Front(redo)
    /\ UNCHANGED <<server, shown, baseline, failed, undo, foreign, base, told>>

\* The "Retry save" button: the packet as it was, past the wrapper.
Retry ==
    /\ Idle /\ Controls /\ failed # None
    /\ Enqueue([failed EXCEPT !.kind = "control", !.entry = None]) /\ failed' = None
    /\ UNCHANGED <<server, shown, baseline, undo, redo, foreign, base, told>>

\* remember: a change goes on the undo stack, or the page says that it does not.
Push(forward, inverse, after) ==
    LET long == Append(undo, [forward |-> forward, inverse |-> inverse,
                              before |-> Contents(baseline), after |-> Contents(after)])
        over == Len(long) > Limit
    IN /\ undo' = IF over THEN SubSeq(long, Len(long) - Limit + 1, Len(long)) ELSE long
       /\ base' = IF over THEN Head(undo').before ELSE base
       /\ redo' = <<>> /\ told' = told
Remember(c, after) ==
    LET inverse == InverseOf(baseline, c, after)
    IN IF inverse # None THEN Push(<<c>>, inverse, after)
       ELSE redo' = <<>> /\ told' = TRUE /\ UNCHANGED <<undo, base>>
Kept == UNCHANGED <<undo, redo, base, told>>

\* observe, at every render: what the wrapper did not see is found by the difference.
Observe(after) ==
    IF ~Watching THEN Kept /\ UNCHANGED baseline
    ELSE /\ baseline' = after
         /\ LET diff == Diff(baseline, after)
            IN IF diff.forward = <<>> THEN Kept
               ELSE Push(diff.forward, diff.inverse, after)

Expected(r) == IF r.expected = None THEN shown.revision ELSE r.expected
Outcome(r) == IF r.done THEN server ELSE Result(server, r.batch)
Current(r) == r.done \/ Expected(r) = server.revision

Saved ==
    /\ queue # <<>> /\ Current(Head(queue)) /\ Outcome(Head(queue)) # None
    /\ LET r == Head(queue)
           after == Outcome(r)
       IN /\ server' = after /\ shown' = after
          /\ CASE r.kind = "control" -> Observe(after)
               [] r.kind = "wrapped" -> Remember(r.batch[1], after) /\ baseline' = after
               [] r.kind = "undo" -> /\ redo' = Append(redo, r.entry) /\ baseline' = after
                                     /\ UNCHANGED <<undo, base, told>>
               [] r.kind = "redo" -> /\ undo' = Append(undo, r.entry) /\ baseline' = after
                                     /\ UNCHANGED <<redo, base, told>>
    /\ queue' = Tail(queue) /\ failed' = None /\ missed' = None
    /\ UNCHANGED foreign

\* A 409 loads the latest document; a change of the wrapper then drops the history.
Conflicted ==
    /\ queue # <<>> /\ ~Current(Head(queue))
    /\ LET r == Head(queue)
       IN /\ shown' = server
          /\ IF r.kind = "control" THEN Observe(server)
             ELSE /\ undo' = <<>> /\ redo' = <<>> /\ baseline' = server
                  /\ base' = Contents(server) /\ told' = told
          /\ failed' = [r EXCEPT !.expected = Expected(r)]
    /\ queue' = Tail(queue) /\ missed' = "conflict"
    /\ UNCHANGED <<server, foreign>>

\* Refused by the server, or no answer: the popped entry goes back.
PutBack(r) ==
    /\ undo' = IF r.kind = "undo" THEN Append(undo, r.entry) ELSE undo
    /\ redo' = IF r.kind = "redo" THEN Append(redo, r.entry) ELSE redo
    /\ baseline' = IF r.kind \in {"undo", "redo"} THEN shown ELSE baseline
    /\ queue' = Tail(queue)
    /\ UNCHANGED <<shown, foreign, base, told>>
Refused ==
    /\ queue # <<>> /\ Current(Head(queue)) /\ Outcome(Head(queue)) = None
    /\ PutBack(Head(queue))
    /\ failed' = [Head(queue) EXCEPT !.expected = Expected(Head(queue))]
    /\ missed' = IF Head(queue).kind \in {"undo", "redo"} THEN "gone" ELSE None
    /\ UNCHANGED server
Lost(applied) ==
    /\ Offline /\ queue # <<>> /\ PutBack(Head(queue)) /\ missed' = None
    /\ LET r == Head(queue)
           lands == applied /\ ~r.done /\ Current(r) /\ Outcome(r) # None
       IN /\ applied => lands
          /\ server' = IF lands THEN Outcome(r) ELSE server
          /\ failed' = [r EXCEPT !.expected = Expected(r), !.done = r.done \/ lands]

Foreign(c) ==
    /\ foreign < MaxForeign /\ server.revision < MaxRevision
    /\ foreign' = foreign + 1 /\ server' = Result(server, <<c>>)
    /\ missed' = None
    /\ UNCHANGED <<shown, baseline, queue, failed, undo, redo, base, told>>

Next ==
    \/ \E c \in Commands(shown) :
         Change("wrapped", c) \/ (Controls /\ Change("control", c))
    \/ Undo \/ Redo \/ Retry
    \/ Saved \/ Conflicted \/ Refused \/ \E applied \in BOOLEAN : Lost(applied)
    \/ \E c \in Commands(server) : Foreign(c)

Spec == Init /\ [][Next]_vars

-----------------------------------------------------------------------------

Leads(batch, contents) ==
    LET end == Result(shown, batch) IN end = None \/ Contents(end) = contents

\* docs: it must never silently undo the wrong thing.  What the Undo button takes back
\* leaves what the change found, and what the Redo button repeats what it had made.
UndoRestores ==
    queue = <<>> =>
        /\ undo # <<>> => Leads(Last(undo).inverse, Last(undo).before)
        /\ redo # <<>> => Leads(Last(redo).forward, Last(redo).after)

=============================================================================
