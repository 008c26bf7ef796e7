---------------------------- MODULE ProviderCalls ----------------------------
(***************************************************************************)
(* One generation at the model provider (assistant_provider_budget.py,     *)
(* admission and record in cedh/cost_ledger.py, generate and _post in      *)
(* cedh/provider_deepseek.py).  A DeepSeek gateway takes the lock of its   *)
(* ledger, checks the ceiling, and only then takes one of the permits of   *)
(* the process; a gateway without a ledger takes the permit in its         *)
(* outermost wrapper and inner wrappers share it.  A call may be cancelled *)
(* at any moment, which its thread notices at its next check.              *)
(*                                                                         *)
(* Every answer read costs 1.  The spend of the ceiling is the recorded    *)
(* one, without its 30-day window; other processes do not take part.       *)
(***************************************************************************)
EXTENDS Integers, FiniteSets

CONSTANTS
    Calls,          \* generations, one thread each
    Ledgers,        \* databases
    None,
    LedgerOf,       \* call -> its ledger, None for a gateway without one
    Wrappers,       \* call -> how many BudgetedGateways are around the gateway
    Permits,        \* 2
    Ceiling,        \* the ceiling on recorded spend
    MaxRetries,     \* transport retries of one request
    MaxRepairs      \* requests for a repair of an invalid answer

\* What the constants are assumed to be.
ProviderConstants ==
    /\ LedgerOf \in [Calls -> Ledgers \cup {None}] /\ None \notin Ledgers \cup Calls
    /\ Wrappers \in [Calls -> Nat] /\ \A c \in Calls : LedgerOf[c] = None => Wrappers[c] > 0
    /\ Permits \in Nat \ {0} /\ Ceiling \in Nat /\ MaxRetries \in Nat /\ MaxRepairs \in Nat

VARIABLES
    call,           \* call -> [phase, depth, tries, rounds, owed, end]
    stale,          \* calls whose cancellation check raises
    free,           \* permits of the semaphore
    acquired,       \* calls that hold a permit
    lock,           \* ledger -> the call that holds its lock, or None
    recorded,       \* ledger -> spend on record
    lost,           \* history: ledger -> spend whose record failed
    paid            \* history: ledger -> what its calls were charged

vars == <<call, stale, free, acquired, lock, recorded, lost, paid>>

Phases == {"new", "ledger", "ceiling", "permit", "ready", "sent", "answered", "record",
           "leave", "unlock", "over"}

\* Type correctness, with the bounds of the loops; every permit is at hand or held.
TypeOK ==
    /\ call \in [Calls -> [phase : Phases, depth : Nat, tries : 0..MaxRetries,
                           rounds : 0..MaxRepairs, owed : 0..MaxRepairs + 1,
                           end : {"none", "result", "error"}]]
    /\ stale \subseteq Calls /\ acquired \subseteq Calls
    /\ free \in 0..Permits /\ free + Cardinality(acquired) = Permits
    /\ lock \in [Ledgers -> Calls \cup {None}]
    /\ \A h \in {recorded, lost, paid} : h \in [Ledgers -> Nat]

Idle == [phase |-> "new", depth |-> 0, tries |-> 0, rounds |-> 0, owed |-> 0, end |-> "none"]

Init ==
    /\ call = [c \in Calls |-> Idle] /\ stale = {}
    /\ free = Permits /\ acquired = {} /\ lock = [l \in Ledgers |-> None]
    /\ recorded = [l \in Ledgers |-> 0] /\ lost = recorded /\ paid = recorded

Deferred(c) == LedgerOf[c] # None
At(c, phase) == call[c].phase = phase
Goes(c, phase) == call' = [call EXCEPT ![c].phase = phase]

\* The finally clauses between the call's place and its caller: the record of what
\* was received, the permit, the lock.
Unwound(c) ==
    IF Deferred(c) /\ call[c].owed > 0 THEN "record"
    ELSE IF call[c].depth > 0 THEN "leave"
    ELSE IF Deferred(c) /\ lock[LedgerOf[c]] = c THEN "unlock" ELSE "over"
Raises(c) == call' = [call EXCEPT ![c].phase = Unwound(c), ![c].end = "error"]

Untouched == UNCHANGED <<stale, free, acquired, lock, recorded, lost, paid>>

-----------------------------------------------------------------------------
(* admission                                                                *)

\* Only a wrapped call has a check.
Cancel(c) ==
    /\ c \notin stale /\ Wrappers[c] > 0 /\ ~At(c, "over")
    /\ stale' = stale \cup {c}
    /\ UNCHANGED <<call, free, acquired, lock, recorded, lost, paid>>

Generate(c) ==
    /\ At(c, "new") /\ Goes(c, IF Deferred(c) THEN "ledger" ELSE "permit")
    /\ Untouched

\* A wait polls, and is left when the check raises.
GiveUp(c) == (At(c, "ledger") \/ At(c, "permit")) /\ c \in stale /\ Raises(c) /\ Untouched

SlipTakeLedger(c) == At(c, "ledger") /\ c \notin stale /\ Goes(c, "ceiling") /\ Untouched
TakeLedger(c) ==
    /\ At(c, "ledger") /\ c \notin stale /\ lock[LedgerOf[c]] = None
    /\ lock' = [lock EXCEPT ![LedgerOf[c]] = c] /\ Goes(c, "ceiling")
    /\ UNCHANGED <<stale, free, acquired, recorded, lost, paid>>

Admit(c) ==
    /\ At(c, "ceiling") /\ c \notin stale /\ recorded[LedgerOf[c]] < Ceiling
    /\ Goes(c, "permit") /\ Untouched
Refuse(c) ==
    /\ At(c, "ceiling") /\ (c \in stale \/ recorded[LedgerOf[c]] >= Ceiling)
    /\ Raises(c) /\ Untouched

\* Wrappers around a gateway that defers take no permit of their own; the others
\* nest, and the outermost takes it.
Nesting(c) == IF Deferred(c) THEN 1 ELSE Wrappers[c]
TakePermit(c) ==
    /\ At(c, "permit") /\ c \notin stale /\ call[c].depth = 0 /\ free > 0
    /\ free' = free - 1 /\ acquired' = acquired \cup {c}
    /\ call' = [call EXCEPT ![c].depth = 1,
                            ![c].phase = IF Nesting(c) > 1 THEN "permit" ELSE "ready"]
    /\ UNCHANGED <<stale, lock, recorded, lost, paid>>
Nest(c) ==
    /\ At(c, "permit") /\ c \notin stale /\ call[c].depth > 0
    /\ call' = [call EXCEPT ![c].depth = @ + 1,
                            ![c].phase = IF call[c].depth + 1 < Nesting(c)
                                         THEN "permit" ELSE "ready"]
    /\ Untouched

-----------------------------------------------------------------------------
(* the generation, with its retries and repairs                             *)

Send(c) ==
    /\ At(c, "ready")
    /\ IF c \in stale THEN Raises(c) ELSE Goes(c, "sent")
    /\ Untouched

\* No answer, a retryable one, or a final refusal (a denied turn is one).
Retry(c) ==
    /\ At(c, "sent") /\ call[c].tries < MaxRetries /\ Deferred(c)
    /\ call' = [call EXCEPT ![c].phase = "ready", ![c].tries = @ + 1]
    /\ Untouched
Fail(c) == At(c, "sent") /\ Raises(c) /\ Untouched

Answer(c) ==
    /\ At(c, "sent")
    /\ call' = [call EXCEPT ![c].phase = "answered", ![c].tries = 0,
                            ![c].owed = IF Deferred(c) THEN @ + 1 ELSE @]
    /\ paid' = IF Deferred(c) THEN [paid EXCEPT ![LedgerOf[c]] = @ + 1] ELSE paid
    /\ UNCHANGED <<stale, free, acquired, lock, recorded, lost>>

\* The answer was counted before it is looked at; a stale call discards it, and one
\* without content is an error.
Discard(c) == At(c, "answered") /\ Raises(c) /\ Untouched

Valid(c) ==
    /\ At(c, "answered") /\ c \notin stale
    /\ call' = [call EXCEPT ![c].phase = Unwound(c), ![c].end = "result"]
    /\ Untouched
Invalid(c) ==
    /\ At(c, "answered") /\ c \notin stale /\ Deferred(c)
    /\ IF call[c].rounds < MaxRepairs
       THEN call' = [call EXCEPT ![c].phase = "ready", ![c].rounds = @ + 1]
       ELSE Raises(c)
    /\ Untouched

-----------------------------------------------------------------------------
(* the way out                                                              *)

\* record never raises; a failed write loses the row.
Record(c, kept) ==
    /\ At(c, "record")
    /\ LET l == LedgerOf[c] IN
         /\ recorded' = IF kept THEN [recorded EXCEPT ![l] = @ + call[c].owed] ELSE recorded
         /\ lost' = IF kept THEN lost ELSE [lost EXCEPT ![l] = @ + call[c].owed]
    /\ call' = [call EXCEPT ![c].phase = "leave", ![c].owed = 0]
    /\ UNCHANGED <<stale, free, acquired, lock, paid>>

\* The exit of the outermost permit; the wrapper checks the result once more.
Ended(c) == IF c \in stale THEN "error" ELSE call[c].end
SlipLeave(c) ==
    /\ At(c, "leave")
    /\ IF c \in acquired /\ call[c].end = "result"
       THEN free' = free + 1 /\ acquired' = acquired \ {c}
       ELSE UNCHANGED <<free, acquired>>
    /\ call' = [call EXCEPT ![c].depth = 0, ![c].end = Ended(c),
                            ![c].phase = IF Deferred(c) THEN "unlock" ELSE "over"]
    /\ UNCHANGED <<stale, lock, recorded, lost, paid>>
Leave(c) ==
    /\ At(c, "leave")
    /\ IF call[c].depth = 1
       THEN /\ free' = free + 1 /\ acquired' = acquired \ {c}
            /\ call' = [call EXCEPT ![c].depth = 0, ![c].end = Ended(c),
                                    ![c].phase = IF Deferred(c) THEN "unlock" ELSE "over"]
       ELSE /\ call' = [call EXCEPT ![c].depth = @ - 1, ![c].end = Ended(c)]
            /\ UNCHANGED <<free, acquired>>
    /\ UNCHANGED <<stale, lock, recorded, lost, paid>>

Unlock(c) ==
    /\ At(c, "unlock") /\ lock' = [lock EXCEPT ![LedgerOf[c]] = None]
    /\ call' = [call EXCEPT ![c].phase = "over", ![c].end = Ended(c)]
    /\ UNCHANGED <<stale, free, acquired, recorded, lost, paid>>

Thread(c) ==
    \/ Generate(c) \/ GiveUp(c) \/ TakeLedger(c) \/ Admit(c) \/ Refuse(c)
    \/ TakePermit(c) \/ Nest(c) \/ Send(c) \/ Discard(c) \/ Valid(c) \/ Invalid(c)
    \/ Retry(c) \/ Fail(c) \/ Answer(c)
    \/ \E kept \in BOOLEAN : Record(c, kept)
    \/ Leave(c) \/ Unlock(c)

Next == \E c \in Calls : Thread(c) \/ Cancel(c)

Spec == Init /\ [][Next]_vars

-----------------------------------------------------------------------------

\* The documented limit: no more requests are at the provider at once than there
\* are permits, with gateways of both kinds, wrapped once or twice, and however
\* calls are cancelled.
RequestsBounded == Cardinality({c \in Calls : At(c, "sent")}) <= Permits

\* None holds a permit while it waits for a ledger: the permits that are out are at
\* work, so that a busy ledger never stops the calls of another.
PermitsAtWork == \A c \in acquired : ~At(c, "ledger") /\ ~At(c, "ceiling")

\* The ceiling stops at the spend on record, so one admitted generation with its
\* repairs may cross it, and only one however many wait: beyond that a ledger
\* exceeds the ceiling only by what could not be recorded.
OneGenerationOver ==
    \A l \in Ledgers : paid[l] > 0 => paid[l] <= Ceiling - 1 + (MaxRepairs + 1) + lost[l]

\* Every answer that was paid is on the ledger, still to be recorded by the call
\* that holds its lock, or lost in a failed write: a cancelled call, a repair or an
\* error never drops one.
AnswersAccounted ==
    /\ \A l \in Ledgers :
         paid[l] = recorded[l] + lost[l] + (IF lock[l] = None THEN 0 ELSE call[lock[l]].owed)
    /\ \A c \in Calls : call[c].owed > 0 => lock[LedgerOf[c]] = c

\* Every call comes to its end: no order of ledger locks and permits, and no
\* cancellation, leaves a call waiting for ever.
CallsEnd == \A c \in Calls : <>At(c, "over")
=============================================================================
