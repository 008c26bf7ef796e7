---------------------------- MODULE ResearchLoop ----------------------------
(* One research turn, from the request to the answer that is saved:         *)
(* run_turn in assistant_runtime.py, as it runs in production (it builds    *)
(* its own gateways, so the planner, the direct route, the repairs, the     *)
(* selection, the whole-deck inference and the checker are all in use).     *)
(*                                                                          *)
(* At most five calls to the model take turns with at most eight tools.     *)
(* What a call answers is a choice; what the code does with it is not:      *)
(* the one-shot repairs, the two budgets, the reserve for the answer, the   *)
(* checker and its verdict, the draft that is kept, the last report.        *)
(* Meanwhile the user may stop the turn, the deck may change or go, and     *)
(* the time runs out.                                                       *)
EXTENDS Naturals, FiniteSets

CONSTANTS MaxModelCalls,    \* MAX_MODEL_CALLS
          MaxToolCalls,     \* MAX_TOOL_CALLS
          MaxBatch,         \* tools one answer may ask for
          ToolIterations,   \* the authority's limit on the turn's tools
          TurnSeconds,      \* MAX_TURN_SECONDS
          Moments,          \* seconds left that the guards tell apart
          Modes             \* how the session works

\* What the constants are assumed to be.
LoopConstants ==
    /\ MaxModelCalls \in Nat \ {0} /\ MaxToolCalls \in Nat \ {0}
    /\ MaxBatch \in Nat /\ ToolIterations \in Nat /\ TurnSeconds \in Nat
    /\ Moments \subseteq 0..TurnSeconds /\ {0, TurnSeconds} \subseteq Moments
    /\ Modes \subseteq {"suggest", "automate"}

VARIABLES turn,         \* the locals of run_turn
          result,       \* what it is about to return
          world,        \* what others change: the stop, the deck, the clock
          iterations,   \* tool iterations the cost turn has consumed
          failure       \* history: why the last unfinished work was given up

vars == <<turn, result, world, iterations, failure>>

Phases == {"start", "direct", "reading", "loop", "calling", "inferring", "packaging",
           "draft", "reviewing", "tools", "executing", "closing", "ended"}
Calls == {"none", "plan", "work", "select", "answer"}
\* Each of these is done once in a turn.
Allowances == {"output", "planner", "selection", "schema", "package", "continuation",
               "discovery", "checker", "repair"}
Tasks == {"none", "plain", "package", "empirical"}
Statuses == {"incomplete", "done", "stopped", "revision_conflict", "budget_exhausted",
             "provider_error", "provider_unavailable", "raised"}
Flaws == {"counts", "measurements", "lists", "notes", "partial", "repaired"}
Incomplete == {"research_incomplete", "answer_partially_fulfilled", "answer_repair_unverified",
               "empirical_evidence_missing", "discovery_incomplete",
               "selection_explanation_incomplete"}
NoDraft == [empty |-> FALSE, counted |-> TRUE, listed |-> TRUE]

TypeOK ==
    /\ turn \in [phase : Phases, step : 0..MaxModelCalls, call : Calls, mode : Modes,
                 planner : BOOLEAN, retry : BOOLEAN, synthesis : BOOLEAN,
                 used : SUBSET Allowances, tools : 0..MaxToolCalls, batch : 0..MaxBatch,
                 open : {"none", "card_details", "research_package", "check_answer", "tool"},
                 task : Tasks, lists : BOOLEAN, selected : BOOLEAN, notes : BOOLEAN,
                 measured : BOOLEAN, blocked : BOOLEAN, kept : BOOLEAN,
                 draft : [empty : BOOLEAN, counted : BOOLEAN, listed : BOOLEAN]]
    /\ result \in [status : Statuses, reason : Incomplete \cup {""},
                   shown : {"nothing", "notice", "evidence", "fact", "draft", "answer"},
                   flaws : SUBSET Flaws]
    /\ world \in [stopped : BOOLEAN, deck : {"current", "changed", "gone"}, left : Moments]
    /\ iterations \in 0..ToolIterations
    /\ failure \in {"none", "provider", "check"}

Init ==
    /\ turn \in [phase : {"start"}, step : {0}, call : {"none"}, mode : Modes,
                 planner : {TRUE}, retry : {FALSE}, synthesis : {FALSE},
                 used : {{}}, tools : {0}, batch : {0}, open : {"none"},
                 task : {"none"}, lists : BOOLEAN, selected : {FALSE}, notes : {FALSE},
                 measured : {FALSE}, blocked : {FALSE}, kept : {FALSE}, draft : {NoDraft}]
    /\ result = [status |-> "incomplete", reason |-> "", shown |-> "nothing", flaws |-> {}]
    /\ world = [stopped |-> FALSE, deck |-> "current", left |-> TurnSeconds]
    /\ iterations \in 0..ToolIterations \* earlier requests may share the cost turn
    /\ failure = "none"

----------------------------------------------------------------------------
(* What others do.                                                          *)

Others == UNCHANGED <<turn, result, iterations, failure>>

Stop == ~world.stopped /\ world' = [world EXCEPT !.stopped = TRUE] /\ Others
DeckChanges ==
    /\ world.deck = "current"
    /\ \E d \in {"changed", "gone"} : world' = [world EXCEPT !.deck = d]
    /\ Others
Tick == /\ \E m \in Moments : m < world.left /\ world' = [world EXCEPT !.left = m]
        /\ Others

----------------------------------------------------------------------------
(* Going round, ending, and the check before every piece of work.           *)

Halted == world.stopped \/ world.left = 0
Current == ~Halted /\ world.deck = "current"

\* The next round of the loop, after t.
Again(t) ==
    /\ turn' = [t EXCEPT !.phase = "loop", !.step = @ + 1, !.call = "none", !.draft = NoDraft]
    /\ UNCHANGED <<result, world, failure>>

Ends(status, shown) ==
    /\ turn' = [turn EXCEPT !.phase = "closing"]
    /\ result' = [result EXCEPT !.status = status, !.shown = shown]
    /\ UNCHANGED world

Quietly == UNCHANGED <<iterations, failure>>

\* A tool, the package or the answer check takes a unit of the cost turn.
Consumes == iterations < ToolIterations /\ iterations' = iterations + 1
Exhausted == iterations = ToolIterations

----------------------------------------------------------------------------
(* The start, and the direct route for one named card.                      *)

Begin ==
    /\ turn.phase = "start" /\ Current
    /\ \/ turn' = [turn EXCEPT !.phase = "loop"]
       \/ turn' = [turn EXCEPT !.phase = "direct", !.planner = FALSE, !.synthesis = TRUE]
    /\ UNCHANGED <<result, world>> /\ Quietly

\* A gateway cannot be built.
Unconfigured ==
    /\ turn.phase \in {"start", "loop"} /\ turn.step < MaxModelCalls /\ Current
    /\ Ends("provider_unavailable", "notice") /\ Quietly

ReadCard ==
    /\ turn.phase = "direct" /\ Current /\ Consumes
    /\ turn' = [turn EXCEPT !.phase = "reading", !.open = "card_details"]
    /\ UNCHANGED <<result, world, failure>>

\* A refusal of the cost turn outside the tool loop fails the whole turn.
ReadDenied ==
    /\ turn.phase = "direct" /\ Current /\ Exhausted
    /\ turn' = [turn EXCEPT !.phase = "closing", !.open = "card_details"]
    /\ result' = [result EXCEPT !.status = "provider_error", !.shown = "notice"]
    /\ UNCHANGED world /\ Quietly

CardUnresolved ==
    /\ turn.phase = "reading"
    /\ turn' = [turn EXCEPT !.phase = "loop", !.open = "none", !.planner = TRUE,
                            !.synthesis = FALSE]
    /\ UNCHANGED <<result, world>> /\ Quietly

CardRead ==
    /\ turn.phase = "reading"
    /\ turn' = [turn EXCEPT !.phase = "loop", !.open = "none", !.tools = @ + 1]
    /\ UNCHANGED <<result, world>> /\ Quietly

\* An exact printed fact needs no model.
FactRendered ==
    /\ turn.phase = "reading"
    /\ turn' = [turn EXCEPT !.phase = "closing", !.open = "none", !.tools = @ + 1]
    /\ result' = [result EXCEPT !.status = "done", !.shown = "fact"]
    /\ UNCHANGED world /\ Quietly

----------------------------------------------------------------------------
(* The next call to the model.                                              *)

Final == turn.step = MaxModelCalls - 1
AnswerOnly == turn.tools = MaxToolCalls \/ Final \/ turn.synthesis
NextKind ==
    IF turn.planner /\ (turn.step = 0 \/ turn.retry) THEN "plan"
    ELSE IF ~AnswerOnly THEN "work"
    ELSE IF turn.lists /\ turn.task \in {"none", "plain"} THEN "select" ELSE "answer"

CallModel ==
    /\ turn.phase = "loop" /\ turn.step < MaxModelCalls /\ Current
    /\ turn' = [turn EXCEPT !.phase = "calling", !.call = NextKind, !.retry = FALSE]
    /\ UNCHANGED <<result, world>> /\ Quietly

\* What is to be sent is too long, or the last round was not the last word.
BudgetExhausted ==
    /\ turn.phase = "loop" /\ (turn.step < MaxModelCalls => Current)
    /\ Ends("budget_exhausted", "evidence") /\ Quietly

NoCandidates ==
    /\ turn.phase = "loop" /\ turn.step < MaxModelCalls /\ Current /\ NextKind = "select"
    /\ Ends("incomplete", "notice") /\ Quietly

----------------------------------------------------------------------------
(* A call that fails: over its length, not what was asked for, or lost.     *)

Uses(a) == [turn EXCEPT !.used = @ \cup {a}]
May(a) == a \notin turn.used

Recovers == May("output") /\ ~Final /\ world.left >= 30
Replans == /\ turn.call = "plan" /\ May("planner") /\ MaxModelCalls - turn.step >= 4
           /\ world.left >= 90
Reselects == turn.call = "select" /\ May("selection") /\ ~Final
Regenerates == turn.call = "answer" /\ May("schema") /\ ~Final /\ world.left >= 90

\* The answer reached its length limit: once, a shorter one is asked for.
RecoverOutput ==
    /\ turn.phase = "calling" /\ Recovers /\ Current
    /\ Again([Uses("output") EXCEPT !.retry = turn.call = "plan"]) /\ UNCHANGED iterations

\* The answer is not what was asked for: each kind has one repair.
RepairSchema ==
    /\ turn.phase = "calling" /\ Current
    /\ \/ Replans /\ Again([Uses("planner") EXCEPT !.retry = TRUE])
       \/ Reselects /\ Again([Uses("selection") EXCEPT !.synthesis = TRUE])
       \/ Regenerates /\ Again([Uses("schema") EXCEPT !.synthesis = TRUE])
    /\ UNCHANGED iterations

\* The provider failed; only the repair of an answer has something to report.
CallLost ==
    /\ turn.phase = "calling" /\ May("repair")
    /\ Ends("provider_error", "evidence") /\ failure' = "provider" /\ UNCHANGED iterations

RejectedStatus == IF May("repair") THEN "provider_error" ELSE "incomplete"

CallRejected ==
    /\ turn.phase = "calling" /\ Current
    /\ ~Recovers \/ ~(Replans \/ Reselects \/ Regenerates)
    /\ Ends(RejectedStatus, "evidence") /\ Quietly

RepairLost ==
    /\ turn.phase = "calling" /\ ~May("repair") /\ Current
    /\ Ends(RejectedStatus, "evidence") /\ failure' = "provider" /\ UNCHANGED iterations

\* The cost authority denies the attempt: no handler but the last one knows it.
CallDenied ==
    /\ turn.phase \in {"calling", "inferring", "packaging"}
    /\ Ends("provider_error", "notice") /\ failure' = "provider" /\ UNCHANGED iterations

----------------------------------------------------------------------------
(* A call that answers. The gateway has looked for a stop before it returns *)
(* the answer, so every answer below is one of a turn that still runs.      *)

\* A draft of an answer, with what may be wrong with it.
Drafts(t) ==
    \E d \in [empty : BOOLEAN, counted : BOOLEAN, listed : BOOLEAN] :
        /\ d.empty => t.call # "select" /\ "repair" \notin t.used
        /\ ~d.counted => t.task = "package"
        /\ turn' = [t EXCEPT !.phase = "draft", !.draft = d]
        /\ UNCHANGED <<result, world, failure>>

\* n tools are asked for: there must be room to run them and then to answer.
Batches(t) ==
    \E n \in 1..MaxBatch :
        \/ /\ t.call \in {"select", "answer"}
           /\ Ends("budget_exhausted", "evidence") /\ UNCHANGED failure
        \/ /\ t.call \in {"plan", "work"} /\ t.tools + n > MaxToolCalls
           /\ Again([t EXCEPT !.synthesis = TRUE])
        \/ /\ t.call \in {"plan", "work"} /\ t.tools + n <= MaxToolCalls
           /\ turn' = [t EXCEPT !.phase = "tools", !.batch = n]
           /\ UNCHANGED <<result, world, failure>>

\* What the package primitive needs.
Packages(t) ==
    /\ t.task = "package" /\ t.mode = "suggest" /\ "package" \notin t.used
    /\ t.step < MaxModelCalls - 1 /\ t.tools < MaxToolCalls
    /\ world.left >= 150

\* A coordinated request goes to the package primitive, whatever was answered.
StartsPackage(t) ==
    /\ Packages(t)
    /\ turn' = [t EXCEPT !.phase = IF Exhausted THEN "closing" ELSE "packaging",
                         !.used = @ \cup {"package"}, !.tools = @ + 1,
                         !.open = "research_package"]
    /\ \/ Consumes /\ UNCHANGED result
       \/ /\ Exhausted /\ UNCHANGED iterations
          /\ result' = [result EXCEPT !.status = "provider_error", !.shown = "notice"]
    /\ UNCHANGED <<world, failure>>

\* What follows an accepted answer: a package, tools or a draft.
Proceeds(t) ==
    \/ StartsPackage(t)
    \/ ~Packages(t) /\ (Drafts(t) \/ Batches(t)) /\ UNCHANGED iterations

\* The selection misses a list, a count or a source; it is not re-read first.
SelectionRefused ==
    /\ turn.phase = "calling" /\ turn.call = "select" /\ ~Halted
    /\ \/ Reselects /\ Again([Uses("selection") EXCEPT !.synthesis = TRUE])
       \/ ~Reselects /\ Ends("incomplete", "evidence") /\ UNCHANGED failure
    /\ UNCHANGED iterations

SelectionTaken ==
    /\ turn.phase = "calling" /\ turn.call = "select" /\ Current
    /\ \E poor, listed \in BOOLEAN :
        /\ turn' = [turn EXCEPT !.phase = "draft", !.selected = TRUE, !.notes = poor,
                                !.draft = [NoDraft EXCEPT !.listed = listed]]
        /\ result' = IF poor
                     THEN [result EXCEPT !.reason = "selection_explanation_incomplete"]
                     ELSE result
    /\ UNCHANGED world /\ Quietly

\* The plan is not grounded in the request.
PlanUngrounded ==
    /\ turn.phase = "calling" /\ turn.call = "plan" /\ Current
    /\ Ends("provider_error", "evidence") /\ Quietly

\* The plan fixes the task and its lists, and says where to go.
Planned(task, lists) == [turn EXCEPT !.task = task, !.lists = lists]
PlannedTasks == {<<"plain", TRUE>>, <<"plain", FALSE>>, <<"package", turn.lists>>,
                 <<"package", FALSE>>, <<"empirical", turn.lists>>, <<"empirical", FALSE>>}

PlanAccepted ==
    /\ turn.phase = "calling" /\ turn.call = "plan" /\ Current
    /\ \E p \in PlannedTasks :
        LET t == Planned(p[1], p[2]) IN
        \/ Batches(t) /\ ~Packages(t) /\ UNCHANGED iterations
        \/ p[1] # "empirical" /\ Proceeds(t)
        \* use_tools, and no tool is named: because the cards it names are read
        \* already and the answer is next, or for the next call to choose one.
        \/ \E enough \in BOOLEAN :
              /\ Again([t EXCEPT !.synthesis = enough]) /\ UNCHANGED iterations

\* A question about the whole deck is inferred from its printed records.
DeckQuestion ==
    /\ turn.phase = "calling" /\ turn.call = "plan" /\ Current
    /\ turn' = [Planned("plain", FALSE) EXCEPT !.phase = "inferring"]
    /\ UNCHANGED <<result, world>> /\ Quietly

DeckInferred ==
    /\ turn.phase = "inferring" /\ Current
    /\ turn' = [turn EXCEPT !.phase = "closing"]
    /\ result' = [result EXCEPT !.status = "incomplete", !.shown = "answer",
                                !.reason = "answer_partially_fulfilled", !.flaws = {"partial"}]
    /\ UNCHANGED world /\ Quietly

Work ==
    /\ turn.phase = "calling" /\ turn.call = "work" /\ Current
    /\ \/ Proceeds(turn)
       \/ turn.task = "plain" /\ Proceeds([turn EXCEPT !.synthesis = TRUE])
       \/ turn.task = "plain" /\ Again([turn EXCEPT !.synthesis = TRUE]) /\ UNCHANGED iterations

\* The repair of an answer may not go back to tools.
Answer ==
    /\ turn.phase = "calling" /\ turn.call = "answer" /\ Current
    /\ \/ May("repair") /\ Proceeds(turn)
       \/ ~May("repair") /\ StartsPackage(turn)
       \/ ~May("repair") /\ ~Packages(turn) /\ Drafts(turn) /\ UNCHANGED iterations
       \/ ~May("repair") /\ Ends("incomplete", "evidence") /\ Quietly

\* The package is composed, or is not, and either is the draft.
PackageEnds ==
    /\ turn.phase = "packaging" /\ ~Halted
    /\ \E made \in BOOLEAN, d \in [empty : {FALSE}, counted : BOOLEAN, listed : BOOLEAN] :
        /\ d.counted \/ ~made
        /\ turn' = [turn EXCEPT !.phase = "draft", !.open = "none", !.blocked = ~made, !.draft = d]
    /\ UNCHANGED <<result, world>> /\ Quietly

----------------------------------------------------------------------------
(* The tools of one answer, one after the other.                            *)

\* Searches beyond the functional budget of a discovery are skipped.
SkipTool ==
    /\ turn.phase = "tools" /\ turn.batch > 0 /\ Current /\ turn.task = "plain"
    /\ turn' = [turn EXCEPT !.batch = @ - 1]
    /\ UNCHANGED <<result, world>> /\ Quietly

\* Mutant: only the first tool of a batch looks at the deck and the stop.
SlipCallTool ==
    /\ turn.phase = "tools" /\ turn.batch > 0 /\ Consumes
    /\ turn' = [turn EXCEPT !.phase = "executing", !.batch = @ - 1, !.tools = @ + 1,
                            !.open = "tool"]
    /\ UNCHANGED <<result, world, failure>>

CallTool ==
    /\ turn.phase = "tools" /\ turn.batch > 0 /\ Current /\ Consumes
    /\ turn' = [turn EXCEPT !.phase = "executing", !.batch = @ - 1, !.tools = @ + 1,
                            !.open = "tool"]
    /\ UNCHANGED <<result, world, failure>>

\* In the tool loop a denial is one failed tool.
ToolDenied ==
    /\ turn.phase = "tools" /\ turn.batch > 0 /\ Current /\ Exhausted
    /\ turn' = [turn EXCEPT !.batch = @ - 1, !.tools = @ + 1]
    /\ UNCHANGED <<result, world>> /\ Quietly

\* It ran, was read from this turn's results, or failed; nested tools of its
\* own consume too. A repeated read, or the last named card, leaves nothing
\* but to answer.
ToolEnds ==
    /\ turn.phase = "executing"
    /\ \E enough, run \in BOOLEAN :
        turn' = [turn EXCEPT !.phase = "tools", !.open = "none",
                             !.synthesis = @ \/ (enough /\ turn.task # "empirical"),
                             !.measured = @ \/ (run /\ turn.task = "empirical")]
    /\ iterations' \in {iterations, iterations + 1} \cap (0..ToolIterations)
    /\ UNCHANGED <<result, world, failure>>

BatchDone ==
    /\ turn.phase = "tools" /\ turn.batch = 0
    /\ Again(turn) /\ UNCHANGED iterations

----------------------------------------------------------------------------
(* The draft, the one check of it, and the answer.                          *)

\* Nothing was said: another call is spent on it, if there is one.
DraftEmpty ==
    /\ turn.phase = "draft" /\ turn.draft.empty
    /\ \/ ~Final /\ Again([turn EXCEPT !.synthesis = TRUE])
       \/ Final /\ Ends("budget_exhausted", "evidence") /\ UNCHANGED failure
    /\ UNCHANGED iterations

\* The counts asked for are not there and research may go on: the draft is kept.
Continues ==
    /\ ~turn.draft.counted /\ May("continuation") /\ May("repair") /\ ~turn.blocked
    /\ turn.step <= MaxModelCalls - 3 /\ turn.tools < MaxToolCalls

DraftKept ==
    /\ turn.phase = "draft" /\ ~turn.draft.empty /\ Continues
    /\ Again([Uses("continuation") EXCEPT !.kept = TRUE]) /\ UNCHANGED iterations

\* The lists asked for are not there: one more answer from what was found.
Relists == ~turn.draft.listed /\ ~turn.selected /\ ~Final /\ May("discovery")

DraftRelisted ==
    /\ turn.phase = "draft" /\ ~turn.draft.empty /\ ~Continues /\ Relists
    /\ Again([Uses("discovery") EXCEPT !.synthesis = TRUE]) /\ UNCHANGED iterations

Ready == turn.phase = "draft" /\ ~turn.draft.empty /\ ~Continues /\ ~Relists
ReasonOfDraft == IF turn.draft.listed THEN result.reason ELSE "discovery_incomplete"

\* One check of an answer in a turn, when there is the time for it.
Checks == May("checker") /\ world.left >= (IF turn.selected THEN 150 ELSE 75)

StartReview ==
    /\ Ready /\ Checks /\ Current /\ Consumes
    /\ turn' = [Uses("checker") EXCEPT !.phase = "reviewing", !.open = "check_answer"]
    /\ result' = [result EXCEPT !.reason = ReasonOfDraft]
    /\ UNCHANGED <<world, failure>>

\* The check is a tool iteration too; its denial fails the turn.
ReviewDenied ==
    /\ \/ Ready /\ Checks /\ Current /\ Exhausted
       \/ turn.phase = "reviewing"
    /\ turn' = [Uses("checker") EXCEPT !.phase = "closing"]
    /\ result' = [result EXCEPT !.status = "provider_error", !.shown = "notice"]
    /\ failure' = "check" /\ UNCHANGED <<world, iterations>>

\* The answer is written down, with every reason it is not whole.
Unmeasured == turn.task = "empirical" /\ ~turn.measured
FinalReason(reason, listed) ==
    IF ~listed THEN "discovery_incomplete"
    ELSE IF Unmeasured THEN "empirical_evidence_missing"
    ELSE IF ~turn.draft.counted THEN "research_incomplete" ELSE reason

Delivered(reason, verdict) ==
    \E listed \in BOOLEAN :
        LET final == FinalReason(reason, listed) IN
        result' = [status |-> IF final \in Incomplete THEN "incomplete" ELSE "done",
                   reason |-> final, shown |-> "answer",
                   flaws |-> {f \in Flaws :
                       \/ f = "counts" /\ ~turn.draft.counted
                       \/ f = "measurements" /\ Unmeasured
                       \/ f = "lists" /\ ~listed
                       \/ f = "notes" /\ turn.notes
                       \/ f = "partial" /\ verdict = "partial"
                       \/ f = "repaired" /\ ~May("repair")}]

SlipSkipReview ==
    /\ Ready /\ ~Checks
    /\ turn' = [turn EXCEPT !.phase = "closing"]
    /\ Delivered(ReasonOfDraft, "none")
    /\ UNCHANGED world /\ Quietly

SkipReview ==
    /\ Ready /\ ~Checks
    /\ turn' = [turn EXCEPT !.phase = "closing"]
    /\ Delivered(IF May("repair") THEN ReasonOfDraft ELSE "answer_repair_unverified", "none")
    /\ UNCHANGED world /\ Quietly

\* The verdict counts while the turn is current. An ordinary check that the
\* time overtakes leaves the draft unchecked; a selection's check, which
\* reports as it goes, is stopped by it.
InTime == IF turn.selected THEN Current ELSE ~world.stopped /\ world.deck = "current"
Verdicts == IF world.left = 0 THEN {"none"} ELSE {"complete", "partial", "nonanswer", "none"}
\* Notes that were replaced make an answer partial, whatever the checker says.
Heard(verdict) == IF turn.selected /\ turn.notes THEN "partial" ELSE verdict
Repairs == ~Final /\ May("repair")

\* The draft does not answer the request: one more call, then the last word.
AnswerRepaired ==
    /\ turn.phase = "reviewing" /\ InTime /\ Repairs
    /\ "nonanswer" \in {Heard(v) : v \in Verdicts}
    /\ Again([Uses("repair") EXCEPT !.open = "none", !.synthesis = TRUE]) /\ UNCHANGED iterations

RequestUnanswered ==
    /\ turn.phase = "reviewing" /\ InTime /\ ~Repairs
    /\ "nonanswer" \in {Heard(v) : v \in Verdicts}
    /\ turn' = [turn EXCEPT !.phase = "closing", !.open = "none"]
    /\ result' = [result EXCEPT !.status = "incomplete", !.shown = "evidence"]
    /\ UNCHANGED world /\ Quietly

ReviewEnds ==
    /\ turn.phase = "reviewing" /\ InTime
    /\ turn' = [turn EXCEPT !.phase = "closing", !.open = "none"]
    /\ \E v \in Verdicts :
        /\ Heard(v) # "nonanswer"
        /\ Delivered(IF Heard(v) = "partial" THEN "answer_partially_fulfilled" ELSE result.reason,
                     Heard(v))
    /\ UNCHANGED world /\ Quietly

\* A check that was overtaken still looks at the deck.
ReviewOvertaken ==
    /\ turn.phase = "reviewing" /\ ~turn.selected /\ world.left = 0 /\ ~world.stopped
    /\ \/ world.deck = "changed" /\ Ends("revision_conflict", "notice")
       \/ world.deck = "gone" /\ Ends("raised", "nothing")
    /\ Quietly

\* tools.check raises; so do the gateways and the readers that are handed it.
Refused ==
    /\ turn.phase \in {"start", "direct", "loop", "calling", "inferring", "packaging", "draft",
                       "reviewing", "tools", "executing"}
    /\ turn.phase = "loop" => turn.step < MaxModelCalls
    /\ turn.phase = "tools" => turn.batch > 0
    /\ turn.phase = "draft" => Ready /\ Checks
    /\ \/ Halted /\ Ends("stopped", "notice")
       \/ ~Halted /\ world.deck = "changed" /\ Ends("revision_conflict", "notice")
       \/ ~Halted /\ world.deck = "gone" /\ Ends("raised", "nothing")
    /\ Quietly

\* Whatever happened: a draft that was kept stands in for a turn that failed.
Failed == \/ result.status \in {"budget_exhausted", "provider_error", "provider_unavailable"}
          \/ result.status = "stopped" /\ world.left = 0
Return ==
    /\ turn.phase = "closing"
    /\ turn' = [turn EXCEPT !.phase = "ended"]
    /\ result' = IF turn.kept /\ ~world.stopped /\ Failed
                 THEN [result EXCEPT !.status = "incomplete", !.shown = "draft",
                                     !.reason = "research_incomplete"]
                 ELSE result
    /\ UNCHANGED world /\ Quietly

----------------------------------------------------------------------------

Starting == Begin \/ Unconfigured \/ ReadCard \/ ReadDenied \/ CardUnresolved \/ CardRead
            \/ FactRendered
Calling == CallModel \/ BudgetExhausted \/ NoCandidates
Failing == RecoverOutput \/ RepairSchema \/ CallLost \/ CallRejected \/ RepairLost \/ CallDenied
Answering == SelectionRefused \/ SelectionTaken \/ PlanUngrounded \/ PlanAccepted
             \/ DeckQuestion \/ DeckInferred \/ Work \/ Answer \/ PackageEnds
UsingTools == SkipTool \/ CallTool \/ ToolDenied \/ ToolEnds \/ BatchDone
Finishing == DraftEmpty \/ DraftKept \/ DraftRelisted \/ StartReview \/ ReviewDenied
             \/ SkipReview \/ AnswerRepaired \/ RequestUnanswered \/ ReviewEnds
             \/ ReviewOvertaken \/ Return
Running == Starting \/ Calling \/ Failing \/ Answering \/ UsingTools \/ Finishing \/ Refused
Next == Stop \/ DeckChanges \/ Tick \/ Running

Spec == Init /\ [][Next]_vars

\* A call, a tool and a check return: each of them has its own time limit.
FairSpec == Spec /\ WF_vars(Running)

----------------------------------------------------------------------------
(* What a turn promises.                                                    *)

\* A turn is done only with an answer that nothing found short: its counts,
\* lists, measurements and notes are there, the checker did not call it
\* partial, and it does not stand in for one the checker rejected. The reason
\* the status is taken from is one variable that many steps overwrite.
DoneIsWhole == result.status = "done" => result.flaws = {}

\* Every call to the model, every tool, package and check begins in a turn
\* that nobody stopped, within its time, on the deck it is about.
WorkIsCurrent ==
    [][(turn'.phase \in {"reading", "calling", "packaging", "executing", "reviewing", "inferring"}
        /\ turn'.phase # turn.phase) => Current]_vars

=============================================================================
