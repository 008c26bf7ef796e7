---------------------------- MODULE CostAuthority ----------------------------
(***************************************************************************)
(* The shared spending authority (ai_cost_control.py, class Authority).    *)
(*                                                                         *)
(* All of its state is one JSON row that every operation locks, reads,     *)
(* changes and commits, or rolls back when it raises BudgetDenied.  Each   *)
(* operation is therefore one action here, and a denied operation is a     *)
(* step that does not happen.  Workers, deployments and administrators     *)
(* call the operations in any order: a caller that crashed simply never    *)
(* makes its next call.                                                    *)
(*                                                                         *)
(* Here and in the other modules, a definition Slip... is a plausible      *)
(* mistake in the definition below it; nothing uses it but the mutants     *)
(* PROJECT.json lists, each of which some property must catch.             *)
(***************************************************************************)
EXTENDS Integers, FiniteSets

CONSTANTS
    Envs,           \* the deployments; guests exist in Preview only
    Preview,
    Users,          \* quota subjects (an account, or a guest's network)
    Sessions,       \* guest sessions
    NoSession,      \* the guest_session of an account's turn
    Keys,           \* idempotency keys of submissions
    Owners,         \* lease owners the callers present
    TurnIds,        \* uuids
    AttemptIds,     \* uuids
    Models,         \* the models with an explicit price
    InputRate, OutputRate, PriceScale,      \* prices, microdollars per token
    Requests,       \* <<input, output>> token counts callers ask to reserve
    Reports,        \* <<input, output>> token counts providers report
    InputTokens, OutputTokens,              \* per attempt limits
    Monthly,        \* the combined monthly cap
    EnvMonthly, UserDaily, TurnsPerDay,     \* per environment limits
    TurnCost, Attempts, Tools, Deadline,    \* per turn limits
    GuestMicros, GuestTurns, GuestCooldown, \* anonymous preview limits
    DayLength, MonthLength,                 \* the calendar, in ticks
    MaxTime         \* bound: the clock stops here

ASSUME CostConstants ==
    /\ NoSession \notin Sessions
    /\ InputRate \in [Models -> Nat \ {0}] /\ OutputRate \in [Models -> Nat \ {0}]
    /\ PriceScale \in Nat \ {0}
    /\ Requests \subseteq Nat \X Nat /\ Reports \subseteq Nat \X Nat
    /\ {InputTokens, OutputTokens, Monthly, TurnCost, Attempts, Tools, Deadline}
         \subseteq Nat \ {0}
    /\ {EnvMonthly, UserDaily, TurnsPerDay} \subseteq [Envs -> Nat \ {0}]
    /\ {GuestMicros, GuestTurns, GuestCooldown} \subseteq Nat \ {0}
    /\ DayLength \in Nat \ {0} /\ MonthLength \in Nat \ {0} /\ MaxTime \in Nat

VARIABLES
    turns,          \* turn id -> turn, for the turns begun so far
    attempts,       \* attempt id -> attempt, for the attempts admitted so far
    killed,         \* the global kill switch
    killedEnvs,     \* the environments switched off
    alerts,         \* alert records
    now,            \* the clock of the callers
    investigated    \* history: overruns that existed when spending was re-enabled

vars == <<turns, attempts, killed, killedEnvs, alerts, now, investigated>>

Day(t) == t \div DayLength
Month(t) == t \div MonthLength

\* Round upward: a fraction of a microdollar is charged as one.
Charge(model, input, output) ==
    (input * InputRate[model] + output * OutputRate[model] + PriceScale - 1)
        \div PriceScale

-----------------------------------------------------------------------------
(* Scopes: what a budget is counted over.  An attempt belongs to the scopes *)
(* ScopesOf lists, and each scope has its cap.                              *)

NoOne == "no one"

ScopesOf(a) ==
    { [name |-> "combined", env |-> NoOne, who |-> NoOne,
       period |-> a.month, cap |-> Monthly],
      [name |-> "environment", env |-> a.env, who |-> NoOne,
       period |-> a.month, cap |-> EnvMonthly[a.env]],
      [name |-> "user", env |-> a.env, who |-> a.user,
       period |-> a.day, cap |-> UserDaily[a.env]],
      [name |-> "turn", env |-> NoOne, who |-> a.turn,
       period |-> 0, cap |-> TurnCost] }
    \cup { [name |-> "guest", env |-> NoOne, who |-> g,
            period |-> a.day, cap |-> GuestMicros] : g \in {a.session} \ {NoSession} }

Members(s) == {id \in DOMAIN attempts : s \in ScopesOf(attempts[id])}

\* The sum of the charges in a scope, as a cardinality: one element for each
\* microdollar charged.
Exposure(s) ==
    Cardinality(UNION {{id} \X (1..attempts[id].charge) : id \in Members(s)})

Thresholds == {50, 80, 95}

-----------------------------------------------------------------------------
(* Turns                                                                    *)

Enabled(env) == ~killed /\ env \notin killedEnvs

Active(t) == ~turns[t].closed /\ now < turns[t].deadline

SlipLiveByOwner(t, owner) == Enabled(turns[t].env) /\ turns[t].owner = owner
Live(t, owner) == Enabled(turns[t].env) /\ turns[t].owner = owner /\ Active(t)

\* The turn an exact retry of a submission is answered with.
Submitted(env, user, key) ==
    {t \in DOMAIN turns : <<turns[t].env, turns[t].user, turns[t].key>> = <<env, user, key>>}

SameHolder(t, user, session) ==
    turns[t].user = user \/ (session # NoSession /\ turns[t].session = session)

SlipNoActiveTurnToday(user, session) ==
    ~ \E t \in DOMAIN turns :
        SameHolder(t, user, session) /\ Active(t) /\ turns[t].day = Day(now)
NoActiveTurn(user, session) ==
    ~ \E t \in DOMAIN turns : SameHolder(t, user, session) /\ Active(t)

BegunToday(env, user) ==
    {t \in DOMAIN turns : <<turns[t].env, turns[t].user, turns[t].day>> = <<env, user, Day(now)>>}

SlipOpenSessionTurns(session) ==
    {t \in DOMAIN turns : turns[t].session = session /\ ~turns[t].closed}
SessionTurnsToday(session) ==
    {t \in DOMAIN turns : turns[t].session = session /\ turns[t].day = Day(now)}

CooledDown(user, session) ==
    \A t \in DOMAIN turns :
        turns[t].user = user /\ turns[t].session # NoSession
            => now >= turns[t].startedAt + GuestCooldown

GuestMayBegin(user, session) ==
    Cardinality(SessionTurnsToday(session)) < GuestTurns /\ CooledDown(user, session)

\* begin_turn, when it inserts a turn; a retry finds its turn in Submitted and
\* changes nothing.
BeginTurn(t, env, user, key, owner, session) ==
    /\ t \notin DOMAIN turns
    /\ session # NoSession => env = Preview
    /\ Enabled(env)
    /\ Submitted(env, user, key) = {}
    /\ NoActiveTurn(user, session)
    /\ session # NoSession => GuestMayBegin(user, session)
    /\ Cardinality(BegunToday(env, user)) < TurnsPerDay[env]
    /\ turns' = [u \in DOMAIN turns \cup {t} |->
                    IF u = t
                    THEN [env |-> env, user |-> user, key |-> key, owner |-> owner,
                          day |-> Day(now), closed |-> FALSE,
                          deadline |-> now + Deadline, tools |-> 0,
                          session |-> session, startedAt |-> now]
                    ELSE turns[u]]
    /\ UNCHANGED <<attempts, killed, killedEnvs, alerts, now, investigated>>

SlipFinishTurnRefunds(t, owner) ==
    /\ t \in DOMAIN turns
    /\ turns[t].owner = owner
    /\ turns' = [turns EXCEPT ![t].closed = TRUE]
    /\ attempts' = [id \in DOMAIN attempts |->
                      IF attempts[id].turn = t /\ ~attempts[id].settled
                      THEN [attempts[id] EXCEPT !.charge = 0] ELSE attempts[id]]
    /\ UNCHANGED <<killed, killedEnvs, alerts, now, investigated>>

\* finish_turn and cancel_turn are one function.
FinishTurn(t, owner) ==
    /\ t \in DOMAIN turns
    /\ turns[t].owner = owner
    /\ turns' = [turns EXCEPT ![t].closed = TRUE]
    /\ UNCHANGED <<attempts, killed, killedEnvs, alerts, now, investigated>>

ToolIteration(t, owner) ==
    /\ t \in DOMAIN turns
    /\ Live(t, owner)
    /\ turns[t].tools < Tools
    /\ turns' = [turns EXCEPT ![t].tools = @ + 1]
    /\ UNCHANGED <<attempts, killed, killedEnvs, alerts, now, investigated>>

-----------------------------------------------------------------------------
(* Attempts                                                                 *)

NewAttempt(t, model, bound) ==
    [turn |-> t, env |-> turns[t].env, user |-> turns[t].user,
     day |-> Day(now), month |-> Month(now), session |-> turns[t].session,
     model |-> model, bound |-> bound, charge |-> bound, settled |-> FALSE]

Attempted(t) == {id \in DOMAIN attempts : attempts[id].turn = t}

SlipExposureBefore(s, a) == Exposure(s)
ExposureWith(s, a) == Exposure(s) + a.bound

WithinLimits(a) == \A s \in ScopesOf(a) : ExposureWith(s, a) <= s.cap

SlipAbove(exposure, s, threshold) == exposure * 100 > s.cap * threshold
Reaches(exposure, s, threshold) == exposure * 100 >= s.cap * threshold

Raised(s, threshold) == \E alert \in alerts : alert.scope = s /\ alert.threshold = threshold

\* Thresholds an admission reaches, once for each scope, period and threshold.
NewAlerts(a) ==
    {[scope |-> x[1], threshold |-> x[2], exposure |-> ExposureWith(x[1], a)] :
        x \in {y \in ScopesOf(a) \X Thresholds :
                  Reaches(ExposureWith(y[1], a), y[1], y[2]) /\ ~Raised(y[1], y[2])}}

AdmitAttempt(id, t, owner, model, tokens) ==
    LET a == NewAttempt(t, model, Charge(model, tokens[1], tokens[2]))
    IN  /\ id \notin DOMAIN attempts
        /\ t \in DOMAIN turns
        /\ Live(t, owner)
        /\ tokens[1] <= InputTokens
        /\ 0 < tokens[2] /\ tokens[2] <= OutputTokens
        /\ Cardinality(Attempted(t)) < Attempts
        /\ WithinLimits(a)
        /\ attempts' = [x \in DOMAIN attempts \cup {id} |->
                            IF x = id THEN a ELSE attempts[x]]
        /\ alerts' = alerts \cup NewAlerts(a)
        /\ UNCHANGED <<turns, killed, killedEnvs, now, investigated>>

OverrunAlert(id) == [scope |-> id, threshold |-> 0, exposure |-> attempts[id].bound]

SlipExceedsByMore(cost, a) == cost > a.bound + 1
Exceeds(cost, a) == cost > a.bound

\* AttemptReceipt.usage and reconcile: the first report settles the attempt, at
\* any later time, whatever became of its turn.  An unusable or missing report
\* keeps the reservation, a repeated one is ignored and a conflicting one is
\* refused.
Reconcile(id, tokens) ==
    /\ id \in DOMAIN attempts
    /\ ~attempts[id].settled
    /\ LET cost == Charge(attempts[id].model, tokens[1], tokens[2])
           exceeded == Exceeds(cost, attempts[id])
       IN  /\ attempts' = [attempts EXCEPT ![id].charge = cost, ![id].settled = TRUE]
           /\ killed' = (killed \/ exceeded)
           /\ alerts' = IF exceeded THEN alerts \cup {OverrunAlert(id)} ELSE alerts
    /\ UNCHANGED <<turns, killedEnvs, now, investigated>>

-----------------------------------------------------------------------------
(* Administration and time                                                  *)

Overruns == {id \in DOMAIN attempts : attempts[id].charge > attempts[id].bound}

SetKillSwitch(enabled) ==
    /\ killed' = enabled
    /\ investigated' = IF enabled THEN investigated ELSE Overruns
    /\ UNCHANGED <<turns, attempts, killedEnvs, alerts, now>>

SetEnvironmentSwitch(env, enabled) ==
    /\ killedEnvs' = IF enabled THEN killedEnvs \cup {env} ELSE killedEnvs \ {env}
    /\ UNCHANGED <<turns, attempts, killed, alerts, now, investigated>>

Tick ==
    /\ now < MaxTime
    /\ now' = now + 1
    /\ UNCHANGED <<turns, attempts, killed, killedEnvs, alerts, investigated>>

-----------------------------------------------------------------------------
Init ==
    /\ turns = [t \in {} |-> 0]
    /\ attempts = [a \in {} |-> 0]
    /\ killed = FALSE
    /\ killedEnvs = {}
    /\ alerts = {}
    /\ now = 0
    /\ investigated = {}

Next ==
    \/ \E t \in TurnIds, env \in Envs, user \in Users, key \in Keys, owner \in Owners,
          session \in Sessions \cup {NoSession} : BeginTurn(t, env, user, key, owner, session)
    \/ \E t \in TurnIds, owner \in Owners : FinishTurn(t, owner)
    \/ \E t \in TurnIds, owner \in Owners : ToolIteration(t, owner)
    \/ \E id \in AttemptIds, t \in TurnIds, owner \in Owners, model \in Models,
          tokens \in Requests : AdmitAttempt(id, t, owner, model, tokens)
    \/ \E id \in AttemptIds, tokens \in Reports : Reconcile(id, tokens)
    \/ \E enabled \in BOOLEAN : SetKillSwitch(enabled)
    \/ \E env \in Envs, enabled \in BOOLEAN : SetEnvironmentSwitch(env, enabled)
    \/ Tick

Spec == Init /\ [][Next]_vars

-----------------------------------------------------------------------------
(* Properties                                                               *)

TurnType ==
    [env : Envs, user : Users, key : Keys, owner : Owners, day : Nat,
     closed : BOOLEAN, deadline : Nat, tools : Nat,
     session : Sessions \cup {NoSession}, startedAt : Nat]

AttemptType ==
    [turn : TurnIds, env : Envs, user : Users, day : Nat, month : Nat,
     session : Sessions \cup {NoSession}, model : Models,
     bound : Nat, charge : Nat, settled : BOOLEAN]

\* Type correctness.  Every attempt also names a turn the authority knows, of the
\* same environment, user and session: reconcile and AttemptReceipt look it up
\* without a check.
TypeOK ==
    /\ DOMAIN turns \subseteq TurnIds /\ turns \in [DOMAIN turns -> TurnType]
    /\ DOMAIN attempts \subseteq AttemptIds /\ attempts \in [DOMAIN attempts -> AttemptType]
    /\ killed \in BOOLEAN /\ killedEnvs \subseteq Envs
    /\ now \in 0..MaxTime
    /\ investigated \subseteq DOMAIN attempts
    /\ \A id \in DOMAIN attempts : LET a == attempts[id] IN
          /\ a.turn \in DOMAIN turns
          /\ <<a.env, a.user, a.session>> =
                <<turns[a.turn].env, turns[a.turn].user, turns[a.turn].session>>

Scopes == UNION {ScopesOf(attempts[id]) : id \in DOMAIN attempts}

\* No budget is ever exceeded unless a provider reported more than was reserved:
\* over the combined month, the month of an environment, the day of a user, the
\* turn and the day of a guest session, spent plus reserved stays within the cap
\* as long as no attempt in the scope was settled above its bound (admit_attempt
\* checks each cap once; settlements, expiry and the calendar come in between).
CapsHold ==
    \A s \in Scopes : Exposure(s) > s.cap => Members(s) \cap Overruns # {}

\* A user, in whatever deployment, and a guest session, on whatever network, has
\* at most one turn that can still spend.
OneActiveTurn ==
    \A t, u \in DOMAIN turns :
        t # u /\ Active(t) /\ Active(u) => ~SameHolder(t, turns[u].user, turns[u].session)

\* However often a submission is retried, before or after its turn ended, it is
\* one turn.
SubmittedOnce ==
    \A t, u \in DOMAIN turns :
        <<turns[t].env, turns[t].user, turns[t].key>>
            = <<turns[u].env, turns[u].user, turns[u].key>> => t = u

\* The daily turn allowances, and the attempts and tool iterations of a turn,
\* however the turns ended and whichever workers still run for them.
AllowancesHold ==
    \A t \in DOMAIN turns :
        /\ Cardinality({u \in DOMAIN turns :
              <<turns[u].env, turns[u].user, turns[u].day>>
                  = <<turns[t].env, turns[t].user, turns[t].day>>}) <= TurnsPerDay[turns[t].env]
        /\ turns[t].session # NoSession =>
              Cardinality({u \in DOMAIN turns :
                  <<turns[u].session, turns[u].day>>
                      = <<turns[t].session, turns[t].day>>}) <= GuestTurns
        /\ Cardinality({id \in DOMAIN attempts : attempts[id].turn = t}) <= Attempts
        /\ turns[t].tools <= Tools

\* Two turns of guests behind one network begin at least the cooldown apart.
CooldownHolds ==
    \A t, u \in DOMAIN turns :
        /\ t # u /\ turns[t].user = turns[u].user
        /\ turns[t].session # NoSession /\ turns[u].session # NoSession
        => \/ turns[t].startedAt >= turns[u].startedAt + GuestCooldown
           \/ turns[u].startedAt >= turns[t].startedAt + GuestCooldown

\* Once a provider exceeded a reservation, paid work stays off until an
\* administrator switched it on again knowing of that overrun.
OverrunStopsSpending == Overruns \subseteq investigated \/ killed

\* The alerts precede the exposure they warn of: whenever a scope stands at a
\* threshold, the threshold event was recorded, or the overrun that lifted it
\* there was.
AlertsPrecedeExposure ==
    \A s \in Scopes, p \in Thresholds :
        Exposure(s) * 100 >= s.cap * p =>
            \/ \E alert \in alerts : <<alert.scope, alert.threshold>> = <<s, p>>
            \/ \E id \in Members(s) \cap Overruns : OverrunAlert(id) \in alerts

\* A reservation is released by the settlement of its own attempt and by nothing
\* else: not by closing or cancelling the turn, its expiry, a kill switch or a
\* reset; and a settled charge never changes.
LiabilityRetained ==
    [][\A id \in DOMAIN attempts :
         /\ id \in DOMAIN attempts'
         /\ \/ attempts'[id] = attempts[id]
            \/ ~attempts[id].settled /\ attempts'[id].settled]_vars

\* The worker of a turn that was replaced cannot spend: when an attempt is
\* admitted, its holder has no other turn that is active.
ReplacedTurnCannotSpend ==
    [][\A id \in DOMAIN attempts' \ DOMAIN attempts : \A t \in DOMAIN turns :
         /\ t # attempts'[id].turn
         /\ SameHolder(t, attempts'[id].user, attempts'[id].session)
         => ~Active(t)]_vars

-----------------------------------------------------------------------------
(* What callers rely on                                                     *)

\* Seen as the life of submissions, the stored turns, the clock and the limits
\* keep the promise of TurnLedger: one turn for a submission, over for good once
\* it is over, and one at a time for a user.
PhaseOf(s) ==
    LET begun == Submitted(s[1], s[2], s[3])
    IN  IF begun = {} THEN "new"
        ELSE IF \E t \in begun : Active(t) THEN "live" ELSE "over"
SubmissionsOfUsers == Envs \X Users \X Keys
Ledger == INSTANCE TurnLedger WITH
    Submissions <- SubmissionsOfUsers,
    Holder <- [s \in SubmissionsOfUsers |-> s[2]],
    phase <- [s \in SubmissionsOfUsers |-> PhaseOf(s)]
KeepsLedger == Ledger!Spec
=============================================================================
