--------------------------- MODULE Spending_proofs ---------------------------
(***************************************************************************)
(* What holds of the spending authority for every number of users, turns,  *)
(* attempts, environments and prices, and of the calls at the provider,    *)
(* for every value of their constants that ProviderConstants admits.       *)
(***************************************************************************)
EXTENDS Spending, FiniteSetTheorems, TLAPS

-----------------------------------------------------------------------------
(* The spending authority                                                   *)

(***************************************************************************)
(* A charge is a natural number: the price of a reservation and of a       *)
(* report are computed by the same upward rounding.                        *)
(***************************************************************************)
LEMMA ChargeType ==
    ASSUME NEW model \in Models, NEW i \in Nat, NEW o \in Nat
    PROVE  Charge(model, i, o) \in Nat
<1>1. InputRate[model] \in Nat /\ OutputRate[model] \in Nat /\ PriceScale \in Nat \ {0}
  BY CostConstants
<1>2. i * InputRate[model] \in Nat /\ o * OutputRate[model] \in Nat
  BY <1>1
<1>3. (i * InputRate[model] + o * OutputRate[model] + PriceScale - 1) \in Nat
  BY <1>1, <1>2
<1> QED
  BY <1>1, <1>3 DEF Charge

LEMMA DayType ==
    ASSUME NEW t \in Nat
    PROVE  Day(t) \in Nat /\ Month(t) \in Nat
BY CostConstants DEF Day, Month

LEMMA TypeInit == Init => TypeOK
<1> SUFFICES ASSUME Init PROVE TypeOK
  OBVIOUS
<1>1. DOMAIN turns = {} /\ DOMAIN attempts = {}
  BY DEF Init
<1>2. turns \in [DOMAIN turns -> TurnType] /\ attempts \in [DOMAIN attempts -> AttemptType]
  <2>1. \A T : [t \in {} |-> 0] \in [{} -> T]
    OBVIOUS
  <2> QED
    BY <1>1, <2>1 DEF Init
<1>3. killed \in BOOLEAN /\ killedEnvs \subseteq Envs
  BY DEF Init
<1>4. now \in 0..MaxTime
  BY CostConstants DEF Init
<1> QED
  BY <1>1, <1>2, <1>3, <1>4 DEF Init, TypeOK

LEMMA TypeBegin ==
    ASSUME TypeOK,
           NEW t \in TurnIds, NEW env \in Envs, NEW user \in Users, NEW key \in Keys,
           NEW owner \in Owners, NEW session \in Sessions \cup {NoSession},
           BeginTurn(t, env, user, key, owner, session)
    PROVE  TypeOK'
<1>1. now \in Nat /\ now + Deadline \in Nat /\ Day(now) \in Nat
  BY DayType, CostConstants DEF TypeOK
<1>2. turns' \in [DOMAIN turns \cup {t} -> TurnType]
  BY <1>1 DEF TypeOK, BeginTurn, TurnType
<1>3. \A u \in DOMAIN turns : u # t /\ turns'[u] = turns[u]
  BY DEF BeginTurn
<1> QED
  BY <1>2, <1>3 DEF TypeOK, BeginTurn

LEMMA TypeAdmit ==
    ASSUME TypeOK,
           NEW id \in AttemptIds, NEW t \in TurnIds, NEW owner \in Owners,
           NEW model \in Models, NEW tokens \in Requests,
           AdmitAttempt(id, t, owner, model, tokens)
    PROVE  TypeOK'
<1> DEFINE a == NewAttempt(t, model, Charge(model, tokens[1], tokens[2]))
<1>1. tokens[1] \in Nat /\ tokens[2] \in Nat
  BY CostConstants
<1>2. Charge(model, tokens[1], tokens[2]) \in Nat
  BY <1>1, ChargeType
<1>3. now \in Nat /\ Day(now) \in Nat /\ Month(now) \in Nat
  BY DayType, CostConstants DEF TypeOK
<1>4. t \in DOMAIN turns /\ turns[t] \in TurnType
  BY DEF AdmitAttempt, TypeOK
<1>5. a \in AttemptType
  BY <1>2, <1>3, <1>4 DEF NewAttempt, AttemptType, TurnType
<1>6. attempts' = [x \in DOMAIN attempts \cup {id} |-> IF x = id THEN a ELSE attempts[x]]
  BY DEF AdmitAttempt
<1>7. attempts' \in [DOMAIN attempts \cup {id} -> AttemptType]
  BY <1>5, <1>6 DEF TypeOK
<1>8. /\ a.turn = t
      /\ <<a.env, a.user, a.session>> = <<turns[t].env, turns[t].user, turns[t].session>>
  BY DEF NewAttempt
<1> HIDE DEF a
<1> QED
  BY <1>4, <1>6, <1>7, <1>8 DEF TypeOK, AdmitAttempt

LEMMA TypeReconcile ==
    ASSUME TypeOK, NEW id \in AttemptIds, NEW tokens \in Reports, Reconcile(id, tokens)
    PROVE  TypeOK'
<1> DEFINE cost == Charge(attempts[id].model, tokens[1], tokens[2])
<1>1. id \in DOMAIN attempts /\ attempts[id] \in AttemptType
  BY DEF Reconcile, TypeOK
<1>2. cost \in Nat
  BY <1>1, ChargeType, CostConstants DEF AttemptType
<1>3. attempts' = [attempts EXCEPT ![id].charge = cost, ![id].settled = TRUE]
  BY DEF Reconcile
<1>4. killed' \in BOOLEAN
  BY DEF Reconcile, Exceeds
<1> HIDE DEF cost
<1>5. attempts' \in [DOMAIN attempts -> AttemptType]
  BY <1>1, <1>2, <1>3 DEF TypeOK, AttemptType
<1>6. \A x \in DOMAIN attempts :
        /\ attempts'[x].turn = attempts[x].turn
        /\ attempts'[x].env = attempts[x].env
        /\ attempts'[x].user = attempts[x].user
        /\ attempts'[x].session = attempts[x].session
  BY <1>1, <1>3 DEF TypeOK, AttemptType
<1> QED
  BY <1>3, <1>4, <1>5, <1>6 DEF TypeOK, Reconcile

LEMMA TypeStep == TypeOK /\ [Next]_vars => TypeOK'
<1> SUFFICES ASSUME TypeOK, [Next]_vars PROVE TypeOK'
  OBVIOUS
<1>1. CASE UNCHANGED vars
  BY <1>1 DEF vars, TypeOK
<1>2. ASSUME NEW t \in TurnIds, NEW owner \in Owners,
             FinishTurn(t, owner) \/ ToolIteration(t, owner)
      PROVE  TypeOK'
  <2>1. t \in DOMAIN turns /\ turns[t] \in TurnType
    BY <1>2 DEF FinishTurn, ToolIteration, TypeOK
  <2>2. turns' \in [DOMAIN turns -> TurnType]
    <3>1. [turns[t] EXCEPT !.closed = TRUE] \in TurnType
      BY <2>1 DEF TurnType
    <3>2. [turns[t] EXCEPT !.tools = @ + 1] \in TurnType
      BY <2>1 DEF TurnType
    <3>3. turns' = [turns EXCEPT ![t] = [turns[t] EXCEPT !.closed = TRUE]]
          \/ turns' = [turns EXCEPT ![t] = [turns[t] EXCEPT !.tools = @ + 1]]
      BY <1>2 DEF FinishTurn, ToolIteration
    <3> QED
      BY <2>1, <3>1, <3>2, <3>3 DEF TypeOK
  <2>3. \A u \in DOMAIN turns : /\ turns'[u].env = turns[u].env
                               /\ turns'[u].user = turns[u].user
                               /\ turns'[u].session = turns[u].session
    BY <1>2, <2>1 DEF FinishTurn, ToolIteration, TypeOK, TurnType
  <2> QED
    BY <1>2, <2>2, <2>3 DEF FinishTurn, ToolIteration, TypeOK
<1>3. ASSUME NEW enabled \in BOOLEAN, SetKillSwitch(enabled)
      PROVE  TypeOK'
  BY <1>3 DEF SetKillSwitch, Overruns, TypeOK
<1>4. ASSUME NEW env \in Envs, NEW enabled \in BOOLEAN, SetEnvironmentSwitch(env, enabled)
      PROVE  TypeOK'
  BY <1>4 DEF SetEnvironmentSwitch, TypeOK
<1>5. ASSUME Tick PROVE TypeOK'
  BY <1>5, CostConstants DEF Tick, TypeOK
<1> QED
  BY <1>1, <1>2, <1>3, <1>4, <1>5, TypeBegin, TypeAdmit, TypeReconcile DEF Next

(***************************************************************************)
(* Type correctness: whatever the callers do, in whatever order, each      *)
(* attempt names a turn the authority knows and carries its environment,   *)
(* user and guest session (reconcile and AttemptReceipt rely on it).       *)
(***************************************************************************)
THEOREM TypeCorrect == Spec => []TypeOK
<1>1. Init => TypeOK
  BY TypeInit
<1>2. TypeOK /\ [Next]_vars => TypeOK'
  BY TypeStep
<1> QED
  BY <1>1, <1>2, PTL DEF Spec

-----------------------------------------------------------------------------
\* The steps that concern the attempts: all others leave them and the alerts alone.
LEMMA AttemptCases ==
    ASSUME [Next]_vars
    PROVE  \/ UNCHANGED <<attempts, alerts>>
           \/ \E x \in AttemptIds, t \in TurnIds, owner \in Owners, model \in Models,
                 tokens \in Requests : AdmitAttempt(x, t, owner, model, tokens)
           \/ \E x \in AttemptIds, tokens \in Reports : Reconcile(x, tokens)
<1>1. ASSUME NEW t \in TurnIds, NEW env \in Envs, NEW user \in Users, NEW key \in Keys,
             NEW owner \in Owners, NEW session \in Sessions \cup {NoSession},
             BeginTurn(t, env, user, key, owner, session)
      PROVE  UNCHANGED <<attempts, alerts>>
  BY <1>1 DEF BeginTurn
<1>2. ASSUME NEW t \in TurnIds, NEW owner \in Owners,
             FinishTurn(t, owner) \/ ToolIteration(t, owner)
      PROVE  UNCHANGED <<attempts, alerts>>
  BY <1>2 DEF FinishTurn, ToolIteration
<1>3. ASSUME NEW enabled \in BOOLEAN,
             SetKillSwitch(enabled) \/ \E env \in Envs : SetEnvironmentSwitch(env, enabled)
      PROVE  UNCHANGED <<attempts, alerts>>
  BY <1>3 DEF SetKillSwitch, SetEnvironmentSwitch
<1>4. ASSUME Tick \/ UNCHANGED vars
      PROVE  UNCHANGED <<attempts, alerts>>
  BY <1>4 DEF Tick, vars
<1> QED
  BY <1>1, <1>2, <1>3, <1>4 DEF Next

-----------------------------------------------------------------------------
(***************************************************************************)
(* CapsHold is not inductive: it says nothing of how a scope is composed.  *)
(* The inductive invariant counts every attempt at no more than its bound: *)
(* counted so, a scope never exceeds its cap at all, and where no attempt  *)
(* exceeds its bound, the count is the exposure.                           *)
(***************************************************************************)
Counted(a) == IF a.charge <= a.bound THEN a.charge ELSE a.bound

Units(id, n) == {id} \X (1..n)

SpentUnits(s) == UNION {Units(id, attempts[id].charge) : id \in Members(s)}
CountedUnits(s) == UNION {Units(id, Counted(attempts[id])) : id \in Members(s)}
AllUnits == UNION {Units(id, attempts[id].charge) : id \in DOMAIN attempts}

CapInv ==
    /\ TypeOK
    /\ IsFiniteSet(AllUnits)
    /\ \A id \in DOMAIN attempts :
         ~attempts[id].settled => attempts[id].charge = attempts[id].bound
    /\ \A s \in Scopes : Cardinality(CountedUnits(s)) <= s.cap

LEMMA UnitsCount ==
    ASSUME NEW id, NEW n \in Nat
    PROVE  IsFiniteSet(Units(id, n)) /\ Cardinality(Units(id, n)) = n
<1>1. IsFiniteSet({id}) /\ Cardinality({id}) = 1
  BY FS_Singleton
<1>2. IsFiniteSet(1..n) /\ Cardinality(1..n) = n
  BY FS_Interval
<1>3. /\ IsFiniteSet({id} \X (1..n))
      /\ Cardinality({id} \X (1..n)) = Cardinality({id}) * Cardinality(1..n)
  BY <1>1, <1>2, FS_Product, Zenon
<1>4. Cardinality({id}) * Cardinality(1..n) = n
  BY <1>1, <1>2
<1> QED
  BY <1>3, <1>4 DEF Units

LEMMA CapType ==
    ASSUME NEW a \in AttemptType, NEW s \in ScopesOf(a)
    PROVE  s.cap \in Nat
BY CostConstants DEF ScopesOf, AttemptType

LEMMA SameScopes ==
    ASSUME NEW a, NEW b,
           <<a.turn, a.env, a.user, a.day, a.month, a.session>>
             = <<b.turn, b.env, b.user, b.day, b.month, b.session>>
    PROVE  ScopesOf(a) = ScopesOf(b)
BY DEF ScopesOf

\* The counted units of a scope are among its spent ones, which are finite.
LEMMA CountedWithinSpent ==
    ASSUME CapInv, NEW s
    PROVE  /\ CountedUnits(s) \subseteq SpentUnits(s)
           /\ SpentUnits(s) \subseteq AllUnits
           /\ IsFiniteSet(SpentUnits(s)) /\ IsFiniteSet(CountedUnits(s))
           /\ Cardinality(SpentUnits(s)) \in Nat /\ Cardinality(CountedUnits(s)) \in Nat
           /\ Cardinality(CountedUnits(s)) <= Cardinality(SpentUnits(s))
<1>1. \A id \in DOMAIN attempts :
        /\ attempts[id].charge \in Nat /\ Counted(attempts[id]) \in Nat
        /\ Counted(attempts[id]) <= attempts[id].charge
  BY DEF CapInv, TypeOK, AttemptType, Counted
<1>2. \A id \in DOMAIN attempts :
        Units(id, Counted(attempts[id])) \subseteq Units(id, attempts[id].charge)
  BY <1>1 DEF Units
<1>3. CountedUnits(s) \subseteq SpentUnits(s) /\ SpentUnits(s) \subseteq AllUnits
  BY <1>2 DEF CountedUnits, SpentUnits, AllUnits, Members
<1>4. IsFiniteSet(SpentUnits(s))
  BY <1>3, FS_Subset DEF CapInv
<1>5. IsFiniteSet(CountedUnits(s)) /\ Cardinality(CountedUnits(s)) <= Cardinality(SpentUnits(s))
  BY <1>3, <1>4, FS_Subset
<1> QED
  BY <1>3, <1>4, <1>5, FS_CardinalityType

LEMMA ExposureIsSpent ==
    ASSUME NEW s
    PROVE  Exposure(s) = Cardinality(SpentUnits(s))
BY DEF Exposure, SpentUnits, Units

LEMMA CapImplies == CapInv => CapsHold
<1> SUFFICES ASSUME CapInv, NEW s \in Scopes, Members(s) \cap Overruns = {}
             PROVE  ~(Exposure(s) > s.cap)
  BY DEF CapsHold
<1>1. \A id \in Members(s) : Counted(attempts[id]) = attempts[id].charge
  BY DEF Members, Overruns, CapInv, TypeOK, AttemptType, Counted
<1>2. CountedUnits(s) = SpentUnits(s)
  BY <1>1 DEF CountedUnits, SpentUnits
<1>3. Cardinality(SpentUnits(s)) <= s.cap /\ Cardinality(SpentUnits(s)) \in Nat
  BY <1>2, CountedWithinSpent DEF CapInv
<1>4. s.cap \in Nat
  BY CapType DEF Scopes, CapInv, TypeOK
<1> QED
  BY <1>3, <1>4, ExposureIsSpent

LEMMA CapAdmit ==
    ASSUME CapInv, TypeOK',
           NEW id \in AttemptIds, NEW t \in TurnIds, NEW owner \in Owners,
           NEW model \in Models, NEW tokens \in Requests,
           AdmitAttempt(id, t, owner, model, tokens)
    PROVE  CapInv'
<1> DEFINE a == NewAttempt(t, model, Charge(model, tokens[1], tokens[2]))
<1>1. /\ id \notin DOMAIN attempts
      /\ attempts' = [x \in DOMAIN attempts \cup {id} |-> IF x = id THEN a ELSE attempts[x]]
      /\ WithinLimits(a)
  BY DEF AdmitAttempt
<1>2. a.charge = a.bound /\ a.settled = FALSE
  BY DEF NewAttempt
<1> HIDE DEF a
<1>3. a \in AttemptType /\ a.bound \in Nat /\ Counted(a) = a.bound
  BY <1>1, <1>2 DEF TypeOK, AttemptType, Counted
<1>4. DOMAIN attempts' = DOMAIN attempts \cup {id} /\ attempts'[id] = a
      /\ \A x \in DOMAIN attempts : x # id /\ attempts'[x] = attempts[x]
  BY <1>1
<1>5. IsFiniteSet(Units(id, a.bound)) /\ Cardinality(Units(id, a.bound)) = a.bound
  BY <1>3, UnitsCount
<1>6. AllUnits' = AllUnits \cup Units(id, a.bound)
  BY <1>2, <1>4 DEF AllUnits
<1>7. IsFiniteSet(AllUnits')
  BY <1>5, <1>6, FS_Union DEF CapInv
<1>8. ASSUME NEW s \in Scopes'
      PROVE  Cardinality(CountedUnits(s)') <= s.cap
  <2>1. CASE s \in ScopesOf(a)
    <3>1. CountedUnits(s)' = CountedUnits(s) \cup Units(id, a.bound)
      BY <1>3, <1>4, <2>1 DEF CountedUnits, Members
    <3>2. Exposure(s) + a.bound <= s.cap
      BY <1>1, <2>1 DEF WithinLimits, ExposureWith
    <3>3. s.cap \in Nat
      BY <1>3, <2>1, CapType
    <3>4. Cardinality(CountedUnits(s)') =
            Cardinality(CountedUnits(s)) + a.bound - Cardinality(CountedUnits(s) \cap Units(id, a.bound))
      BY <1>5, <3>1, CountedWithinSpent, FS_Union
    <3>5. Cardinality(CountedUnits(s) \cap Units(id, a.bound)) \in Nat
      BY CountedWithinSpent, FS_Intersection, FS_CardinalityType
    <3> QED
      BY <1>3, <3>2, <3>3, <3>4, <3>5, CountedWithinSpent, ExposureIsSpent
  <2>2. CASE s \notin ScopesOf(a)
    <3>1. CountedUnits(s)' = CountedUnits(s)
      BY <1>4, <2>2 DEF CountedUnits, Members
    <3>2. s \in Scopes
      BY <1>4, <2>2 DEF Scopes
    <3> QED
      BY <3>1, <3>2 DEF CapInv
  <2> QED
    BY <2>1, <2>2
<1>9. \A x \in DOMAIN attempts' : ~attempts'[x].settled => attempts'[x].charge = attempts'[x].bound
  BY <1>2, <1>4 DEF CapInv
<1> QED
  BY <1>7, <1>8, <1>9 DEF CapInv

LEMMA CapReconcile ==
    ASSUME CapInv, TypeOK', NEW id \in AttemptIds, NEW tokens \in Reports, Reconcile(id, tokens)
    PROVE  CapInv'
<1> DEFINE cost == Charge(attempts[id].model, tokens[1], tokens[2])
<1>1. /\ id \in DOMAIN attempts /\ attempts[id] \in AttemptType
      /\ attempts[id].charge = attempts[id].bound
      /\ attempts' = [attempts EXCEPT ![id].charge = cost, ![id].settled = TRUE]
  BY DEF Reconcile, CapInv, TypeOK
<1>2. cost \in Nat
  BY <1>1, ChargeType, CostConstants DEF AttemptType
<1> HIDE DEF cost
<1>3. /\ DOMAIN attempts' = DOMAIN attempts
      /\ \A x \in DOMAIN attempts : x # id => attempts'[x] = attempts[x]
      /\ attempts'[id].charge = cost /\ attempts'[id].bound = attempts[id].bound
      /\ attempts'[id].settled
      /\ <<attempts'[id].turn, attempts'[id].env, attempts'[id].user,
           attempts'[id].day, attempts'[id].month, attempts'[id].session>>
         = <<attempts[id].turn, attempts[id].env, attempts[id].user,
             attempts[id].day, attempts[id].month, attempts[id].session>>
  BY <1>1 DEF CapInv, TypeOK, AttemptType
<1>4. \A x \in DOMAIN attempts : ScopesOf(attempts'[x]) = ScopesOf(attempts[x])
  BY <1>3, SameScopes
<1>5. Scopes' = Scopes /\ \A s : Members(s)' = Members(s)
  BY <1>3, <1>4 DEF Scopes, Members
<1>6. Counted(attempts[id]) = attempts[id].bound
      /\ Counted(attempts'[id]) <= attempts[id].bound
      /\ Counted(attempts'[id]) \in Nat /\ attempts[id].bound \in Nat
  BY <1>1, <1>2, <1>3 DEF Counted, AttemptType
<1>7. \A x \in DOMAIN attempts :
        Units(x, Counted(attempts'[x])) \subseteq Units(x, Counted(attempts[x]))
  BY <1>3, <1>6 DEF Units
<1>8. ASSUME NEW s \in Scopes
      PROVE  Cardinality(CountedUnits(s)') <= s.cap
  <2>1. CountedUnits(s)' \subseteq CountedUnits(s)
    BY <1>5, <1>7 DEF CountedUnits, Members
  <2>2. Cardinality(CountedUnits(s)') <= Cardinality(CountedUnits(s))
        /\ Cardinality(CountedUnits(s)') \in Nat
    BY <2>1, CountedWithinSpent, FS_Subset, FS_CardinalityType
  <2>3. s.cap \in Nat /\ Cardinality(CountedUnits(s)) <= s.cap
    BY CapType DEF Scopes, CapInv, TypeOK
  <2> QED
    BY <2>2, <2>3, CountedWithinSpent
<1>9. IsFiniteSet(AllUnits')
  <2>1. AllUnits' \subseteq AllUnits \cup Units(id, cost)
    BY <1>3 DEF AllUnits
  <2>2. IsFiniteSet(AllUnits \cup Units(id, cost))
    BY <1>2, UnitsCount, FS_Union DEF CapInv
  <2> QED
    BY <2>1, <2>2, FS_Subset
<1>10. \A x \in DOMAIN attempts' :
         ~attempts'[x].settled => attempts'[x].charge = attempts'[x].bound
  BY <1>3 DEF CapInv
<1> QED
  BY <1>5, <1>8, <1>9, <1>10 DEF CapInv

LEMMA CapSame ==
    ASSUME CapInv, TypeOK', UNCHANGED attempts
    PROVE  CapInv'
<1>1. Scopes' = Scopes /\ AllUnits' = AllUnits /\ \A s : CountedUnits(s)' = CountedUnits(s)
  BY DEF Scopes, AllUnits, CountedUnits, Members
<1> QED
  BY <1>1 DEF CapInv

(***************************************************************************)
(* The budgets: over every scope, spent plus reserved stays within the cap *)
(* unless a provider reported more than it was reserved, for all prices,   *)
(* caps and any number of concurrent workers and turns.                    *)
(***************************************************************************)
THEOREM BudgetsHold == Spec => []CapsHold
<1>1. Init => CapInv
  <2> SUFFICES ASSUME Init PROVE CapInv
    OBVIOUS
  <2>1. DOMAIN attempts = {}
    BY DEF Init
  <2>2. Scopes = {} /\ AllUnits = {}
    BY <2>1 DEF Scopes, AllUnits
  <2> QED
    BY <2>1, <2>2, TypeInit, FS_EmptySet DEF CapInv
<1>2. CapInv /\ [Next]_vars => CapInv'
  <2> SUFFICES ASSUME CapInv, [Next]_vars PROVE CapInv'
    OBVIOUS
  <2>1. TypeOK'
    BY TypeStep DEF CapInv
  <2>2. CASE UNCHANGED attempts
    BY <2>1, <2>2, CapSame
  <2>3. ASSUME NEW id \in AttemptIds, NEW t \in TurnIds, NEW owner \in Owners,
               NEW model \in Models, NEW tokens \in Requests,
               AdmitAttempt(id, t, owner, model, tokens)
        PROVE  CapInv'
    BY <2>1, <2>3, CapAdmit
  <2>4. ASSUME NEW id \in AttemptIds, NEW tokens \in Reports, Reconcile(id, tokens)
        PROVE  CapInv'
    BY <2>1, <2>4, CapReconcile
  <2> QED
    BY <2>2, <2>3, <2>4, AttemptCases
<1> QED
  BY <1>1, <1>2, CapImplies, PTL DEF Spec

-----------------------------------------------------------------------------
(* Turns.  Each invariant below is inductive together with TypeOK: a step    *)
(* that begins no turn leaves the identity of every turn alone and can only  *)
(* end its activity.                                                         *)

\* What a step that begins no turn does to the turns.
Ageing ==
    /\ DOMAIN turns' = DOMAIN turns
    /\ now' >= now
    /\ \A t \in DOMAIN turns :
         /\ turns'[t].user = turns[t].user /\ turns'[t].session = turns[t].session
         /\ turns'[t].env = turns[t].env /\ turns'[t].key = turns[t].key
         /\ turns'[t].day = turns[t].day /\ turns'[t].startedAt = turns[t].startedAt
         /\ turns'[t].deadline = turns[t].deadline
         /\ turns[t].closed => turns'[t].closed

Begins == \E t \in TurnIds, env \in Envs, user \in Users, key \in Keys, owner \in Owners,
             session \in Sessions \cup {NoSession} : BeginTurn(t, env, user, key, owner, session)

LEMMA StepAgesOrBegins ==
    ASSUME TypeOK, [Next]_vars
    PROVE  Ageing \/ Begins
<1>1. ASSUME NEW t \in TurnIds, NEW owner \in Owners,
             FinishTurn(t, owner) \/ ToolIteration(t, owner)
      PROVE  Ageing
  <2>1. t \in DOMAIN turns /\ turns[t] \in TurnType
    BY <1>1 DEF FinishTurn, ToolIteration, TypeOK
  <2>2. now' = now /\ now \in Nat
    BY <1>1, CostConstants DEF FinishTurn, ToolIteration, TypeOK
  <2>3. turns' = [turns EXCEPT ![t].closed = TRUE]
        \/ turns' = [turns EXCEPT ![t].tools = @ + 1]
    BY <1>1 DEF FinishTurn, ToolIteration
  <2> QED
    BY <2>1, <2>2, <2>3 DEF Ageing, TypeOK, TurnType
<1>2. CASE UNCHANGED turns /\ now' >= now
  BY <1>2 DEF Ageing
<1>3. now \in Nat
  BY CostConstants DEF TypeOK
<1>4. CASE Tick
  BY <1>2, <1>3, <1>4 DEF Tick
<1>5. CASE UNCHANGED <<turns, now>>
  BY <1>2, <1>3, <1>5
<1>6. ASSUME NEW id \in AttemptIds, NEW t \in TurnIds, NEW owner \in Owners,
             NEW model \in Models, NEW tokens \in Requests,
             AdmitAttempt(id, t, owner, model, tokens)
      PROVE  UNCHANGED <<turns, now>>
  BY <1>6 DEF AdmitAttempt
<1>7. ASSUME NEW id \in AttemptIds, NEW tokens \in Reports, Reconcile(id, tokens)
      PROVE  UNCHANGED <<turns, now>>
  BY <1>7 DEF Reconcile
<1>8. ASSUME NEW enabled \in BOOLEAN,
             SetKillSwitch(enabled) \/ \E env \in Envs : SetEnvironmentSwitch(env, enabled)
      PROVE  UNCHANGED <<turns, now>>
  BY <1>8 DEF SetKillSwitch, SetEnvironmentSwitch
<1>9. CASE UNCHANGED vars
  BY <1>5, <1>9 DEF vars
<1> QED
  BY <1>1, <1>4, <1>5, <1>6, <1>7, <1>8, <1>9 DEF Next, Begins

LEMMA OneActiveAges ==
    ASSUME TypeOK, OneActiveTurn, Ageing, now' \in Nat
    PROVE  OneActiveTurn'
<1>1. \A t \in DOMAIN turns : Active(t)' => Active(t)
  BY CostConstants DEF Ageing, Active, TypeOK, TurnType
<1> QED
  BY <1>1 DEF Ageing, OneActiveTurn, SameHolder

LEMMA OneActiveBegins ==
    ASSUME TypeOK, OneActiveTurn,
           NEW t \in TurnIds, NEW env \in Envs, NEW user \in Users, NEW key \in Keys,
           NEW owner \in Owners, NEW session \in Sessions \cup {NoSession},
           BeginTurn(t, env, user, key, owner, session)
    PROVE  OneActiveTurn'
<1>1. /\ DOMAIN turns' = DOMAIN turns \cup {t} /\ t \notin DOMAIN turns
      /\ turns'[t].user = user /\ turns'[t].session = session
      /\ \A u \in DOMAIN turns : turns'[u] = turns[u]
      /\ now' = now
  BY DEF BeginTurn
<1>2. \A u \in DOMAIN turns : (Active(u)' <=> Active(u))
  BY <1>1 DEF Active
<1>3. \A u \in DOMAIN turns : SameHolder(u, user, session) => ~Active(u)
  BY DEF BeginTurn, NoActiveTurn
<1> QED
  BY <1>1, <1>2, <1>3 DEF OneActiveTurn, SameHolder

(***************************************************************************)
(* Exclusion: for any number of workers and deployments, at most one turn  *)
(* of a user, and of a guest session, can spend at any time.               *)
(***************************************************************************)
THEOREM Exclusion == Spec => []OneActiveTurn
<1>1. Init => TypeOK /\ OneActiveTurn
  BY TypeInit DEF Init, OneActiveTurn
<1>2. TypeOK /\ OneActiveTurn /\ [Next]_vars => (TypeOK /\ OneActiveTurn)'
  <2> SUFFICES ASSUME TypeOK, OneActiveTurn, [Next]_vars
               PROVE  TypeOK' /\ OneActiveTurn'
    OBVIOUS
  <2>1. TypeOK' /\ now' \in Nat
    BY TypeStep DEF TypeOK
  <2> QED
    BY <2>1, StepAgesOrBegins, OneActiveAges, OneActiveBegins DEF Begins
<1> QED
  BY <1>1, <1>2, PTL DEF Spec

(***************************************************************************)
(* Deduplication: a submission is one turn, however it is retried.         *)
(***************************************************************************)
THEOREM Deduplication == Spec => []SubmittedOnce
<1>1. Init => TypeOK /\ SubmittedOnce
  BY TypeInit DEF Init, SubmittedOnce
<1>2. TypeOK /\ SubmittedOnce /\ [Next]_vars => (TypeOK /\ SubmittedOnce)'
  <2> SUFFICES ASSUME TypeOK, SubmittedOnce, [Next]_vars
               PROVE  SubmittedOnce'
    BY TypeStep
  <2>1. CASE Ageing
    BY <2>1 DEF Ageing, SubmittedOnce
  <2>2. ASSUME NEW t \in TurnIds, NEW env \in Envs, NEW user \in Users, NEW key \in Keys,
               NEW owner \in Owners, NEW session \in Sessions \cup {NoSession},
               BeginTurn(t, env, user, key, owner, session)
        PROVE  SubmittedOnce'
    <3>1. /\ DOMAIN turns' = DOMAIN turns \cup {t} /\ t \notin DOMAIN turns
          /\ turns'[t].env = env /\ turns'[t].user = user /\ turns'[t].key = key
          /\ \A u \in DOMAIN turns : turns'[u] = turns[u]
          /\ Submitted(env, user, key) = {}
      BY <2>2 DEF BeginTurn
    <3> QED
      BY <3>1 DEF SubmittedOnce, Submitted
  <2> QED
    BY <2>1, <2>2, StepAgesOrBegins DEF Begins
<1> QED
  BY <1>1, <1>2, PTL DEF Spec

(***************************************************************************)
(* Fencing: an attempt is admitted only to the one turn of its holder that *)
(* is active, so the worker of a replaced turn spends nothing more.        *)
(***************************************************************************)
THEOREM Fencing == Spec => ReplacedTurnCannotSpend
<1> DEFINE Alone ==
      \A id \in DOMAIN attempts' \ DOMAIN attempts : \A t \in DOMAIN turns :
         /\ t # attempts'[id].turn
         /\ SameHolder(t, attempts'[id].user, attempts'[id].session)
         => ~Active(t)
<1>1. OneActiveTurn /\ [Next]_vars => [Alone]_vars
  <2> SUFFICES ASSUME OneActiveTurn, Next PROVE Alone
    OBVIOUS
  <2>1. CASE DOMAIN attempts' = DOMAIN attempts
    BY <2>1
  <2>2. ASSUME NEW id \in AttemptIds, NEW t \in TurnIds, NEW owner \in Owners,
               NEW model \in Models, NEW tokens \in Requests,
               AdmitAttempt(id, t, owner, model, tokens)
        PROVE  Alone
    <3>1. DOMAIN attempts' = DOMAIN attempts \cup {id}
      BY <2>2 DEF AdmitAttempt
    <3>2. /\ attempts'[id].turn = t /\ attempts'[id].user = turns[t].user
          /\ attempts'[id].session = turns[t].session
      BY <2>2 DEF AdmitAttempt, NewAttempt
    <3>3. t \in DOMAIN turns /\ Active(t)
      BY <2>2 DEF AdmitAttempt, Live
    <3> QED
      BY <3>1, <3>2, <3>3 DEF OneActiveTurn, SameHolder
  <2>3. ASSUME NEW id \in AttemptIds, NEW tokens \in Reports, Reconcile(id, tokens)
        PROVE  Alone
    BY <2>1, <2>3 DEF Reconcile
  <2> QED
    BY <2>1, <2>2, <2>3, AttemptCases
<1> QED
  BY <1>1, Exclusion, PTL DEF Spec, ReplacedTurnCannotSpend

-----------------------------------------------------------------------------
(* Charges and overruns                                                     *)

\* What a step does to the attempts: admit one at its bound, settle one, or
\* nothing.
LEMMA AttemptStep ==
    ASSUME TypeOK, [Next]_vars, NEW id \in DOMAIN attempts
    PROVE  /\ id \in DOMAIN attempts'
           /\ \/ attempts'[id] = attempts[id]
              \/ /\ ~attempts[id].settled /\ attempts'[id].settled
                 /\ attempts'[id].bound = attempts[id].bound
                 /\ attempts'[id].charge > attempts'[id].bound => killed'
<1>1. CASE UNCHANGED attempts
  BY <1>1
<1>2. ASSUME NEW x \in AttemptIds, NEW t \in TurnIds, NEW owner \in Owners,
             NEW model \in Models, NEW tokens \in Requests,
             AdmitAttempt(x, t, owner, model, tokens)
      PROVE  id \in DOMAIN attempts' /\ attempts'[id] = attempts[id]
  BY <1>2 DEF AdmitAttempt
<1>3. ASSUME NEW x \in AttemptIds, NEW tokens \in Reports, Reconcile(x, tokens)
      PROVE  /\ id \in DOMAIN attempts'
             /\ \/ attempts'[id] = attempts[id]
                \/ /\ ~attempts[id].settled /\ attempts'[id].settled
                   /\ attempts'[id].bound = attempts[id].bound
                   /\ attempts'[id].charge > attempts'[id].bound => killed'
  <2> DEFINE cost == Charge(attempts[x].model, tokens[1], tokens[2])
  <2>1. /\ x \in DOMAIN attempts /\ ~attempts[x].settled
        /\ attempts' = [attempts EXCEPT ![x].charge = cost, ![x].settled = TRUE]
        /\ killed' = (killed \/ cost > attempts[x].bound)
    BY <1>3 DEF Reconcile, Exceeds
  <2>2. attempts[x] \in AttemptType
    BY <2>1 DEF TypeOK
  <2> HIDE DEF cost
  <2> QED
    BY <2>1, <2>2 DEF AttemptType
<1> QED
  BY <1>1, <1>2, <1>3, AttemptCases

(***************************************************************************)
(* Liability: no step but the settlement of an attempt changes its charge, *)
(* and a settled charge is final; no attempt is ever forgotten.            *)
(***************************************************************************)
THEOREM Liability == Spec => LiabilityRetained
<1> DEFINE Retained ==
      \A id \in DOMAIN attempts :
         /\ id \in DOMAIN attempts'
         /\ \/ attempts'[id] = attempts[id]
            \/ ~attempts[id].settled /\ attempts'[id].settled
<1>1. TypeOK /\ [Next]_vars => [Retained]_vars
  BY AttemptStep
<1> QED
  BY <1>1, TypeCorrect, PTL DEF Spec, LiabilityRetained

(***************************************************************************)
(* Overruns: from the report of an overrun until an administrator switches *)
(* spending on again, the global kill switch is set.                       *)
(***************************************************************************)
THEOREM OverrunsStop == Spec => []OverrunStopsSpending
<1>1. Init => OverrunStopsSpending
  <2> SUFFICES ASSUME Init PROVE Overruns = {}
    BY DEF OverrunStopsSpending
  <2>1. DOMAIN attempts = {}
    BY DEF Init
  <2> QED
    BY <2>1 DEF Overruns
<1>2. TypeOK /\ TypeOK' /\ OverrunStopsSpending /\ [Next]_vars => OverrunStopsSpending'
  <2> SUFFICES ASSUME TypeOK, TypeOK', OverrunStopsSpending, [Next]_vars, ~killed'
               PROVE  Overruns' \subseteq investigated'
    BY DEF OverrunStopsSpending
  <2>1. Overruns' \subseteq Overruns
    <3> SUFFICES ASSUME NEW id \in DOMAIN attempts', attempts'[id].charge > attempts'[id].bound
                 PROVE  id \in Overruns
      BY DEF Overruns
    <3>1. CASE id \in DOMAIN attempts
      BY <3>1, AttemptStep DEF Overruns
    <3>2. CASE id \notin DOMAIN attempts
      <4>1. PICK t, model, bound : attempts'[id] = NewAttempt(t, model, bound)
        <5>1. ASSUME NEW x \in AttemptIds, NEW tokens \in Reports, Reconcile(x, tokens)
              PROVE  FALSE
          BY <3>2, <5>1 DEF Reconcile
        <5>2. PICK x \in AttemptIds, t \in TurnIds, owner \in Owners, model \in Models,
                   tokens \in Requests : AdmitAttempt(x, t, owner, model, tokens)
          BY <3>2, <5>1, AttemptCases
        <5>3. attempts'[id] = NewAttempt(t, model, Charge(model, tokens[1], tokens[2]))
          BY <3>2, <5>2 DEF AdmitAttempt
        <5> QED
          BY <5>3
      <4>2. attempts'[id].charge = attempts'[id].bound
        BY <4>1 DEF NewAttempt
      <4>3. attempts'[id].bound \in Nat
        BY DEF TypeOK, AttemptType
      <4> QED
        BY <4>2, <4>3
    <3> QED
      BY <3>1, <3>2
  <2>2. CASE \E enabled \in BOOLEAN : SetKillSwitch(enabled)
    BY <2>1, <2>2 DEF SetKillSwitch
  <2>3. CASE UNCHANGED investigated /\ (killed => killed')
    BY <2>1, <2>3 DEF OverrunStopsSpending
  <2>4. ASSUME NEW x \in AttemptIds, NEW tokens \in Reports, Reconcile(x, tokens)
        PROVE  UNCHANGED investigated /\ (killed => killed')
    BY <2>4 DEF Reconcile
  <2>5. ASSUME NEW x \in AttemptIds, NEW t \in TurnIds, NEW owner \in Owners,
               NEW model \in Models, NEW tokens \in Requests,
               AdmitAttempt(x, t, owner, model, tokens)
        PROVE  UNCHANGED investigated /\ (killed => killed')
    BY <2>5 DEF AdmitAttempt
  <2>6. ASSUME NEW t \in TurnIds, NEW owner \in Owners,
               FinishTurn(t, owner) \/ ToolIteration(t, owner)
        PROVE  UNCHANGED investigated /\ (killed => killed')
    BY <2>6 DEF FinishTurn, ToolIteration
  <2>7. ASSUME Begins
        PROVE  UNCHANGED investigated /\ (killed => killed')
    BY <2>7 DEF Begins, BeginTurn
  <2>8. ASSUME Tick \/ UNCHANGED vars
        PROVE  UNCHANGED investigated /\ (killed => killed')
    BY <2>8 DEF Tick, vars
  <2>9. ASSUME NEW env \in Envs, NEW enabled \in BOOLEAN, SetEnvironmentSwitch(env, enabled)
        PROVE  UNCHANGED investigated /\ (killed => killed')
    BY <2>9 DEF SetEnvironmentSwitch
  <2> QED
    BY <2>2, <2>3, <2>4, <2>5, <2>6, <2>7, <2>8, <2>9 DEF Next, Begins
<1> QED
  BY <1>1, <1>2, TypeCorrect, PTL DEF Spec

-----------------------------------------------------------------------------
(***************************************************************************)
(* The cooldown: two turns of guests behind one network begin at least the *)
(* cooldown apart, although begin_turn looks at one session at a time.     *)
(***************************************************************************)
THEOREM Cooldown == Spec => []CooldownHolds
<1>1. Init => CooldownHolds
  BY DEF Init, CooldownHolds
<1>2. TypeOK /\ CooldownHolds /\ [Next]_vars => CooldownHolds'
  <2> SUFFICES ASSUME TypeOK, CooldownHolds, [Next]_vars
               PROVE  CooldownHolds'
    OBVIOUS
  <2>1. CASE Ageing
    BY <2>1 DEF Ageing, CooldownHolds
  <2>2. ASSUME NEW t \in TurnIds, NEW env \in Envs, NEW user \in Users, NEW key \in Keys,
               NEW owner \in Owners, NEW session \in Sessions \cup {NoSession},
               BeginTurn(t, env, user, key, owner, session)
        PROVE  CooldownHolds'
    <3>1. /\ DOMAIN turns' = DOMAIN turns \cup {t}
          /\ turns'[t].user = user /\ turns'[t].session = session /\ turns'[t].startedAt = now
          /\ \A u \in DOMAIN turns : turns'[u] = turns[u] /\ u # t
      BY <2>2 DEF BeginTurn
    <3>2. \A u \in DOMAIN turns :
            session # NoSession /\ turns[u].user = user /\ turns[u].session # NoSession
              => now >= turns[u].startedAt + GuestCooldown
      BY <2>2 DEF BeginTurn, GuestMayBegin, CooledDown
    <3> QED
      BY <3>1, <3>2 DEF CooldownHolds
  <2> QED
    BY <2>1, <2>2, StepAgesOrBegins DEF Begins
<1> QED
  BY <1>1, <1>2, TypeCorrect, PTL DEF Spec

-----------------------------------------------------------------------------
\* What AllowancesHold counts.
OfUser(t) == {u \in DOMAIN turns : <<turns[u].env, turns[u].user, turns[u].day>>
                                     = <<turns[t].env, turns[t].user, turns[t].day>>}
OfSession(t) == {u \in DOMAIN turns : <<turns[u].session, turns[u].day>>
                                        = <<turns[t].session, turns[t].day>>}

AllowInv ==
    /\ TypeOK
    /\ IsFiniteSet(DOMAIN turns) /\ IsFiniteSet(DOMAIN attempts)
    /\ AllowancesHold

LEMMA AllowancesAre ==
    AllowancesHold <=>
        \A t \in DOMAIN turns :
            /\ Cardinality(OfUser(t)) <= TurnsPerDay[turns[t].env]
            /\ turns[t].session # NoSession => Cardinality(OfSession(t)) <= GuestTurns
            /\ Cardinality(Attempted(t)) <= Attempts
            /\ turns[t].tools <= Tools
BY DEF AllowancesHold, OfUser, OfSession, Attempted

\* One more of a finite set that is below a limit does not pass it.
LEMMA OneMore ==
    ASSUME NEW S, NEW x, NEW n \in Int, IsFiniteSet(S), Cardinality(S) < n
    PROVE  IsFiniteSet(S \cup {x}) /\ Cardinality(S \cup {x}) <= n
<1>1. Cardinality(S) \in Nat
  BY FS_CardinalityType
<1>2. IsFiniteSet(S \cup {x})
      /\ (Cardinality(S \cup {x}) = Cardinality(S) \/ Cardinality(S \cup {x}) = Cardinality(S) + 1)
  BY FS_AddElement
<1> QED
  BY <1>1, <1>2

LEMMA AllowBegins ==
    ASSUME AllowInv,
           NEW t \in TurnIds, NEW env \in Envs, NEW user \in Users, NEW key \in Keys,
           NEW owner \in Owners, NEW session \in Sessions \cup {NoSession},
           BeginTurn(t, env, user, key, owner, session)
    PROVE  IsFiniteSet(DOMAIN turns') /\ IsFiniteSet(DOMAIN attempts') /\ AllowancesHold'
<1>1. /\ DOMAIN turns' = DOMAIN turns \cup {t} /\ t \notin DOMAIN turns
      /\ turns'[t].env = env /\ turns'[t].user = user /\ turns'[t].day = Day(now)
      /\ turns'[t].session = session /\ turns'[t].tools = 0
      /\ \A u \in DOMAIN turns : turns'[u] = turns[u] /\ u # t
      /\ attempts' = attempts
  BY DEF BeginTurn
<1>2. IsFiniteSet(DOMAIN turns')
  BY <1>1, FS_AddElement DEF AllowInv
<1>3. /\ IsFiniteSet(BegunToday(env, user)) /\ IsFiniteSet(SessionTurnsToday(session))
  BY FS_Subset DEF AllowInv, BegunToday, SessionTurnsToday
<1>4. Cardinality(BegunToday(env, user)) < TurnsPerDay[env]
      /\ (session # NoSession => Cardinality(SessionTurnsToday(session)) < GuestTurns)
  BY DEF BeginTurn, GuestMayBegin
<1>5. TurnsPerDay[env] \in Int /\ GuestTurns \in Int
  BY CostConstants
<1>6. Cardinality(BegunToday(env, user) \cup {t}) <= TurnsPerDay[env]
      /\ (session # NoSession => Cardinality(SessionTurnsToday(session) \cup {t}) <= GuestTurns)
  BY <1>3, <1>4, <1>5, OneMore
<1>7. Attempted(t)' = {} /\ \A u \in DOMAIN turns : Attempted(u)' = Attempted(u)
  BY <1>1 DEF Attempted, AllowInv, TypeOK
<1>8. ASSUME NEW u \in DOMAIN turns'
      PROVE  Cardinality(OfUser(u)') <= TurnsPerDay[turns'[u].env]
  <2>1. CASE <<turns'[u].env, turns'[u].user, turns'[u].day>> = <<env, user, Day(now)>>
    <3>1. OfUser(u)' = BegunToday(env, user) \cup {t}
      BY <1>1, <2>1 DEF OfUser, BegunToday
    <3> QED
      BY <1>6, <2>1, <3>1
  <2>2. CASE <<turns'[u].env, turns'[u].user, turns'[u].day>> # <<env, user, Day(now)>>
    <3>1. u \in DOMAIN turns /\ OfUser(u)' = OfUser(u)
      BY <1>1, <2>2 DEF OfUser
    <3> QED
      BY <1>1, <3>1, AllowancesAre DEF AllowInv
  <2> QED
    BY <2>1, <2>2
<1>9. ASSUME NEW u \in DOMAIN turns', turns'[u].session # NoSession
      PROVE  Cardinality(OfSession(u)') <= GuestTurns
  <2>1. CASE <<turns'[u].session, turns'[u].day>> = <<session, Day(now)>>
    <3>1. OfSession(u)' = SessionTurnsToday(session) \cup {t}
      BY <1>1, <2>1 DEF OfSession, SessionTurnsToday
    <3> QED
      BY <1>6, <1>9, <2>1, <3>1
  <2>2. CASE <<turns'[u].session, turns'[u].day>> # <<session, Day(now)>>
    <3>1. u \in DOMAIN turns /\ OfSession(u)' = OfSession(u)
      BY <1>1, <2>2 DEF OfSession
    <3> QED
      BY <1>1, <1>9, <3>1, AllowancesAre DEF AllowInv
  <2> QED
    BY <2>1, <2>2
<1>10. \A u \in DOMAIN turns' : Cardinality(Attempted(u)') <= Attempts /\ turns'[u].tools <= Tools
  <2>1. Cardinality(Attempted(t)') = 0 /\ Attempts \in Nat /\ Tools \in Nat
    BY <1>7, FS_EmptySet, CostConstants
  <2>2. ASSUME NEW u \in DOMAIN turns
        PROVE  Cardinality(Attempted(u)') <= Attempts /\ turns'[u].tools <= Tools
    BY <1>1, <1>7, AllowancesAre DEF AllowInv
  <2> QED
    BY <1>1, <2>1, <2>2
<1>11. AllowancesHold'
  BY <1>8, <1>9, <1>10 DEF AllowancesHold, OfUser, OfSession, Attempted
<1> QED
  BY <1>1, <1>2, <1>11 DEF AllowInv

LEMMA AllowAges ==
    ASSUME AllowInv, TypeOK', Ageing, [Next]_vars
    PROVE  IsFiniteSet(DOMAIN turns') /\ IsFiniteSet(DOMAIN attempts') /\ AllowancesHold'
<1>1. \A t \in DOMAIN turns : OfUser(t)' = OfUser(t) /\ OfSession(t)' = OfSession(t)
  BY DEF Ageing, OfUser, OfSession
<1>2. \A t \in DOMAIN turns : turns'[t].tools <= Tools
  <2>1. ASSUME NEW t \in TurnIds, NEW owner \in Owners, ToolIteration(t, owner)
        PROVE  \A u \in DOMAIN turns : turns'[u].tools <= Tools
    <3>1. t \in DOMAIN turns /\ turns[t] \in TurnType /\ turns[t].tools < Tools
          /\ turns' = [turns EXCEPT ![t].tools = turns[t].tools + 1]
      BY <2>1 DEF ToolIteration, AllowInv, TypeOK
    <3> QED
      BY <3>1, AllowancesAre, CostConstants DEF TurnType, AllowInv
  <2>2. CASE \A t \in DOMAIN turns : turns'[t].tools = turns[t].tools
    BY <2>2, AllowancesAre DEF AllowInv
  <2>3. ASSUME NEW t \in TurnIds, NEW owner \in Owners, FinishTurn(t, owner)
        PROVE  \A u \in DOMAIN turns : turns'[u].tools = turns[u].tools
    <3>1. t \in DOMAIN turns /\ turns[t] \in TurnType
          /\ turns' = [turns EXCEPT ![t].closed = TRUE]
      BY <2>3 DEF FinishTurn, AllowInv, TypeOK
    <3> QED
      BY <3>1 DEF TurnType
  <2>4. ASSUME Begins PROVE FALSE
    BY <2>4 DEF Begins, BeginTurn, Ageing
  <2>5. CASE UNCHANGED turns
    BY <2>2, <2>5
  <2>6. ASSUME NEW id \in AttemptIds, NEW t \in TurnIds, NEW owner \in Owners,
               NEW model \in Models, NEW tokens \in Requests,
               AdmitAttempt(id, t, owner, model, tokens)
        PROVE  UNCHANGED turns
    BY <2>6 DEF AdmitAttempt
  <2>7. ASSUME NEW id \in AttemptIds, NEW tokens \in Reports, Reconcile(id, tokens)
        PROVE  UNCHANGED turns
    BY <2>7 DEF Reconcile
  <2>8. ASSUME NEW enabled \in BOOLEAN,
               SetKillSwitch(enabled) \/ \E env \in Envs : SetEnvironmentSwitch(env, enabled)
        PROVE  UNCHANGED turns
    BY <2>8 DEF SetKillSwitch, SetEnvironmentSwitch
  <2>9. ASSUME Tick \/ UNCHANGED vars PROVE UNCHANGED turns
    BY <2>9 DEF Tick, vars
  <2> QED
    BY <2>1, <2>2, <2>3, <2>4, <2>5, <2>6, <2>7, <2>8, <2>9 DEF Next, Begins
<1>3. IsFiniteSet(DOMAIN attempts')
      /\ \A t \in DOMAIN turns : Cardinality(Attempted(t)') <= Attempts
  <2>1. CASE UNCHANGED attempts
    BY <2>1, AllowancesAre DEF AllowInv, Attempted
  <2>2. ASSUME NEW id \in AttemptIds, NEW t \in TurnIds, NEW owner \in Owners,
               NEW model \in Models, NEW tokens \in Requests,
               AdmitAttempt(id, t, owner, model, tokens)
        PROVE  IsFiniteSet(DOMAIN attempts')
               /\ \A u \in DOMAIN turns : Cardinality(Attempted(u)') <= Attempts
    <3>1. /\ DOMAIN attempts' = DOMAIN attempts \cup {id} /\ id \notin DOMAIN attempts
          /\ attempts'[id].turn = t
          /\ \A x \in DOMAIN attempts : attempts'[x] = attempts[x]
          /\ Cardinality(Attempted(t)) < Attempts
      BY <2>2 DEF AdmitAttempt, NewAttempt
    <3>2. Attempted(t)' = Attempted(t) \cup {id}
          /\ \A u \in DOMAIN turns : u # t => Attempted(u)' = Attempted(u)
      BY <3>1 DEF Attempted
    <3>3. IsFiniteSet(Attempted(t)) /\ Attempts \in Int
      BY FS_Subset, CostConstants DEF AllowInv, Attempted
    <3>4. Cardinality(Attempted(t)') <= Attempts
      BY <3>1, <3>2, <3>3, OneMore
    <3>5. IsFiniteSet(DOMAIN attempts')
      BY <3>1, FS_AddElement DEF AllowInv
    <3> QED
      BY <3>2, <3>4, <3>5, AllowancesAre DEF AllowInv
  <2>3. ASSUME NEW id \in AttemptIds, NEW tokens \in Reports, Reconcile(id, tokens)
        PROVE  IsFiniteSet(DOMAIN attempts')
               /\ \A u \in DOMAIN turns : Cardinality(Attempted(u)') <= Attempts
    <3>1. /\ DOMAIN attempts' = DOMAIN attempts
          /\ \A x \in DOMAIN attempts : attempts'[x].turn = attempts[x].turn
      BY <2>3 DEF Reconcile, AllowInv, TypeOK, AttemptType
    <3>2. \A u \in DOMAIN turns : Attempted(u)' = Attempted(u)
      BY <3>1 DEF Attempted
    <3> QED
      BY <3>1, <3>2, AllowancesAre DEF AllowInv
  <2> QED
    BY <2>1, <2>2, <2>3, AttemptCases
<1>4. AllowancesHold'
  <2>1. \A t \in DOMAIN turns :
          turns'[t].env = turns[t].env /\ turns'[t].session = turns[t].session
    BY DEF Ageing
  <2>2. DOMAIN turns' = DOMAIN turns
    BY DEF Ageing
  <2>3. \A t \in DOMAIN turns' :
            /\ Cardinality(OfUser(t)') <= TurnsPerDay[turns'[t].env]
            /\ turns'[t].session # NoSession => Cardinality(OfSession(t)') <= GuestTurns
    BY <1>1, <2>1, <2>2, AllowancesAre DEF AllowInv
  <2> QED
    BY <1>2, <1>3, <2>2, <2>3 DEF AllowancesHold, OfUser, OfSession, Attempted
<1> QED
  BY <1>3, <1>4 DEF Ageing, AllowInv

(***************************************************************************)
(* The allowances: a user of an environment and a guest session never begin *)
(* more turns on a day than allowed, and no turn makes more attempts or tool *)
(* iterations than allowed, however the turns ended and whichever workers  *)
(* still run for them.                                                     *)
(***************************************************************************)
THEOREM Allowances == Spec => []AllowancesHold
<1>1. Init => AllowInv
  <2> SUFFICES ASSUME Init PROVE AllowInv
    OBVIOUS
  <2>1. DOMAIN turns = {} /\ DOMAIN attempts = {}
    BY DEF Init
  <2> QED
    BY <2>1, TypeInit, FS_EmptySet DEF AllowInv, AllowancesHold
<1>2. AllowInv /\ [Next]_vars => AllowInv'
  <2> SUFFICES ASSUME AllowInv, [Next]_vars PROVE AllowInv'
    OBVIOUS
  <2>1. TypeOK /\ TypeOK'
    BY TypeStep DEF AllowInv
  <2> QED
    BY <2>1, StepAgesOrBegins, AllowAges, AllowBegins DEF AllowInv, Begins
<1>3. AllowInv => AllowancesHold
  BY DEF AllowInv
<1> QED
  BY <1>1, <1>2, <1>3, PTL DEF Spec

-----------------------------------------------------------------------------
(* The alerts.                                                              *)

AlertInv == CapInv /\ AlertsPrecedeExposure

Warned(s, p) ==
    \/ \E alert \in alerts : <<alert.scope, alert.threshold>> = <<s, p>>
    \/ \E id \in Members(s) \cap Overruns : OverrunAlert(id) \in alerts

\* A warning is not lost by a step that keeps the alerts and what the overruns
\* of the scope were.
LEMMA WarnedStays ==
    ASSUME NEW s, NEW p, Warned(s, p), alerts \subseteq alerts',
           \A id \in Members(s) \cap Overruns :
              id \in Members(s)' \cap Overruns' /\ OverrunAlert(id)' = OverrunAlert(id)
    PROVE  Warned(s, p)'
<1>1. CASE \E alert \in alerts : <<alert.scope, alert.threshold>> = <<s, p>>
  BY <1>1 DEF Warned
<1>2. ASSUME NEW id \in Members(s) \cap Overruns, OverrunAlert(id) \in alerts
      PROVE  Warned(s, p)'
  BY <1>2 DEF Warned
<1> QED
  BY <1>1, <1>2 DEF Warned

\* A scope that does not rise and keeps its warnings stays warned of.
LEMMA AlertLower ==
    ASSUME AlertInv, NEW s \in Scopes, NEW p \in Thresholds,
           SpentUnits(s)' \subseteq SpentUnits(s),
           Exposure(s)' * 100 >= s.cap * p
    PROVE  Warned(s, p)
<1>1. Exposure(s)' = Cardinality(SpentUnits(s)') /\ Exposure(s) = Cardinality(SpentUnits(s))
  BY DEF Exposure, SpentUnits, Units
<1>2. Exposure(s)' <= Exposure(s) /\ Exposure(s)' \in Int /\ Exposure(s) \in Int
  BY <1>1, CountedWithinSpent, FS_Subset, FS_CardinalityType DEF AlertInv
<1>3. s.cap \in Nat /\ p \in Nat /\ s.cap * p \in Nat
  BY CapType DEF Scopes, AlertInv, CapInv, TypeOK, Thresholds
<1>4. Exposure(s) * 100 >= s.cap * p
  BY <1>2, <1>3
<1> QED
  BY <1>4 DEF AlertInv, AlertsPrecedeExposure, Warned

LEMMA AlertAdmit ==
    ASSUME AlertInv,
           NEW id \in AttemptIds, NEW t \in TurnIds, NEW owner \in Owners,
           NEW model \in Models, NEW tokens \in Requests,
           AdmitAttempt(id, t, owner, model, tokens), TypeOK'
    PROVE  AlertsPrecedeExposure'
<1> DEFINE a == NewAttempt(t, model, Charge(model, tokens[1], tokens[2]))
<1>1. /\ id \notin DOMAIN attempts
      /\ attempts' = [x \in DOMAIN attempts \cup {id} |-> IF x = id THEN a ELSE attempts[x]]
      /\ alerts' = alerts \cup NewAlerts(a)
  BY DEF AdmitAttempt
<1>2. a.charge = a.bound /\ a.settled = FALSE
  BY DEF NewAttempt
<1> HIDE DEF a
<1>3. a \in AttemptType /\ a.bound \in Nat
  BY <1>1, <1>2 DEF TypeOK, AttemptType
<1>4. DOMAIN attempts' = DOMAIN attempts \cup {id} /\ attempts'[id] = a
      /\ \A x \in DOMAIN attempts : x # id /\ attempts'[x] = attempts[x]
  BY <1>1
<1> SUFFICES ASSUME NEW s \in Scopes', NEW p \in Thresholds,
                    Exposure(s)' * 100 >= s.cap * p
             PROVE  Warned(s, p)'
  BY DEF AlertsPrecedeExposure, Warned
<1>5. CASE s \in ScopesOf(a)
  <2>1. SpentUnits(s)' = SpentUnits(s) \cup Units(id, a.bound)
    BY <1>2, <1>3, <1>4, <1>5 DEF SpentUnits, Members
  <2>2. SpentUnits(s) \cap Units(id, a.bound) = {}
    BY <1>1 DEF SpentUnits, Members, Units
  <2>3. IsFiniteSet(SpentUnits(s)) /\ Cardinality(SpentUnits(s)) \in Nat
    BY CountedWithinSpent DEF AlertInv
  <2>4. Cardinality(SpentUnits(s)') = Cardinality(SpentUnits(s)) + a.bound
    <3>1. IsFiniteSet(Units(id, a.bound)) /\ Cardinality(Units(id, a.bound)) = a.bound
      BY <1>3, UnitsCount
    <3>2. Cardinality(SpentUnits(s) \cup Units(id, a.bound)) =
            Cardinality(SpentUnits(s)) + Cardinality(Units(id, a.bound)) - Cardinality({})
      BY <2>2, <2>3, <3>1, FS_Union
    <3> QED
      BY <1>3, <2>1, <2>3, <3>1, <3>2, FS_EmptySet
  <2>5. Exposure(s)' = ExposureWith(s, a)
    <3>1. Exposure(s)' = Cardinality(SpentUnits(s)')
      BY DEF Exposure, SpentUnits, Units
    <3> QED
      BY <2>4, <3>1, ExposureIsSpent DEF ExposureWith
  <2>6. Reaches(ExposureWith(s, a), s, p)
    BY <2>5 DEF Reaches
  <2>7. CASE Raised(s, p)
    BY <1>1, <2>7 DEF Raised, Warned
  <2>8. CASE ~Raised(s, p)
    <3>1. [scope |-> s, threshold |-> p, exposure |-> ExposureWith(s, a)] \in NewAlerts(a)
      <4>1. <<s, p>> \in {y \in ScopesOf(a) \X Thresholds :
                            Reaches(ExposureWith(y[1], a), y[1], y[2]) /\ ~Raised(y[1], y[2])}
        BY <1>5, <2>6, <2>8
      <4> QED
        BY <4>1 DEF NewAlerts
    <3> QED
      BY <1>1, <3>1 DEF Warned
  <2> QED
    BY <2>7, <2>8
<1>6. CASE s \notin ScopesOf(a)
  <2>1. Members(s)' = Members(s)
    BY <1>4, <1>6 DEF Members
  <2>2. SpentUnits(s)' = SpentUnits(s)
    BY <1>4, <2>1 DEF SpentUnits, Members
  <2>3. s \in Scopes
    BY <1>4, <1>6 DEF Scopes
  <2>4. Warned(s, p)
    BY <2>2, <2>3, AlertLower
  <2>5. \A x \in Members(s) \cap Overruns : x \in Overruns' /\ OverrunAlert(x)' = OverrunAlert(x)
    BY <1>4 DEF Overruns, OverrunAlert
  <2> QED
    BY <1>1, <2>1, <2>4, <2>5, WarnedStays
<1> QED
  BY <1>5, <1>6

LEMMA AlertReconcile ==
    ASSUME AlertInv, NEW id \in AttemptIds, NEW tokens \in Reports, Reconcile(id, tokens)
    PROVE  AlertsPrecedeExposure'
<1> DEFINE cost == Charge(attempts[id].model, tokens[1], tokens[2])
<1>1. /\ id \in DOMAIN attempts /\ attempts[id] \in AttemptType
      /\ attempts[id].charge = attempts[id].bound
      /\ attempts' = [attempts EXCEPT ![id].charge = cost, ![id].settled = TRUE]
      /\ alerts' = IF cost > attempts[id].bound THEN alerts \cup {OverrunAlert(id)} ELSE alerts
  BY DEF Reconcile, Exceeds, AlertInv, CapInv, TypeOK
<1>2. cost \in Nat
  BY <1>1, ChargeType, CostConstants DEF AttemptType
<1> HIDE DEF cost
<1>3. /\ DOMAIN attempts' = DOMAIN attempts
      /\ \A x \in DOMAIN attempts : x # id => attempts'[x] = attempts[x]
      /\ attempts'[id].charge = cost /\ attempts'[id].bound = attempts[id].bound
      /\ <<attempts'[id].turn, attempts'[id].env, attempts'[id].user,
           attempts'[id].day, attempts'[id].month, attempts'[id].session>>
         = <<attempts[id].turn, attempts[id].env, attempts[id].user,
             attempts[id].day, attempts[id].month, attempts[id].session>>
  BY <1>1 DEF AlertInv, CapInv, TypeOK, AttemptType
<1>4. \A x \in DOMAIN attempts : ScopesOf(attempts'[x]) = ScopesOf(attempts[x])
  BY <1>3, SameScopes
<1>5. Scopes' = Scopes /\ \A s : Members(s)' = Members(s)
  BY <1>3, <1>4 DEF Scopes, Members
<1>6. \A x \in Overruns : x \in Overruns' /\ x # id /\ OverrunAlert(x)' = OverrunAlert(x)
  BY <1>1, <1>3 DEF Overruns, OverrunAlert, AttemptType
<1> SUFFICES ASSUME NEW s \in Scopes, NEW p \in Thresholds,
                    Exposure(s)' * 100 >= s.cap * p
             PROVE  Warned(s, p)'
  BY <1>5 DEF AlertsPrecedeExposure, Warned
<1>7. CASE id \in Members(s) /\ cost > attempts[id].bound
  <2>1. id \in Members(s)' /\ id \in Overruns' /\ OverrunAlert(id)' = OverrunAlert(id)
    BY <1>1, <1>3, <1>5, <1>7 DEF Overruns, OverrunAlert
  <2> QED
    BY <1>1, <1>7, <2>1 DEF Warned
<1>8. CASE ~(id \in Members(s) /\ cost > attempts[id].bound)
  <2>1. SpentUnits(s)' \subseteq SpentUnits(s)
    <3>1. \A x \in Members(s) :
            Units(x, attempts'[x].charge) \subseteq Units(x, attempts[x].charge)
      BY <1>1, <1>2, <1>3, <1>8 DEF Members, Units, AttemptType
    <3> QED
      BY <1>5, <3>1 DEF SpentUnits
  <2>2. Warned(s, p)
    BY <2>1, AlertLower
  <2> QED
    BY <1>1, <1>5, <1>6, <2>2, WarnedStays
<1> QED
  BY <1>7, <1>8

LEMMA AlertSame ==
    ASSUME AlertInv, UNCHANGED <<attempts, alerts>>
    PROVE  AlertsPrecedeExposure'
BY DEF AlertInv, AlertsPrecedeExposure, Scopes, Exposure, Members, Overruns, OverrunAlert

(***************************************************************************)
(* The alerts: a scope never stands at half, four fifths or 95 percent of  *)
(* its cap before the alert of that threshold was recorded (admit_attempt  *)
(* raises it with the admission that would reach it) or that of the        *)
(* overrun which lifted it there (reconcile).                              *)
(***************************************************************************)
THEOREM Alerts == Spec => []AlertsPrecedeExposure
<1>1. Init => AlertInv
  <2> SUFFICES ASSUME Init PROVE AlertInv
    OBVIOUS
  <2>1. DOMAIN attempts = {}
    BY DEF Init
  <2>2. Scopes = {} /\ AllUnits = {}
    BY <2>1 DEF Scopes, AllUnits
  <2> QED
    BY <2>1, <2>2, TypeInit, FS_EmptySet DEF AlertInv, CapInv, AlertsPrecedeExposure
<1>2. AlertInv /\ [Next]_vars => AlertInv'
  <2> SUFFICES ASSUME AlertInv, [Next]_vars PROVE AlertInv'
    OBVIOUS
  <2>1. TypeOK'
    BY TypeStep DEF AlertInv, CapInv
  <2>2. CASE UNCHANGED <<attempts, alerts>>
    BY <2>1, <2>2, CapSame, AlertSame DEF AlertInv
  <2>3. ASSUME NEW id \in AttemptIds, NEW t \in TurnIds, NEW owner \in Owners,
               NEW model \in Models, NEW tokens \in Requests,
               AdmitAttempt(id, t, owner, model, tokens)
        PROVE  AlertInv'
    BY <2>1, <2>3, CapAdmit, AlertAdmit DEF AlertInv
  <2>4. ASSUME NEW id \in AttemptIds, NEW tokens \in Reports, Reconcile(id, tokens)
        PROVE  AlertInv'
    BY <2>1, <2>4, CapReconcile, AlertReconcile DEF AlertInv
  <2> QED
    BY <2>2, <2>3, <2>4, AttemptCases
<1> QED
  BY <1>1, <1>2, PTL DEF Spec, AlertInv

-----------------------------------------------------------------------------
(* What callers rely on.                                                    *)

\* What a submission's phase depends on.
LEMMA PhaseCases ==
    ASSUME NEW s
    PROVE  /\ PhaseOf(s) = "new" <=> Submitted(s[1], s[2], s[3]) = {}
           /\ PhaseOf(s) = "live" <=> \E t \in Submitted(s[1], s[2], s[3]) : Active(t)
           /\ PhaseOf(s) \in {"new", "live", "over"}
BY DEF PhaseOf

\* Where no turn begins, a live submission stays live or is over, and every other
\* stays as it is.
LEMMA PhaseAges ==
    ASSUME TypeOK, Ageing, now' \in Nat, NEW s
    PROVE  PhaseOf(s)' = PhaseOf(s) \/ (PhaseOf(s) = "live" /\ PhaseOf(s)' = "over")
<1>1. Submitted(s[1], s[2], s[3])' = Submitted(s[1], s[2], s[3])
  BY DEF Submitted, Ageing
<1>2. \A t \in DOMAIN turns : Active(t)' => Active(t)
  BY CostConstants DEF Ageing, Active, TypeOK, TurnType
<1>3. Submitted(s[1], s[2], s[3]) \subseteq DOMAIN turns
  BY DEF Submitted
<1> QED
  BY <1>1, <1>2, <1>3 DEF PhaseOf

\* A turn that begins makes its own submission live, which was new, and touches no
\* other.
LEMMA PhaseBegins ==
    ASSUME TypeOK,
           NEW t \in TurnIds, NEW env \in Envs, NEW user \in Users, NEW key \in Keys,
           NEW owner \in Owners, NEW session \in Sessions \cup {NoSession},
           BeginTurn(t, env, user, key, owner, session),
           NEW s \in SubmissionsOfUsers
    PROVE  /\ s = <<env, user, key>> => PhaseOf(s) = "new" /\ PhaseOf(s)' = "live"
           /\ s # <<env, user, key>> => PhaseOf(s)' = PhaseOf(s)
           /\ PhaseOf(s) = "live" => s[2] # user
<1>1. /\ DOMAIN turns' = DOMAIN turns \cup {t} /\ t \notin DOMAIN turns
      /\ turns'[t].env = env /\ turns'[t].user = user /\ turns'[t].key = key
      /\ ~turns'[t].closed /\ turns'[t].deadline = now + Deadline
      /\ \A u \in DOMAIN turns : turns'[u] = turns[u]
      /\ Submitted(env, user, key) = {}
      /\ now' = now
  BY DEF BeginTurn
<1>2. s = <<s[1], s[2], s[3]>>
  BY DEF SubmissionsOfUsers
<1>3. \A u \in DOMAIN turns : Active(u)' <=> Active(u)
  BY <1>1 DEF Active
<1>4. CASE s = <<env, user, key>>
  <2>1. PhaseOf(s) = "new"
    BY <1>1, <1>4 DEF PhaseOf
  <2>2. t \in Submitted(s[1], s[2], s[3])'
    BY <1>1, <1>4 DEF Submitted
  <2>3. Active(t)'
    BY <1>1, CostConstants DEF Active, TypeOK
  <2> QED
    BY <1>4, <2>1, <2>2, <2>3 DEF PhaseOf
<1>5. CASE s # <<env, user, key>>
  <2>1. Submitted(s[1], s[2], s[3])' = Submitted(s[1], s[2], s[3])
    BY <1>1, <1>2, <1>5 DEF Submitted
  <2>2. Submitted(s[1], s[2], s[3]) \subseteq DOMAIN turns
    BY DEF Submitted
  <2>3. PhaseOf(s)' = PhaseOf(s)
    BY <1>3, <2>1, <2>2 DEF PhaseOf
  <2>4. \A u \in Submitted(s[1], s[2], s[3]) : Active(u) => turns[u].user # user
    BY DEF Submitted, BeginTurn, NoActiveTurn, SameHolder
  <2>5. PhaseOf(s) = "live" => s[2] # user
    BY <2>4, PhaseCases DEF Submitted
  <2> QED
    BY <1>5, <2>3, <2>5
<1> QED
  BY <1>4, <1>5

(***************************************************************************)
(* Refinement: seen as the life of submissions, the stored turns, the      *)
(* clock and the limits keep the promise of TurnLedger.                    *)
(***************************************************************************)
THEOREM Refinement == Spec => KeepsLedger
<1> DEFINE phase == [s \in SubmissionsOfUsers |-> PhaseOf(s)]
<1>1. Init => Ledger!Init
  <2> SUFFICES ASSUME Init, NEW s \in SubmissionsOfUsers PROVE PhaseOf(s) = "new"
    BY DEF Ledger!Init
  <2> QED
    BY DEF Init, PhaseOf, Submitted
<1>2. TypeOK /\ [Next]_vars => [Ledger!Next]_phase
  <2> SUFFICES ASSUME TypeOK, [Next]_vars
               PROVE  Ledger!Next \/ phase' = phase
    OBVIOUS
  <2>1. now' \in Nat
    BY TypeStep DEF TypeOK
  <2>2. CASE Ageing
    <3> DEFINE ending == {s \in SubmissionsOfUsers : PhaseOf(s) = "live" /\ PhaseOf(s)' = "over"}
    <3>1. phase' = [s \in SubmissionsOfUsers |-> IF s \in ending THEN "over" ELSE phase[s]]
      BY <2>1, <2>2, PhaseAges
    <3>2. \A s \in ending : phase[s] = "live"
      OBVIOUS
    <3>3. ending \in SUBSET SubmissionsOfUsers
      OBVIOUS
    <3>4. Ledger!End(ending)
      BY <3>1, <3>2 DEF Ledger!End
    <3> QED
      BY <3>3, <3>4 DEF Ledger!Next
  <2>3. ASSUME NEW t \in TurnIds, NEW env \in Envs, NEW user \in Users, NEW key \in Keys,
               NEW owner \in Owners, NEW session \in Sessions \cup {NoSession},
               BeginTurn(t, env, user, key, owner, session)
        PROVE  Ledger!Next
    <3> DEFINE s0 == <<env, user, key>>
    <3>1. s0 \in SubmissionsOfUsers /\ s0[2] = user
      BY DEF SubmissionsOfUsers
    <3>2. \A s \in SubmissionsOfUsers :
            /\ s = s0 => phase[s] = "new" /\ phase'[s] = "live"
            /\ s # s0 => phase'[s] = phase[s]
            /\ phase[s] = "live" => s[2] # user
      BY <2>3, PhaseBegins
    <3>3. phase' = [phase EXCEPT ![s0] = "live"]
      BY <3>1, <3>2
    <3>4. Ledger!Begin(s0)
      BY <3>1, <3>2, <3>3 DEF Ledger!Begin
    <3> QED
      BY <3>1, <3>4 DEF Ledger!Next
  <2> QED
    BY <2>2, <2>3, StepAgesOrBegins DEF Begins
<1> QED
  BY <1>1, <1>2, TypeCorrect, PTL DEF Spec, KeepsLedger, Ledger!Spec

-----------------------------------------------------------------------------
(* The calls at the provider                                                *)

CallRecords == [phase : Provider!Phases, depth : Nat, tries : 0..MaxRetries, rounds : 0..MaxRepairs,
                owed : 0..MaxRepairs + 1, end : {"none", "result", "error"}]

Working == {"ready", "sent", "answered", "record", "leave"}
Locked == {"ceiling", "permit", "unlock"} \cup Working

\* What the place p of a call says of its permit, its lock and what it owes.
Placed(c, p, permitted, locks) ==
    /\ p.depth > 0 <=> permitted
    /\ p.phase # "permit" => (p.depth > 0 <=> p.phase \in Working)
    /\ Provider!Deferred(c) => (locks <=> p.phase \in Locked)
    /\ ~Provider!Deferred(c) => p.owed = 0 /\ p.phase \notin {"ledger", "ceiling", "record", "unlock"}
    /\ p.owed > 0 => p.phase \in {"ready", "sent", "answered", "record"}
    /\ p.phase \in {"ready", "sent"} => p.owed <= p.rounds
    /\ p.phase = "answered" => p.owed <= p.rounds + 1

\* A call the ceiling let through spends below it, until it records.
Admitted(c, p) ==
    Provider!Deferred(c) /\ p.phase \in {"permit", "ready", "sent", "answered", "record"}
      => recorded[LedgerOf[c]] < Ceiling

Outstanding(l) == IF lock[l] = None THEN 0 ELSE call[lock[l]].owed

\* A ledger knows all that was paid, but for the holder of its lock.
Balanced(l) ==
    /\ lock[l] # None => LedgerOf[lock[l]] = l
    /\ paid[l] = recorded[l] + lost[l] + Outstanding(l)
    /\ recorded[l] <= Ceiling + MaxRepairs

\* Cardinality is that of the instance too.
LEMMA SameSize == \A S : Provider!Cardinality(S) = Cardinality(S)
  BY DEF Provider!Cardinality, Cardinality

CallInvariant ==
    /\ Provider!TypeOK /\ IsFiniteSet(acquired)
    /\ \A c \in Calls : Placed(c, call[c], c \in acquired, lock[LedgerOf[c]] = c)
    /\ \A c \in Calls : Admitted(c, call[c])
    /\ \A l \in Ledgers : Balanced(l)

-----------------------------------------------------------------------------
(* CallTypes                                                                    *)

LEMMA CallConstants ==
  ASSUME Provider!ProviderConstants
  PROVE  /\ None \notin Ledgers /\ None \notin Calls
         /\ \A c \in Calls : LedgerOf[c] \in Ledgers \cup {None} /\ Wrappers[c] \in Nat
         /\ Permits \in Nat /\ Permits > 0
         /\ Ceiling \in Nat /\ MaxRetries \in Nat /\ MaxRepairs \in Nat
  BY DEF Provider!ProviderConstants

LEMMA CallTypes ==
  ASSUME Provider!ProviderConstants, Provider!TypeOK
  PROVE  /\ call \in [Calls -> CallRecords]
         /\ \A c \in Calls : call[c] \in CallRecords
         /\ lock \in [Ledgers -> Calls \cup {None}]
         /\ recorded \in [Ledgers -> Nat] /\ lost \in [Ledgers -> Nat] /\ paid \in [Ledgers -> Nat]
<1>1. call \in [Calls -> CallRecords] /\ lock \in [Ledgers -> Calls \cup {None}]
  BY DEF Provider!TypeOK, CallRecords
<1>2. recorded \in [Ledgers -> Nat] /\ lost \in [Ledgers -> Nat] /\ paid \in [Ledgers -> Nat]
  BY DEF Provider!TypeOK
<1> QED
  BY <1>1, <1>2

LEMMA CallsBegin == ASSUME Provider!ProviderConstants, Provider!Init PROVE CallInvariant
<1>1. Provider!TypeOK /\ IsFiniteSet(acquired)
  <2>1. Cardinality({}) = 0 /\ IsFiniteSet({})
    BY FS_EmptySet
  <2>2. Provider!Idle \in CallRecords
    BY CallConstants DEF Provider!Idle, CallRecords, Provider!Phases
  <2>3. call \in [Calls -> CallRecords]
    BY <2>2 DEF Provider!Init
  <2> QED
    BY <2>1, <2>3, CallConstants, SameSize DEF Provider!Init, Provider!TypeOK, CallRecords
<1>2. ASSUME NEW c \in Calls
      PROVE  /\ Placed(c, call[c], c \in acquired, lock[LedgerOf[c]] = c)
             /\ Admitted(c, call[c])
  <2>1. call[c].phase = "new" /\ call[c].depth = 0 /\ call[c].owed = 0 /\ c \notin acquired
    BY DEF Provider!Init, Provider!Idle
  <2>2. Provider!Deferred(c) => lock[LedgerOf[c]] # c
    BY CallConstants DEF Provider!Init, Provider!Deferred
  <2> QED
    BY <2>1, <2>2 DEF Placed, Admitted, Working, Locked
<1>3. ASSUME NEW l \in Ledgers PROVE Balanced(l)
  BY CallConstants DEF Provider!Init, Balanced, Outstanding
<1> QED
  BY <1>1, <1>2, <1>3 DEF CallInvariant

-----------------------------------------------------------------------------
(* What a step makes of a call and of what it shares                        *)

\* The place q a step of c moves it to.
Moved(c, q) ==
    /\ q \in CallRecords /\ call' = [call EXCEPT ![c] = q]
    /\ Placed(c, q, c \in acquired', lock'[LedgerOf[c]] = c)
    /\ Provider!Deferred(c) /\ q.phase \in {"permit", "ready", "sent", "answered", "record"}
         => recorded'[LedgerOf[c]] < Ceiling

Shared == <<free, acquired, lock, recorded, lost, paid>>

\* The ways a step touches what calls share.
Quiet(c, q) == UNCHANGED Shared /\ q.owed = call[c].owed
Takes(c, q) ==
    /\ c \notin acquired /\ free > 0 /\ free' = free - 1 /\ acquired' = acquired \cup {c}
    /\ UNCHANGED <<lock, recorded, lost, paid>> /\ q.owed = call[c].owed
Returns(c, q) ==
    /\ c \in acquired /\ free' = free + 1 /\ acquired' = acquired \ {c}
    /\ UNCHANGED <<lock, recorded, lost, paid>> /\ q.owed = call[c].owed
Locks(c, q) ==
    /\ Provider!Deferred(c) /\ lock[LedgerOf[c]] = None /\ lock' = [lock EXCEPT ![LedgerOf[c]] = c]
    /\ UNCHANGED <<free, acquired, recorded, lost, paid>> /\ q.owed = 0
Unlocks(c, q) ==
    /\ Provider!Deferred(c) /\ lock[LedgerOf[c]] = c /\ lock' = [lock EXCEPT ![LedgerOf[c]] = None]
    /\ UNCHANGED <<free, acquired, recorded, lost, paid>> /\ call[c].owed = 0 /\ q.owed = 0
Pays(c, q) ==
    /\ Provider!Deferred(c) /\ lock[LedgerOf[c]] = c /\ q.owed = call[c].owed + 1
    /\ paid' = [paid EXCEPT ![LedgerOf[c]] = @ + 1]
    /\ UNCHANGED <<free, acquired, lock, recorded, lost>>
Records(c, q) ==
    /\ Provider!Deferred(c) /\ lock[LedgerOf[c]] = c /\ q.owed = 0
    /\ recorded[LedgerOf[c]] < Ceiling
    /\ \/ /\ recorded' = [recorded EXCEPT ![LedgerOf[c]] = @ + call[c].owed]
          /\ UNCHANGED lost
       \/ /\ lost' = [lost EXCEPT ![LedgerOf[c]] = @ + call[c].owed]
          /\ UNCHANGED recorded
    /\ UNCHANGED <<free, acquired, lock, paid>>

Touches(c, q) ==
    \/ Quiet(c, q) \/ Takes(c, q) \/ Returns(c, q) \/ Locks(c, q) \/ Unlocks(c, q)
    \/ Pays(c, q) \/ Records(c, q)

\* Changing the fields of a place.
LEMMA SetPhase ==
  ASSUME NEW p \in CallRecords, NEW v \in Provider!Phases
  PROVE  LET q == [p EXCEPT !.phase = v]
         IN  /\ q \in CallRecords /\ q.phase = v /\ q.depth = p.depth /\ q.rounds = p.rounds
             /\ q.owed = p.owed
  BY DEF CallRecords
LEMMA SetEnd ==
  ASSUME NEW p \in CallRecords, NEW v \in Provider!Phases, NEW e \in {"none", "result", "error"}
  PROVE  LET q == [p EXCEPT !.phase = v, !.end = e]
         IN  /\ q \in CallRecords /\ q.phase = v /\ q.depth = p.depth /\ q.rounds = p.rounds
             /\ q.owed = p.owed
  BY DEF CallRecords
LEMMA SetDepth ==
  ASSUME NEW p \in CallRecords, NEW v \in Provider!Phases, NEW d \in Nat
  PROVE  LET q == [p EXCEPT !.depth = d, !.phase = v]
         IN  /\ q \in CallRecords /\ q.phase = v /\ q.depth = d /\ q.rounds = p.rounds
             /\ q.owed = p.owed
  BY DEF CallRecords
LEMMA SetExit ==
  ASSUME NEW p \in CallRecords, NEW v \in Provider!Phases, NEW d \in Nat,
         NEW e \in {"none", "result", "error"}
  PROVE  LET q == [p EXCEPT !.depth = d, !.end = e, !.phase = v]
         IN  /\ q \in CallRecords /\ q.phase = v /\ q.depth = d /\ q.rounds = p.rounds
             /\ q.owed = p.owed
  BY DEF CallRecords

\* The place of a call.
LEMMA PlaceOf ==
  ASSUME Provider!ProviderConstants, CallInvariant, NEW c \in Calls
  PROVE  /\ call[c] \in CallRecords /\ call \in [Calls -> CallRecords]
         /\ Placed(c, call[c], c \in acquired, lock[LedgerOf[c]] = c) /\ Admitted(c, call[c])
         /\ call[c].owed \in Nat /\ call[c].depth \in Nat /\ call[c].rounds \in 0..MaxRepairs
         /\ call[c].tries \in 0..MaxRetries
<1>1. call[c] \in CallRecords /\ call \in [Calls -> CallRecords]
  BY CallTypes DEF CallInvariant
<1>2. Placed(c, call[c], c \in acquired, lock[LedgerOf[c]] = c) /\ Admitted(c, call[c])
  BY DEF CallInvariant
<1> QED
  BY <1>1, <1>2, CallConstants DEF CallRecords

\* A call on its way out through the finally clauses.
LEMMA Unwinds ==
  ASSUME Provider!ProviderConstants, CallInvariant, NEW c \in Calls, UNCHANGED Shared,
         NEW e \in {"none", "result", "error"},
         call[c].phase \in {"ledger", "ceiling", "permit", "ready", "sent", "answered"},
         call' = [call EXCEPT ![c].phase = Provider!Unwound(c), ![c].end = e]
  PROVE  \E q : Moved(c, q) /\ Touches(c, q)
<1>1. call[c] \in CallRecords /\ call \in [Calls -> CallRecords]
  BY PlaceOf
<1>2. PICK v \in Provider!Phases : v = Provider!Unwound(c)
  BY DEF Provider!Unwound, Provider!Phases
<1> DEFINE q == [call[c] EXCEPT !.phase = v, !.end = e]
<1>3. q \in CallRecords /\ q.phase = Provider!Unwound(c) /\ q.depth = call[c].depth /\ q.owed = call[c].owed
      /\ q.rounds = call[c].rounds
  <2>1. call[c] \in CallRecords /\ e \in {"none", "result", "error"} /\ v \in Provider!Phases
    BY <1>1, <1>2
  <2>2. q \in CallRecords /\ q.phase = v /\ q.depth = call[c].depth /\ q.rounds = call[c].rounds
        /\ q.owed = call[c].owed
    BY <2>1 DEF CallRecords
  <2> QED
    BY <1>2, <2>2
<1>4. call' = [call EXCEPT ![c] = q]
  BY <1>1, <1>2
<1> HIDE DEF q
<1>5. Placed(c, call[c], c \in acquired, lock[LedgerOf[c]] = c) /\ Admitted(c, call[c])
  BY DEF CallInvariant
<1>6. call[c].owed \in Nat /\ call[c].depth \in Nat
  BY <1>1, CallConstants DEF CallRecords
<1>7. Placed(c, q, c \in acquired, lock[LedgerOf[c]] = c)
  <2>1. CASE Provider!Deferred(c) /\ call[c].owed > 0
    BY <1>3, <1>5, <1>6, <2>1 DEF Provider!Unwound, Placed, Working, Locked
  <2>2. CASE ~(Provider!Deferred(c) /\ call[c].owed > 0) /\ call[c].depth > 0
    BY <1>3, <1>5, <1>6, <2>2 DEF Provider!Unwound, Placed, Working, Locked
  <2>3. CASE ~(Provider!Deferred(c) /\ call[c].owed > 0) /\ ~(call[c].depth > 0)
    BY <1>3, <1>5, <1>6, <2>3 DEF Provider!Unwound, Placed, Working, Locked
  <2> QED
    BY <2>1, <2>2, <2>3
<1>8. Provider!Deferred(c) /\ q.phase \in {"permit", "ready", "sent", "answered", "record"}
        => recorded[LedgerOf[c]] < Ceiling
  BY <1>3, <1>5, <1>6 DEF Provider!Unwound, Placed, Admitted, Working
<1>9. Moved(c, q)
  BY <1>3, <1>4, <1>7, <1>8 DEF Moved, Shared
<1>10. Quiet(c, q)
  BY <1>3 DEF Quiet
<1> QED
  BY <1>9, <1>10 DEF Touches

\* A step that only changes the place of its call.
LEMMA MovesOn ==
  ASSUME Provider!ProviderConstants, CallInvariant, NEW c \in Calls, UNCHANGED Shared,
         NEW q \in CallRecords, call' = [call EXCEPT ![c] = q], q.owed = call[c].owed,
         Placed(c, q, c \in acquired, lock[LedgerOf[c]] = c), Admitted(c, q)
  PROVE  \E z : Moved(c, z) /\ Touches(c, z)
<1>1. Moved(c, q)
  BY DEF Moved, Shared, Admitted
<1>2. Touches(c, q)
  BY DEF Touches, Quiet
<1> QED
  BY <1>1, <1>2

LEMMA QuietSteps ==
  ASSUME Provider!ProviderConstants, CallInvariant, NEW c \in Calls,
         \/ Provider!Generate(c) \/ Provider!GiveUp(c) \/ Provider!Admit(c) \/ Provider!Refuse(c)
         \/ Provider!Nest(c)
         \/ Provider!Send(c) \/ Provider!Discard(c) \/ Provider!Valid(c) \/ Provider!Invalid(c)
         \/ Provider!Retry(c) \/ Provider!Fail(c) \/ Provider!Cancel(c)
  PROVE  \E q : Moved(c, q) /\ Touches(c, q)
<1> DEFINE Goal == \E q : Moved(c, q) /\ Touches(c, q)
           p == call[c]
<1>1. p \in CallRecords /\ call \in [Calls -> CallRecords]
  BY PlaceOf
<1>2. Placed(c, p, c \in acquired, lock[LedgerOf[c]] = c) /\ Admitted(c, p)
  BY PlaceOf
<1>3. p.owed \in Nat /\ p.depth \in Nat /\ p.rounds \in 0..MaxRepairs /\ p.tries \in 0..MaxRetries
  BY PlaceOf
<1>u. UNCHANGED Shared
  BY DEF Provider!Generate, Provider!GiveUp, Provider!Admit, Provider!Refuse, Provider!Nest,
     Provider!Send, Provider!Discard, Provider!Valid, Provider!Invalid, Provider!Retry,
     Provider!Fail, Provider!Cancel,
         Provider!Untouched, Shared
<1>4. CASE Provider!Generate(c)
  <2> DEFINE v == IF Provider!Deferred(c) THEN "ledger" ELSE "permit"
             q == [p EXCEPT !.phase = v]
  <2>1. v \in Provider!Phases
    BY DEF Provider!Phases
  <2>2. q \in CallRecords /\ q.phase = v /\ q.depth = p.depth /\ q.rounds = p.rounds
        /\ q.owed = p.owed
    BY <1>1, <2>1, SetPhase
  <2>3. call' = [call EXCEPT ![c] = q] /\ p.phase = "new"
    BY <1>1, <1>4 DEF Provider!Generate, Provider!Goes, Provider!At
  <2> HIDE DEF q
  <2>4. Placed(c, q, c \in acquired, lock[LedgerOf[c]] = c) /\ Admitted(c, q)
    BY <1>2, <1>3, <2>2, <2>3 DEF Placed, Admitted, Working, Locked
  <2> HIDE DEF p
  <2> QED
    BY <1>u, <2>2, <2>3, <2>4, MovesOn DEF p
<1>5. CASE Provider!Admit(c)
  <2> DEFINE q == [p EXCEPT !.phase = "permit"]
  <2>1. "permit" \in Provider!Phases
    BY DEF Provider!Phases
  <2>2. q \in CallRecords /\ q.phase = "permit" /\ q.depth = p.depth /\ q.rounds = p.rounds
        /\ q.owed = p.owed
    BY <1>1, <2>1, SetPhase
  <2>3. call' = [call EXCEPT ![c] = q] /\ p.phase = "ceiling" /\ recorded[LedgerOf[c]] < Ceiling
    BY <1>1, <1>5 DEF Provider!Admit, Provider!Goes, Provider!At
  <2> HIDE DEF q
  <2>4. Placed(c, q, c \in acquired, lock[LedgerOf[c]] = c) /\ Admitted(c, q)
    BY <1>2, <1>3, <2>2, <2>3 DEF Placed, Admitted, Working, Locked
  <2> QED
    BY <1>u, <2>2, <2>3, <2>4, MovesOn
<1>6. CASE Provider!Nest(c)
  <2>0. PICK v \in {"permit", "ready"} :
          v = IF p.depth + 1 < Provider!Nesting(c) THEN "permit" ELSE "ready"
    OBVIOUS
  <2>1. v \in Provider!Phases /\ p.depth + 1 \in Nat
    BY <1>3 DEF Provider!Phases
  <2> DEFINE q == [p EXCEPT !.depth = p.depth + 1, !.phase = v]
  <2>2. q \in CallRecords /\ q.phase = v /\ q.depth = p.depth + 1 /\ q.rounds = p.rounds
        /\ q.owed = p.owed
    BY <1>1, <2>1, SetDepth
  <2>3. call' = [call EXCEPT ![c] = q] /\ p.phase = "permit" /\ p.depth > 0
    <3>1. call' = [call EXCEPT ![c].depth = @ + 1, ![c].phase = v] /\ p.phase = "permit"
          /\ p.depth > 0
      BY <1>6, <2>0 DEF Provider!Nest, Provider!At
    <3> QED
      BY <1>1, <3>1 DEF CallRecords
  <2> HIDE DEF q
  <2>4. Placed(c, q, c \in acquired, lock[LedgerOf[c]] = c) /\ Admitted(c, q)
    BY <1>2, <1>3, <2>2, <2>3 DEF Placed, Admitted, Working, Locked
  <2> QED
    BY <1>u, <2>2, <2>3, <2>4, MovesOn
<1>7. CASE Provider!Retry(c)
  <2> DEFINE q == [p EXCEPT !.phase = "ready", !.tries = p.tries + 1]
  <2>1. p.tries + 1 \in 0..MaxRetries
    BY <1>3, <1>7, CallConstants DEF Provider!Retry
  <2>2. q \in CallRecords /\ q.phase = "ready" /\ q.depth = p.depth /\ q.rounds = p.rounds
        /\ q.owed = p.owed
    BY <1>1, <2>1 DEF CallRecords, Provider!Phases
  <2>3. call' = [call EXCEPT ![c] = q] /\ p.phase = "sent"
    <3>1. /\ call' = [call EXCEPT ![c].phase = "ready", ![c].tries = @ + 1]
          /\ p.phase = "sent"
      BY <1>7 DEF Provider!Retry, Provider!At
    <3> QED
      BY <1>1, <3>1 DEF CallRecords
  <2> HIDE DEF q
  <2>4. Placed(c, q, c \in acquired, lock[LedgerOf[c]] = c) /\ Admitted(c, q)
    BY <1>2, <1>3, <2>2, <2>3 DEF Placed, Admitted, Working, Locked
  <2> QED
    BY <1>u, <2>2, <2>3, <2>4, MovesOn
<1>8. CASE Provider!Send(c) /\ c \notin stale
  <2> DEFINE q == [p EXCEPT !.phase = "sent"]
  <2>1. "sent" \in Provider!Phases
    BY DEF Provider!Phases
  <2>2. q \in CallRecords /\ q.phase = "sent" /\ q.depth = p.depth /\ q.rounds = p.rounds
        /\ q.owed = p.owed
    BY <1>1, <2>1, SetPhase
  <2>3. call' = [call EXCEPT ![c] = q] /\ p.phase = "ready"
    BY <1>1, <1>8 DEF Provider!Send, Provider!Goes, Provider!At
  <2> HIDE DEF q
  <2>4. Placed(c, q, c \in acquired, lock[LedgerOf[c]] = c) /\ Admitted(c, q)
    BY <1>2, <1>3, <2>2, <2>3 DEF Placed, Admitted, Working, Locked
  <2> QED
    BY <1>u, <2>2, <2>3, <2>4, MovesOn
<1>9. CASE Provider!Invalid(c) /\ p.rounds < MaxRepairs
  <2> DEFINE q == [p EXCEPT !.phase = "ready", !.rounds = p.rounds + 1]
  <2>1. p.rounds + 1 \in 0..MaxRepairs
    BY <1>3, <1>9, CallConstants
  <2>2. q \in CallRecords /\ q.phase = "ready" /\ q.depth = p.depth /\ q.rounds = p.rounds + 1
        /\ q.owed = p.owed
    BY <1>1, <2>1 DEF CallRecords, Provider!Phases
  <2>3. call' = [call EXCEPT ![c] = q] /\ p.phase = "answered"
    BY <1>1, <1>9 DEF Provider!Invalid, Provider!At, CallRecords
  <2> HIDE DEF q
  <2>4. Placed(c, q, c \in acquired, lock[LedgerOf[c]] = c) /\ Admitted(c, q)
    BY <1>2, <1>3, <2>2, <2>3 DEF Placed, Admitted, Working, Locked
  <2> QED
    BY <1>u, <2>2, <2>3, <2>4, MovesOn
<1>10. CASE Provider!Cancel(c)
  <2>1. call' = [call EXCEPT ![c] = p]
    BY <1>1, <1>10 DEF Provider!Cancel
  <2> HIDE DEF p
  <2> QED
    BY <1>u, <1>1, <1>2, <2>1, MovesOn DEF p
<1>11. CASE \/ Provider!GiveUp(c) \/ Provider!Refuse(c) \/ (Provider!Send(c) /\ c \in stale) \/ Provider!Discard(c) \/ Provider!Valid(c)
            \/ (Provider!Invalid(c) /\ ~(p.rounds < MaxRepairs)) \/ Provider!Fail(c)
  <2>1. p.phase \in {"ledger", "ceiling", "permit", "ready", "sent", "answered"}
    BY <1>11
       DEF Provider!GiveUp, Provider!Refuse, Provider!Send, Provider!Discard, Provider!Valid,
          Provider!Invalid, Provider!Fail, Provider!At
  <2>2. \E e \in {"none", "result", "error"} :
          call' = [call EXCEPT ![c].phase = Provider!Unwound(c), ![c].end = e]
    BY <1>11
       DEF Provider!GiveUp, Provider!Refuse, Provider!Send, Provider!Discard, Provider!Valid,
          Provider!Invalid, Provider!Fail, Provider!Raises
  <2> QED
    BY <1>u, <2>1, <2>2, Unwinds
<1> QED
  BY <1>4, <1>5, <1>6, <1>7, <1>8, <1>9, <1>10, <1>11

LEMMA TakesLedger ==
  ASSUME Provider!ProviderConstants, CallInvariant, NEW c \in Calls, Provider!TakeLedger(c)
  PROVE  \E q : Moved(c, q) /\ Touches(c, q)
<1> DEFINE p == call[c]
           q == [p EXCEPT !.phase = "ceiling"]
<1>1. p \in CallRecords /\ call \in [Calls -> CallRecords]
      /\ Placed(c, p, c \in acquired, lock[LedgerOf[c]] = c)
      /\ p.owed \in Nat /\ p.depth \in Nat
  BY PlaceOf
<1>2. "ceiling" \in Provider!Phases
  BY DEF Provider!Phases
<1>3. q \in CallRecords /\ q.phase = "ceiling" /\ q.depth = p.depth /\ q.owed = p.owed
  BY <1>1, <1>2, SetPhase
<1>4. call' = [call EXCEPT ![c] = q] /\ p.phase = "ledger"
  BY <1>1 DEF Provider!TakeLedger, Provider!Goes, Provider!At
<1> HIDE DEF q
<1>5. Provider!Deferred(c) /\ LedgerOf[c] \in Ledgers
  BY <1>1, <1>4, CallConstants DEF Placed, Provider!Deferred
<1>6. lock'[LedgerOf[c]] = c
  BY <1>5, CallTypes DEF CallInvariant, Provider!TakeLedger
<1>7. UNCHANGED <<free, acquired, recorded, lost, paid>>
  BY DEF Provider!TakeLedger
<1>8. Placed(c, q, c \in acquired', lock'[LedgerOf[c]] = c) /\ p.owed = 0
  BY <1>1, <1>3, <1>4, <1>5, <1>6, <1>7 DEF Placed, Working, Locked
<1>9. Moved(c, q)
  BY <1>3, <1>4, <1>8 DEF Moved
<1>10. Locks(c, q)
  BY <1>3, <1>5, <1>8 DEF Locks, Provider!TakeLedger
<1> QED
  BY <1>9, <1>10 DEF Touches

LEMMA TakesPermit ==
  ASSUME Provider!ProviderConstants, CallInvariant, NEW c \in Calls, Provider!TakePermit(c)
  PROVE  \E q : Moved(c, q) /\ Touches(c, q)
<1>0. PICK v \in {"permit", "ready"} : v = IF Provider!Nesting(c) > 1 THEN "permit" ELSE "ready"
  OBVIOUS
<1> DEFINE p == call[c]
           q == [p EXCEPT !.depth = 1, !.phase = v]
<1>1. p \in CallRecords /\ call \in [Calls -> CallRecords]
      /\ Placed(c, p, c \in acquired, lock[LedgerOf[c]] = c) /\ Admitted(c, p)
      /\ p.owed \in Nat /\ p.depth \in Nat /\ p.rounds \in 0..MaxRepairs
  BY PlaceOf
<1>2. v \in Provider!Phases /\ 1 \in Nat
  BY DEF Provider!Phases
<1>3. q \in CallRecords /\ q.phase = v /\ q.depth = 1 /\ q.owed = p.owed /\ q.rounds = p.rounds
  <2>1. p \in CallRecords
    BY <1>1
  <2> QED
    BY <1>2, <2>1 DEF CallRecords
<1>4. call' = [call EXCEPT ![c] = q] /\ p.phase = "permit" /\ p.depth = 0
  <2>1. /\ call' = [call EXCEPT ![c].depth = 1, ![c].phase = v]
        /\ p.phase = "permit" /\ p.depth = 0
    BY <1>0 DEF Provider!TakePermit, Provider!At
  <2> QED
    BY <1>1, <2>1
<1> HIDE DEF q
<1>5. /\ free > 0 /\ free' = free - 1 /\ acquired' = acquired \cup {c}
      /\ UNCHANGED <<lock, recorded, lost, paid>>
  BY DEF Provider!TakePermit
<1>6. Placed(c, q, c \in acquired', lock'[LedgerOf[c]] = c) /\ c \notin acquired
  BY <1>1, <1>3, <1>4, <1>5 DEF Placed, Working, Locked
<1>7. Moved(c, q)
  BY <1>1, <1>3, <1>4, <1>5, <1>6 DEF Moved, Admitted
<1>8. Takes(c, q)
  BY <1>3, <1>5, <1>6 DEF Takes
<1> QED
  BY <1>7, <1>8 DEF Touches

LEMMA Answers ==
  ASSUME Provider!ProviderConstants, CallInvariant, NEW c \in Calls, Provider!Answer(c)
  PROVE  \E q : Moved(c, q) /\ Touches(c, q)
<1> DEFINE p == call[c]
<1>1. p \in CallRecords /\ call \in [Calls -> CallRecords]
      /\ Placed(c, p, c \in acquired, lock[LedgerOf[c]] = c) /\ Admitted(c, p)
      /\ p.owed \in Nat /\ p.depth \in Nat /\ p.rounds \in 0..MaxRepairs
  BY PlaceOf
<1>2. p.phase = "sent" /\ p.owed <= p.rounds
  BY <1>1 DEF Provider!Answer, Provider!At, Placed
<1>3. PICK n \in 0..MaxRepairs + 1 : n = IF Provider!Deferred(c) THEN p.owed + 1 ELSE p.owed
  BY <1>1, <1>2, CallConstants
<1> DEFINE q == [p EXCEPT !.phase = "answered", !.tries = 0, !.owed = n]
<1>4. q \in CallRecords /\ q.phase = "answered" /\ q.depth = p.depth /\ q.owed = n
      /\ q.rounds = p.rounds
  <2>1. p \in CallRecords /\ 0 \in 0..MaxRetries
    BY <1>1, CallConstants
  <2> QED
    BY <1>3, <2>1 DEF CallRecords, Provider!Phases
<1>5. call' = [call EXCEPT ![c] = q]
  <2>1. call' = [call EXCEPT ![c].phase = "answered", ![c].tries = 0,
                             ![c].owed = IF Provider!Deferred(c) THEN @ + 1 ELSE @]
    BY DEF Provider!Answer
  <2>2. CASE Provider!Deferred(c)
    <3>1. call' = [call EXCEPT ![c].phase = "answered", ![c].tries = 0, ![c].owed = @ + 1]
      BY <2>1, <2>2
    <3>2. n = p.owed + 1
      BY <1>3, <2>2
    <3> QED
      BY <1>1, <3>1, <3>2 DEF CallRecords
  <2>3. CASE ~Provider!Deferred(c)
    <3>1. call' = [call EXCEPT ![c].phase = "answered", ![c].tries = 0, ![c].owed = @]
      BY <2>1, <2>3
    <3>2. n = p.owed
      BY <1>3, <2>3
    <3> QED
      BY <1>1, <3>1, <3>2 DEF CallRecords
  <2> QED
    BY <2>2, <2>3
<1> HIDE DEF q
<1>6. UNCHANGED <<free, acquired, lock, recorded, lost>>
  BY DEF Provider!Answer
<1>7. Placed(c, q, c \in acquired', lock'[LedgerOf[c]] = c)
  BY <1>1, <1>2, <1>3, <1>4, <1>6 DEF Placed, Working, Locked
<1>8. Moved(c, q)
  BY <1>1, <1>2, <1>4, <1>5, <1>6, <1>7 DEF Moved, Admitted
<1>9. CASE Provider!Deferred(c)
  <2>1. Pays(c, q)
    BY <1>1, <1>2, <1>3, <1>4, <1>6, <1>9 DEF Pays, Provider!Answer, Placed, Working, Locked
  <2> QED
    BY <1>8, <2>1 DEF Touches
<1>10. CASE ~Provider!Deferred(c)
  <2>1. Quiet(c, q)
    BY <1>3, <1>4, <1>6, <1>10 DEF Quiet, Shared, Provider!Answer
  <2> QED
    BY <1>8, <2>1 DEF Touches
<1> QED
  BY <1>9, <1>10

LEMMA RecordsAnswers ==
  ASSUME Provider!ProviderConstants, CallInvariant, NEW c \in Calls, NEW kept \in BOOLEAN, Provider!Record(c, kept)
  PROVE  \E q : Moved(c, q) /\ Touches(c, q)
<1> DEFINE p == call[c]
           q == [p EXCEPT !.phase = "leave", !.owed = 0]
<1>1. p \in CallRecords /\ call \in [Calls -> CallRecords]
      /\ Placed(c, p, c \in acquired, lock[LedgerOf[c]] = c) /\ Admitted(c, p)
      /\ p.owed \in Nat /\ p.depth \in Nat
  BY PlaceOf
<1>2. q \in CallRecords /\ q.phase = "leave" /\ q.depth = p.depth /\ q.owed = 0
  <2>1. p \in CallRecords /\ 0 \in 0..MaxRepairs + 1
    BY <1>1, CallConstants
  <2> QED
    BY <2>1 DEF CallRecords, Provider!Phases
<1>3. call' = [call EXCEPT ![c] = q] /\ p.phase = "record"
  <2>1. call' = [call EXCEPT ![c].phase = "leave", ![c].owed = 0] /\ p.phase = "record"
    BY DEF Provider!Record, Provider!At
  <2> QED
    BY <1>1, <2>1
<1> HIDE DEF q
<1>4. UNCHANGED <<free, acquired, lock, paid>>
  BY DEF Provider!Record
<1>5. Placed(c, q, c \in acquired', lock'[LedgerOf[c]] = c) /\ Provider!Deferred(c)
      /\ lock[LedgerOf[c]] = c
  BY <1>1, <1>2, <1>3, <1>4 DEF Placed, Working, Locked
<1>6. Moved(c, q)
  BY <1>2, <1>3, <1>5 DEF Moved
<1>7. Records(c, q)
  BY <1>1, <1>2, <1>3, <1>4, <1>5 DEF Records, Provider!Record, Admitted
<1> QED
  BY <1>6, <1>7 DEF Touches

LEMMA Leaves ==
  ASSUME Provider!ProviderConstants, CallInvariant, NEW c \in Calls, Provider!Leave(c)
  PROVE  \E q : Moved(c, q) /\ Touches(c, q)
<1> DEFINE p == call[c]
<1>1. p \in CallRecords /\ call \in [Calls -> CallRecords]
      /\ Placed(c, p, c \in acquired, lock[LedgerOf[c]] = c)
      /\ p.owed \in Nat /\ p.depth \in Nat
  BY PlaceOf
<1>2. p.phase = "leave" /\ p.depth > 0 /\ p.owed = 0 /\ c \in acquired
  BY <1>1 DEF Provider!Leave, Provider!At, Placed, Working
<1>3. PICK e \in {"none", "result", "error"} : e = Provider!Ended(c)
  BY <1>1 DEF Provider!Ended, CallRecords
<1>4. CASE p.depth = 1
  <2>1. PICK v \in {"unlock", "over"} : v = IF Provider!Deferred(c) THEN "unlock" ELSE "over"
    OBVIOUS
  <2> DEFINE q == [p EXCEPT !.depth = 0, !.end = e, !.phase = v]
  <2>2. v \in Provider!Phases /\ 0 \in Nat
    BY DEF Provider!Phases
  <2>3. q \in CallRecords /\ q.phase = v /\ q.depth = 0 /\ q.owed = p.owed
    <3>1. p \in CallRecords
      BY <1>1
    <3> QED
      BY <1>3, <2>2, <3>1 DEF CallRecords
  <2>4. call' = [call EXCEPT ![c] = q]
    <3>1. call' = [call EXCEPT ![c].depth = 0, ![c].end = e, ![c].phase = v]
      BY <1>3, <1>4, <2>1 DEF Provider!Leave
    <3> QED
      BY <1>1, <3>1
  <2> HIDE DEF q
  <2>5. /\ free' = free + 1 /\ acquired' = acquired \ {c}
        /\ UNCHANGED <<lock, recorded, lost, paid>>
    BY <1>4 DEF Provider!Leave
  <2>6. Placed(c, q, c \in acquired', lock'[LedgerOf[c]] = c)
    BY <1>1, <1>2, <2>1, <2>3, <2>5 DEF Placed, Working, Locked
  <2>7. Moved(c, q)
    BY <2>1, <2>3, <2>4, <2>6 DEF Moved
  <2>8. Returns(c, q)
    BY <1>2, <2>3, <2>5 DEF Returns
  <2> QED
    BY <2>7, <2>8 DEF Touches
<1>5. CASE p.depth # 1
  <2> DEFINE q == [p EXCEPT !.depth = p.depth - 1, !.end = e]
  <2>1. p.depth - 1 \in Nat /\ p.depth - 1 > 0
    BY <1>1, <1>2, <1>5
  <2>2. q \in CallRecords /\ q.phase = p.phase /\ q.depth = p.depth - 1 /\ q.owed = p.owed
    BY <1>1, <2>1 DEF CallRecords
  <2>3. call' = [call EXCEPT ![c] = q]
    <3>1. call' = [call EXCEPT ![c].depth = @ - 1, ![c].end = e]
      BY <1>3, <1>5 DEF Provider!Leave
    <3> QED
      BY <1>1, <3>1 DEF CallRecords
  <2> HIDE DEF q
  <2>4. UNCHANGED Shared
    BY <1>5 DEF Provider!Leave, Shared
  <2>5. Placed(c, q, c \in acquired, lock[LedgerOf[c]] = c) /\ Admitted(c, q)
    BY <1>1, <1>2, <2>1, <2>2 DEF Placed, Admitted, Working, Locked
  <2> QED
    BY <2>2, <2>3, <2>4, <2>5, MovesOn
<1> QED
  BY <1>4, <1>5

LEMMA UnlocksLedger ==
  ASSUME Provider!ProviderConstants, CallInvariant, NEW c \in Calls, Provider!Unlock(c)
  PROVE  \E q : Moved(c, q) /\ Touches(c, q)
<1> DEFINE p == call[c]
<1>1. p \in CallRecords /\ call \in [Calls -> CallRecords]
      /\ Placed(c, p, c \in acquired, lock[LedgerOf[c]] = c)
      /\ p.owed \in Nat /\ p.depth \in Nat
  BY PlaceOf
<1>2. PICK e \in {"none", "result", "error"} : e = Provider!Ended(c)
  BY <1>1 DEF Provider!Ended, CallRecords
<1> DEFINE q == [p EXCEPT !.phase = "over", !.end = e]
<1>3. "over" \in Provider!Phases
  BY DEF Provider!Phases
<1>4. q \in CallRecords /\ q.phase = "over" /\ q.depth = p.depth /\ q.owed = p.owed
  <2>1. p \in CallRecords
    BY <1>1
  <2> QED
    BY <1>2, <1>3, <2>1 DEF CallRecords
<1>5. call' = [call EXCEPT ![c] = q] /\ p.phase = "unlock"
  <2>1. call' = [call EXCEPT ![c].phase = "over", ![c].end = e] /\ p.phase = "unlock"
    BY <1>2 DEF Provider!Unlock, Provider!At
  <2> QED
    BY <1>1, <2>1
<1> HIDE DEF q
<1>6. Provider!Deferred(c) /\ LedgerOf[c] \in Ledgers /\ lock[LedgerOf[c]] = c
  BY <1>1, <1>5, CallConstants DEF Placed, Provider!Deferred, Locked
<1>7. lock'[LedgerOf[c]] # c
  BY <1>6, CallTypes, CallConstants DEF CallInvariant, Provider!Unlock
<1>8. UNCHANGED <<free, acquired, recorded, lost, paid>>
  BY DEF Provider!Unlock
<1>9. Placed(c, q, c \in acquired', lock'[LedgerOf[c]] = c) /\ p.owed = 0
  BY <1>1, <1>4, <1>5, <1>6, <1>7, <1>8 DEF Placed, Working, Locked
<1>10. Moved(c, q)
  BY <1>4, <1>5, <1>9 DEF Moved
<1>11. Unlocks(c, q)
  BY <1>4, <1>6, <1>9 DEF Unlocks, Provider!Unlock
<1> QED
  BY <1>10, <1>11 DEF Touches

LEMMA Steps ==
  ASSUME Provider!ProviderConstants, CallInvariant, NEW c \in Calls, Provider!Thread(c) \/ Provider!Cancel(c)
  PROVE  \E q : Moved(c, q) /\ Touches(c, q)
  BY QuietSteps, TakesLedger, TakesPermit, Answers, RecordsAnswers, Leaves, UnlocksLedger
     DEF Provider!Thread

-----------------------------------------------------------------------------
(* The invariant                                                            *)

LEMMA PermitsKept ==
  ASSUME Provider!ProviderConstants, CallInvariant, NEW c \in Calls, NEW q, Touches(c, q)
  PROVE  /\ acquired' \subseteq Calls /\ IsFiniteSet(acquired')
         /\ free' \in 0..Permits /\ free' + Cardinality(acquired') = Permits
         /\ \A d \in Calls \ {c} : d \in acquired' <=> d \in acquired
<1>1. /\ acquired \subseteq Calls /\ IsFiniteSet(acquired) /\ Cardinality(acquired) \in Nat
      /\ free \in 0..Permits /\ free + Cardinality(acquired) = Permits
  BY FS_CardinalityType, SameSize DEF CallInvariant, Provider!TypeOK
<1>2. CASE Takes(c, q)
  <2>1. IsFiniteSet(acquired') /\ Cardinality(acquired') = Cardinality(acquired) + 1
    BY <1>1, <1>2, FS_AddElement DEF Takes
  <2> QED
    BY <1>1, <1>2, <2>1, CallConstants DEF Takes
<1>3. CASE Returns(c, q)
  <2>1. IsFiniteSet(acquired') /\ Cardinality(acquired') = Cardinality(acquired) - 1
    BY <1>1, <1>3, FS_RemoveElement DEF Returns
  <2>2. Cardinality(acquired') \in Nat
    BY <2>1, FS_CardinalityType
  <2> QED
    BY <1>1, <1>3, <2>1, <2>2, CallConstants DEF Returns
<1>4. CASE UNCHANGED <<free, acquired>>
  BY <1>1, <1>4
<1> QED
  BY <1>2, <1>3, <1>4 DEF Touches, Quiet, Shared, Locks, Unlocks, Pays, Records

LEMMA LocksKept ==
  ASSUME Provider!ProviderConstants, CallInvariant, NEW c \in Calls, NEW q, Touches(c, q)
  PROVE  /\ lock' \in [Ledgers -> Calls \cup {None}]
         /\ \A d \in Calls \ {c} : Provider!Deferred(d) =>
              (lock'[LedgerOf[d]] = d <=> lock[LedgerOf[d]] = d)
<1>1. lock \in [Ledgers -> Calls \cup {None}] /\ None \notin Calls
  BY CallTypes, CallConstants DEF CallInvariant
<1>2. \A d \in Calls : Provider!Deferred(d) => LedgerOf[d] \in Ledgers
  BY CallConstants DEF Provider!Deferred
<1>3. CASE UNCHANGED lock
  BY <1>1, <1>3
<1>4. CASE Locks(c, q)
  BY <1>1, <1>2, <1>4 DEF Locks
<1>5. CASE Unlocks(c, q)
  BY <1>1, <1>2, <1>5 DEF Unlocks
<1> QED
  BY <1>3, <1>4, <1>5 DEF Touches, Quiet, Shared, Takes, Returns, Pays, Records

LEMMA LedgersKept ==
  ASSUME Provider!ProviderConstants, CallInvariant, NEW c \in Calls, NEW q, Moved(c, q), Touches(c, q)
  PROVE  /\ recorded' \in [Ledgers -> Nat] /\ lost' \in [Ledgers -> Nat]
         /\ paid' \in [Ledgers -> Nat]
         /\ \A l \in Ledgers : Balanced(l)'
         /\ \A l \in Ledgers : recorded'[l] # recorded[l] => lock[l] = c
<1>0. /\ recorded \in [Ledgers -> Nat] /\ lost \in [Ledgers -> Nat] /\ paid \in [Ledgers -> Nat]
      /\ lock \in [Ledgers -> Calls \cup {None}] /\ None \notin Calls
      /\ call \in [Calls -> CallRecords]
      /\ \A d \in Calls : call[d].owed \in 0..MaxRepairs + 1
      /\ q.owed \in 0..MaxRepairs + 1
  <2>1. \A d \in Calls : call[d] \in CallRecords
    BY CallTypes DEF CallInvariant
  <2>2. \A d \in CallRecords : d.owed \in 0..MaxRepairs + 1
    BY DEF CallRecords
  <2> QED
    BY <2>1, <2>2, CallTypes, CallConstants DEF CallInvariant, Moved
<1>1. \A l \in Ledgers : Balanced(l)
  BY DEF CallInvariant
<1>2. /\ call'[c] = q /\ \A d \in Calls \ {c} : call'[d] = call[d]
  BY <1>0 DEF Moved
<1>3. Provider!Deferred(c) => LedgerOf[c] \in Ledgers
  BY CallConstants DEF Provider!Deferred
<1>4. \A l \in Ledgers : Outstanding(l) \in Nat
  BY <1>0, CallConstants DEF Outstanding
<1>5. CASE UNCHANGED <<lock, recorded, lost, paid>> /\ q.owed = call[c].owed
  <2>1. \A d \in Calls : call'[d].owed = call[d].owed
    BY <1>2, <1>5
  <2> QED
    BY <1>0, <1>1, <1>5, <2>1 DEF Balanced, Outstanding
<1>6. CASE Locks(c, q) \/ Unlocks(c, q)
  <2>1. UNCHANGED <<recorded, lost, paid>>
    BY <1>6 DEF Locks, Unlocks
  <2>2. ASSUME NEW l \in Ledgers PROVE Balanced(l)'
    <3>1. CASE l = LedgerOf[c]
      <4>1. Outstanding(l) = 0
        BY <1>0, <1>6, <3>1 DEF Locks, Unlocks, Outstanding
      <4>2. lock'[l] \in {None, c} /\ q.owed = 0
        BY <1>0, <1>6, <3>1 DEF Locks, Unlocks
      <4>3. paid[l] = recorded[l] + lost[l] + 0 /\ recorded[l] <= Ceiling + MaxRepairs
        BY <1>1, <4>1 DEF Balanced
      <4>4. (IF lock'[l] = None THEN 0 ELSE call'[lock'[l]].owed) = 0
        BY <1>2, <4>2
      <4> QED
        BY <2>1, <3>1, <4>2, <4>3, <4>4 DEF Balanced, Outstanding
    <3>2. CASE l # LedgerOf[c]
      <4>1. lock'[l] = lock[l]
        BY <1>0, <1>6, <3>2 DEF Locks, Unlocks
      <4>2. lock[l] # c
        BY <1>0, <1>1, <3>2 DEF Balanced
      <4> QED
        BY <1>0, <1>1, <1>2, <2>1, <4>1, <4>2 DEF Balanced, Outstanding
    <3> QED
      BY <3>1, <3>2
  <2> QED
    BY <1>0, <2>1, <2>2
<1>7. CASE Pays(c, q) \/ Records(c, q)
  <2> DEFINE l0 == LedgerOf[c]
             n == call[c].owed
  <2>1. l0 \in Ledgers /\ lock[l0] = c /\ UNCHANGED lock
    BY <1>3, <1>7 DEF Pays, Records
  <2>2. /\ n \in 0..MaxRepairs + 1 /\ recorded[l0] \in Nat /\ lost[l0] \in Nat /\ paid[l0] \in Nat
        /\ paid[l0] = recorded[l0] + lost[l0] + n /\ recorded[l0] <= Ceiling + MaxRepairs
    BY <1>0, <1>1, <2>1 DEF Balanced, Outstanding
  <2>3. /\ \A l \in Ledgers \ {l0} :
             recorded'[l] = recorded[l] /\ lost'[l] = lost[l] /\ paid'[l] = paid[l]
        /\ \/ /\ q.owed = n + 1 /\ paid'[l0] = paid[l0] + 1
              /\ recorded'[l0] = recorded[l0] /\ lost'[l0] = lost[l0]
           \/ /\ q.owed = 0 /\ paid'[l0] = paid[l0] /\ recorded[l0] < Ceiling
              /\ recorded'[l0] = recorded[l0] + n /\ lost'[l0] = lost[l0]
           \/ /\ q.owed = 0 /\ paid'[l0] = paid[l0]
              /\ recorded'[l0] = recorded[l0] /\ lost'[l0] = lost[l0] + n
    BY <1>0, <1>7, <2>1 DEF Pays, Records
  <2>4. /\ recorded' \in [Ledgers -> Nat] /\ lost' \in [Ledgers -> Nat]
        /\ paid' \in [Ledgers -> Nat]
    <3>1. CASE Pays(c, q)
      BY <1>0, <2>1, <2>2, <3>1 DEF Pays
    <3>2. CASE Records(c, q)
      BY <1>0, <2>1, <2>2, <3>2, CallConstants DEF Records
    <3> QED
      BY <1>7, <3>1, <3>2
  <2>5. ASSUME NEW l \in Ledgers PROVE Balanced(l)'
    <3>1. CASE l = l0
      <4>1. lock'[l] = c /\ call'[c].owed = q.owed /\ c # None /\ LedgerOf[c] = l
        BY <1>0, <1>2, <2>1, <3>1
      <4>2. /\ paid'[l0] = recorded'[l0] + lost'[l0] + q.owed
            /\ recorded'[l0] <= Ceiling + MaxRepairs
        <5> HIDE DEF l0, n
        <5> QED
          BY <1>0, <2>2, <2>3, CallConstants
      <4> QED
        BY <3>1, <4>1, <4>2 DEF Balanced, Outstanding
    <3>2. CASE l # l0
      <4>1. lock[l] # c
        BY <1>0, <1>1, <3>2 DEF Balanced
      <4> QED
        BY <1>0, <1>1, <1>2, <2>1, <2>3, <3>2, <4>1 DEF Balanced, Outstanding
    <3> QED
      BY <3>1, <3>2
  <2> QED
    BY <2>1, <2>3, <2>4, <2>5
<1> QED
  BY <1>5, <1>6, <1>7 DEF Touches, Quiet, Shared, Takes, Returns

LEMMA InvariantStep ==
  ASSUME Provider!ProviderConstants, CallInvariant, [Provider!Next]_Provider!vars
  PROVE  CallInvariant'
<1>1. CASE UNCHANGED Provider!vars
  BY <1>1
     DEF Provider!vars, CallInvariant, Provider!TypeOK, Placed, Admitted, Balanced, Outstanding
<1>2. ASSUME NEW c \in Calls, Provider!Thread(c) \/ Provider!Cancel(c) PROVE CallInvariant'
  <2>1. PICK q : Moved(c, q) /\ Touches(c, q)
    BY <1>2, Steps
  <2>2. call \in [Calls -> CallRecords]
    BY CallTypes DEF CallInvariant
  <2>3. /\ call' \in [Calls -> CallRecords] /\ call'[c] = q
        /\ \A d \in Calls \ {c} : call'[d] = call[d]
    BY <2>1, <2>2 DEF Moved
  <2>4. stale' \subseteq Calls
    BY <1>2
       DEF CallInvariant, Provider!TypeOK, Provider!Cancel, Provider!Thread, Provider!Generate,
          Provider!GiveUp, Provider!TakeLedger, Provider!Admit, Provider!Refuse,
                Provider!TakePermit, Provider!Nest, Provider!Send, Provider!Discard,
                Provider!Valid, Provider!Invalid, Provider!Retry, Provider!Fail,
                Provider!Answer, Provider!Record,
                Provider!Leave, Provider!Unlock, Provider!Untouched
  <2>5. Provider!TypeOK'
    BY <2>1, <2>3, <2>4, PermitsKept, LocksKept, LedgersKept, SameSize
       DEF Provider!TypeOK, CallRecords
  <2>6. ASSUME NEW d \in Calls
        PROVE Placed(d, call'[d], d \in acquired', lock'[LedgerOf[d]] = d)
    <3>1. CASE d = c
      BY <2>1, <2>3, <3>1 DEF Moved
    <3>2. CASE d # c
      <4>1. /\ Placed(d, call[d], d \in acquired, lock[LedgerOf[d]] = d) /\ call'[d] = call[d]
            /\ d \in acquired' <=> d \in acquired
            /\ Provider!Deferred(d) => (lock'[LedgerOf[d]] = d <=> lock[LedgerOf[d]] = d)
        BY <2>1, <2>3, <3>2, PermitsKept, LocksKept DEF CallInvariant
      <4> QED
        BY <4>1 DEF Placed
    <3> QED
      BY <3>1, <3>2
  <2>7. ASSUME NEW d \in Calls, Provider!Deferred(d),
               call'[d].phase \in {"permit", "ready", "sent", "answered", "record"}
        PROVE  recorded'[LedgerOf[d]] < Ceiling
    <3>1. CASE d = c
      BY <2>1, <2>3, <2>7, <3>1 DEF Moved
    <3>2. CASE d # c
      <4>1. Admitted(d, call[d]) /\ call'[d] = call[d]
            /\ Placed(d, call[d], d \in acquired, lock[LedgerOf[d]] = d)
        BY <2>3, <3>2 DEF CallInvariant
      <4>2. lock[LedgerOf[d]] = d /\ LedgerOf[d] \in Ledgers
        BY <2>7, <4>1, CallConstants DEF Placed, Provider!Deferred, Working, Locked
      <4>3. recorded'[LedgerOf[d]] = recorded[LedgerOf[d]]
        BY <2>1, <3>2, <4>2, LedgersKept
      <4> QED
        BY <2>7, <4>1, <4>3 DEF Admitted
    <3> QED
      BY <3>1, <3>2
  <2> QED
    BY <2>1, <2>5, <2>6, <2>7, PermitsKept, LedgersKept DEF CallInvariant, Admitted
<1> QED
  BY <1>1, <1>2 DEF Provider!Next

LEMMA CallsInductive == ASSUME Provider!ProviderConstants PROVE Provider!Spec => []CallInvariant
<1>1. Provider!Init => CallInvariant
  BY CallsBegin
<1>2. CallInvariant /\ [Provider!Next]_Provider!vars => CallInvariant'
  BY InvariantStep
<1> QED
  BY <1>1, <1>2, PTL DEF Provider!Spec

-----------------------------------------------------------------------------
(* Theorems                                                                 *)

\* Type correctness: the loops keep their bounds and no permit is lost or made.
THEOREM CallTypeCorrect ==
  ASSUME Provider!ProviderConstants
  PROVE  Provider!Spec => []Provider!TypeOK
<1>1. CallInvariant => Provider!TypeOK
  BY DEF CallInvariant
<1> QED
  BY <1>1, CallsInductive, PTL

\* No more requests are at the provider at once than there are permits.
THEOREM Bounded ==
  ASSUME Provider!ProviderConstants
  PROVE  Provider!Spec => []Provider!RequestsBounded
<1>1. CallInvariant => Provider!RequestsBounded
  <2> SUFFICES ASSUME CallInvariant PROVE Provider!RequestsBounded
    OBVIOUS
  <2> DEFINE S == {c \in Calls : Provider!At(c, "sent")}
  <2>1. S \subseteq acquired
    BY CallTypes DEF CallInvariant, Placed, Working, Provider!At, CallRecords
  <2>2. IsFiniteSet(acquired) /\ free \in 0..Permits /\ free + Cardinality(acquired) = Permits
    BY SameSize DEF CallInvariant, Provider!TypeOK
  <2>3. Cardinality(S) <= Cardinality(acquired) /\ IsFiniteSet(S)
    BY <2>1, <2>2, FS_Subset
  <2>4. Cardinality(S) \in Nat /\ Cardinality(acquired) \in Nat
    BY <2>2, <2>3, FS_CardinalityType
  <2> QED
    BY <2>2, <2>3, <2>4, CallConstants, SameSize DEF Provider!RequestsBounded
<1> QED
  BY <1>1, CallsInductive, PTL

\* No call holds a permit while it waits for a ledger.
THEOREM AtWork ==
  ASSUME Provider!ProviderConstants
  PROVE  Provider!Spec => []Provider!PermitsAtWork
<1>1. CallInvariant => Provider!PermitsAtWork
  <2> SUFFICES ASSUME CallInvariant, NEW c \in acquired
               PROVE ~Provider!At(c, "ledger") /\ ~Provider!At(c, "ceiling")
    BY DEF Provider!PermitsAtWork
  <2>1. c \in Calls
    BY DEF CallInvariant, Provider!TypeOK
  <2>2. Placed(c, call[c], c \in acquired, lock[LedgerOf[c]] = c)
    BY <2>1 DEF CallInvariant
  <2> QED
    BY <2>1, <2>2 DEF Placed, Working, Provider!At
<1> QED
  BY <1>1, CallsInductive, PTL

\* One generation may cross the ceiling of a ledger, however many wait for its
\* lock; beyond that it exceeds the ceiling only by what could not be recorded.
THEOREM OneOver == ASSUME Provider!ProviderConstants PROVE Provider!Spec => []OneGenerationOver
<1>1. CallInvariant => OneGenerationOver
  <2> SUFFICES ASSUME CallInvariant, NEW l \in Ledgers, paid[l] > 0
               PROVE  paid[l] <= Ceiling - 1 + (MaxRepairs + 1) + lost[l]
    BY DEF OneGenerationOver, Provider!OneGenerationOver
  <2>1. Balanced(l) /\ recorded[l] \in Nat /\ lost[l] \in Nat /\ paid[l] \in Nat
    BY CallTypes DEF CallInvariant
  <2>2. CASE lock[l] = None \/ call[lock[l]].owed = 0
    BY <2>1, <2>2, CallConstants DEF Balanced, Outstanding
  <2>3. CASE lock[l] # None /\ call[lock[l]].owed # 0
    <3>1. PICK c \in Calls : lock[l] = c
      BY <2>3, CallTypes DEF CallInvariant
    <3>2. /\ call[c].owed \in 0..MaxRepairs + 1 /\ call[c].owed > 0
          /\ Placed(c, call[c], c \in acquired, lock[LedgerOf[c]] = c) /\ Admitted(c, call[c])
      BY <2>3, <3>1, PlaceOf, CallConstants DEF CallRecords
    <3>3. Provider!Deferred(c) /\ LedgerOf[c] = l
      BY <2>1, <2>3, <3>1, CallConstants DEF Balanced, Provider!Deferred
    <3>4. recorded[l] < Ceiling
      BY <3>2, <3>3 DEF Placed, Admitted
    <3> QED
      BY <2>1, <2>3, <3>1, <3>2, <3>4, CallConstants DEF Balanced, Outstanding
  <2> QED
    BY <2>2, <2>3
<1> QED
  BY <1>1, CallsInductive, PTL

\* Every answer that was paid is on the ledger, owed by the call that holds its
\* lock, or lost in a failed write.
THEOREM Accounted ==
  ASSUME Provider!ProviderConstants
  PROVE  Provider!Spec => []Provider!AnswersAccounted
<1>1. CallInvariant => Provider!AnswersAccounted
  <2> SUFFICES ASSUME CallInvariant PROVE Provider!AnswersAccounted
    OBVIOUS
  <2>1. \A l \in Ledgers : Balanced(l)
    BY DEF CallInvariant
  <2>2. ASSUME NEW c \in Calls, call[c].owed > 0 PROVE lock[LedgerOf[c]] = c
    <3>1. Placed(c, call[c], c \in acquired, lock[LedgerOf[c]] = c)
      BY DEF CallInvariant
    <3> QED
      BY <2>2, <3>1 DEF Placed, Locked, Working
  <2> QED
    BY <2>1, <2>2 DEF Provider!AnswersAccounted, Balanced, Outstanding
<1> QED
  BY <1>1, CallsInductive, PTL
=============================================================================
