--------------------------- MODULE Accounts_proofs ---------------------------
(***************************************************************************)
(* Proofs about who may do what: the requests of a SaaS tenant (TodoSaas), *)
(* for every number of handlers, intents, requests and minutes, every      *)
(* quota and every rate; and the grants of IAM (IamGrants, as the instance *)
(* Iam), for every tree of accounts, every set of grants and any number of *)
(* requests between their check and their insert.                          *)
(***************************************************************************)
EXTENDS MCAccounts, FiniteSetTheorems, TLAPS

-----------------------------------------------------------------------------
(* TodoSaas.                                                               *)

USE SaasAssumption, HandlersAssumption

HandlerStep(h) ==
  \/ Arrive(h) \/ Incr(h) \/ Expire(h) \/ Read(h) \/ Delete(h) \/ LookUp(h)
  \/ SelectPlan(h) \/ CountTodos(h) \/ Insert(h) \/ Store(h) \/ Fails(h)

(* Next, with the steps of a handler under one name. *)
LEMMA NextCases ==
  ASSUME Next
  PROVE  \/ \E h \in Handler : HandlerStep(h)
         \/ \E p \in {"free", "pro"} : handle_event(p)
         \/ NextMinute
         \/ \E m \in Minute : CounterExpires(m)
         \/ \E i \in Intent : ResponseExpires(i)
BY DEF Next, HandlerStep

(* Goto moves the handler and touches none of its locals. *)
LEMMA GotoType ==
  ASSUME TypeOK, NEW h \in Handler, NEW s \in Steps, Goto(h, s)
  PROVE  /\ pc' \in [Handler -> Steps]
         /\ UNCHANGED <<op, window, made, outcome>>
BY DEF TypeOK, Goto, request

(* Return clears the locals of the handler, and they keep their types. *)
LEMMA ReturnType ==
  ASSUME TypeOK, NEW h \in Handler, NEW o \in Outcomes, Return(h, o)
  PROVE  /\ pc' \in [Handler -> Steps]
         /\ op' \in [Handler -> Intent \cup {"plain", "other"}]
         /\ window' \in [Handler -> Minute]
         /\ made' \in [Handler -> Nat]
         /\ outcome' \in [Handler -> Outcomes]
BY DEF TypeOK, Return, Steps, Minute

(* The state of the handlers is well typed. *)
HandlerTypes ==
  /\ pc \in [Handler -> Steps]
  /\ op \in [Handler -> Intent \cup {"plain", "other"}]
  /\ window \in [Handler -> Minute]
  /\ made \in [Handler -> Nat]
  /\ outcome \in [Handler -> Outcomes]

(* Every way in which a handler moves on keeps them so. *)
LEMMA HandlersTyped ==
  ASSUME TypeOK, NEW h \in Handler,
         \/ \E s \in Steps : Goto(h, s)
         \/ \E o \in Outcomes : Return(h, o)
         \/ Admitted(h)
  PROVE  HandlerTypes'
<1>1. ASSUME NEW s \in Steps, Goto(h, s) PROVE HandlerTypes'
  BY <1>1, GotoType DEF HandlerTypes, TypeOK
<1>2. ASSUME NEW o \in Outcomes, Return(h, o) PROVE HandlerTypes'
  BY <1>2, ReturnType DEF HandlerTypes, TypeOK
<1>3. ASSUME Admitted(h) PROVE \E s \in Steps : Goto(h, s)
  BY <1>3 DEF Admitted, Steps
<1> QED
  BY <1>1, <1>2, <1>3

(* Every step of a handler keeps the types. *)
LEMMA HandlerTypeOK ==
  ASSUME TypeOK, KeyInv, NEW h \in Handler, HandlerStep(h)
  PROVE  TypeOK'
<1> USE DEF HandlerTypes, redis, table, keyHistory, quotaHistory, Steps, Outcomes
<1>1. CASE Arrive(h)
  BY <1>1 DEF Arrive, TypeOK
<1>2. CASE Incr(h)
  <2>1. HandlerTypes'
    BY <1>2, HandlersTyped DEF Incr
  <2>2. window[h] \in Minute /\ hits[window[h]] + 1 \in Nat
    BY DEF TypeOK
  <2>3. hits' \in [Minute -> Nat]
    BY <1>2, <2>2 DEF Incr, TypeOK
  <2>4. inTime' \in [Minute -> Nat]
    <3>1. inTime' \in {inTime, [inTime EXCEPT ![window[h]] = @ + 1]}
      BY <1>2 DEF Incr
    <3> QED
      BY <3>1, <2>2 DEF TypeOK
  <2> QED
    BY <1>2, <2>1, <2>3, <2>4 DEF Incr, TypeOK
<1>3. CASE Expire(h)
  <2>1. HandlerTypes'
    BY <1>3, HandlersTyped DEF Expire
  <2> QED
    BY <1>3, <2>1 DEF Expire, TypeOK
<1>4. CASE Read(h)
  BY <1>4, HandlersTyped DEF Read, TypeOK
<1>5. CASE Delete(h)
  BY <1>5, HandlersTyped DEF Delete, delete, TypeOK
<1>6. CASE LookUp(h)
  <2>1. HandlerTypes'
    BY <1>6, HandlersTyped DEF LookUp
  <2>2. op[h] \in Intent
    BY <1>6 DEF LookUp, At, KeyInv, Keyed
  <2>3. excused' \subseteq Intent
    BY <1>6, <2>2 DEF LookUp, TypeOK
  <2>4. replayed' \in [Intent -> SUBSET Id]
    <3>1. replayed' \in {replayed, [replayed EXCEPT ![op[h]] = @ \cup idem[op[h]]]}
      BY <1>6 DEF LookUp
    <3> QED
      BY <3>1, <2>2 DEF TypeOK
  <2> QED
    BY <1>6, <2>1, <2>3, <2>4 DEF LookUp, TypeOK
<1>7. CASE SelectPlan(h)
  BY <1>7, HandlersTyped DEF SelectPlan, TypeOK
<1>8. CASE CountTodos(h)
  BY <1>8, HandlersTyped DEF CountTodos, TypeOK
<1>9. CASE Insert(h)
  <2>1. HandlerTypes'
    <3>1. CASE Keyed(h) /\ pc' = [pc EXCEPT ![h] = "store"]
               /\ made' = [made EXCEPT ![h] = serial + 1]
               /\ UNCHANGED <<op, window, outcome, excused>>
      BY <3>1 DEF TypeOK
    <3>2. CASE \E o \in Outcomes : Return(h, o)
      BY <3>2, HandlersTyped
    <3> QED
      BY <1>9, <3>1, <3>2 DEF Insert
  <2>2. created' \in [Intent -> SUBSET Id] /\ todos' \subseteq Id /\ serial' \in Nat
    BY <1>9 DEF Insert, TypeOK, Id
  <2>3. excused' \subseteq Intent
    BY <1>9 DEF Insert, TypeOK
  <2> QED
    BY <1>9, <2>1, <2>2, <2>3 DEF Insert, TypeOK
<1>10. CASE Store(h)
  <2>1. HandlerTypes'
    BY <1>10, HandlersTyped DEF Store
  <2>2. op[h] \in Intent /\ made[h] \in Id
    BY <1>10 DEF Store, At, KeyInv, Keyed, TypeOK, Id
  <2>3. idem' \in [Intent -> SUBSET Id]
    BY <1>10, <2>2 DEF Store, TypeOK
  <2> QED
    BY <1>10, <2>1, <2>3 DEF Store, TypeOK
<1>11. CASE Fails(h)
  <2>1. HandlerTypes'
    BY <1>11, HandlersTyped DEF Fails
  <2>2. excused' \subseteq Intent
    BY <1>11 DEF Fails, At, KeyInv, Keyed, TypeOK
  <2> QED
    BY <1>11, <2>1, <2>2 DEF Fails, TypeOK
<1> QED
  BY <1>1, <1>2, <1>3, <1>4, <1>5, <1>6, <1>7, <1>8, <1>9, <1>10, <1>11
     DEF HandlerStep

(* The steps of the clock, of Redis and of the billing service keep them.  *)
LEMMA OtherTypeOK ==
  ASSUME TypeOK,
         \/ \E p \in {"free", "pro"} : handle_event(p)
         \/ NextMinute
         \/ \E m \in Minute : CounterExpires(m)
         \/ \E i \in Intent : ResponseExpires(i)
  PROVE  TypeOK'
<1> USE DEF redis, table, request, keyHistory, quotaHistory
<1>1. ASSUME NEW p \in {"free", "pro"}, handle_event(p) PROVE TypeOK'
  BY <1>1 DEF handle_event, TypeOK
<1>2. CASE NextMinute
  BY <1>2 DEF NextMinute, TypeOK, Minute
<1>3. ASSUME NEW m \in Minute, CounterExpires(m) PROVE TypeOK'
  BY <1>3 DEF CounterExpires, TypeOK
<1>4. ASSUME NEW i \in Intent, ResponseExpires(i) PROVE TypeOK'
  BY <1>4 DEF ResponseExpires, TypeOK
<1> QED
  BY <1>1, <1>2, <1>3, <1>4

(* Every step keeps the types. *)
LEMMA StepTypeOK ==
  ASSUME TypeOK, KeyInv, [Next]_vars
  PROVE  TypeOK'
<1>1. CASE Next
  BY <1>1, NextCases, HandlerTypeOK, OtherTypeOK
<1>2. CASE UNCHANGED vars
  BY <1>2 DEF vars, redis, table, request, keyHistory, quotaHistory, TypeOK
<1> QED
  BY <1>1, <1>2

-----------------------------------------------------------------------------
(* Where a step of one handler leaves the others as they are. *)
LEMMA OthersStay ==
  ASSUME TypeOK, NEW h \in Handler, HandlerStep(h),
         NEW d \in Handler, d # h
  PROVE  pc'[d] = pc[d] /\ op'[d] = op[d] /\ made'[d] = made[d]
                        /\ outcome'[d] = outcome[d]
<1> USE DEF TypeOK, Goto, Return, request
<1>1. CASE Arrive(h)
  BY <1>1 DEF Arrive
<1>2. CASE Incr(h) \/ Expire(h)
  BY <1>2 DEF Incr, Expire, Admitted
<1>3. CASE Read(h) \/ Delete(h) \/ LookUp(h)
  BY <1>3 DEF Read, Delete, LookUp
<1>4. CASE SelectPlan(h) \/ CountTodos(h)
  BY <1>4 DEF SelectPlan, CountTodos
<1>5. CASE Insert(h) \/ Store(h) \/ Fails(h)
  BY <1>5 DEF Insert, Store, Fails
<1> QED
  BY <1>1, <1>2, <1>3, <1>4, <1>5 DEF HandlerStep

(* The steps that are no handler's leave the handlers as they are. *)
LEMMA OtherPc ==
  ASSUME \/ \E p \in {"free", "pro"} : handle_event(p)
         \/ NextMinute
         \/ \E m \in Minute : CounterExpires(m)
         \/ \E i \in Intent : ResponseExpires(i)
  PROVE  UNCHANGED <<pc, op, made, outcome, todos, created, replayed>>
BY DEF handle_event, NextMinute, CounterExpires, ResponseExpires,
       request, redis, table, keyHistory

(* A request looks for a response, or stores one, only with a key. *)
LEMMA StepKeyInv ==
  ASSUME TypeOK, KeyInv, [Next]_vars
  PROVE  KeyInv'
<1> USE DEF KeyInv, Keyed, At
<1>1. ASSUME NEW h \in Handler, HandlerStep(h) PROVE KeyInv'
  <2>1. /\ pc'[h] \in {"lookup", "store"} => op'[h] \in Intent
        /\ pc'[h] = "store" => made'[h] # 0
    <3> USE DEF TypeOK, Goto, Return, request
    <3>1. CASE Arrive(h)
      BY <3>1 DEF Arrive
    <3>2. CASE Incr(h) \/ Expire(h)
      BY <3>2 DEF Incr, Expire, Admitted
    <3>3. CASE Read(h) \/ Delete(h) \/ LookUp(h)
      BY <3>3 DEF Read, Delete, LookUp
    <3>4. CASE SelectPlan(h) \/ CountTodos(h)
      BY <3>4 DEF SelectPlan, CountTodos
    <3>5. CASE Insert(h)
      BY <3>5 DEF Insert
    <3>6. CASE Store(h) \/ Fails(h)
      BY <3>6 DEF Store, Fails
    <3> QED
      BY <1>1, <3>1, <3>2, <3>3, <3>4, <3>5, <3>6 DEF HandlerStep
  <2> QED
    BY <1>1, <2>1, OthersStay
<1>2. CASE \/ \E p \in {"free", "pro"} : handle_event(p)
           \/ NextMinute
           \/ \E m \in Minute : CounterExpires(m)
           \/ \E i \in Intent : ResponseExpires(i)
  BY <1>2, OtherPc
<1>3. CASE UNCHANGED vars
  BY <1>3 DEF vars, request
<1> QED
  BY <1>1, <1>2, <1>3, NextCases

-----------------------------------------------------------------------------
(* The quota: what a handler's step does to the rows and to the handlers   *)
(* that are about to insert.                                               *)
LEMMA QuotaStep ==
  ASSUME TypeOK, QuotaInv, NEW h \in Handler, HandlerStep(h)
  PROVE  /\ UNCHANGED <<plan, paid>>
         /\ \/ todos' \subseteq todos /\ Inserting' \subseteq Inserting
            \/ At(h, "count") /\ Cardinality(todos) < Limit /\ UNCHANGED todos
            \/ At(h, "insert") /\ pc'[h] # "insert"
                 /\ todos' = todos \cup {serial + 1}
            \/ plan = "pro" /\ UNCHANGED todos
<1> USE DEF TypeOK, Goto, Return, request, redis, table, keyHistory,
            quotaHistory, At
<1>0. pc'[h] # "insert" => Inserting' \subseteq Inserting
  BY OthersStay DEF Inserting
<1>1. CASE Arrive(h)
  BY <1>0, <1>1 DEF Arrive
<1>2. CASE Incr(h) \/ Expire(h)
  BY <1>0, <1>2 DEF Incr, Expire, Admitted
<1>3. CASE Read(h) \/ LookUp(h)
  BY <1>0, <1>3 DEF Read, LookUp
<1>4. CASE Delete(h)
  BY <1>0, <1>4 DEF Delete, delete
<1>5. CASE SelectPlan(h)
  BY <1>0, <1>5 DEF SelectPlan
<1>6. CASE CountTodos(h)
  <2>1. CASE Cardinality(todos) >= Limit
    BY <1>0, <1>6, <2>1 DEF CountTodos
  <2>2. CASE ~(Cardinality(todos) >= Limit)
    <3>1. Cardinality(todos) \in Nat
      BY FS_CardinalityType DEF QuotaInv
    <3> QED
      BY <1>6, <2>2, <3>1 DEF CountTodos
  <2> QED
    BY <2>1, <2>2
<1>7. CASE Insert(h)
  BY <1>7 DEF Insert
<1>8. CASE Store(h) \/ Fails(h)
  BY <1>0, <1>8 DEF Store, Fails
<1> QED
  BY <1>1, <1>2, <1>3, <1>4, <1>5, <1>6, <1>7, <1>8 DEF HandlerStep

(* The rows and the handlers about to insert stay below the bound.         *)
LEMMA StepQuotaInv ==
  ASSUME TypeOK, QuotaInv, [Next]_vars
  PROVE  QuotaInv'
<1> DEFINE N == Cardinality(Handler)
<1>1. N \in Nat /\ Cardinality(todos) \in Nat /\ Cardinality(Inserting) \in Nat
      /\ IsFiniteSet(Inserting)
  <2>1. IsFiniteSet(Inserting)
    BY FS_Subset DEF Inserting
  <2> QED
    BY <2>1, FS_CardinalityType DEF QuotaInv
<1>2. ASSUME NEW h \in Handler, HandlerStep(h) PROVE QuotaInv'
  <2>1. UNCHANGED <<plan, paid>>
    BY <1>2, QuotaStep
  <2>2. CASE todos' \subseteq todos /\ Inserting' \subseteq Inserting
    <3>1. /\ IsFiniteSet(todos') /\ Cardinality(todos') \in Nat
          /\ Cardinality(todos') <= Cardinality(todos)
      BY <2>2, FS_Subset, FS_CardinalityType DEF QuotaInv
    <3>2. /\ Cardinality(Inserting') \in Nat
          /\ Cardinality(Inserting') <= Cardinality(Inserting)
      BY <1>1, <2>2, FS_Subset, FS_CardinalityType
    <3> QED
      BY <1>1, <2>1, <3>1, <3>2 DEF QuotaInv
  <2>3. CASE At(h, "count") /\ Cardinality(todos) < Limit /\ UNCHANGED todos
    <3>1. Cardinality(Inserting') \in Nat /\ Cardinality(Inserting') <= N
      <4>1. Inserting' \subseteq Handler
        BY DEF Inserting
      <4> QED
        BY <4>1, FS_Subset, FS_CardinalityType
    <3> QED
      BY <1>1, <2>1, <2>3, <3>1 DEF QuotaInv
  <2>4. CASE At(h, "insert") /\ pc'[h] # "insert"
              /\ todos' = todos \cup {serial + 1}
    <3>1. IsFiniteSet(todos') /\ Cardinality(todos') \in Nat
          /\ Cardinality(todos') <= Cardinality(todos) + 1
      <4>1. IsFiniteSet(todos)
        BY DEF QuotaInv
      <4>2. /\ IsFiniteSet(todos \cup {serial + 1})
            /\ Cardinality(todos \cup {serial + 1})
                 \in {Cardinality(todos), Cardinality(todos) + 1}
        BY <4>1, FS_AddElement
      <4> QED
        BY <1>1, <2>4, <4>2
    <3>2. h \in Inserting /\ Inserting' = Inserting \ {h}
      BY <1>2, <2>4, OthersStay DEF Inserting, At
    <3>3. Cardinality(Inserting') = Cardinality(Inserting) - 1
      BY <1>1, <3>2, FS_RemoveElement
    <3> QED
      BY <1>1, <2>1, <3>1, <3>3 DEF QuotaInv
  <2>5. CASE plan = "pro" /\ UNCHANGED todos
    BY <2>1, <2>5 DEF QuotaInv
  <2> QED
    BY <1>2, <2>2, <2>3, <2>4, <2>5, QuotaStep
<1>3. ASSUME NEW p \in {"free", "pro"}, handle_event(p) PROVE QuotaInv'
  BY <1>3 DEF handle_event, QuotaInv, Inserting, At
<1>4. CASE \/ NextMinute
           \/ \E m \in Minute : CounterExpires(m)
           \/ \E i \in Intent : ResponseExpires(i)
           \/ UNCHANGED vars
  <2>1. UNCHANGED <<plan, todos, paid, pc>>
    BY <1>4 DEF NextMinute, CounterExpires, ResponseExpires, vars, table,
                quotaHistory
  <2> QED
    BY <2>1 DEF QuotaInv, Inserting, At
<1> QED
  BY <1>2, <1>3, <1>4, NextCases

-----------------------------------------------------------------------------
(* What a handler's own step does to its answer and to wasFree. *)
LEMMA PlanStep ==
  ASSUME TypeOK, PlanInv, NEW h \in Handler, HandlerStep(h)
  PROVE  /\ plan' = plan
         /\ \A d \in Handler \ {h} : wasFree'[d] = wasFree[d]
         /\ outcome'[h] = "QuotaExceeded" => wasFree'[h]
         /\ pc'[h] = "count" => wasFree'[h]
         /\ (pc'[h] # "idle" /\ plan = "free") => wasFree'[h]
<1> USE DEF TypeOK, PlanInv, Goto, Return, request, redis, table, keyHistory,
            quotaHistory, At
<1>1. CASE Arrive(h)
  BY <1>1 DEF Arrive
<1>2. CASE Incr(h) \/ Expire(h)
  BY <1>2 DEF Incr, Expire, Admitted
<1>3. CASE Read(h) \/ Delete(h) \/ LookUp(h)
  BY <1>3 DEF Read, Delete, LookUp
<1>4. CASE SelectPlan(h)
  BY <1>4 DEF SelectPlan
<1>5. CASE CountTodos(h)
  BY <1>5 DEF CountTodos
<1>6. CASE Insert(h) \/ Store(h) \/ Fails(h)
  BY <1>6 DEF Insert, Store, Fails
<1> QED
  BY <1>1, <1>2, <1>3, <1>4, <1>5, <1>6 DEF HandlerStep

(* Whoever is counted, or refused, has seen the free plan in its request.  *)
LEMMA StepPlanInv ==
  ASSUME TypeOK, PlanInv, [Next]_vars
  PROVE  PlanInv'
<1>1. ASSUME NEW h \in Handler, HandlerStep(h) PROVE PlanInv'
  <2>1. ASSUME NEW d \in Handler, d # h
        PROVE  pc'[d] = pc[d] /\ outcome'[d] = outcome[d]
                              /\ wasFree'[d] = wasFree[d] /\ plan' = plan
    BY <1>1, <2>1, OthersStay, PlanStep
  <2> QED
    BY <1>1, <2>1, PlanStep DEF PlanInv, At
<1>2. ASSUME NEW p \in {"free", "pro"}, handle_event(p) PROVE PlanInv'
  BY <1>2 DEF handle_event, PlanInv, At, TypeOK
<1>3. CASE \/ NextMinute
           \/ \E m \in Minute : CounterExpires(m)
           \/ \E i \in Intent : ResponseExpires(i)
           \/ UNCHANGED vars
  <2>1. UNCHANGED <<plan, outcome, wasFree, pc>>
    BY <1>3 DEF NextMinute, CounterExpires, ResponseExpires, vars, table,
                quotaHistory
  <2> QED
    BY <2>1 DEF PlanInv, At
<1> QED
  BY <1>1, <1>2, <1>3, NextCases

-----------------------------------------------------------------------------
(* The rate: a counter that is still in its window is never reset, and     *)
(* never behind the requests it has let through.                           *)
LEMMA StepRateInv ==
  ASSUME TypeOK, RateInv, [Next]_vars
  PROVE  RateInv'
<1>1. CASE UNCHANGED <<hits, inTime, minute>>
  BY <1>1 DEF RateInv
<1>2. ASSUME NEW h \in Handler, Incr(h) PROVE RateInv'
  <2> DEFINE w == window[h]
             n == hits[w] + 1
  <2>1. /\ w \in Minute /\ minute' = minute
        /\ hits' = [hits EXCEPT ![w] = n]
        /\ \/ inTime' = inTime
           \/ n <= Rate /\ w = minute /\ inTime' = [inTime EXCEPT ![w] = @ + 1]
    BY <1>2 DEF Incr, TypeOK
  <2> HIDE DEF w
  <2>2. \A m \in Minute : hits[m] \in Nat /\ inTime[m] \in Nat /\ m \in Int
    BY DEF TypeOK, Minute
  <2>3. ASSUME NEW m \in Minute
        PROVE  /\ inTime'[m] <= Rate
               /\ m >= minute' => inTime'[m] <= hits'[m]
    <3>1. CASE m = w
      BY <2>1, <2>2, <3>1 DEF RateInv, TypeOK, Minute
    <3>2. CASE m # w
      BY <2>1, <2>2, <3>2 DEF RateInv, TypeOK, Minute
    <3> QED
      BY <3>1, <3>2
  <2> QED
    BY <2>3 DEF RateInv
<1>3. CASE NextMinute
  BY <1>3 DEF NextMinute, RateInv, TypeOK, Minute, redis
<1>4. ASSUME NEW m \in Minute, CounterExpires(m) PROVE RateInv'
  BY <1>4 DEF CounterExpires, RateInv, TypeOK, Minute
<1>5. CASE \/ \E h \in Handler : HandlerStep(h) /\ ~Incr(h)
           \/ \E p \in {"free", "pro"} : handle_event(p)
           \/ \E i \in Intent : ResponseExpires(i)
           \/ UNCHANGED vars
  <2>1. UNCHANGED <<hits, inTime, minute>>
    BY <1>5 DEF HandlerStep, Arrive, Expire, Read, Delete, LookUp, SelectPlan,
                CountTodos, Insert, Store, Fails, handle_event,
                ResponseExpires, vars, redis
  <2> QED
    BY <1>1, <2>1
<1> QED
  BY <1>2, <1>3, <1>4, <1>5, NextCases

-----------------------------------------------------------------------------
(* The stored response of an intent, once there, stays until it expires,   *)
(* and whatever was replayed before that is it.                            *)
LEMMA StepReplayInv ==
  ASSUME TypeOK, KeyInv, ReplayInv, [Next]_vars
  PROVE  ReplayInv'
<1> USE DEF TypeOK, redis, keyHistory
<1>1. CASE UNCHANGED <<idem, replayed, forgotten>>
  BY <1>1 DEF ReplayInv
<1>2. ASSUME NEW h \in Handler, LookUp(h) PROVE ReplayInv'
  <2>1. UNCHANGED <<idem, forgotten>> /\ op[h] \in Intent
    BY <1>2 DEF LookUp, KeyInv, Keyed, At
  <2>2. \A i \in Intent : replayed'[i] \subseteq replayed[i] \cup idem[i]
    BY <1>2, <2>1 DEF LookUp
  <2> QED
    BY <2>1, <2>2 DEF ReplayInv
<1>3. ASSUME NEW h \in Handler, Store(h) PROVE ReplayInv'
  <2>1. UNCHANGED <<replayed, forgotten>> /\ op[h] \in Intent
    BY <1>3 DEF Store, KeyInv, Keyed, At
  <2>2. \A i \in Intent :
          idem'[i] = idem[i] \/ (idem[i] = {} /\ idem'[i] = {made[h]})
    BY <1>3, <2>1 DEF Store
  <2> QED
    BY <2>1, <2>2 DEF ReplayInv
<1>4. ASSUME NEW i \in Intent, ResponseExpires(i) PROVE ReplayInv'
  BY <1>4 DEF ResponseExpires, ReplayInv
<1>5. CASE \/ \E h \in Handler : HandlerStep(h) /\ ~LookUp(h) /\ ~Store(h)
           \/ \E p \in {"free", "pro"} : handle_event(p)
           \/ NextMinute
           \/ \E m \in Minute : CounterExpires(m)
           \/ UNCHANGED vars
  <2>1. UNCHANGED <<idem, replayed, forgotten>>
    BY <1>5 DEF HandlerStep, Arrive, Incr, Expire, Read, Delete, SelectPlan,
                CountTodos, Insert, Fails, handle_event, NextMinute,
                CounterExpires, vars
  <2> QED
    BY <1>1, <2>1
<1> QED
  BY <1>2, <1>3, <1>4, <1>5, NextCases

-----------------------------------------------------------------------------
(* Handler h is between the GET and the SET for intent i. *)
Busy(h, i) == Creating(h) /\ op[h] = i

(* IntentInv for one intent. *)
Once(i) ==
  /\ \A h, d \in Handler : (Busy(h, i) /\ Busy(d, i)) => h = d
  /\ idem[i] # {} => \A h \in Handler : ~Busy(h, i)
  /\ created[i] # {} =>
       idem[i] # {} \/ \E h \in Handler : At(h, "store") /\ Busy(h, i)
  /\ \A s, t \in created[i] : s = t

(* IntentInv says of every intent that is not excused what Once says. *)
LEMMA IntentInvParts == IntentInv <=> \A i \in Intent \ excused : Once(i)
BY DEF IntentInv, Once, Busy, Creating, At

(* A step by which no handler comes to create, and none leaves its SET     *)
(* out, disturbs nothing.                                                  *)
LEMMA QuietStep ==
  ASSUME NEW i \in Intent, Once(i), created'[i] = created[i], idem'[i] = idem[i],
         \A h \in Handler : Busy(h, i)' => Busy(h, i),
         \A h \in Handler : At(h, "store") /\ Busy(h, i)
                              => (At(h, "store") /\ Busy(h, i))'
  PROVE  Once(i)'
BY DEF Once

(* A step of handler h that leaves Redis and the rows of intents alone:    *)
(* it does not come to create for an intent, and stays at its SET unless   *)
(* it gives the intent up.                                                 *)
LEMMA QuietHandler ==
  ASSUME TypeOK, NEW h \in Handler, HandlerStep(h), NEW i \in Intent \ excused',
         ~Insert(h), ~Store(h), LookUp(h) => op[h] # i \/ idem[i] # {}
  PROVE  /\ created' = created /\ idem' = idem /\ excused \subseteq excused'
         /\ \A d \in Handler : Busy(d, i)' => Busy(d, i)
         /\ \A d \in Handler : At(d, "store") /\ Busy(d, i)
                                 => (At(d, "store") /\ Busy(d, i))'
<1> USE DEF TypeOK, Goto, Return, request, redis, keyHistory, At, Busy, Creating
<1>1. /\ created' = created /\ idem' = idem /\ excused \subseteq excused'
  BY DEF HandlerStep, Arrive, Incr, Expire, Read, Delete, LookUp, SelectPlan,
         CountTodos, Fails
<1>2. /\ Busy(h, i)' => Busy(h, i)
      /\ At(h, "store") /\ Busy(h, i) => (At(h, "store") /\ Busy(h, i))'
  <2>0. i \notin {"plain", "other"}
    OBVIOUS
  <2>1. CASE Arrive(h)
    BY <2>1 DEF Arrive
  <2>2. CASE Incr(h) \/ Expire(h)
    BY <2>0, <2>2 DEF Incr, Expire, Admitted, Keyed
  <2>3. CASE Read(h) \/ Delete(h)
    BY <2>3 DEF Read, Delete
  <2>4. CASE LookUp(h)
    BY <2>4 DEF LookUp
  <2>5. CASE SelectPlan(h) \/ CountTodos(h)
    BY <2>5 DEF SelectPlan, CountTodos
  <2>6. CASE Fails(h)
    BY <2>6 DEF Fails
  <2> QED
    BY <2>1, <2>2, <2>3, <2>4, <2>5, <2>6 DEF HandlerStep
<1>3. \A d \in Handler \ {h} : pc'[d] = pc[d] /\ op'[d] = op[d]
  BY OthersStay
<1> QED
  BY <1>1, <1>2, <1>3

(* The GET finds nothing: if the intent is not excused, no other handler   *)
(* is busy with it, hence nothing has been created for it.                 *)
LEMMA LookUpOnce ==
  ASSUME TypeOK, KeyInv, NEW h \in Handler, LookUp(h), NEW i \in Intent,
         op[h] = i, idem[i] = {}, i \notin excused', Once(i)
  PROVE  Once(i)'
<1>1. /\ created' = created /\ idem' = idem
      /\ op' = op /\ pc' = [pc EXCEPT ![h] = "plan"]
      /\ \A d \in Handler \ {h} : ~Busy(d, i)
  BY DEF LookUp, KeyInv, Keyed, At, Goto, request, redis, Overlaps, Busy
<1>2. At(h, "lookup") /\ ~Creating(h)
  BY DEF LookUp, At, Creating
<1>3. created[i] = {}
  BY <1>1, <1>2 DEF Once, Busy
<1>4. \A d \in Handler : Busy(d, i)' => d = h
  BY <1>1 DEF Busy, Creating, TypeOK
<1> QED
  BY <1>1, <1>3, <1>4 DEF Once

(* The INSERT for an intent: its handler is the only one that is busy with *)
(* it, so that the row is the first.                                       *)
LEMMA InsertOnce ==
  ASSUME TypeOK, NEW h \in Handler, Insert(h), NEW i \in Intent \ excused',
         i \notin excused, Once(i)
  PROVE  Once(i)'
<1>0. idem' = idem /\ At(h, "insert") /\ Creating(h)
  BY DEF Insert, redis, At, Creating
<1>1. \A d \in Handler \ {h} : pc'[d] = pc[d] /\ op'[d] = op[d]
  BY OthersStay DEF HandlerStep
<1>2. CASE op[h] # i
  <2>1. ~Busy(h, i)
    BY <1>2 DEF Busy
  <2>2. ~Busy(h, i)'
    BY <1>2 DEF Insert, Busy, Creating, Return, TypeOK
  <2>3. created'[i] = created[i]
    BY <1>2 DEF Insert, TypeOK
  <2> QED
    BY <1>0, <1>1, <2>1, <2>2, <2>3, QuietStep DEF Busy, Creating, At
<1>3. CASE op[h] = i
  <2>1. \A d \in Handler \ {h} : ~Busy(d, i)
    BY <1>0, <1>3 DEF Once, Busy
  <2>2. created[i] = {} /\ idem[i] = {}
    BY <1>0, <1>3, <2>1 DEF Once, Busy, At
  <2>3. created'[i] = {serial + 1}
    BY <1>3, <2>2 DEF Insert
  <2>4. pc'[h] = "store" /\ op'[h] = i
    BY <1>3 DEF Insert, Keyed, TypeOK
  <2> QED
    BY <1>0, <1>1, <2>1, <2>2, <2>3, <2>4 DEF Once, Busy, Creating, At
<1> QED
  BY <1>2, <1>3

(* The SET: its handler was the only one that was busy with the intent.    *)
LEMMA StoreOnce ==
  ASSUME TypeOK, KeyInv, NEW h \in Handler, Store(h), NEW i \in Intent, Once(i)
  PROVE  Once(i)'
<1>1. /\ created' = created /\ At(h, "store") /\ Creating(h)
      /\ op[h] \in Intent
  BY DEF Store, keyHistory, At, Creating, KeyInv, Keyed
<1>2. \A d \in Handler \ {h} : pc'[d] = pc[d] /\ op'[d] = op[d]
  BY OthersStay DEF HandlerStep
<1>3. ~Creating(h)'
  BY DEF Store, Return, Creating, TypeOK
<1>4. CASE op[h] # i
  <2>1. idem'[i] = idem[i]
    BY <1>1, <1>4 DEF Store, TypeOK
  <2> QED
    BY <1>1, <1>2, <1>3, <1>4, <2>1, QuietStep DEF Busy, Creating, At
<1>5. CASE op[h] = i
  <2>1. idem'[i] # {}
    BY <1>1, <1>5 DEF Store, TypeOK
  <2>2. \A d \in Handler : ~Busy(d, i)'
    BY <1>1, <1>2, <1>3, <1>5 DEF Once, Busy, Creating
  <2> QED
    BY <1>1, <2>1, <2>2 DEF Once
<1> QED
  BY <1>4, <1>5

(* Every step keeps an intent that is not excused created at most once.    *)
LEMMA StepIntentInv ==
  ASSUME TypeOK, KeyInv, IntentInv, [Next]_vars
  PROVE  IntentInv'
<1>1. ASSUME NEW h \in Handler, HandlerStep(h), NEW i \in Intent, i \notin excused'
      PROVE  Once(i)'
  <2>1. i \notin excused
    BY <1>1 DEF HandlerStep, Arrive, Incr, Expire, Read, Delete, LookUp,
                SelectPlan, CountTodos, Insert, Store, Fails, keyHistory
  <2>2. Once(i)
    BY <1>1, <2>1, IntentInvParts
  <2>3. CASE Insert(h)
    BY <1>1, <2>1, <2>2, <2>3, InsertOnce
  <2>4. CASE Store(h)
    BY <1>1, <2>2, <2>4, StoreOnce
  <2>5. CASE LookUp(h) /\ op[h] = i /\ idem[i] = {}
    BY <1>1, <2>2, <2>5, LookUpOnce
  <2>6. CASE ~Insert(h) /\ ~Store(h) /\ (LookUp(h) => op[h] # i \/ idem[i] # {})
    BY <1>1, <2>2, <2>6, QuietHandler, QuietStep
  <2> QED
    BY <2>3, <2>4, <2>5, <2>6
<1>2. CASE \/ \E p \in {"free", "pro"} : handle_event(p)
           \/ NextMinute
           \/ \E m \in Minute : CounterExpires(m)
           \/ UNCHANGED vars
  <2>1. UNCHANGED <<pc, op, idem, created, excused>>
    BY <1>2 DEF handle_event, NextMinute, CounterExpires, vars, request,
                redis, keyHistory
  <2> QED
    BY <2>1 DEF IntentInv, Creating, At
<1>3. ASSUME NEW j \in Intent, ResponseExpires(j) PROVE IntentInv'
  <2>1. /\ UNCHANGED <<pc, op, created>> /\ excused' = excused \cup {j}
        /\ \A i \in Intent \ {j} : idem'[i] = idem[i]
    BY <1>3 DEF ResponseExpires, request, TypeOK
  <2> QED
    BY <2>1 DEF IntentInv, Creating, At
<1> QED
  <2>1. (\A i \in Intent \ excused : Once(i))' => IntentInv'
    BY DEF IntentInv, Once, Busy, Creating, At
  <2> QED
    BY <1>1, <1>2, <1>3, <2>1, NextCases

-----------------------------------------------------------------------------
(* The service starts with an empty table, an empty Redis and no request. *)
LEMMA InitIInv ==
  ASSUME Init
  PROVE  IInv
<1> USE DEF Init, Id
<1>1. TypeOK
  <2>1. 0 \in Minute
    BY DEF Minute
  <2>2. paid \in BOOLEAN /\ wasFree \in [Handler -> BOOLEAN]
    BY Zenon
  <2>3. /\ hits \in [Minute -> Nat] /\ inTime \in [Minute -> Nat]
        /\ idem \in [Intent -> SUBSET Id] /\ created \in [Intent -> SUBSET Id]
        /\ replayed \in [Intent -> SUBSET Id]
    OBVIOUS
  <2> QED
    BY <2>1, <2>2, <2>3 DEF TypeOK, Steps, Outcomes
<1>2. KeyInv /\ PlanInv /\ IntentInv /\ ReplayInv
  BY DEF KeyInv, PlanInv, IntentInv, ReplayInv, At, Creating
<1>3. QuotaInv
  <2>1. IsFiniteSet(todos) /\ Cardinality(todos) = 0
    BY FS_EmptySet
  <2>2. Inserting = {}
    BY DEF Inserting, At
  <2>3. Cardinality(Inserting) = 0 /\ Cardinality(Handler) \in Nat
    BY <2>2, FS_EmptySet, FS_CardinalityType
  <2> QED
    BY <2>1, <2>3 DEF QuotaInv
<1>4. RateInv
  BY DEF RateInv, Minute
<1> QED
  BY <1>1, <1>2, <1>3, <1>4 DEF IInv

(* Every behaviour keeps IInv. *)
THEOREM Invariance == Spec => []IInv
<1>1. Init => IInv
  BY InitIInv
<1>2. IInv /\ [Next]_vars => IInv'
  BY StepTypeOK, StepKeyInv, StepQuotaInv, StepPlanInv, StepIntentInv,
     StepReplayInv, StepRateInv DEF IInv
<1> QED
  BY <1>1, <1>2, PTL DEF Spec

(* The type invariant. *)
THEOREM TypeCorrect == Spec => []TypeOK
<1>1. IInv => TypeOK
  BY DEF IInv
<1> QED
  BY <1>1, Invariance, PTL

(* However many requests race between COUNT and INSERT, a tenant that      *)
(* never paid stays within its quota plus the number of handlers, less one.*)
THEOREM QuotaBounded == Spec => []QuotaOvershoot
<1>1. IInv => QuotaOvershoot
  <2> SUFFICES ASSUME IInv, ~paid
               PROVE  Cardinality(todos) < Limit + Cardinality(Handler)
    BY DEF QuotaOvershoot
  <2>1. IsFiniteSet(Inserting) /\ IsFiniteSet(todos)
    BY FS_Subset DEF IInv, QuotaInv, Inserting
  <2>2. /\ Cardinality(todos) \in Nat /\ Cardinality(Handler) \in Nat
        /\ Cardinality(Inserting) \in Nat
    BY <2>1, FS_CardinalityType
  <2>3. Cardinality(todos) + Cardinality(Inserting) < Limit + Cardinality(Handler)
    BY DEF IInv, QuotaInv
  <2> QED
    BY <2>2, <2>3
<1> QED
  BY <1>1, Invariance, PTL

(* A request is refused for its quota only when the plan was free at some  *)
(* moment of it: what services/todos.rs promises of an upgrade.            *)
THEOREM UpgradeAtOnce == Spec => []PaidIsNotRefused
<1>1. IInv => PaidIsNotRefused
  BY DEF IInv, PlanInv, PaidIsNotRefused
<1> QED
  BY <1>1, Invariance, PTL

(* The quota is fair on both sides: services/todos.rs exceeds it by the     *)
(* requests in flight at most, and refuses nobody who had paid.            *)
THEOREM QuotasAreFair == Spec => []QuotaFair
  BY QuotaBounded, UpgradeAtOnce, PTL DEF QuotaFair

(* A set whose elements are all equal has at most one. *)
LEMMA AtMostOne ==
  ASSUME NEW S, \A s, t \in S : s = t
  PROVE  Cardinality(S) <= 1
<1>1. CASE S = {}
  BY <1>1, FS_EmptySet
<1>2. CASE S # {}
  <2>1. PICK x \in S : S = {x}
    BY <1>2
  <2> QED
    BY <2>1, FS_Singleton
<1> QED
  BY <1>1, <1>2

(* An intent is created at most once, unless its requests overlapped, its  *)
(* handler was lost between INSERT and SET, or its response expired.       *)
THEOREM IntentCreatedOnce == Spec => []CreatedOnce
<1>1. IInv => CreatedOnce
  BY AtMostOne DEF IInv, IntentInv, CreatedOnce
<1> QED
  BY <1>1, Invariance, PTL

(* All retries are answered with one and the same todo until the response  *)
(* expires, also when requests did overlap.                                *)
THEOREM RetriesAgree == Spec => []ReplaysAgree
<1>1. ASSUME IInv PROVE ReplaysAgree
  <2>1. ASSUME NEW i \in Intent \ forgotten
        PROVE  \A s, t \in replayed[i] : s = t
    BY <1>1 DEF IInv, ReplayInv
  <2> QED
    BY <2>1, AtMostOne DEF ReplaysAgree
<1> QED
  BY <1>1, Invariance, PTL

(* A retry under the same Idempotency-Key (routes/todos.rs) neither        *)
(* creates again nor is told something else.                               *)
THEOREM RetriesAreSafe == Spec => []RetrySafe
  BY IntentCreatedOnce, RetriesAgree, PTL DEF RetrySafe

(* No minute lets more than Rate of its own requests through.              *)
THEOREM RateLimited == Spec => []RateHolds
<1>1. IInv => RateHolds
  BY DEF IInv, RateInv, RateHolds
<1> QED
  BY <1>1, Invariance, PTL

-----------------------------------------------------------------------------
(* IamGrants.                                                              *)

(* What the requests under way carry; how many grants one may name does    *)
(* not matter here.                                                        *)
Pending == [op : {"create", "grant"}, on : Account, role : SubRole \cup {"owner"},
            specs : SUBSET Specs]

GrantsType ==
  /\ \A a \in Account : accounts[a] = {} \/ \E x : accounts[a] = {x}
  /\ accounts \in [Account -> SUBSET [parent : Account, role : SubRole \cup {"owner"}]]
  /\ grants \in [Account -> SUBSET Specs]
  /\ req \in [Handler -> SUBSET Pending]
  /\ revoked \in Nat

(* While no grant was taken back, an account has nothing that its parent   *)
(* does not cover, and a request that passed its check is still covered.   *)
Covered(a) ==
  (Iam!Exists(a) /\ a # Owner) =>
    Iam!Exists(Iam!Parent(a)) /\ \A g \in grants[a] : Iam!authority_covers(Iam!Parent(a), g)

StillCovered(r) ==
  /\ Iam!Exists(r.on)
  /\ r.op = "create" => \A s \in r.specs : Iam!authority_covers(r.on, s)
  /\ r.op = "grant" =>
       r.on = Owner \/ \A s \in r.specs : Iam!authority_covers(Iam!Parent(r.on), s)

GrantsInv ==
  /\ GrantsType
  /\ Iam!Exists(Owner) => Iam!Parent(Owner) = Owner
  /\ revoked = 0 =>
       /\ \A a \in Account : Covered(a)
       /\ \A h \in Handler : \A r \in req[h] : StillCovered(r)

-----------------------------------------------------------------------------
(* Who covers a grant covers what the grant covers: stars included. *)
LEMMA MatchingTransitive ==
  ASSUME NEW p, NEW g, NEW r, Iam!grant_matches(p, g), Iam!grant_matches(g, r)
  PROVE  Iam!grant_matches(p, r)
BY DEF Iam!grant_matches

(* The one row of an account. *)
LEMMA OneRow == ASSUME NEW x PROVE (CHOOSE y \in {x} : TRUE) = x
OBVIOUS

(* An account with one row has the parent that stands in it. *)
LEMMA ParentOfRow ==
  ASSUME NEW a, NEW x, NEW p, accounts'[a] = {x}, x.parent = p
  PROVE  Iam!Parent(a)' = p
<1>1. (CHOOSE y \in accounts'[a] : TRUE) = x
  BY OneRow
<1> QED
  BY <1>1 DEF Iam!Parent

(* Where nothing changes in an account's row, its parent and role stay. *)
LEMMA SameRow ==
  ASSUME NEW a, accounts'[a] = accounts[a]
  PROVE  /\ Iam!Exists(a)' = Iam!Exists(a) /\ Iam!Parent(a)' = Iam!Parent(a)
         /\ Iam!RoleOf(a)' = Iam!RoleOf(a)
         /\ Iam!authority_unlimited(a)' = Iam!authority_unlimited(a)
BY DEF Iam!Exists, Iam!Parent, Iam!RoleOf, Iam!authority_unlimited

(* More grants cover as much and more. *)
LEMMA CoversGrows ==
  ASSUME NEW a, accounts'[a] = accounts[a], grants[a] \subseteq grants'[a],
         NEW s, Iam!authority_covers(a, s)
  PROVE  Iam!authority_covers(a, s)'
BY SameRow DEF Iam!authority_covers, Iam!can

(* The parent of an account is an account. *)
LEMMA ParentType ==
  ASSUME GrantsType, NEW a \in Account, Iam!Exists(a)
  PROVE  Iam!Parent(a) \in Account
<1>1. PICK x : accounts[a] = {x}
  BY DEF GrantsType, Iam!Exists
<1>2. Iam!Parent(a) = x.parent /\ x \in [parent : Account, role : SubRole \cup {"owner"}]
  BY <1>1, OneRow DEF Iam!Parent, GrantsType
<1> QED
  BY <1>2

(* Empty tables: nothing to cover. *)
LEMMA InitGrants == ASSUME Iam!GrantsAssumption PROVE Iam!Init => GrantsInv
BY DEF Iam!GrantsAssumption, Iam!Init, Iam!migrate, GrantsInv, GrantsType, Covered,
       StillCovered, Iam!Exists

(* A step that adds rows and grants but touches no row that is there.      *)
LEMMA AddingKeeps ==
  ASSUME GrantsInv, revoked = 0, NEW a \in Account, Iam!Exists(a),
         \A b \in Account : Iam!Exists(b) =>
           accounts'[b] = accounts[b] /\ grants[b] \subseteq grants'[b],
         grants'[a] = grants[a]
  PROVE  Covered(a)'
<1>1. accounts'[a] = accounts[a] /\ Covered(a)
  BY DEF GrantsInv
<1>2. CASE a = Owner
  BY <1>2 DEF Covered
<1>3. CASE a # Owner
  <2>1. Iam!Exists(Iam!Parent(a)) /\ \A g \in grants[a] : Iam!authority_covers(Iam!Parent(a), g)
    BY <1>1, <1>3 DEF Covered
  <2>2. Iam!Parent(a) \in Account /\ Iam!Parent(a)' = Iam!Parent(a)
    BY <1>1, ParentType, SameRow DEF GrantsInv
  <2>3. accounts'[Iam!Parent(a)] = accounts[Iam!Parent(a)]
        /\ grants[Iam!Parent(a)] \subseteq grants'[Iam!Parent(a)]
    BY <2>1, <2>2
  <2>4. \A g \in grants[a] : Iam!authority_covers(Iam!Parent(a), g)'
    BY <2>1, <2>2, <2>3, CoversGrows
  <2>5. Iam!Exists(Iam!Parent(a))'
    BY <2>1, <2>2, <2>3 DEF Iam!Exists
  <2> QED
    BY <2>4, <2>5 DEF Covered
<1> QED
  BY <1>2, <1>3

(* Every step keeps the types. *)
LEMMA StepGrantsType ==
  ASSUME Iam!GrantsAssumption PROVE GrantsType /\ [Iam!Next]_(Iam!vars) => GrantsType'
<1> SUFFICES ASSUME GrantsType, [Iam!Next]_(Iam!vars) PROVE GrantsType'
  OBVIOUS
<1> USE DEF GrantsType
<1>1. ASSUME NEW a \in Account, NEW x \in [parent : Account, role : SubRole \cup {"owner"}],
             accounts' = [accounts EXCEPT ![a] = {x}]
      PROVE  /\ \A b \in Account : accounts'[b] = {} \/ \E y : accounts'[b] = {y}
             /\ accounts' \in
                  [Account -> SUBSET [parent : Account, role : SubRole \cup {"owner"}]]
  BY <1>1
<1>2. ASSUME NEW h \in Handler, NEW r \in Pending, Iam!Receive(h, r)
      PROVE  req' \in [Handler -> SUBSET Pending]
  BY <1>2 DEF Iam!Receive
<1>3. CASE Iam!create_org_owner
  BY <1>1, <1>3 DEF Iam!create_org_owner, Iam!GrantsAssumption
<1>4. ASSUME NEW h \in Handler, NEW p \in Account, NEW asked \in SubRole,
             NEW specs \in Iam!Asked, Iam!CreateChecked(h, p, asked, specs)
      PROVE  GrantsType'
  <2>1. [op |-> "create", on |-> p, role |-> asked, specs |-> specs] \in Pending
    BY DEF Pending, Iam!Asked
  <2> QED
    BY <1>2, <1>4, <2>1 DEF Iam!CreateChecked
<1>5. ASSUME NEW h \in Handler, NEW a \in Account, Iam!CreateInserted(h, a)
      PROVE  GrantsType'
  <2>1. PICK r \in req[h] :
          /\ accounts' = [accounts EXCEPT ![a] = {[parent |-> r.on, role |-> r.role]}]
          /\ grants' = [grants EXCEPT ![a] = r.specs]
    BY <1>5 DEF Iam!CreateInserted
  <2>2. r.on \in Account /\ r.role \in SubRole \cup {"owner"} /\ r.specs \in SUBSET Specs
    BY DEF Pending
  <2>3. [parent |-> r.on, role |-> r.role] \in [parent : Account, role : SubRole \cup {"owner"}]
    BY <2>2
  <2>4. grants' \in [Account -> SUBSET Specs]
    BY <2>1, <2>2
  <2> QED
    BY <1>1, <1>5, <2>1, <2>3, <2>4 DEF Iam!CreateInserted
<1>6. ASSUME NEW h \in Handler, NEW a \in Account, NEW s \in Specs, Iam!GrantChecked(h, a, s)
      PROVE  GrantsType'
  <2>1. PICK x : accounts[a] = {x}
    BY <1>6 DEF Iam!GrantChecked, Iam!Exists
  <2>2. Iam!RoleOf(a) = x.role /\ x \in [parent : Account, role : SubRole \cup {"owner"}]
    BY <2>1, OneRow DEF Iam!RoleOf
  <2>3. [op |-> "grant", on |-> a, role |-> Iam!RoleOf(a), specs |-> {s}] \in Pending
    BY <2>2 DEF Pending
  <2> QED
    BY <1>2, <1>6, <2>3 DEF Iam!GrantChecked
<1>7. ASSUME NEW h \in Handler, Iam!GrantInserted(h) PROVE GrantsType'
  <2>1. PICK r \in req[h] : grants' = [grants EXCEPT ![r.on] = @ \cup r.specs]
    BY <1>7 DEF Iam!GrantInserted
  <2>2. r.on \in Account /\ r.specs \in SUBSET Specs
    BY DEF Pending
  <2> QED
    BY <1>7, <2>1, <2>2 DEF Iam!GrantInserted
<1>8. ASSUME NEW h \in Handler, Iam!RequestFails(h) PROVE GrantsType'
  BY <1>8 DEF Iam!RequestFails
<1>9. ASSUME NEW a \in Account, Iam!Revoke(a) PROVE GrantsType'
  <2>1. PICK g \in grants[a] : grants' = [grants EXCEPT ![a] = @ \ {g}]
    BY <1>9 DEF Iam!Revoke
  <2>2. grants' \in [Account -> SUBSET Specs]
    BY <2>1
  <2>3. revoked' \in Nat
    BY <1>9 DEF Iam!Revoke
  <2> QED
    BY <1>9, <2>2, <2>3 DEF Iam!Revoke
<1>10. CASE UNCHANGED Iam!vars
  BY <1>10 DEF Iam!vars
<1> QED
  BY <1>3, <1>4, <1>5, <1>6, <1>7, <1>8, <1>9, <1>10 DEF Iam!Next

(* A step that touches no row that is there, and takes no grant, keeps     *)
(* what is waiting to be inserted covered.                                 *)
LEMMA WaitingKeeps ==
  ASSUME GrantsType, NEW r \in Pending, StillCovered(r),
         \A b \in Account : Iam!Exists(b) =>
           accounts'[b] = accounts[b] /\ grants[b] \subseteq grants'[b],
         r.op = "grant" /\ r.on # Owner => Iam!Exists(Iam!Parent(r.on))
  PROVE  StillCovered(r)'
<1>1. r.on \in Account /\ Iam!Exists(r.on)
  BY DEF StillCovered, Pending
<1>2. accounts'[r.on] = accounts[r.on] /\ grants[r.on] \subseteq grants'[r.on]
  BY <1>1
<1>3. Iam!Exists(r.on)' /\ Iam!Parent(r.on)' = Iam!Parent(r.on)
  BY <1>1, <1>2, SameRow
<1>4. CASE r.op = "create"
  <2>1. \A s \in r.specs : Iam!authority_covers(r.on, s)'
    BY <1>2, <1>4, CoversGrows DEF StillCovered
  <2> QED
    BY <1>3, <1>4, <2>1 DEF StillCovered
<1>5. CASE r.op = "grant" /\ r.on # Owner
  <2>1. Iam!Parent(r.on) \in Account /\ Iam!Exists(Iam!Parent(r.on))
    BY <1>1, <1>5, ParentType
  <2>2. accounts'[Iam!Parent(r.on)] = accounts[Iam!Parent(r.on)]
        /\ grants[Iam!Parent(r.on)] \subseteq grants'[Iam!Parent(r.on)]
    BY <2>1
  <2>3. \A s \in r.specs : Iam!authority_covers(Iam!Parent(r.on), s)'
    BY <1>3, <1>5, <2>2, CoversGrows DEF StillCovered
  <2> QED
    BY <1>3, <1>5, <2>3 DEF StillCovered
<1>6. CASE r.op = "grant" /\ r.on = Owner
  BY <1>3, <1>6 DEF StillCovered
<1> QED
  BY <1>4, <1>5, <1>6 DEF Pending

(* Every step keeps children within their parents. *)
LEMMA StepGrants ==
  ASSUME Iam!GrantsAssumption PROVE GrantsInv /\ [Iam!Next]_(Iam!vars) => GrantsInv'
<1> SUFFICES ASSUME GrantsInv, [Iam!Next]_(Iam!vars) PROVE GrantsInv'
  OBVIOUS
<1>1. GrantsType /\ GrantsType'
  BY StepGrantsType DEF GrantsInv
<1>2. Owner \in Account
  BY DEF Iam!GrantsAssumption
<1> DEFINE
  Goal == /\ Iam!Exists(Owner)' => Iam!Parent(Owner)' = Owner
          /\ revoked' = 0 =>
               /\ \A a \in Account : Covered(a)'
               /\ \A h \in Handler : \A r \in req'[h] : StillCovered(r)'
<1> SUFFICES Goal
  BY <1>1 DEF GrantsInv
<1> HIDE DEF Goal
(* Nothing changes in the tables. *)
<1>3. ASSUME UNCHANGED <<accounts, grants, revoked>>,
             \A h \in Handler : \A r \in req'[h] :
               r \in req[h] \/ (revoked = 0 => StillCovered(r))
      PROVE  Goal
  <2>1. \A a : Iam!Exists(a)' = Iam!Exists(a) /\ Iam!Parent(a)' = Iam!Parent(a)
    BY <1>3, SameRow
  <2>2. \A a, s : Iam!authority_covers(a, s)' <=> Iam!authority_covers(a, s)
    BY <1>3 DEF Iam!authority_covers, Iam!authority_unlimited, Iam!RoleOf, Iam!can
  <2>3. \A a \in Account : Covered(a)' <=> Covered(a)
    BY <1>3, <2>1, <2>2 DEF Covered
  <2>4. \A r : StillCovered(r)' <=> StillCovered(r)
    BY <1>3, <2>1, <2>2 DEF StillCovered
  <2> QED
    BY <1>3, <2>1, <2>3, <2>4 DEF Goal, GrantsInv
(* Rows and grants are added, those that are there stay. *)
<1>4. ASSUME revoked' = revoked,
             \A b \in Account : Iam!Exists(b) =>
               accounts'[b] = accounts[b] /\ grants[b] \subseteq grants'[b],
             \A h \in Handler : req'[h] \subseteq req[h],
             revoked = 0 => \A a \in Account :
               ~Iam!Exists(a) \/ grants'[a] # grants[a] => Covered(a)',
             ~Iam!Exists(Owner) /\ Iam!Exists(Owner)' => Iam!Parent(Owner)' = Owner
      PROVE  Goal
  <2>1. ASSUME revoked = 0 PROVE \A a \in Account : Covered(a)'
    BY <1>4, <2>1, AddingKeeps
  <2>2. ASSUME revoked = 0, NEW h \in Handler, NEW r \in req'[h]
        PROVE  StillCovered(r)'
    <3>1. r \in req[h] /\ r \in Pending /\ StillCovered(r)
      BY <1>1, <1>4, <2>2 DEF GrantsInv, GrantsType
    <3>2. r.on # Owner => Iam!Exists(Iam!Parent(r.on))
      BY <2>2, <3>1 DEF GrantsInv, Covered, StillCovered, Pending
    <3> QED
      BY <1>1, <1>4, <3>1, <3>2, WaitingKeeps
  <2>3. Iam!Exists(Owner)' => Iam!Parent(Owner)' = Owner
    BY <1>2, <1>4, SameRow DEF GrantsInv
  <2> QED
    BY <1>4, <2>1, <2>2, <2>3 DEF Goal
<1>5. CASE Iam!create_org_owner
  <2>1. /\ ~Iam!Exists(Owner) /\ UNCHANGED <<grants, req, revoked>>
        /\ accounts' = [accounts EXCEPT ![Owner] =
             {[parent |-> Owner, role |-> "owner"]}]
    BY <1>5 DEF Iam!create_org_owner
  <2>2. accounts'[Owner] = {[parent |-> Owner, role |-> "owner"]}
        /\ \A b \in Account : b # Owner => accounts'[b] = accounts[b]
    BY <1>1, <1>2, <2>1 DEF GrantsType
  <2>3. Iam!Parent(Owner)' = Owner
    <3> DEFINE x == [parent |-> Owner, role |-> "owner"]
    <3>1. accounts'[Owner] = {x} /\ x.parent = Owner
      BY <2>2
    <3> HIDE DEF x
    <3> QED
      BY <3>1, ParentOfRow
  <2>4. \A a \in Account : ~Iam!Exists(a) => Covered(a)'
    BY <2>2 DEF Covered, Iam!Exists
  <2> QED
    BY <1>4, <2>1, <2>2, <2>3, <2>4
<1>6. ASSUME NEW h \in Handler, NEW p \in Account, NEW asked \in SubRole,
             NEW specs \in Iam!Asked, Iam!CreateChecked(h, p, asked, specs)
      PROVE  Goal
  <2> DEFINE r == [op |-> "create", on |-> p, role |-> asked, specs |-> specs]
  <2>1. StillCovered(r)
    BY <1>6 DEF Iam!CreateChecked, StillCovered
  <2>2. \A g \in Handler : req'[g] = req[g] \/ req'[g] = {r}
    BY <1>1, <1>6 DEF Iam!CreateChecked, Iam!Receive, GrantsType
  <2>3. UNCHANGED <<accounts, grants, revoked>>
    BY <1>6 DEF Iam!CreateChecked
  <2> HIDE DEF r
  <2> QED
    BY <1>3, <2>1, <2>2, <2>3
(* The new account is covered as its request was. *)
<1>7. ASSUME NEW h \in Handler, NEW a \in Account, Iam!CreateInserted(h, a)
      PROVE  Goal
  <2>1. PICK r \in req[h] :
          /\ r.op = "create" /\ a # Owner /\ ~Iam!Exists(a)
          /\ accounts' = [accounts EXCEPT ![a] = {[parent |-> r.on, role |-> r.role]}]
          /\ grants' = [grants EXCEPT ![a] = r.specs]
          /\ req' = [req EXCEPT ![h] = {}] /\ revoked' = revoked
    BY <1>7 DEF Iam!CreateInserted
  <2>2. accounts'[a] = {[parent |-> r.on, role |-> r.role]} /\ grants'[a] = r.specs
        /\ \A b \in Account : b # a =>
             accounts'[b] = accounts[b] /\ grants'[b] = grants[b]
    BY <1>1, <2>1 DEF GrantsType
  <2>3. Iam!Parent(a)' = r.on
    <3> DEFINE x == [parent |-> r.on, role |-> r.role]
    <3>1. accounts'[a] = {x} /\ x.parent = r.on
      BY <2>2
    <3> HIDE DEF x
    <3> QED
      BY <3>1, ParentOfRow
  <2>4. ASSUME revoked = 0 PROVE Covered(a)'
    <3>1. StillCovered(r) /\ r.on \in Account
      BY <1>1, <2>4 DEF GrantsInv, GrantsType, Pending
    <3>2. Iam!Exists(r.on) /\ r.on # a /\ \A s \in r.specs : Iam!authority_covers(r.on, s)
      BY <2>1, <3>1 DEF StillCovered
    <3>3. accounts'[r.on] = accounts[r.on] /\ grants'[r.on] = grants[r.on]
      BY <2>2, <3>1, <3>2
    <3>4. \A s \in r.specs : Iam!authority_covers(r.on, s)'
      BY <3>2, <3>3, CoversGrows
    <3> QED
      BY <2>2, <2>3, <3>2, <3>3, <3>4 DEF Covered, Iam!Exists
  <2>5. \A b \in Account : b # a /\ ~Iam!Exists(b) => Covered(b)'
    BY <2>2 DEF Covered, Iam!Exists
  <2>6. \A g \in Handler : req'[g] \subseteq req[g]
    BY <1>1, <2>1 DEF GrantsType
  <2>7. \A b \in Account : Iam!Exists(b) =>
          accounts'[b] = accounts[b] /\ grants[b] \subseteq grants'[b]
    BY <2>1, <2>2
  <2>8. Iam!Exists(Owner)' => Iam!Exists(Owner)
    BY <1>2, <2>1, <2>2 DEF Iam!Exists
  <2>9. revoked = 0 => \A b \in Account :
          ~Iam!Exists(b) \/ grants'[b] # grants[b] => Covered(b)'
    BY <2>2, <2>4, <2>5
  <2> QED
    BY <1>4, <2>1, <2>6, <2>7, <2>8, <2>9
<1>8. ASSUME NEW h \in Handler, NEW a \in Account, NEW s \in Specs, Iam!GrantChecked(h, a, s)
      PROVE  Goal
  <2> DEFINE r == [op |-> "grant", on |-> a, role |-> Iam!RoleOf(a), specs |-> {s}]
  <2>1. StillCovered(r)
    BY <1>8 DEF Iam!GrantChecked, StillCovered
  <2>2. \A g \in Handler : req'[g] = req[g] \/ req'[g] = {r}
    BY <1>1, <1>8 DEF Iam!GrantChecked, Iam!Receive, GrantsType
  <2>3. UNCHANGED <<accounts, grants, revoked>>
    BY <1>8 DEF Iam!GrantChecked
  <2> HIDE DEF r
  <2> QED
    BY <1>3, <2>1, <2>2, <2>3
(* The added grants are covered as their request was. *)
<1>9. ASSUME NEW h \in Handler, Iam!GrantInserted(h) PROVE Goal
  <2>1. PICK r \in req[h] :
          /\ r.op = "grant" /\ grants' = [grants EXCEPT ![r.on] = @ \cup r.specs]
          /\ req' = [req EXCEPT ![h] = {}] /\ UNCHANGED <<accounts, revoked>>
    BY <1>9 DEF Iam!GrantInserted
  <2>2. r.on \in Account
    BY <1>1 DEF GrantsType, Pending
  <2>3. grants'[r.on] = grants[r.on] \cup r.specs
        /\ \A b \in Account : b # r.on => grants'[b] = grants[b]
    BY <1>1, <2>1, <2>2 DEF GrantsType
  <2>4. \A b \in Account : grants[b] \subseteq grants'[b]
    BY <2>3
  <2>5. ASSUME revoked = 0 PROVE Covered(r.on)'
    <3>1. StillCovered(r) /\ Covered(r.on)
      BY <2>2, <2>5 DEF GrantsInv
    <3>2. CASE r.on = Owner
      BY <3>2 DEF Covered
    <3>3. CASE r.on # Owner
      <4>1. /\ Iam!Exists(Iam!Parent(r.on)) /\ Iam!Parent(r.on)' = Iam!Parent(r.on)
            /\ \A g \in grants'[r.on] : Iam!authority_covers(Iam!Parent(r.on), g)
        BY <2>1, <2>3, <3>1, <3>3, SameRow DEF Covered, StillCovered
      <4>2. Iam!Parent(r.on) \in Account
        BY <1>1, <2>2, <3>1, ParentType DEF StillCovered
      <4>3. \A g \in grants'[r.on] : Iam!authority_covers(Iam!Parent(r.on), g)'
        BY <2>1, <2>4, <4>1, <4>2, CoversGrows
      <4> QED
        BY <2>1, <4>1, <4>3 DEF Covered, Iam!Exists
    <3> QED
      BY <3>2, <3>3
  <2>6. \A b \in Account : ~Iam!Exists(b) => Covered(b)'
    BY <2>1 DEF Covered, Iam!Exists
  <2>7. \A g \in Handler : req'[g] \subseteq req[g]
    BY <1>1, <2>1 DEF GrantsType
  <2>8. revoked = 0 => \A b \in Account :
          ~Iam!Exists(b) \/ grants'[b] # grants[b] => Covered(b)'
    BY <2>3, <2>5, <2>6
  <2>9. Iam!Exists(Owner)' = Iam!Exists(Owner)
    BY <2>1 DEF Iam!Exists
  <2> QED
    BY <1>4, <2>1, <2>4, <2>7, <2>8, <2>9
<1>10. ASSUME NEW h \in Handler, Iam!RequestFails(h) PROVE Goal
  <2>1. UNCHANGED <<accounts, grants, revoked>> /\ \A g \in Handler : req'[g] \subseteq req[g]
    BY <1>1, <1>10 DEF Iam!RequestFails, GrantsType
  <2> QED
    BY <1>3, <2>1
(* From the first grant taken back on, only the cut at the use remains. *)
<1>11. ASSUME NEW a \in Account, Iam!Revoke(a) PROVE Goal
  <2>1. revoked' # 0 /\ accounts' = accounts
    BY <1>1, <1>11 DEF Iam!Revoke, GrantsType
  <2> QED
    BY <2>1, SameRow DEF Goal, GrantsInv
<1>12. CASE UNCHANGED Iam!vars
  BY <1>3, <1>12 DEF Iam!vars
<1> QED
  BY <1>5, <1>6, <1>7, <1>8, <1>9, <1>10, <1>11, <1>12 DEF Iam!Next

-----------------------------------------------------------------------------
(* A sub-account's declared grants lie within its parent's: can is read at *)
(* both ends of the tree through the same matching of stars.               *)
LEMMA DeclaredWithin == GrantsInv => Iam!SubWithinParent
<1> SUFFICES ASSUME GrantsInv, revoked = 0, NEW a \in Account, Iam!Exists(a), a # Owner,
                    NEW r \in Iam!Request, Iam!can(grants[a], r)
             PROVE  r \in Iam!Ceiling(a)
  BY DEF Iam!SubWithinParent
<1>1. \A g \in grants[a] : Iam!authority_covers(Iam!Parent(a), g)
  BY DEF GrantsInv, Covered
<1>2. CASE Iam!authority_unlimited(Iam!Parent(a))
  BY <1>2 DEF Iam!Ceiling
<1>3. CASE ~Iam!authority_unlimited(Iam!Parent(a))
  <2>1. PICK g \in grants[a] : Iam!grant_matches(g, r)
    BY DEF Iam!can
  <2>2. PICK p \in grants[Iam!Parent(a)] : Iam!grant_matches(p, g)
    BY <1>1, <1>3 DEF Iam!authority_covers, Iam!can
  <2>3. Iam!can(grants[Iam!Parent(a)], r)
    BY <2>1, <2>2, MatchingTransitive DEF Iam!can
  <2> QED
    BY <1>3, <2>3 DEF Iam!Ceiling
<1> QED
  BY <1>2, <1>3

(* What is in effect lies within the parent, whatever was declared. *)
LEMMA EffectiveWithin == Iam!EffectiveWithinParent
<1> SUFFICES ASSUME NEW a \in Account, NEW r \in Iam!Request,
                    Iam!can_effective(grants[a], grants[Iam!Parent(a)], r)
             PROVE  Iam!can(grants[Iam!Parent(a)], r)
  BY DEF Iam!EffectiveWithinParent
<1>1. PICK g \in grants[a] : Iam!parent_covers(grants[Iam!Parent(a)], g) /\ Iam!grant_matches(g, r)
  BY DEF Iam!can_effective, Iam!effective_grants, Iam!can
<1>2. PICK p \in grants[Iam!Parent(a)] : Iam!grant_matches(p, g)
  BY <1>1 DEF Iam!parent_covers, Iam!grant_matches
<1> QED
  BY <1>1, <1>2, MatchingTransitive DEF Iam!can

(* The cut at the use takes nothing from what the check at the grant let   *)
(* through.                                                                *)
LEMMA GatesSame == ASSUME Iam!GrantsAssumption PROVE GrantsInv => Iam!GatesAgree
<1> SUFFICES ASSUME GrantsInv, revoked = 0, NEW a \in Account, Iam!Exists(a),
                    ~Iam!authority_unlimited(Iam!Parent(a))
             PROVE  Iam!effective_grants(grants[a], grants[Iam!Parent(a)]) = grants[a]
  BY DEF Iam!GatesAgree
<1>1. a # Owner
  BY DEF GrantsInv, Iam!authority_unlimited
<1>2. \A g \in grants[a] : Iam!can(grants[Iam!Parent(a)], g)
  BY <1>1 DEF GrantsInv, Covered, Iam!authority_covers
<1>3. \A g \in grants[a] : Iam!parent_covers(grants[Iam!Parent(a)], g)
  BY <1>2 DEF Iam!can, Iam!parent_covers, Iam!grant_matches
<1> QED
  BY <1>3 DEF Iam!effective_grants

(* The invariant, for any tree of accounts and any requests in flight.     *)
THEOREM GrantsInvariant ==
  ASSUME Iam!GrantsAssumption PROVE Iam!Behaviour => []GrantsInv
BY InitGrants, StepGrants, PTL DEF Iam!Behaviour

(* Delegation never adds authority: what a sub-account declares, what is   *)
(* in effect for it, and both gates of store.rs and authz.rs stay within   *)
(* its parent, however requests interleave between check and insert.       *)
THEOREM DelegationNeverAdds ==
  ASSUME Iam!GrantsAssumption PROVE Iam!Behaviour => []Delegation
<1>1. GrantsInv => Delegation
  BY DeclaredWithin, EffectiveWithin, GatesSame DEF Delegation, Iam!Delegation
<1> QED
  BY <1>1, GrantsInvariant, PTL

-----------------------------------------------------------------------------
(* SaasTenants.                                                            *)

(* What the tables and tokens consist of; how the events of the payment     *)
(* provider are numbered does not matter here.                             *)
TenantTypes ==
  /\ now \in Nat
  /\ role \in [User -> Tenants!Role] /\ t_plan \in [Tenant -> Tenants!Plan]
  /\ logins \subseteq [sub : User, role : Tenants!Role, at : Nat]
  /\ tokens \subseteq
       [sub : User, tenant_id : Tenant, role : Tenants!Role, exp : Nat]
  /\ \A e \in events : e.slug \in Tenant /\ e.plan \in Tenants!Plan
  /\ admin_until \in [User -> Nat]
  /\ deletions \subseteq [by : User, at : Nat, tenant_id : Tenant]
  /\ applied \in [Tenant -> Tenants!Plan \cup {Tenants!None}]

(* admin_until is kept up to date. *)
AdminInv ==
  \A u \in User :
    admin_until[u] <= now /\ (role[u] = "admin" => admin_until[u] = now)

(* A login under way is not older than the longest one, and saw the role    *)
(* that the row had when it began.                                         *)
LoginInv ==
  \A l \in logins :
    /\ l.at <= now /\ now <= l.at + LoginTime
    /\ l.role = "admin" => l.at <= admin_until[l.sub]

(* A token is for the tenant of its user, and ends with the delay at most   *)
(* after its user was an admin, when it says so.                           *)
TokenInv ==
  \A k \in tokens :
    /\ k.tenant_id = Home[k.sub]
    /\ k.role = "admin" =>
         k.exp <= admin_until[k.sub] + LoginTime + TOKEN_TTL_SECS

TenantsInv ==
  TenantTypes /\ AdminInv /\ LoginInv /\ TokenInv /\ AccountsHold

LEMMA TenantsStart == ASSUME Tenants!Init PROVE TenantsInv
<1>1. TenantTypes
  BY DEF Tenants!Init, TenantTypes, Tenants!Role, Tenants!Plan
<1>2. AdminInv /\ LoginInv /\ TokenInv
  BY DEF Tenants!Init, AdminInv, LoginInv, TokenInv
<1>3. AccountsHold
  BY DEF Tenants!Init, AccountsHold, Tenants!AccountsHold, Tenants!TenantsApart,
         Tenants!RevocationDelay, Tenants!PlanSurvives
<1> QED BY <1>1, <1>2, <1>3 DEF TenantsInv

(* Steps of logins, and a restart: tables and histories stay.              *)
LEMMA LoginsStep ==
  ASSUME Tenants!TenantsAssumption, TenantsInv,
         \/ Tenants!Restart
         \/ \E u \in User : Tenants!FetchUser(u)
         \/ \E l \in logins : Tenants!WrongPassword(l) \/ Tenants!SignToken(l)
  PROVE TenantsInv'
<1>0. UNCHANGED <<now, role, t_plan, t_todos, events, admin_until, deletions,
                  seen, applied>>
  BY DEF Tenants!Restart, Tenants!seed, Tenants!FetchUser, Tenants!WrongPassword,
         Tenants!SignToken
<1>1. AdminInv' /\ AccountsHold'
  BY <1>0 DEF TenantsInv, AdminInv, AccountsHold, Tenants!AccountsHold,
              Tenants!TenantsApart, Tenants!RevocationDelay, Tenants!PlanSurvives
<1> SUFFICES TenantTypes' /\ LoginInv' /\ TokenInv'
  BY <1>1 DEF TenantsInv
<1> USE DEF TenantsInv
<1>2. CASE logins' \subseteq logins /\ tokens' = tokens
  BY <1>0, <1>2 DEF TenantTypes, LoginInv, TokenInv
<1>3. ASSUME NEW u \in User, Tenants!FetchUser(u)
      PROVE TenantTypes' /\ LoginInv' /\ TokenInv'
  <2> DEFINE l == [sub |-> u, role |-> role[u], at |-> now]
  <2>1. logins' = logins \cup {l} /\ tokens' = tokens
    BY <1>3 DEF Tenants!FetchUser
  <2>2. l \in [sub : User, role : Tenants!Role, at : Nat] BY DEF TenantTypes
  <2>3. TenantTypes' BY <1>0, <2>1, <2>2 DEF TenantTypes
  <2>4. /\ l.at <= now /\ now <= l.at + LoginTime
        /\ l.role = "admin" => l.at <= admin_until[l.sub]
    BY DEF TenantTypes, AdminInv, Tenants!TenantsAssumption
  <2> HIDE DEF l
  <2>5. LoginInv' /\ TokenInv' BY <1>0, <2>1, <2>4 DEF LoginInv, TokenInv
  <2> QED BY <2>3, <2>5
<1>4. ASSUME NEW l \in logins, Tenants!SignToken(l)
      PROVE TenantTypes' /\ LoginInv' /\ TokenInv'
  <2> DEFINE k == [sub |-> l.sub, tenant_id |-> Home[l.sub], role |-> l.role,
                   exp |-> now + TOKEN_TTL_SECS]
  <2>1. logins' = logins \ {l} /\ tokens' = tokens \cup {k}
    BY <1>4 DEF Tenants!SignToken
  <2>2. l \in [sub : User, role : Tenants!Role, at : Nat] BY DEF TenantTypes
  <2>3. k \in [sub : User, tenant_id : Tenant, role : Tenants!Role, exp : Nat]
    BY <2>2 DEF TenantTypes, Tenants!TenantsAssumption
  <2>4. TenantTypes' BY <1>0, <2>1, <2>3 DEF TenantTypes
  <2>5. k.role = "admin" =>
          k.exp <= admin_until[k.sub] + LoginTime + TOKEN_TTL_SECS
    <3>1. l.at <= now /\ now <= l.at + LoginTime
          /\ (l.role = "admin" => l.at <= admin_until[l.sub])
      BY DEF LoginInv
    <3>2. admin_until[l.sub] \in Nat BY <2>2 DEF TenantTypes
    <3> QED BY <2>2, <3>1, <3>2 DEF TenantTypes, Tenants!TenantsAssumption
  <2>6. k.tenant_id = Home[k.sub] OBVIOUS
  <2> HIDE DEF k
  <2>7. LoginInv' /\ TokenInv'
    BY <1>0, <2>1, <2>5, <2>6 DEF LoginInv, TokenInv
  <2> QED BY <2>4, <2>7
<1>5. CASE Tenants!Restart BY <1>2, <1>5 DEF Tenants!Restart
<1>6. ASSUME NEW l \in logins, Tenants!WrongPassword(l)
      PROVE TenantTypes' /\ LoginInv' /\ TokenInv'
  BY <1>2, <1>6 DEF Tenants!WrongPassword
<1> QED BY <1>3, <1>4, <1>5, <1>6

(* Requests read and write rows of the token's tenant only, and only a     *)
(* token that says "admin" deletes.                                        *)
LEMMA RequestStep ==
  ASSUME Tenants!TenantsAssumption, TenantsInv, Tenants!Requests
  PROVE TenantsInv'
<1> USE DEF TenantsInv
<1>0. PICK k \in tokens :
        \/ Tenants!list_todos(k)
        \/ \E r \in t_todos : Tenants!get_todo(k, r.id) \/ Tenants!delete_todo(k, r.id)
        \/ Tenants!create_todo(k)
  BY DEF Tenants!Requests
<1>1. UNCHANGED <<now, role, t_plan, logins, tokens, events, admin_until, applied>>
  BY <1>0 DEF Tenants!list_todos, Tenants!get_todo, Tenants!delete_todo,
              Tenants!create_todo
<1>2. /\ k \in [sub : User, tenant_id : Tenant, role : Tenants!Role, exp : Nat]
      /\ k.tenant_id = Home[k.sub]
  BY DEF TenantTypes, TokenInv
<1>3. seen' = seen \/ \A s \in seen' : s \in seen \/ s.tenant_id = Home[s.by]
  <2>1. CASE Tenants!list_todos(k)
    BY <1>2, <2>1 DEF Tenants!list_todos
  <2>2. ASSUME NEW r \in t_todos, Tenants!get_todo(k, r.id)
        PROVE \A s \in seen' : s \in seen \/ s.tenant_id = Home[s.by]
    BY <1>2, <2>2 DEF Tenants!get_todo, Tenants!Found
  <2>3. CASE \E r \in t_todos : Tenants!delete_todo(k, r.id)
    BY <2>3 DEF Tenants!delete_todo
  <2>4. CASE Tenants!create_todo(k) BY <2>4 DEF Tenants!create_todo
  <2> QED BY <1>0, <2>1, <2>2, <2>3, <2>4
<1>4. \/ deletions' = deletions
      \/ /\ deletions' = deletions \cup
              {[by |-> k.sub, at |-> now, tenant_id |-> k.tenant_id]}
         /\ now <= k.exp + LEEWAY /\ k.role = "admin"
  <2>1. ASSUME NEW r \in t_todos, Tenants!delete_todo(k, r.id)
        PROVE /\ deletions' = deletions \cup
                   {[by |-> k.sub, at |-> now, tenant_id |-> k.tenant_id]}
              /\ now <= k.exp + LEEWAY /\ k.role = "admin"
    BY <2>1 DEF Tenants!delete_todo, Tenants!Bearer, Tenants!decode_token,
                Tenants!is_admin, Tenants!Found
  <2> QED BY <1>0, <2>1 DEF Tenants!list_todos, Tenants!get_todo, Tenants!create_todo
<1>5. TenantTypes' BY <1>1, <1>2, <1>4 DEF TenantTypes
<1>6. AdminInv' /\ LoginInv' /\ TokenInv'
  BY <1>1 DEF AdminInv, LoginInv, TokenInv
<1>7. Tenants!TenantsApart'
  BY <1>2, <1>3, <1>4 DEF AccountsHold, Tenants!AccountsHold, Tenants!TenantsApart
<1>8. Tenants!RevocationDelay'
  <2>1. k.role = "admin" => k.exp <= admin_until[k.sub] + LoginTime + TOKEN_TTL_SECS
    BY DEF TokenInv
  <2>2. admin_until[k.sub] \in Nat /\ now \in Nat BY <1>2 DEF TenantTypes
  <2>3. (now <= k.exp + LEEWAY /\ k.role = "admin") =>
          now <= admin_until[k.sub] + LoginTime + TOKEN_TTL_SECS + LEEWAY
    BY <1>2, <2>1, <2>2 DEF Tenants!TenantsAssumption
  <2> QED BY <1>1, <1>4, <2>3
        DEF AccountsHold, Tenants!AccountsHold, Tenants!RevocationDelay
<1>9. Tenants!PlanSurvives'
  BY <1>1 DEF AccountsHold, Tenants!AccountsHold, Tenants!PlanSurvives
<1> QED BY <1>5, <1>6, <1>7, <1>8, <1>9 DEF AccountsHold, Tenants!AccountsHold

(* Roles change and time passes: who was an admin stays so in the history. *)
LEMMA AdminStep ==
  ASSUME Tenants!TenantsAssumption, TenantsInv,
         Tenants!Tick \/ \E u \in User, r \in Tenants!Role : Tenants!ChangeRole(u, r)
  PROVE TenantsInv'
<1> USE DEF TenantsInv
<1>0. UNCHANGED <<t_plan, t_todos, logins, tokens, events, deletions, seen, applied>>
  BY DEF Tenants!Tick, Tenants!ChangeRole
<1>1. TenantTypes' /\ AdminInv' /\ (\A l \in logins : now' <= l.at + LoginTime)
      /\ now' >= now
  <2>1. CASE Tenants!Tick
    <3>1. /\ now' = now + 1 /\ role' = role
          /\ admin_until' = [u \in User |->
               IF role[u] = "admin" THEN now + 1 ELSE admin_until[u]]
          /\ \A l \in logins : now < l.at + LoginTime
      BY <2>1 DEF Tenants!Tick
    <3>2. TenantTypes' BY <1>0, <3>1 DEF TenantTypes
    <3>3. AdminInv' BY <3>1 DEF TenantTypes, AdminInv
    <3>4. \A l \in logins : l.at \in Nat BY DEF TenantTypes
    <3>5. \A l \in logins : now' <= l.at + LoginTime
      BY <3>1, <3>4 DEF TenantTypes, Tenants!TenantsAssumption
    <3> QED BY <3>1, <3>2, <3>3, <3>5 DEF TenantTypes
  <2>2. ASSUME NEW u \in User, NEW r \in Tenants!Role, Tenants!ChangeRole(u, r)
        PROVE /\ TenantTypes' /\ AdminInv'
              /\ \A l \in logins : now' <= l.at + LoginTime
              /\ now' >= now
    <3>1. /\ now' = now /\ role' = [role EXCEPT ![u] = r]
          /\ admin_until' = [admin_until EXCEPT ![u] = now]
      BY <2>2 DEF Tenants!ChangeRole
    <3> QED BY <1>0, <3>1 DEF TenantTypes, AdminInv, LoginInv
  <2> QED BY <2>1, <2>2
<1>2. \A u \in User : admin_until[u] <= admin_until'[u] /\ admin_until[u] \in Nat
                      /\ admin_until'[u] \in Nat
  BY <1>1 DEF TenantTypes, AdminInv, Tenants!Tick, Tenants!ChangeRole
<1>3. LoginInv'
  <2>1. ASSUME NEW l \in logins
        PROVE l.at <= now' /\ (l.role = "admin" => l.at <= admin_until'[l.sub])
    <3>1. l.at \in Nat /\ l.sub \in User BY DEF TenantTypes
    <3> QED BY <1>1, <1>2, <3>1 DEF LoginInv, TenantTypes
  <2> QED BY <1>0, <1>1, <2>1 DEF LoginInv
<1>4. TokenInv'
  <2>1. ASSUME NEW k \in tokens, k.role = "admin"
        PROVE k.exp <= admin_until'[k.sub] + LoginTime + TOKEN_TTL_SECS
    <3>1. k.exp \in Nat /\ k.sub \in User BY DEF TenantTypes
    <3> QED BY <1>2, <2>1, <3>1 DEF TokenInv, Tenants!TenantsAssumption
  <2> QED BY <1>0, <2>1 DEF TokenInv
<1>5. Tenants!TenantsApart' /\ Tenants!PlanSurvives'
  BY <1>0 DEF AccountsHold, Tenants!AccountsHold, Tenants!TenantsApart,
              Tenants!PlanSurvives
<1>6. Tenants!RevocationDelay'
  <2>1. ASSUME NEW d \in deletions
        PROVE d.at <= admin_until'[d.by] + LoginTime + TOKEN_TTL_SECS + LEEWAY
    <3>1. d.at \in Nat /\ d.by \in User BY DEF TenantTypes
    <3>2. d.at <= admin_until[d.by] + LoginTime + TOKEN_TTL_SECS + LEEWAY
      BY DEF AccountsHold, Tenants!AccountsHold, Tenants!RevocationDelay
    <3> QED BY <1>2, <3>1, <3>2 DEF Tenants!TenantsAssumption
  <2> QED BY <1>0, <2>1 DEF Tenants!RevocationDelay
<1> QED BY <1>1, <1>3, <1>4, <1>5, <1>6 DEF AccountsHold, Tenants!AccountsHold

(* Events come late, twice and in any order. *)
LEMMA BillingStep ==
  ASSUME TenantsInv,
         \/ \E t \in Tenant, p \in Tenants!Plan : Tenants!Emit(t, p)
         \/ \E e \in events : Tenants!billing_webhook(e)
  PROVE TenantsInv'
<1> USE DEF TenantsInv
<1>0. UNCHANGED <<now, role, t_todos, logins, tokens, admin_until, deletions, seen>>
  BY DEF Tenants!Emit, Tenants!billing_webhook
<1>1. AdminInv' /\ LoginInv' /\ TokenInv' BY <1>0 DEF AdminInv, LoginInv, TokenInv
<1>2. Tenants!TenantsApart' /\ Tenants!RevocationDelay'
  BY <1>0 DEF AccountsHold, Tenants!AccountsHold, Tenants!TenantsApart,
              Tenants!RevocationDelay
<1>3. TenantTypes' /\ Tenants!PlanSurvives'
  <2>1. ASSUME NEW t \in Tenant, NEW p \in Tenants!Plan, Tenants!Emit(t, p)
        PROVE TenantTypes' /\ Tenants!PlanSurvives'
    <3>1. /\ \E i : events' = events \cup {[slug |-> t, plan |-> p, no |-> i]}
          /\ UNCHANGED <<t_plan, applied>>
      BY <2>1 DEF Tenants!Emit
    <3>2. \A e \in events' : e.slug \in Tenant /\ e.plan \in Tenants!Plan
      BY <3>1 DEF TenantTypes
    <3> QED BY <1>0, <3>1, <3>2
          DEF TenantTypes, AccountsHold, Tenants!AccountsHold, Tenants!PlanSurvives
  <2>2. ASSUME NEW e \in events, Tenants!billing_webhook(e)
        PROVE TenantTypes' /\ Tenants!PlanSurvives'
    <3>1. /\ t_plan' = [t_plan EXCEPT ![e.slug] = e.plan]
          /\ applied' = [applied EXCEPT ![e.slug] = e.plan] /\ events' = events
      BY <2>2 DEF Tenants!billing_webhook
    <3>2. e.slug \in Tenant /\ e.plan \in Tenants!Plan BY DEF TenantTypes
    <3> QED BY <1>0, <3>1, <3>2
          DEF TenantTypes, AccountsHold, Tenants!AccountsHold, Tenants!PlanSurvives
  <2> QED BY <2>1, <2>2
<1> QED BY <1>1, <1>2, <1>3 DEF AccountsHold, Tenants!AccountsHold

(* Nobody sees or deletes a row of another tenant, whoever is demoted stops *)
(* deleting within one login, one token life and its leeway, and a paid    *)
(* plan outlives every restart.                                            *)
THEOREM TenantsStayApart ==
  ASSUME Tenants!TenantsAssumption PROVE Tenants!Spec => []AccountsHold
<1>1. Tenants!Init => TenantsInv BY TenantsStart
<1>2. TenantsInv /\ [Tenants!Next]_(Tenants!vars) => TenantsInv'
  <2> SUFFICES ASSUME TenantsInv, [Tenants!Next]_(Tenants!vars) PROVE TenantsInv'
    OBVIOUS
  <2>1. CASE UNCHANGED Tenants!vars
    BY <2>1 DEF Tenants!vars, TenantsInv, TenantTypes, AdminInv, LoginInv, TokenInv,
                AccountsHold, Tenants!AccountsHold, Tenants!TenantsApart,
                Tenants!RevocationDelay, Tenants!PlanSurvives
  <2> QED BY <2>1, LoginsStep, RequestStep, AdminStep, BillingStep DEF Tenants!Next
<1>3. TenantsInv => AccountsHold BY DEF TenantsInv
<1> QED BY <1>1, <1>2, <1>3, PTL DEF Tenants!Spec
=============================================================================
