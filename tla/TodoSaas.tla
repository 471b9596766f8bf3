------------------------------ MODULE TodoSaas ------------------------------
(***************************************************************************)
(* todo_api_saas: the requests of one tenant, by any number of instances   *)
(* of the service: the fixed-window rate limit and the idempotency keys in *)
(* Redis (limits.rs, routes/todos.rs), the quota of the free plan and the  *)
(* rows in Postgres (services/todos.rs), and the billing events that       *)
(* change the plan (services/billing.rs).  Every await is a point where    *)
(* other requests run, where the statement may fail, and where the handler *)
(* may be dropped with its client or its process.                          *)
(***************************************************************************)
EXTENDS Integers, FiniteSets

CONSTANTS
  Handler,    \* requests that may be under way together
  Intent,     \* the Idempotency-Keys that clients send
  Limit,      \* FREE_PLAN_TODO_LIMIT
  Rate,       \* RATE_LIMIT_PER_MINUTE
  MaxRequests,\* bound: requests
  MaxMinute   \* bound: the clock, in minutes

ASSUME SaasAssumption ==
  /\ Limit \in Nat \ {0} /\ Rate \in Nat \ {0}
  /\ MaxRequests \in Nat /\ MaxMinute \in Nat
  /\ Intent \cap {"plain", "other"} = {}

ASSUME HandlersAssumption == IsFiniteSet(Handler)

VARIABLES
  minute,     \* current_unix_minute
  hits,       \* Redis: the counter of each minute; 0: no such key
  ttl,        \* Redis: the minutes whose counter has a TTL
  idem,       \* Redis: {} or {the todo whose response is stored}
  plan,       \* saas.tenants.plan
  todos,      \* saas.todos: the ids of the rows
  serial,     \* the last id
  served,     \* requests received
  pc,         \* the step a handler is about to take
  op,         \* an intent; "plain": create without key; "other": no create
  window,     \* the minute that its request belongs to
  made,       \* the todo it has inserted
  outcome,    \* what it returned last
  inTime,     \* history: requests counted within the limit in their minute
  created,    \* history: the todos inserted for an intent
  replayed,   \* history: the todos returned from the stored response
  excused,    \* history: intents that may have been created twice
  forgotten,  \* history: intents whose stored response has expired
  paid,       \* history: the plan has been "pro"
  wasFree     \* history: the plan was "free" during the last request

redis == <<hits, ttl, idem>>
table == <<plan, todos, serial>>
request == <<op, window, made>>
quotaHistory == <<paid, wasFree>>
keyHistory == <<created, replayed, excused, forgotten>>
vars == <<minute, redis, table, served, pc, request, outcome,
          inTime, keyHistory, quotaHistory>>

Minute == 0..MaxMinute
Id == Nat \ {0}
Outcomes == {"none", "Created", "Replayed", "Done", "QuotaExceeded", "TooMany", "Err"}
Steps == {"idle", "incr", "expire", "other", "lookup", "plan", "count",
          "insert", "store"}

TypeOK ==
  /\ minute \in Minute
  /\ hits \in [Minute -> Nat] /\ ttl \subseteq Minute
  /\ idem \in [Intent -> SUBSET Id]
  /\ plan \in {"free", "pro"} /\ todos \subseteq Id /\ serial \in Nat
  /\ served \in 0..MaxRequests
  /\ pc \in [Handler -> Steps]
  /\ op \in [Handler -> Intent \cup {"plain", "other"}]
  /\ window \in [Handler -> Minute]
  /\ made \in [Handler -> Nat]
  /\ outcome \in [Handler -> Outcomes]
  /\ inTime \in [Minute -> Nat]
  /\ created \in [Intent -> SUBSET Id] /\ replayed \in [Intent -> SUBSET Id]
  /\ excused \subseteq Intent /\ forgotten \subseteq Intent
  /\ paid \in BOOLEAN /\ wasFree \in [Handler -> BOOLEAN]

Init ==
  /\ minute = 0
  /\ hits = [m \in Minute |-> 0] /\ ttl = {}
  /\ idem = [i \in Intent |-> {}]
  /\ plan = "free" /\ todos = {} /\ serial = 0
  /\ served = 0
  /\ pc = [h \in Handler |-> "idle"]
  /\ op = [h \in Handler |-> "other"]
  /\ window = [h \in Handler |-> 0]
  /\ made = [h \in Handler |-> 0]
  /\ outcome = [h \in Handler |-> "none"]
  /\ inTime = [m \in Minute |-> 0]
  /\ created = [i \in Intent |-> {}] /\ replayed = [i \in Intent |-> {}]
  /\ excused = {} /\ forgotten = {}
  /\ paid = FALSE /\ wasFree = [h \in Handler |-> FALSE]

At(h, s) == pc[h] = s

Goto(h, s) ==
  /\ pc' = [pc EXCEPT ![h] = s]
  /\ UNCHANGED <<request, outcome>>

(* The handler's locals are gone with it. *)
Return(h, o) ==
  /\ pc' = [pc EXCEPT ![h] = "idle"]
  /\ outcome' = [outcome EXCEPT ![h] = o]
  /\ op' = [op EXCEPT ![h] = "other"]
  /\ window' = [window EXCEPT ![h] = 0]
  /\ made' = [made EXCEPT ![h] = 0]

Keyed(h) == op[h] \in Intent

-----------------------------------------------------------------------------
(* A request is authenticated and reads the clock. *)
Arrive(h) ==
  /\ At(h, "idle")
  /\ served < MaxRequests
  /\ served' = served + 1
  /\ \E o \in Intent \cup {"plain", "other"} : op' = [op EXCEPT ![h] = o]
  /\ window' = [window EXCEPT ![h] = minute]
  /\ pc' = [pc EXCEPT ![h] = "incr"]
  /\ outcome' = [outcome EXCEPT ![h] = "none"]
  /\ wasFree' = [wasFree EXCEPT ![h] = plan = "free"]
  /\ UNCHANGED <<minute, redis, table, made, inTime, keyHistory, paid>>

(* enforce_rate_limit has let the request through. *)
Admitted(h) ==
  CASE Keyed(h) -> Goto(h, "lookup")
    [] op[h] = "plain" -> Goto(h, "plan")
    [] OTHER -> Goto(h, "other")

(* enforce_rate_limit: INCR, atomic in Redis; the first one of a window    *)
(* has the TTL to set, one beyond the limit is refused.  Its answer may be *)
(* lost.                                                                   *)
Incr(h) ==
  /\ At(h, "incr")
  /\ LET w == window[h]  n == hits[w] + 1 IN
       /\ hits' = [hits EXCEPT ![w] = n]
       /\ \/ Return(h, "Err") /\ UNCHANGED inTime
          \/ /\ CASE n = 1 -> Goto(h, "expire")
                  [] n > 1 /\ n <= Rate -> Admitted(h)
                  [] OTHER -> Return(h, "TooMany")
             /\ inTime' = IF n <= Rate /\ w = minute
                            THEN [inTime EXCEPT ![w] = @ + 1] ELSE inTime
  /\ UNCHANGED <<minute, ttl, idem, table, served, keyHistory,
                 quotaHistory>>

(* EXPIRE 60; it says so when there is no such key any more. *)
Expire(h) ==
  /\ At(h, "expire")
  /\ ttl' = IF hits[window[h]] > 0 THEN ttl \cup {window[h]} ELSE ttl
  /\ Admitted(h) \/ Return(h, "Err")
  /\ UNCHANGED <<minute, hits, idem, table, served, inTime,
                 keyHistory, quotaHistory>>

(* list_todos, get_todo, and a delete_todo that is refused: the member has *)
(* no admin role.                                                          *)
Read(h) ==
  /\ At(h, "other")
  /\ Return(h, "Done")
  /\ UNCHANGED <<minute, redis, table, served, inTime, keyHistory,
                 quotaHistory>>

(* DELETE; without such a row the answer is 404. *)
delete(t) == todos' = todos \ {t}

(* delete_todo by an admin. *)
Delete(h) ==
  /\ At(h, "other")
  /\ \E t \in 1..serial : delete(t)
  /\ Return(h, "Done")
  /\ UNCHANGED <<minute, redis, plan, serial, served, inTime, keyHistory,
                 quotaHistory>>

-----------------------------------------------------------------------------
(* Between its GET and its SET. *)
Creating(h) == pc[h] \in {"plan", "count", "insert", "store"}

(* History: another request with the same key is past its GET as well. *)
Overlaps(h) ==
  \E d \in Handler \ {h} : Creating(d) /\ op[d] = op[h]

(* Mutant of LookUp: the stored response is not looked for. *)
LookUpSkipped(h) ==
  /\ At(h, "lookup")
  /\ Goto(h, "plan")
  /\ excused' = IF Overlaps(h) THEN excused \cup {op[h]} ELSE excused
  /\ UNCHANGED <<minute, redis, table, served, inTime, created,
                 replayed, forgotten, quotaHistory>>

(* GET of the idempotency key: a stored response is returned as it is. *)
LookUp(h) ==
  /\ At(h, "lookup")
  /\ IF idem[op[h]] # {}
       THEN /\ Return(h, "Replayed")
            /\ replayed' = [replayed EXCEPT ![op[h]] = @ \cup idem[op[h]]]
            /\ UNCHANGED excused
       ELSE /\ Goto(h, "plan")
            /\ excused' = IF Overlaps(h) THEN excused \cup {op[h]} ELSE excused
            /\ UNCHANGED replayed
  /\ UNCHANGED <<minute, redis, table, served, inTime, created,
                 forgotten, quotaHistory>>

(* Mutant of SelectPlan: every plan is counted. *)
SelectPlanIgnored(h) ==
  /\ At(h, "plan")
  /\ Goto(h, "count")
  /\ UNCHANGED <<minute, redis, table, served, inTime, keyHistory,
                 quotaHistory>>

(* The plan is read from the database, not from the token. *)
SelectPlan(h) ==
  /\ At(h, "plan")
  /\ Goto(h, IF plan = "free" THEN "count" ELSE "insert")
  /\ UNCHANGED <<minute, redis, table, served, inTime, keyHistory,
                 quotaHistory>>

(* Mutant of CountTodos: `>` instead of `>=`. *)
CountOneMore(h) ==
  /\ At(h, "count")
  /\ IF Cardinality(todos) > Limit THEN Return(h, "QuotaExceeded")
     ELSE Goto(h, "insert")
  /\ UNCHANGED <<minute, redis, table, served, inTime, keyHistory,
                 quotaHistory>>

CountTodos(h) ==
  /\ At(h, "count")
  /\ IF Cardinality(todos) >= Limit THEN Return(h, "QuotaExceeded")
     ELSE Goto(h, "insert")
  /\ UNCHANGED <<minute, redis, table, served, inTime, keyHistory,
                 quotaHistory>>

(* The row is inserted.  Its answer reaches the handler; or it is lost,    *)
(* and nobody stores a response for the key.                               *)
Insert(h) ==
  /\ At(h, "insert")
  /\ serial' = serial + 1
  /\ todos' = todos \cup {serial + 1}
  /\ created' = [i \in Intent |->
       created[i] \cup IF i = op[h] THEN {serial + 1} ELSE {}]
  /\ \/ /\ Keyed(h)
        /\ pc' = [pc EXCEPT ![h] = "store"]
        /\ made' = [made EXCEPT ![h] = serial + 1]
        /\ UNCHANGED <<op, window, outcome, excused>>
     \/ ~Keyed(h) /\ Return(h, "Created") /\ UNCHANGED excused
     \/ /\ Return(h, "Err")
        /\ excused' = excused \cup ({op[h]} \cap Intent)
  /\ UNCHANGED <<minute, redis, plan, served, inTime, replayed,
                 forgotten, quotaHistory>>

(* Mutant of Store: SET without NX. *)
StoreOverwrites(h) ==
  /\ At(h, "store")
  /\ idem' = [idem EXCEPT ![op[h]] = {made[h]}]
  /\ Return(h, "Created")
  /\ UNCHANGED <<minute, hits, ttl, table, served, inTime,
                 keyHistory, quotaHistory>>

(* SET NX EX: the first response stays; its answer may be lost. *)
Store(h) ==
  /\ At(h, "store")
  /\ idem' = [idem EXCEPT ![op[h]] = IF @ = {} THEN {made[h]} ELSE @]
  /\ Return(h, "Created") \/ Return(h, "Err")
  /\ UNCHANGED <<minute, hits, ttl, table, served, inTime,
                 keyHistory, quotaHistory>>

(* A statement fails, or the handler is dropped with its client or its     *)
(* process, before the statement has any effect.                           *)
Fails(h) ==
  /\ pc[h] # "idle"
  /\ Return(h, "Err")
  /\ excused' = IF At(h, "store") THEN excused \cup {op[h]} ELSE excused
  /\ UNCHANGED <<minute, redis, table, served, inTime, created,
                 replayed, forgotten, quotaHistory>>

-----------------------------------------------------------------------------
(* handle_event: "subscription.updated" with a known plan; a redelivery    *)
(* applies it again, also after a later event.                             *)
handle_event(p) ==
  /\ plan' = p
  /\ paid' = (paid \/ p = "pro")
  /\ wasFree' = [h \in Handler |-> wasFree[h] \/ (p = "free" /\ pc[h] # "idle")]
  /\ UNCHANGED <<minute, redis, todos, serial, served, pc, request, outcome,
                 inTime, keyHistory>>

NextMinute ==
  /\ minute < MaxMinute
  /\ minute' = minute + 1
  /\ UNCHANGED <<redis, table, served, pc, request, outcome, inTime,
                 keyHistory, quotaHistory>>

(* Mutant of CounterExpires: a TTL shorter than the window. *)
CounterExpiresEarly(m) ==
  /\ m \in ttl
  /\ hits' = [hits EXCEPT ![m] = 0]
  /\ ttl' = ttl \ {m}
  /\ UNCHANGED <<minute, idem, table, served, pc, request, outcome, inTime,
                 keyHistory, quotaHistory>>

(* 60 seconds after the EXPIRE, hence in a later minute. *)
CounterExpires(m) ==
  /\ m \in ttl /\ m < minute
  /\ hits' = [hits EXCEPT ![m] = 0]
  /\ ttl' = ttl \ {m}
  /\ UNCHANGED <<minute, idem, table, served, pc, request, outcome, inTime,
                 keyHistory, quotaHistory>>

(* 24 hours after the SET. *)
ResponseExpires(i) ==
  /\ idem[i] # {}
  /\ idem' = [idem EXCEPT ![i] = {}]
  /\ excused' = excused \cup {i} /\ forgotten' = forgotten \cup {i}
  /\ UNCHANGED <<minute, hits, ttl, table, served, pc, request, outcome,
                 inTime, created, replayed, quotaHistory>>

Next ==
  \/ \E h \in Handler :
       \/ Arrive(h) \/ Incr(h) \/ Expire(h) \/ Read(h) \/ Delete(h) \/ LookUp(h)
       \/ SelectPlan(h) \/ CountTodos(h) \/ Insert(h) \/ Store(h) \/ Fails(h)
  \/ \E p \in {"free", "pro"} : handle_event(p)
  \/ NextMinute
  \/ \E m \in Minute : CounterExpires(m)
  \/ \E i \in Intent : ResponseExpires(i)

Spec == Init /\ [][Next]_vars

-----------------------------------------------------------------------------
(* How far the race between COUNT and INSERT can go: a tenant that never   *)
(* paid exceeds its quota by the requests that overlap, less one, however  *)
(* many follow and whatever is deleted in between.                         *)
QuotaOvershoot ==
  ~paid => Cardinality(todos) < Limit + Cardinality(Handler)

(* "An upgrade takes effect at once": a request is refused for its quota   *)
(* only if the plan was free at some moment of the request itself.         *)
PaidIsNotRefused ==
  \A h \in Handler : outcome[h] = "QuotaExceeded" => wasFree[h]

(* "A retry never executes again": an intent is created once, unless two   *)
(* of its requests were between GET and SET together, the handler was lost *)
(* between INSERT and SET, or 24 hours passed.                             *)
CreatedOnce ==
  \A i \in Intent \ excused : Cardinality(created[i]) <= 1

(* Also when requests did overlap, all retries get one and the same        *)
(* response, because of NX.                                                *)
ReplaysAgree ==
  \A i \in Intent \ forgotten : Cardinality(replayed[i]) <= 1

(* In the minute it belongs to, no more than Rate requests are counted     *)
(* within the limit: the counter, shared by all instances, outlives its    *)
(* window.  (A request that comes to INCR after its minute may find the    *)
(* counter gone.)                                                          *)
RateHolds == \A m \in Minute : inTime[m] <= Rate

-----------------------------------------------------------------------------
(* What every step preserves, a part for each property.                    *)

(* Only a request with a key looks for a response, or has one to store. *)
KeyInv ==
  \A h \in Handler :
    /\ pc[h] \in {"lookup", "store"} => Keyed(h)
    /\ At(h, "store") => made[h] # 0

(* The handlers that have passed the count and will insert. *)
Inserting == {h \in Handler : At(h, "insert")}

QuotaInv ==
  /\ IsFiniteSet(todos)
  /\ ~paid =>
       /\ plan = "free"
       /\ Cardinality(todos) + Cardinality(Inserting)
            < Limit + Cardinality(Handler)

PlanInv ==
  \A h \in Handler :
    /\ outcome[h] = "QuotaExceeded" => wasFree[h]
    /\ At(h, "count") => wasFree[h]
    /\ (pc[h] # "idle" /\ plan = "free") => wasFree[h]

(* One handler at a time creates for an intent, none once a response is    *)
(* stored; what was created is stored, or its handler is about to store it.*)
IntentInv ==
  \A i \in Intent \ excused :
    /\ \A h, d \in Handler :
         (Creating(h) /\ Creating(d) /\ op[h] = i /\ op[d] = i) => h = d
    /\ idem[i] # {} => \A h \in Handler : op[h] = i => ~Creating(h)
    /\ created[i] # {} =>
         idem[i] # {} \/ \E h \in Handler : At(h, "store") /\ op[h] = i
    /\ \A s, t \in created[i] : s = t

ReplayInv ==
  \A i \in Intent :
    /\ \A s, t \in idem[i] : s = t
    /\ i \notin forgotten => replayed[i] \subseteq idem[i]

RateInv ==
  \A m \in Minute :
    /\ inTime[m] <= Rate
    /\ m >= minute => inTime[m] <= hits[m]

IInv == TypeOK /\ KeyInv /\ QuotaInv /\ PlanInv /\ IntentInv /\ ReplayInv /\ RateInv

(* The quota is exceeded no further than the race between COUNT and INSERT *)
(* allows, and never held against a tenant that has paid.                  *)
QuotaFair == QuotaOvershoot /\ PaidIsNotRefused

(* A retry with the same key neither creates again nor hears something     *)
(* else.                                                                   *)
RetrySafe == CreatedOnce /\ ReplaysAgree
=============================================================================
