----------------------------- MODULE SaasTenants -----------------------------
(* todo_api_saas, across tenants: logins, tokens that carry tenant and role *)
(* until they expire, the todo statements that filter by the token's        *)
(* tenant, billing webhooks that may come late or twice, and restarts that  *)
(* seed the tables again.  (TodoSaas has the requests of one tenant in      *)
(* their single steps.)  Time is in units of the token's life.              *)
EXTENDS Integers, FiniteSets

CONSTANTS User, Tenant,
          Home,              \* user -> the tenant of the users row
          TOKEN_TTL_SECS, LEEWAY,
          LoginTime,         \* longest login, from its SELECT to its answer
          MaxTime, MaxTodos, MaxTokens, MaxEvents   \* bounds

TenantsAssumption ==
  /\ Home \in [User -> Tenant]
  /\ TOKEN_TTL_SECS \in Nat /\ LEEWAY \in Nat /\ LoginTime \in Nat

VARIABLES now,
          role,        \* saas.users: user -> role
          plan,        \* saas.tenants: tenant -> plan
          todos,       \* saas.todos: rows [id, tenant_id]
          next_id,
          logins,      \* logins past their SELECT: [sub, role, at]
          tokens,      \* [sub, tenant_id, role, exp]
          events,      \* events of the payment provider, for ever redeliverable
          \* what users and auditors have seen
          admin_until, \* user -> last moment at which the row said "admin"
          deletions,   \* [by, at, tenant_id]
          seen,        \* [by, tenant_id]: a user was shown a row of a tenant
          applied      \* tenant -> plan of the event that was applied last

vars == <<now, role, plan, todos, next_id, logins, tokens, events, admin_until,
          deletions, seen, applied>>

Role == {"admin", "member"}
Plan == {"free", "pro"}
None == "none"

TypeOK ==
  /\ now \in Nat /\ next_id \in Nat
  /\ role \in [User -> Role] /\ plan \in [Tenant -> Plan]
  /\ todos \subseteq [id : Nat, tenant_id : Tenant]
  /\ logins \subseteq [sub : User, role : Role, at : Nat]
  /\ tokens \subseteq [sub : User, tenant_id : Tenant, role : Role, exp : Int]
  /\ events \subseteq [slug : Tenant, plan : Plan, no : Nat]
  /\ admin_until \in [User -> Int]
  /\ deletions \subseteq [by : User, at : Nat, tenant_id : Tenant]
  /\ seen \subseteq [by : User, tenant_id : Tenant]
  /\ applied \in [Tenant -> Plan \union {None}]

(* The first start: migrate, and seed into empty tables. *)
Init ==
  /\ now = 0 /\ next_id = 1
  /\ role = [u \in User |-> "admin"] /\ plan = [t \in Tenant |-> "free"]
  /\ todos = {} /\ logins = {} /\ tokens = {} /\ events = {}
  /\ admin_until = [u \in User |-> 0]
  /\ deletions = {} /\ seen = {}
  /\ applied = [t \in Tenant |-> None]

(* seed on a later start: ON CONFLICT DO NOTHING. *)
seed_again ==   \* mutant: the seed rows win
  /\ plan' = [t \in Tenant |-> "free"] /\ UNCHANGED role
seed == UNCHANGED <<plan, role>>

Restart ==
  /\ seed
  /\ logins' = {}
  /\ UNCHANGED <<now, todos, next_id, tokens, events, admin_until, deletions,
                 seen, applied>>

(* login: the row is read, the password verified (slowly), the token signed. *)
FetchUser(u) ==
  /\ \A l \in logins : l.sub # u
  /\ logins' = logins \union {[sub |-> u, role |-> role[u], at |-> now]}
  /\ UNCHANGED <<now, role, plan, todos, next_id, tokens, events, admin_until,
                 deletions, seen, applied>>

WrongPassword(l) ==
  /\ logins' = logins \ {l}
  /\ UNCHANGED <<now, role, plan, todos, next_id, tokens, events, admin_until,
                 deletions, seen, applied>>

SignToken(l) ==
  /\ Cardinality(tokens) < MaxTokens
  /\ logins' = logins \ {l}
  /\ tokens' = tokens \union {[sub |-> l.sub, tenant_id |-> Home[l.sub], role |-> l.role,
                               exp |-> now + TOKEN_TTL_SECS]}
  /\ UNCHANGED <<now, role, plan, todos, next_id, events, admin_until,
                 deletions, seen, applied>>

(* decode_token: the signature is right, and exp has not passed by more     *)
(* than the leeway.                                                         *)
decode_token_undated(k) == k.exp >= 0   \* mutant: exp is not looked at
decode_token(k) == now <= k.exp + LEEWAY

Bearer(k) == k \in tokens /\ decode_token(k)

is_admin(k) == k.role = "admin"

list_todos(k) ==
  /\ Bearer(k)
  /\ seen' = seen \union 
       {[by |-> k.sub, tenant_id |-> r.tenant_id] :
          r \in {r \in todos : r.tenant_id = k.tenant_id}}
  /\ UNCHANGED <<now, role, plan, todos, next_id, logins, tokens, events,
                 admin_until, deletions, applied>>

(* WHERE tenant_id = $1 AND id = $2. *)
Found_by_id(k, r, id) == r.id = id   \* mutant: the tenant is forgotten
Found(k, r, id) == r.tenant_id = k.tenant_id /\ r.id = id

get_todo(k, id) ==
  /\ Bearer(k)
  /\ \E r \in todos :
       /\ Found(k, r, id)
       /\ seen' = seen \union {[by |-> k.sub, tenant_id |-> r.tenant_id]}
  /\ UNCHANGED <<now, role, plan, todos, next_id, logins, tokens, events,
                 admin_until, deletions, applied>>

create_todo(k) ==
  /\ Bearer(k)
  /\ todos' = todos \union {[id |-> next_id, tenant_id |-> k.tenant_id]}
  /\ next_id' = next_id + 1
  /\ UNCHANGED <<now, role, plan, logins, tokens, events, admin_until,
                 deletions, seen, applied>>

delete_todo(k, id) ==
  /\ Bearer(k) /\ is_admin(k)
  /\ \E r \in todos :
       /\ Found(k, r, id)
       /\ todos' = todos \ {r}
       /\ deletions' = deletions \union
               {[by |-> k.sub, at |-> now, tenant_id |-> r.tenant_id]}
  /\ UNCHANGED <<now, role, plan, next_id, logins, tokens, events, admin_until,
                 seen, applied>>

(* The operator changes a role in the table. *)
ChangeRole(u, r) ==
  /\ role[u] # r
  /\ role' = [role EXCEPT ![u] = r]
  /\ admin_until' = [admin_until EXCEPT ![u] = now]
  /\ UNCHANGED <<now, plan, todos, next_id, logins, tokens, events, deletions,
                 seen, applied>>

(* The payment provider signs an event; its delivery is retried at will.    *)
Emit(t, p) ==
  /\ Cardinality(events) < MaxEvents
  /\ events' = events \union {[slug |-> t, plan |-> p, no |-> Cardinality(events) + 1]}
  /\ UNCHANGED <<now, role, plan, todos, next_id, logins, tokens, admin_until,
                 deletions, seen, applied>>

(* billing_webhook: signature, then the body, then UPDATE saas.tenants.     *)
billing_webhook(e) ==
  /\ e \in events
  /\ plan' = [plan EXCEPT ![e.slug] = e.plan]
  /\ applied' = [applied EXCEPT ![e.slug] = e.plan]
  /\ UNCHANGED <<now, role, todos, next_id, logins, tokens, events,
                 admin_until, deletions, seen>>

Tick ==
  /\ now < MaxTime /\ \A l \in logins : now < l.at + LoginTime
  /\ now' = now + 1
  /\ admin_until' = [u \in User |-> IF role[u] = "admin" THEN now + 1 ELSE admin_until[u]]
  /\ UNCHANGED <<role, plan, todos, next_id, logins, tokens, events, deletions,
                 seen, applied>>

Requests ==
  \E k \in tokens :
    \/ list_todos(k)
    \/ \E r \in todos : get_todo(k, r.id) \/ delete_todo(k, r.id)
    \/ next_id <= MaxTodos /\ create_todo(k)

Next ==
  \/ Requests \/ Restart \/ Tick
  \/ \E u \in User : FetchUser(u) \/ \E r \in Role : ChangeRole(u, r)
  \/ \E l \in logins : WrongPassword(l) \/ SignToken(l)
  \/ \E t \in Tenant, p \in Plan : Emit(t, p)
  \/ \E e \in events : billing_webhook(e)

Spec == Init /\ [][Next]_vars

(* Whoever asks, by whatever id: a user is only shown, and only deletes,    *)
(* rows of the own tenant ("no exception").                                 *)
TenantsApart ==
  /\ \A s \in seen : s.tenant_id = Home[s.by]
  /\ \A d \in deletions : d.tenant_id = Home[d.by]

(* The revocation delay: who deletes at some moment was an admin at most    *)
(* one token life, its leeway and one login before.                         *)
RevocationDelay ==
  \A d \in deletions : d.at <= admin_until[d.by] + LoginTime + TOKEN_TTL_SECS + LEEWAY

(* The plan of a tenant is the one of the event that was applied last,      *)
(* through every restart.                                                   *)
PlanSurvives == \A t \in Tenant : applied[t] # None => plan[t] = applied[t]

(* Tenants, roles and plans are what the tables said, as late as the life  *)
(* of a token allows.                                                      *)
AccountsHold == TenantsApart /\ RevocationDelay /\ PlanSurvives
==============================================================================
