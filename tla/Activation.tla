----------------------------- MODULE Activation -----------------------------
(***************************************************************************)
(* license_demo/src/activation.rs: the online activation server and its    *)
(* clients.  A handler reads the clock (now_unix), then takes the mutex of *)
(* the store and does its whole work under it; between the two the vendor  *)
(* may revoke the key or change its quota.  A response may be lost on its  *)
(* way to the client; a client that hears nothing asks again, so that      *)
(* several of its requests may be under way.  A machine keeps running as   *)
(* long as client_lease_valid holds, and stops on a refused heartbeat.     *)
(***************************************************************************)
EXTENDS Integers, FiniteSetsExt

CONSTANTS
  Key, Machine,
  LEASE,      \* LEASE_SECS
  MaxQuota,   \* bound: machines of one key
  MaxTokens,  \* bound: activations by one machine
  InFlight,   \* bound: requests of one machine under way
  MaxTime     \* bound: the clock

ActivationAssumption ==
  /\ LEASE \in Nat \ {0}
  /\ MaxQuota \in Nat /\ MaxTokens \in Nat /\ MaxTime \in Nat
  /\ InFlight \in Nat

VARIABLES
  now,
  key_quota,  \* {} (unknown key) or {machines allowed}
  revoked,
  tokens,     \* the activation records: [id, key, lease_expires]
  machines_of_key,
  request,    \* requests of a machine whose handler has read the clock
  held,       \* what a client has stored: {} or {[id, key, lease_expires]}
  drawn,      \* tokens drawn for a machine; the n-th is <<m, n>>
  sold,       \* history: the highest quota registered for a key
  revokedAt   \* history: when a key was revoked

vars == <<now, key_quota, revoked, tokens, machines_of_key, request, held,
          drawn, sold, revokedAt>>
store == <<key_quota, revoked, tokens, machines_of_key>>
history == <<sold, revokedAt>>

Time == 0..MaxTime
TokenId == Machine \X (1..MaxTokens)

TypeOK ==
  /\ now \in Time
  /\ key_quota \in [Key -> SUBSET (0..MaxQuota)]
  /\ revoked \subseteq Key
  /\ tokens \subseteq [id : TokenId, key : Key, lease_expires : Nat]
  /\ machines_of_key \in [Key -> SUBSET Machine]
  /\ request \in [Machine -> SUBSET ([key : Key, at : Time]
                                     \cup [id : TokenId, key : Key, at : Time])]
  /\ held \in [Machine -> SUBSET [id : TokenId, key : Key, lease_expires : Nat]]
  /\ drawn \in [Machine -> 0..MaxTokens]
  /\ sold \in [Key -> 0..MaxQuota]
  /\ revokedAt \in [Key -> Time]

Init ==
  /\ now = 0
  /\ key_quota = [k \in Key |-> {}]
  /\ revoked = {} /\ tokens = {}
  /\ machines_of_key = [k \in Key |-> {}]
  /\ request = [m \in Machine |-> {}]
  /\ held = [m \in Machine |-> {}]
  /\ drawn = [m \in Machine |-> 0]
  /\ sold = [k \in Key |-> 0]
  /\ revokedAt = [k \in Key |-> 0]

-----------------------------------------------------------------------------
register_key(k, max_machines) ==
  /\ key_quota' = [key_quota EXCEPT ![k] = {max_machines}]
  /\ sold' = [sold EXCEPT ![k] = Max({@, max_machines})]
  /\ UNCHANGED <<now, revoked, tokens, machines_of_key, request, held, drawn,
                 revokedAt>>

revoke(k) ==
  /\ revoked' = revoked \cup {k}
  /\ revokedAt' = [revokedAt EXCEPT ![k] = IF k \in revoked THEN @ ELSE now]
  /\ UNCHANGED <<now, key_quota, tokens, machines_of_key, request, held,
                 drawn, sold>>

Receive(m, r) ==
  /\ Cardinality(request[m]) < InFlight
  /\ request' = [request EXCEPT ![m] = @ \cup {r}]

(* A handler has a request of m and has read the clock. *)
activate_handler(m, k) ==
  /\ Receive(m, [key |-> k, at |-> now])
  /\ UNCHANGED <<now, store, held, drawn, history>>

heartbeat_handler(m) ==
  /\ \E h \in held[m] : Receive(m, [id |-> h.id, key |-> h.key, at |-> now])
  /\ UNCHANGED <<now, store, held, drawn, history>>

(* The request is done; its response reaches the client, or is lost. *)
Respond(m, r, stored) ==
  /\ request' = [request EXCEPT ![m] = @ \ {r}]
  /\ held' = [held EXCEPT ![m] = stored] \/ UNCHANGED held

-----------------------------------------------------------------------------
HasPlace(m, k) ==
  \/ m \in machines_of_key[k]
  \/ \E q \in key_quota[k] : Cardinality(machines_of_key[k]) < q

(* Mutant of Allowed: `>` instead of `>=` in the quota check. *)
AllowedOneMore(m, k) ==
  /\ key_quota[k] # {} /\ k \notin revoked
  /\ \/ m \in machines_of_key[k]
     \/ \E q \in key_quota[k] : Cardinality(machines_of_key[k]) <= q

(* The key is known and not revoked; a new machine still has a place. *)
Allowed(m, k) ==
  /\ key_quota[k] # {} /\ k \notin revoked
  /\ HasPlace(m, k)

Held(id, r) == {[id |-> id, key |-> r.key, lease_expires |-> r.at + LEASE]}

activate(m, r) ==
  /\ drawn[m] < MaxTokens
  /\ Allowed(m, r.key)
  /\ machines_of_key' = [machines_of_key EXCEPT ![r.key] = @ \cup {m}]
  /\ drawn' = [drawn EXCEPT ![m] = @ + 1]
  /\ LET id == <<m, drawn[m] + 1>> IN
       /\ tokens' = tokens \cup Held(id, r)
       /\ Respond(m, r, Held(id, r))
  /\ UNCHANGED <<now, key_quota, revoked, history>>

(* UnknownKey, Revoked or QuotaExceeded: the client keeps what it has. *)
ActivateRefused(m, r) ==
  /\ ~Allowed(m, r.key)
  /\ Respond(m, r, held[m])
  /\ UNCHANGED <<now, store, drawn, history>>

Activate(m) ==
  \E r \in request[m] :
    "id" \notin DOMAIN r /\ (activate(m, r) \/ ActivateRefused(m, r))

-----------------------------------------------------------------------------
(* Mutant of heartbeat: the revocation list is not looked up. *)
HeartbeatUnchecked(m, r, a) ==
  /\ tokens' = (tokens \ {a}) \cup {[a EXCEPT !.lease_expires = r.at + LEASE]}
  /\ Respond(m, r, Held(r.id, r))
  /\ UNCHANGED <<now, key_quota, revoked, machines_of_key, drawn, history>>

(* The token is known and its key is not revoked: the lease is extended,   *)
(* also one that has run out.                                              *)
heartbeat(m, r, a) ==
  /\ a.key \notin revoked
  /\ tokens' = (tokens \ {a}) \cup {[a EXCEPT !.lease_expires = r.at + LEASE]}
  /\ Respond(m, r, Held(r.id, r))
  /\ UNCHANGED <<now, key_quota, revoked, machines_of_key, drawn, history>>

(* Revoked: the token goes too, and the client stops. *)
HeartbeatRevoked(m, r, a) ==
  /\ a.key \in revoked
  /\ tokens' = tokens \ {a}
  /\ Respond(m, r, {})
  /\ UNCHANGED <<now, key_quota, revoked, machines_of_key, drawn, history>>

(* UnknownToken: an earlier heartbeat removed it, its response was lost. *)
HeartbeatUnknown(m, r) ==
  /\ \A a \in tokens : a.id # r.id
  /\ Respond(m, r, {})
  /\ UNCHANGED <<now, store, drawn, history>>

Heartbeat(m) ==
  \E r \in request[m] :
    /\ "id" \in DOMAIN r
    /\ \/ \E a \in tokens :
            a.id = r.id /\ (heartbeat(m, r, a) \/ HeartbeatRevoked(m, r, a))
       \/ HeartbeatUnknown(m, r)

Clock ==
  /\ now < MaxTime
  /\ now' = now + 1
  /\ UNCHANGED <<store, request, held, drawn, history>>

Next ==
  \/ \E k \in Key : revoke(k) \/ \E q \in 0..MaxQuota : register_key(k, q)
  \/ \E m \in Machine :
       \/ \E k \in Key : activate_handler(m, k)
       \/ heartbeat_handler(m) \/ Activate(m) \/ Heartbeat(m)
  \/ Clock

Spec == Init /\ [][Next]_vars

-----------------------------------------------------------------------------
client_lease_valid(lease_expires) == now <= lease_expires

(* Machine m runs on key k: the lease it has stored is valid by its own    *)
(* judgement.                                                              *)
Running(m, k) ==
  \E h \in held[m] : h.key = k /\ client_lease_valid(h.lease_expires)

(* One key runs on no more machines than were ever sold with it, however   *)
(* often machines activate again, lose responses or see the quota change.  *)
QuotaHolds ==
  \A k \in Key :
    Cardinality({m \in Machine : Running(m, k)}) <= sold[k]

(* Remote revocation reaches everybody: no request that was under way when *)
(* the key was revoked, and none after it, leaves a client or the server   *)
(* with a lease beyond one lease time after the revocation.                *)
RevocationBites ==
  \A k \in revoked :
    /\ \A m \in Machine : \A h \in held[m] :
         h.key = k => h.lease_expires <= revokedAt[k] + LEASE
    /\ \A a \in tokens :
         a.key = k => a.lease_expires <= revokedAt[k] + LEASE
=============================================================================
