--------------------------- MODULE Issued_proofs ---------------------------
(***************************************************************************)
(* Proofs about what is issued, sealed and rendered, for every value of    *)
(* the constants: activations of a licence (Activation), offline licences  *)
(* (Licence), the logins in two steps (Phone), encrypted envelopes (Mail), *)
(* certificates (Cert) and the files of the app store (Apps), each for its *)
(* own specification.                                                      *)
(***************************************************************************)
EXTENDS MCIssued, FiniteSetTheorems, SequenceTheorems, WellFoundedInduction,
        TLAPS

(* The activation server, for any keys and machines, finite or not.        *)

Beat == [id : TokenId, key : Key, at : Time]
Plain == [key : Key, at : Time]
Lease == [id : TokenId, key : Key, lease_expires : Nat]

(* The heartbeats of m that are under way. *)
Beats(m) == {r \in request[m] : "id" \in DOMAIN r}

(* Whatever carries a token. *)
Named == tokens \cup UNION {held[m] \cup Beats(m) : m \in Machine}

(* A token is drawn once, and everything that carries it is of one key. *)
NameInv ==
  /\ \A x \in Named : x.id[2] <= drawn[x.id[1]]
  /\ \A x, y \in Named : x.id = y.id => x.key = y.key

(* A machine that has a lease or asks for its renewal has a place, and no  *)
(* more places were given than sold.                                       *)
PlaceInv ==
  /\ \A k \in Key :
       /\ IsFiniteSet(machines_of_key[k])
       /\ Cardinality(machines_of_key[k]) <= sold[k]
       /\ \A q \in key_quota[k] : q <= sold[k]
  /\ \A m \in Machine : \A x \in held[m] \cup Beats(m) :
       m \in machines_of_key[x.key]

(* No lease reaches further than a lease time from now. *)
LeaseInv ==
  /\ \A m \in Machine : \A r \in request[m] : r.at <= now
  /\ \A m \in Machine : \A h \in held[m] : h.lease_expires <= now + LEASE
  /\ \A a \in tokens : a.lease_expires <= now + LEASE
  /\ \A k \in revoked : revokedAt[k] <= now

IInv == TypeOK /\ NameInv /\ PlaceInv /\ LeaseInv /\ RevocationBites

-----------------------------------------------------------------------------
LEMMA BeatType ==
  ASSUME TypeOK, NEW m \in Machine, NEW r \in Beats(m)
  PROVE  r \in Beat
  BY DEF TypeOK, Beats, Beat, TokenId

LEMMA RequestType ==
  ASSUME TypeOK, NEW m \in Machine, NEW r \in request[m]
  PROVE  r.key \in Key /\ r.at \in Time
  BY DEF TypeOK

LEMMA NamedType ==
  ASSUME TypeOK
  PROVE  \A x \in Named : x.id \in TokenId /\ x.key \in Key
  BY BeatType DEF TypeOK, Named, Beat

LEMMA HeldType ==
  ASSUME ActivationAssumption,
         NEW id \in TokenId, NEW k \in Key, NEW at \in Time
  PROVE  [id |-> id, key |-> k, lease_expires |-> at + LEASE] \in Lease
  BY DEF ActivationAssumption, Lease, Time

LEMMA MaxOfTwo ==
  ASSUME NEW a \in Nat, NEW b \in Nat
  PROVE  Max({a, b}) \in {a, b} /\ Max({a, b}) >= a /\ Max({a, b}) >= b
<1> DEFINE P(x) == x \in {a, b} /\ \A y \in {a, b} : x >= y
<1>1. \E x : P(x)
  <2>1. CASE a >= b BY <2>1, P(a)
  <2>2. CASE ~(a >= b) BY <2>2, P(b)
  <2> QED BY <2>1, <2>2
<1>2. P(CHOOSE x : P(x)) BY <1>1
<1>3. (CHOOSE x : P(x)) = Max({a, b}) BY DEF Max
<1> QED BY <1>2, <1>3

(* What a response changes: a request less, and at most one other lease. *)
LEMMA Responds ==
  ASSUME TypeOK, NEW m \in Machine, NEW r \in request[m],
         NEW s \in SUBSET Lease, Respond(m, r, s)
  PROVE  /\ request' \in [Machine -> SUBSET (Plain \cup Beat)]
         /\ held' \in [Machine -> SUBSET Lease]
         /\ \A n \in Machine : request'[n] \subseteq request[n]
         /\ \A n \in Machine : held'[n] \subseteq held[n]
                                 \/ (n = m /\ held'[n] \subseteq s)
  BY DEF TypeOK, Respond, Plain, Beat, Lease

-----------------------------------------------------------------------------
(* A step after which everything with a token has the token of something   *)
(* before, of the same key, keeps the names.                               *)
LEMMA NamesKept ==
  ASSUME TypeOK, NameInv,
         \A x \in Named' : \E y \in Named : x.id = y.id /\ x.key = y.key,
         UNCHANGED drawn
  PROVE  NameInv'
<1>1. \A x \in Named' : x.id[2] <= drawn'[x.id[1]]
  BY DEF NameInv
<1>2. \A x, y \in Named' : x.id = y.id => x.key = y.key
  <2> SUFFICES ASSUME NEW x \in Named', NEW y \in Named', x.id = y.id
               PROVE  x.key = y.key
    OBVIOUS
  <2>1. PICK u \in Named : x.id = u.id /\ x.key = u.key OBVIOUS
  <2>2. PICK v \in Named : y.id = v.id /\ y.key = v.key OBVIOUS
  <2> QED BY <2>1, <2>2 DEF NameInv
<1> QED BY <1>1, <1>2 DEF NameInv

LEMMA BeatsShrink ==
  ASSUME NEW m \in Machine, request'[m] \subseteq request[m]
  PROVE  Beats(m)' \subseteq Beats(m)
  BY DEF Beats

(* A response whose lease, if there is one, carries the token and key of   *)
(* something before, while tokens are at most extended.                    *)
LEMMA ResponseNames ==
  ASSUME TypeOK, NameInv, NEW m \in Machine, NEW r \in request[m],
         NEW s \in SUBSET Lease, Respond(m, r, s),
         \A x \in s : \E y \in Named : x.id = y.id /\ x.key = y.key,
         \A x \in tokens' : \E y \in Named : x.id = y.id /\ x.key = y.key,
         UNCHANGED drawn
  PROVE  NameInv'
<1>1. \A n \in Machine : Beats(n)' \subseteq Beats(n)
  BY Responds, BeatsShrink
<1>2. \A n \in Machine : held'[n] \subseteq held[n] \/ held'[n] \subseteq s
  BY Responds
<1>3. \A x \in Named' : \E y \in Named : x.id = y.id /\ x.key = y.key
  <2> TAKE x \in Named'
  <2>1. CASE x \in tokens' BY <2>1
  <2>2. CASE x \notin tokens'
    <3>1. PICK n \in Machine : x \in held'[n] \cup Beats(n)'
      BY <2>2 DEF Named
    <3>2. x \in s \/ x \in held[n] \cup Beats(n) BY <3>1, <1>1, <1>2
    <3> QED BY <3>2 DEF Named
  <2> QED BY <2>1, <2>2
<1> QED BY <1>3, NamesKept

LEMMA ResponsePlaces ==
  ASSUME TypeOK, PlaceInv, NEW m \in Machine, NEW r \in request[m],
         NEW s \in SUBSET Lease, Respond(m, r, s),
         \A x \in s : m \in machines_of_key'[x.key],
         \A k \in Key : machines_of_key[k] \subseteq machines_of_key'[k]
  PROVE  \A n \in Machine : \A x \in held'[n] \cup Beats(n)' :
           n \in machines_of_key'[x.key]
<1> SUFFICES ASSUME NEW n \in Machine, NEW x \in held'[n] \cup Beats(n)'
             PROVE  n \in machines_of_key'[x.key]
  OBVIOUS
<1>1. Beats(n)' \subseteq Beats(n)
  BY Responds, BeatsShrink
<1>2. x \in held[n] \cup Beats(n) \/ (n = m /\ x \in s)
  BY <1>1, Responds
<1>3. CASE n = m /\ x \in s BY <1>3
<1>4. CASE x \in held[n] \cup Beats(n)
  <2>1. x.key \in Key BY <1>4, BeatType DEF TypeOK, Beat
  <2> QED BY <1>4, <2>1 DEF PlaceInv
<1> QED BY <1>2, <1>3, <1>4

(* A response whose lease begins when its handler read the clock, of a key *)
(* that is not revoked, while the leases of tokens are bounded too.        *)
LEMMA ResponseLeases ==
  ASSUME ActivationAssumption, TypeOK, LeaseInv, RevocationBites,
         NEW m \in Machine, NEW r \in request[m],
         NEW s \in SUBSET Lease, Respond(m, r, s),
         \A x \in s : x.lease_expires <= now + LEASE /\ x.key \notin revoked,
         \A x \in tokens' : x \in tokens
           \/ (x.lease_expires <= now + LEASE /\ x.key \notin revoked),
         UNCHANGED <<now, revoked, revokedAt>>
  PROVE  LeaseInv' /\ RevocationBites'
<1>1. \A n \in Machine : request'[n] \subseteq request[n] BY Responds
<1>2. \A n \in Machine : \A h \in held'[n] : h \in held[n] \/ h \in s
  BY Responds
<1>3. LeaseInv' BY <1>1, <1>2 DEF LeaseInv
<1>4. RevocationBites'
  <2> SUFFICES ASSUME NEW k \in revoked'
               PROVE  /\ \A n \in Machine : \A h \in held'[n] :
                           h.key = k => h.lease_expires <= revokedAt'[k] + LEASE
                      /\ \A a \in tokens' :
                           a.key = k => a.lease_expires <= revokedAt'[k] + LEASE
    BY DEF RevocationBites
  <2>1. k \in revoked OBVIOUS
  <2> QED BY <1>2, <2>1 DEF RevocationBites
<1> QED BY <1>3, <1>4

(* A refusal, and a response without a lease. *)
LEMMA Refusal ==
  ASSUME ActivationAssumption, IInv,
         NEW m \in Machine, NEW r \in request[m], NEW s \in SUBSET held[m],
         Respond(m, r, s), tokens' \subseteq tokens,
         UNCHANGED <<now, key_quota, revoked, machines_of_key, drawn, history>>
  PROVE  IInv'
<1>1. s \in SUBSET Lease BY DEF IInv, TypeOK, Lease
<1>2. TypeOK' BY <1>1, Responds DEF IInv, TypeOK, Lease, Plain, Beat, history
<1>3. NameInv'
  <2>1. \A x \in s \cup tokens' : x \in Named BY DEF Named
  <2> QED BY <1>1, <2>1, ResponseNames DEF IInv
<1>4. PlaceInv'
  <2>1. \A x \in s : m \in machines_of_key'[x.key]
    BY DEF IInv, PlaceInv
  <2>2. \A n \in Machine : \A x \in held'[n] \cup Beats(n)' :
          n \in machines_of_key'[x.key]
    BY <1>1, <2>1, ResponsePlaces DEF IInv
  <2> QED BY <2>2 DEF IInv, PlaceInv, history
<1>5. LeaseInv' /\ RevocationBites'
  <2>1. \A n \in Machine : request'[n] \subseteq request[n]
    BY <1>1, Responds DEF IInv
  <2>2. \A n \in Machine : held'[n] \subseteq held[n]
    BY <1>1, Responds DEF IInv
  <2>3. LeaseInv' BY <2>1, <2>2 DEF IInv, LeaseInv, history
  <2>4. RevocationBites' BY <2>2 DEF IInv, RevocationBites, history
  <2> QED BY <2>3, <2>4
<1> QED BY <1>2, <1>3, <1>4, <1>5 DEF IInv

-----------------------------------------------------------------------------
LEMMA InitKeeps == ActivationAssumption /\ Init => IInv
<1> SUFFICES ASSUME ActivationAssumption, Init PROVE IInv OBVIOUS
<1>1. TypeOK BY DEF ActivationAssumption, Init, TypeOK, Time
<1>2. \A m \in Machine : held[m] = {} /\ Beats(m) = {}
  BY DEF Init, Beats
<1>3. NameInv BY <1>2 DEF NameInv, Named, Init
<1>4. PlaceInv BY <1>2, FS_EmptySet DEF PlaceInv, Init
<1>5. LeaseInv /\ RevocationBites BY <1>2 DEF LeaseInv, RevocationBites, Init
<1> QED BY <1>1, <1>3, <1>4, <1>5 DEF IInv

(* A quota is set: what was sold covers it and what was sold before. *)
LEMMA RegisterKeeps ==
  ASSUME ActivationAssumption, IInv,
         NEW k \in Key, NEW q \in 0..MaxQuota, register_key(k, q)
  PROVE  IInv'
<1> USE DEF IInv
<1> DEFINE most == Max({sold[k], q})
<1>1. /\ sold[k] \in 0..MaxQuota
      /\ key_quota' = [key_quota EXCEPT ![k] = {q}]
      /\ sold' = [sold EXCEPT ![k] = most]
      /\ UNCHANGED <<now, revoked, tokens, machines_of_key, request, held,
                     drawn, revokedAt>>
  BY DEF register_key, TypeOK
<1>2. most \in 0..MaxQuota /\ most >= sold[k] /\ most >= q
  BY <1>1, MaxOfTwo DEF ActivationAssumption
<1> HIDE DEF most
<1>3. TypeOK' BY <1>1, <1>2 DEF TypeOK
<1>4. \A m \in Machine : Beats(m)' = Beats(m) BY <1>1 DEF Beats
<1>5. NameInv' BY <1>1, <1>4 DEF NameInv, Named
<1>6. PlaceInv'
  <2>1. \A j \in Key :
          /\ IsFiniteSet(machines_of_key'[j])
          /\ Cardinality(machines_of_key'[j]) <= sold'[j]
          /\ \A p \in key_quota'[j] : p <= sold'[j]
    <3> TAKE j \in Key
    <3>1. Cardinality(machines_of_key[j]) \in Nat
      BY FS_CardinalityType DEF PlaceInv
    <3>2. CASE j = k
      <4>1. sold'[j] = most /\ key_quota'[j] = {q}
        BY <1>1, <3>2 DEF TypeOK
      <4>2. Cardinality(machines_of_key[j]) <= sold[k] /\ sold[k] <= most
        BY <1>2, <3>2 DEF PlaceInv
      <4>3. Cardinality(machines_of_key[j]) <= most
        BY <1>1, <1>2, <3>1, <4>2 DEF ActivationAssumption
      <4> QED BY <1>1, <1>2, <4>1, <4>3 DEF PlaceInv
    <3>3. CASE j # k BY <1>1, <3>1, <3>3 DEF PlaceInv, TypeOK
    <3> QED BY <3>2, <3>3
  <2> QED BY <1>1, <1>4, <2>1 DEF PlaceInv
<1>7. LeaseInv' /\ RevocationBites' BY <1>1 DEF LeaseInv, RevocationBites
<1> QED BY <1>3, <1>5, <1>6, <1>7

(* A revocation: no lease of the key reaches further than one from now. *)
LEMMA RevokeKeeps ==
  ASSUME ActivationAssumption, IInv, NEW k \in Key, revoke(k)
  PROVE  IInv'
<1> USE DEF IInv
<1>1. TypeOK' BY DEF TypeOK, revoke
<1>2. \A m \in Machine : Beats(m)' = Beats(m) BY DEF Beats, revoke
<1>3. NameInv' BY <1>2 DEF NameInv, Named, revoke
<1>4. PlaceInv' BY <1>2 DEF PlaceInv, revoke
<1>5. LeaseInv'
  BY DEF LeaseInv, TypeOK, Time, revoke, ActivationAssumption
<1>6. RevocationBites'
  <2>1. CASE k \in revoked
    BY <2>1 DEF RevocationBites, revoke, TypeOK
  <2>2. CASE k \notin revoked
    BY <2>2 DEF RevocationBites, LeaseInv, revoke, TypeOK
  <2> QED BY <2>1, <2>2
<1> QED BY <1>1, <1>3, <1>4, <1>5, <1>6

LEMMA ActivateHandlerKeeps ==
  ASSUME ActivationAssumption, IInv, NEW m \in Machine, NEW k \in Key,
         activate_handler(m, k)
  PROVE  IInv'
<1> USE DEF IInv
<1> DEFINE r == [key |-> k, at |-> now]
<1>1. /\ request' = [request EXCEPT ![m] = @ \cup {r}]
      /\ UNCHANGED <<now, store, held, drawn, history>>
      /\ now \in Time
  BY DEF activate_handler, Receive, TypeOK
<1>2. TypeOK' BY <1>1 DEF TypeOK, store, history
<1>3. "id" \notin DOMAIN r OBVIOUS
<1>4. \A n \in Machine : Beats(n)' = Beats(n)
  BY <1>1, <1>3 DEF Beats, TypeOK
<1>5. NameInv' BY <1>1, <1>4 DEF NameInv, Named, store
<1>6. PlaceInv' BY <1>1, <1>4 DEF PlaceInv, store, history
<1>7. LeaseInv'
  <2>1. \A n \in Machine : \A x \in request'[n] : x \in request[n] \/ x = r
    BY <1>1 DEF TypeOK
  <2>2. r.at = now /\ now <= now BY <1>1 DEF Time, ActivationAssumption
  <2> QED BY <1>1, <2>1, <2>2 DEF LeaseInv, store, history
<1>8. RevocationBites' BY <1>1 DEF RevocationBites, store, history
<1> QED BY <1>2, <1>5, <1>6, <1>7, <1>8

LEMMA HeartbeatHandlerKeeps ==
  ASSUME ActivationAssumption, IInv, NEW m \in Machine, heartbeat_handler(m)
  PROVE  IInv'
<1> USE DEF IInv
<1>1. PICK h \in held[m] : Receive(m, [id |-> h.id, key |-> h.key, at |-> now])
  BY DEF heartbeat_handler
<1> DEFINE r == [id |-> h.id, key |-> h.key, at |-> now]
<1>2. /\ request' = [request EXCEPT ![m] = @ \cup {r}]
      /\ UNCHANGED <<now, store, held, drawn, history>>
  BY <1>1 DEF heartbeat_handler, Receive
<1>9. now \in Time /\ h.id \in TokenId /\ h.key \in Key
  BY DEF TypeOK
<1>3. TypeOK' BY <1>2, <1>9 DEF TypeOK, store, history
<1>4. \A n \in Machine : \A x \in Beats(n)' :
        x \in Beats(n) \/ (n = m /\ x = r)
  BY <1>2 DEF Beats, TypeOK
<1>5. NameInv'
  <2>1. h \in Named BY DEF Named
  <2>2. r.id = h.id /\ r.key = h.key OBVIOUS
  <2>3. \A x \in Named' : x \in Named \/ x = r
    BY <1>2, <1>4 DEF Named, store
  <2> HIDE DEF r
  <2>4. \A x \in Named' : \E y \in Named : x.id = y.id /\ x.key = y.key
    BY <2>1, <2>2, <2>3
  <2> QED BY <1>2, <2>4, NamesKept
<1>6. PlaceInv'
  <2>1. m \in machines_of_key[r.key] BY DEF PlaceInv
  <2> QED BY <1>2, <1>4, <2>1 DEF PlaceInv, store, history
<1>7. LeaseInv'
  <2>1. \A n \in Machine : \A x \in request'[n] : x \in request[n] \/ x = r
    BY <1>2 DEF TypeOK
  <2>2. r.at = now /\ now <= now BY <1>9 DEF Time, ActivationAssumption
  <2> QED BY <1>2, <2>1, <2>2 DEF LeaseInv, store, history
<1>8. RevocationBites' BY <1>2 DEF RevocationBites, store, history
<1> QED BY <1>3, <1>5, <1>6, <1>7, <1>8

-----------------------------------------------------------------------------
(* A new token, and a place for a machine that had none. *)
LEMMA ActivateKeeps ==
  ASSUME ActivationAssumption, IInv,
         NEW m \in Machine, NEW r \in request[m], activate(m, r)
  PROVE  IInv'
<1> USE DEF IInv
<1> DEFINE id == <<m, drawn[m] + 1>>
           s == Held(id, r)
           k == r.key
<1>1. k \in Key /\ r.at \in Time BY RequestType
<1>2. id \in TokenId /\ drawn[m] \in 0..MaxTokens
  BY DEF activate, TokenId, TypeOK, ActivationAssumption
<1>3. s \in SUBSET Lease BY <1>1, <1>2, HeldType DEF Held
<1>4. /\ k \notin revoked
      /\ HasPlace(m, k)
      /\ machines_of_key' = [machines_of_key EXCEPT ![k] = @ \cup {m}]
      /\ drawn' = [drawn EXCEPT ![m] = @ + 1]
      /\ drawn[m] < MaxTokens
      /\ tokens' = tokens \cup s
      /\ Respond(m, r, s)
      /\ UNCHANGED <<now, key_quota, revoked, history>>
  BY DEF activate, Allowed
<1>5. \A x \in s : x.id = id /\ x.key = k /\ x.lease_expires = r.at + LEASE
  BY DEF Held
<1> HIDE DEF s
<1>6. TypeOK'
  BY <1>1, <1>2, <1>3, <1>4, Responds
     DEF TypeOK, Lease, Plain, Beat, history, ActivationAssumption
<1>7. /\ \A n \in Machine : Beats(n)' \subseteq Beats(n)
      /\ \A n \in Machine : held'[n] \subseteq held[n] \/ held'[n] \subseteq s
  BY <1>3, <1>4, Responds, BeatsShrink
<1>8. \A x \in Named' : x \in Named \/ x \in s
  BY <1>4, <1>7 DEF Named
<1>9. NameInv'
  <2>1. \A x \in Named : x.id \in TokenId /\ x.id # id
    <3> TAKE x \in Named
    <3>1. x.id \in TokenId /\ x.id[2] <= drawn[x.id[1]]
      BY NamedType DEF NameInv
    <3>2. id[2] = drawn[m] + 1 /\ id[1] = m OBVIOUS
    <3> HIDE DEF id
    <3>3. x.id # id BY <1>2, <3>1, <3>2
    <3> QED BY <3>1, <3>3
  <2>2. \A x \in Named' : x.id[2] <= drawn'[x.id[1]]
    <3> TAKE x \in Named'
    <3>1. CASE x \in s
      BY <1>2, <1>4, <1>5, <3>1 DEF TypeOK
    <3>2. CASE x \in Named
      <4>1. x.id \in TokenId /\ x.id[2] <= drawn[x.id[1]]
        BY <3>2, NamedType DEF NameInv
      <4>2. x.id[1] \in Machine /\ x.id[2] \in Int BY <4>1 DEF TokenId
      <4>3. drawn[x.id[1]] \in Nat /\ drawn[x.id[1]] <= drawn'[x.id[1]]
        BY <1>4, <4>2 DEF TypeOK
      <4>4. drawn'[x.id[1]] \in Int BY <1>6, <4>2 DEF TypeOK
      <4> QED BY <4>1, <4>2, <4>3, <4>4
    <3> QED BY <1>8, <3>1, <3>2
  <2> HIDE DEF id
  <2>3. \A x, y \in Named' : x.id = y.id => x.key = y.key
    BY <1>5, <1>8, <2>1 DEF NameInv
  <2> QED BY <2>2, <2>3 DEF NameInv
<1>10. PlaceInv'
  <2>1. \A j \in Key :
          /\ IsFiniteSet(machines_of_key'[j])
          /\ Cardinality(machines_of_key'[j]) <= sold'[j]
          /\ \A p \in key_quota'[j] : p <= sold'[j]
    <3> SUFFICES ASSUME NEW j \in Key
                 PROVE  /\ IsFiniteSet(machines_of_key'[j])
                        /\ Cardinality(machines_of_key'[j]) <= sold[j]
      BY <1>4 DEF PlaceInv, history
    <3>1. CASE machines_of_key'[j] = machines_of_key[j]
      BY <3>1 DEF PlaceInv
    <3>2. CASE machines_of_key'[j] # machines_of_key[j]
      <4>1. /\ j = k /\ m \notin machines_of_key[j]
            /\ machines_of_key'[j] = machines_of_key[j] \cup {m}
        BY <1>1, <1>4, <3>2 DEF TypeOK
      <4>2. PICK q \in key_quota[j] : Cardinality(machines_of_key[j]) < q
        BY <1>4, <4>1 DEF HasPlace
      <4>3. q <= sold[j] /\ q \in Nat /\ sold[j] \in Nat
        BY DEF PlaceInv, TypeOK
      <4>4. IsFiniteSet(machines_of_key[j]) BY DEF PlaceInv
      <4>5. Cardinality(machines_of_key[j]) \in Nat
        BY <4>4, FS_CardinalityType
      <4>6. /\ IsFiniteSet(machines_of_key'[j])
            /\ Cardinality(machines_of_key'[j])
                 = Cardinality(machines_of_key[j]) + 1
        <5> DEFINE S == machines_of_key[j]
        <5>1. /\ IsFiniteSet(S \cup {m})
              /\ Cardinality(S \cup {m}) =
                   IF m \in S THEN Cardinality(S) ELSE Cardinality(S) + 1
          <6> HIDE DEF S
          <6>1. IsFiniteSet(S) BY <4>4 DEF S
          <6> QED BY <6>1, FS_AddElement
        <5> QED BY <4>1, <5>1
      <4> QED BY <4>2, <4>3, <4>5, <4>6
    <3> QED BY <3>1, <3>2
  <2>2. \A j \in Key : machines_of_key[j] \subseteq machines_of_key'[j]
    BY <1>1, <1>4 DEF TypeOK
  <2>3. \A x \in s : m \in machines_of_key'[x.key]
    BY <1>1, <1>4, <1>5 DEF TypeOK
  <2>4. \A n \in Machine : \A x \in held'[n] \cup Beats(n)' :
          n \in machines_of_key'[x.key]
    BY <1>3, <1>4, <2>2, <2>3, ResponsePlaces
  <2> QED BY <2>1, <2>4 DEF PlaceInv
<1>11. LeaseInv' /\ RevocationBites'
  <2>1. \A x \in s : x.lease_expires <= now + LEASE /\ x.key \notin revoked
    <3>1. r.at <= now BY DEF LeaseInv
    <3>2. r.at + LEASE <= now + LEASE
      BY <1>1, <3>1 DEF TypeOK, Time, ActivationAssumption
    <3> QED BY <1>4, <1>5, <3>2
  <2>2. \A x \in tokens' : x \in tokens
          \/ (x.lease_expires <= now + LEASE /\ x.key \notin revoked)
    BY <1>4, <2>1
  <2> QED BY <1>3, <1>4, <2>1, <2>2, ResponseLeases DEF history
<1> QED BY <1>6, <1>9, <1>10, <1>11

(* The lease of a token, and of its machine, is extended. *)
LEMMA HeartbeatKeeps ==
  ASSUME ActivationAssumption, IInv,
         NEW m \in Machine, NEW r \in Beats(m), NEW a \in tokens,
         a.id = r.id, heartbeat(m, r, a)
  PROVE  IInv'
<1> USE DEF IInv
<1> DEFINE b == [a EXCEPT !.lease_expires = r.at + LEASE]
           s == Held(r.id, r)
<1>1. r \in request[m] /\ r \in Beat BY BeatType DEF Beats
<1>2. s \in SUBSET Lease BY <1>1, HeldType DEF Held, Beat
<1>3. /\ a.key \notin revoked
      /\ tokens' = (tokens \ {a}) \cup {b}
      /\ Respond(m, r, s)
      /\ UNCHANGED <<now, key_quota, revoked, machines_of_key, drawn, history>>
  BY DEF heartbeat
<1>4. a.key = r.key BY DEF NameInv, Named
<1>5. \A x \in s :
        x.id = r.id /\ x.key = r.key /\ x.lease_expires = r.at + LEASE
  BY DEF Held
<1>6. b \in Lease /\ b.id = a.id /\ b.key = a.key
        /\ b.lease_expires = r.at + LEASE
  BY <1>1 DEF TypeOK, Lease, Beat, Time, ActivationAssumption
<1> HIDE DEF b, s
<1>7. TypeOK'
  BY <1>1, <1>2, <1>3, <1>6, Responds
     DEF TypeOK, Lease, Plain, Beat, history
<1>8. NameInv'
  <2>1. r \in Named /\ a \in Named BY DEF Named
  <2>2. \A x \in s : \E y \in Named : x.id = y.id /\ x.key = y.key
    BY <1>5, <2>1
  <2>3. \A x \in tokens' : \E y \in Named : x.id = y.id /\ x.key = y.key
    <3>1. \A x \in tokens' : x \in Named \/ x = b BY <1>3 DEF Named
    <3> QED BY <1>6, <2>1, <3>1
  <2> QED BY <1>1, <1>2, <1>3, <2>2, <2>3, ResponseNames
<1>9. PlaceInv'
  <2>1. \A x \in s : m \in machines_of_key'[x.key]
    BY <1>3, <1>5 DEF PlaceInv
  <2>2. \A n \in Machine : \A x \in held'[n] \cup Beats(n)' :
          n \in machines_of_key'[x.key]
    BY <1>1, <1>2, <1>3, <2>1, ResponsePlaces
  <2> QED BY <1>3, <2>2 DEF PlaceInv, history
<1>10. LeaseInv' /\ RevocationBites'
  <2>1. r.at + LEASE <= now + LEASE
    <3>1. r.at <= now BY <1>1 DEF LeaseInv
    <3> QED BY <1>1, <3>1 DEF Beat, TypeOK, Time, ActivationAssumption
  <2>2. \A x \in s : x.lease_expires <= now + LEASE /\ x.key \notin revoked
    BY <1>3, <1>4, <1>5, <2>1
  <2>3. \A x \in tokens' : x \in tokens
          \/ (x.lease_expires <= now + LEASE /\ x.key \notin revoked)
    BY <1>3, <1>6, <2>1
  <2> QED BY <1>1, <1>2, <1>3, <2>2, <2>3, ResponseLeases DEF history
<1> QED BY <1>7, <1>8, <1>9, <1>10

LEMMA ClockKeeps ==
  ASSUME ActivationAssumption, IInv, Clock
  PROVE  IInv'
<1> USE DEF IInv
<1>1. /\ now' = now + 1 /\ now < MaxTime /\ now \in 0..MaxTime
      /\ UNCHANGED <<store, request, held, drawn, history>>
  BY DEF Clock, TypeOK, Time
<1>2. TypeOK'
  BY <1>1 DEF TypeOK, Time, store, history, ActivationAssumption
<1>3. \A m \in Machine : Beats(m)' = Beats(m) BY <1>1 DEF Beats
<1>4. NameInv' BY <1>1, <1>3 DEF NameInv, Named, store
<1>5. PlaceInv' BY <1>1, <1>3 DEF PlaceInv, store, history
<1>6. LeaseInv'
  <2>1. \A m \in Machine : \A r \in request'[m] : r.at <= now'
    BY <1>1, RequestType DEF LeaseInv, Time, ActivationAssumption
  <2>2. \A m \in Machine : \A h \in held'[m] : h.lease_expires <= now' + LEASE
    BY <1>1 DEF LeaseInv, TypeOK, ActivationAssumption
  <2>3. \A a \in tokens' : a.lease_expires <= now' + LEASE
    BY <1>1 DEF LeaseInv, TypeOK, store, ActivationAssumption
  <2>4. \A k \in revoked' : revokedAt'[k] <= now'
    BY <1>1 DEF LeaseInv, TypeOK, Time, store, history, ActivationAssumption
  <2> QED BY <2>1, <2>2, <2>3, <2>4 DEF LeaseInv
<1>7. RevocationBites' BY <1>1 DEF RevocationBites, store, history
<1> QED BY <1>2, <1>4, <1>5, <1>6, <1>7

-----------------------------------------------------------------------------
LEMMA NextKeeps ==
  ASSUME ActivationAssumption, IInv, [Next]_vars
  PROVE  IInv'
<1>1. CASE UNCHANGED vars
  <2>1. \A m \in Machine : Beats(m)' = Beats(m) BY <1>1 DEF Beats, vars
  <2>2. NameInv' BY <1>1, <2>1 DEF IInv, NameInv, Named, vars
  <2>3. PlaceInv' BY <1>1, <2>1 DEF IInv, PlaceInv, vars
  <2>4. TypeOK' /\ LeaseInv' /\ RevocationBites'
    BY <1>1 DEF IInv, TypeOK, LeaseInv, RevocationBites, vars
  <2> QED BY <2>2, <2>3, <2>4 DEF IInv
<1>2. CASE \E k \in Key :
             revoke(k) \/ \E q \in 0..MaxQuota : register_key(k, q)
  BY <1>2, RevokeKeeps, RegisterKeeps
<1>3. CASE \E m \in Machine, k \in Key : activate_handler(m, k)
  BY <1>3, ActivateHandlerKeeps
<1>4. CASE \E m \in Machine : heartbeat_handler(m)
  BY <1>4, HeartbeatHandlerKeeps
<1>5. CASE \E m \in Machine : Activate(m)
  <2>0. PICK m \in Machine : Activate(m) BY <1>5
  <2>1. PICK r \in request[m] : activate(m, r) \/ ActivateRefused(m, r)
    BY <2>0 DEF Activate
  <2>2. CASE activate(m, r) BY <2>2, ActivateKeeps
  <2>3. CASE ActivateRefused(m, r)
    <3>1. Respond(m, r, held[m]) /\ UNCHANGED <<now, store, drawn, history>>
      BY <2>3 DEF ActivateRefused
    <3> QED BY <3>1, Refusal DEF store
  <2> QED BY <2>1, <2>2, <2>3
<1>6. CASE \E m \in Machine : Heartbeat(m)
  <2>0. PICK m \in Machine : Heartbeat(m) BY <1>6
  <2>1. PICK r \in request[m] :
          /\ "id" \in DOMAIN r
          /\ \/ \E a \in tokens : a.id = r.id
                 /\ (heartbeat(m, r, a) \/ HeartbeatRevoked(m, r, a))
             \/ HeartbeatUnknown(m, r)
    BY <2>0 DEF Heartbeat
  <2>2. r \in Beats(m) BY <2>1 DEF Beats
  <2>3. ASSUME NEW a \in tokens, a.id = r.id, heartbeat(m, r, a) PROVE IInv'
    BY <2>2, <2>3, HeartbeatKeeps
  <2>4. ASSUME NEW a \in tokens, HeartbeatRevoked(m, r, a) PROVE IInv'
    <3>1. /\ Respond(m, r, {}) /\ tokens' \subseteq tokens
          /\ UNCHANGED <<now, key_quota, revoked, machines_of_key, drawn,
                         history>>
      BY <2>4 DEF HeartbeatRevoked
    <3> QED BY <3>1, Refusal
  <2>5. CASE HeartbeatUnknown(m, r)
    <3>1. Respond(m, r, {}) /\ UNCHANGED <<now, store, drawn, history>>
      BY <2>5 DEF HeartbeatUnknown
    <3> QED BY <3>1, Refusal DEF store
  <2> QED BY <2>1, <2>3, <2>4, <2>5
<1>7. CASE Clock BY <1>7, ClockKeeps
<1> QED
  BY <1>1, <1>2, <1>3, <1>4, <1>5, <1>6, <1>7 DEF Next

(* The inductive invariant of the activation server and its clients, over  *)
(* every order and loss of requests and responses.                         *)
THEOREM InductiveInvariant ==
  ASSUME ActivationAssumption PROVE Spec => []IInv
<1>1. Init => IInv BY InitKeeps
<1>2. IInv /\ [Next]_vars => IInv'
  BY NextKeeps
<1> QED BY <1>1, <1>2, PTL DEF Spec

(* The types of the server's and the clients' state are kept.              *)
THEOREM TypeCorrect == ASSUME ActivationAssumption PROVE Spec => []TypeOK
<1>1. IInv => TypeOK BY DEF IInv
<1> QED BY <1>1, InductiveInvariant, PTL

(* However requests race, repeat and get lost, no more machines run on a   *)
(* key at one time than were ever sold with it.                            *)
THEOREM NeverOversold ==
  ASSUME ActivationAssumption PROVE Spec => []QuotaHolds
<1>1. IInv => QuotaHolds
  <2>0. SUFFICES ASSUME IInv PROVE QuotaHolds OBVIOUS
  <2> SUFFICES ASSUME NEW k \in Key
               PROVE  Cardinality({m \in Machine : Running(m, k)}) <= sold[k]
    BY DEF QuotaHolds
  <2> DEFINE R == {m \in Machine : Running(m, k)}
             P == machines_of_key[k]
  <2>1. R \in SUBSET P BY <2>0 DEF IInv, PlaceInv, Running
  <2>2. IsFiniteSet(P) /\ Cardinality(P) <= sold[k] /\ sold[k] \in Nat
    BY <2>0 DEF IInv, PlaceInv, TypeOK
  <2> HIDE DEF R, P
  <2>3. IsFiniteSet(R) /\ Cardinality(R) <= Cardinality(P)
    BY <2>1, <2>2, FS_Subset
  <2>4. Cardinality(R) \in Nat /\ Cardinality(P) \in Nat
    BY <2>2, <2>3, FS_CardinalityType
  <2>5. Cardinality(R) <= sold[k] BY <2>2, <2>3, <2>4
  <2> QED BY <2>5 DEF R
<1> QED BY <1>1, InductiveInvariant, PTL

(* A revocation reaches every client and the server within one lease time, *)
(* whatever was under way when it came.                                    *)
THEOREM RevocationReachesAll ==
  ASSUME ActivationAssumption PROVE Spec => []RevocationBites
<1>1. IInv => RevocationBites BY DEF IInv
<1> QED BY <1>1, InductiveInvariant, PTL

-----------------------------------------------------------------------------
(* A set of numbers has a least one. Whatever fails for a number fails for *)
(* a least one: this is how what is built up step by step is reasoned      *)
(* about below.                                                            *)
LEMMA LeastExists ==
  ASSUME NEW S \in SUBSET Nat, S # {} PROVE \E x \in S : \A y \in S : x <= y
<1> DEFINE T == {0..k : k \in S}
<1>1. T \subseteq FiniteSubsetsOf(Nat)
  <2> SUFFICES ASSUME NEW k \in S PROVE 0..k \in FiniteSubsetsOf(Nat)
    OBVIOUS
  <2>1. IsFiniteSet(0..k) BY FS_Interval
  <2> QED BY <2>1 DEF FiniteSubsetsOf
<1>2. \E I \in T : \A J \in T : <<J, I>> \notin StrictSubsetOrdering(Nat)
  <2> HIDE DEF T
  <2>1. T # {} BY DEF T
  <2> QED BY <1>1, <2>1, FS_StrictSubsetOrderingWellFounded, WFMin, Zenon
<1>3. PICK x \in S : \A y \in S : <<0..y, 0..x>> \notin StrictSubsetOrdering(Nat)
  BY <1>2
<1>4. ASSUME NEW y \in S, y < x PROVE FALSE
  <2>1. /\ 0..y \subseteq 0..x /\ 0..y # 0..x
        /\ 0..y \in SUBSET Nat /\ 0..x \in SUBSET Nat
    BY <1>4
  <2> QED BY <1>3, <2>1 DEF StrictSubsetOrdering
<1> QED BY <1>4

(* f has the first parts of s run together. *)
Joins(f, s, n) ==
  /\ f[0] = <<>>
  /\ \A k \in 1..n : f[k] = f[k - 1] \o s[k]

(* f is that for all n parts of s, which are sequences over S. *)
Joined(S, s, n, f) ==
  /\ s \in Seq(Seq(S)) /\ n \in Nat /\ n = Len(s)
  /\ f \in [0..n -> Seq(S)] /\ Joins(f, s, n)

LEMMA PrefixesExist ==
  ASSUME NEW S, NEW s \in Seq(Seq(S)), NEW n \in 0..Len(s)
  PROVE  \E f \in [0..n -> Seq(S)] : Joins(f, s, n)
<1> DEFINE bad == {k \in 0..Len(s) : ~ \E f \in [0..k -> Seq(S)] : Joins(f, s, k)}
<1>1. Len(s) \in Nat /\ \A k \in 1..Len(s) : s[k] \in Seq(S)
  BY LenProperties, ElementOfSeq
<1>2. SUFFICES ASSUME bad # {} PROVE FALSE
  BY <1>1
<1>3. PICK k \in bad : \A j \in bad : k <= j
  <2>1. bad \in SUBSET Nat BY <1>1
  <2> HIDE DEF bad
  <2> QED BY <1>2, <2>1, LeastExists
<1>4. CASE k = 0
  <2> DEFINE f == [i \in 0..0 |-> <<>>]
  <2>1. f \in [0..k -> Seq(S)] /\ Joins(f, s, k)
    BY <1>4 DEF Joins
  <2> QED BY <2>1
<1>5. CASE k # 0
  <2>1. k \in Nat /\ k \in 1..Len(s) /\ k - 1 \in 0..Len(s) /\ k - 1 < k
    BY <1>1, <1>5
  <2>2. k - 1 \notin bad
    <3> HIDE DEF bad
    <3> QED BY <1>3, <2>1
  <2>3. PICK f \in [0..(k - 1) -> Seq(S)] : Joins(f, s, k - 1)
    BY <2>1, <2>2
  <2> DEFINE e == f[k - 1] \o s[k]
             g == [i \in 0..k |-> IF i = k THEN e ELSE f[i]]
  <2>4. e \in Seq(S)
    <3>1. f[k - 1] \in Seq(S) /\ s[k] \in Seq(S) BY <1>1, <2>1
    <3> QED BY <3>1, ConcatProperties
  <2>5. /\ \A i \in 0..k : i = k \/ i \in 0..(k - 1)
        /\ \A i \in 0..(k - 1) : i \in 0..k /\ i # k
        /\ k \in 0..k /\ 0 \in 0..(k - 1)
    BY <2>1
  <2> HIDE DEF e
  <2>6. g \in [0..k -> Seq(S)]
    BY <2>1, <2>4, <2>5
  <2>7. g[0] = <<>>
    BY <2>3, <2>5 DEF Joins
  <2>8. g[k] = e /\ \A i \in 0..(k - 1) : g[i] = f[i]
    BY <2>5
  <2> HIDE DEF g
  <2>9. ASSUME NEW i \in 1..k PROVE g[i] = g[i - 1] \o s[i]
    <3>1. i - 1 \in 0..(k - 1) /\ g[i - 1] = f[i - 1]
      BY <2>1, <2>8
    <3>2. CASE i = k
      BY <2>8, <3>1, <3>2 DEF e
    <3>3. CASE i # k
      <4>1. i \in 1..(k - 1) /\ i \in 0..(k - 1)
        BY <2>1, <3>3
      <4>2. f[i] = f[i - 1] \o s[i]
        BY <2>3, <4>1 DEF Joins
      <4> QED BY <2>8, <3>1, <4>1, <4>2
    <3> QED BY <3>2, <3>3
  <2>10. Joins(g, s, k)
    BY <2>7, <2>9 DEF Joins
  <2> QED BY <2>6, <2>10
<1> QED BY <1>4, <1>5

(* FlattenSeq runs all the parts together. *)
LEMMA FlattenJoins ==
  ASSUME NEW S, NEW s \in Seq(Seq(S))
  PROVE  \E f : Joined(S, s, Len(s), f) /\ Licence!FlattenSeq(s) = f[Len(s)]
<1> DEFINE N == Len(s)
           Part(x, i) == IF i = 1 THEN s[i] ELSE x[i - 1] \o s[i]
           c == CHOOSE x : x = [i \in 1..N |-> Part(x, i)]
<1>1. N \in Nat /\ N \in 0..N /\ \A k \in 1..N : s[k] \in Seq(S)
  BY LenProperties, ElementOfSeq
<1>2. PICK f \in [0..N -> Seq(S)] : Joins(f, s, N)
  BY <1>1, PrefixesExist
<1> SUFFICES Licence!FlattenSeq(s) = f[N]
  BY <1>1, <1>2 DEF Joined
<1>3. CASE N = 0
  <2>1. s = <<>> BY <1>3, EmptySeq
  <2> QED BY <1>2, <1>3, <2>1 DEF Joins, Licence!FlattenSeq
<1>4. CASE N # 0
  <2>1. Licence!FlattenSeq(s) = c[N]
    BY <1>4 DEF Licence!FlattenSeq
  <2> DEFINE h == [i \in 1..N |-> f[i]]
  <2>2. DOMAIN h = 1..N /\ h = [i \in 1..N |-> h[i]] /\ \A i \in 1..N : h[i] = f[i]
    OBVIOUS
  <2> HIDE DEF h
  <2>3. ASSUME NEW i \in 1..N PROVE h[i] = Part(h, i)
    <3>1. f[i] = f[i - 1] \o s[i] /\ f[0] = <<>> /\ s[i] \in Seq(S)
      BY <1>1, <1>2 DEF Joins
    <3>2. CASE i = 1
      <4>1. <<>> \o s[i] = s[i] BY <3>1, ConcatEmptySeq
      <4>2. i - 1 = 0 BY <3>2
      <4> QED BY <2>2, <3>1, <3>2, <4>1, <4>2
    <3>3. CASE i # 1
      <4>1. i - 1 \in 1..N BY <1>1, <3>3
      <4>2. h[i - 1] = f[i - 1] BY <2>2, <4>1
      <4> QED BY <2>2, <3>1, <3>3, <4>2
    <3> QED BY <3>2, <3>3
  <2>4. c = [i \in 1..N |-> Part(c, i)]
    <3> HIDE DEF Part
    <3>1. h = [i \in 1..N |-> Part(h, i)] BY <2>2, <2>3
    <3> QED BY <3>1
  <2> HIDE DEF c
  <2>5. ASSUME NEW n \in 1..N, c[n] # h[n] PROVE FALSE
    <3> DEFINE bad == {k \in 1..N : c[k] # h[k]}
    <3>1. bad \in SUBSET Nat /\ bad # {} BY <1>1, <2>5
    <3>2. PICK k \in bad : \A j \in bad : k <= j
      <4> HIDE DEF bad
      <4> QED BY <3>1, LeastExists
    <3>3. k # 1 => k - 1 \in 1..N /\ c[k - 1] = h[k - 1]
      <4>1. k # 1 => k - 1 \in 1..N /\ k - 1 < k BY <1>1
      <4> QED BY <3>2, <4>1
    <3>4. c[k] = IF k = 1 THEN s[k] ELSE c[k - 1] \o s[k] BY <2>4
    <3>5. h[k] = IF k = 1 THEN s[k] ELSE h[k - 1] \o s[k] BY <2>3
    <3> QED BY <3>3, <3>4, <3>5
  <2>6. N \in 1..N BY <1>1, <1>4
  <2>7. h[N] = f[N] BY <2>2, <2>6
  <2> QED BY <1>2, <2>1, <2>5, <2>6, <2>7
<1> QED BY <1>3, <1>4


LEMMA Concats ==
  ASSUME NEW S, NEW u \in Seq(S), NEW v \in Seq(S), NEW w, w = u \o v
  PROVE  /\ w \in Seq(S) /\ Len(u) \in Nat /\ Len(v) \in Nat
         /\ Len(w) = Len(u) + Len(v)
         /\ \A j \in 1..Len(u) : w[j] = u[j]
         /\ \A j \in 1..Len(v) : w[Len(u) + j] = v[j]
<1> DEFINE a == Len(u)  b == Len(v)
<1>1. /\ w \in Seq(S) /\ a \in Nat /\ b \in Nat /\ Len(w) = a + b
      /\ \A i \in 1..(a + b) : w[i] = IF i <= a THEN u[i] ELSE v[i - a]
  BY ConcatProperties, LenProperties
<1> HIDE DEF a, b
<1>2. ASSUME NEW j \in 1..a PROVE w[j] = u[j]
  <2>1. j \in 1..(a + b) /\ j <= a BY <1>1
  <2> QED BY <1>1, <2>1
<1>3. ASSUME NEW j \in 1..b PROVE w[a + j] = v[j]
  <2>1. a + j \in 1..(a + b) /\ ~(a + j <= a) /\ (a + j) - a = j BY <1>1
  <2> QED BY <1>1, <2>1
<1> QED BY <1>1, <1>2, <1>3 DEF a, b

(* What was run together first stays where it is. *)
LEMMA PrefixStays ==
  ASSUME NEW S, NEW s, NEW N, NEW f, Joined(S, s, N, f)
  PROVE  \A n, m \in 0..N : n <= m =>
           Len(f[n]) <= Len(f[m]) /\ \A j \in 1..Len(f[n]) : f[m][j] = f[n][j]
<1> TAKE n, m \in 0..N
<1> HAVE n <= m
<1>0. /\ s \in Seq(Seq(S)) /\ N \in Nat /\ N = Len(s)
      /\ f \in [0..N -> Seq(S)] /\ Joins(f, s, N)
  BY DEF Joined
<1> DEFINE Stays(k) == Len(f[n]) <= Len(f[k]) /\ \A j \in 1..Len(f[n]) : f[k][j] = f[n][j]
           bad == {k \in 0..N : n <= k /\ ~Stays(k)}
<1>1. n \in Nat /\ \A k \in 1..N : s[k] \in Seq(S)
  BY <1>0, LenProperties, ElementOfSeq
<1>2. \A k \in 0..N : f[k] \in Seq(S) /\ Len(f[k]) \in Nat
  BY <1>0, LenProperties
<1> SUFFICES ASSUME bad # {} PROVE FALSE
  OBVIOUS
<1>3. PICK k \in bad : \A j \in bad : k <= j
  <2>1. bad \in SUBSET Nat BY <1>0, <1>1
  <2> HIDE DEF bad
  <2> QED BY <2>1, LeastExists
<1>4. k # n
  BY <1>2
<1>5. k \in Nat /\ n <= k - 1 /\ k - 1 \in 0..N /\ k \in 1..N /\ k \in 0..N
  <2>1. k \in 0..N /\ n <= k OBVIOUS
  <2> HIDE DEF bad
  <2> QED BY <1>0, <1>1, <1>4, <2>1
<1>6. Stays(k - 1)
  <2>1. k - 1 \notin bad
    <3> HIDE DEF bad
    <3> QED BY <1>3, <1>5
  <2> HIDE DEF Stays
  <2> QED BY <1>5, <2>1
<1>7. f[k] = f[k - 1] \o s[k] /\ s[k] \in Seq(S) /\ f[k - 1] \in Seq(S)
  BY <1>0, <1>1, <1>2, <1>5 DEF Joins
<1> DEFINE x == f[n]  y == f[k - 1]  z == f[k]  v == s[k]
<1>8. /\ Len(z) = Len(y) + Len(v) /\ Len(v) \in Nat /\ Len(y) \in Nat
      /\ \A j \in 1..Len(y) : z[j] = y[j]
  <2>1. z = y \o v /\ v \in Seq(S) /\ y \in Seq(S) BY <1>7
  <2> HIDE DEF y, z, v
  <2> QED BY <2>1, Concats
<1>9. Len(x) \in Nat /\ Len(x) <= Len(y) /\ \A j \in 1..Len(x) : y[j] = x[j]
  BY <1>2, <1>6
<1>10. Len(x) <= Len(z) /\ \A j \in 1..Len(x) : z[j] = x[j]
  <2> HIDE DEF x, y, z
  <2>1. Len(x) <= Len(z) BY <1>8, <1>9
  <2>2. \A j \in 1..Len(x) : j \in 1..Len(y) BY <1>8, <1>9
  <2> QED BY <1>8, <1>9, <2>1, <2>2
<1> QED BY <1>10

(* Where the parts are found in the whole. *)
Found(s, N, f) ==
  \A n \in 1..N :
    /\ Len(f[n]) = Len(f[n - 1]) + Len(s[n])
    /\ Len(f[n]) <= Len(f[N])
    /\ \A j \in 1..Len(s[n]) : f[N][Len(f[n - 1]) + j] = s[n][j]

LEMMA PartFound ==
  ASSUME NEW S, NEW s, NEW N, NEW f, Joined(S, s, N, f)
  PROVE  Found(s, N, f)
<1> SUFFICES ASSUME NEW n \in 1..N
             PROVE  /\ Len(f[n]) = Len(f[n - 1]) + Len(s[n])
                    /\ Len(f[n]) <= Len(f[N])
                    /\ \A j \in 1..Len(s[n]) : f[N][Len(f[n - 1]) + j] = s[n][j]
  BY DEF Found
<1>1. /\ n - 1 \in 0..N /\ n \in 0..N /\ N \in 0..N /\ n <= N
      /\ s[n] \in Seq(S) /\ f[n - 1] \in Seq(S) /\ f[n] = f[n - 1] \o s[n]
  <2>0. /\ s \in Seq(Seq(S)) /\ N \in Nat /\ N = Len(s)
        /\ f \in [0..N -> Seq(S)] /\ Joins(f, s, N)
    BY DEF Joined
  <2>1. n - 1 \in 0..N /\ n \in 0..N /\ N \in 0..N /\ n <= N
    BY <2>0
  <2> QED BY <2>0, <2>1, ElementOfSeq DEF Joins
<1> DEFINE y == f[n - 1]  z == f[n]  w == f[N]  v == s[n]
<1>2. /\ Len(z) = Len(y) + Len(v) /\ Len(v) \in Nat /\ Len(y) \in Nat
      /\ \A j \in 1..Len(v) : z[Len(y) + j] = v[j]
  <2>1. z = y \o v /\ v \in Seq(S) /\ y \in Seq(S) BY <1>1
  <2> HIDE DEF y, z, v
  <2> QED BY <2>1, Concats
<1>3. Len(z) <= Len(w) /\ \A j \in 1..Len(z) : w[j] = z[j]
  <2>1. \A i, m \in 0..N : i <= m =>
          Len(f[i]) <= Len(f[m]) /\ \A j \in 1..Len(f[i]) : f[m][j] = f[i][j]
    BY PrefixStays
  <2>2. n \in 0..N /\ N \in 0..N /\ n <= N BY <1>1
  <2> QED BY <2>1, <2>2
<1>4. ASSUME NEW j \in 1..Len(v) PROVE w[Len(y) + j] = v[j]
  <2> HIDE DEF y, z, w, v
  <2>1. Len(y) + j \in 1..Len(z) BY <1>2
  <2> QED BY <1>2, <1>3, <2>1
<1> QED BY <1>2, <1>3, <1>4

(* The features of a machine, each with its separator. *)
Separated(parts) == [i \in DOMAIN parts |-> Append(parts[i], "0")]

LEMMA SeparatedParts ==
  ASSUME NEW C, NEW p \in Seq(Seq(C))
  PROVE  /\ Separated(p) \in Seq(Seq(C \cup {"0"})) /\ Len(Separated(p)) = Len(p)
         /\ Len(p) \in Nat
         /\ \A i \in 1..Len(p) :
              /\ p[i] \in Seq(C) /\ Len(p[i]) \in Nat
              /\ Separated(p)[i] = Append(p[i], "0")
              /\ Len(Separated(p)[i]) = Len(p[i]) + 1
              /\ Separated(p)[i][Len(p[i]) + 1] = "0"
              /\ \A j \in 1..Len(p[i]) : Separated(p)[i][j] = p[i][j] /\ p[i][j] \in C
<1> DEFINE D == C \cup {"0"}
           N == Len(p)
           s == Separated(p)
<1>1. N \in Nat /\ DOMAIN p = 1..N /\ \A i \in 1..N : p[i] \in Seq(C)
  BY LenProperties, ElementOfSeq
<1>2. s = [i \in 1..N |-> Append(p[i], "0")]
  BY <1>1 DEF Separated
<1>3. ASSUME NEW i \in 1..N
      PROVE  /\ p[i] \in Seq(C) /\ Len(p[i]) \in Nat /\ s[i] = Append(p[i], "0")
             /\ s[i] \in Seq(D) /\ Len(s[i]) = Len(p[i]) + 1
             /\ s[i][Len(p[i]) + 1] = "0"
             /\ \A j \in 1..Len(p[i]) : s[i][j] = p[i][j] /\ p[i][j] \in C
  <2> DEFINE x == p[i]
  <2>1. x \in Seq(C) /\ s[i] = Append(x, "0") BY <1>1, <1>2
  <2> HIDE DEF s, x
  <2>2. x \in Seq(D) /\ "0" \in D BY <2>1
  <2> HIDE DEF D
  <2> QED BY <2>1, <2>2, AppendProperties, LenProperties, ElementOfSeq DEF x
<1>4. s \in Seq(Seq(D)) /\ Len(s) = N
  <2>1. DOMAIN s = 1..N /\ s = [i \in 1..N |-> s[i]] BY <1>2
  <2> HIDE DEF s, D
  <2> QED BY <1>1, <1>3, <2>1
<1> QED BY <1>1, <1>3, <1>4

(* x and its separator stand in w after the first b characters.            *)
At(w, b, x) ==
  /\ \A j \in 1..Len(x) : w[b + j] = x[j]
  /\ w[b + (Len(x) + 1)] = "0"

(* Of two parts that are found at the same place, neither ends before the  *)
(* other: they are the same.                                               *)
LEMMA SamePart ==
  ASSUME NEW C, "0" \notin C, NEW x \in Seq(C), NEW y \in Seq(C), NEW w, NEW b \in Nat,
         At(w, b, x), At(w, b, y)
  PROVE  x = y
<1>0. /\ \A j \in 1..Len(x) : w[b + j] = x[j]
      /\ w[b + (Len(x) + 1)] = "0"
      /\ \A j \in 1..Len(y) : w[b + j] = y[j]
      /\ w[b + (Len(y) + 1)] = "0"
  BY DEF At
<1>1. /\ Len(x) \in Nat /\ Len(y) \in Nat
      /\ \A j \in 1..Len(x) : x[j] \in C
      /\ \A j \in 1..Len(y) : y[j] \in C
  BY LenProperties, ElementOfSeq
<1>2. ~(Len(x) < Len(y))
  <2> SUFFICES ASSUME Len(x) < Len(y) PROVE FALSE
    OBVIOUS
  <2>1. Len(x) + 1 \in 1..Len(y) BY <1>1
  <2> QED BY <1>0, <1>1, <2>1
<1>3. ~(Len(y) < Len(x))
  <2> SUFFICES ASSUME Len(y) < Len(x) PROVE FALSE
    OBVIOUS
  <2>1. Len(y) + 1 \in 1..Len(x) BY <1>1
  <2> QED BY <1>0, <1>1, <2>1
<1>4. Len(x) = Len(y)
  BY <1>1, <1>2, <1>3
<1>5. \A j \in 1..Len(x) : x[j] = y[j]
  BY <1>0, <1>4
<1> QED BY <1>4, <1>5, SeqEqual

(* f[k] is what the first k features of p give, of all that is w.          *)
Laid(C, p, f, w) ==
  /\ f[0] = <<>> /\ f[Len(p)] = w
  /\ \A k \in 0..Len(p) : Len(f[k]) \in Nat
  /\ \A k \in 1..Len(p) :
       /\ p[k] \in Seq(C) /\ Len(p[k]) \in Nat
       /\ f[k] = f[k - 1] \o Append(p[k], "0")
       /\ Len(f[k]) = Len(f[k - 1]) + (Len(p[k]) + 1) /\ Len(f[k]) <= Len(w)
       /\ At(w, Len(f[k - 1]), p[k])

LEMMA FingerprintLaid ==
  ASSUME NEW C, NEW p \in Seq(Seq(C))
  PROVE  \E f : Laid(C, p, f, Licence!fingerprint_from(p))
<1> DEFINE D == C \cup {"0"}
           s == Separated(p)
<1>1. /\ s \in Seq(Seq(D)) /\ Len(s) = Len(p)
      /\ Len(p) \in Nat
      /\ \A i \in 1..Len(p) :
           /\ p[i] \in Seq(C) /\ Len(p[i]) \in Nat
           /\ s[i] = Append(p[i], "0")
           /\ Len(s[i]) = Len(p[i]) + 1
           /\ s[i][Len(p[i]) + 1] = "0"
           /\ \A j \in 1..Len(p[i]) : s[i][j] = p[i][j] /\ p[i][j] \in C
  BY SeparatedParts
<1>2. PICK f : Joined(D, s, Len(p), f) /\ Licence!FlattenSeq(s) = f[Len(p)]
  <2>1. s \in Seq(Seq(D)) /\ Len(s) = Len(p) BY <1>1
  <2> HIDE DEF s, D
  <2>2. \E f : Joined(D, s, Len(s), f) /\ Licence!FlattenSeq(s) = f[Len(s)]
    BY <2>1, FlattenJoins
  <2> QED BY <2>1, <2>2
<1>3. Licence!fingerprint_from(p) = f[Len(p)]
  BY <1>2 DEF Licence!fingerprint_from, Separated
<1> HIDE DEF s, D
<1>4. /\ f \in [0..Len(p) -> Seq(D)] /\ f[0] = <<>>
      /\ \A k \in 1..Len(p) : f[k] = f[k - 1] \o s[k]
  BY <1>2 DEF Joined, Joins
<1>5. \A k \in 0..Len(p) : f[k] \in Seq(D) /\ Len(f[k]) \in Nat
  BY <1>4, LenProperties
<1>6. \A k \in 1..Len(p) :
        /\ Len(f[k]) = Len(f[k - 1]) + Len(s[k])
        /\ Len(f[k]) <= Len(f[Len(p)])
        /\ \A j \in 1..Len(s[k]) : f[Len(p)][Len(f[k - 1]) + j] = s[k][j]
  <2> DEFINE N == Len(p)
  <2>1. Joined(D, s, N, f) BY <1>2
  <2> HIDE DEF N
  <2>2. Found(s, N, f) BY <2>1, PartFound
  <2> QED BY <2>2 DEF N, Found
<1> DEFINE w == f[Len(p)]
<1> HIDE DEF w
<1>7. ASSUME NEW k \in 1..Len(p)
      PROVE  /\ p[k] \in Seq(C) /\ Len(p[k]) \in Nat
             /\ f[k] = f[k - 1] \o Append(p[k], "0")
             /\ Len(f[k]) = Len(f[k - 1]) + (Len(p[k]) + 1) /\ Len(f[k]) <= Len(w)
             /\ At(w, Len(f[k - 1]), p[k])
  <2>1. /\ Len(f[k]) = Len(f[k - 1]) + Len(s[k]) /\ Len(f[k]) <= Len(w)
        /\ \A j \in 1..Len(s[k]) : w[Len(f[k - 1]) + j] = s[k][j]
    BY <1>6 DEF w
  <2>2. /\ p[k] \in Seq(C) /\ Len(p[k]) \in Nat /\ s[k] = Append(p[k], "0")
        /\ Len(s[k]) = Len(p[k]) + 1 /\ s[k][Len(p[k]) + 1] = "0"
        /\ \A j \in 1..Len(p[k]) : s[k][j] = p[k][j]
    BY <1>1
  <2>3. Len(p[k]) + 1 \in 1..Len(s[k]) /\ \A j \in 1..Len(p[k]) : j \in 1..Len(s[k])
    BY <2>2
  <2>4. f[k] = f[k - 1] \o Append(p[k], "0")
    BY <1>4, <2>2
  <2>5. At(w, Len(f[k - 1]), p[k])
    BY <2>1, <2>2, <2>3 DEF At
  <2> QED BY <2>1, <2>2, <2>4, <2>5
<1>8. Laid(C, p, f, w)
  BY <1>4, <1>5, <1>7 DEF Laid, w
<1> QED BY <1>3, <1>8 DEF w

(* What a fingerprint is made of can be told from it: no two machines are  *)
(* taken for one.                                                          *)
LEMMA FingerprintsDiffer ==
  ASSUME NEW C, "0" \notin C, NEW p \in Seq(Seq(C)), NEW q \in Seq(Seq(C)),
         Licence!fingerprint_from(p) = Licence!fingerprint_from(q)
  PROVE  p = q
<1> DEFINE N == Len(p)
           M == Len(q)
           w == Licence!fingerprint_from(p)
<1>1. N \in Nat /\ M \in Nat
  BY LenProperties
<1>2. PICK f : Laid(C, p, f, w)
  BY FingerprintLaid
<1>3. PICK g : Laid(C, q, g, w)
  BY FingerprintLaid
<1> HIDE DEF w
<1>5. /\ \A k \in 0..N : Len(f[k]) \in Nat
      /\ \A k \in 0..M : Len(g[k]) \in Nat
      /\ f[0] = <<>> /\ g[0] = <<>> /\ f[N] = w /\ g[M] = w
  BY <1>2, <1>3 DEF Laid
<1>6. ASSUME NEW k \in 1..N
      PROVE  /\ f[k] = f[k - 1] \o Append(p[k], "0")
             /\ Len(f[k]) = Len(f[k - 1]) + (Len(p[k]) + 1) /\ Len(f[k]) <= Len(w)
             /\ At(w, Len(f[k - 1]), p[k])
             /\ p[k] \in Seq(C) /\ Len(p[k]) \in Nat
  BY <1>2 DEF Laid
<1>7. ASSUME NEW k \in 1..M
      PROVE  /\ g[k] = g[k - 1] \o Append(q[k], "0")
             /\ Len(g[k]) = Len(g[k - 1]) + (Len(q[k]) + 1) /\ Len(g[k]) <= Len(w)
             /\ At(w, Len(g[k - 1]), q[k])
             /\ q[k] \in Seq(C) /\ Len(q[k]) \in Nat
  BY <1>3 DEF Laid
<1> HIDE DEF N, M
<1> DEFINE Same(n) == n <= M /\ f[n] = g[n] /\ \A i \in 1..n : p[i] = q[i]
           bad == {n \in 0..N : ~Same(n)}
<1>8. bad = {}
  <2> SUFFICES ASSUME bad # {} PROVE FALSE
    OBVIOUS
  <2>1. PICK n \in bad : \A j \in bad : n <= j
    <3>1. bad \in SUBSET Nat BY <1>1
    <3> HIDE DEF bad
    <3> QED BY <3>1, LeastExists
  <2>2. n # 0
    BY <1>1, <1>5
  <2>3. n \in 1..N /\ n - 1 \in 0..N /\ n \in Nat /\ n - 1 < n
    <3>1. n \in 0..N OBVIOUS
    <3> HIDE DEF bad
    <3> QED BY <1>1, <2>2, <3>1
  <2>4. Same(n - 1)
    <3>1. n - 1 \notin bad
      <4> HIDE DEF bad
      <4> QED BY <2>1, <2>3
    <3> HIDE DEF Same
    <3> QED BY <2>3, <3>1
  <2>5. Len(f[n]) > Len(f[n - 1]) /\ Len(f[n]) <= Len(w)
    <3>1. /\ Len(f[n]) = Len(f[n - 1]) + (Len(p[n]) + 1) /\ Len(f[n]) <= Len(w)
          /\ Len(p[n]) \in Nat
      BY <1>6, <2>3
    <3>2. Len(f[n - 1]) \in Nat BY <1>5, <2>3
    <3> DEFINE a == Len(f[n])  b == Len(f[n - 1])  c == Len(p[n])
    <3>3. a = b + (c + 1) /\ b \in Nat /\ c \in Nat BY <3>1, <3>2
    <3> HIDE DEF a, b, c
    <3>4. a > b BY <3>3
    <3> QED BY <3>1, <3>4 DEF a, b
  <2>6. n <= M
    <3> SUFFICES ASSUME ~(n <= M) PROVE FALSE
      OBVIOUS
    <3>1. n - 1 = M BY <1>1, <2>3, <2>4
    <3>2. f[n - 1] = w BY <1>5, <2>4, <3>1
    <3>3. Len(f[n]) \in Nat /\ Len(f[n - 1]) \in Nat BY <1>5, <2>3
    <3> QED BY <2>5, <3>2, <3>3
  <2>7. n \in 1..M
    BY <1>1, <2>3, <2>6
  <2>8. p[n] = q[n]
    <3> DEFINE b == Len(f[n - 1])
    <3>1. b \in Nat /\ b = Len(g[n - 1]) BY <1>5, <2>3, <2>4
    <3>2. p[n] \in Seq(C) /\ At(w, b, p[n])
      BY <1>6, <2>3
    <3>3. q[n] \in Seq(C) /\ At(w, b, q[n])
      BY <1>7, <2>7, <3>1
    <3> DEFINE x == p[n]  y == q[n]
    <3> HIDE DEF b, x, y
    <3>4. x = y BY <3>1, <3>2, <3>3, SamePart DEF x, y
    <3> QED BY <3>4 DEF x, y
  <2>9. f[n] = g[n]
    <3>1. f[n] = f[n - 1] \o Append(p[n], "0") BY <1>6, <2>3
    <3>2. g[n] = g[n - 1] \o Append(q[n], "0") BY <1>7, <2>7
    <3> QED BY <2>4, <2>8, <3>1, <3>2
  <2>10. Same(n)
    <3>1. \A i \in 1..n : i \in 1..(n - 1) \/ i = n BY <2>3
    <3> QED BY <2>4, <2>6, <2>8, <2>9, <3>1
  <2> QED BY <2>10
<1>9. Same(N)
  <2>1. N \in 0..N BY <1>1
  <2> QED BY <1>8, <2>1
<1>10. N = M
  <2> SUFFICES ASSUME N # M PROVE FALSE
    OBVIOUS
  <2>1. N + 1 \in 1..M /\ (N + 1) - 1 = N BY <1>1, <1>9
  <2>2. Len(g[N + 1]) = Len(g[N]) + (Len(q[N + 1]) + 1) /\ Len(g[N + 1]) <= Len(w)
        /\ Len(q[N + 1]) \in Nat
    BY <1>7, <2>1
  <2>3. g[N] = w BY <1>5, <1>9
  <2>4. Len(w) \in Nat /\ Len(g[N + 1]) \in Nat
    <3>1. N \in 0..N /\ N + 1 \in 0..M BY <1>1, <2>1
    <3>2. Len(f[N]) \in Nat BY <1>5, <3>1
    <3> QED BY <1>5, <3>1, <3>2
  <2> QED BY <2>2, <2>3, <2>4
<1>11. \A i \in 1..Len(p) : p[i] = q[i]
  BY <1>9 DEF N
<1> QED BY <1>10, <1>11, SeqEqual DEF N, M

-----------------------------------------------------------------------------
(* The offline licences. *)

(* A file carries no signature or one that the vendor made. *)
SignedByVendor(f) ==
  \/ f.signature = Licence!NoSignature
  \/ \E l \in issued : f.signature = Licence!canonical_json(l)

(* What a verdict says of the file it was reached on. *)
Founded(v) ==
  /\ SignedByVendor(v.file) /\ v.file.license \in Licence!License
  /\ v.verdict = Licence!verify(v.file, v.at, v.on)

LicenceInv ==
  /\ issued \subseteq Licence!License
  /\ \A f \in files : SignedByVendor(f) /\ f.license \in Licence!License
  /\ \A v \in verified : Founded(v) /\ v.on \in Features /\ v.at \in Nat
  /\ clock \in Nat

LEMMA SameLicence ==
  ASSUME NEW l \in Licence!License, NEW k \in Licence!License,
         Licence!canonical_json(l) = Licence!canonical_json(k)
  PROVE  l = k
BY DEF Licence!License, Licence!canonical_json

LEMMA LicenceStep == ASSUME LicenceInv, Licence!Next PROVE LicenceInv'
<1>1. CASE \E l \in Licence!License : Licence!issue(l)
  <2>1. PICK l \in Licence!License : Licence!issue(l) BY <1>1
  <2> DEFINE f == [license |-> l, signature |-> Licence!canonical_json(l)]
  <2>2. /\ issued' = issued \cup {l} /\ files' = files \cup {f}
        /\ verified' = verified /\ clock' = clock
    BY <2>1 DEF Licence!issue, Licence!NewFile
  <2>3. f.license = l /\ f.signature = Licence!canonical_json(l) OBVIOUS
  <2> HIDE DEF f
  <2>4. ASSUME NEW g, SignedByVendor(g) PROVE SignedByVendor(g)'
    BY <2>2, <2>4 DEF SignedByVendor
  <2>5. SignedByVendor(f)' /\ f.license \in Licence!License
    BY <2>2, <2>3 DEF SignedByVendor
  <2>6. \A v \in verified : Founded(v)' /\ v.on \in Features /\ v.at \in Nat
    BY <2>4 DEF LicenceInv, Founded
  <2> QED BY <2>2, <2>4, <2>5, <2>6 DEF LicenceInv
<1>2. CASE \E f \in files :
             Licence!Damaged(f) \/ \E l \in Licence!License : Licence!Edited(f, l)
  <2>1. PICK f \in files, l \in Licence!License :
        \E s \in {Licence!NoSignature, f.signature} :
          /\ files' = files \cup {[license |-> l, signature |-> s]}
          /\ UNCHANGED <<clock, issued, verified>>
    BY <1>2 DEF Licence!Damaged, Licence!Edited, Licence!NewFile, LicenceInv
  <2>0. PICK s \in {Licence!NoSignature, f.signature} :
          files' = files \cup {[license |-> l, signature |-> s]}
    BY <2>1
  <2> DEFINE g == [license |-> l, signature |-> s]
  <2>2. g.license = l /\ g.signature = s OBVIOUS
  <2>3. files' = files \cup {g} BY <2>0
  <2> HIDE DEF g
  <2>4. SignedByVendor(f) BY DEF LicenceInv
  <2>5. SignedByVendor(g) BY <2>0, <2>2, <2>4 DEF SignedByVendor
  <2>6. UNCHANGED <<clock, issued, verified>> BY <2>1
  <2>7. \A h \in files' : SignedByVendor(h) /\ h.license \in Licence!License
    BY <2>2, <2>3, <2>5 DEF LicenceInv
  <2> QED BY <2>6, <2>7 DEF LicenceInv, SignedByVendor, Founded
<1>3. CASE \E f \in files, m \in Features : Licence!Starts(f, m)
  <2>1. PICK f \in files, m \in Features : Licence!Starts(f, m) BY <1>3
  <2> DEFINE v == [file |-> f, on |-> m, at |-> clock,
                   verdict |-> Licence!verify(f, clock, m)]
  <2>2. verified' = verified \cup {v} /\ UNCHANGED <<clock, issued, files>>
    BY <2>1 DEF Licence!Starts
  <2>3. /\ v.file = f
        /\ v.on = m
        /\ v.at = clock
        /\ v.verdict = Licence!verify(f, clock, m)
    OBVIOUS
  <2> HIDE DEF v
  <2>4. Founded(v) /\ v.on \in Features /\ v.at \in Nat
    BY <2>3 DEF LicenceInv, Founded
  <2>5. \A w \in verified' : Founded(w) /\ w.on \in Features /\ w.at \in Nat
    BY <2>2, <2>4 DEF LicenceInv
  <2>6. UNCHANGED <<clock, issued, files>> BY <2>2
  <2>7. \A g : SignedByVendor(g) => SignedByVendor(g)'
    BY <2>6 DEF SignedByVendor
  <2>8. \A w : Founded(w) => Founded(w)'
    BY <2>7 DEF Founded
  <2> QED BY <2>5, <2>6, <2>7, <2>8 DEF LicenceInv
<1>4. CASE Licence!Passes
  BY <1>4 DEF Licence!Passes, LicenceInv, SignedByVendor, Founded
<1> QED BY <1>1, <1>2, <1>3, <1>4 DEF Licence!Next

(* The licence files around and what clients made of them. *)
THEOREM LicenceInvariant == Licence!Spec => []LicenceInv
<1>1. Licence!Init => LicenceInv
  BY DEF Licence!Init, LicenceInv
<1>2. LicenceInv /\ UNCHANGED Licence!lvars => LicenceInv'
  BY DEF LicenceInv, Licence!lvars, SignedByVendor, Founded
<1> QED BY <1>1, <1>2, LicenceStep, PTL DEF Licence!Spec

(* A file that carries the vendor's signature of its own text is the       *)
(* licence that was issued.                                                *)
LEMMA AuthenticIsIssued ==
  ASSUME LicenceInv, NEW v \in verified, v.verdict \in {"Ok", "Expired",
         "MachineMismatch"}
  PROVE  /\ v.file.license \in issued /\ Licence!Authentic(v.file)
         /\ v.verdict = "Ok" =>
              /\ ~(v.at > v.file.license.expires_at)
              /\ v.file.license.machine_fingerprint = Licence!fingerprint_from(v.on)
<1>1. Founded(v) BY DEF LicenceInv
<1>2. /\ v.file.signature # Licence!NoSignature /\ Licence!Authentic(v.file)
      /\ v.verdict = "Ok" =>
           /\ ~(v.at > v.file.license.expires_at)
           /\ v.file.license.machine_fingerprint = Licence!fingerprint_from(v.on)
  BY <1>1 DEF Founded, Licence!verify
<1>3. PICK l \in issued : v.file.signature = Licence!canonical_json(l)
  BY <1>1, <1>2 DEF Founded, SignedByVendor
<1>4. l = v.file.license
  BY <1>1, <1>2, <1>3, SameLicence DEF LicenceInv, Founded, Licence!Authentic
<1> QED BY <1>2, <1>3, <1>4

(* What a client concludes rests on what the vendor signed, for machines   *)
(* of any number of features of any length in which the separator does not *)
(* occur.                                                                  *)
THEOREM VerdictsAreFounded ==
  ASSUME Licence!LicenceAssumption
  PROVE  Licence!Spec => []VerdictFounded
<1>0. ASSUME NEW m \in Features, NEW n \in Features,
             Licence!fingerprint_from(m) = Licence!fingerprint_from(n)
      PROVE  m = n
  BY <1>0, FingerprintsDiffer DEF Licence!LicenceAssumption
<1>1. LicenceInv => Licence!OneMachine
  <2> SUFFICES ASSUME LicenceInv, NEW v \in Licence!Runs, NEW w \in Licence!Runs,
                      v.file.signature = w.file.signature
               PROVE  v.on = w.on
    BY DEF Licence!OneMachine
  <2>1. /\ v.file.license.machine_fingerprint = Licence!fingerprint_from(v.on)
        /\ w.file.license.machine_fingerprint = Licence!fingerprint_from(w.on)
        /\ Licence!Authentic(v.file) /\ Licence!Authentic(w.file)
    BY AuthenticIsIssued DEF Licence!Runs
  <2>2. Licence!canonical_json(v.file.license)
        = Licence!canonical_json(w.file.license)
    BY <2>1 DEF Licence!Authentic
  <2>3. v.file.license.machine_fingerprint = w.file.license.machine_fingerprint
    <3> DEFINE l == v.file.license  k == w.file.license
    <3>1. <<l.features, l.machine_fingerprint, l.expires_at>>
          = <<k.features, k.machine_fingerprint, k.expires_at>>
      BY <2>2 DEF Licence!canonical_json
    <3> HIDE DEF l, k
    <3>2. l.machine_fingerprint = k.machine_fingerprint BY <3>1
    <3> QED BY <3>2 DEF l, k
  <2> QED BY <1>0, <2>1, <2>3 DEF LicenceInv, Licence!Runs
<1>2. LicenceInv => Licence!OnlySold
  <2> SUFFICES ASSUME LicenceInv, NEW v \in Licence!Runs
               PROVE  /\ v.file.license \in issued
                      /\ v.file.license.machine_fingerprint
                         = Licence!fingerprint_from(v.on)
                      /\ v.at <= v.file.license.expires_at
    BY DEF Licence!OnlySold
  <2>1. /\ v.file.license \in issued
        /\ v.file.license.machine_fingerprint = Licence!fingerprint_from(v.on)
        /\ ~(v.at > v.file.license.expires_at)
    BY AuthenticIsIssued DEF Licence!Runs
  <2>2. v.at \in Nat /\ v.file.license.expires_at \in Nat
    BY <2>1 DEF Licence!Runs, LicenceInv, Licence!License
  <2> QED BY <2>1, <2>2
<1>3. LicenceInv => Licence!AdviceIsFounded
  BY AuthenticIsIssued DEF Licence!AdviceIsFounded
<1> QED BY <1>1, <1>2, <1>3, LicenceInvariant, PTL DEF VerdictFounded,
                                                       Licence!VerdictFounded

-----------------------------------------------------------------------------
(* The logins in two steps. *)

CodeRec == [secret : Secret \cup {Phone!None}, step : Int]
LoginRec ==
  [at : {"new", "password", "half", "asked", "full", "refused"},
   began : Nat, saw : BOOLEAN, exp : Nat, code : CodeRec, verified : BOOLEAN]

(* Where one login stands: what it saw of 2FA is still so, and a full      *)
(* token of a login that began with 2FA has its code behind it.            *)
LoginOK(r) ==
  /\ r.began <= p_now
  /\ r.at # "new" /\ r.saw => account.totp_enabled
  /\ r.at \in {"half", "asked", "refused"} => r.saw
  /\ r.at = "password" /\ r.began > enabledAt => r.saw
  /\ r.at = "full" /\ r.began > enabledAt => r.verified

LoginInv ==
  /\ p_now \in 0..LoginTime /\ drift \in Drifts
  /\ account \in [totp_enabled : BOOLEAN, secret : Secret \cup {Phone!None}]
  /\ enabledAt \in Nat
  /\ account.totp_enabled => enabledAt <= p_now
  /\ ~account.totp_enabled => enabledAt > LoginTime
  /\ login \in [Login -> LoginRec]
  /\ \A l \in Login : LoginOK(login[l])

LEMMA LoginInit == ASSUME Phone!LoginAssumption, Phone!Init PROVE LoginInv
<1>1. /\ p_now = 0
      /\ drift \in Drifts
      /\ enabledAt = LoginTime + 1
      /\ LoginTime \in Nat
  BY DEF Phone!Init, Phone!LoginAssumption
<1>2. account = [totp_enabled |-> FALSE, secret |-> Phone!None]
  BY DEF Phone!Init
<1>3. Phone!Fresh \in LoginRec
  BY DEF Phone!Fresh, LoginRec, CodeRec
<1>4. login \in [Login -> LoginRec] /\ \A l \in Login : login[l] = Phone!Fresh
  BY <1>3 DEF Phone!Init
<1>5. LoginOK(Phone!Fresh)
  BY <1>1 DEF LoginOK, Phone!Fresh
<1> QED BY <1>1, <1>2, <1>4, <1>5 DEF LoginInv

(* One login moves; the account and the clock do not. *)
LEMMA OneLoginMoves ==
  ASSUME LoginInv, NEW l \in Login, NEW r \in LoginRec, LoginOK(r),
         login' = [login EXCEPT ![l] = r],
         UNCHANGED <<p_now, drift, account, enabledAt>>
  PROVE  LoginInv'
<1>1. /\ login' \in [Login -> LoginRec]
      /\ \A k \in Login : login'[k] = IF k = l THEN r ELSE login[k]
  BY DEF LoginInv
<1>2. \A k \in Login : LoginOK(login'[k])
  BY <1>1 DEF LoginInv
<1>3. \A k \in Login : LoginOK(login[k])'
  BY <1>2 DEF LoginOK
<1> QED BY <1>1, <1>3 DEF LoginInv

LEMMA PasswordStep ==
  ASSUME Phone!LoginAssumption, LoginInv, NEW l \in Login,
         Phone!PasswordVerified(l) \/ Phone!FirstToken(l) \/ Phone!Again(l)
  PROVE  LoginInv'
<1>0. /\ login[l] \in LoginRec /\ LoginOK(login[l]) /\ p_now \in Nat
      /\ p_now <= LoginTime
      /\ LoginTime \in Nat /\ MFA_PENDING_TTL \in Nat /\ enabledAt \in Nat
      /\ account.totp_enabled \in BOOLEAN
      /\ ~account.totp_enabled => enabledAt > LoginTime
  BY DEF LoginInv, Phone!LoginAssumption
<1>1. CASE Phone!PasswordVerified(l)
  <2> DEFINE r == [login[l] EXCEPT !.at = "password", !.began = p_now,
                                   !.saw = account.totp_enabled]
  <2>1. /\ login' = [login EXCEPT ![l] = r]
        /\ UNCHANGED <<p_now, drift, account, enabledAt>>
    BY <1>1 DEF Phone!PasswordVerified
  <2>2. /\ r \in LoginRec
        /\ r.at = "password"
        /\ r.began = p_now
        /\ r.saw = account.totp_enabled
    BY <1>0 DEF LoginRec
  <2>3. LoginOK(r)
    <3> HIDE DEF r
    <3> QED BY <1>0, <2>2 DEF LoginOK
  <2> HIDE DEF r
  <2> QED BY <2>1, <2>2, <2>3, OneLoginMoves
<1>2. CASE Phone!FirstToken(l)
  <2> DEFINE at == IF login[l].saw THEN "half" ELSE "full"
             exp == p_now + (IF login[l].saw THEN MFA_PENDING_TTL
                             ELSE Phone!TOKEN_TTL_SECS)
             r == [login[l] EXCEPT !.at = at, !.exp = exp]
  <2>1. login' = [login EXCEPT ![l] = r] /\ login[l].at = "password"
        /\ UNCHANGED <<p_now, drift, account, enabledAt>>
    BY <1>2 DEF Phone!FirstToken, LoginInv
  <2>2. exp \in Nat /\ at \in {"half", "full"}
    BY <1>0 DEF Phone!TOKEN_TTL_SECS
  <2>3. at = "half" => login[l].saw  BY <1>0 DEF LoginRec
  <2>4. at = "full" => ~login[l].saw  BY <1>0 DEF LoginRec
  <2> HIDE DEF at, exp
  <2>5. /\ r \in LoginRec
        /\ r.at = at
        /\ r.began = login[l].began
        /\ r.saw = login[l].saw
    BY <1>0, <2>2 DEF LoginRec
  <2> HIDE DEF r
  <2>6. LoginOK(r)
    BY <1>0, <2>1, <2>2, <2>3, <2>4, <2>5 DEF LoginOK
  <2> QED BY <2>1, <2>5, <2>6, OneLoginMoves
<1>3. CASE Phone!Again(l)
  <2>1. /\ login' = [login EXCEPT ![l] = Phone!Fresh]
        /\ UNCHANGED <<p_now, drift, account, enabledAt>>
    BY <1>3 DEF Phone!Again
  <2>2. Phone!Fresh \in LoginRec /\ LoginOK(Phone!Fresh)
    BY <1>0 DEF Phone!Fresh, LoginRec, CodeRec, LoginOK
  <2> QED BY <2>1, <2>2, OneLoginMoves
<1> QED BY <1>1, <1>2, <1>3

LEMMA CodeStep ==
  ASSUME Phone!LoginAssumption, LoginInv, NEW l \in Login,
         \/ \E s \in Secret : Phone!SendCode(l, s)
         \/ Phone!SecondToken(l) \/ Phone!SecondRefused(l)
  PROVE  LoginInv'
<1>0. /\ login[l] \in LoginRec /\ LoginOK(login[l]) /\ p_now \in Nat
      /\ LoginTime \in Nat /\ enabledAt \in Nat
  BY DEF LoginInv, Phone!LoginAssumption
<1>1. CASE \E s \in Secret : Phone!SendCode(l, s)
  <2>1. PICK s \in Secret : Phone!SendCode(l, s) BY <1>1
  <2> DEFINE c == [secret |-> s, step |-> Phone!step(p_now + drift)]
             r == [login[l] EXCEPT !.at = "asked", !.code = c]
  <2>2. login' = [login EXCEPT ![l] = r] /\ login[l].at \in {"half", "refused"}
        /\ UNCHANGED <<p_now, drift, account, enabledAt>>
    BY <2>1 DEF Phone!SendCode, LoginInv
  <2>3. c \in CodeRec
    <3>1. p_now + drift \in Int
      BY <1>0 DEF LoginInv, Phone!LoginAssumption
    <3>2. Phone!step(p_now + drift) \in Int
      BY <3>1 DEF Phone!step, Phone!LoginAssumption
    <3> QED BY <3>2 DEF CodeRec
  <2> HIDE DEF c
  <2>4. /\ r \in LoginRec /\ r.at = "asked" /\ r.began = login[l].began
        /\ r.saw = login[l].saw
    BY <1>0, <2>3 DEF LoginRec
  <2> HIDE DEF r
  <2>5. LoginOK(r)
    BY <1>0, <2>2, <2>4 DEF LoginOK
  <2> QED BY <2>2, <2>4, <2>5, OneLoginMoves
<1>2. CASE Phone!SecondToken(l)
  <2> DEFINE exp == p_now + Phone!TOKEN_TTL_SECS
             r == [login[l] EXCEPT !.at = "full", !.verified = TRUE, !.exp = exp]
  <2>1. login' = [login EXCEPT ![l] = r] /\ login[l].at = "asked"
        /\ UNCHANGED <<p_now, drift, account, enabledAt>>
    BY <1>2 DEF Phone!SecondToken, LoginInv
  <2>2. exp \in Nat BY <1>0 DEF Phone!TOKEN_TTL_SECS
  <2> HIDE DEF exp
  <2>3. /\ r \in LoginRec /\ r.at = "full" /\ r.began = login[l].began
        /\ r.saw = login[l].saw /\ r.verified
    BY <1>0, <2>2 DEF LoginRec
  <2> HIDE DEF r
  <2>4. LoginOK(r)
    BY <1>0, <2>1, <2>3 DEF LoginOK
  <2> QED BY <2>1, <2>3, <2>4, OneLoginMoves
<1>3. CASE Phone!SecondRefused(l)
  <2> DEFINE r == [login[l] EXCEPT !.at = "refused"]
  <2>1. login' = [login EXCEPT ![l] = r] /\ login[l].at = "asked"
        /\ UNCHANGED <<p_now, drift, account, enabledAt>>
    BY <1>3 DEF Phone!SecondRefused, LoginInv
  <2>2. /\ r \in LoginRec /\ r.at = "refused" /\ r.began = login[l].began
        /\ r.saw = login[l].saw
    BY <1>0 DEF LoginRec
  <2> HIDE DEF r
  <2>3. LoginOK(r)
    BY <1>0, <2>1, <2>2 DEF LoginOK
  <2> QED BY <2>1, <2>2, <2>3, OneLoginMoves
<1> QED BY <1>1, <1>2, <1>3

(* 2FA is enabled, or its secret replaced: nobody's login began later. *)
LEMMA EnableStep ==
  ASSUME Phone!LoginAssumption, LoginInv, NEW s \in Secret, Phone!enable_totp(s)
  PROVE  LoginInv'
<1>1. /\ account' = [totp_enabled |-> TRUE, secret |-> s]
      /\ enabledAt' = IF account.totp_enabled THEN enabledAt ELSE p_now
      /\ UNCHANGED <<p_now, drift, login>>
  BY DEF Phone!enable_totp
<1>2. /\ account' \in [totp_enabled : BOOLEAN, secret : Secret \cup {Phone!None}]
      /\ account'.totp_enabled
  BY <1>1
<1>3. p_now \in Nat /\ p_now <= LoginTime /\ LoginTime \in Nat /\ enabledAt \in Nat
  BY DEF LoginInv, Phone!LoginAssumption
<1>4. enabledAt' \in Nat /\ enabledAt' <= p_now
  BY <1>1, <1>3 DEF LoginInv
<1>5. ASSUME NEW l \in Login PROVE LoginOK(login[l])'
  <2>1. LoginOK(login[l]) /\ login[l] \in LoginRec /\ login'[l] = login[l]
    BY <1>1 DEF LoginInv
  <2>2. CASE account.totp_enabled
    BY <1>1, <1>2, <2>1, <2>2 DEF LoginOK
  <2>3. CASE ~account.totp_enabled
    <3>1. enabledAt' = p_now BY <1>1, <2>3
    <3>2. login[l].began \in Nat /\ login[l].began <= p_now
      BY <2>1 DEF LoginOK, LoginRec
    <3>3. ~(login[l].began > enabledAt') BY <1>3, <3>1, <3>2
    <3> QED BY <1>1, <1>2, <2>1, <3>3 DEF LoginOK
  <2> QED BY <2>2, <2>3
<1> QED BY <1>1, <1>2, <1>4, <1>5 DEF LoginInv

LEMMA LoginTick == ASSUME Phone!LoginAssumption, LoginInv, Phone!Tick
  PROVE LoginInv'
<1>1. /\ p_now' = p_now + 1 /\ p_now < LoginTime /\ LoginTime \in Nat
      /\ p_now \in Nat
      /\ UNCHANGED <<drift, account, login, enabledAt>>
  BY DEF Phone!Tick, LoginInv, Phone!LoginAssumption
<1>2. p_now' \in 0..LoginTime /\ p_now' > p_now
  BY <1>1
<1>3. ASSUME NEW l \in Login PROVE LoginOK(login[l])'
  <2>1. LoginOK(login[l]) /\ login[l] \in LoginRec /\ login'[l] = login[l]
    BY <1>1 DEF LoginInv
  <2>2. login[l].began \in Nat BY <2>1 DEF LoginRec
  <2> QED BY <1>1, <2>1, <2>2 DEF LoginOK
<1>4. account.totp_enabled => enabledAt <= p_now'
  BY <1>1 DEF LoginInv
<1> QED BY <1>1, <1>2, <1>3, <1>4 DEF LoginInv

(* The logins of one account, for any clock, step and phone. *)
THEOREM LoginInvariant ==
  ASSUME Phone!LoginAssumption PROVE Phone!Behaviour => []LoginInv
<1>1. LoginInv /\ UNCHANGED Phone!vars => LoginInv'
  BY DEF LoginInv, LoginOK, Phone!vars
<1>2. LoginInv /\ Phone!Next => LoginInv'
  BY PasswordStep, CodeStep, EnableStep, LoginTick DEF Phone!Next
<1> QED BY <1>1, <1>2, LoginInit, PTL DEF Phone!Behaviour

(* Two clocks that are at most a step apart show the same step or adjacent *)
(* ones.                                                                   *)
LEMMA AdjacentSteps ==
  ASSUME NEW s \in Nat \ {0}, NEW t \in Int, NEW d \in -s..s
  PROVE  (t + d) \div s \in (t \div s - 1)..(t \div s + 1)
<1> DEFINE q == t \div s  p == (t + d) \div s
<1>1. q \in Int /\ s * q <= t /\ t < s * q + s
  OBVIOUS
<1>2. p \in Int /\ s * p <= t + d /\ t + d < s * p + s
  OBVIOUS
<1> HIDE DEF p, q
<1>3. s * p < s * q + 2 * s /\ s * q < s * p + 2 * s
  BY <1>1, <1>2
<1>4. p < q + 2
  <2> SUFFICES ASSUME p >= q + 2 PROVE FALSE BY <1>1, <1>2
  <2>1. s * (p - q - 2) >= 0 BY <1>1, <1>2
  <2> QED BY <1>1, <1>2, <1>3, <2>1
<1>5. q < p + 2
  <2> SUFFICES ASSUME q >= p + 2 PROVE FALSE BY <1>1, <1>2
  <2>1. s * (q - p - 2) >= 0 BY <1>1, <1>2
  <2> QED BY <1>1, <1>2, <1>3, <2>1
<1>6. p \in (q - 1)..(q + 1)
  BY <1>1, <1>2, <1>4, <1>5
<1> QED BY <1>6 DEF p, q

(* A business route admits no login that skipped its second step, and a    *)
(* user who does what the page asks is let in (LoginSound).                *)
THEOREM TwoStepsHold ==
  ASSUME Phone!LoginAssumption PROVE Phone!Behaviour => []LoginSound
<1>1. LoginInv => Phone!TwoStepsTaken
  <2> SUFFICES ASSUME LoginInv, NEW l \in Login, Phone!AuthUser(l),
                      login[l].began > enabledAt
               PROVE  login[l].verified
    BY DEF Phone!TwoStepsTaken
  <2>1. login[l] \in LoginRec /\ LoginOK(login[l])
    BY DEF LoginInv
  <2>2. login[l].at = "full"
    BY <2>1 DEF Phone!AuthUser, Phone!mfa_pending, LoginRec
  <2> QED BY <2>1, <2>2 DEF LoginOK
<1>2. LoginInv => Phone!PromptCodeAccepted
  <2> SUFFICES ASSUME LoginInv, NEW l \in Login, login[l].at = "asked",
                      login[l].code.step = Phone!step(p_now + drift),
                      login[l].code.secret = account.secret
               PROVE  /\ account.totp_enabled
                      /\ Phone!verify_code(account.secret, login[l].code)
    BY DEF Phone!PromptCodeAccepted, Phone!Accepts
  <2>1. /\ login[l] \in LoginRec
        /\ LoginOK(login[l])
        /\ p_now \in Int
        /\ drift \in -STEP_SECS..STEP_SECS
    BY DEF LoginInv, Phone!LoginAssumption
  <2>2. account.totp_enabled
    BY <2>1 DEF LoginOK
  <2>3. Phone!step(p_now + drift)
          \in (Phone!step(p_now) - 1)..(Phone!step(p_now) + 1)
    BY <2>1, AdjacentSteps DEF Phone!step, Phone!LoginAssumption
  <2> QED BY <2>2, <2>3 DEF Phone!verify_code
<1> QED BY <1>1, <1>2, LoginInvariant, PTL DEF LoginSound, Phone!LoginSound

-----------------------------------------------------------------------------
(* The encrypted envelopes. *)

(* Every nonce of u is one of the first d, and none occurs twice. *)
DrawnOK(u, d) ==
  /\ \A i \in DOMAIN u : u[i] \in Nat /\ u[i] <= d
  /\ IsInjective(u)

(* Envelopes of one key carry one stamp, and what was opened was opened    *)
(* within the window of that stamp.                                        *)
EnvelopeInv ==
  /\ e_now \in Nat /\ e_drawn \in Nat
  /\ used \in Seq(Seq(Nat))
  /\ \A k \in DOMAIN used : DrawnOK(used[k], e_drawn)
  /\ \A e \in sent : e.key \in DOMAIN used /\ e.ts \in Int /\ e.phone \in Length
  /\ \A e, f \in sent : e.key = f.key => e.ts = f.ts
  /\ \A a \in accepted : a.at \in Nat /\ \E e \in sent :
       e.key = a.key /\ Mail!Abs(a.at - e.ts) <= REPLAY_WINDOW_MS
  /\ Mail!NeverAllShown

LEMMA AppendKeepsInjective ==
  ASSUME NEW d \in Nat, NEW u \in Seq(Nat), DrawnOK(u, d)
  PROVE  Append(u, d + 1) \in Seq(Nat) /\ DrawnOK(Append(u, d + 1), d + 1)
<1> DEFINE w == Append(u, d + 1)
           n == Len(u)
<1>1. /\ w \in Seq(Nat) /\ DOMAIN w = 1..(n + 1) /\ DOMAIN u = 1..n
      /\ \A i \in 1..n : w[i] = u[i]
      /\ w[n + 1] = d + 1 /\ n \in Nat
  BY AppendProperties
<1> HIDE DEF w, n
<1>2. ASSUME NEW i \in 1..n PROVE u[i] \in Nat /\ u[i] <= d
  <2>1. i \in DOMAIN u BY <1>1
  <2> QED BY <2>1 DEF DrawnOK
<1>3. \A i \in 1..(n + 1) : i \in 1..n \/ i = n + 1
  BY <1>1
<1>4. ASSUME NEW i \in 1..n PROVE w[i] = u[i] /\ w[i] \in Nat /\ w[i] <= d
  BY <1>1, <1>2
<1>5. ASSUME NEW i \in DOMAIN w PROVE w[i] \in Nat /\ w[i] <= d + 1
  <2>1. i \in 1..n \/ i = n + 1 BY <1>1, <1>3
  <2>2. CASE i \in 1..n
    <3>1. w[i] \in Nat /\ w[i] <= d BY <1>4, <2>2
    <3> QED BY <3>1
  <2>3. CASE i = n + 1 BY <1>1, <2>3
  <2> QED BY <2>1, <2>2, <2>3
<1>6. ASSUME NEW i \in DOMAIN w, NEW j \in DOMAIN w, w[i] = w[j] PROVE i = j
  <2>1. (i \in 1..n \/ i = n + 1) /\ (j \in 1..n \/ j = n + 1) BY <1>1, <1>3
  <2>2. ASSUME NEW k \in 1..n PROVE w[k] # w[n + 1]
    <3>1. w[k] \in Nat /\ w[k] <= d BY <1>4
    <3> QED BY <1>1, <3>1
  <2>3. CASE i \in 1..n /\ j \in 1..n
    <3>1. u[i] = u[j] /\ i \in DOMAIN u /\ j \in DOMAIN u BY <1>1, <1>4, <1>6, <2>3
    <3> QED BY <3>1 DEF DrawnOK, IsInjective
  <2> QED BY <1>6, <2>1, <2>2, <2>3
<1>7. (\A i \in DOMAIN w : w[i] \in Nat /\ w[i] <= d + 1) /\ IsInjective(w)
  BY <1>5, <1>6 DEF IsInjective
<1> QED BY <1>1, <1>7 DEF DrawnOK, w

LEMMA DrawnGrows ==
  ASSUME NEW d \in Nat, NEW b \in Nat, d <= b, NEW u, DrawnOK(u, d)
  PROVE  DrawnOK(u, b)
BY DEF DrawnOK

LEMMA EnvelopeInit == ASSUME Mail!Init PROVE EnvelopeInv
BY DEF Mail!Init, EnvelopeInv, Mail!NeverAllShown

(* A new key, its first nonce and its request. *)
LEMMA SealStep ==
  ASSUME Mail!EnvelopeAssumption, EnvelopeInv, NEW off \in Drift,
         NEW phone \in Length,
         Mail!client_seal_request(off, phone)
  PROVE  EnvelopeInv'
<1> DEFINE n == Len(used)
           s == <<Mail!generate_nonce>>
           x == [key |-> n + 1, nonce |-> Mail!generate_nonce, ts |-> e_now + off,
                 whole |-> TRUE, phone |-> phone]
<1>1. /\ e_drawn' = e_drawn + 1 /\ used' = Append(used, s) /\ sent' = sent \cup {x}
      /\ UNCHANGED <<e_now, accepted, answers>>
  BY DEF Mail!client_seal_request, Mail!generate_nonce
<1>2. /\ e_drawn \in Nat /\ e_now \in Nat /\ off \in Int /\ e_now + off \in Int
  <2>1. e_drawn \in Nat /\ e_now \in Nat BY DEF EnvelopeInv
  <2>2. off \in Int BY DEF Mail!EnvelopeAssumption
  <2> QED BY <2>1, <2>2
<1>3. s \in Seq(Nat) /\ DrawnOK(s, e_drawn + 1)
  <2> DEFINE v == e_drawn + 1
  <2>1. v \in Nat /\ v <= v /\ s = <<v>> BY <1>2 DEF Mail!generate_nonce
  <2> HIDE DEF v, s
  <2>2. s \in Seq(Nat) /\ DOMAIN s = {1} /\ s[1] = v BY <2>1
  <2>3. DrawnOK(s, v) BY <2>1, <2>2 DEF DrawnOK, IsInjective
  <2> QED BY <2>2, <2>3 DEF v
<1>4. x.key = n + 1 /\ x.ts = e_now + off /\ x.phone = phone
  OBVIOUS
<1> HIDE DEF x, s
<1>5. /\ used' \in Seq(Seq(Nat)) /\ n \in Nat
      /\ DOMAIN used = 1..n /\ DOMAIN used' = 1..(n + 1)
      /\ \A k \in 1..n : used'[k] = used[k]
      /\ used'[n + 1] = s
  BY <1>1, <1>3, AppendProperties DEF EnvelopeInv
<1> HIDE DEF n
<1>6. ASSUME NEW k \in DOMAIN used' PROVE DrawnOK(used'[k], e_drawn + 1)
  <2>1. k \in 1..n \/ k = n + 1 BY <1>5
  <2>2. CASE k \in 1..n
    BY <1>2, <1>5, <2>2, DrawnGrows DEF EnvelopeInv
  <2>3. CASE k = n + 1
    BY <1>3, <1>5, <2>3
  <2> QED BY <2>1, <2>2, <2>3
<1>7. \A e \in sent : e.key \in 1..n /\ e.key # n + 1
  BY <1>5 DEF EnvelopeInv
<1>8. \A e \in sent' : e.key \in DOMAIN used' /\ e.ts \in Int /\ e.phone \in Length
  BY <1>1, <1>2, <1>4, <1>5, <1>7 DEF EnvelopeInv
<1>9. \A e, f \in sent' : e.key = f.key => e.ts = f.ts
  BY <1>1, <1>4, <1>7 DEF EnvelopeInv
<1>10. \A a \in accepted : a.at \in Nat /\ \E e \in sent' :
          e.key = a.key /\ Mail!Abs(a.at - e.ts) <= REPLAY_WINDOW_MS
  BY <1>1 DEF EnvelopeInv
<1> QED BY <1>1, <1>2, <1>5, <1>6, <1>8, <1>9, <1>10 DEF EnvelopeInv,
                                                         Mail!NeverAllShown

(* A bit flips: the stamp and the key stay what they were. *)
LEMMA DamageStep == ASSUME EnvelopeInv, NEW e \in sent, Mail!Damage(e)
  PROVE EnvelopeInv'
<1> DEFINE x == [e EXCEPT !.whole = FALSE]
<1>1. /\ sent' = (sent \ {e}) \cup {x}
      /\ UNCHANGED <<e_now, e_drawn, used, born, accepted, answers>>
  BY DEF Mail!Damage
<1>2. x.key = e.key /\ x.ts = e.ts /\ x.phone = e.phone
  OBVIOUS
<1> HIDE DEF x
<1>3. ASSUME NEW f \in sent
      PROVE  \E g \in sent' : g.key = f.key /\ g.ts = f.ts
  BY <1>1, <1>2
<1>4. ASSUME NEW g \in sent'
      PROVE  \E f \in sent : g.key = f.key /\ g.ts = f.ts /\ g.phone = f.phone
  BY <1>1, <1>2
<1>5. \A g \in sent' : g.key \in DOMAIN used /\ g.ts \in Int /\ g.phone \in Length
  BY <1>4 DEF EnvelopeInv
<1>6. \A f, g \in sent' : f.key = g.key => f.ts = g.ts
  BY <1>4 DEF EnvelopeInv
<1>7. ASSUME NEW a \in accepted
      PROVE  a.at \in Nat /\ \E g \in sent' :
               g.key = a.key /\ Mail!Abs(a.at - g.ts) <= REPLAY_WINDOW_MS
  <2>1. PICK f \in sent : f.key = a.key /\ Mail!Abs(a.at - f.ts) <= REPLAY_WINDOW_MS
    BY DEF EnvelopeInv
  <2>2. PICK g \in sent' : g.key = f.key /\ g.ts = f.ts
    BY <1>3
  <2> QED BY <2>1, <2>2 DEF EnvelopeInv
<1> QED BY <1>1, <1>5, <1>6, <1>7 DEF EnvelopeInv, Mail!NeverAllShown

LEMMA MaskHides == ASSUME NEW n \in Nat \ {0} PROVE Mail!mask_profile(n) < n
BY DEF Mail!mask_profile, Mail!mask_middle

(* A delivery that opens: the answer draws the next nonce of the key. *)
LEMMA ProfileStep ==
  ASSUME Mail!EnvelopeAssumption, EnvelopeInv, NEW e \in sent,
         Mail!secure_profile(e)
  PROVE  EnvelopeInv'
<1> DEFINE u == Append(used[e.key], e_drawn + 1)
           x == [key |-> e.key, nonce |-> e_drawn + 1,
                 shown |-> Mail!mask_profile(e.phone), of |-> e.phone]
           y == [key |-> e.key, at |-> e_now]
<1>1. /\ e_drawn' = e_drawn + 1 /\ used' = [used EXCEPT ![e.key] = u]
      /\ answers' = answers \cup {x} /\ accepted' = accepted \cup {y}
      /\ Mail!open_request(e) /\ UNCHANGED <<e_now, born, sent>>
  BY DEF Mail!secure_profile, Mail!seal_response, Mail!generate_nonce
<1>2. /\ e.key \in DOMAIN used /\ used[e.key] \in Seq(Nat)
      /\ e_drawn \in Nat /\ e_now \in Nat /\ DrawnOK(used[e.key], e_drawn)
      /\ e.phone \in Nat \ {0}
  <2>1. /\ e.key \in DOMAIN used /\ e_drawn \in Nat /\ e_now \in Nat
        /\ used \in Seq(Seq(Nat)) /\ e.phone \in Length
        /\ \A k \in DOMAIN used : DrawnOK(used[k], e_drawn)
    BY DEF EnvelopeInv
  <2>2. used[e.key] \in Seq(Nat) BY <2>1, ElementOfSeq
  <2>3. e.phone \in Nat \ {0} BY <2>1 DEF Mail!EnvelopeAssumption
  <2> QED BY <2>1, <2>2, <2>3
<1>3. u \in Seq(Nat) /\ DrawnOK(u, e_drawn + 1)
  BY <1>2, AppendKeepsInjective
<1>4. /\ x.shown = Mail!mask_profile(e.phone) /\ x.of = e.phone
      /\ y.key = e.key /\ y.at = e_now
  OBVIOUS
<1> HIDE DEF u, x, y
<1>5. used' \in Seq(Seq(Nat)) /\ DOMAIN used' = DOMAIN used
  <2>1. DOMAIN used' = DOMAIN used BY <1>1
  <2> QED BY <1>1, <1>2, <1>3, <2>1, ExceptSeq DEF EnvelopeInv
<1>6. ASSUME NEW k \in DOMAIN used' PROVE DrawnOK(used'[k], e_drawn + 1)
  <2>1. CASE k = e.key BY <1>1, <1>2, <1>3, <2>1
  <2>2. CASE k # e.key
    <3>1. used'[k] = used[k] /\ k \in DOMAIN used BY <1>1, <1>5, <2>2
    <3> QED BY <1>2, <3>1, DrawnGrows DEF EnvelopeInv
  <2> QED BY <2>1, <2>2
<1>7. \A a \in answers' : a.shown < a.of
  BY <1>1, <1>2, <1>4, MaskHides DEF EnvelopeInv, Mail!NeverAllShown
<1>8. \A a \in accepted' : a.at \in Nat /\ \E f \in sent :
         f.key = a.key /\ Mail!Abs(a.at - f.ts) <= REPLAY_WINDOW_MS
  BY <1>1, <1>2, <1>4 DEF EnvelopeInv, Mail!open_request
<1>9. \A f, g \in sent' : f.key = g.key => f.ts = g.ts
  BY <1>1 DEF EnvelopeInv
<1>10. \A f \in sent' : f.key \in DOMAIN used' /\ f.ts \in Int /\ f.phone \in Length
  BY <1>1, <1>5 DEF EnvelopeInv
<1>11. e_now' \in Nat /\ e_drawn' \in Nat /\ e_drawn' = e_drawn + 1 /\ sent' = sent
  BY <1>1, <1>2
<1> QED BY <1>5, <1>6, <1>7, <1>8, <1>9, <1>10, <1>11 DEF EnvelopeInv,
                                                          Mail!NeverAllShown

(* The envelopes, keys and answers, for any clocks, window and traffic. *)
THEOREM EnvelopeInvariant ==
  ASSUME Mail!EnvelopeAssumption PROVE Mail!Spec => []EnvelopeInv
<1>1. EnvelopeInv /\ UNCHANGED Mail!vars => EnvelopeInv'
  BY DEF EnvelopeInv, Mail!NeverAllShown, Mail!vars
<1>2. EnvelopeInv /\ Mail!Tick => EnvelopeInv'
  BY DEF EnvelopeInv, Mail!NeverAllShown, Mail!Tick
<1>3. EnvelopeInv /\ Mail!Next => EnvelopeInv'
  BY <1>2, SealStep, DamageStep, ProfileStep DEF Mail!Next
<1> QED BY <1>1, <1>3, EnvelopeInit, PTL DEF Mail!Spec

(* Nonces stay fresh under every key, a replay dies with the window of its *)
(* stamp, and no answer shows a whole field (EnvelopeSafe).                *)
THEOREM EnvelopesStaySafe ==
  ASSUME Mail!EnvelopeAssumption PROVE Mail!Spec => []EnvelopeSafe
<1>1. EnvelopeInv => Mail!NonceOnce
  BY DEF EnvelopeInv, Mail!NonceOnce, DrawnOK, IsInjective, Mail!IsInjective
<1>2. EnvelopeInv => Mail!ReplayDies
  <2> SUFFICES ASSUME EnvelopeInv, NEW a \in accepted, NEW b \in accepted,
                      a.key = b.key
               PROVE  Mail!Abs(a.at - b.at) <= 2 * REPLAY_WINDOW_MS
    BY DEF Mail!ReplayDies
  <2>1. PICK e \in sent : e.key = a.key /\ Mail!Abs(a.at - e.ts) <= REPLAY_WINDOW_MS
    BY DEF EnvelopeInv
  <2>2. PICK f \in sent : f.key = b.key /\ Mail!Abs(b.at - f.ts) <= REPLAY_WINDOW_MS
    BY DEF EnvelopeInv
  <2>3. /\ e.ts = f.ts /\ e.ts \in Int /\ a.at \in Int /\ b.at \in Int
        /\ REPLAY_WINDOW_MS \in Nat
    BY <2>1, <2>2 DEF EnvelopeInv, Mail!EnvelopeAssumption
  <2>4. Mail!Abs(b.at - e.ts) <= REPLAY_WINDOW_MS
    BY <2>2, <2>3
  <2> QED BY <2>1, <2>3, <2>4 DEF Mail!Abs
<1>3. EnvelopeInv => Mail!NeverAllShown
  BY DEF EnvelopeInv
<1> QED BY <1>1, <1>2, <1>3, EnvelopeInvariant, PTL DEF EnvelopeSafe,
                                                        Mail!EnvelopeSafe

-----------------------------------------------------------------------------
(* The certificates. *)

(* A day that is over since the certificate became due is an order that    *)
(* failed, and the CA is told only what the responder can answer.          *)
CertInv ==
  /\ c_now \in Nat /\ not_after \in Nat /\ failed \in Nat /\ order \in Nat
  /\ authz \in [Domain -> {"none", "pending", "ready", "valid", "invalid"}]
  /\ checked \in BOOLEAN
  /\ pc # "idle" => checked
  /\ c_now <= not_after - RENEW_THRESHOLD_DAYS + failed
  /\ pc = "idle" /\ checked => c_now < not_after - RENEW_THRESHOLD_DAYS + failed
  /\ Cert!ReadyIsServed

(* What an order needs once, that takes no day and moves no date. *)
LEMMA OrderStep ==
  ASSUME Cert!CertAssumption, CertInv, Cert!order_certificate \/ Cert!Restart
  PROVE  CertInv'
<1>0. Cert!CertAssumption /\ c_now \in Nat /\ not_after \in Nat /\ failed \in Nat
  BY DEF CertInv
<1>1. CASE Cert!NewOrder
  BY <1>1 DEF CertInv, Cert!NewOrder, Cert!ReadyIsServed,
              Cert!serve_challenge, Cert!Token
<1>2. CASE Cert!AllAnswered \/ Cert!PollReady \/ Cert!Finalize
  BY <1>2 DEF CertInv, Cert!AllAnswered, Cert!PollReady, Cert!Finalize,
              Cert!ReadyIsServed,
              Cert!serve_challenge, Cert!Token
<1>3. CASE Cert!Download
  <2>1. /\ c_now' = c_now /\ failed' = 0
        /\ not_after' = c_now + SELF_SIGNED_VALID_DAYS
        /\ pc' = "idle" /\ UNCHANGED <<order, authz, checked>>
    BY <1>3 DEF Cert!Download
  <2>2. /\ not_after' \in Nat
        /\ c_now' < not_after' - RENEW_THRESHOLD_DAYS + failed'
        /\ c_now' <= not_after' - RENEW_THRESHOLD_DAYS + failed'
    BY <1>0, <2>1 DEF Cert!CertAssumption
  <2> QED BY <2>1, <2>2 DEF CertInv, Cert!ReadyIsServed
<1>4. CASE Cert!Fails \/ Cert!Restart
  <2>1. /\ UNCHANGED <<c_now, not_after, order, authz, checked>> /\ pc' = "idle"
        /\ failed' = IF pc = "idle" THEN failed ELSE failed + 1
    BY <1>4 DEF Cert!Fails, Cert!Restart
  <2>2. /\ failed' \in Nat
        /\ c_now' <= not_after' - RENEW_THRESHOLD_DAYS + failed'
        /\ checked => c_now' < not_after' - RENEW_THRESHOLD_DAYS + failed'
    BY <1>0, <2>1 DEF CertInv, Cert!CertAssumption
  <2> QED BY <2>1, <2>2 DEF CertInv, Cert!ReadyIsServed
<1>5. CASE \E d \in Domain : Cert!SkipValid(d) \/ Cert!Insert(d) \/ Cert!SetReady(d)
  BY <1>5 DEF CertInv, Cert!SkipValid, Cert!Insert, Cert!SetReady,
              Cert!ReadyIsServed,
              Cert!serve_challenge, Cert!Token
<1> QED BY <1>1, <1>2, <1>3, <1>4, <1>5 DEF Cert!order_certificate

LEMMA DayStep ==
  ASSUME Cert!CertAssumption, CertInv,
         \/ Cert!DailyCheck \/ Cert!Midnight
         \/ \E d \in Domain : Cert!Probe(d) \/ Cert!Unreachable(d)
  PROVE  CertInv'
<1>0. Cert!CertAssumption /\ c_now \in Nat /\ not_after \in Nat /\ failed \in Nat
  BY DEF CertInv
<1>1. CASE Cert!DailyCheck
  <2>1. /\ UNCHANGED <<c_now, not_after, inner, failed>> /\ checked' /\ pc = "idle"
        /\ \/ /\ c_now >= not_after - RENEW_THRESHOLD_DAYS
              /\ pc' = "account" /\ order' = order + 1
              /\ authz' = [d \in Domain |-> "none"]
           \/ /\ c_now < not_after - RENEW_THRESHOLD_DAYS
              /\ pc' = pc /\ order' = order /\ authz' = authz
    BY <1>0, <1>1 DEF Cert!DailyCheck, Cert!needs_renewal, Cert!CertAssumption
  <2>2. c_now' < not_after' - RENEW_THRESHOLD_DAYS + failed' \/ pc' # "idle"
    BY <1>0, <2>1 DEF Cert!CertAssumption
  <2>3. checked' \in BOOLEAN
    BY <1>1 DEF Cert!DailyCheck
  <2> QED BY <2>1, <2>2, <2>3 DEF CertInv, Cert!ReadyIsServed
<1>2. CASE Cert!Midnight
  <2>1. /\ UNCHANGED <<not_after, pc, order, inner, authz, failed>>
        /\ c_now' = c_now + 1 /\ checked' = FALSE /\ pc = "idle" /\ checked
    BY <1>2 DEF Cert!Midnight
  <2>2. c_now' \in Nat /\ c_now' <= not_after' - RENEW_THRESHOLD_DAYS + failed'
    BY <1>0, <2>1 DEF CertInv, Cert!CertAssumption
  <2> QED BY <2>1, <2>2 DEF CertInv, Cert!ReadyIsServed
<1>3. CASE \E d \in Domain : Cert!Probe(d) \/ Cert!Unreachable(d)
  BY <1>3 DEF CertInv, Cert!Probe, Cert!Unreachable, Cert!ReadyIsServed,
              Cert!serve_challenge, Cert!Token
<1> QED BY <1>1, <1>2, <1>3

(* The days and the orders of a certificate, for any names and dates. *)
THEOREM CertInvariant == ASSUME Cert!CertAssumption PROVE Cert!Spec => []CertInv
<1>1. Cert!Init => CertInv
  <2>1. Cert!Init => /\ c_now \in Nat /\ not_after \in Nat
                     /\ failed \in Nat /\ order \in Nat
                /\ c_now <= not_after - RENEW_THRESHOLD_DAYS + failed
    BY DEF Cert!Init, Cert!CertAssumption
  <2>2. Cert!Init => /\ authz \in [Domain -> {"none", "pending", "ready",
                                              "valid", "invalid"}]
                /\ pc = "idle" /\ checked = FALSE
    BY DEF Cert!Init
  <2> QED BY <2>1, <2>2 DEF CertInv, Cert!ReadyIsServed
<1>2. CertInv /\ UNCHANGED Cert!vars => CertInv'
  BY DEF CertInv, Cert!vars, Cert!ReadyIsServed, Cert!serve_challenge,
         Cert!Token
<1>3. CertInv /\ Cert!Next => CertInv'
  BY OrderStep, DayStep DEF Cert!Next
<1> QED BY <1>1, <1>2, <1>3, PTL DEF Cert!Spec

(* The site has a good certificate as long as no more orders failed in a   *)
(* row than the renewal window has days, and the CA finds every answer it  *)
(* was told to look for (RenewalSafe).                                     *)
THEOREM CertificateStaysGood ==
  ASSUME Cert!CertAssumption PROVE Cert!Spec => []RenewalSafe
<1>1. CertInv => RenewalSafe
  BY DEF CertInv, RenewalSafe, Cert!RenewalSafe, Cert!InTime,
         Cert!CertAssumption
<1> QED BY <1>1, CertInvariant, PTL
-----------------------------------------------------------------------------
(* The app store, for any catalogue entry whose parameters have different  *)
(* keys.                                                                   *)

DistinctKeys(m) ==
  \A j, k \in DOMAIN m.params : m.params[j].key = m.params[k].key => j = k

(* The parameters are a list, and so is the template. *)
Listed(m) ==
  /\ DOMAIN m.params = 1..Len(m.params) /\ Len(m.params) \in Nat
  /\ m.compose_template = [i \in DOMAIN m.compose_template |-> m.compose_template[i]]

(* What stands at place i once the first n parameters are put in: the      *)
(* value of its parameter, or the placeholder still.                       *)
FilledTo(m, values, n) ==
  [i \in DOMAIN m.compose_template |->
     IF \E k \in DOMAIN m.params : k <= n /\ m.compose_template[i] = Apps!ph(m.params[k].key)
     THEN Apps!ValueOf(
            m.params[CHOOSE k \in DOMAIN m.params :
                       m.compose_template[i] = Apps!ph(m.params[k].key)],
            values)
     ELSE m.compose_template[i]]

LEMMA PlaceholdersDiffer ==
  ASSUME NEW j, NEW k, Apps!ph(j) = Apps!ph(k) PROVE j = k
<1>1. Apps!ph(j).ph = j /\ Apps!ph(k).ph = k BY DEF Apps!ph
<1> QED BY <1>1

LEMMA ValidIsNoPlaceholder ==
  ASSUME NEW v, Apps!validate_value(v), NEW k PROVE v # Apps!ph(k)
<1>1. "ph" \in DOMAIN Apps!ph(k) BY DEF Apps!ph
<1> QED BY <1>1 DEF Apps!validate_value

(* The parameter of a placeholder is the only one of its key. *)
LEMMA OneParameter ==
  ASSUME NEW m, DistinctKeys(m), NEW k \in DOMAIN m.params, NEW x,
         x = Apps!ph(m.params[k].key)
  PROVE  (CHOOSE j \in DOMAIN m.params : x = Apps!ph(m.params[j].key)) = k
<1>1. \A j \in DOMAIN m.params : x = Apps!ph(m.params[j].key) => j = k
  BY PlaceholdersDiffer DEF DistinctKeys
<1> QED BY <1>1

(* One replacement after another. *)
LEMMA SubstituteFills ==
  ASSUME NEW m, DistinctKeys(m), NEW values, NEW n \in Nat,
         DOMAIN m.params \subseteq Nat, n + 1 \in DOMAIN m.params,
         \A i \in DOMAIN m.params :
           Apps!validate_value(Apps!ValueOf(m.params[i], values))
  PROVE  Apps!Substitute(FilledTo(m, values, n), m.params[n + 1], values)
           = FilledTo(m, values, n + 1)
<1> DEFINE t == m.compose_template
           F == FilledTo(m, values, n)
           G == FilledTo(m, values, n + 1)
           p == m.params[n + 1]
           has(i, k) == t[i] = Apps!ph(m.params[k].key)
           val(i) == Apps!ValueOf(m.params[CHOOSE k \in DOMAIN m.params : has(i, k)], values)
<1>1. /\ DOMAIN F = DOMAIN t /\ DOMAIN G = DOMAIN t
      /\ F = [i \in DOMAIN t |->
                IF \E k \in DOMAIN m.params : k <= n /\ has(i, k) THEN val(i) ELSE t[i]]
      /\ G = [i \in DOMAIN t |->
                IF \E k \in DOMAIN m.params : k <= n + 1 /\ has(i, k)
                THEN val(i) ELSE t[i]]
  BY DEF FilledTo
<1>2. ASSUME NEW i \in DOMAIN t
      PROVE  (IF F[i] = Apps!ph(p.key) THEN Apps!ValueOf(p, values) ELSE F[i]) = G[i]
  <2>1. CASE has(i, n + 1)
    <3>1. (CHOOSE k \in DOMAIN m.params : has(i, k)) = n + 1
      BY <2>1, OneParameter
    <3>2. \A k \in DOMAIN m.params : has(i, k) => k = n + 1
      BY <2>1, PlaceholdersDiffer DEF DistinctKeys
    <3>3. F[i] = t[i]
      <4>1. ~ \E k \in DOMAIN m.params : k <= n /\ has(i, k)
        BY <3>2
      <4> QED BY <1>1, <4>1
    <3>4. G[i] = Apps!ValueOf(p, values)
      <4>1. \E k \in DOMAIN m.params : k <= n + 1 /\ has(i, k)
        BY <2>1
      <4>2. G[i] = val(i)
        BY <1>1, <4>1
      <4> QED BY <3>1, <4>2
    <3> QED BY <2>1, <3>3, <3>4
  <2>2. CASE ~has(i, n + 1) /\ \E k \in DOMAIN m.params : k <= n /\ has(i, k)
    <3>1. PICK k \in DOMAIN m.params : k <= n /\ has(i, k)
      BY <2>2
    <3>2. F[i] = val(i)
      BY <1>1, <3>1
    <3>3. k <= n + 1
      BY <3>1
    <3>4. G[i] = val(i)
      BY <1>1, <3>1, <3>3
    <3>5. val(i) = Apps!ValueOf(m.params[k], values)
      BY <3>1, OneParameter
    <3>6. F[i] # Apps!ph(p.key)
      BY <3>2, <3>5, ValidIsNoPlaceholder
    <3> QED BY <3>2, <3>4, <3>6
  <2>3. CASE ~ \E k \in DOMAIN m.params : k <= n + 1 /\ has(i, k)
    <3>1. ~ \E k \in DOMAIN m.params : k <= n /\ has(i, k)
      BY <2>3
    <3>2. ~has(i, n + 1)
      BY <2>3
    <3> QED BY <1>1, <2>3, <3>1, <3>2
  <2>4. \A k \in DOMAIN m.params : k <= n + 1 => k <= n \/ k = n + 1
    OBVIOUS
  <2> QED BY <2>1, <2>2, <2>3, <2>4
<1> HIDE DEF F, G
<1>3. Apps!Substitute(F, p, values) =
        [i \in DOMAIN t |-> IF F[i] = Apps!ph(p.key) THEN Apps!ValueOf(p, values) ELSE F[i]]
  BY <1>1 DEF Apps!Substitute
<1>4. G = [i \in DOMAIN t |-> G[i]]
  BY <1>1
<1> QED BY <1>2, <1>3, <1>4 DEF F, G

LEMMA RenderFills ==
  ASSUME NEW m, Listed(m), DistinctKeys(m), NEW values,
         \A i \in DOMAIN m.params :
           Apps!validate_value(Apps!ValueOf(m.params[i], values))
  PROVE  Apps!render_compose(m, values) = FilledTo(m, values, Len(m.params))
<1> DEFINE N == Len(m.params)
           Step(x, n) == IF n = 0 THEN m.compose_template
                         ELSE Apps!Substitute(x[n - 1], m.params[n], values)
           F == [n \in 0..N |-> FilledTo(m, values, n)]
           f == CHOOSE x : x = [n \in 0..N |-> Step(x, n)]
<1>1. N \in Nat /\ DOMAIN m.params = 1..N
  BY DEF Listed
<1>2. F = [n \in 0..N |-> Step(F, n)]
  <2>1. FilledTo(m, values, 0) = m.compose_template
    <3>1. \A k \in DOMAIN m.params : ~(k <= 0)
      BY <1>1
    <3> QED BY <3>1 DEF FilledTo, Listed
  <2>2. ASSUME NEW n \in 0..N, n # 0 PROVE F[n] = Step(F, n)
    <3>1. n - 1 \in 0..N /\ n - 1 \in Nat /\ (n - 1) + 1 = n /\ n \in DOMAIN m.params
      BY <1>1, <2>2
    <3>2. PICK j \in Nat : j + 1 = n /\ j = n - 1
      BY <3>1
    <3>3. Apps!Substitute(FilledTo(m, values, j), m.params[j + 1], values)
            = FilledTo(m, values, j + 1)
      <4>1. DOMAIN m.params \subseteq Nat /\ j + 1 \in DOMAIN m.params
        BY <1>1, <3>1, <3>2
      <4> QED BY <4>1, SubstituteFills
    <3> QED BY <2>2, <3>1, <3>2, <3>3
  <2>3. ASSUME NEW n \in 0..N PROVE F[n] = Step(F, n)
    <3>1. CASE n = 0 BY <1>1, <2>1, <3>1
    <3>2. CASE n # 0 BY <2>2, <3>2
    <3> QED BY <3>1, <3>2
  <2> HIDE DEF Step
  <2> QED BY <2>3
<1>3. f = [n \in 0..N |-> Step(f, n)]
  <2> HIDE DEF Step, F
  <2> QED BY <1>2
<1>4. ASSUME NEW n \in 0..N, f[n] # F[n] PROVE FALSE
  <2> DEFINE bad == {k \in 0..N : f[k] # F[k]}
  <2>1. bad \in SUBSET Nat /\ bad # {}
    <3> HIDE DEF F, f
    <3> QED BY <1>1, <1>4
  <2>2. PICK k \in bad : \A j \in bad : k <= j
    BY <2>1, LeastExists
  <2>3. f[k] = Step(f, k) /\ F[k] = Step(F, k)
    <3> HIDE DEF Step, F, f
    <3> QED BY <1>2, <1>3
  <2>4. k # 0 => f[k - 1] = F[k - 1]
    <3>1. k # 0 => k - 1 \in 0..N /\ k - 1 < k
      BY <1>1
    <3> HIDE DEF Step, F, f
    <3> QED BY <2>2, <3>1
  <2>5. f[k] = F[k]
    <3> HIDE DEF F, f
    <3> QED BY <2>3, <2>4
  <2> QED BY <2>5
<1>5. Apps!render_compose(m, values) = f[N]
  BY DEF Apps!render_compose
<1>6. N \in 0..N
  BY <1>1
<1> HIDE DEF f
<1> QED BY <1>4, <1>5, <1>6

(* What a rendered text shows at a place of the template, for any entry    *)
(* whose parameters have different keys.                                   *)
LEMMA RenderShows ==
  ASSUME NEW m, Listed(m), DistinctKeys(m), NEW values,
         Apps!Renders(m, values),
         NEW i \in DOMAIN m.compose_template, NEW k \in DOMAIN m.params,
         m.compose_template[i] = Apps!ph(m.params[k].key)
  PROVE  Apps!render_compose(m, values)[i] = Apps!ValueOf(m.params[k], values)
<1>1. \A j \in DOMAIN m.params : Apps!validate_value(Apps!ValueOf(m.params[j], values))
  BY DEF Apps!Renders
<1>2. Apps!render_compose(m, values) = FilledTo(m, values, Len(m.params))
  BY <1>1, RenderFills
<1>3. k <= Len(m.params)
  BY DEF Listed
<1>4. (CHOOSE j \in DOMAIN m.params :
         m.compose_template[i] = Apps!ph(m.params[j].key)) = k
  BY OneParameter
<1> QED BY <1>2, <1>3, <1>4 DEF FilledTo

(* Every placeholder is declared, and what is not required has a default. *)
AllDeclared(m) ==
  \A i \in DOMAIN m.compose_template : \E k \in DOMAIN m.params :
    m.compose_template[i] = Apps!ph(m.params[k].key)

Prefilled(m) ==
  \A k \in DOMAIN m.params : m.params[k].required \/ m.params[k].default # Apps!empty

(* What the catalogue has to be for that. *)
CatalogOK(m) == Listed(m) /\ DistinctKeys(m) /\ AllDeclared(m) /\ Prefilled(m)

(* x stands where the template has the placeholder of p. *)
Shows(place, p, values, x) ==
  /\ place = Apps!ph(p.key)
  /\ x = IF p.key \in DOMAIN values THEN values[p.key] ELSE Apps!text(p.default)
  /\ x # Apps!text("newline")
  /\ x = Apps!text(Apps!empty) => p.key \in DOMAIN values

ShownAsTyped(m, r) ==
  \A j \in DOMAIN m.compose_template : \E p \in Range(m.params) :
    Shows(m.compose_template[j], p, r.values, r.compose[j])

LEMMA TextsDiffer == ASSUME NEW u, NEW v, Apps!text(u) = Apps!text(v) PROVE u = v
<1>1. Apps!text(u).text = u /\ Apps!text(v).text = v BY DEF Apps!text
<1> QED BY <1>1

LEMMA ParamFields ==
  ASSUME NEW k, NEW d
  PROVE  /\ Apps!param(k, d).key = k /\ Apps!param(k, d).default = d
         /\ Apps!needed(k).key = k /\ Apps!needed(k).required
BY DEF Apps!param, Apps!needed

LEMMA PostgresOK ==
  ASSUME NEW m,
         m.compose_template =
           <<Apps!ph("instance"), Apps!ph("password"), Apps!ph("db"),
             Apps!ph("port"), Apps!ph("instance"), Apps!ph("instance")>>,
         m.params = <<Apps!param("instance", "pg"), Apps!needed("password"),
                      Apps!param("db", "app"), Apps!param("port", "5432")>>
  PROVE  CatalogOK(m)
<1> DEFINE t == m.compose_template
           q == m.params
<1>1. DOMAIN q = 1..4 /\ DOMAIN t = 1..6 /\ t = [i \in 1..6 |-> t[i]]
  OBVIOUS
<1>2. /\ q[1] = Apps!param("instance", "pg") /\ q[2] = Apps!needed("password")
      /\ q[3] = Apps!param("db", "app") /\ q[4] = Apps!param("port", "5432")
  OBVIOUS
<1>3. Len(q) = 4
  OBVIOUS
<1>4. /\ t[1] = Apps!ph("instance") /\ t[2] = Apps!ph("password")
      /\ t[3] = Apps!ph("db") /\ t[4] = Apps!ph("port")
      /\ t[5] = Apps!ph("instance") /\ t[6] = Apps!ph("instance")
  OBVIOUS
<1> HIDE DEF t, q
<1>5. /\ q[1].key = "instance" /\ q[2].key = "password"
      /\ q[3].key = "db" /\ q[4].key = "port"
      /\ q[1].default = "pg" /\ q[3].default = "app" /\ q[4].default = "5432"
  BY <1>2, ParamFields
<1>6. /\ \A k \in 1..4 : k = 1 \/ k = 2 \/ k = 3 \/ k = 4
      /\ \A i \in 1..6 : i = 1 \/ i = 2 \/ i = 3 \/ i = 4 \/ i = 5 \/ i = 6
      /\ {1, 2, 3, 4} \subseteq 1..4
  OBVIOUS
<1>7. \A j, k \in 1..4 : q[j].key = q[k].key => j = k
  BY <1>5, <1>6
<1>8. \A i \in 1..6 : \E k \in 1..4 : t[i] = Apps!ph(q[k].key)
  BY <1>4, <1>5, <1>6
<1>9. \A k \in 1..4 : q[k].required \/ q[k].default # Apps!empty
  <2>1. \A k \in {1, 3, 4} : q[k].default # Apps!empty
    <3>1. "pg" # Apps!empty /\ "app" # Apps!empty /\ "5432" # Apps!empty
      BY Zenon DEF Apps!empty
    <3> QED BY <1>5, <3>1
  <2>2. \A k \in 1..4 : k = 2 \/ k \in {1, 3, 4}
    OBVIOUS
  <2>3. q[2].required
    BY <1>2, ParamFields
  <2> QED BY <2>1, <2>2, <2>3, Zenon
<1>10. Listed(m)
  BY <1>1, <1>3 DEF Listed, t, q
<1>11. DistinctKeys(m) /\ AllDeclared(m)
  BY <1>1, <1>7, <1>8 DEF DistinctKeys, AllDeclared, t, q
<1>12. Prefilled(m)
  BY <1>1, <1>9, Zenon DEF Prefilled, t, q
<1> QED BY <1>10, <1>11, <1>12 DEF CatalogOK

LEMMA StaticSiteOK ==
  ASSUME NEW m,
         m.compose_template =
           <<Apps!ph("instance"), Apps!ph("port"), Apps!ph("webroot")>>,
         m.params = <<Apps!param("instance", "site"), Apps!param("port", "8080"),
                      Apps!needed("webroot")>>
  PROVE  CatalogOK(m)
<1> DEFINE t == m.compose_template
           q == m.params
<1>1. DOMAIN q = 1..3 /\ DOMAIN t = 1..3 /\ t = [i \in 1..3 |-> t[i]]
  OBVIOUS
<1>2. /\ q[1] = Apps!param("instance", "site") /\ q[2] = Apps!param("port", "8080")
      /\ q[3] = Apps!needed("webroot")
  OBVIOUS
<1>3. Len(q) = 3
  OBVIOUS
<1>4. /\ t[1] = Apps!ph("instance") /\ t[2] = Apps!ph("port")
      /\ t[3] = Apps!ph("webroot")
  OBVIOUS
<1> HIDE DEF t, q
<1>5. /\ q[1].key = "instance" /\ q[2].key = "port" /\ q[3].key = "webroot"
      /\ q[1].default = "site" /\ q[2].default = "8080"
  BY <1>2, ParamFields
<1>6. \A k \in 1..3 : k = 1 \/ k = 2 \/ k = 3
  OBVIOUS
<1>7. \A j, k \in 1..3 : q[j].key = q[k].key => j = k
  BY <1>5, <1>6
<1>8. \A i \in 1..3 : \E k \in 1..3 : t[i] = Apps!ph(q[k].key)
  BY <1>4, <1>5, <1>6
<1>9. \A k \in 1..3 : q[k].required \/ q[k].default # Apps!empty
  <2>1. \A k \in {1, 2} : q[k].default # Apps!empty
    <3>1. "site" # Apps!empty /\ "8080" # Apps!empty
      BY Zenon DEF Apps!empty
    <3> QED BY <1>5, <3>1
  <2>2. \A k \in 1..3 : k = 3 \/ k \in {1, 2}
    OBVIOUS
  <2>3. q[3].required
    BY <1>2, ParamFields
  <2> QED BY <2>1, <2>2, <2>3, Zenon
<1>10. Listed(m)
  BY <1>1, <1>3 DEF Listed, t, q
<1>11. DistinctKeys(m) /\ AllDeclared(m)
  BY <1>1, <1>7, <1>8 DEF DistinctKeys, AllDeclared, t, q
<1>12. Prefilled(m)
  BY <1>1, <1>9, Zenon DEF Prefilled, t, q
<1> QED BY <1>10, <1>11, <1>12 DEF CatalogOK

LEMMA CatalogEntries ==
  ASSUME NEW id \in DOMAIN Apps!catalog PROVE CatalogOK(Apps!catalog[id])
<1>1. id = "postgres" \/ id = "static_site"
  BY DEF Apps!catalog
<1>2. CatalogOK(Apps!catalog.postgres)
  <2>1. /\ Apps!catalog.postgres.compose_template =
             <<Apps!ph("instance"), Apps!ph("password"), Apps!ph("db"),
               Apps!ph("port"), Apps!ph("instance"), Apps!ph("instance")>>
        /\ Apps!catalog.postgres.params =
             <<Apps!param("instance", "pg"), Apps!needed("password"),
               Apps!param("db", "app"), Apps!param("port", "5432")>>
    BY DEF Apps!catalog
  <2> QED BY <2>1, PostgresOK
<1>3. CatalogOK(Apps!catalog.static_site)
  <2>1. /\ Apps!catalog.static_site.compose_template =
             <<Apps!ph("instance"), Apps!ph("port"), Apps!ph("webroot")>>
        /\ Apps!catalog.static_site.params =
             <<Apps!param("instance", "site"), Apps!param("port", "8080"),
               Apps!needed("webroot")>>
    BY DEF Apps!catalog
  <2> QED BY <2>1, StaticSiteOK
<1> QED BY <1>1, <1>2, <1>3

(* A rendered entry shows what was typed. *)
LEMMA InstallShows ==
  ASSUME NEW m, CatalogOK(m), NEW values, Apps!Renders(m, values),
         NEW j \in DOMAIN m.compose_template
  PROVE  \E p \in Range(m.params) :
           Shows(m.compose_template[j], p, values, Apps!render_compose(m, values)[j])
<1>2. PICK k \in DOMAIN m.params : m.compose_template[j] = Apps!ph(m.params[k].key)
  BY DEF CatalogOK, AllDeclared
<1> DEFINE p == m.params[k]
           v == Apps!ValueOf(p, values)
<1>3. Apps!render_compose(m, values)[j] = v
  BY <1>2, RenderShows DEF CatalogOK
<1>4. v = IF p.key \in DOMAIN values THEN values[p.key] ELSE Apps!text(p.default)
  BY DEF Apps!ValueOf
<1>5. v # Apps!text("newline")
  BY DEF Apps!Renders, Apps!validate_value
<1>6. ASSUME p.key \notin DOMAIN values PROVE v # Apps!text(Apps!empty)
  <2>1. ~p.required BY <1>6, Zenon DEF Apps!Renders
  <2>2. p.default # Apps!empty BY <2>1, Zenon DEF CatalogOK, Prefilled
  <2>3. v = Apps!text(p.default) BY <1>4, <1>6
  <2> HIDE DEF v, p
  <2> QED BY <2>2, <2>3, TextsDiffer
<1>7. p \in Range(m.params)
  BY DEF Range
<1>8. Shows(m.compose_template[j], p, values, v)
  BY <1>2, <1>4, <1>5, <1>6 DEF Shows
<1> HIDE DEF v, p
<1> QED BY <1>3, <1>7, <1>8 DEF p

AppsInv ==
  /\ DOMAIN installed = 1..Len(installed) /\ Len(installed) \in Nat
  /\ installed = [i \in 1..Len(installed) |-> installed[i]]
  /\ \A i \in DOMAIN installed :
       /\ installed[i].app_id \in DOMAIN Apps!catalog
       /\ ShownAsTyped(Apps!catalog[installed[i].app_id], installed[i])

LEMMA AppsStep == ASSUME AppsInv, Apps!ANext PROVE AppsInv'
<1>1. PICK id \in DOMAIN Apps!catalog, n \in Name :
        \E values \in Apps!Requests(id) : Apps!install_app(id, n, values)
  BY DEF Apps!ANext
<1>2. PICK values \in Apps!Requests(id) : Apps!install_app(id, n, values)
  BY <1>1
<1> DEFINE m == Apps!catalog[id]
           r == [app_id |-> id, instance_name |-> n, values |-> values,
                 compose |-> Apps!render_compose(m, values)]
<1>3. Apps!Renders(m, values) /\ installed' = Append(installed, r)
  BY <1>2 DEF Apps!install_app, Apps!record
<1>4. /\ r.app_id = id /\ r.values = values
      /\ r.compose = Apps!render_compose(m, values)
  OBVIOUS
<1>5. CatalogOK(m)
  BY CatalogEntries
<1> HIDE DEF r, m
<1>6. ShownAsTyped(m, r)
  BY <1>3, <1>4, <1>5, InstallShows DEF ShownAsTyped
<1> DEFINE S == {installed[i] : i \in DOMAIN installed} \cup {r}
<1>7. installed \in Seq(S)
  BY DEF AppsInv
<1>8. r \in S
  OBVIOUS
<1> HIDE DEF S
<1>9. /\ installed' \in Seq(S)
      /\ Len(installed) \in Nat /\ DOMAIN installed = 1..Len(installed)
      /\ DOMAIN installed' = 1..(Len(installed) + 1)
      /\ Len(installed') = Len(installed) + 1
      /\ \A i \in 1..Len(installed) : installed'[i] = installed[i]
      /\ installed'[Len(installed) + 1] = r
  BY <1>3, <1>7, <1>8, AppendProperties, LenProperties
<1>10. ASSUME NEW i \in DOMAIN installed'
       PROVE  /\ installed'[i].app_id \in DOMAIN Apps!catalog
              /\ ShownAsTyped(Apps!catalog[installed'[i].app_id], installed'[i])
  <2>1. i \in 1..Len(installed) \/ i = Len(installed) + 1
    BY <1>9
  <2>2. CASE i \in 1..Len(installed)
    BY <1>9, <2>2 DEF AppsInv
  <2>3. CASE i = Len(installed) + 1
    BY <1>4, <1>6, <1>9, <2>3 DEF m
  <2> QED BY <2>1, <2>2, <2>3
<1>11. installed' = [i \in DOMAIN installed' |-> installed'[i]]
  BY <1>9
<1> QED BY <1>9, <1>10, <1>11 DEF AppsInv

(* Every installed file is its template with what the user typed, or else  *)
(* the default, in each place (RenderedAsTyped).                           *)
THEOREM FilesAreAsTyped == Apps!ASpec => []RenderedAsTyped
<1>1. Apps!AInit => AppsInv
  BY DEF Apps!AInit, AppsInv
<1>2. AppsInv /\ [Apps!ANext]_installed => AppsInv'
  <2>1. AppsInv /\ UNCHANGED installed => AppsInv'
    BY DEF AppsInv
  <2> QED BY <2>1, AppsStep
<1>3. AppsInv => RenderedAsTyped
  BY DEF AppsInv, ShownAsTyped, Shows, RenderedAsTyped, Apps!RenderedAsTyped, Range,
         Apps!Range
<1> QED BY <1>1, <1>2, <1>3, PTL DEF Apps!ASpec
=============================================================================
