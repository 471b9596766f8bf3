----------------------------- MODULE CloudSync -----------------------------
(***************************************************************************)
(* cloud_sync: the sync of one tenant's cloud assets by several instances. *)
(* `sync_tenant` does its work in the critical section of the distributed  *)
(* lock (module DLock: cloud_sync/src/lock.rs is the same helper): it      *)
(* loads the credentials, and for each asks the rate limit, lists the      *)
(* assets of the account and upserts them one by one.  Every await is a    *)
(* point where other instances run and where the TTL may run out.          *)
(*                                                                         *)
(* The content of an account is a version that grows when something        *)
(* changes in the cloud.                                                   *)
(***************************************************************************)
EXTENDS DLock, Sequences, FiniteSets

CONSTANTS
  Account,        \* [provider, access_key]: what credentials are for
  MAX_CALLS_PER_MINUTE,
  WINDOW_SECS,    \* the window of the rate limit, in units of the clock
  MaxChanges      \* bound: changes in the cloud

ASSUME SyncAssumption ==
  /\ Account \subseteq [provider : STRING, access_key : STRING]
  /\ MAX_CALLS_PER_MINUTE \in Nat /\ WINDOW_SECS \in Nat \ {0}
  /\ MaxChanges \in Nat

VARIABLES
  creds,      \* cloudsync.credentials: the rows in the order of their ids
  cloud,      \* the version of what the providers would list
  assets,     \* cloudsync.assets: the version each was upserted with, or 0
  rate,       \* rate[p]: the counter [minute, n, till] of the last minute
  at,         \* at[c]: where c stands in sync_locked
  granted,    \* history: grants of the last minute, [minute, n]
  overran,    \* history: some sync has outlived its TTL
  left        \* history: {} or {the token in the key, whose client is gone}

cloudVars == <<creds, cloud, assets, rate, at, granted, overran, left>>
syncVars == <<vars, cloudVars>>

(* provider_registry, and the types of what each of its providers lists;   *)
(* a credential may be for a provider that is not in it.                   *)
provider_registry ==
  [aliyun |-> {"ecs", "oss_bucket"}, aws |-> {"ec2", "s3_bucket"}, private |-> {"vm"}]
Known == DOMAIN provider_registry

Provider == {x.provider : x \in Account}
AssetsOf(x) ==
  IF x.provider \in Known THEN {x.provider} \X provider_registry[x.provider] ELSE {}
(* The key of cloudsync.assets: the provider and the id it gave.           *)
Asset == UNION {AssetsOf(x) : x \in Account}
Never == MaxTime + WINDOW_SECS + 1
minute == now \div WINDOW_SECS

Start == [step |-> "load", todo |-> <<>>, pending |-> {}, base |-> 0,
          loaded |-> 0, trouble |-> {}]

AccessKey == {x.access_key : x \in Account}
Cred == [provider : Provider, access_key : AccessKey]
Row == [provider : Provider,
        secret_enc : [version : Nat, sealed : AccessKey],
        secret_idx : {"index"} \X Provider \X AccessKey]

Steps == {"load", "next", "list", "upsert", "unlock"}
Trouble == {"limited", "error"}

Sync == [step : Steps, todo : Seq(Cred), pending : SUBSET (Asset \X Nat),
         base : Nat, loaded : Nat, trouble : SUBSET Trouble]

SyncTypeOK ==
  /\ TypeOK
  /\ creds \in Seq(Row)
  /\ cloud \in Nat
  /\ assets \in [Asset -> Nat]
  /\ rate \in [Provider -> [minute : Nat, n : Nat, till : Nat]]
  /\ at \in [Client -> Sync]
  /\ granted \in [Provider -> [minute : Nat, n : Nat]]
  /\ overran \in BOOLEAN
  /\ left \subseteq Client \X (1..MaxTokens)
  /\ \A c \in Client : at[c].step \in {"list", "upsert"} => at[c].todo # <<>>

SyncInit ==
  /\ Init
  /\ creds = <<>>
  /\ cloud = 1
  /\ assets = [a \in Asset |-> 0]
  /\ rate = [p \in Provider |-> [minute |-> 0, n |-> 0, till |-> Never]]
  /\ at = [c \in Client |-> Start]
  /\ granted = [p \in Provider |-> [minute |-> 0, n |-> 0]]
  /\ overran = FALSE
  /\ left = {}

-----------------------------------------------------------------------------
(* from_env: the keys of both versions, v2 active, and a key of its own    *)
(* for the index.                                                          *)
from_env == [keys |-> {1, 2}, active |-> 2, index_key |-> "index"]

(* KeyRing::new refuses a ring without the key of its active version. *)
RingOK(ring) == ring.active \in ring.keys

(* "v{n}:nonce:ct" is the version of the key and the plaintext under it. *)
encrypt_field(ring, p) == [version |-> ring.active, sealed |-> p]

(* {} for an error: the version is unknown, or the text is damaged. *)
decrypt_field(ring, c) == {p \in {c.sealed} : c.version \in ring.keys}

(* Equal for equal inputs under one key; the secret key has no part. *)
blind_index(ring, x) == <<ring.index_key, x.provider, x.access_key>>

(* save_credential: ON CONFLICT (tenant_id, secret_idx) DO NOTHING. *)
save_credential(x) ==
  /\ RingOK(from_env)
  /\ Len(creds) < Cardinality(Account)
  /\ LET row == [provider |-> x.provider,
                 secret_enc |-> encrypt_field(from_env, x.access_key),
                 secret_idx |-> blind_index(from_env, x)]
     IN creds' = IF \E k \in DOMAIN creds : creds[k].secret_idx = row.secret_idx
                 THEN creds
                 ELSE Append(creds, row)
  /\ UNCHANGED <<vars, cloud, assets, rate, at, granted, overran, left>>

(* What a row is opened to: {} or {the account}. *)
Opened(row) ==
  {[provider |-> row.provider, access_key |-> p] :
     p \in decrypt_field(from_env, row.secret_enc)}

CloudChanges ==
  /\ cloud <= MaxChanges
  /\ cloud' = cloud + 1
  /\ UNCHANGED <<vars, creds, assets, rate, at, granted, overran, left>>

-----------------------------------------------------------------------------
(* sync_tenant: the lock; without it the report says ran = false. *)
SyncBegins(c) ==
  /\ LockGranted(c)
  /\ at' = [at EXCEPT ![c] = [Start EXCEPT !.base = cloud]]
  /\ left' = {}
  /\ UNCHANGED <<creds, cloud, assets, rate, granted, overran>>

SyncSkipped(c) ==
  /\ LockNotGranted(c)
  /\ left' = IF key' = key THEN left ELSE {<<c, n'[c]>>}
  /\ UNCHANGED <<creds, cloud, assets, rate, at, granted, overran>>

(* c stands at step s of sync_locked, and only its own step moves. *)
Works(c, s) ==
  /\ pc[c] = "critical"
  /\ at[c].step = s
  /\ UNCHANGED <<vars, creds, cloud, overran, left>>

(* Mutant of Fails: an error leaves sync_tenant without the unlock. *)
FailsAtOnce(c, s) ==
  /\ pc[c] = "critical" /\ at[c].step = s
  /\ pc' = [pc EXCEPT ![c] = "idle"]
  /\ at' = [at EXCEPT ![c].trouble = @ \cup {"error"}]
  /\ UNCHANGED <<now, key, n, since, creds, cloud, overran, left>>

(* Every `?` in sync_locked comes back to the unlock of sync_tenant. *)
Fails(c, s) ==
  /\ Works(c, s)
  /\ at' = [at EXCEPT ![c].step = "unlock", ![c].trouble = @ \cup {"error"}]

LoadCredentials(c) ==
  /\ Works(c, "load")
  /\ \A k \in DOMAIN creds : Opened(creds[k]) # {}
  /\ at' = [at EXCEPT ![c].step = "next", ![c].loaded = Len(creds),
       ![c].todo = [k \in DOMAIN creds |-> CHOOSE x \in Opened(creds[k]) : TRUE]]
  /\ UNCHANGED <<assets, rate, granted>>

(* The SELECT fails, or one credential cannot be decrypted. *)
LoadFails(c) == Fails(c, "load") /\ UNCHANGED <<assets, rate, granted>>

(* No provider of that name: counted as unsupported. *)
SkipUnsupported(c) ==
  /\ Works(c, "next")
  /\ at[c].todo # <<>> /\ Head(at[c].todo).provider \notin Known
  /\ at' = [at EXCEPT ![c].todo = Tail(@)]
  /\ UNCHANGED <<assets, rate, granted>>

(* The key of this minute, unless it has expired. *)
Count(p) ==
  IF rate[p].minute = minute /\ now < rate[p].till THEN rate[p].n ELSE 0

(* Mutant of WindowEnd: the counter lives for half a window. *)
WindowEndEarly == now + (WINDOW_SECS \div 2)

WindowEnd == now + WINDOW_SECS

(* INCR of the key of this minute, then EXPIRE if the answer was 1. *)
Incr(p, till) ==
  rate' = [rate EXCEPT ![p] = [minute |-> minute, n |-> Count(p) + 1,
             till |-> IF Count(p) = 0 THEN till ELSE rate[p].till]]

rate_limit_ok(p) == Count(p) + 1 <= MAX_CALLS_PER_MINUTE

Granted(p) ==
  granted' = [granted EXCEPT ![p] =
    [minute |-> minute, n |-> IF @.minute = minute THEN @.n + 1 ELSE 1]]

(* check_rate_limit: Allowed, and Limited. *)
RateAllows(c) ==
  /\ Works(c, "next")
  /\ at[c].todo # <<>>
  /\ LET p == Head(at[c].todo).provider IN
       /\ p \in Known
       /\ Incr(p, WindowEnd)
       /\ rate_limit_ok(p)
       /\ Granted(p)
  /\ at' = [at EXCEPT ![c].step = "list"]
  /\ UNCHANGED assets

RateLimits(c) ==
  /\ Works(c, "next")
  /\ at[c].todo # <<>>
  /\ LET p == Head(at[c].todo).provider IN
       p \in Known /\ Incr(p, WindowEnd) /\ ~rate_limit_ok(p)
  /\ at' = [at EXCEPT ![c].todo = Tail(@), ![c].trouble = @ \cup {"limited"}]
  /\ UNCHANGED <<assets, granted>>

(* INCR fails, applied or not, or the EXPIRE after it does: the counter is *)
(* then left without a TTL.                                                *)
RateFails(c) ==
  /\ Fails(c, "next")
  /\ at[c].todo # <<>>
  /\ LET p == Head(at[c].todo).provider IN
       p \in Known /\ (UNCHANGED rate \/ Incr(p, Never))
  /\ UNCHANGED <<assets, granted>>

(* The provider answers with what it holds at that moment. *)
ListAssets(c) ==
  /\ Works(c, "list")
  /\ at' = [at EXCEPT ![c].step = "upsert",
       ![c].pending = AssetsOf(Head(at[c].todo)) \X {cloud}]
  /\ UNCHANGED <<assets, rate, granted>>

(* Mutant of ListFails: the error is logged and the account skipped. *)
ListFailsIgnored(c) ==
  /\ Works(c, "list")
  /\ at' = [at EXCEPT ![c].step = "next", ![c].todo = Tail(@)]
  /\ UNCHANGED <<assets, rate, granted>>

(* The error of one account ends the sync: those after it are not listed. *)
ListFails(c) == Fails(c, "list") /\ UNCHANGED <<assets, rate, granted>>

(* upsert_asset: INSERT .. ON CONFLICT DO UPDATE, whatever was there; the  *)
(* order of the assets of one listing is the provider's.                   *)
UpsertAsset(c) ==
  /\ Works(c, "upsert")
  /\ \E x \in at[c].pending :
       /\ assets' = [assets EXCEPT ![x[1]] = x[2]]
       /\ at' = [at EXCEPT ![c].pending = @ \ {x}]
  /\ UNCHANGED <<rate, granted>>

AccountDone(c) ==
  /\ Works(c, "upsert")
  /\ at[c].pending = {}
  /\ at' = [at EXCEPT ![c].step = "next", ![c].todo = Tail(@)]
  /\ UNCHANGED <<assets, rate, granted>>

UpsertFails(c) ==
  /\ at[c].pending # {}
  /\ Fails(c, "upsert")
  /\ UNCHANGED <<assets, rate, granted>>

AllDone(c) ==
  /\ Works(c, "next")
  /\ at[c].todo = <<>>
  /\ at' = [at EXCEPT ![c].step = "unlock"]
  /\ UNCHANGED <<assets, rate, granted>>

(* What is left of c's entry when c goes away. *)
Abandon(c) ==
  left \cup {<<e.by, e.n>> : e \in {x \in key' : x.by = c /\ x.n = n[c]}}

(* The unlock comes after either result; an error of it is only logged. *)
SyncReturns(c) ==
  /\ at[c].step = "unlock"
  /\ Unlock(c)
  /\ left' = Abandon(c)
  /\ at' = [at EXCEPT ![c] = Start]
  /\ UNCHANGED <<creds, cloud, assets, rate, granted, overran>>

SyncDies(c) ==
  /\ Crash(c)
  /\ left' = Abandon(c)
  /\ at' = [at EXCEPT ![c] = Start]
  /\ UNCHANGED <<creds, cloud, assets, rate, granted, overran>>

SyncClock ==
  /\ Clock
  /\ overran' = (overran \/ \E c \in Client :
                              pc[c] = "critical" /\ now + 1 >= since[c] + TTL)
  /\ UNCHANGED <<creds, cloud, assets, rate, at, granted, left>>

SyncTimeOver == TimeOver /\ UNCHANGED cloudVars

sync_locked(c) ==
  \/ LoadCredentials(c) \/ LoadFails(c) \/ SkipUnsupported(c)
  \/ RateAllows(c) \/ RateLimits(c) \/ RateFails(c)
  \/ ListAssets(c) \/ ListFails(c)
  \/ UpsertAsset(c) \/ AccountDone(c) \/ UpsertFails(c) \/ AllDone(c)

sync_tenant(c) ==
  SyncBegins(c) \/ SyncSkipped(c) \/ sync_locked(c) \/ SyncReturns(c) \/ SyncDies(c)

SyncNext ==
  \/ \E c \in Client : sync_tenant(c)
  \/ \E x \in Account : save_credential(x)
  \/ CloudChanges \/ SyncClock \/ SyncTimeOver

SyncSpec == SyncInit /\ [][SyncNext]_syncVars

-----------------------------------------------------------------------------
(* An older listing replaces a newer one in the table only after some sync *)
(* outlived its TTL: the comment on SYNC_LOCK_TTL, and what is lost then.  *)
NoOlderOverNewer ==
  [][\A a \in Asset : assets'[a] < assets[a] => overran]_syncVars

(* The budget of a provider is the cluster's: all instances and all        *)
(* accounts together list at most MAX_CALLS_PER_MINUTE times a minute,     *)
(* whatever fails between INCR and EXPIRE.                                 *)
BudgetHolds == \A p \in Provider : granted[p].n <= MAX_CALLS_PER_MINUTE

(* Every end of a sync but a crash, or an unlock that never reached Redis, *)
(* frees the tenant: an error inside never leaves the lock to its TTL.     *)
ErrorsFreeTheLock ==
  \A c \in Client : pc[c] = "idle" =>
    \A e \in Live : e.by = c => <<c, e.n>> \in left

(* A sync that reports success without a skipped account has brought every *)
(* asset of the credentials it loaded to at least what the clouds held     *)
(* when it began, unless some sync overran.                                *)
SuccessIsFresh ==
  [][\A c \in Client :
       /\ at[c].step # "unlock" /\ at'[c].step = "unlock"
       /\ at'[c].trouble = {} /\ ~overran
       => \A k \in 1..at[c].loaded :
            creds[k].provider \in Known =>
              \A a \in AssetsOf(creds[k]) : assets[a] >= at[c].base]_syncVars

(* What a sync reports is what it leaves behind: an error frees the tenant, *)
(* a success without skipped accounts is fresh.                            *)
Outcomes == []ErrorsFreeTheLock /\ SuccessIsFresh

-----------------------------------------------------------------------------
(* What the steps preserve, each part for one of the properties above.     *)

(* A counter that has counted is there until its minute is over, and it    *)
(* has counted at least what it granted.                                   *)
BudgetInv ==
  \A p \in Provider :
    /\ rate[p].minute <= minute /\ granted[p].minute <= minute
    /\ granted[p].n <= MAX_CALLS_PER_MINUTE
    /\ (granted[p].n > 0 /\ granted[p].minute = minute) =>
         rate[p].minute = minute /\ granted[p].n <= rate[p].n
    /\ rate[p].n > 0 => rate[p].till >= WINDOW_SECS * (rate[p].minute + 1)

(* The token in the key is that of a sync under way, or was left behind.   *)
LeftInv ==
  \A e \in key :
    \/ pc[e.by] = "critical" /\ e.n = n[e.by]
    \/ <<e.by, e.n>> \in left

(* What c is still to upsert is newer than the table and than its start.   *)
PendingFresh(c) ==
  /\ at[c].base <= cloud
  /\ \A x \in at[c].pending :
       assets[x[1]] <= x[2] /\ at[c].base <= x[2] /\ x[2] <= cloud
  /\ \A x, y \in at[c].pending : x[2] = y[2]

(* The credentials that c has behind it are fresh in the table, and of the *)
(* one at hand what is not pending.                                        *)
Behind(c) == at[c].loaded - Len(at[c].todo)

DoneFresh(c) ==
  /\ at[c].loaded <= Len(creds) /\ Len(at[c].todo) <= at[c].loaded
  /\ \A i \in 1..Len(at[c].todo) :
       at[c].todo[i].provider = creds[Behind(c) + i].provider
  /\ "limited" \in at[c].trouble \/ \A k \in 1..Behind(c) :
       creds[k].provider \in Known =>
         \A a \in AssetsOf(creds[k]) : assets[a] >= at[c].base
  /\ at[c].step = "upsert" =>
       \A a \in AssetsOf(Head(at[c].todo)) :
         assets[a] >= at[c].base \/ \E x \in at[c].pending : x[1] = a

FreshInv ==
  ~overran =>
    /\ \A a \in Asset : assets[a] <= cloud
    /\ \A c \in Client : pc[c] = "critical" =>
         /\ now < since[c] + TTL
         /\ PendingFresh(c)
         /\ DoneFresh(c)

SyncInv == SyncTypeOK /\ now <= MaxTime /\ BudgetInv /\ LeftInv /\ FreshInv
=============================================================================
