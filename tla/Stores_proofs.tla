--------------------------- MODULE Stores_proofs ---------------------------
(***************************************************************************)
(* Proofs about programs whose instances meet in Redis and in SQL tables:  *)
(* the distributed lock (DLock), for every set of clients, TTL and bound;  *)
(* the cloud sync (CloudSync), which implements that lock and inherits     *)
(* what is proved about it; the cache-aside cache, the todo tables and the *)
(* cluster of the scheduler's demo (the instances Cache, Todo and Demo).   *)
(***************************************************************************)
EXTENDS MCStores, SequenceTheorems, TLAPS

USE TimesAssumption, SyncAssumption

-----------------------------------------------------------------------------
(* The distributed lock. *)

(* Before anybody asked for the lock, both parts hold trivially. *)
LEMMA InitInv == Init => TypeOK /\ LockInv
BY DEF Init, TypeOK, LockInv, HoldsUntilExpiry, Absent

(* A drawn token is within the bound; an applied SET stores it. *)
LEMMA NewTokenType ==
  ASSUME TypeOK, NEW c \in Client, new_token(c)
  PROVE  n' \in [Client -> 0..MaxTokens] /\ n[c] + 1 \in 1..MaxTokens
BY DEF TypeOK, new_token

(* Whatever the server does with SET NX, the key holds well-formed entries. *)
LEMMA SetKeyType ==
  ASSUME TypeOK, NEW c \in Client, new_token(c), SetKey(c)
  PROVE  key' \in SUBSET Entry
BY NewTokenType DEF TypeOK, SetKey, SetNx, Entry

(* Every step of a client, and of the clock, keeps the types. *)
LEMMA StepTypeOK == TypeOK /\ [Next]_vars => TypeOK'
<1> SUFFICES ASSUME TypeOK, [Next]_vars PROVE TypeOK'
  OBVIOUS
<1> USE DEF TypeOK
<1>1. ASSUME NEW c \in Client, LockGranted(c) PROVE TypeOK'
  BY <1>1, SetKeyType, NewTokenType DEF LockGranted
<1>2. ASSUME NEW c \in Client, LockNotGranted(c) PROVE TypeOK'
  <2>1. n' \in [Client -> 0..MaxTokens] /\ UNCHANGED <<now, pc, since>>
    BY <1>2, NewTokenType DEF LockNotGranted
  <2>2. key' \in SUBSET Entry
    BY <1>2, SetKeyType DEF LockNotGranted
  <2> QED
    BY <2>1, <2>2
<1>3. ASSUME NEW c \in Client, Unlock(c) PROVE TypeOK'
  BY <1>3 DEF Unlock, Live
<1>4. ASSUME NEW c \in Client, Crash(c) PROVE TypeOK'
  BY <1>4 DEF Crash
<1>5. CASE Clock
  BY <1>5 DEF Clock
<1>6. CASE UNCHANGED vars
  BY <1>6 DEF vars
<1> QED
  BY <1>1, <1>2, <1>3, <1>4, <1>5, <1>6 DEF Next, TimeOver

(* Every reachable state is well typed. *)
THEOREM TypeCorrect == Spec => []TypeOK
BY InitInv, StepTypeOK, PTL DEF Spec

-----------------------------------------------------------------------------
(* When SET NX finds the key gone, every holder has outlived its TTL. *)
LEMMA GrantMeansExpired ==
  ASSUME TypeOK, LockInv, SetNxSucceeds(Live), NEW c \in Client,
         pc[c] = "critical"
  PROVE  ~(now < since[c] + TTL)
<1> SUFFICES ASSUME now < since[c] + TTL PROVE FALSE
  OBVIOUS
<1> DEFINE e == [by |-> c, n |-> n[c], expires |-> since[c] + TTL]
<1>1. key = {e}
  BY DEF LockInv, HoldsUntilExpiry
<1>2. e.expires = since[c] + TTL
  OBVIOUS
<1>3. e \in Live
  BY <1>1, <1>2 DEF Live
<1> QED
  BY <1>3 DEF SetNxSucceeds, Absent

(* No step takes the key from a holder whose TTL is running. *)
LEMMA StepLockInv == TypeOK /\ LockInv /\ [Next]_vars => LockInv'
<1> SUFFICES ASSUME TypeOK, LockInv, [Next]_vars PROVE LockInv'
  OBVIOUS
<1> USE DEF LockInv, HoldsUntilExpiry
(* The new holder owns the key; the others have outlived their TTL. *)
<1>1. ASSUME NEW c \in Client, LockGranted(c) PROVE LockInv'
  <2>1. \A d \in Client \ {c} : pc'[d] = "critical" => ~(now < since[d] + TTL)
    BY <1>1, GrantMeansExpired DEF LockGranted, TypeOK
  <2>2. key' = {[by |-> c, n |-> n'[c], expires |-> now + TTL]}
    BY <1>1 DEF LockGranted, SetKey, SetNx, new_token, TypeOK
  <2>3. since'[c] = now /\ now' = now /\ pc[c] = "idle"
    BY <1>1 DEF LockGranted, new_token, TypeOK
  <2>4. \A d \in Client \ {c} : since'[d] = since[d] /\ pc'[d] = pc[d]
    BY <1>1 DEF LockGranted, TypeOK
  <2> QED
    BY <2>1, <2>2, <2>3, <2>4 DEF TypeOK
<1>2. ASSUME NEW c \in Client, LockNotGranted(c) PROVE LockInv'
  <2>1. pc[c] = "idle" /\ UNCHANGED <<now, pc, since>>
        /\ \A d \in Client \ {c} : n'[d] = n[d]
    BY <1>2 DEF LockNotGranted, new_token, TypeOK
  <2>2. CASE UNCHANGED key
    BY <2>1, <2>2
  <2>3. CASE SetNxSucceeds(Live)
    BY <2>1, <2>3, GrantMeansExpired
  <2> QED
    BY <1>2, <2>2, <2>3 DEF LockNotGranted
(* A late unlock only removes the caller's own entry. *)
<1>3. ASSUME NEW c \in Client, Unlock(c) PROVE LockInv'
  <2>1. UNCHANGED <<now, n, since>> /\ pc' = [pc EXCEPT ![c] = "idle"]
    BY <1>3 DEF Unlock
  <2>2. CASE UNCHANGED key
    BY <2>1, <2>2 DEF TypeOK
  <2>3. CASE key' = Live \ MyEntry(c)
    <3>1. ASSUME NEW d \in Client, pc'[d] = "critical", now < since[d] + TTL
          PROVE  key' = {[by |-> d, n |-> n[d], expires |-> since[d] + TTL]}
      <4> DEFINE e == [by |-> d, n |-> n[d], expires |-> since[d] + TTL]
      <4>1. d # c /\ key = {e}
        BY <2>1, <3>1 DEF TypeOK
      <4>2. e.by = d /\ e.expires = since[d] + TTL
        OBVIOUS
      <4>3. Live = {e}
        BY <3>1, <4>1, <4>2 DEF Live
      <4>4. MyEntry(c) = {}
        BY <4>1, <4>2, <4>3 DEF MyEntry
      <4> QED
        BY <2>3, <4>3, <4>4
    <3> QED
      BY <2>1, <3>1 DEF TypeOK
  <2> QED
    BY <1>3, <2>2, <2>3 DEF Unlock
<1>4. ASSUME NEW c \in Client, Crash(c) PROVE LockInv'
  BY <1>4 DEF Crash, TypeOK
<1>5. CASE Clock
  BY <1>5 DEF Clock, TypeOK
<1>6. CASE UNCHANGED vars
  BY <1>6 DEF vars
<1> QED
  BY <1>1, <1>2, <1>3, <1>4, <1>5, <1>6 DEF Next, TimeOver

(* In every reachable state a holder within its TTL has its own token in   *)
(* the key, and nobody holds the lock longer than MaxHold: the facts that  *)
(* try_lock (SET NX PX) and unlock (compare-and-delete) preserve together. *)
THEOREM InductiveInvariant == Spec => [](TypeOK /\ LockInv)
BY InitInv, StepTypeOK, StepLockInv, PTL DEF Spec

(* A holder keeps the lock for its whole TTL: no SET NX of another client  *)
(* and no late unlock of an earlier holder takes it away.                  *)
THEOREM HolderKeepsLock == Spec => []HoldsUntilExpiry
BY InductiveInvariant, PTL DEF LockInv

(* Two holders within their TTL would both be the owner of the one key. *)
LEMMA InvExcludes == LockInv => MutualExclusion
<1> SUFFICES ASSUME LockInv, NEW c \in Client, NEW d \in Client,
                    pc[c] = "critical", pc[d] = "critical",
                    ~Overrun(c), ~Overrun(d)
             PROVE  c = d
  BY DEF MutualExclusion
<1> DEFINE e(x) == [by |-> x, n |-> n[x], expires |-> since[x] + TTL]
<1>1. key = {e(c)} /\ key = {e(d)}
  BY DEF LockInv, HoldsUntilExpiry, Overrun
<1>2. e(c).by = c /\ e(d).by = d
  OBVIOUS
<1> QED
  BY <1>1, <1>2

(* Two clients between a granted try_lock and their unlock: one of them    *)
(* has been at it for longer than the TTL it gave to SET NX PX.            *)
THEOREM LockExcludes == Spec => []MutualExclusion
BY InductiveInvariant, InvExcludes, PTL

(* If no work outlives the TTL, as the comment on try_lock asks, then two  *)
(* clients are never in their critical sections together.                  *)
THEOREM ShortWorkExcludes ==
  ASSUME MaxHold < TTL
  PROVE  Spec => [](\A c, d \in Client :
                      pc[c] = "critical" /\ pc[d] = "critical" => c = d)
<1>1. TypeOK /\ LockInv /\ MutualExclusion =>
        \A c, d \in Client : pc[c] = "critical" /\ pc[d] = "critical" => c = d
  BY DEF TypeOK, LockInv, MutualExclusion, Overrun
<1> QED
  BY <1>1, InductiveInvariant, LockExcludes, PTL

-----------------------------------------------------------------------------
(* The cloud sync. *)

(* What sync_locked does between the lock and the unlock leaves the lock   *)
(* and the clock alone.                                                    *)
LEMMA WorkLeavesLock ==
  ASSUME NEW c \in Client, sync_locked(c)
  PROVE  UNCHANGED <<vars, creds, cloud, overran, left>> /\ pc[c] = "critical"
BY DEF sync_locked, LoadCredentials, LoadFails, SkipUnsupported, RateAllows,
       RateLimits, RateFails, ListAssets, ListFails, UpsertAsset, AccountDone,
       UpsertFails, AllDone, Fails, Works

(* Every step of the sync is a step of the lock, or leaves it alone. *)
LEMMA StepImplements == [SyncNext]_syncVars => [Next]_vars
<1> SUFFICES ASSUME [SyncNext]_syncVars PROVE [Next]_vars
  OBVIOUS
<1>1. ASSUME NEW c \in Client, sync_tenant(c) PROVE [Next]_vars
  <2>1. CASE sync_locked(c)
    BY <2>1, WorkLeavesLock
  <2>2. CASE SyncBegins(c) \/ SyncSkipped(c) \/ SyncReturns(c) \/ SyncDies(c)
    BY <2>2 DEF SyncBegins, SyncSkipped, SyncReturns, SyncDies, Next
  <2> QED
    BY <1>1, <2>1, <2>2 DEF sync_tenant
<1>2. ASSUME NEW x \in Account, save_credential(x) PROVE [Next]_vars
  BY <1>2 DEF save_credential
<1>3. CASE CloudChanges
  BY <1>3 DEF CloudChanges
<1>4. CASE SyncClock
  BY <1>4 DEF SyncClock, Next
<1>5. CASE SyncTimeOver
  BY <1>5 DEF SyncTimeOver, Next
<1>6. CASE UNCHANGED syncVars
  BY <1>6 DEF syncVars
<1> QED
  BY <1>1, <1>2, <1>3, <1>4, <1>5, <1>6 DEF SyncNext

(* The sync of a tenant uses its lock as the specification of the lock     *)
(* says: what is proved about DLock holds of the instances that sync.      *)
THEOREM SyncImplementsLock == SyncSpec => Spec
<1>1. SyncInit => Init
  BY DEF SyncInit
<1> QED
  BY <1>1, StepImplements, PTL DEF SyncSpec, Spec

(* Two instances sync one tenant at once only if one of them has been at   *)
(* it for longer than SYNC_LOCK_TTL.                                       *)
THEOREM SyncsExclude == SyncSpec => []MutualExclusion
BY SyncImplementsLock, LockExcludes, PTL

-----------------------------------------------------------------------------
(* The sets that the model computes from its constants. *)

(* Accounts are what their fields say. *)
LEMMA AccountFields ==
  ASSUME NEW x \in Account
  PROVE  /\ x.provider \in Provider /\ x.access_key \in AccessKey
         /\ AssetsOf(x) \subseteq Asset
BY DEF Provider, AccessKey, Asset

(* A credential lists assets of the accounts of its provider. *)
LEMMA CredAssets ==
  ASSUME NEW x, x.provider \in Provider
  PROVE  AssetsOf(x) \subseteq Asset
<1>1. PICK y \in Account : y.provider = x.provider
  BY DEF Provider
<1>2. AssetsOf(x) = AssetsOf(y)
  BY <1>1 DEF AssetsOf
<1> QED
  BY <1>2, AccountFields

(* Where a sync starts. *)
LEMMA StartType == Start \in Sync
<1>1. "load" \in Steps /\ <<>> \in Seq(Cred)
  BY DEF Steps
<1> QED
  BY <1>1 DEF Start, Sync

(* Minutes are numbers. *)
LEMMA MinuteType ==
  ASSUME NEW t \in Nat
  PROVE  t \div WINDOW_SECS \in Nat
OBVIOUS

(* A minute ends a window after any moment of it. *)
LEMMA MinuteEnds ==
  ASSUME NEW t \in Nat
  PROVE  /\ WINDOW_SECS * (t \div WINDOW_SECS) <= t
         /\ t < WINDOW_SECS * ((t \div WINDOW_SECS) + 1)
OBVIOUS

(* The number of the minute never goes back. *)
LEMMA MinuteGrows ==
  ASSUME NEW t \in Nat
  PROVE  t \div WINDOW_SECS <= (t + 1) \div WINDOW_SECS
OBVIOUS

-----------------------------------------------------------------------------
(* Types. *)

(* What save_credential stores is a row, and what a row is opened to is    *)
(* the credential of its account.                                          *)
LEMMA OpenedType ==
  ASSUME NEW row \in Row, NEW x \in Opened(row)
  PROVE  x \in Cred /\ x.provider = row.provider
BY DEF Row, Cred, Opened, decrypt_field

(* The credentials that are loaded: one for each row, of its provider. *)
LEMMA LoadedType ==
  ASSUME SyncTypeOK, \A k \in DOMAIN creds : Opened(creds[k]) # {},
         NEW todo,
         todo = [k \in DOMAIN creds |-> CHOOSE x \in Opened(creds[k]) : TRUE]
  PROVE  /\ todo \in Seq(Cred) /\ Len(todo) = Len(creds)
         /\ \A k \in 1..Len(creds) : todo[k].provider = creds[k].provider
<1>1. DOMAIN creds = 1..Len(creds) /\ Len(creds) \in Nat
      /\ \A k \in 1..Len(creds) : creds[k] \in Row
  BY DEF SyncTypeOK
<1>2. \A k \in DOMAIN creds : todo[k] \in Opened(creds[k])
  OBVIOUS
<1>3. \A k \in 1..Len(creds) : todo[k] \in Cred /\ todo[k].provider = creds[k].provider
  BY <1>1, <1>2, OpenedType
<1>4. todo \in [1..Len(creds) -> Cred]
  BY <1>1, <1>3
<1> QED
  BY <1>1, <1>3, <1>4

(* The counter of a minute is a number, before and after INCR. *)
LEMMA IncrType ==
  ASSUME SyncTypeOK, NEW p \in Provider, NEW till \in Nat, Incr(p, till)
  PROVE  /\ rate' \in [Provider -> [minute : Nat, n : Nat, till : Nat]]
         /\ Count(p) \in Nat
         /\ rate'[p].minute = minute /\ rate'[p].n = Count(p) + 1
         /\ rate'[p].till = IF Count(p) = 0 THEN till ELSE rate[p].till
         /\ \A q \in Provider : q # p => rate'[q] = rate[q]
<1>1. minute \in Nat
  BY MinuteType DEF SyncTypeOK, TypeOK, minute
<1>2. Count(p) \in Nat
  BY DEF Count, SyncTypeOK
<1> QED
  BY <1>1, <1>2 DEF Incr, SyncTypeOK

(* What the steps of sync_locked write into the record of their sync. *)
LEMMA UpdateFailed ==
  ASSUME at \in [Client -> Sync], NEW c \in Client, NEW step \in Steps,
         NEW trouble \in SUBSET Trouble
  PROVE  [at EXCEPT ![c].step = step, ![c].trouble = trouble]
           \in [Client -> Sync]
BY DEF Sync

LEMMA UpdateLimited ==
  ASSUME at \in [Client -> Sync], NEW c \in Client, NEW todo \in Seq(Cred),
         NEW trouble \in SUBSET Trouble
  PROVE  [at EXCEPT ![c].todo = todo, ![c].trouble = trouble]
           \in [Client -> Sync]
BY DEF Sync

LEMMA UpdateLoaded ==
  ASSUME at \in [Client -> Sync], NEW c \in Client, NEW step \in Steps,
         NEW todo \in Seq(Cred), NEW loaded \in Nat
  PROVE  [at EXCEPT ![c].step = step, ![c].loaded = loaded, ![c].todo = todo]
           \in [Client -> Sync]
BY DEF Sync

(* The steps of sync_locked keep the types. *)
LEMMA WorkType ==
  ASSUME SyncTypeOK, NEW c \in Client, sync_locked(c)
  PROVE  /\ assets' \in [Asset -> Nat]
         /\ rate' \in [Provider -> [minute : Nat, n : Nat, till : Nat]]
         /\ at' \in [Client -> Sync]
         /\ granted' \in [Provider -> [minute : Nat, n : Nat]]
<1> DEFINE s == at[c]
<1>0. at \in [Client -> Sync]
  BY DEF SyncTypeOK
<1>1. /\ at \in [Client -> Sync] /\ assets \in [Asset -> Nat]
      /\ rate \in [Provider -> [minute : Nat, n : Nat, till : Nat]]
      /\ granted \in [Provider -> [minute : Nat, n : Nat]]
      /\ now \in Nat /\ cloud \in Nat
      /\ s.step \in {"list", "upsert"} => s.todo # <<>>
  BY DEF SyncTypeOK, TypeOK
<1>2. /\ s.todo \in Seq(Cred) /\ s.trouble \in SUBSET Trouble
      /\ s.pending \in SUBSET (Asset \X Nat)
  BY <1>1 DEF Sync
<1>3. s.todo # <<>> =>
        Head(s.todo) \in Cred /\ Tail(s.todo) \in Seq(Cred)
        /\ Head(s.todo).provider \in Provider
  <2>1. s.todo # <<>> => Head(s.todo) \in Cred /\ Tail(s.todo) \in Seq(Cred)
    BY <1>2, HeadTailProperties
  <2> QED
    BY <2>1 DEF Cred
<1>4. "next" \in Steps /\ "list" \in Steps /\ "upsert" \in Steps /\ "unlock" \in Steps
  BY DEF Steps
<1>5. s.trouble \cup {"error"} \in SUBSET Trouble
      /\ s.trouble \cup {"limited"} \in SUBSET Trouble
  BY <1>2 DEF Trouble
<1>6. WindowEnd \in Nat /\ minute \in Nat /\ Never \in Nat
  <2>1. WINDOW_SECS \in Nat /\ MaxTime \in Nat
    OBVIOUS
  <2>2. minute \in Nat
    BY <1>1, MinuteType DEF minute
  <2> QED
    BY <1>1, <2>1, <2>2 DEF WindowEnd, Never
<1>7. ASSUME NEW step, Fails(c, step) PROVE at' \in [Client -> Sync]
  <2>1. PICK t \in SUBSET Trouble : t = s.trouble \cup {"error"}
    BY <1>5
  <2>2. at' = [at EXCEPT ![c].step = "unlock", ![c].trouble = t]
    BY <1>7, <2>1 DEF Fails
  <2> QED
    BY <1>0, <1>4, <2>2, UpdateFailed
<1>8. CASE LoadCredentials(c)
  <2>1. PICK todo : todo = [k \in DOMAIN creds |-> CHOOSE x \in Opened(creds[k]) : TRUE]
    OBVIOUS
  <2>2. todo \in Seq(Cred) /\ Len(creds) \in Nat
    BY <1>8, <2>1, LoadedType DEF LoadCredentials, SyncTypeOK
  <2>3. at' = [at EXCEPT ![c].step = "next", ![c].loaded = Len(creds), ![c].todo = todo]
    BY <1>8, <2>1 DEF LoadCredentials
  <2>4. at' \in [Client -> Sync]
    BY <1>0, <1>4, <2>2, <2>3, UpdateLoaded
  <2> QED
    BY <1>1, <1>8, <2>4 DEF LoadCredentials
<1>9. CASE LoadFails(c) \/ ListFails(c) \/ UpsertFails(c)
  BY <1>1, <1>7, <1>9 DEF LoadFails, ListFails, UpsertFails
<1>10. CASE SkipUnsupported(c)
  <2>1. at' = [at EXCEPT ![c].todo = Tail(@)] /\ s.todo # <<>>
    BY <1>10 DEF SkipUnsupported
  <2>2. at' \in [Client -> Sync]
    BY <1>0, <1>3, <2>1 DEF Sync
  <2> QED
    BY <1>1, <1>10, <2>2 DEF SkipUnsupported
<1>11. CASE RateAllows(c)
  <2> DEFINE p == Head(s.todo).provider
  <2>1. /\ s.todo # <<>> /\ Incr(p, WindowEnd) /\ Granted(p)
        /\ UNCHANGED assets /\ at' = [at EXCEPT ![c].step = "list"]
    BY <1>11 DEF RateAllows
  <2>2. p \in Provider
    BY <1>3, <2>1
  <2>3. granted' = [granted EXCEPT ![p] = [minute |-> minute,
           n |-> IF granted[p].minute = minute THEN granted[p].n + 1 ELSE 1]]
    BY <2>1 DEF Granted
  <2>4. granted[p].n + 1 \in Nat
    BY <1>1, <2>2
  <2>5. granted' \in [Provider -> [minute : Nat, n : Nat]]
    BY <1>1, <1>6, <2>2, <2>3, <2>4
  <2>6. at' \in [Client -> Sync]
    BY <1>0, <1>4, <2>1 DEF Sync
  <2> QED
    BY <1>1, <1>6, <2>1, <2>2, <2>5, <2>6, IncrType
<1>12. CASE RateLimits(c)
  <2> DEFINE p == Head(s.todo).provider
  <2>1. /\ s.todo # <<>> /\ Incr(p, WindowEnd) /\ UNCHANGED <<assets, granted>>
        /\ at' = [at EXCEPT ![c].todo = Tail(@), ![c].trouble = @ \cup {"limited"}]
    BY <1>12 DEF RateLimits
  <2>2. p \in Provider /\ Tail(s.todo) \in Seq(Cred)
    BY <1>3, <2>1
  <2>3. PICK t \in SUBSET Trouble : t = s.trouble \cup {"limited"}
    BY <1>5
  <2>4. at' = [at EXCEPT ![c].todo = Tail(s.todo), ![c].trouble = t]
    BY <2>1, <2>3
  <2>5. at' \in [Client -> Sync]
    BY <1>0, <2>2, <2>4, UpdateLimited
  <2> QED
    BY <1>1, <1>6, <2>1, <2>2, <2>5, IncrType
<1>13. CASE RateFails(c)
  <2> DEFINE p == Head(s.todo).provider
  <2>1. /\ s.todo # <<>> /\ (UNCHANGED rate \/ Incr(p, Never))
        /\ UNCHANGED <<assets, granted>> /\ Fails(c, "next")
    BY <1>13 DEF RateFails
  <2>2. p \in Provider /\ at' \in [Client -> Sync]
    BY <1>3, <1>7, <2>1
  <2> QED
    BY <1>1, <1>6, <2>1, <2>2, IncrType
<1>14. CASE ListAssets(c)
  <2>1. s.todo # <<>> /\ UNCHANGED <<assets, rate, granted>>
    BY <1>1, <1>14 DEF ListAssets, Works
  <2>2. AssetsOf(Head(s.todo)) \X {cloud} \in SUBSET (Asset \X Nat)
    BY <1>1, <1>3, <2>1, CredAssets
  <2>3. PICK pending \in SUBSET (Asset \X Nat) :
          pending = AssetsOf(Head(s.todo)) \X {cloud}
    BY <2>2
  <2>4. at' = [at EXCEPT ![c].step = "upsert", ![c].pending = pending]
    BY <1>14, <2>3 DEF ListAssets
  <2>5. at' \in [Client -> Sync]
    BY <1>0, <1>4, <2>4 DEF Sync
  <2> QED
    BY <1>1, <2>1, <2>5
<1>15. CASE UpsertAsset(c)
  <2>1. PICK x \in s.pending :
          /\ assets' = [assets EXCEPT ![x[1]] = x[2]]
          /\ at' = [at EXCEPT ![c].pending = @ \ {x}]
    BY <1>15 DEF UpsertAsset
  <2>2. x[1] \in Asset /\ x[2] \in Nat /\ s.pending \ {x} \in SUBSET (Asset \X Nat)
    BY <1>2
  <2>3. at' \in [Client -> Sync]
    BY <1>0, <2>1, <2>2 DEF Sync
  <2> QED
    BY <1>1, <1>15, <2>1, <2>2, <2>3 DEF UpsertAsset
<1>16. CASE AccountDone(c)
  <2>1. /\ s.todo # <<>> /\ UNCHANGED <<assets, rate, granted>>
        /\ at' = [at EXCEPT ![c].step = "next", ![c].todo = Tail(@)]
    BY <1>1, <1>16 DEF AccountDone, Works
  <2>2. at' \in [Client -> Sync]
    BY <1>0, <1>3, <1>4, <2>1 DEF Sync
  <2> QED
    BY <1>1, <2>1, <2>2
<1>17. CASE AllDone(c)
  <2>1. /\ UNCHANGED <<assets, rate, granted>>
        /\ at' = [at EXCEPT ![c].step = "unlock"]
    BY <1>17 DEF AllDone
  <2>2. at' \in [Client -> Sync]
    BY <1>0, <1>4, <2>1 DEF Sync
  <2> QED
    BY <1>1, <2>1, <2>2
<1> QED
  BY <1>8, <1>9, <1>10, <1>11, <1>12, <1>13, <1>14, <1>15, <1>16, <1>17
     DEF sync_locked

(* A sync moves only its own record, and lists only what it has to do. *)
LEMMA WorkOnly ==
  ASSUME SyncTypeOK, NEW c \in Client, sync_locked(c)
  PROVE  /\ \A d \in Client : d # c => at'[d] = at[d]
         /\ at'[c].step \in {"list", "upsert"} => at'[c].todo # <<>>
<1>1. at \in [Client -> Sync] /\ (at[c].step \in {"list", "upsert"} => at[c].todo # <<>>)
  BY DEF SyncTypeOK
<1>2. at[c] \in Sync
  BY <1>1
<1>3. ASSUME NEW step, Fails(c, step)
      PROVE  (\A d \in Client : d # c => at'[d] = at[d]) /\ at'[c].step = "unlock"
  BY <1>1, <1>2, <1>3 DEF Fails, Sync
<1>4. CASE LoadCredentials(c)
  BY <1>1, <1>2, <1>4 DEF LoadCredentials, Sync
<1>5. CASE LoadFails(c) \/ ListFails(c) \/ UpsertFails(c) \/ RateFails(c)
  BY <1>3, <1>5 DEF LoadFails, ListFails, UpsertFails, RateFails
<1>6. CASE SkipUnsupported(c) \/ RateLimits(c)
  BY <1>1, <1>2, <1>6 DEF SkipUnsupported, RateLimits, Works, Sync
<1>7. CASE RateAllows(c)
  BY <1>1, <1>2, <1>7 DEF RateAllows, Sync
<1>8. CASE ListAssets(c)
  BY <1>1, <1>2, <1>8 DEF ListAssets, Works, Sync
<1>9. CASE UpsertAsset(c)
  BY <1>1, <1>2, <1>9 DEF UpsertAsset, Works, Sync
<1>10. CASE AccountDone(c) \/ AllDone(c)
  BY <1>1, <1>2, <1>10 DEF AccountDone, AllDone, Sync
<1> QED
  BY <1>4, <1>5, <1>6, <1>7, <1>8, <1>9, <1>10 DEF sync_locked

(* Before the first sync the tables are empty and nobody is in its work. *)
LEMMA SyncInitType == SyncInit => SyncTypeOK
<1> SUFFICES ASSUME SyncInit PROVE SyncTypeOK
  OBVIOUS
<1>1. TypeOK
  BY InitInv DEF SyncInit
<1>2. at \in [Client -> Sync] /\ \A c \in Client : at[c].step = "load"
  BY StartType DEF SyncInit, Start
<1>3. Never \in Nat
  <2>1. WINDOW_SECS \in Nat /\ MaxTime \in Nat
    OBVIOUS
  <2> QED
    BY <2>1 DEF Never
<1>4. rate \in [Provider -> [minute : Nat, n : Nat, till : Nat]]
  BY <1>3 DEF SyncInit
<1>5. creds \in Seq(Row) /\ cloud \in Nat /\ assets \in [Asset -> Nat]
  BY DEF SyncInit
<1>6. granted \in [Provider -> [minute : Nat, n : Nat]]
  BY DEF SyncInit
<1>7. overran \in BOOLEAN /\ left \subseteq Client \X (1..MaxTokens)
  BY DEF SyncInit
<1> QED
  BY <1>1, <1>2, <1>4, <1>5, <1>6, <1>7 DEF SyncTypeOK

(* What is left of an entry when its client goes: the token is one of its. *)
LEMMA AbandonType ==
  ASSUME TypeOK', NEW c \in Client, left \subseteq Client \X (1..MaxTokens)
  PROVE  Abandon(c) \subseteq Client \X (1..MaxTokens)
BY DEF TypeOK, Abandon, Entry

(* save_credential adds a row, or nothing. *)
LEMMA SavedRow ==
  ASSUME NEW x \in Account, save_credential(x)
  PROVE  \E r \in Row : creds' = creds \/ creds' = Append(creds, r)
<1> DEFINE row == [provider |-> x.provider,
                   secret_enc |-> encrypt_field(from_env, x.access_key),
                   secret_idx |-> blind_index(from_env, x)]
<1>1. row \in Row
  BY AccountFields DEF Row, encrypt_field, blind_index, from_env
<1> QED
  BY <1>1 DEF save_credential

(* Every step keeps the types. *)
LEMMA StepSyncType == SyncTypeOK /\ [SyncNext]_syncVars => SyncTypeOK'
<1> SUFFICES ASSUME SyncTypeOK, [SyncNext]_syncVars PROVE SyncTypeOK'
  OBVIOUS
<1>1. TypeOK' /\ TypeOK
  BY StepTypeOK, StepImplements DEF SyncTypeOK
<1>2. ASSUME UNCHANGED cloudVars PROVE SyncTypeOK'
  BY <1>1, <1>2 DEF SyncTypeOK, cloudVars
<1>3. ASSUME NEW c \in Client, sync_locked(c) PROVE SyncTypeOK'
  <2>1. \A d \in Client : at'[d].step \in {"list", "upsert"} => at'[d].todo # <<>>
    BY <1>3, WorkOnly DEF SyncTypeOK
  <2> QED
    BY <1>1, <1>3, <2>1, WorkType, WorkLeavesLock DEF SyncTypeOK
<1>4. ASSUME NEW c \in Client, NEW r \in Sync, r.step = "load",
             at' = [at EXCEPT ![c] = r],
             UNCHANGED <<creds, cloud, assets, rate, granted, overran>>,
             left' \subseteq Client \X (1..MaxTokens)
      PROVE  SyncTypeOK'
  <2>1. at' \in [Client -> Sync]
    BY <1>4 DEF SyncTypeOK
  <2>2. \A d \in Client : at'[d].step \in {"list", "upsert"} => at'[d].todo # <<>>
    BY <1>4 DEF SyncTypeOK
  <2> QED
    BY <1>1, <1>4, <2>1, <2>2 DEF SyncTypeOK
<1>5. ASSUME NEW c \in Client, SyncBegins(c) PROVE SyncTypeOK'
  <2>1. [Start EXCEPT !.base = cloud] \in Sync
    BY StartType DEF Sync, SyncTypeOK
  <2>2. [Start EXCEPT !.base = cloud].step = "load"
    BY DEF Start
  <2>3. /\ at' = [at EXCEPT ![c] = [Start EXCEPT !.base = cloud]] /\ left' = {}
        /\ UNCHANGED <<creds, cloud, assets, rate, granted, overran>>
    BY <1>5 DEF SyncBegins
  <2> QED
    BY <1>4, <2>1, <2>2, <2>3
<1>6. ASSUME NEW c \in Client, SyncSkipped(c) PROVE SyncTypeOK'
  <2>1. n'[c] \in 1..MaxTokens
    BY <1>1, <1>6 DEF SyncSkipped, LockNotGranted, new_token, TypeOK
  <2>2. left' \subseteq Client \X (1..MaxTokens)
    BY <1>6, <2>1 DEF SyncSkipped, SyncTypeOK
  <2> QED
    BY <1>1, <1>6, <2>2 DEF SyncSkipped, SyncTypeOK
<1>7. ASSUME NEW c \in Client, SyncReturns(c) \/ SyncDies(c) PROVE SyncTypeOK'
  <2>1. left' \subseteq Client \X (1..MaxTokens)
    BY <1>1, <1>7, AbandonType DEF SyncReturns, SyncDies, SyncTypeOK
  <2>2. at' = [at EXCEPT ![c] = Start]
        /\ UNCHANGED <<creds, cloud, assets, rate, granted, overran>>
    BY <1>7 DEF SyncReturns, SyncDies
  <2> QED
    BY <1>4, <2>1, <2>2, StartType DEF Start
<1>8. ASSUME NEW x \in Account, save_credential(x) PROVE SyncTypeOK'
  <2>1. PICK r \in Row : creds' = creds \/ creds' = Append(creds, r)
    BY <1>8, SavedRow
  <2>2. creds \in Seq(Row)
    BY DEF SyncTypeOK
  <2>3. creds' \in Seq(Row)
    BY <2>1, <2>2, AppendProperties
  <2> QED
    BY <1>1, <1>8, <2>3 DEF save_credential, SyncTypeOK
<1>9. CASE CloudChanges
  BY <1>1, <1>9 DEF CloudChanges, SyncTypeOK
<1>10. CASE SyncClock
  BY <1>1, <1>10 DEF SyncClock, SyncTypeOK
<1>11. CASE SyncTimeOver \/ UNCHANGED syncVars
  BY <1>2, <1>11 DEF SyncTimeOver, syncVars
<1> QED
  BY <1>3, <1>5, <1>6, <1>7, <1>8, <1>9, <1>10, <1>11 DEF SyncNext, sync_tenant

(* Every reachable state of the sync is well typed, and within its time. *)
LEMMA SyncTypeCorrect == SyncSpec => [](SyncTypeOK /\ now <= MaxTime)
<1>1. SyncInit => now <= MaxTime
  BY DEF SyncInit, Init
<1>2. SyncTypeOK /\ now <= MaxTime /\ [Next]_vars => (now <= MaxTime)'
  BY DEF SyncTypeOK, TypeOK, Next, LockGranted, LockNotGranted, Unlock, Crash,
         Clock, TimeOver, vars
<1> QED
  BY <1>1, <1>2, SyncInitType, StepSyncType, StepImplements, PTL DEF SyncSpec

-----------------------------------------------------------------------------
(* The token in the key. *)

(* Every step keeps track of whose token is in the key. *)
LEMMA StepLeft == SyncTypeOK /\ LeftInv /\ [SyncNext]_syncVars => LeftInv'
<1> SUFFICES ASSUME SyncTypeOK, LeftInv, [SyncNext]_syncVars PROVE LeftInv'
  OBVIOUS
<1> USE DEF LeftInv
<1>1. /\ key \subseteq Entry /\ pc \in [Client -> {"idle", "critical"}]
      /\ n \in [Client -> 0..MaxTokens] /\ \A e \in key : e.by \in Client
  BY DEF SyncTypeOK, TypeOK, Entry
<1>2. ASSUME UNCHANGED <<key, pc, n, left>> PROVE LeftInv'
  BY <1>2
<1>3. ASSUME NEW c \in Client, SyncBegins(c) PROVE LeftInv'
  <2>1. key' = {[by |-> c, n |-> n[c] + 1, expires |-> now + TTL]}
        /\ pc'[c] = "critical" /\ n'[c] = n[c] + 1
    BY <1>1, <1>3 DEF SyncBegins, LockGranted, new_token, SetKey, SetNx
  <2>2. \A e \in key' : e.by = c /\ e.n = n[c] + 1
    BY <2>1
  <2> QED
    BY <2>1, <2>2
(* A SET that was applied though its client was told nothing leaves its    *)
(* token behind.                                                           *)
<1>4. ASSUME NEW c \in Client, SyncSkipped(c) PROVE LeftInv'
  <2>1. pc[c] = "idle" /\ pc' = pc /\ n' = [n EXCEPT ![c] = @ + 1]
    BY <1>4 DEF SyncSkipped, LockNotGranted, new_token
  <2>2. CASE key' = key
    <3>1. left' = left
      BY <1>4, <2>2 DEF SyncSkipped
    <3> QED
      BY <1>1, <2>1, <2>2, <3>1
  <2>3. CASE key' # key
    <3>1. left' = {<<c, n[c] + 1>>}
      BY <1>1, <1>4, <2>1, <2>3 DEF SyncSkipped
    <3>2. key' = {[by |-> c, n |-> n[c] + 1, expires |-> now + TTL]}
      BY <1>4, <2>3 DEF SyncSkipped, LockNotGranted, SetKey, SetNx
    <3>3. \A e \in key' : e.by = c /\ e.n = n[c] + 1
      BY <3>2
    <3> QED
      BY <3>1, <3>3
  <2> QED
    BY <2>2, <2>3
<1>5. ASSUME NEW c \in Client, SyncReturns(c) \/ SyncDies(c) PROVE LeftInv'
  <2>1. key' \subseteq key /\ n' = n /\ left' = Abandon(c)
    BY <1>5 DEF SyncReturns, SyncDies, Unlock, Crash, Live
  <2>2. \A d \in Client : d # c => pc'[d] = pc[d]
    BY <1>1, <1>5 DEF SyncReturns, SyncDies, Unlock, Crash
  <2>3. ASSUME NEW e \in key' PROVE
          (pc'[e.by] = "critical" /\ e.n = n'[e.by]) \/ <<e.by, e.n>> \in left'
    <3>1. e \in key /\ e.by \in Client
      BY <1>1, <2>1, <2>3
    <3>2. CASE e.by = c /\ e.n = n[c]
      BY <2>1, <3>2 DEF Abandon
    <3>3. CASE <<e.by, e.n>> \in left
      BY <2>1, <3>3 DEF Abandon
    <3> QED
      BY <2>1, <2>2, <3>1, <3>2, <3>3
  <2> QED
    BY <2>3
<1>6. ASSUME NEW c \in Client, sync_locked(c) PROVE LeftInv'
  BY <1>2, <1>6, WorkLeavesLock DEF vars
<1>7. ASSUME NEW x \in Account, save_credential(x) PROVE LeftInv'
  BY <1>2, <1>7 DEF save_credential, vars
<1>8. CASE CloudChanges \/ SyncTimeOver \/ UNCHANGED syncVars
  BY <1>2, <1>8 DEF CloudChanges, SyncTimeOver, TimeOver, syncVars, cloudVars,
                    vars
<1>9. CASE SyncClock
  BY <1>2, <1>9 DEF SyncClock, Clock
<1> QED
  BY <1>3, <1>4, <1>5, <1>6, <1>7, <1>8, <1>9 DEF SyncNext, sync_tenant

(* However a sync ends, unless its process dies or its unlock never        *)
(* reaches Redis, the tenant is free afterwards: no `?` inside sync_locked *)
(* leaves the lock to its TTL.                                             *)
THEOREM SyncFreesLock == SyncSpec => []ErrorsFreeTheLock
<1>1. SyncInit => LeftInv
  BY DEF SyncInit, Init, Absent, LeftInv
<1>2. LeftInv => ErrorsFreeTheLock
  BY DEF LeftInv, ErrorsFreeTheLock, Live
<1> QED
  BY <1>1, <1>2, SyncInitType, StepSyncType, StepLeft, PTL DEF SyncSpec

-----------------------------------------------------------------------------
(* The budget of a provider. *)

(* A window that begins now, and a key without a TTL, outlive the minute. *)
LEMMA WindowsLast ==
  ASSUME now \in Nat, now <= MaxTime
  PROVE  /\ WindowEnd \in Nat /\ Never \in Nat /\ minute \in Nat
         /\ WindowEnd >= WINDOW_SECS * (minute + 1)
         /\ Never >= WINDOW_SECS * (minute + 1)
<1>1. minute \in Nat /\ WINDOW_SECS * minute <= now
  BY MinuteType, MinuteEnds DEF minute
<1>2. WINDOW_SECS * (minute + 1) = WINDOW_SECS * minute + WINDOW_SECS
  BY <1>1
<1>3. WINDOW_SECS * minute \in Nat
  BY <1>1
<1>4. WINDOW_SECS \in Nat /\ MaxTime \in Nat
  OBVIOUS
<1> QED
  BY <1>1, <1>2, <1>3, <1>4 DEF WindowEnd, Never

(* What has been counted in this minute has not expired. *)
LEMMA CountLasts ==
  ASSUME SyncTypeOK, BudgetInv, NEW p \in Provider,
         rate[p].minute = minute, rate[p].n > 0
  PROVE  Count(p) = rate[p].n
<1>1. now \in Nat /\ now < WINDOW_SECS * (minute + 1) /\ minute \in Nat
  BY MinuteEnds, MinuteType DEF SyncTypeOK, TypeOK, minute
<1>2. rate[p].till >= WINDOW_SECS * (minute + 1) /\ rate[p].till \in Nat
  BY DEF BudgetInv, SyncTypeOK
<1>3. WINDOW_SECS * (minute + 1) \in Nat
  BY <1>1
<1>4. now < rate[p].till
  BY <1>1, <1>2, <1>3
<1> QED
  BY <1>4 DEF Count

(* An INCR, whoever sends it, counts on in this minute. *)
LEMMA IncrCounts ==
  ASSUME SyncTypeOK, BudgetInv, NEW p \in Provider, NEW till \in Nat,
         till >= WINDOW_SECS * (minute + 1), Incr(p, till)
  PROVE  /\ \A q \in Provider :
              /\ rate'[q].minute <= minute
              /\ rate'[q].n > 0 =>
                   rate'[q].till >= WINDOW_SECS * (rate'[q].minute + 1)
         /\ rate'[p].minute = minute /\ rate'[p].n = Count(p) + 1
         /\ rate[p].minute = minute => Count(p) = rate[p].n
         /\ \A q \in Provider : q # p => rate'[q] = rate[q]
<1>1. rate[p].minute = minute => Count(p) = rate[p].n
  <2>1. rate[p].n \in Nat
    BY DEF SyncTypeOK
  <2> QED
    BY <2>1, CountLasts DEF Count
<1>2. minute \in Nat
  BY MinuteType DEF SyncTypeOK, TypeOK, minute
<1>3. Count(p) # 0 => rate[p].minute = minute
  BY DEF Count
<1>4. rate'[p].till >= WINDOW_SECS * (minute + 1)
  <2>1. rate[p].n \in Nat
    BY DEF SyncTypeOK
  <2>2. Count(p) # 0 => rate[p].till >= WINDOW_SECS * (minute + 1)
    BY <1>1, <1>3, <2>1 DEF BudgetInv
  <2> QED
    BY <2>2, IncrType
<1> QED
  BY <1>1, <1>2, <1>4, IncrType DEF BudgetInv

(* Every step keeps grants within what has been counted. *)
LEMMA StepBudget ==
  SyncTypeOK /\ now <= MaxTime /\ BudgetInv /\ [SyncNext]_syncVars => BudgetInv'
<1> SUFFICES ASSUME SyncTypeOK, now <= MaxTime, BudgetInv, [SyncNext]_syncVars
             PROVE  BudgetInv'
  OBVIOUS
<1>1. /\ now \in Nat /\ minute \in Nat
      /\ rate \in [Provider -> [minute : Nat, n : Nat, till : Nat]]
      /\ granted \in [Provider -> [minute : Nat, n : Nat]]
  BY MinuteType DEF SyncTypeOK, TypeOK, minute
<1>2. ASSUME UNCHANGED <<now, rate, granted>> PROVE BudgetInv'
  BY <1>2 DEF BudgetInv, minute
(* Counted without a grant. *)
<1>3. ASSUME NEW p \in Provider, NEW till \in {WindowEnd, Never}, Incr(p, till),
             UNCHANGED <<now, granted>>
      PROVE  BudgetInv'
  <2>1. minute' = minute
    BY <1>3 DEF minute
  <2>2. till \in Nat /\ till >= WINDOW_SECS * (minute + 1)
    BY <1>1, <1>3, WindowsLast
  <2>3. \A q \in Provider :
          (granted[q].n > 0 /\ granted[q].minute = minute) =>
            rate'[q].minute = minute /\ granted[q].n <= rate'[q].n
    BY <1>1, <1>3, <2>2, IncrCounts DEF BudgetInv
  <2> QED
    BY <1>3, <2>1, <2>2, <2>3, IncrCounts DEF BudgetInv
(* Counted and granted. *)
<1>4. ASSUME NEW c \in Client, RateAllows(c) PROVE BudgetInv'
  <2> DEFINE p == Head(at[c].todo).provider
  <2>1. /\ Incr(p, WindowEnd) /\ rate_limit_ok(p) /\ Granted(p)
        /\ at[c].todo # <<>> /\ now' = now
    BY <1>4 DEF RateAllows, Works, vars
  <2>2. p \in Provider
    <3>1. at[c].todo \in Seq(Cred)
      BY DEF SyncTypeOK, Sync
    <3>2. Head(at[c].todo) \in Cred
      BY <2>1, <3>1, HeadTailProperties
    <3> QED
      BY <3>2 DEF Cred
  <2>3. minute' = minute
    BY <2>1 DEF minute
  <2>4. granted' = [granted EXCEPT ![p] = [minute |-> minute,
           n |-> IF granted[p].minute = minute THEN granted[p].n + 1 ELSE 1]]
    BY <2>1 DEF Granted
  <2>5. Count(p) + 1 <= MAX_CALLS_PER_MINUTE /\ Count(p) \in Nat
    BY <1>1, <2>1, <2>2, WindowsLast, IncrType DEF rate_limit_ok
  <2>6. granted[p].minute = minute => granted[p].n <= Count(p)
    <3>1. rate[p].minute = minute => Count(p) = rate[p].n
      BY <1>1, <2>1, <2>2, WindowsLast, IncrCounts
    <3>2. granted[p].n \in Nat
      BY <1>1, <2>2
    <3>3. (granted[p].n > 0 /\ granted[p].minute = minute) =>
            rate[p].minute = minute /\ granted[p].n <= rate[p].n
      BY <2>2 DEF BudgetInv
    <3> QED
      BY <2>5, <3>1, <3>2, <3>3
  <2>7. granted'[p].minute = minute /\ granted'[p].n <= Count(p) + 1
    BY <1>1, <2>2, <2>4, <2>5, <2>6
  <2>8. \A q \in Provider : q # p => granted'[q] = granted[q]
    BY <1>1, <2>2, <2>4
  <2>9. \A q \in Provider :
          granted'[q].minute <= minute /\ granted'[q].n <= MAX_CALLS_PER_MINUTE
    <3>1. granted'[p].n \in Nat
      BY <1>1, <2>2, <2>4
    <3> QED
      BY <1>1, <2>5, <2>7, <2>8, <3>1 DEF BudgetInv
  <2>10. \A q \in Provider :
          (granted'[q].n > 0 /\ granted'[q].minute = minute) =>
            rate'[q].minute = minute /\ granted'[q].n <= rate'[q].n
    BY <1>1, <2>1, <2>2, <2>7, <2>8, WindowsLast, IncrCounts DEF BudgetInv
  <2> QED
    BY <1>1, <2>1, <2>2, <2>3, <2>9, <2>10, WindowsLast,
       IncrCounts DEF BudgetInv
<1>5. ASSUME NEW c \in Client, sync_locked(c) PROVE BudgetInv'
  <2>1. now' = now
    BY <1>5, WorkLeavesLock DEF vars
  <2>2. CASE RateAllows(c)
    BY <1>4, <2>2
  <2>3. CASE RateLimits(c) \/ RateFails(c)
    <3> DEFINE p == Head(at[c].todo).provider
    <3>1. /\ at[c].todo # <<>> /\ UNCHANGED granted
          /\ UNCHANGED rate \/ Incr(p, WindowEnd) \/ Incr(p, Never)
      BY <2>3 DEF RateLimits, RateFails
    <3>2. at[c].todo \in Seq(Cred)
      BY DEF SyncTypeOK, Sync
    <3>3. Head(at[c].todo) \in Cred
      BY <3>1, <3>2, HeadTailProperties
    <3>4. p \in Provider
      BY <3>3 DEF Cred
    <3> QED
      BY <1>2, <1>3, <2>1, <3>1, <3>4
  <2>4. CASE UNCHANGED <<rate, granted>>
    BY <1>2, <2>1, <2>4
  <2> QED
    BY <1>5, <2>2, <2>3, <2>4 DEF sync_locked, LoadCredentials, LoadFails,
       SkipUnsupported, ListAssets, ListFails, UpsertAsset, AccountDone,
       UpsertFails, AllDone
(* A minute that is over takes its grants with it. *)
<1>6. CASE SyncClock
  <2>1. now' = now + 1 /\ UNCHANGED <<rate, granted>>
    BY <1>6 DEF SyncClock, Clock
  <2>2. minute <= minute' /\ minute' \in Nat
    BY <1>1, <2>1, MinuteGrows, MinuteType DEF minute
  <2> QED
    BY <1>1, <2>1, <2>2 DEF BudgetInv
<1>7. ASSUME NEW c \in Client,
             SyncBegins(c) \/ SyncSkipped(c) \/ SyncReturns(c) \/ SyncDies(c)
      PROVE  BudgetInv'
  BY <1>2, <1>7 DEF SyncBegins, SyncSkipped, SyncReturns, SyncDies,
                    LockGranted,
     LockNotGranted, Unlock, Crash
<1>8. ASSUME NEW x \in Account, save_credential(x) PROVE BudgetInv'
  BY <1>2, <1>8 DEF save_credential, vars
<1>9. CASE CloudChanges \/ SyncTimeOver \/ UNCHANGED syncVars
  BY <1>2, <1>9 DEF CloudChanges, SyncTimeOver, TimeOver, syncVars, cloudVars,
                    vars
<1> QED
  BY <1>5, <1>6, <1>7, <1>8, <1>9 DEF SyncNext, sync_tenant

(* All instances and accounts of a provider together are granted at most   *)
(* MAX_CALLS_PER_MINUTE listings a minute, also when an EXPIRE is lost.    *)
THEOREM SyncsWithinBudget == SyncSpec => []BudgetHolds
<1>1. SyncInit => BudgetInv
  <2> SUFFICES ASSUME SyncInit PROVE BudgetInv
    OBVIOUS
  <2>1. minute \in Nat
    BY MinuteType DEF SyncInit, Init, minute
  <2> QED
    BY <2>1 DEF SyncInit, BudgetInv
<1>2. BudgetInv => BudgetHolds
  BY DEF BudgetInv, BudgetHolds
<1> QED
  BY <1>1, <1>2, SyncTypeCorrect, StepBudget, PTL DEF SyncSpec

-----------------------------------------------------------------------------
(* Old listings and new ones. *)

(* What a sync has in its hands, field by field. *)
LEMMA SyncFields ==
  ASSUME SyncTypeOK, NEW c \in Client
  PROVE  /\ at[c] \in Sync
         /\ at[c].todo \in Seq(Cred) /\ Len(at[c].todo) \in Nat
         /\ at[c].pending \subseteq Asset \X Nat
         /\ at[c].base \in Nat /\ at[c].loaded \in Nat
         /\ at[c].trouble \subseteq Trouble
         /\ at[c].todo # <<>> =>
              /\ Head(at[c].todo) = at[c].todo[1] /\ Len(at[c].todo) >= 1
              /\ Len(Tail(at[c].todo)) = Len(at[c].todo) - 1
              /\ \A i \in 1..Len(Tail(at[c].todo)) :
                   Tail(at[c].todo)[i] = at[c].todo[i + 1]
<1>1. at[c] \in Sync
  BY DEF SyncTypeOK
<1>2. at[c].todo \in Seq(Cred) /\ Len(at[c].todo) \in Nat
  BY <1>1 DEF Sync
<1>3. at[c].todo # <<>> =>
        /\ Head(at[c].todo) = at[c].todo[1] /\ Len(at[c].todo) >= 1
        /\ Len(Tail(at[c].todo)) = Len(at[c].todo) - 1
        /\ \A i \in 1..Len(Tail(at[c].todo)) :
             Tail(at[c].todo)[i] = at[c].todo[i + 1]
  BY <1>2, HeadTailProperties
<1> QED
  BY <1>1, <1>2, <1>3 DEF Sync

(* One account less to do: it is fresh, or was skipped with a report, or   *)
(* nobody lists its assets.                                                *)
LEMMA Advance ==
  ASSUME SyncTypeOK, NEW c \in Client, DoneFresh(c), at[c].todo # <<>>,
         UNCHANGED <<creds, assets>>, at'[c].step = "next",
         at'[c].todo = Tail(at[c].todo),
         at'[c].loaded = at[c].loaded, at'[c].base = at[c].base,
         \/ "limited" \in at'[c].trouble
         \/ /\ at'[c].trouble = at[c].trouble
            /\ Head(at[c].todo).provider \in Known =>
                 \A a \in AssetsOf(Head(at[c].todo)) : assets[a] >= at[c].base
  PROVE  DoneFresh(c)'
<1> DEFINE s == at[c]
<1>1. Len(creds) \in Nat /\ s.loaded <= Len(creds) /\ Len(s.todo) <= s.loaded
  BY DEF DoneFresh, SyncTypeOK
<1>2. /\ s.loaded \in Nat /\ Len(s.todo) \in Nat /\ Len(s.todo) >= 1
      /\ Len(at'[c].todo) = Len(s.todo) - 1
      /\ Behind(c) \in Nat /\ Behind(c)' = Behind(c) + 1
  BY <1>1, SyncFields DEF Behind
<1>3. \A i \in 1..Len(at'[c].todo) : at'[c].todo[i] = s.todo[i + 1]
  BY SyncFields
<1>4. \A i \in 1..Len(at'[c].todo) :
        at'[c].todo[i].provider = creds'[Behind(c)' + i].provider
  <2> SUFFICES ASSUME NEW i \in 1..Len(at'[c].todo)
               PROVE  at'[c].todo[i].provider = creds'[Behind(c)' + i].provider
    OBVIOUS
  <2>1. i + 1 \in 1..Len(s.todo) /\ Behind(c)' + i = Behind(c) + (i + 1)
    BY <1>2
  <2> QED
    BY <1>3, <2>1 DEF DoneFresh
<1>5. creds[Behind(c) + 1].provider = Head(s.todo).provider
  <2>1. 1 \in 1..Len(s.todo) /\ Head(s.todo) = s.todo[1]
    BY <1>2, SyncFields
  <2> QED
    BY <2>1 DEF DoneFresh
<1>6. AssetsOf(creds[Behind(c) + 1]) = AssetsOf(Head(s.todo))
  BY <1>5 DEF AssetsOf
<1>7. "limited" \in at'[c].trouble \/ \A k \in 1..Behind(c)' :
        creds'[k].provider \in Known =>
          \A a \in AssetsOf(creds'[k]) : assets'[a] >= at'[c].base
  <2>1. CASE "limited" \in at'[c].trouble
    BY <2>1
  <2>2. CASE "limited" \notin at'[c].trouble
    <3>1. \A k \in 1..Behind(c) : creds[k].provider \in Known =>
            \A a \in AssetsOf(creds[k]) : assets[a] >= s.base
      BY <2>2 DEF DoneFresh
    <3>2. Head(s.todo).provider \in Known =>
            \A a \in AssetsOf(Head(s.todo)) : assets[a] >= s.base
      BY <2>2
    <3>3. \A k \in 1..Behind(c)' : k \in 1..Behind(c) \/ k = Behind(c) + 1
      BY <1>2
    <3> QED
      BY <1>5, <1>6, <3>1, <3>2, <3>3
  <2> QED
    BY <2>1, <2>2
<1>8. s.loaded <= Len(creds') /\ Len(at'[c].todo) <= s.loaded
  BY <1>1, <1>2
<1> QED
  BY <1>4, <1>7, <1>8 DEF DoneFresh

(* A step that moves on with the same account, or fails. *)
LEMMA StayFresh ==
  ASSUME SyncTypeOK, NEW c \in Client, DoneFresh(c),
         UNCHANGED <<creds, assets>>, at'[c].step # "upsert",
         at'[c].todo = at[c].todo,
         at'[c].loaded = at[c].loaded, at'[c].base = at[c].base,
         at[c].trouble \subseteq at'[c].trouble
  PROVE  DoneFresh(c)'
BY DEF DoneFresh, Behind

LEMMA StayPending ==
  ASSUME NEW c \in Client, PendingFresh(c), UNCHANGED <<assets, cloud>>,
         at'[c].pending = at[c].pending, at'[c].base = at[c].base
  PROVE  PendingFresh(c)'
BY DEF PendingFresh

(* What sync_locked does, within its TTL and alone, never goes back, and   *)
(* leaves what it has done fresh.                                          *)
LEMMA WorkFresh ==
  ASSUME SyncTypeOK, NEW c \in Client, sync_locked(c),
         PendingFresh(c), DoneFresh(c), \A a \in Asset : assets[a] <= cloud
  PROVE  /\ PendingFresh(c)' /\ DoneFresh(c)'
         /\ \A a \in Asset : assets'[a] <= cloud' /\ assets'[a] >= assets[a]
<1> DEFINE s == at[c]
<1>1. /\ s \in Sync /\ at \in [Client -> Sync] /\ cloud \in Nat
      /\ assets \in [Asset -> Nat]
  BY DEF SyncTypeOK
<1>2. UNCHANGED <<creds, cloud>>
  BY WorkLeavesLock
<1>3. ASSUME UNCHANGED assets PROVE
        \A a \in Asset : assets'[a] <= cloud' /\ assets'[a] >= assets[a]
  BY <1>1, <1>2, <1>3
<1>4. ASSUME NEW step, Fails(c, step), UNCHANGED assets
      PROVE  PendingFresh(c)' /\ DoneFresh(c)'
  <2>1. /\ at'[c].step = "unlock" /\ at'[c].todo = s.todo
        /\ at'[c].pending = s.pending /\ at'[c].base = s.base
        /\ at'[c].loaded = s.loaded
    BY <1>1, <1>4 DEF Fails, Sync
  <2>2. s.trouble \subseteq at'[c].trouble
    BY <1>1, <1>4 DEF Fails, Sync
  <2> QED
    BY <1>2, <1>4, <2>1, <2>2, StayFresh, StayPending
<1>5. CASE LoadCredentials(c)
  <2>1. PICK todo : todo = [k \in DOMAIN creds |-> CHOOSE x \in Opened(creds[k]) : TRUE]
    OBVIOUS
  <2>2. /\ Len(todo) = Len(creds) /\ Len(creds) \in Nat
        /\ \A k \in 1..Len(creds) : todo[k].provider = creds[k].provider
    <3>1. \A k \in DOMAIN creds : Opened(creds[k]) # {}
      BY <1>5 DEF LoadCredentials
    <3>2. Len(creds) \in Nat
      BY DEF SyncTypeOK
    <3> QED
      BY <2>1, <3>1, <3>2, LoadedType
  <2>3. at' = [at EXCEPT ![c].step = "next", ![c].loaded = Len(creds), ![c].todo = todo]
        /\ UNCHANGED assets
    BY <1>5, <2>1 DEF LoadCredentials
  <2>4. /\ at'[c].step = "next" /\ at'[c].loaded = Len(creds) /\ at'[c].todo = todo
        /\ at'[c].pending = s.pending /\ at'[c].base = s.base
    BY <1>1, <2>3 DEF Sync
  <2>5. Behind(c)' = 0
    BY <2>2, <2>4 DEF Behind
  <2>6. DoneFresh(c)'
    BY <1>2, <2>2, <2>4, <2>5 DEF DoneFresh
  <2> QED
    BY <1>2, <1>3, <2>3, <2>4, <2>6, StayPending
<1>6. CASE LoadFails(c) \/ RateFails(c) \/ ListFails(c) \/ UpsertFails(c)
  BY <1>3, <1>4, <1>6 DEF LoadFails, RateFails, ListFails, UpsertFails
<1>7. CASE SkipUnsupported(c)
  <2>1. /\ s.todo # <<>> /\ Head(s.todo).provider \notin Known /\ s.step = "next"
        /\ at' = [at EXCEPT ![c].todo = Tail(@)] /\ UNCHANGED assets
    BY <1>7 DEF SkipUnsupported, Works
  <2>2. /\ at'[c].step = "next" /\ at'[c].todo = Tail(s.todo)
        /\ at'[c].pending = s.pending /\ at'[c].base = s.base
        /\ at'[c].loaded = s.loaded /\ at'[c].trouble = s.trouble
    BY <1>1, <2>1 DEF Sync
  <2> QED
    BY <1>2, <1>3, <2>1, <2>2, Advance, StayPending
<1>8. CASE RateLimits(c)
  <2>1. /\ s.todo # <<>> /\ s.step = "next" /\ UNCHANGED assets
        /\ at' = [at EXCEPT ![c].todo = Tail(@), ![c].trouble = @ \cup {"limited"}]
    BY <1>8 DEF RateLimits, Works
  <2>2. /\ at'[c].step = "next" /\ at'[c].todo = Tail(s.todo)
        /\ at'[c].pending = s.pending /\ at'[c].base = s.base
        /\ at'[c].loaded = s.loaded
    BY <1>1, <2>1 DEF Sync
  <2>3. "limited" \in at'[c].trouble
    BY <1>1, <2>1 DEF Sync
  <2> QED
    BY <1>2, <1>3, <2>1, <2>2, <2>3, Advance, StayPending
<1>9. CASE RateAllows(c)
  <2>1. at' = [at EXCEPT ![c].step = "list"] /\ UNCHANGED assets
    BY <1>9 DEF RateAllows
  <2>2. /\ at'[c].step = "list" /\ at'[c].todo = s.todo
        /\ at'[c].pending = s.pending /\ at'[c].base = s.base
        /\ at'[c].loaded = s.loaded /\ at'[c].trouble = s.trouble
    BY <1>1, <2>1 DEF Sync
  <2> QED
    BY <1>2, <1>3, <2>1, <2>2, StayFresh, StayPending
<1>10. CASE ListAssets(c)
  <2>1. PICK pending : pending = AssetsOf(Head(s.todo)) \X {cloud}
    OBVIOUS
  <2>2. /\ at' = [at EXCEPT ![c].step = "upsert", ![c].pending = pending]
        /\ UNCHANGED assets /\ s.step = "list" /\ s.todo # <<>>
    BY <1>10, <2>1 DEF ListAssets, Works, SyncTypeOK
  <2>3. /\ at'[c].step = "upsert" /\ at'[c].todo = s.todo
        /\ at'[c].pending = pending /\ at'[c].base = s.base
        /\ at'[c].loaded = s.loaded /\ at'[c].trouble = s.trouble
    BY <1>1, <2>2 DEF Sync
  <2>4. AssetsOf(Head(s.todo)) \subseteq Asset
    <3>1. Head(s.todo) \in Cred
      BY <2>2, SyncFields, HeadTailProperties
    <3> QED
      BY <3>1, CredAssets DEF Cred
  <2>5. \A x \in pending : x[1] \in Asset /\ x[2] = cloud
    BY <2>1, <2>4
  <2>6. \A a \in AssetsOf(Head(s.todo)) : \E x \in pending : x[1] = a
    <3>1. \A a \in AssetsOf(Head(s.todo)) : <<a, cloud>> \in pending
      BY <2>1
    <3> QED
      BY <3>1
  <2>7. PendingFresh(c)'
    BY <1>1, <1>2, <2>2, <2>3, <2>5 DEF PendingFresh
  <2>8. DoneFresh(c)'
    BY <1>2, <2>2, <2>3, <2>6 DEF DoneFresh, Behind
  <2> QED
    BY <1>3, <2>2, <2>7, <2>8
<1>11. CASE UpsertAsset(c)
  <2>1. PICK x \in s.pending :
          /\ assets' = [assets EXCEPT ![x[1]] = x[2]]
          /\ at' = [at EXCEPT ![c].pending = @ \ {x}]
    BY <1>11 DEF UpsertAsset
  <2>2. s.step = "upsert"
    BY <1>11 DEF UpsertAsset, Works
  <2>3. /\ at'[c].step = "upsert" /\ at'[c].todo = s.todo
        /\ at'[c].pending = s.pending \ {x} /\ at'[c].base = s.base
        /\ at'[c].loaded = s.loaded /\ at'[c].trouble = s.trouble
    BY <1>1, <2>1, <2>2 DEF Sync
  <2>4. /\ x[1] \in Asset /\ x[2] \in Nat /\ s.base \in Nat
        /\ assets[x[1]] <= x[2] /\ s.base <= x[2] /\ x[2] <= cloud
        /\ \A y \in s.pending : y[2] = x[2] /\ y[1] \in Asset
    BY SyncFields DEF PendingFresh
  <2>5. \A a \in Asset : assets'[a] = IF a = x[1] THEN x[2] ELSE assets[a]
    BY <1>1, <2>1, <2>4
  <2>6. \A a \in Asset : assets'[a] <= cloud' /\ assets'[a] >= assets[a]
    BY <1>1, <1>2, <2>4, <2>5
  <2>7. PendingFresh(c)'
    BY <1>1, <1>2, <2>3, <2>4, <2>5 DEF PendingFresh
  <2>8. \A a \in Asset : assets[a] >= s.base => assets'[a] >= s.base
    BY <1>1, <2>4, <2>5
  <2>9. \A y : y.provider \in Provider => AssetsOf(y) \subseteq Asset
    BY CredAssets
  <2>10. \A k \in 1..Behind(c) : creds[k].provider \in Provider
    <3>1. creds \in Seq(Row) /\ Len(creds) \in Nat
      BY DEF SyncTypeOK
    <3>2. Behind(c) <= Len(creds) /\ Behind(c) \in Nat
      BY <3>1, SyncFields DEF DoneFresh, Behind
    <3>3. \A k \in 1..Behind(c) : creds[k] \in Row
      BY <3>1, <3>2
    <3> QED
      BY <3>3 DEF Row
  <2>11. s.todo # <<>> /\ Head(s.todo).provider \in Provider
    <3>1. s.todo # <<>>
      BY <2>2 DEF SyncTypeOK
    <3>2. Head(s.todo) \in Cred
      BY <3>1, SyncFields, HeadTailProperties
    <3> QED
      BY <3>1, <3>2 DEF Cred
  <2>12. "limited" \in s.trouble \/ \A k \in 1..Behind(c) :
           creds[k].provider \in Known =>
             \A a \in AssetsOf(creds[k]) : assets'[a] >= s.base
    BY <2>8, <2>9, <2>10 DEF DoneFresh
  <2>13. \A a \in AssetsOf(Head(s.todo)) :
           assets'[a] >= s.base \/ \E y \in s.pending \ {x} : y[1] = a
    <3> SUFFICES ASSUME NEW a \in AssetsOf(Head(s.todo))
                 PROVE  assets'[a] >= s.base \/ \E y \in s.pending \ {x} : y[1] = a
      OBVIOUS
    <3>1. a \in Asset
      BY <2>9, <2>11
    <3>2. assets[a] >= s.base \/ \E y \in s.pending : y[1] = a
      BY <2>2 DEF DoneFresh
    <3> QED
      BY <2>4, <2>5, <2>8, <3>1, <3>2
  <2>14. DoneFresh(c)'
    BY <1>2, <2>2, <2>3, <2>12, <2>13 DEF DoneFresh, Behind
  <2> QED
    BY <2>6, <2>7, <2>14
<1>12. CASE AccountDone(c)
  <2>1. /\ s.step = "upsert" /\ s.pending = {} /\ UNCHANGED assets
        /\ at' = [at EXCEPT ![c].step = "next", ![c].todo = Tail(@)]
    BY <1>12 DEF AccountDone, Works
  <2>2. /\ at'[c].step = "next" /\ at'[c].todo = Tail(s.todo)
        /\ at'[c].pending = s.pending /\ at'[c].base = s.base
        /\ at'[c].loaded = s.loaded /\ at'[c].trouble = s.trouble
    BY <1>1, <2>1 DEF Sync
  <2>3. s.todo # <<>> /\ \A a \in AssetsOf(Head(s.todo)) : assets[a] >= s.base
    BY <2>1 DEF DoneFresh, SyncTypeOK
  <2> QED
    BY <1>2, <1>3, <2>1, <2>2, <2>3, Advance, StayPending
<1>13. CASE AllDone(c)
  <2>1. at' = [at EXCEPT ![c].step = "unlock"] /\ UNCHANGED assets
    BY <1>13 DEF AllDone
  <2>2. /\ at'[c].step = "unlock" /\ at'[c].todo = s.todo
        /\ at'[c].pending = s.pending /\ at'[c].base = s.base
        /\ at'[c].loaded = s.loaded /\ at'[c].trouble = s.trouble
    BY <1>1, <2>1 DEF Sync
  <2> QED
    BY <1>2, <1>3, <2>1, <2>2, StayFresh, StayPending
<1> QED
  BY <1>5, <1>6, <1>7, <1>8, <1>9, <1>10, <1>11, <1>12, <1>13 DEF sync_locked

(* Within the TTL there is one sync at work, and what it holds is fresh. *)
LEMMA StepFresh ==
  SyncTypeOK /\ MutualExclusion /\ FreshInv /\ [SyncNext]_syncVars => FreshInv'
<1> SUFFICES ASSUME SyncTypeOK, MutualExclusion, FreshInv, [SyncNext]_syncVars,
                    ~overran'
             PROVE  /\ \A a \in Asset : assets'[a] <= cloud'
                    /\ \A c \in Client : pc'[c] = "critical" =>
                         /\ now' < since'[c] + TTL
                         /\ PendingFresh(c)' /\ DoneFresh(c)'
  BY DEF FreshInv
<1>1. ~overran
  <2>1. ASSUME NEW c \in Client, sync_tenant(c) PROVE overran' = overran
    BY <2>1, WorkLeavesLock DEF sync_tenant, SyncBegins, SyncSkipped,
       SyncReturns, SyncDies
  <2>2. ASSUME NEW x \in Account, save_credential(x) PROVE overran' = overran
    BY <2>2 DEF save_credential
  <2>3. CASE CloudChanges \/ SyncTimeOver \/ UNCHANGED syncVars
    BY <2>3 DEF CloudChanges, SyncTimeOver, syncVars, cloudVars
  <2>4. CASE SyncClock
    BY <2>4 DEF SyncClock
  <2> QED
    BY <2>1, <2>2, <2>3, <2>4 DEF SyncNext
<1>2. /\ \A a \in Asset : assets[a] <= cloud
      /\ \A c \in Client : pc[c] = "critical" =>
           now < since[c] + TTL /\ PendingFresh(c) /\ DoneFresh(c)
  BY <1>1 DEF FreshInv
<1>3. \A c, d \in Client : pc[c] = "critical" /\ pc[d] = "critical" => c = d
  BY <1>2 DEF MutualExclusion, Overrun
<1>4. /\ pc \in [Client -> {"idle", "critical"}] /\ since \in [Client -> Nat]
      /\ now \in Nat /\ cloud \in Nat /\ at \in [Client -> Sync]
      /\ assets \in [Asset -> Nat] /\ creds \in Seq(Row)
  BY DEF SyncTypeOK, TypeOK
(* A sync keeps what it has while its record and the tables are as before. *)
<1>5. ASSUME NEW c \in Client, pc[c] = "critical", at'[c] = at[c],
             UNCHANGED <<creds, assets, cloud>>
      PROVE  PendingFresh(c)' /\ DoneFresh(c)'
  BY <1>2, <1>5 DEF PendingFresh, DoneFresh, Behind
<1>6. ASSUME UNCHANGED <<now, pc, since, creds, cloud, assets, at>>
      PROVE  /\ \A a \in Asset : assets'[a] <= cloud'
             /\ \A c \in Client : pc'[c] = "critical" =>
                  /\ now' < since'[c] + TTL
                  /\ PendingFresh(c)' /\ DoneFresh(c)'
  BY <1>2, <1>5, <1>6
<1>7. ASSUME NEW c \in Client, sync_locked(c)
      PROVE  /\ \A a \in Asset : assets'[a] <= cloud'
             /\ \A d \in Client : pc'[d] = "critical" =>
                  /\ now' < since'[d] + TTL
                  /\ PendingFresh(d)' /\ DoneFresh(d)'
  <2>1. UNCHANGED <<now, pc, since>> /\ pc[c] = "critical"
    BY <1>7, WorkLeavesLock DEF vars
  <2>2. /\ \A a \in Asset : assets'[a] <= cloud'
        /\ PendingFresh(c)' /\ DoneFresh(c)'
    BY <1>2, <1>7, <2>1, WorkFresh
  <2>3. \A d \in Client : pc'[d] = "critical" => d = c
    BY <1>3, <2>1
  <2> QED
    BY <1>2, <2>1, <2>2, <2>3
<1>8. ASSUME NEW c \in Client, SyncBegins(c)
      PROVE  /\ \A a \in Asset : assets'[a] <= cloud'
             /\ \A d \in Client : pc'[d] = "critical" =>
                  /\ now' < since'[d] + TTL
                  /\ PendingFresh(d)' /\ DoneFresh(d)'
  <2>1. /\ at' = [at EXCEPT ![c] = [Start EXCEPT !.base = cloud]]
        /\ UNCHANGED <<now, creds, cloud, assets>>
        /\ since' = [since EXCEPT ![c] = now]
        /\ pc' = [pc EXCEPT ![c] = "critical"]
    BY <1>8 DEF SyncBegins, LockGranted
  <2>2. /\ at'[c].pending = {} /\ at'[c].base = cloud /\ at'[c].todo = <<>>
        /\ at'[c].loaded = 0 /\ at'[c].trouble = {} /\ at'[c].step = "load"
    BY <1>4, <2>1 DEF Start
  <2>3. PendingFresh(c)'
    BY <1>4, <2>1, <2>2 DEF PendingFresh
  <2>4. DoneFresh(c)'
    <3>1. Len(at'[c].todo) = 0 /\ Behind(c)' = 0 /\ Len(creds) \in Nat
      <4>1. Len(at'[c].todo) = 0
        BY <2>2
      <4>2. Behind(c)' = at'[c].loaded - Len(at'[c].todo) /\ at'[c].loaded = 0
        BY <2>2 DEF Behind
      <4>3. Len(creds) \in Nat
        BY <1>4
      <4> QED
        BY <4>1, <4>2, <4>3
    <3> QED
      BY <2>1, <2>2, <3>1 DEF DoneFresh
  <2>5. now' < since'[c] + TTL
    BY <1>4, <2>1
  <2>6. \A d \in Client : d # c =>
          at'[d] = at[d] /\ since'[d] = since[d] /\ pc'[d] = pc[d]
    BY <1>4, <2>1
  <2> QED
    BY <1>2, <1>5, <2>1, <2>3, <2>4, <2>5, <2>6
<1>9. ASSUME NEW c \in Client, SyncReturns(c) \/ SyncDies(c)
      PROVE  /\ \A a \in Asset : assets'[a] <= cloud'
             /\ \A d \in Client : pc'[d] = "critical" =>
                  /\ now' < since'[d] + TTL
                  /\ PendingFresh(d)' /\ DoneFresh(d)'
  <2>1. /\ at' = [at EXCEPT ![c] = Start] /\ pc' = [pc EXCEPT ![c] = "idle"]
        /\ UNCHANGED <<now, since, creds, cloud, assets>>
    BY <1>9 DEF SyncReturns, SyncDies, Unlock, Crash
  <2>2. pc'[c] # "critical" /\ \A d \in Client : d # c =>
          at'[d] = at[d] /\ pc'[d] = pc[d]
    BY <1>4, <2>1
  <2> QED
    BY <1>2, <1>5, <2>1, <2>2
(* New rows come behind the old ones. *)
<1>10. ASSUME NEW x \in Account, save_credential(x)
       PROVE  /\ \A a \in Asset : assets'[a] <= cloud'
              /\ \A c \in Client : pc'[c] = "critical" =>
                   /\ now' < since'[c] + TTL
                   /\ PendingFresh(c)' /\ DoneFresh(c)'
  <2>1. UNCHANGED <<now, pc, since, cloud, assets, at>>
    BY <1>10 DEF save_credential, vars
  <2>2. Len(creds) \in Nat /\ Len(creds') >= Len(creds)
        /\ \A k \in 1..Len(creds) : creds'[k] = creds[k]
    <3>1. PICK r \in Row : creds' = creds \/ creds' = Append(creds, r)
      BY <1>10, SavedRow
    <3>2. Len(creds) \in Nat
      BY <1>4
    <3> QED
      BY <1>4, <3>1, <3>2, AppendProperties
  <2>3. ASSUME NEW c \in Client, pc[c] = "critical"
        PROVE  PendingFresh(c)' /\ DoneFresh(c)'
    <3>1. PendingFresh(c) /\ DoneFresh(c)
      BY <1>2, <2>3
    <3>2. Behind(c) <= Len(creds) /\ Behind(c) \in Nat /\ Behind(c)' = Behind(c)
          /\ at[c].loaded <= Len(creds)
          /\ \A i \in 1..Len(at[c].todo) : Behind(c) + i \in 1..Len(creds)
      <4>1. /\ at[c].loaded \in Nat /\ Len(at[c].todo) \in Nat
            /\ at[c].loaded <= Len(creds) /\ Len(at[c].todo) <= at[c].loaded
        BY <3>1, SyncFields DEF DoneFresh
      <4>2. Behind(c) = at[c].loaded - Len(at[c].todo) /\ Behind(c)' = Behind(c)
        BY <2>1 DEF Behind
      <4>3. Behind(c) <= Len(creds) /\ Behind(c) \in Nat
        BY <2>2, <4>1, <4>2
      <4>4. \A i \in 1..Len(at[c].todo) : Behind(c) + i \in 1..Len(creds)
        BY <2>2, <4>1, <4>2
      <4> QED
        BY <4>1, <4>2, <4>3, <4>4
    <3>3. DoneFresh(c)'
      <4>1. Len(at[c].todo) <= at[c].loaded /\ at[c].loaded <= Len(creds')
        BY <2>2, <3>1, <3>2, SyncFields DEF DoneFresh
      <4>2. \A i \in 1..Len(at[c].todo) :
              at[c].todo[i].provider = creds'[Behind(c) + i].provider
        BY <2>2, <3>1, <3>2 DEF DoneFresh
      <4>3. \A k \in 1..Behind(c) : creds'[k] = creds[k]
        BY <2>2, <3>2
      <4> QED
        BY <2>1, <3>1, <3>2, <4>1, <4>2, <4>3 DEF DoneFresh
    <3> QED
      BY <2>1, <3>1, <3>3 DEF PendingFresh
  <2> QED
    BY <1>2, <2>1, <2>3
<1>11. CASE CloudChanges
  <2>1. UNCHANGED <<now, pc, since, creds, assets, at>> /\ cloud' = cloud + 1
    BY <1>11 DEF CloudChanges, vars
  <2>2. ASSUME NEW c \in Client, pc[c] = "critical"
        PROVE  PendingFresh(c)' /\ DoneFresh(c)'
    <3>1. \A x \in at[c].pending : x[2] \in Nat
      BY SyncFields
    <3>2. PendingFresh(c) /\ DoneFresh(c) /\ at[c].base \in Nat
      BY <1>2, <2>2, SyncFields
    <3> QED
      BY <1>4, <2>1, <3>1, <3>2 DEF PendingFresh, DoneFresh, Behind
  <2>3. \A a \in Asset : assets'[a] <= cloud'
    BY <1>2, <1>4, <2>1
  <2> QED
    BY <1>2, <2>1, <2>2, <2>3
<1>12. CASE SyncClock
  <2>1. UNCHANGED <<pc, since, creds, cloud, assets, at>> /\ now' = now + 1
        /\ \A c \in Client : pc[c] = "critical" => ~(now + 1 >= since[c] + TTL)
    BY <1>12 DEF SyncClock, Clock
  <2> QED
    BY <1>2, <1>4, <1>5, <2>1
<1>13. ASSUME NEW c \in Client, SyncSkipped(c)
       PROVE  UNCHANGED <<now, pc, since, creds, cloud, assets, at>>
  BY <1>13 DEF SyncSkipped, LockNotGranted
<1>14. CASE SyncTimeOver \/ UNCHANGED syncVars
  BY <1>6, <1>14 DEF SyncTimeOver, TimeOver, syncVars, cloudVars, vars
<1> QED
  BY <1>6, <1>7, <1>8, <1>9, <1>10, <1>11, <1>12, <1>13, <1>14
     DEF SyncNext, sync_tenant

(* The parts together: types, the lock, and what is fresh. *)
LEMMA SyncFresh ==
  SyncSpec => [](SyncTypeOK /\ MutualExclusion /\ FreshInv)
<1>1. SyncInit => FreshInv
  BY DEF SyncInit, Init, FreshInv
<1> QED
  BY <1>1, SyncInitType, StepSyncType, SyncsExclude, StepFresh,
     PTL DEF SyncSpec

(* While no sync has outlived SYNC_LOCK_TTL, no listing that is older than *)
(* what the table holds is upserted over it.                               *)
THEOREM SyncsInOrder == SyncSpec => NoOlderOverNewer
<1>1. SyncTypeOK /\ MutualExclusion /\ FreshInv /\ [SyncNext]_syncVars
        => [\A a \in Asset : assets'[a] < assets[a] => overran]_syncVars
  <2> SUFFICES ASSUME SyncTypeOK, FreshInv, SyncNext, ~overran
               PROVE  \A a \in Asset : ~(assets'[a] < assets[a])
    OBVIOUS
  <2>1. \A a \in Asset : assets[a] \in Nat
    BY DEF SyncTypeOK
  <2>2. CASE UNCHANGED assets
    BY <2>1, <2>2
  <2>3. ASSUME NEW c \in Client, sync_locked(c)
        PROVE  \A a \in Asset : ~(assets'[a] < assets[a])
    <3>1. pc[c] = "critical"
      BY <2>3, WorkLeavesLock
    <3>2. PendingFresh(c) /\ DoneFresh(c) /\ \A a \in Asset : assets[a] <= cloud
      BY <3>1 DEF FreshInv
    <3>3. assets' \in [Asset -> Nat] /\ \A a \in Asset : assets'[a] >= assets[a]
      BY <2>3, <3>2, WorkFresh, WorkType
    <3> QED
      BY <2>1, <3>3
  <2> QED
    BY <2>2, <2>3 DEF SyncNext, sync_tenant, SyncBegins, SyncSkipped,
       SyncReturns, SyncDies, save_credential, CloudChanges, SyncClock,
       SyncTimeOver, cloudVars
<1> QED
  BY <1>1, SyncFresh, PTL DEF SyncSpec, NoOlderOverNewer

(* The last step of a successful sync finds all its credentials fresh. *)
LEMMA SuccessStep ==
  ASSUME SyncTypeOK, MutualExclusion, FreshInv, SyncNext, ~overran,
         NEW c \in Client,
         at[c].step # "unlock", at'[c].step = "unlock", at'[c].trouble = {}
  PROVE  \A k \in 1..at[c].loaded :
           creds[k].provider \in Known =>
             \A a \in AssetsOf(creds[k]) : assets[a] >= at[c].base
<1>1. at \in [Client -> Sync] /\ at[c] \in Sync
  BY DEF SyncTypeOK
<1>2. ASSUME NEW d \in Client, d # c PROVE ~sync_tenant(d)
  <2>1. sync_tenant(d) => at'[c] = at[c]
    BY <1>1, <1>2, WorkOnly DEF sync_tenant, SyncBegins, SyncSkipped,
       SyncReturns, SyncDies
  <2> QED
    BY <2>1
<1>3. ~(SyncBegins(c) \/ SyncSkipped(c) \/ SyncReturns(c) \/ SyncDies(c))
  BY <1>1 DEF SyncBegins, SyncSkipped, SyncReturns, SyncDies, Start
<1>4. sync_locked(c)
  BY <1>2, <1>3 DEF SyncNext, sync_tenant, save_credential, CloudChanges,
     SyncClock, SyncTimeOver, cloudVars
<1>5. ASSUME NEW step PROVE ~Fails(c, step)
  <2>1. Fails(c, step) => at'[c].trouble = at[c].trouble \cup {"error"}
    BY <1>1 DEF Fails, Sync
  <2> QED
    BY <2>1
<1>6. AllDone(c)
  <2>1. LoadCredentials(c) => at'[c].step = "next"
    BY <1>1 DEF LoadCredentials, Sync
  <2>2. SkipUnsupported(c) \/ RateLimits(c) \/ UpsertAsset(c) =>
          at'[c].step = at[c].step
    BY <1>1 DEF SkipUnsupported, RateLimits, UpsertAsset, Sync
  <2>3. RateAllows(c) => at'[c].step = "list"
    BY <1>1 DEF RateAllows, Sync
  <2>4. ListAssets(c) => at'[c].step = "upsert"
    BY <1>1 DEF ListAssets, Sync
  <2>5. AccountDone(c) => at'[c].step = "next"
    BY <1>1 DEF AccountDone, Sync
  <2> QED
    BY <1>4, <1>5, <2>1, <2>2, <2>3, <2>4, <2>5
       DEF sync_locked, LoadFails, RateFails, ListFails, UpsertFails
<1>7. /\ at[c].todo = <<>> /\ DoneFresh(c)
      /\ at[c].trouble = {}
  <2>1. at'[c].trouble = at[c].trouble
    BY <1>1, <1>6 DEF AllDone, Sync
  <2> QED
    BY <1>4, <1>6, <2>1, WorkLeavesLock DEF AllDone, FreshInv
<1>8. Behind(c) = at[c].loaded
  <2>1. Len(at[c].todo) = 0 /\ at[c].loaded \in Nat
    BY <1>7, SyncFields
  <2> QED
    BY <2>1 DEF Behind
<1> QED
  BY <1>7, <1>8 DEF DoneFresh

(* What a sync reports is true of what it leaves: an error frees the       *)
(* tenant, and a success without a skipped account has brought every asset *)
(* it was responsible for up to the state of the clouds when it began.     *)
THEOREM ReportsAreTrue == SyncSpec => Outcomes
<1>1. SyncTypeOK /\ MutualExclusion /\ FreshInv /\ [SyncNext]_syncVars =>
        [\A c \in Client :
           /\ at[c].step # "unlock" /\ at'[c].step = "unlock"
           /\ at'[c].trouble = {} /\ ~overran
           => \A k \in 1..at[c].loaded :
                creds[k].provider \in Known =>
                  \A a \in AssetsOf(creds[k]) : assets[a] >= at[c].base]_syncVars
  <2> SUFFICES ASSUME SyncTypeOK, MutualExclusion, FreshInv, SyncNext,
                      NEW c \in Client, ~overran,
                      at[c].step # "unlock", at'[c].step = "unlock",
                      at'[c].trouble = {}
               PROVE  \A k \in 1..at[c].loaded :
                        creds[k].provider \in Known =>
                          \A a \in AssetsOf(creds[k]) : assets[a] >= at[c].base
    OBVIOUS
  <2> QED
    BY SuccessStep
<1> QED
  BY <1>1, SyncFresh, SyncFreesLock, PTL DEF SyncSpec, Outcomes, SuccessIsFresh

-----------------------------------------------------------------------------
(* The cache-aside cache. *)

(* A reader that is about to fill fetched its value MaxFill ago at most,   *)
(* and before it was replaced; if it has been, the overlap was noted.      *)
FillOK(r) ==
  reader[r] = "filling" =>
    /\ got[r].v \in 1..db
    /\ got[r].at <= c_now /\ c_now <= got[r].at + MaxFill
    /\ got[r].v # db => /\ got[r].at <= replacedAt[got[r].v]
                        /\ got[r].v \in overlapped

(* A cached value has TTL at most to live.  If it was replaced, then it    *)
(* was filled MaxFill after that at most, and there is a reason why no DEL *)
(* took it away, or there is a DEL to come.                                *)
EntryOK(e) ==
  /\ e.v \in 1..db
  /\ e.expires <= c_now + CACHE_TTL
  /\ e.v # db => /\ e.expires <= replacedAt[e.v] + MaxFill + CACHE_TTL
                 /\ \/ e.v \in overlapped \cup lost
                    \/ \E w \in Writer : writer[w] = "deleting"

CacheInv ==
  /\ Cache!TypeOK
  /\ \A v \in Cache!Version : replacedAt[v] <= c_now
  /\ \A r \in Reader : FillOK(r)
  /\ \A e \in cache : EntryOK(e)

LEMMA CacheInit == ASSUME Cache!CacheAssumption, Cache!Init PROVE CacheInv
<1>1. 0 \in Cache!Version /\ 0 \in 0..CacheTime
  BY DEF Cache!CacheAssumption, Cache!Version
<1> QED BY <1>1 DEF Cache!Init, CacheInv, Cache!TypeOK, FillOK,
                    Cache!CacheAssumption

LEMMA CacheReads ==
  ASSUME Cache!CacheAssumption, CacheInv, NEW r \in Reader,
         Cache!CacheMiss(r) \/ Cache!slow_db_query(r)
  PROVE  CacheInv'
<1>1. CASE Cache!CacheMiss(r)
  <2>1. Cache!TypeOK'
    BY <1>1 DEF CacheInv, Cache!TypeOK, Cache!CacheMiss, Cache!history
  <2>2. ASSUME NEW q \in Reader PROVE FillOK(q)'
    BY <1>1 DEF CacheInv, Cache!TypeOK, FillOK, Cache!CacheMiss, Cache!history
  <2>3. ASSUME NEW e \in cache' PROVE EntryOK(e)'
    BY <1>1 DEF CacheInv, EntryOK, Cache!CacheMiss, Cache!history
  <2> QED BY <1>1, <2>1, <2>2, <2>3 DEF CacheInv, Cache!CacheMiss,
                                        Cache!history
<1>2. CASE Cache!slow_db_query(r)
  <2>1. /\ db \in Cache!Version /\ db \in Nat /\ c_now \in 0..CacheTime /\ c_now \in Nat
        /\ [v |-> db, at |-> c_now] \in [v : Cache!Version, at : 0..CacheTime]
    BY DEF CacheInv, Cache!TypeOK, Cache!Version, Cache!CacheAssumption
  <2>2. Cache!TypeOK'
    BY <1>2, <2>1 DEF CacheInv, Cache!TypeOK, Cache!slow_db_query,
                      Cache!history
  <2>3. ASSUME NEW q \in Reader PROVE FillOK(q)'
    <3>1. CASE q = r
      BY <1>2, <2>1, <3>1 DEF CacheInv, Cache!TypeOK, FillOK,
                              Cache!slow_db_query, Cache!history,
                              Cache!CacheAssumption
    <3>2. CASE q # r
      BY <1>2, <3>2 DEF CacheInv, Cache!TypeOK, FillOK, Cache!slow_db_query,
                        Cache!history
    <3> QED BY <3>1, <3>2
  <2>4. ASSUME NEW e \in cache' PROVE EntryOK(e)'
    BY <1>2 DEF CacheInv, EntryOK, Cache!slow_db_query, Cache!history
  <2> QED BY <1>2, <2>2, <2>3, <2>4 DEF CacheInv, Cache!slow_db_query,
                                        Cache!history
<1> QED BY <1>1, <1>2

LEMMA CacheFills ==
  ASSUME Cache!CacheAssumption, CacheInv, NEW r \in Reader, Cache!FillCache(r)
  PROVE  CacheInv'
<1>1. /\ reader[r] = "filling" /\ reader' = [reader EXCEPT ![r] = "idle"]
      /\ cache' = {[v |-> got[r].v, expires |-> c_now + CACHE_TTL]} \/ cache' = cache
      /\ UNCHANGED <<c_now, db, got, writer, wrote, overlapped, lost, replacedAt>>
  BY DEF Cache!FillCache, Cache!SetEx, Cache!history
<1>2. /\ FillOK(r) /\ got[r].v \in Cache!Version /\ got[r].at \in 0..CacheTime
      /\ c_now \in 0..CacheTime /\ db \in 0..MaxVersion
      /\ \A v \in Cache!Version : replacedAt[v] \in 0..CacheTime
  BY DEF CacheInv, Cache!TypeOK, Cache!Version
<1>3. /\ CACHE_TTL \in Nat /\ MaxFill \in Nat /\ CacheTime \in Nat /\ MaxVersion \in Nat
  BY DEF Cache!CacheAssumption
<1>4. [v |-> got[r].v, expires |-> c_now + CACHE_TTL] \in
        [v : Cache!Version \ {0}, expires : Nat]
  BY <1>1, <1>2, <1>3 DEF FillOK
<1>5. Cache!TypeOK'
  BY <1>1, <1>4 DEF CacheInv, Cache!TypeOK
<1>6. ASSUME NEW q \in Reader PROVE FillOK(q)'
  BY <1>1 DEF CacheInv, Cache!TypeOK, FillOK
<1>7. ASSUME NEW e \in cache' PROVE EntryOK(e)'
  <2>1. CASE e \in cache
    BY <1>1, <2>1 DEF CacheInv, EntryOK
  <2>2. CASE e = [v |-> got[r].v, expires |-> c_now + CACHE_TTL]
    <3>1. e.v \in 1..db /\ e.expires = c_now + CACHE_TTL
      BY <1>1, <1>2, <2>2 DEF FillOK
    <3>2. ASSUME e.v # db
          PROVE  /\ e.expires <= replacedAt[e.v] + MaxFill + CACHE_TTL
                 /\ e.v \in overlapped
      <4>1. /\ c_now <= got[r].at + MaxFill /\ got[r].at <= replacedAt[e.v]
            /\ e.v \in overlapped
        BY <1>1, <1>2, <2>2, <3>2 DEF FillOK
      <4> QED BY <1>2, <1>3, <2>2, <3>1, <4>1
    <3>3. e.expires <= c_now + CACHE_TTL
      BY <3>1, <1>2, <1>3
    <3> QED BY <1>1, <3>1, <3>2, <3>3 DEF EntryOK
  <2> QED BY <1>1, <2>1, <2>2
<1> QED BY <1>1, <1>5, <1>6, <1>7 DEF CacheInv

LEMMA CacheUpdates ==
  ASSUME Cache!CacheAssumption, CacheInv, NEW w \in Writer, Cache!UpdateDb(w)
  PROVE  CacheInv'
<1>1. /\ db < MaxVersion /\ db' = db + 1
      /\ wrote' = [wrote EXCEPT ![w] = db + 1]
      /\ writer' = [writer EXCEPT ![w] = "deleting"]
      /\ replacedAt' = [replacedAt EXCEPT ![db] = c_now]
      /\ overlapped \subseteq overlapped' /\ overlapped' \subseteq overlapped \cup {db}
      /\ \A r \in Reader : (reader[r] = "filling" /\ got[r].v = db) =>
                             db \in overlapped'
      /\ UNCHANGED <<c_now, cache, reader, got, lost>>
  BY DEF Cache!UpdateDb
<1>2. /\ c_now \in Nat /\ c_now \in 0..CacheTime /\ db \in Nat /\ db \in Cache!Version
      /\ db + 1 \in Cache!Version /\ CACHE_TTL \in Nat /\ MaxFill \in Nat
      /\ MaxVersion \in Nat /\ CacheTime \in Nat
  BY <1>1 DEF CacheInv, Cache!TypeOK, Cache!Version, Cache!CacheAssumption
<1>3. Cache!TypeOK'
  BY <1>1, <1>2 DEF CacheInv, Cache!TypeOK
<1>4. /\ replacedAt'[db] = c_now /\ \A v \in Cache!Version \ {db} :
                                    replacedAt'[v] = replacedAt[v]
      /\ \A v \in 1..db : v \in Cache!Version /\ v # db' /\ v \in 1..db'
      /\ writer'[w] = "deleting"
  BY <1>1, <1>2 DEF CacheInv, Cache!TypeOK, Cache!Version
<1>5. \A v \in Cache!Version : replacedAt'[v] <= c_now'
  BY <1>1, <1>2, <1>4 DEF CacheInv
<1>6. ASSUME NEW r \in Reader, reader'[r] = "filling" PROVE FillOK(r)'
  <2>1. /\ got[r].v \in 1..db /\ got[r].at <= c_now /\ c_now <= got[r].at + MaxFill
        /\ got[r].v # db => /\ got[r].at <= replacedAt[got[r].v]
                            /\ got[r].v \in overlapped
    BY <1>1, <1>6 DEF CacheInv, FillOK
  <2>2. /\ got[r].at <= replacedAt'[got[r].v] /\ got[r].v \in overlapped'
    BY <1>1, <1>4, <1>6, <2>1
  <2> QED BY <1>1, <1>4, <2>1, <2>2 DEF FillOK
<1>7. ASSUME NEW e \in cache' PROVE EntryOK(e)'
  <2>1. /\ e.v \in 1..db /\ e.expires <= c_now + CACHE_TTL /\ e.expires \in Nat
        /\ e.v # db => e.expires <= replacedAt[e.v] + MaxFill + CACHE_TTL
    BY <1>1 DEF CacheInv, EntryOK, Cache!TypeOK
  <2>2. e.expires <= replacedAt'[e.v] + MaxFill + CACHE_TTL
    <3>1. CASE e.v = db
      BY <1>2, <1>4, <2>1, <3>1
    <3>2. CASE e.v # db
      BY <1>4, <2>1, <3>2
    <3> QED BY <3>1, <3>2
  <2> QED BY <1>1, <1>4, <2>1, <2>2 DEF EntryOK
<1> QED BY <1>3, <1>5, <1>6, <1>7 DEF CacheInv, FillOK

LEMMA CacheDeletes ==
  ASSUME Cache!CacheAssumption, CacheInv, NEW w \in Writer,
         Cache!DeleteKey(w) \/ Cache!DeleteLost(w)
  PROVE  CacheInv'
<1>1. CASE Cache!DeleteKey(w)
  BY <1>1 DEF CacheInv, Cache!TypeOK, FillOK, Cache!DeleteKey, Cache!history
<1>2. CASE Cache!DeleteLost(w)
  <2>1. Cache!TypeOK'
    <3>1. 0..(db - 1) \subseteq Cache!Version
      BY DEF CacheInv, Cache!TypeOK, Cache!Version, Cache!CacheAssumption
    <3> QED BY <1>2, <3>1 DEF CacheInv, Cache!TypeOK, Cache!DeleteLost
  <2>2. ASSUME NEW r \in Reader PROVE FillOK(r)'
    BY <1>2 DEF CacheInv, FillOK, Cache!DeleteLost
  <2>3. ASSUME NEW e \in cache' PROVE EntryOK(e)'
    <3>1. EntryOK(e) /\ db \in Nat
      BY <1>2 DEF CacheInv, Cache!DeleteLost, Cache!TypeOK, Cache!Version,
                  Cache!CacheAssumption
    <3>2. e.v # db => e.v \in lost'
      BY <1>2, <3>1 DEF EntryOK, Cache!DeleteLost
    <3> QED BY <1>2, <3>1, <3>2 DEF EntryOK, Cache!DeleteLost
  <2> QED BY <1>2, <2>1, <2>2, <2>3 DEF CacheInv, Cache!DeleteLost
<1> QED BY <1>1, <1>2

LEMMA CacheClock == ASSUME Cache!CacheAssumption, CacheInv, Cache!Clock
  PROVE CacheInv'
<1>1. /\ c_now \in 0..CacheTime /\ c_now < CacheTime /\ CacheTime \in Nat /\ c_now' = c_now + 1
      /\ CACHE_TTL \in Nat /\ MaxFill \in Nat
      /\ UNCHANGED <<db, cache, reader, got, writer, wrote, overlapped, lost,
                     replacedAt>>
  BY DEF CacheInv, Cache!TypeOK, Cache!Clock, Cache!CacheAssumption,
         Cache!history
<1>2. Cache!TypeOK'
  BY <1>1 DEF CacheInv, Cache!TypeOK
<1>3. \A v \in Cache!Version : replacedAt'[v] <= c_now'
  BY <1>1 DEF CacheInv, Cache!TypeOK
<1>4. ASSUME NEW r \in Reader PROVE FillOK(r)'
  BY <1>1 DEF CacheInv, Cache!TypeOK, FillOK, Cache!Clock
<1>5. ASSUME NEW e \in cache' PROVE EntryOK(e)'
  <2>1. EntryOK(e) /\ e.expires \in Nat
    BY <1>1 DEF CacheInv, Cache!TypeOK
  <2>2. e.expires <= c_now' + CACHE_TTL
    BY <1>1, <2>1 DEF EntryOK
  <2> QED BY <1>1, <2>1, <2>2 DEF EntryOK
<1> QED BY <1>2, <1>3, <1>4, <1>5 DEF CacheInv

(* The types and the times of the cache-aside cache, for any readers,      *)
(* writers, TTL and delays.                                                *)
THEOREM CacheInvariant == ASSUME Cache!CacheAssumption PROVE Cache!Spec => []CacheInv
<1>1. ASSUME CacheInv, UNCHANGED Cache!vars PROVE CacheInv'
  BY <1>1 DEF CacheInv, Cache!TypeOK, FillOK, EntryOK, Cache!vars
<1>2. ASSUME CacheInv, [Cache!Next]_(Cache!vars) PROVE CacheInv'
  <2>1. CASE \E r \in Reader : Cache!CacheMiss(r) \/ Cache!slow_db_query(r) \/ Cache!FillCache(r)
    BY <1>2, <2>1, CacheReads, CacheFills
  <2>2. CASE \E w \in Writer : Cache!UpdateDb(w) \/ Cache!DeleteKey(w) \/ Cache!DeleteLost(w)
    BY <1>2, <2>2, CacheUpdates, CacheDeletes
  <2>3. CASE Cache!Clock
    BY <1>2, <2>3, CacheClock
  <2>4. CASE Cache!Quiet \/ UNCHANGED Cache!vars
    BY <1>1, <1>2, <2>4 DEF Cache!Quiet
  <2> QED BY <1>2, <2>1, <2>2, <2>3, <2>4 DEF Cache!Next
<1> QED BY <1>2, CacheInit, PTL DEF Cache!Spec

(* A value that was replaced is served for the TTL and the slowest fill at *)
(* most, and once the updates have returned only if a DEL was lost or a    *)
(* reader overlapped the update (StaleExplained).                          *)
THEOREM StaleValuesAreExplained ==
  ASSUME Cache!CacheAssumption PROVE Cache!Spec => []StaleExplained
<1>1. CacheInv => StaleExplained
  <2>1. SUFFICES ASSUME CacheInv, NEW e \in cache, c_now < e.expires, e.v # db
                 PROVE  /\ c_now < replacedAt[e.v] + MaxFill + CACHE_TTL
                        /\ Cache!Settled => e.v \in overlapped \cup lost
    BY DEF StaleExplained, Cache!StaleExplained, Cache!StaleBounded,
           Cache!StaleHasCause, Cache!Live, Cache!Stale
  <2>2. EntryOK(e) /\ c_now \in 0..CacheTime /\ e.expires \in Nat
        /\ e.v \in Cache!Version /\ replacedAt[e.v] \in 0..CacheTime
    BY <2>1 DEF CacheInv, Cache!TypeOK
  <2>3. c_now < replacedAt[e.v] + MaxFill + CACHE_TTL
    BY <2>1, <2>2 DEF EntryOK, Cache!CacheAssumption
  <2>4. Cache!Settled => e.v \in overlapped \cup lost
    BY <2>1, <2>2 DEF EntryOK, Cache!Settled
  <2> QED BY <2>3, <2>4
<1> QED BY <1>1, CacheInvariant, PTL

-----------------------------------------------------------------------------
(* The todo tables. *)

(* Only the holder of the advisory lock is between the check for the table *)
(* and its creation, and nobody else creates the table meanwhile.          *)
Migration ==
  /\ t_pc \in [Instance -> {"begin", "check", "missing", "ready", "get_created",
                          "write"}]
  /\ \A i \in Instance :
       /\ t_pc[i] \in {"check", "missing"} => dialect = "postgres" /\ advisory = i
       /\ t_pc[i] = "missing" => ~exists
  /\ failed = {}

(* A row is where its history is, below the next id. *)
Table ==
  /\ next_id \in Nat \ {0}
  /\ \A k \in DOMAIN rows : k \in Nat /\ k < next_id
  /\ DOMAIN meant = DOMAIN rows /\ DOMAIN creator = DOMAIN rows

(* A row that was created is read back under an id nobody else gets. *)
ReadsBack ==
  /\ id \in [Instance -> Nat]
  /\ \A i \in Instance :
       /\ t_pc[i] = "write" => dialect = "sqlite"
       /\ t_pc[i] = "get_created" =>
            /\ id[i] < next_id
            /\ id[i] \in DOMAIN rows => creator[id[i]] = i

TodoInv == Migration /\ Table /\ ReadsBack /\ Todo!FieldsStick

LEMMA TodoInit == ASSUME Todo!TodoAssumption, Todo!Init PROVE TodoInv
<1>1. DOMAIN rows = {} /\ DOMAIN meant = {} /\ DOMAIN creator = {}
  BY DEF Todo!Init
<1>2. Migration /\ ReadsBack
  BY DEF Todo!Init, Migration, ReadsBack
<1>3. Table /\ Todo!FieldsStick
  BY <1>1 DEF Todo!Init, Table, Todo!FieldsStick
<1> QED BY <1>2, <1>3 DEF TodoInv

LEMMA MigrationSteps ==
  ASSUME Todo!TodoAssumption, TodoInv, NEW i \in Instance,
         \/ Todo!LockMigration(i) \/ Todo!CheckTable(i) \/ Todo!CreateTable(i)
         \/ Todo!migrate_sqlite(i) \/ Todo!migrate_mysql(i)
  PROVE  TodoInv'
<1>1. /\ UNCHANGED <<dialect, rows, next_id, meant, creator, raced, id>>
      /\ t_pc[i] \in {"begin", "check", "missing"}
      /\ \/ t_pc' = [t_pc EXCEPT ![i] = "check"]
         \/ t_pc' = [t_pc EXCEPT ![i] = "missing"]
         \/ t_pc' = [t_pc EXCEPT ![i] = "ready"]
  BY DEF Todo!LockMigration, Todo!CheckTable, Todo!CreateTable,
         Todo!migrate_sqlite, Todo!migrate_mysql,
         Todo!MigrateAtOnce, Todo!table, Todo!request
<1>2. Migration'
  <2>1. CASE Todo!LockMigration(i)
    BY <2>1 DEF Todo!LockMigration, TodoInv, Migration, Todo!TodoAssumption
  <2>2. CASE Todo!CheckTable(i)
    BY <2>2 DEF Todo!CheckTable, TodoInv, Migration, Todo!TodoAssumption
  <2>3. CASE Todo!CreateTable(i)
    BY <2>3 DEF Todo!CreateTable, TodoInv, Migration, Todo!TodoAssumption
  <2>4. CASE Todo!migrate_sqlite(i) \/ Todo!migrate_mysql(i)
    BY <2>4 DEF Todo!migrate_sqlite, Todo!migrate_mysql, Todo!MigrateAtOnce,
                TodoInv, Migration
  <2> QED BY <2>1, <2>2, <2>3, <2>4
<1>3. Table' /\ Todo!FieldsStick'
  BY <1>1 DEF TodoInv, Table, Todo!FieldsStick
<1>4. ReadsBack'
  BY <1>1 DEF TodoInv, Migration, ReadsBack
<1> QED BY <1>2, <1>3, <1>4 DEF TodoInv

LEMMA CreateStep ==
  ASSUME TodoInv, NEW i \in Instance, NEW t \in Title, Todo!create(i, t)
  PROVE  TodoInv'
<1> DEFINE new == [title |-> t, done |-> FALSE]
           fresh == next_id
<1> HIDE DEF new
<1>1. /\ t_pc[i] = "ready"
      /\ rows' = [j \in DOMAIN rows \cup {fresh} |-> IF j = fresh THEN new ELSE rows[j]]
      /\ meant' = [j \in DOMAIN meant \cup {fresh} |-> IF j = fresh THEN new ELSE meant[j]]
      /\ creator' = [j \in DOMAIN creator \cup {fresh} |->
                      IF j = fresh THEN i ELSE creator[j]]
      /\ next_id' = fresh + 1
      /\ \/ /\ dialect = "sqlite" /\ id' = [id EXCEPT ![i] = fresh]
            /\ t_pc' = [t_pc EXCEPT ![i] = "get_created"]
         \/ UNCHANGED <<t_pc, id>>
      /\ UNCHANGED <<dialect, exists, advisory, failed, raced>>
  BY DEF Todo!create, Todo!NewId, Todo!With, Todo!migrated, new
<1>2. fresh \in Nat \ {0} /\ fresh \notin DOMAIN rows
  BY DEF TodoInv, Table
<1>3. Migration'
  BY <1>1 DEF TodoInv, Migration
<1>4. Table'
  <2>1. /\ DOMAIN rows' = DOMAIN rows \cup {fresh}
        /\ DOMAIN meant' = DOMAIN meant \cup {fresh}
        /\ DOMAIN creator' = DOMAIN creator \cup {fresh}
    BY <1>1
  <2>2. fresh + 1 \in Nat \ {0} /\ \A k \in DOMAIN rows : k \in Nat /\ k < fresh
    BY <1>2 DEF TodoInv, Table
  <2>3. \A k \in DOMAIN rows' : k \in Nat /\ k < fresh + 1
    BY <1>2, <2>1, <2>2
  <2> QED BY <1>1, <2>1, <2>2, <2>3 DEF TodoInv, Table
<1>5. \A k \in DOMAIN rows : /\ k # fresh /\ rows'[k] = rows[k]
                             /\ meant'[k] = meant[k] /\ creator'[k] = creator[k]
  BY <1>1, <1>2 DEF TodoInv, Table
<1>6. ReadsBack'
  <2>1. id' \in [Instance -> Nat]
    BY <1>1, <1>2 DEF TodoInv, ReadsBack
  <2>2. ASSUME NEW j \in Instance, t_pc'[j] = "get_created"
        PROVE  id'[j] < next_id' /\ (id'[j] \in DOMAIN rows' => creator'[id'[j]] = j)
    <3>1. CASE t_pc' = [t_pc EXCEPT ![i] = "get_created"] /\ j = i
               /\ id' = [id EXCEPT ![i] = fresh]
      <4>1. fresh < next_id'
        <5>1. fresh \in Nat /\ next_id' = fresh + 1
          BY <1>1, <1>2
        <5> HIDE DEF fresh
        <5> QED BY <5>1
      <4>2. id'[j] = fresh
        BY <3>1 DEF TodoInv, ReadsBack
      <4>3. creator'[fresh] = i
        BY <1>1
      <4> QED BY <3>1, <4>1, <4>2, <4>3
    <3>2. CASE t_pc'[j] = t_pc[j] /\ id'[j] = id[j]
      <4>1. id[j] < fresh /\ (id[j] \in DOMAIN rows => creator[id[j]] = j)
            /\ id[j] \in Nat
        BY <2>2, <3>2 DEF TodoInv, ReadsBack
      <4>2. id[j] < next_id' /\ id[j] # fresh
        <5>1. id[j] \in Nat /\ fresh \in Nat /\ id[j] < fresh /\ next_id' = fresh + 1
          BY <1>1, <1>2, <4>1
        <5> HIDE DEF fresh
        <5> QED BY <5>1
      <4>3. id[j] \in DOMAIN rows' => id[j] \in DOMAIN rows
        BY <1>1, <4>2
      <4> QED BY <1>5, <3>2, <4>1, <4>2, <4>3
    <3>3. \/ t_pc' = [t_pc EXCEPT ![i] = "get_created"] /\ j = i
             /\ id' = [id EXCEPT ![i] = fresh]
          \/ t_pc'[j] = t_pc[j] /\ id'[j] = id[j]
      BY <1>1 DEF TodoInv, Migration, ReadsBack
    <3> QED BY <3>1, <3>2, <3>3
  <2>3. ASSUME NEW j \in Instance, t_pc'[j] = "write" PROVE dialect' = "sqlite"
    BY <1>1, <2>3 DEF TodoInv, Migration, ReadsBack
  <2> QED BY <2>1, <2>2, <2>3 DEF ReadsBack
<1>7. Todo!FieldsStick'
  <2>1. ASSUME NEW k \in DOMAIN rows'
        PROVE  rows'[k] = meant'[k] \/ (dialect' = "sqlite" /\ k \in raced')
    <3>1. CASE k = fresh
      BY <1>1, <3>1
    <3>2. CASE k # fresh
      BY <1>1, <1>5, <3>2 DEF TodoInv, Todo!FieldsStick
    <3> QED BY <3>1, <3>2
  <2> QED BY <2>1 DEF Todo!FieldsStick
<1> QED BY <1>3, <1>4, <1>6, <1>7 DEF TodoInv

(* A request ends: what it read and wrote is forgotten. *)
LEMMA DoneStep ==
  ASSUME Migration, ReadsBack, NEW i \in Instance,
         t_pc[i] \in {"get_created", "write"}, Todo!Done(i),
         DOMAIN rows' = DOMAIN rows,
         UNCHANGED <<dialect, exists, advisory, failed, next_id, creator>>
  PROVE  Migration' /\ ReadsBack'
  BY DEF Migration, ReadsBack, Todo!Done

LEMMA GetCreatedStep ==
  ASSUME TodoInv, NEW i \in Instance, Todo!GetCreated(i) PROVE TodoInv'
<1>1. /\ t_pc[i] = "get_created" /\ Todo!Done(i)
      /\ UNCHANGED <<dialect, exists, advisory, failed, rows, next_id, meant,
                     creator, raced>>
  BY DEF Todo!GetCreated, Todo!migrated, Todo!table
<1>2. Migration' /\ ReadsBack'
  BY <1>1, DoneStep DEF TodoInv
<1>3. Table' /\ Todo!FieldsStick'
  BY <1>1 DEF TodoInv, Table, Todo!FieldsStick
<1> QED BY <1>2, <1>3 DEF TodoInv

LEMMA GetCurrentStep ==
  ASSUME Todo!TodoAssumption, TodoInv, NEW i \in Instance, NEW k \in Todo!Id,
         NEW p \in Todo!Patch,
         Todo!GetCurrent(i, k, p)
  PROVE  TodoInv'
<1>1. /\ dialect = "sqlite" /\ t_pc[i] = "ready"
      /\ id' = [id EXCEPT ![i] = k] /\ t_pc' = [t_pc EXCEPT ![i] = "write"]
      /\ UNCHANGED <<dialect, exists, advisory, failed, rows, next_id, meant,
                     creator, raced>>
  BY DEF Todo!GetCurrent, Todo!migrated, Todo!table
<1>2. k \in Nat
  BY DEF Todo!Id, Todo!TodoAssumption
<1>3. Migration'
  BY <1>1 DEF TodoInv, Migration
<1>4. ReadsBack'
  BY <1>1, <1>2 DEF TodoInv, Migration, ReadsBack
<1>5. Table' /\ Todo!FieldsStick'
  BY <1>1 DEF TodoInv, Table, Todo!FieldsStick
<1> QED BY <1>3, <1>4, <1>5 DEF TodoInv

(* A field that was not sent keeps the value of the row that was read.     *)
LEMMA WriteMergedStep ==
  ASSUME TodoInv, NEW i \in Instance, Todo!WriteMerged(i) PROVE TodoInv'
<1> DEFINE k == id[i]
<1>1. /\ t_pc[i] = "write" /\ Todo!Done(i) /\ dialect = "sqlite"
      /\ UNCHANGED <<dialect, exists, advisory, failed, next_id, creator>>
  BY DEF Todo!WriteMerged, Todo!migrated, TodoInv, ReadsBack
<1>2. CASE k \notin DOMAIN rows
  <2>1. UNCHANGED <<rows, meant, raced>>
    BY <1>2 DEF Todo!WriteMerged
  <2>2. Migration' /\ ReadsBack'
    BY <1>1, <2>1, DoneStep DEF TodoInv
  <2>3. Table' /\ Todo!FieldsStick'
    BY <1>1, <2>1 DEF TodoInv, Table, Todo!FieldsStick
  <2> QED BY <2>2, <2>3 DEF TodoInv
<1>3. CASE k \in DOMAIN rows
  <2>1. /\ rows' = [rows EXCEPT ![k] = Todo!Merge(patch[i], current[i])]
        /\ meant' = [meant EXCEPT ![k] = Todo!Merge(patch[i], meant[k])]
        /\ raced' = IF rows[k] = current[i] THEN raced ELSE raced \cup {k}
    BY <1>3 DEF Todo!WriteMerged
  <2>2. DOMAIN rows' = DOMAIN rows /\ DOMAIN meant' = DOMAIN meant
    BY <2>1
  <2>3. Migration' /\ ReadsBack'
    BY <1>1, <2>2, DoneStep DEF TodoInv
  <2>4. Table'
    BY <1>1, <2>2 DEF TodoInv, Table
  <2>5. ASSUME NEW j \in DOMAIN rows
        PROVE  rows'[j] = meant'[j] \/ j \in raced'
    <3>1. rows[j] = meant[j] \/ j \in raced
      BY DEF TodoInv, Todo!FieldsStick
    <3>2. CASE j # k
      BY <2>1, <3>1, <3>2 DEF TodoInv, Table
    <3>3. CASE j = k
      <4>1. /\ rows'[k] = Todo!Merge(patch[i], current[i])
            /\ meant'[k] = Todo!Merge(patch[i], meant[k])
        BY <1>3, <2>1 DEF TodoInv, Table
      <4>2. rows[k] = current[i] /\ rows[k] = meant[k] =>
              Todo!Merge(patch[i], current[i]) = Todo!Merge(patch[i], meant[k])
        OBVIOUS
      <4> QED BY <2>1, <3>1, <3>3, <4>1, <4>2
    <3> QED BY <3>2, <3>3
  <2>6. Todo!FieldsStick'
    BY <1>1, <2>2, <2>5 DEF Todo!FieldsStick
  <2> QED BY <2>3, <2>4, <2>6 DEF TodoInv
<1> QED BY <1>2, <1>3

(* One statement changes one row, and what was asked for it alike. *)
LEMMA OneRowStep ==
  ASSUME TodoInv, NEW i \in Instance, NEW k \in DOMAIN rows,
         rows[k] = meant[k],
         NEW v, rows' = [rows EXCEPT ![k] = v], meant' = [meant EXCEPT ![k] = v],
         UNCHANGED <<dialect, exists, advisory, failed, next_id, t_pc, id, creator,
                     raced>>
  PROVE  TodoInv'
<1>1. DOMAIN rows' = DOMAIN rows /\ DOMAIN meant' = DOMAIN meant
  OBVIOUS
<1>2. Migration' /\ Table' /\ ReadsBack'
  BY <1>1 DEF TodoInv, Migration, Table, ReadsBack
<1>3. Todo!FieldsStick'
  BY <1>1 DEF TodoInv, Table, Todo!FieldsStick
<1> QED BY <1>2, <1>3 DEF TodoInv

LEMMA UpdateStep ==
  ASSUME TodoInv, NEW i \in Instance, NEW k \in Todo!Id,
         \/ \E p \in Todo!Patch : Todo!update(i, k, p)
         \/ \E d \in BOOLEAN : Todo!set_done(i, k, d)
  PROVE  TodoInv'
<1>1. k \in DOMAIN rows /\ dialect # "sqlite"
  BY DEF Todo!update, Todo!set_done
<1>2. rows[k] = meant[k]
  BY <1>1 DEF TodoInv, Todo!FieldsStick
<1>3. UNCHANGED <<dialect, exists, advisory, failed, next_id, t_pc, id, creator,
                  raced>>
  BY DEF Todo!update, Todo!set_done, Todo!migrated, Todo!request
<1>4. CASE \E p \in Todo!Patch : Todo!update(i, k, p)
  <2>1. PICK p \in Todo!Patch : /\ rows' = [rows EXCEPT ![k] = Todo!Merge(p, rows[k])]
                           /\ meant' = [meant EXCEPT ![k] = Todo!Merge(p, meant[k])]
    BY <1>4 DEF Todo!update
  <2> DEFINE v == Todo!Merge(p, rows[k])
  <2>2. rows' = [rows EXCEPT ![k] = v] /\ meant' = [meant EXCEPT ![k] = v]
    BY <1>2, <2>1
  <2> HIDE DEF v
  <2> QED BY <1>1, <1>2, <1>3, <2>2, OneRowStep
<1>5. CASE \E d \in BOOLEAN : Todo!set_done(i, k, d)
  <2>1. PICK d \in BOOLEAN : /\ rows' = [rows EXCEPT ![k].done = d]
                             /\ meant' = [meant EXCEPT ![k].done = d]
    BY <1>5 DEF Todo!set_done
  <2> DEFINE v == [rows[k] EXCEPT !.done = d]
  <2>2. rows' = [rows EXCEPT ![k] = v] /\ meant' = [meant EXCEPT ![k] = v]
    BY <1>2, <2>1
  <2> HIDE DEF v
  <2> QED BY <1>1, <1>2, <1>3, <2>2, OneRowStep
<1> QED BY <1>4, <1>5

LEMMA DeleteStep ==
  ASSUME TodoInv, NEW i \in Instance, NEW k \in Todo!Id, NEW d, Todo!Delete(i, k, d)
  PROVE  TodoInv'
<1>1. /\ rows' = [j \in DOMAIN rows \ {k} |-> rows[j]]
      /\ meant' = [j \in DOMAIN rows \ {k} |-> meant[j]]
      /\ creator' = [j \in DOMAIN rows \ {k} |-> creator[j]]
      /\ raced' = raced \ {k}
      /\ UNCHANGED <<dialect, exists, advisory, failed, next_id, t_pc, id>>
  BY DEF Todo!Delete, Todo!migrated, Todo!request
<1>2. Migration' /\ Table'
  BY <1>1 DEF TodoInv, Migration, Table
<1>3. ReadsBack'
  BY <1>1 DEF TodoInv, ReadsBack
<1>4. Todo!FieldsStick'
  BY <1>1 DEF TodoInv, Todo!FieldsStick
<1> QED BY <1>2, <1>3, <1>4 DEF TodoInv

(* The state of the todo services on each database, for any instances and  *)
(* requests.                                                               *)
THEOREM TodoInvariant == ASSUME Todo!TodoAssumption PROVE Todo!Spec => []TodoInv
<1>1. ASSUME TodoInv, UNCHANGED Todo!vars PROVE TodoInv'
  BY <1>1 DEF TodoInv, Migration, Table, ReadsBack, Todo!FieldsStick, Todo!vars
<1>2. ASSUME TodoInv, Todo!Next PROVE TodoInv'
  <2>1. PICK i \in Instance :
          \/ Todo!LockMigration(i) \/ Todo!CheckTable(i) \/ Todo!CreateTable(i)
          \/ Todo!migrate_sqlite(i) \/ Todo!migrate_mysql(i)
          \/ Todo!GetCreated(i) \/ Todo!WriteMerged(i)
          \/ \E t \in Title : Todo!create(i, t)
          \/ \E k \in Todo!Id :
               \/ \E d : Todo!Delete(i, k, d)
               \/ \E p \in Todo!Patch : Todo!update(i, k, p) \/ Todo!GetCurrent(i, k, p)
               \/ \E d \in BOOLEAN : Todo!set_done(i, k, d)
    BY <1>2 DEF Todo!Next, Todo!delete, Todo!delete_todo, Todo!delete_sqlite
  <2> QED BY <1>2, <2>1, MigrationSteps, CreateStep, GetCreatedStep,
             GetCurrentStep, WriteMergedStep, UpdateStep, DeleteStep
<1> QED BY <1>1, <1>2, TodoInit, PTL DEF Todo!Spec

(* Instances on one database migrate together, a create answers its own    *)
(* row, and what a request set in a field sticks, but for the SQLite PATCH *)
(* that wrote over a row changed since its read (CrudSound).               *)
THEOREM RequestsDoNotMix == ASSUME Todo!TodoAssumption PROVE Todo!Spec => []CrudSound
<1>1. TodoInv => CrudSound
  BY DEF TodoInv, CrudSound, Todo!CrudSound, Todo!FieldsStick,
         Todo!AnswersOwnRow, Todo!Answer, ReadsBack,
         Todo!AllStart, Migration
<1> QED BY <1>1, TodoInvariant, PTL

-----------------------------------------------------------------------------
(* The cluster of the scheduler's demo. *)

Loops == {"new", "select", "trying", "ticking", "stopped"}

DemoTypes ==
  /\ d_lock \in [RunKey -> SUBSET Demo!Token]
  /\ d_jobRuns \in [RunKey -> SUBSET Caller]
  /\ d_pc \in [Caller -> Demo!Steps]
  /\ d_key \in [Caller -> RunKey]
  /\ d_seq \in [Caller -> 0..MaxCalls]
  /\ d_outcome \in [Caller -> Demo!Outcomes]
  /\ d_runs \in [RunKey -> Nat]
  /\ d_hurt \subseteq RunKey
  /\ d_now \in 0..LastTime
  /\ d_loop \in [Caller -> Loops]
  /\ triggered \subseteq RunKey

(* An instance is at a trigger from its tick to the end of its call; a     *)
(* task that has been joined is at none.                                   *)
At(c, k) == d_key[c] = k /\ (d_loop[c] = "trying" \/ d_pc[c] # "idle")

Tasks ==
  /\ \A c \in Caller :
       /\ d_pc[c] # "idle" => d_loop[c] = "ticking"
       /\ (d_loop[c] = "trying" \/ d_pc[c] # "idle") => d_key[c] \in triggered
       /\ main \in {"counting", "done", "failed"} => d_loop[c] = "stopped"
  /\ \A k \in RunKey : d_jobRuns[k] # {} => k \in triggered

(* In a trigger no call of which failed, a row means that the business has *)
(* run or is about to; a lock, or a tick, that it has run or that somebody *)
(* is at it; and nobody unlocks before there is a row.                     *)
KeptAt(k) ==
  /\ Demo!RowMeansRun(k) /\ Demo!UnlocksAfterRow(k)
  /\ d_lock[k] # Demo!Absent => d_runs[k] = 1 \/ \E d \in Caller : Demo!Active(d, k)
  /\ k \in triggered => d_runs[k] = 1 \/ \E d \in Caller : At(d, k)

Counted ==
  main = "done" => d_n = Demo!Cardinality({k \in RunKey : d_jobRuns[k] # {}})

DemoInv ==
  /\ DemoTypes /\ Demo!OnceInv /\ Tasks /\ Counted
  /\ \A k \in RunKey \ d_hurt : KeptAt(k)

LEMMA DemoInitInv == ASSUME Demo!DemoAssumption, Demo!DemoInit PROVE DemoInv
<1>0. 0 \in RunKey
  <2>1. 0 \div PERIOD = 0 /\ 0 \in 0..LastTime
    BY DEF Demo!DemoAssumption
  <2> QED BY <2>1 DEF Demo!DemoAssumption
<1>1. DemoTypes
  BY <1>0 DEF Demo!DemoInit, Demo!Init, DemoTypes, Demo!DemoAssumption,
              Demo!Steps, Demo!Outcomes, Demo!Absent,
         Loops
<1>2. Demo!OnceInv /\ Tasks /\ Counted
  BY DEF Demo!DemoInit, Demo!Init, Demo!OnceInv, Demo!AtMostOnce,
         Demo!RunIsRecorded, Tasks, Counted
<1>3. ASSUME NEW k \in RunKey PROVE KeptAt(k)
  BY DEF Demo!DemoInit, Demo!Init, KeptAt, Demo!RowMeansRun,
         Demo!UnlocksAfterRow
<1> QED BY <1>1, <1>2, <1>3 DEF DemoInv

(* A step of the loop of one instance that leaves the two stores, and the  *)
(* triggers at work, alone.                                                *)
LEMMA LoopStep ==
  ASSUME DemoInv, NEW c \in Caller, NEW s \in Loops \ {"trying", "ticking"},
         d_loop[c] # "trying", d_pc[c] = "idle", Demo!Set(c, s),
         main \in {"counting", "done", "failed"} => s = "stopped",
         UNCHANGED <<Demo!vars, d_now, shutdown, main, d_n, triggered>>
  PROVE  DemoInv'
<1>1. /\ UNCHANGED <<d_lock, d_jobRuns, d_pc, d_key, d_seq, d_outcome, d_runs, d_hurt, d_now, main,
                     d_n, triggered>>
      /\ d_loop' = [d_loop EXCEPT ![c] = s] /\ d_loop' \in [Caller -> Loops]
  BY DEF Demo!vars, Demo!Set, DemoInv, DemoTypes
<1>2. DemoTypes' /\ Demo!OnceInv' /\ Counted'
  BY <1>1 DEF DemoInv, DemoTypes, Counted, Demo!OnceInv, Demo!AtMostOnce,
              Demo!RunIsRecorded
<1>3. \A d \in Caller : d_loop'[d] = IF d = c THEN s ELSE d_loop[d]
  BY <1>1 DEF DemoInv, DemoTypes
<1>4. Tasks'
  BY <1>1, <1>3 DEF DemoInv, Tasks
<1>5. ASSUME NEW k \in RunKey \ d_hurt PROVE KeptAt(k)'
  <2>1. KeptAt(k) /\ \A d \in Caller : At(d, k)' <=> At(d, k)
    BY <1>1, <1>3 DEF DemoInv, At
  <2> QED BY <1>1, <2>1 DEF KeptAt, Demo!RowMeansRun, Demo!UnlocksAfterRow,
                            Demo!Active
<1> QED BY <1>1, <1>2, <1>4, <1>5 DEF DemoInv

LEMMA TickFiresStep ==
  ASSUME Demo!DemoAssumption, DemoInv, NEW c \in Caller, Demo!TickFires(c)
  PROVE DemoInv'
<1> DEFINE b == Demo!bucket_run_key(d_now)
<1>1. b \in RunKey
  <2>1. d_now \in 0..LastTime
    BY DEF DemoInv, DemoTypes
  <2>2. d_now \div PERIOD \in {t \div PERIOD : t \in 0..LastTime}
    BY <2>1
  <2> QED BY <2>2 DEF Demo!DemoAssumption, Demo!bucket_run_key
<1> HIDE DEF b
<1>2. /\ d_loop[c] = "select" /\ d_loop' = [d_loop EXCEPT ![c] = "trying"]
      /\ d_key' = [d_key EXCEPT ![c] = b] /\ triggered' = triggered \cup {b}
      /\ UNCHANGED <<d_lock, d_jobRuns, d_pc, d_seq, d_outcome, d_runs, d_hurt, d_now, main, d_n>>
  BY DEF Demo!TickFires, Demo!Set, b
<1>3. DemoTypes'
  BY <1>1, <1>2 DEF DemoInv, DemoTypes, Loops
<1>4. /\ d_pc[c] = "idle" /\ main \notin {"counting", "done", "failed"}
      /\ \A d \in Caller \ {c} : d_key'[d] = d_key[d] /\ d_loop'[d] = d_loop[d]
      /\ d_key'[c] = b /\ d_loop'[c] = "trying"
  BY <1>2 DEF DemoInv, DemoTypes, Tasks
<1>5. Demo!OnceInv' /\ Counted'
  BY <1>2, <1>4 DEF DemoInv, DemoTypes, Demo!OnceInv, Demo!AtMostOnce,
                    Demo!RunIsRecorded, Counted
<1>6. Tasks'
  BY <1>2, <1>4 DEF DemoInv, Tasks
<1>7. ASSUME NEW k \in RunKey \ d_hurt PROVE KeptAt(k)'
  <2>1. KeptAt(k)
    BY DEF DemoInv
  <2>2. \A d \in Caller : (At(d, k) => At(d, k)') /\ (Demo!Active(d, k)' <=> Demo!Active(d, k))
    BY <1>2, <1>4 DEF At, Demo!Active
  <2>3. k \in triggered' \ triggered => At(c, k)'
    BY <1>2, <1>4 DEF At
  <2>4. Demo!RowMeansRun(k)' /\ Demo!UnlocksAfterRow(k)'
    BY <1>2, <1>4, <2>1 DEF KeptAt, Demo!RowMeansRun, Demo!UnlocksAfterRow
  <2> QED BY <1>2, <2>1, <2>2, <2>3, <2>4 DEF KeptAt
<1> QED BY <1>2, <1>3, <1>5, <1>6, <1>7 DEF DemoInv

LEMMA TriesStep ==
  ASSUME Demo!DemoAssumption, DemoInv, NEW c \in Caller, Demo!Tries(c)
  PROVE DemoInv'
<1> DEFINE k == d_key[c]
<1>1. /\ d_loop[c] = "trying" /\ d_pc[c] = "idle" /\ d_seq[c] < MaxCalls
      /\ d_seq' = [d_seq EXCEPT ![c] = @ + 1] /\ d_key' = [d_key EXCEPT ![c] = k]
      /\ d_loop' = [d_loop EXCEPT ![c] = "ticking"]
      /\ UNCHANGED <<d_jobRuns, d_runs, d_now, main, d_n, triggered>>
      /\ \/ /\ d_lock[k] = Demo!Absent /\ d_lock' = [d_lock EXCEPT ![k] = {<<c, d_seq[c] + 1>>}]
            /\ d_pc' = [d_pc EXCEPT ![c] = "recording"]
            /\ d_outcome' = [d_outcome EXCEPT ![c] = "none"] /\ d_hurt' = d_hurt
         \/ /\ d_lock[k] # Demo!Absent /\ d_lock' = d_lock
            /\ d_pc' = [d_pc EXCEPT ![c] = "idle"]
            /\ d_outcome' = [d_outcome EXCEPT ![c] = "SkippedNoLock"]
            /\ d_hurt' = d_hurt
         \/ /\ d_lock' \in {d_lock, [d_lock EXCEPT ![k] = {<<c, d_seq[c] + 1>>}]}
            /\ d_pc' = [d_pc EXCEPT ![c] = "idle"]
            /\ d_outcome' = [d_outcome EXCEPT ![c] = "Err"] /\ d_hurt' = d_hurt \cup {k}
  BY DEF Demo!Tries, Demo!Set, Demo!TryLockGranted, Demo!TryLockRefused,
         Demo!TryLockFails, Demo!NewCall, Demo!Goto,
         Demo!SetNx, Demo!SetNxSucceeds
<1>2. /\ k \in triggered /\ k \in RunKey
      /\ main \notin {"counting", "done", "failed"}
  BY <1>1 DEF DemoInv, DemoTypes, Tasks
<1>3. <<c, d_seq[c] + 1>> \in Demo!Token /\ d_seq[c] + 1 \in 0..MaxCalls
  BY <1>1 DEF DemoInv, DemoTypes, Demo!Token, Demo!DemoAssumption
<1>4. d_key' = d_key
  BY <1>1 DEF DemoInv, DemoTypes
<1>5. DemoTypes'
  <2>1. /\ d_loop' \in [Caller -> Loops] /\ d_seq' \in [Caller -> 0..MaxCalls]
        /\ d_pc' \in [Caller -> Demo!Steps] /\ d_outcome' \in [Caller -> Demo!Outcomes]
        /\ d_hurt' \subseteq RunKey
    BY <1>1, <1>2, <1>3 DEF DemoInv, DemoTypes, Loops, Demo!Steps,
                            Demo!Outcomes
  <2>2. d_lock' \in [RunKey -> SUBSET Demo!Token]
    BY <1>1, <1>2, <1>3 DEF DemoInv, DemoTypes
  <2> QED BY <1>1, <1>4, <2>1, <2>2 DEF DemoInv, DemoTypes
<1>6. /\ \A d \in Caller \ {c} : d_pc'[d] = d_pc[d] /\ d_loop'[d] = d_loop[d]
      /\ d_pc'[c] \in {"recording", "idle"} /\ d_loop'[c] = "ticking"
      /\ d_hurt \subseteq d_hurt' /\ (k \in d_hurt' \/ d_hurt' = d_hurt)
  BY <1>1 DEF DemoInv, DemoTypes
<1>7. Demo!OnceInv' /\ Counted'
  BY <1>1, <1>4, <1>6, <1>2
     DEF DemoInv, Demo!OnceInv, Demo!AtMostOnce, Demo!RunIsRecorded, Counted
<1>8. Tasks'
  BY <1>1, <1>2, <1>4, <1>6 DEF DemoInv, Tasks
<1>9. ASSUME NEW j \in RunKey \ d_hurt' PROVE KeptAt(j)'
  <2>1. KeptAt(j)
    BY <1>6 DEF DemoInv
  <2>2. Demo!RowMeansRun(j)' /\ Demo!UnlocksAfterRow(j)'
    <3>1. \A d \in Caller : /\ d_pc'[d] = "unlocking" <=> d_pc[d] = "unlocking"
                            /\ d_pc'[d] = "ready" <=> d_pc[d] = "ready"
      BY <1>1, <1>6
    <3> QED BY <1>1, <1>4, <2>1, <3>1 DEF KeptAt, Demo!RowMeansRun,
                                          Demo!UnlocksAfterRow
  <2>3. ASSUME NEW d \in Caller, Demo!Active(d, j) PROVE Demo!Active(d, j)' /\ At(d, j)'
    BY <1>1, <1>4, <1>6, <2>3 DEF Demo!Active, At
  <2>4. CASE j # k
    <3>1. d_lock'[j] = d_lock[j]
      BY <1>1, <1>2, <2>4 DEF DemoInv, DemoTypes
    <3>2. \A d \in Caller : At(d, j) => At(d, j)'
      BY <1>1, <1>4, <1>6, <2>4 DEF At
    <3> QED BY <1>1, <2>1, <2>2, <2>3, <3>1, <3>2 DEF KeptAt
  <2>5. CASE j = k
    <3>1. d_hurt' = d_hurt
      BY <1>6, <2>5
    <3>2. CASE d_lock[k] # Demo!Absent
      <4>1. d_runs[j] = 1 \/ \E d \in Caller : Demo!Active(d, j)
        BY <2>1, <2>5, <3>2 DEF KeptAt
      <4> QED BY <1>1, <2>2, <2>3, <4>1 DEF KeptAt
    <3>3. CASE d_lock[k] = Demo!Absent
      <4>1. d_pc' = [d_pc EXCEPT ![c] = "recording"]
        BY <1>1, <1>6, <2>5, <3>3
      <4>2. Demo!Active(c, j)' /\ At(c, j)'
        BY <1>4, <2>5, <4>1 DEF DemoInv, DemoTypes, Demo!Active, At
      <4> QED BY <2>2, <4>2 DEF KeptAt
    <3> QED BY <3>2, <3>3
  <2> QED BY <2>4, <2>5
<1> QED BY <1>5, <1>7, <1>8, <1>9 DEF DemoInv

(* Nothing ran without its row, and who is about to run has one. *)
LEMMA UnrecordedIsUnrun ==
  ASSUME DemoInv, NEW k \in RunKey, d_jobRuns[k] = {}
  PROVE  /\ d_runs[k] = 0
         /\ \A d \in Caller : d_pc[d] \in {"ready", "running"} => d_key[d] # k
<1>1. d_runs[k] \in Nat /\ ~(d_runs[k] > 0)
  BY DEF DemoInv, DemoTypes, Demo!OnceInv, Demo!RunIsRecorded
<1>2. d_runs[k] = 0
  BY <1>1
<1>3. ASSUME NEW d \in Caller, d_pc[d] \in {"ready", "running"} PROVE d_key[d] # k
  <2>1. d_jobRuns[d_key[d]] = {d}
    BY <1>3 DEF DemoInv, Demo!OnceInv, Demo!RunIsRecorded
  <2> QED BY <2>1
<1> QED BY <1>2, <1>3

(* The calls of guarded_tick under way, and what becomes of the trigger of *)
(* the one that moves; the others, and their triggers, are left alone.     *)
LEMMA WorksStep ==
  ASSUME DemoInv, NEW c \in Caller, Demo!Works(c) PROVE DemoInv'
<1>0. PICK k \in RunKey : k = d_key[c]
  BY DEF DemoInv, DemoTypes
<1>1. /\ UNCHANGED <<d_key, d_seq, d_now, d_loop, main, d_n, triggered>>
      /\ d_pc[c] \in {"recording", "ready", "running", "unlocking"}
  BY DEF Demo!Works, Demo!demo, Demo!Proceed, Demo!RecordRun,
         Demo!RecordInserted, Demo!RecordConflict,
         Demo!RecordFails, Demo!BusinessStarts, Demo!BusinessReturns,
         Demo!Unlock
<1>2. /\ k \in triggered /\ k \in RunKey /\ d_loop[c] = "ticking"
      /\ k = d_key[c] /\ main \notin {"counting", "done", "failed"}
  BY <1>0, <1>1 DEF DemoInv, DemoTypes, Tasks
<1>3. ASSUME NEW s \in Demo!Steps, NEW o \in Demo!Outcomes, Demo!Goto(c, s, o)
      PROVE  /\ d_pc' \in [Caller -> Demo!Steps] /\ d_outcome' \in [Caller -> Demo!Outcomes]
             /\ d_pc'[c] = s /\ \A d \in Caller \ {c} : d_pc'[d] = d_pc[d]
             /\ \A d \in Caller, j \in RunKey \ {k} :
                  /\ Demo!Active(d, j)' <=> Demo!Active(d, j)
                  /\ At(d, j)' <=> At(d, j)
             /\ s # "idle" => At(c, k)' /\ Demo!Active(c, k)'
  BY <1>1, <1>2, <1>3 DEF DemoInv, DemoTypes, Demo!Goto, Demo!Active, At
<1>4. ASSUME \/ d_jobRuns' = d_jobRuns
             \/ /\ d_jobRuns[k] = {}
                /\ d_jobRuns' = [d_jobRuns EXCEPT ![k] = {c}],
             NEW s \in Demo!Steps, NEW o \in Demo!Outcomes, Demo!Goto(c, s, o)
      PROVE  Tasks' /\ Counted' /\ d_jobRuns' \in [RunKey -> SUBSET Caller]
  <2>1. d_jobRuns' \in [RunKey -> SUBSET Caller]
    BY <1>2, <1>4 DEF DemoInv, DemoTypes
  <2>2. \A j \in RunKey : d_jobRuns'[j] # {} => j \in triggered
    BY <1>2, <1>4 DEF DemoInv, DemoTypes, Tasks
  <2>3. Tasks'
    BY <1>1, <1>2, <1>3, <1>4, <2>2 DEF DemoInv, Tasks
  <2> QED BY <1>1, <1>2, <2>1, <2>3 DEF Counted
(* A trigger that the step does not concern. *)
<1>5. ASSUME NEW j \in RunKey \ (d_hurt \cup {k}), d_lock'[j] = d_lock[j],
             d_jobRuns'[j] = d_jobRuns[j], d_runs'[j] = d_runs[j],
             NEW s \in Demo!Steps, NEW o \in Demo!Outcomes, Demo!Goto(c, s, o)
      PROVE  KeptAt(j)'
  <2>1. KeptAt(j)
    BY <1>5 DEF DemoInv
  <2>2. Demo!RowMeansRun(j)' /\ Demo!UnlocksAfterRow(j)'
    BY <1>1, <1>2, <1>3, <1>5, <2>1 DEF KeptAt, Demo!RowMeansRun,
                                        Demo!UnlocksAfterRow
  <2>3. \A d \in Caller : /\ Demo!Active(d, j)' <=> Demo!Active(d, j)
                          /\ At(d, j)' <=> At(d, j)
    BY <1>3, <1>5
  <2> QED BY <1>1, <1>5, <2>1, <2>2, <2>3 DEF KeptAt
<1>6. CASE Demo!RecordInserted(c)
  <2>1. /\ d_pc[c] = "recording" /\ d_jobRuns[k] = {}
        /\ d_jobRuns' = [d_jobRuns EXCEPT ![k] = {c}] /\ Demo!Goto(c, "ready", "none")
        /\ UNCHANGED <<d_lock, d_runs, d_hurt>>
    BY <1>2, <1>6 DEF Demo!RecordInserted
  <2>2. "ready" \in Demo!Steps /\ "none" \in Demo!Outcomes
    BY DEF Demo!Steps, Demo!Outcomes
  <2>3. DemoTypes' /\ Tasks' /\ Counted'
    <3>1. Tasks' /\ Counted' /\ d_jobRuns' \in [RunKey -> SUBSET Caller]
      BY <1>4, <2>1, <2>2
    <3>2. d_pc' \in [Caller -> Demo!Steps] /\ d_outcome' \in [Caller -> Demo!Outcomes]
      BY <1>3, <2>1, <2>2
    <3> QED BY <1>1, <1>2, <3>1, <3>2, <2>1, <2>2 DEF DemoInv, DemoTypes
  <2>4. /\ d_runs[k] = 0
        /\ \A d \in Caller : d_pc[d] \in {"ready", "running"} => d_key[d] # k
    BY <1>2, <2>1, UnrecordedIsUnrun
  <2>5. Demo!OnceInv'
    BY <1>1, <1>2, <1>3, <2>1, <2>2, <2>4
       DEF DemoInv, DemoTypes, Demo!OnceInv, Demo!AtMostOnce,
           Demo!RunIsRecorded
  <2>6. KeptAt(k)'
    <3>1. d_jobRuns'[k] # {} /\ d_pc'[c] = "ready" /\ d_key'[c] = k
      BY <1>1, <1>2, <1>3, <2>1, <2>2 DEF DemoInv, DemoTypes
    <3>2. Demo!RowMeansRun(k)' /\ Demo!UnlocksAfterRow(k)' /\ Demo!Active(c, k)' /\ At(c, k)'
      BY <3>1 DEF Demo!RowMeansRun, Demo!UnlocksAfterRow, Demo!Active, At
    <3> QED BY <3>2 DEF KeptAt
  <2>7. ASSUME NEW j \in RunKey \ (d_hurt \cup {k}) PROVE KeptAt(j)'
    <3>1. d_jobRuns'[j] = d_jobRuns[j]
      BY <1>2, <2>1 DEF DemoInv, DemoTypes
    <3> QED BY <1>5, <2>1, <2>2, <3>1
  <2> QED BY <2>1, <2>3, <2>5, <2>6, <2>7 DEF DemoInv
<1>7. CASE Demo!RecordConflict(c)
  <2>1. /\ d_jobRuns[k] # {} /\ Demo!Goto(c, "unlocking", "SkippedDuplicate")
        /\ d_pc[c] = "recording" /\ UNCHANGED <<d_lock, d_jobRuns, d_runs, d_hurt>>
    BY <1>2, <1>7 DEF Demo!RecordConflict
  <2>2. "unlocking" \in Demo!Steps /\ "SkippedDuplicate" \in Demo!Outcomes
    BY DEF Demo!Steps, Demo!Outcomes
  <2>3. DemoTypes' /\ Tasks' /\ Counted'
    <3>1. Tasks' /\ Counted' /\ d_jobRuns' \in [RunKey -> SUBSET Caller]
      BY <1>4, <2>1, <2>2
    <3>2. d_pc' \in [Caller -> Demo!Steps] /\ d_outcome' \in [Caller -> Demo!Outcomes]
      BY <1>3, <2>1, <2>2
    <3> QED BY <1>1, <1>2, <3>1, <3>2, <2>1, <2>2 DEF DemoInv, DemoTypes
  <2>4. Demo!OnceInv'
    BY <1>1, <1>3, <2>1, <2>2 DEF DemoInv, Demo!OnceInv, Demo!AtMostOnce,
                                  Demo!RunIsRecorded
  <2>5. ASSUME k \notin d_hurt PROVE KeptAt(k)'
    <3>1. KeptAt(k) /\ Demo!Active(c, k)' /\ At(c, k)'
      BY <1>2, <1>3, <2>1, <2>2, <2>5 DEF DemoInv
    <3>2. Demo!RowMeansRun(k)' /\ Demo!UnlocksAfterRow(k)'
      BY <1>1, <1>3, <2>1, <2>2, <3>1 DEF KeptAt, Demo!RowMeansRun,
                                          Demo!UnlocksAfterRow
    <3> QED BY <3>1, <3>2 DEF KeptAt
  <2> QED BY <1>5, <2>1, <2>2, <2>3, <2>4, <2>5 DEF DemoInv
<1>8. CASE Demo!RecordFails(c)
  <2>1. /\ d_jobRuns' = d_jobRuns \/ (d_jobRuns[k] = {} /\
                d_jobRuns' = [d_jobRuns EXCEPT ![k] = {c}])
        /\ Demo!Goto(c, "unlocking", "Err") /\ d_hurt' = d_hurt \cup {k}
        /\ d_pc[c] = "recording" /\ UNCHANGED <<d_lock, d_runs>>
    BY <1>2, <1>8 DEF Demo!RecordFails
  <2>2. "unlocking" \in Demo!Steps /\ "Err" \in Demo!Outcomes
    BY DEF Demo!Steps, Demo!Outcomes
  <2>3. DemoTypes' /\ Tasks' /\ Counted'
    <3>1. Tasks' /\ Counted' /\ d_jobRuns' \in [RunKey -> SUBSET Caller]
      BY <1>4, <2>1, <2>2
    <3>2. d_pc' \in [Caller -> Demo!Steps] /\ d_outcome' \in [Caller -> Demo!Outcomes]
      BY <1>3, <2>1, <2>2
    <3> QED BY <1>1, <1>2, <3>1, <3>2, <2>1, <2>2 DEF DemoInv, DemoTypes
  <2>4. Demo!OnceInv'
    <3>1. CASE d_jobRuns' = d_jobRuns
      BY <1>1, <1>3, <2>1, <2>2, <3>1
         DEF DemoInv, Demo!OnceInv, Demo!AtMostOnce, Demo!RunIsRecorded
    <3>2. CASE d_jobRuns[k] = {} /\ d_jobRuns' = [d_jobRuns EXCEPT ![k] = {c}]
      <4>1. /\ d_runs[k] = 0
            /\ \A d \in Caller : d_pc[d] \in {"ready", "running"} => d_key[d] # k
        BY <1>2, <3>2, UnrecordedIsUnrun
      <4> QED BY <1>1, <1>2, <1>3, <2>1, <2>2, <3>2, <4>1
              DEF DemoInv, DemoTypes, Demo!OnceInv, Demo!AtMostOnce,
                  Demo!RunIsRecorded
    <3> QED BY <2>1, <3>1, <3>2
  <2>5. ASSUME NEW j \in RunKey \ (d_hurt \cup {k}) PROVE KeptAt(j)'
    <3>1. d_jobRuns'[j] = d_jobRuns[j]
      BY <1>2, <2>1 DEF DemoInv, DemoTypes
    <3> QED BY <1>5, <2>1, <2>2, <3>1
  <2> QED BY <2>1, <2>3, <2>4, <2>5 DEF DemoInv
<1>9. CASE Demo!BusinessStarts(c)
  <2>1. /\ d_pc[c] = "ready" /\ d_runs' = [d_runs EXCEPT ![k] = @ + 1]
        /\ Demo!Goto(c, "running", "none") /\ UNCHANGED <<d_lock, d_jobRuns, d_hurt>>
    BY <1>2, <1>9 DEF Demo!BusinessStarts
  <2>2. "running" \in Demo!Steps /\ "none" \in Demo!Outcomes
    BY DEF Demo!Steps, Demo!Outcomes
  <2>3. /\ d_runs[k] = 0 /\ d_jobRuns[k] = {c}
        /\ \A d \in Caller : d # c /\ d_pc[d] = "ready" => d_key[d] # k
    <3>1. d_runs[k] = 0 /\ d_jobRuns[k] = {c}
      BY <1>2, <2>1 DEF DemoInv, Demo!OnceInv, Demo!RunIsRecorded
    <3>2. ASSUME NEW d \in Caller, d # c, d_pc[d] = "ready" PROVE d_key[d] # k
      <4>1. d_jobRuns[d_key[d]] = {d}
        BY <3>2 DEF DemoInv, Demo!OnceInv, Demo!RunIsRecorded
      <4> QED BY <3>1, <3>2, <4>1
    <3> QED BY <3>1, <3>2
  <2>4. d_runs' = [d_runs EXCEPT ![k] = 1]
    BY <2>1, <2>3
  <2>5. DemoTypes' /\ Tasks' /\ Counted'
    <3>1. Tasks' /\ Counted' /\ d_jobRuns' \in [RunKey -> SUBSET Caller]
      BY <1>4, <2>1, <2>2, <2>4
    <3>2. d_pc' \in [Caller -> Demo!Steps] /\ d_outcome' \in [Caller -> Demo!Outcomes]
      BY <1>3, <2>1, <2>2, <2>4
    <3> QED BY <1>1, <1>2, <3>1, <3>2, <2>1, <2>2, <2>4 DEF DemoInv, DemoTypes
  <2>6. Demo!AtMostOnce'
    BY <1>2, <2>4 DEF DemoInv, DemoTypes, Demo!OnceInv, Demo!AtMostOnce
  <2>7. Demo!RunIsRecorded' /\ \A d \in Caller : d_pc'[d] = "ready" =>
                                             d_runs'[d_key'[d]] = 0
    <3>1. /\ d_pc'[c] = "running" /\ d_key'[c] = k
          /\ \A d \in Caller \ {c} : d_pc'[d] = d_pc[d] /\ d_key'[d] = d_key[d]
      BY <1>1, <1>2, <1>3, <2>1, <2>2
    <3>2. d_runs'[k] = 1 /\ \A j \in RunKey \ {k} : d_runs'[j] = d_runs[j]
      BY <1>2, <2>4 DEF DemoInv, DemoTypes
    <3>3. d_jobRuns' = d_jobRuns /\ d_key \in [Caller -> RunKey]
      BY <1>2, <2>1 DEF DemoInv, DemoTypes
    <3> QED BY <1>2, <2>3, <3>1, <3>2, <3>3
            DEF DemoInv, Demo!OnceInv, Demo!RunIsRecorded
  <2>8. ASSUME k \notin d_hurt PROVE KeptAt(k)'
    <3>1. d_runs'[k] = 1 /\ KeptAt(k)
      BY <1>2, <2>4, <2>8 DEF DemoInv, DemoTypes
    <3>2. Demo!UnlocksAfterRow(k)'
      BY <1>1, <1>3, <2>1, <2>2, <3>1 DEF KeptAt, Demo!UnlocksAfterRow
    <3> QED BY <3>1, <3>2 DEF KeptAt, Demo!RowMeansRun
  <2>9. ASSUME NEW j \in RunKey \ (d_hurt \cup {k}) PROVE KeptAt(j)'
    <3>1. d_runs'[j] = d_runs[j]
      BY <1>2, <2>4 DEF DemoInv, DemoTypes
    <3> QED BY <1>5, <2>1, <2>2, <3>1
  <2> QED BY <2>1, <2>5, <2>6, <2>7, <2>8, <2>9 DEF DemoInv, Demo!OnceInv
<1>10. CASE Demo!BusinessReturns(c)
  <2>1. PICK o \in {"Executed", "Err"} : Demo!Goto(c, "unlocking", o)
    BY <1>2, <1>10 DEF Demo!BusinessReturns
  <2>2. "unlocking" \in Demo!Steps /\ o \in Demo!Outcomes
    BY DEF Demo!Steps, Demo!Outcomes
  <2>3. d_pc[c] = "running" /\ UNCHANGED <<d_lock, d_jobRuns, d_runs, d_hurt>>
    BY <1>2, <1>10 DEF Demo!BusinessReturns
  <2>4. DemoTypes' /\ Tasks' /\ Counted'
    <3>1. Tasks' /\ Counted' /\ d_jobRuns' \in [RunKey -> SUBSET Caller]
      BY <1>4, <2>1, <2>2, <2>3
    <3>2. d_pc' \in [Caller -> Demo!Steps] /\ d_outcome' \in [Caller -> Demo!Outcomes]
      BY <1>3, <2>1, <2>2, <2>3
    <3> QED BY <1>1, <1>2, <3>1, <3>2, <2>1, <2>2, <2>3 DEF DemoInv, DemoTypes
  <2>5. Demo!OnceInv'
    BY <1>1, <1>3, <2>1, <2>2, <2>3
       DEF DemoInv, Demo!OnceInv, Demo!AtMostOnce, Demo!RunIsRecorded
  <2>6. ASSUME k \notin d_hurt PROVE KeptAt(k)'
    <3>1. KeptAt(k) /\ Demo!Active(c, k)' /\ At(c, k)'
      BY <1>2, <1>3, <2>1, <2>2, <2>6 DEF DemoInv
    <3>2. d_jobRuns[k] # {}
      BY <1>2, <2>3 DEF DemoInv, Demo!OnceInv, Demo!RunIsRecorded
    <3>3. Demo!RowMeansRun(k)' /\ Demo!UnlocksAfterRow(k)'
      BY <1>1, <1>3, <2>1, <2>2, <2>3, <3>1, <3>2
         DEF KeptAt, Demo!RowMeansRun, Demo!UnlocksAfterRow
    <3> QED BY <3>1, <3>3 DEF KeptAt
  <2> QED BY <1>5, <2>1, <2>2, <2>3, <2>4, <2>5, <2>6 DEF DemoInv
<1>11. CASE Demo!Unlock(c)
  <2>1. /\ d_pc[c] = "unlocking" /\ Demo!Goto(c, "idle", d_outcome[c])
        /\ d_lock' \in {d_lock, [d_lock EXCEPT ![k] = @ \ {Demo!MyToken(c)}]}
        /\ UNCHANGED <<d_jobRuns, d_runs, d_hurt>>
    BY <1>2, <1>11 DEF Demo!Unlock, Demo!CompareAndDelete
  <2>2. "idle" \in Demo!Steps /\ d_outcome[c] \in Demo!Outcomes
    BY DEF Demo!Steps, DemoInv, DemoTypes
  <2>3. /\ d_lock' \in [RunKey -> SUBSET Demo!Token]
        /\ \A j \in RunKey \ {k} : d_lock'[j] = d_lock[j]
    BY <1>2, <2>1 DEF DemoInv, DemoTypes
  <2>4. DemoTypes' /\ Tasks' /\ Counted'
    <3>1. Tasks' /\ Counted' /\ d_jobRuns' \in [RunKey -> SUBSET Caller]
      BY <1>4, <2>1, <2>2, <2>3
    <3>2. d_pc' \in [Caller -> Demo!Steps] /\ d_outcome' \in [Caller -> Demo!Outcomes]
      BY <1>3, <2>1, <2>2, <2>3
    <3> QED BY <1>1, <1>2, <3>1, <3>2, <2>1, <2>2, <2>3 DEF DemoInv, DemoTypes
  <2>5. Demo!OnceInv'
    BY <1>1, <1>3, <2>1, <2>2 DEF DemoInv, Demo!OnceInv, Demo!AtMostOnce,
                                  Demo!RunIsRecorded
  <2>6. ASSUME k \notin d_hurt PROVE KeptAt(k)'
    <3>1. KeptAt(k) /\ d_jobRuns[k] # {}
      BY <1>2, <2>1, <2>6 DEF DemoInv, KeptAt, Demo!UnlocksAfterRow
    <3>2. d_runs[k] = 1 \/ \E d \in Caller : d_pc[d] = "ready" /\ d_key[d] = k
      BY <3>1 DEF KeptAt, Demo!RowMeansRun
    <3>3. d_runs'[k] = 1 \/ \E d \in Caller : /\ d_pc'[d] = "ready" /\ d_key'[d] = k
                                           /\ Demo!Active(d, k)' /\ At(d, k)'
      BY <1>1, <1>3, <2>1, <2>2, <3>2 DEF Demo!Active, At
    <3>4. Demo!RowMeansRun(k)' /\ Demo!UnlocksAfterRow(k)'
      BY <2>1, <3>1, <3>3 DEF Demo!RowMeansRun, Demo!UnlocksAfterRow
    <3> QED BY <3>3, <3>4 DEF KeptAt
  <2>7. ASSUME NEW j \in RunKey \ (d_hurt \cup {k}) PROVE KeptAt(j)'
    BY <1>5, <2>1, <2>2, <2>3
  <2> QED BY <2>1, <2>4, <2>5, <2>6, <2>7 DEF DemoInv
<1> QED BY <1>6, <1>7, <1>8, <1>9, <1>10, <1>11 DEF Demo!Works, Demo!Proceed,
                                                    Demo!RecordRun

LEMMA MainStep ==
  ASSUME Demo!DemoAssumption, DemoInv, Demo!Cancel \/ Demo!Join \/ Demo!count_runs \/ Demo!Clock
  PROVE DemoInv'
<1>1. /\ UNCHANGED <<d_lock, d_jobRuns, d_pc, d_key, d_seq, d_outcome, d_runs, d_hurt, d_loop,
                     triggered>>
      /\ d_now' \in 0..LastTime
      /\ \/ main' = main /\ d_n' = d_n
         \/ main' = "joining"
         \/ main' = "counting" /\ \A c \in Caller : d_loop[c] = "stopped"
         \/ main = "counting" /\ main' = "failed"
         \/ /\ main = "counting" /\ main' = "done"
            /\ d_n' = Demo!Cardinality({k \in RunKey : d_jobRuns[k] # {}})
  <2>1. d_now \in 0..LastTime /\ LastTime \in Nat
    BY DEF DemoInv, DemoTypes, Demo!DemoAssumption
  <2>2. CASE Demo!Cancel \/ Demo!Join \/ Demo!count_runs
    BY <2>1, <2>2 DEF Demo!Cancel, Demo!Join, Demo!count_runs, Demo!vars
  <2>3. CASE Demo!Clock
    BY <2>1, <2>3 DEF Demo!Clock, Demo!vars
  <2> QED BY <2>2, <2>3
<1>2. DemoTypes' /\ Demo!OnceInv'
  BY <1>1 DEF DemoInv, DemoTypes, Demo!OnceInv, Demo!AtMostOnce,
              Demo!RunIsRecorded
<1>3. Tasks' /\ Counted'
  BY <1>1 DEF DemoInv, Tasks, Counted
<1>4. ASSUME NEW k \in RunKey \ d_hurt PROVE KeptAt(k)'
  BY <1>1 DEF DemoInv, KeptAt, Demo!RowMeansRun, Demo!UnlocksAfterRow,
              Demo!Active, At
<1> QED BY <1>1, <1>2, <1>3, <1>4 DEF DemoInv

LEMMA ExpiresStep == ASSUME DemoInv, Demo!Expires PROVE DemoInv'
<1>1. PICK k \in RunKey : d_lock' = [d_lock EXCEPT ![k] = Demo!Absent]
  BY DEF Demo!Expires, Demo!LockExpires
<1>2. UNCHANGED <<d_jobRuns, d_pc, d_key, d_seq, d_outcome, d_runs, d_hurt, d_now, d_loop, main, d_n,
                  triggered>>
  BY DEF Demo!Expires, Demo!LockExpires, Demo!demo
<1>3. DemoTypes' /\ \A j \in RunKey : d_lock'[j] # Demo!Absent => d_lock[j] # Demo!Absent
  BY <1>1, <1>2 DEF DemoInv, DemoTypes, Demo!Absent
<1>4. Demo!OnceInv' /\ Tasks' /\ Counted'
  BY <1>2 DEF DemoInv, Demo!OnceInv, Demo!AtMostOnce, Demo!RunIsRecorded,
              Tasks, Counted
<1>5. ASSUME NEW j \in RunKey \ d_hurt PROVE KeptAt(j)'
  BY <1>2, <1>3 DEF DemoInv, KeptAt, Demo!RowMeansRun, Demo!UnlocksAfterRow,
                    Demo!Active, At
<1> QED BY <1>2, <1>3, <1>4, <1>5 DEF DemoInv

(* The state of the demo's cluster, for any instances, period and times.   *)
THEOREM DemoInvariant == ASSUME Demo!DemoAssumption PROVE Demo!DemoSpec => []DemoInv
<1>1. ASSUME DemoInv, UNCHANGED Demo!demoVars PROVE DemoInv'
  <2>1. UNCHANGED <<d_lock, d_jobRuns, d_pc, d_key, d_seq, d_outcome, d_runs, d_hurt, d_now, d_loop,
                    main, d_n, triggered>>
    BY <1>1 DEF Demo!demoVars, Demo!demo, Demo!vars
  <2> QED BY <1>1, <2>1 DEF DemoInv, DemoTypes, Demo!OnceInv, Demo!AtMostOnce,
          Demo!RunIsRecorded, Tasks, Counted, KeptAt, Demo!RowMeansRun,
          Demo!UnlocksAfterRow,
          Demo!Active, At
<1>2. ASSUME DemoInv, Demo!DemoNext PROVE DemoInv'
  <2>1. ASSUME NEW c \in Caller,
               Demo!SkipFirstTick(c) \/ Demo!TickReturns(c) \/ Demo!ObserveShutdown(c)
        PROVE  DemoInv'
    <3>1. /\ UNCHANGED <<Demo!vars, d_now, shutdown, main, d_n, triggered>>
          /\ \/ d_loop[c] \in {"new", "select"}
             \/ d_loop[c] = "ticking" /\ d_pc[c] = "idle"
          /\ Demo!Set(c, "select") \/ Demo!Set(c, "stopped")
      BY <2>1 DEF Demo!SkipFirstTick, Demo!TickReturns, Demo!ObserveShutdown
    <3>2. d_pc[c] = "idle" /\ main \notin {"counting", "done", "failed"}
      BY <1>2, <3>1 DEF DemoInv, DemoTypes, Tasks
    <3> QED BY <1>2, <3>1, <3>2, LoopStep DEF Loops
  <2>2. ASSUME NEW c \in Caller, Demo!TickFires(c) \/ Demo!Tries(c) \/ Demo!Works(c)
        PROVE  DemoInv'
    BY <1>2, <2>2, TickFiresStep, TriesStep, WorksStep
  <2> QED BY <1>1, <1>2, <2>1, <2>2, MainStep, ExpiresStep
          DEF Demo!DemoNext, Demo!spawn_instance, Demo!Ended
<1> QED BY <1>1, <1>2, DemoInitInv, PTL DEF Demo!DemoSpec

(* When main reports, no task is at work, and every bucket in which an     *)
(* instance ticked has been run once, and was counted, unless a call for   *)
(* it failed (CountIsRuns).                                                *)
THEOREM CountIsTrue == ASSUME Demo!DemoAssumption PROVE Demo!DemoSpec => []CountIsRuns
<1>1. DemoInv => CountIsRuns
  <2>1. SUFFICES ASSUME DemoInv, main = "done" PROVE
          /\ \A c \in Caller : d_pc[c] = "idle"
          /\ \A k \in RunKey : d_runs[k] <= 1
          /\ \A k \in RunKey \ d_hurt : d_runs[k] = 1 <=> k \in triggered
          /\ d_hurt = {} => d_n = Demo!Cardinality(triggered)
    BY DEF CountIsRuns, Demo!CountIsRuns
  <2>2. \A c \in Caller : d_pc[c] = "idle" /\ d_loop[c] = "stopped"
    BY <2>1 DEF DemoInv, DemoTypes, Tasks
  <2>3. \A k \in RunKey : d_runs[k] <= 1 /\ (d_runs[k] > 0 => d_jobRuns[k] # {})
    BY <2>1 DEF DemoInv, Demo!OnceInv, Demo!AtMostOnce, Demo!RunIsRecorded
  <2>4. \A k \in RunKey \ d_hurt : k \in triggered => d_runs[k] = 1
    BY <2>1, <2>2 DEF DemoInv, KeptAt, At
  <2>5. \A k \in RunKey : d_jobRuns[k] # {} => k \in triggered
    BY <2>1 DEF DemoInv, Tasks
  <2>6. \A k \in RunKey \ d_hurt : d_runs[k] = 1 <=> k \in triggered
    BY <2>3, <2>4, <2>5
  <2>7. d_hurt = {} => {k \in RunKey : d_jobRuns[k] # {}} = triggered
    BY <2>1, <2>3, <2>4, <2>5 DEF DemoInv, DemoTypes
  <2>8. d_hurt = {} => d_n = Demo!Cardinality(triggered)
    BY <2>1, <2>7 DEF DemoInv, Counted
  <2> QED BY <2>2, <2>3, <2>6, <2>8
<1> QED BY <1>1, DemoInvariant, PTL
=============================================================================
