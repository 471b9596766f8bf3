----------------------------- MODULE CacheAside -----------------------------
(***************************************************************************)
(* redis_cache/src/lib.rs: one todo, its row in the database and its key   *)
(* `todo:v1:{id}` in Redis.  get_todo_cached looks in the cache, on a miss *)
(* asks the database and fills the cache with a TTL; update_todo writes    *)
(* the database, then deletes the key.  Every await is a point where       *)
(* another reader or writer runs.  A value is its version: 0 means that    *)
(* the row does not exist, the n-th update writes n.                       *)
(***************************************************************************)
EXTENDS Integers

CONSTANTS
  Reader, Writer,
  TTL,        \* CACHE_TTL_SECS
  MaxFill,    \* longest time from the answer of the database to SET EX
  MaxVersion, \* bound: updates
  MaxTime     \* bound: the clock

CacheAssumption ==
  /\ TTL \in Nat \ {0}
  /\ MaxFill \in Nat /\ MaxVersion \in Nat /\ MaxTime \in Nat

VARIABLES
  now,        \* the clock of the Redis server
  db,         \* the version in the database
  cache,      \* the key: {} or {[v, expires]}
  reader,     \* "idle", "querying" (missed the cache), "filling"
  got,        \* the version a reader got from the database, and when
  writer,     \* "idle" or "deleting" (has written the database)
  wrote,      \* the version a writer wrote
  overlapped, \* history: versions a reader was about to fill when replaced
  lost,       \* history: versions stale when the DEL of an update failed
  replacedAt  \* history: when a version was replaced

vars == <<now, db, cache, reader, got, writer, wrote,
          overlapped, lost, replacedAt>>

Version == 0..MaxVersion
history == <<overlapped, lost, replacedAt>>

TypeOK ==
  /\ now \in 0..MaxTime
  /\ db \in Version
  /\ cache \in SUBSET [v : Version \ {0}, expires : Nat]
  /\ reader \in [Reader -> {"idle", "querying", "filling"}]
  /\ got \in [Reader -> [v : Version, at : 0..MaxTime]]
  /\ writer \in [Writer -> {"idle", "deleting"}]
  /\ wrote \in [Writer -> Version]
  /\ overlapped \subseteq Version /\ lost \subseteq Version
  /\ replacedAt \in [Version -> 0..MaxTime]

Init ==
  /\ now = 0
  /\ db = 0
  /\ cache = {}
  /\ reader = [r \in Reader |-> "idle"]
  /\ got = [r \in Reader |-> [v |-> 0, at |-> 0]]
  /\ writer = [w \in Writer |-> "idle"]
  /\ wrote = [w \in Writer |-> 0]
  /\ overlapped = {} /\ lost = {}
  /\ replacedAt = [v \in Version |-> 0]

(* A key whose TTL has run out does not exist for any command. *)
Live == {e \in cache : now < e.expires}

SetEx(v) == cache' = {[v |-> v, expires |-> now + TTL]}

-----------------------------------------------------------------------------
(* GET returns nil: go to the database.  (A hit returns the cached value,  *)
(* an error of GET is returned: neither changes anything.)                 *)
CacheMiss(r) ==
  /\ reader[r] = "idle"
  /\ Live = {}
  /\ reader' = [reader EXCEPT ![r] = "querying"]
  /\ UNCHANGED <<now, db, cache, got, writer, wrote, history>>

(* The database answers with the row; without one the reader returns None  *)
(* and caches nothing.                                                     *)
slow_db_query(r) ==
  /\ reader[r] = "querying"
  /\ reader' = [reader EXCEPT ![r] = IF db = 0 THEN "idle" ELSE "filling"]
  /\ got' = [got EXCEPT ![r] = [v |-> db, at |-> now]]
  /\ UNCHANGED <<now, db, cache, writer, wrote, history>>

(* Mutant of FillCache: SET without EX. *)
FillCacheForGood(r) ==
  /\ reader[r] = "filling"
  /\ cache' = {[v |-> got[r].v, expires |-> MaxTime + 1]}
  /\ reader' = [reader EXCEPT ![r] = "idle"]
  /\ UNCHANGED <<now, db, got, writer, wrote, history>>

(* SET EX, then return; when the command fails, or the reader dies before  *)
(* sending it, the key may be left as it is.                               *)
FillCache(r) ==
  /\ reader[r] = "filling"
  /\ SetEx(got[r].v) \/ UNCHANGED cache
  /\ reader' = [reader EXCEPT ![r] = "idle"]
  /\ UNCHANGED <<now, db, got, writer, wrote, history>>

-----------------------------------------------------------------------------
(* update_todo, step 1: the database is written. *)
UpdateDb(w) ==
  /\ writer[w] = "idle"
  /\ db < MaxVersion
  /\ db' = db + 1
  /\ wrote' = [wrote EXCEPT ![w] = db + 1]
  /\ writer' = [writer EXCEPT ![w] = "deleting"]
  /\ replacedAt' = [replacedAt EXCEPT ![db] = now]
  /\ overlapped' = IF \E r \in Reader : reader[r] = "filling" /\ got[r].v = db
                     THEN overlapped \cup {db} ELSE overlapped
  /\ UNCHANGED <<now, cache, reader, got, lost>>

(* Mutant of DeleteKey: the cache is changed instead of deleted. *)
DeleteKeySets(w) ==
  /\ writer[w] = "deleting"
  /\ SetEx(wrote[w])
  /\ writer' = [writer EXCEPT ![w] = "idle"]
  /\ UNCHANGED <<now, db, reader, got, wrote, history>>

(* Step 2: DEL; a key that does not exist is no error. *)
DeleteKey(w) ==
  /\ writer[w] = "deleting"
  /\ cache' = {}
  /\ writer' = [writer EXCEPT ![w] = "idle"]
  /\ UNCHANGED <<now, db, reader, got, wrote, history>>

(* The DEL fails, or the writer dies before it: the key stays. *)
DeleteLost(w) ==
  /\ writer[w] = "deleting"
  /\ writer' = [writer EXCEPT ![w] = "idle"]
  /\ lost' = 0..(db - 1)
  /\ UNCHANGED <<now, db, cache, reader, got, wrote, overlapped, replacedAt>>

Clock ==
  /\ now < MaxTime
  /\ \A r \in Reader : reader[r] = "filling" => now < got[r].at + MaxFill
  /\ now' = now + 1
  /\ UNCHANGED <<db, cache, reader, got, writer, wrote, history>>

(* The bounds of the model are used up. *)
Quiet ==
  /\ now = MaxTime /\ db = MaxVersion
  /\ \A r \in Reader : reader[r] = "idle"
  /\ \A w \in Writer : writer[w] = "idle"
  /\ UNCHANGED vars

Next ==
  \/ \E r \in Reader : CacheMiss(r) \/ slow_db_query(r) \/ FillCache(r)
  \/ \E w \in Writer : UpdateDb(w) \/ DeleteKey(w) \/ DeleteLost(w)
  \/ Clock
  \/ Quiet

Spec == Init /\ [][Next]_vars

-----------------------------------------------------------------------------
(* The last line of defence of the comment on CACHE_TTL_SECS: whatever     *)
(* fails and overlaps, a replaced value is served for TTL at most after    *)
(* the slowest fill that can still write it.                               *)
StaleBounded ==
  \A e \in Live : e.v # db => now < replacedAt[e.v] + MaxFill + TTL

Settled == \A w \in Writer : writer[w] = "idle"

Stale == {e \in Live : e.v # db}

(* Why update_todo deletes instead of writing the new value: once the      *)
(* updates have returned, whatever their order, a stale value is there     *)
(* only because a DEL was lost or a reader had fetched it before it was    *)
(* replaced and filled it in late.                                         *)
StaleHasCause == Settled => \A e \in Stale : e.v \in overlapped \cup lost

(* A stale value of the cache has a cause that is known, and an end. *)
StaleExplained == StaleBounded /\ StaleHasCause
=============================================================================
