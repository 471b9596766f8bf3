------------------------------ MODULE MCStores ------------------------------
(***************************************************************************)
(* Model-checking instance of programs whose instances meet in Redis and   *)
(* in SQL tables: the cloud sync with its lock (CloudSync), the cache-     *)
(* aside cache, the todo tables and the cluster of the scheduler's demo.   *)
(* They share no state, so that one run checks them side by side: `part`   *)
(* says which one moves, the others stay in one initial state.             *)
(***************************************************************************)
EXTENDS CloudSync, TLC

CONSTANTS Reader, Writer, CACHE_TTL, MaxFill, MaxVersion, CacheTime,
          Instance, Title, MaxId, Caller, RunKey, MaxCalls, PERIOD, Runtime,
          LastTime

VARIABLES part,
          c_now, db, cache, reader, got, writer, wrote, overlapped, lost,
          replacedAt, dialect, exists, advisory, failed, rows, next_id,
          t_pc, id, patch, current, meant, creator, raced,
          d_lock, d_jobRuns, d_pc, d_key, d_seq, d_outcome, d_runs, d_hurt,
          d_now, d_loop, d_due, shutdown, main, d_n, triggered

Cache == INSTANCE CacheAside WITH
  now <- c_now, TTL <- CACHE_TTL, MaxTime <- CacheTime

Todo == INSTANCE TodoCrud WITH
  pc <- t_pc

Demo == INSTANCE DemoCluster WITH
  lock <- d_lock, jobRuns <- d_jobRuns, pc <- d_pc, key <- d_key,
  seq <- d_seq, outcome <- d_outcome, runs <- d_runs, hurt <- d_hurt,
  now <- d_now, loop <- d_loop, due <- d_due, n <- d_n

cacheVars ==
  <<c_now, db, cache, reader, got, writer, wrote, overlapped,
    lost, replacedAt>>
todoVars ==
  <<dialect, exists, advisory, failed, rows, next_id, t_pc, id,
    patch, current, meant, creator, raced>>
demoVars ==
  <<d_lock, d_jobRuns, d_pc, d_key, d_seq, d_outcome, d_runs,
    d_hurt, d_now, d_loop, d_due, shutdown, main, d_n, triggered>>
all == <<part, syncVars, cacheVars, todoVars, demoVars>>

ASSUME MCAssumption ==
  /\ Cache!CacheAssumption
  /\ Todo!TodoAssumption
  /\ Demo!DemoAssumption

(* One account each of a provider with credentials and of one without.     *)
MCAccount == {[provider |-> p, access_key |-> "ak1"] : p \in {"private", "gcp"}}

MCInit ==
  /\ part \in {"sync", "cache", "todo", "demo"}
  /\ SyncInit
  /\ Cache!Init
  /\ Todo!Init
  /\ Demo!DemoInit
  /\ part # "todo" => dialect = "sqlite"
  /\ part # "demo" => d_now = 0

MCNext ==
  /\ UNCHANGED part
  /\ \/ part = "sync" /\ SyncNext /\ UNCHANGED <<cacheVars, todoVars,
                                                 demoVars>>
     \/ part = "cache" /\ Cache!Next /\ UNCHANGED <<syncVars, todoVars,
                                                    demoVars>>
     \/ part = "todo" /\ Todo!Next /\ UNCHANGED <<syncVars, cacheVars,
                                                  demoVars>>
     \/ part = "demo" /\ Demo!DemoNext /\ UNCHANGED <<syncVars, cacheVars,
                                                      todoVars>>

MCSpec ==
  /\ MCInit /\ [][MCNext]_all

Symmetry == Permutations(Client) \cup Permutations(Writer)

StaleExplained == Cache!StaleExplained
CrudSound == Todo!CrudSound
CountIsRuns == Demo!CountIsRuns
=============================================================================
