----------------------------- MODULE RedisLock -----------------------------
(***************************************************************************)
(* What the two Redis commands of the lock helper do to one key.  The same *)
(* helper is kept in three crates: cluster_demo/src/dlock.rs,              *)
(* scheduler_demo/src/lock.rs and cloud_sync/src/lock.rs.                  *)
(*                                                                         *)
(* The value of a key is {} when the key does not exist and {t} when it    *)
(* holds t.  Expiry belongs to the modules that use these operators: one   *)
(* has a clock, the others let the key vanish at any moment.               *)
(***************************************************************************)

Absent == {}

(* `SET key token NX PX ttl`: refused when the key exists. *)
SetNxSucceeds(value) == value = Absent

(* The value after a successful `SET ... NX`. *)
SetNx(token) == {token}

(* The Lua script: `if GET == token then DEL`, run atomically by Redis. *)
CompareAndDelete(value, token) == value \ {token}
=============================================================================
