------------------------------- MODULE DLock -------------------------------
(***************************************************************************)
(* cluster_demo/src/dlock.rs: the distributed lock on one Redis key, with  *)
(* the clock of the Redis server.  A client draws a fresh token, tries the *)
(* lock once, works in its critical section and unlocks.  The lock carries *)
(* a TTL counted from the SET; the client is not told when it runs out.    *)
(***************************************************************************)
EXTENDS Integers, RedisLock

CONSTANTS
  Client,
  TTL,        \* the `ttl` given to try_lock
  MaxHold,    \* the longest time between the SET and the end of the work
  MaxTokens,  \* bound: attempts made by one client
  MaxTime     \* bound: the clock

ASSUME TimesAssumption ==
  /\ TTL \in Nat \ {0}
  /\ MaxHold \in Nat /\ MaxTokens \in Nat /\ MaxTime \in Nat

VARIABLES
  now,        \* the clock of the server
  key,        \* the key: {} or {[by, n, expires]}
  pc,         \* "idle" or "critical"
  n,          \* tokens drawn: the current one of c is <<c, n[c]>>
  since       \* when the SET of the current holding was applied

vars == <<now, key, pc, n, since>>

Entry == [by : Client, n : 1..MaxTokens, expires : Nat]

TypeOK ==
  /\ now \in Nat
  /\ key \in SUBSET Entry
  /\ pc \in [Client -> {"idle", "critical"}]
  /\ n \in [Client -> 0..MaxTokens]
  /\ since \in [Client -> Nat]

Init ==
  /\ now = 0
  /\ key = Absent
  /\ pc = [c \in Client |-> "idle"]
  /\ n = [c \in Client |-> 0]
  /\ since = [c \in Client |-> 0]

(* A key whose TTL has run out does not exist for any command. *)
Live == {e \in key : now < e.expires}

MyEntry(c) == {e \in Live : e.by = c /\ e.n = n[c]}

new_token(c) ==
  /\ pc[c] = "idle"
  /\ n[c] < MaxTokens
  /\ n' = [n EXCEPT ![c] = @ + 1]

(* Mutant of SetKey: the key lives for half of the TTL. *)
SetKeyHalf(c) ==
  key' = SetNx([by |-> c, n |-> n[c] + 1, expires |-> now + (TTL \div 2)])

SetKey(c) == key' = SetNx([by |-> c, n |-> n[c] + 1, expires |-> now + TTL])

(* try_lock: the reply is OK. *)
LockGranted(c) ==
  /\ new_token(c)
  /\ SetNxSucceeds(Live)
  /\ SetKey(c)
  /\ pc' = [pc EXCEPT ![c] = "critical"]
  /\ since' = [since EXCEPT ![c] = now]
  /\ UNCHANGED now

(* try_lock: the reply is nil; or the command fails, before or after the   *)
(* server applied it.  In both cases the client does not enter.            *)
LockNotGranted(c) ==
  /\ new_token(c)
  /\ UNCHANGED key \/ (SetNxSucceeds(Live) /\ SetKey(c))
  /\ UNCHANGED <<now, pc, since>>

(* Mutant of Unlock: DEL without comparing the token. *)
UnlockBlindly(c) ==
  /\ pc[c] = "critical"
  /\ key' = Absent
  /\ pc' = [pc EXCEPT ![c] = "idle"]
  /\ UNCHANGED <<now, n, since>>

(* unlock: the script deletes the key only if it holds the client's token; *)
(* when the command fails the key stays until its TTL.                     *)
Unlock(c) ==
  /\ pc[c] = "critical"
  /\ UNCHANGED key \/ key' = Live \ MyEntry(c)
  /\ pc' = [pc EXCEPT ![c] = "idle"]
  /\ UNCHANGED <<now, n, since>>

(* The client's process dies in its critical section: nobody unlocks. *)
Crash(c) ==
  /\ pc[c] = "critical"
  /\ pc' = [pc EXCEPT ![c] = "idle"]
  /\ UNCHANGED <<now, key, n, since>>

(* Time passes; a holder's work takes MaxHold at most. *)
Clock ==
  /\ now < MaxTime
  /\ \A c \in Client : pc[c] = "critical" => now < since[c] + MaxHold
  /\ now' = now + 1
  /\ UNCHANGED <<key, pc, n, since>>

(* The bounds of the model are used up. *)
TimeOver ==
  /\ now = MaxTime
  /\ \A c \in Client : pc[c] = "idle" /\ n[c] = MaxTokens
  /\ UNCHANGED vars

Next ==
  \/ \E c \in Client :
       LockGranted(c) \/ LockNotGranted(c) \/ Unlock(c) \/ Crash(c)
  \/ Clock
  \/ TimeOver

Spec == Init /\ [][Next]_vars

-----------------------------------------------------------------------------
(* A holder keeps its lock for its whole TTL: no other client's SET or     *)
(* unlock, however late, takes it away (the scenario A, B, C of the        *)
(* comment on unlock).                                                     *)
HoldsUntilExpiry ==
  \A c \in Client :
    (pc[c] = "critical" /\ now < since[c] + TTL) =>
      key = {[by |-> c, n |-> n[c], expires |-> since[c] + TTL]}

(* Two clients that both have time left on their TTL are never in their    *)
(* critical sections together; so there is mutual exclusion as long as the *)
(* TTL is "slightly larger than the longest work".                         *)
Overrun(c) == ~(now < since[c] + TTL)

MutualExclusion ==
  \A c, d \in Client :
    (pc[c] = "critical" /\ pc[d] = "critical" /\ c # d) =>
      Overrun(c) \/ Overrun(d)

(* What a step preserves: the work never outlives its bound, and inside    *)
(* the TTL the key is the holder's.                                        *)
LockInv ==
  /\ HoldsUntilExpiry
  /\ \A c \in Client :
       pc[c] = "critical" => since[c] <= now /\ now <= since[c] + MaxHold
=============================================================================
