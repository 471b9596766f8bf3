---------------------------- MODULE GuardedTick ----------------------------
(***************************************************************************)
(* scheduler_demo: `guarded_tick`, which every instance of the cluster     *)
(* calls when its scheduler fires, and the two stores it relies on: the    *)
(* Redis lock `lock:job:{job}:{run_key}` and the table scheduler.job_runs  *)
(* with its UNIQUE (job_name, run_key).                                    *)
(*                                                                         *)
(* One job is modelled; a caller is one activation of guarded_tick (an     *)
(* interval loop has one, a cron scheduler may have several at a time).    *)
(* Every await of the function is a point where other callers run, where   *)
(* the lock may expire and where the process may die.                      *)
(***************************************************************************)
EXTENDS Naturals, RedisLock

CONSTANTS
  Caller,     \* activations that may run guarded_tick
  RunKey,     \* the run keys that bucket_run_key yields
  MaxCalls    \* bound: calls made by one caller

ASSUME CallsAssumption == MaxCalls \in Nat

VARIABLES
  lock,       \* lock[k]: the Redis value of the key of k, {} or {token}
  jobRuns,    \* jobRuns[k]: {} or {the instance of the row of k}
  pc,         \* where a caller stands in guarded_tick
  key,        \* the run key of a caller's current or last call
  seq,        \* calls made so far: the token of a call is <<caller, seq>>
  outcome,    \* what the current call will return, or the last one returned
  runs,       \* runs[k]: how many times `business()` was started for k
  hurt        \* history: triggers a call of which failed or died

vars == <<lock, jobRuns, pc, key, seq, outcome, runs, hurt>>

Outcomes == {"none", "Executed", "SkippedNoLock", "SkippedDuplicate", "Err"}
Steps == {"idle", "recording", "ready", "running", "unlocking"}
Token == Caller \X (1..MaxCalls)

TypeOK ==
  /\ lock \in [RunKey -> SUBSET Token]
  /\ jobRuns \in [RunKey -> SUBSET Caller]
  /\ pc \in [Caller -> Steps]
  /\ key \in [Caller -> RunKey]
  /\ seq \in [Caller -> 0..MaxCalls]
  /\ outcome \in [Caller -> Outcomes]
  /\ runs \in [RunKey -> Nat]
  /\ hurt \subseteq RunKey

Init ==
  /\ lock = [k \in RunKey |-> Absent]
  /\ jobRuns = [k \in RunKey |-> {}]
  /\ pc = [c \in Caller |-> "idle"]
  /\ key \in [Caller -> RunKey]
  /\ seq = [c \in Caller |-> 0]
  /\ outcome = [c \in Caller |-> "none"]
  /\ runs = [k \in RunKey |-> 0]
  /\ hurt = {}

-----------------------------------------------------------------------------
(* A call draws a fresh token (pid, nanoseconds and a sequence number). *)
NewCall(c, k) ==
  /\ pc[c] = "idle"
  /\ seq[c] < MaxCalls
  /\ seq' = [seq EXCEPT ![c] = @ + 1]
  /\ key' = [key EXCEPT ![c] = k]

(* The call goes on to step s and will return o. *)
Goto(c, s, o) ==
  /\ pc' = [pc EXCEPT ![c] = s]
  /\ outcome' = [outcome EXCEPT ![c] = o]

MyToken(c) == <<c, seq[c]>>

(* First line of defence: SET NX took the key. *)
TryLockGranted(c, k) ==
  /\ NewCall(c, k)
  /\ SetNxSucceeds(lock[k])
  /\ lock' = [lock EXCEPT ![k] = SetNx(<<c, seq[c] + 1>>)]
  /\ Goto(c, "recording", "none")
  /\ UNCHANGED <<jobRuns, runs, hurt>>

(* SET NX found the key: Ok(SkippedNoLock). *)
TryLockRefused(c, k) ==
  /\ NewCall(c, k)
  /\ ~SetNxSucceeds(lock[k])
  /\ Goto(c, "idle", "SkippedNoLock")
  /\ UNCHANGED <<lock, jobRuns, runs, hurt>>

(* `try_lock(..).await?` fails: the SET may or may not have been applied.  *)
(* If it was, nobody will ever unlock the key.                             *)
TryLockFails(c, k) ==
  /\ NewCall(c, k)
  /\ \/ UNCHANGED lock
     \/ /\ SetNxSucceeds(lock[k])
        /\ lock' = [lock EXCEPT ![k] = SetNx(<<c, seq[c] + 1>>)]
  /\ Goto(c, "idle", "Err")
  /\ hurt' = hurt \cup {k}
  /\ UNCHANGED <<jobRuns, runs>>

-----------------------------------------------------------------------------
(* Mutant of RecordInserted: a table without UNIQUE (job_name, run_key). *)
RecordInsertedNoUnique(c) ==
  /\ pc[c] = "recording"
  /\ jobRuns' = [jobRuns EXCEPT ![key[c]] = @ \cup {c}]
  /\ Goto(c, "ready", "none")
  /\ UNCHANGED <<lock, key, seq, runs, hurt>>

(* Mutant of RecordInserted: the arms of Ok(true) and Ok(false) swapped. *)
RecordInsertedSkips(c) ==
  /\ pc[c] = "recording"
  /\ jobRuns[key[c]] = {}
  /\ jobRuns' = [jobRuns EXCEPT ![key[c]] = {c}]
  /\ Goto(c, "unlocking", "SkippedDuplicate")
  /\ UNCHANGED <<lock, key, seq, runs, hurt>>

(* Second line of defence, record_run: INSERT .. ON CONFLICT DO NOTHING.   *)
RecordInserted(c) ==
  /\ pc[c] = "recording"
  /\ jobRuns[key[c]] = {}
  /\ jobRuns' = [jobRuns EXCEPT ![key[c]] = {c}]
  /\ Goto(c, "ready", "none")
  /\ UNCHANGED <<lock, key, seq, runs, hurt>>

RecordConflict(c) ==
  /\ pc[c] = "recording"
  /\ jobRuns[key[c]] # {}
  /\ Goto(c, "unlocking", "SkippedDuplicate")
  /\ UNCHANGED <<lock, jobRuns, key, seq, runs, hurt>>

(* Mutant of RecordFails: an error of record_run does not stop the call. *)
RecordFailsIgnored(c) ==
  /\ pc[c] = "recording"
  /\ Goto(c, "ready", "none")
  /\ hurt' = hurt \cup {key[c]}
  /\ UNCHANGED <<lock, jobRuns, key, seq, runs>>

(* The statement fails for the caller: it may have been committed or not.  *)
RecordFails(c) ==
  /\ pc[c] = "recording"
  /\ \/ UNCHANGED jobRuns
     \/ /\ jobRuns[key[c]] = {}
        /\ jobRuns' = [jobRuns EXCEPT ![key[c]] = {c}]
  /\ Goto(c, "unlocking", "Err")
  /\ hurt' = hurt \cup {key[c]}
  /\ UNCHANGED <<lock, key, seq, runs>>

-----------------------------------------------------------------------------
(* Mutant of BusinessStarts: the business is started before record_run. *)
BusinessStartsEarly(c) ==
  /\ pc[c] \in {"recording", "ready"}
  /\ runs' = [runs EXCEPT ![key[c]] = @ + 1]
  /\ Goto(c, "running", "none")
  /\ UNCHANGED <<lock, jobRuns, key, seq, hurt>>

(* `business().await`: it starts, and later returns Ok or Err. *)
BusinessStarts(c) ==
  /\ pc[c] = "ready"
  /\ runs' = [runs EXCEPT ![key[c]] = @ + 1]
  /\ Goto(c, "running", "none")
  /\ UNCHANGED <<lock, jobRuns, key, seq, hurt>>

BusinessReturns(c) ==
  /\ pc[c] = "running"
  /\ \E o \in {"Executed", "Err"} : Goto(c, "unlocking", o)
  /\ UNCHANGED <<lock, jobRuns, key, seq, runs, hurt>>

(* Mutant of Unlock: the call insists on deleting the key itself. *)
UnlockInsists(c) ==
  /\ pc[c] = "unlocking"
  /\ lock[key[c]] = SetNx(MyToken(c))
  /\ lock' = [lock EXCEPT ![key[c]] = Absent]
  /\ Goto(c, "idle", outcome[c])
  /\ UNCHANGED <<jobRuns, key, seq, runs, hurt>>

(* `let _ = unlock(..).await`: the outcome is returned whatever unlock     *)
(* says; on a Redis error the key may be left to its TTL.                  *)
Unlock(c) ==
  /\ pc[c] = "unlocking"
  /\ \/ lock' = [lock EXCEPT ![key[c]] = CompareAndDelete(@, MyToken(c))]
     \/ UNCHANGED lock
  /\ Goto(c, "idle", outcome[c])
  /\ UNCHANGED <<jobRuns, key, seq, runs, hurt>>

-----------------------------------------------------------------------------
(* Mutant of LockExpires: `SET key token NX` without PX. *)
LockNeverExpires(k) == FALSE /\ UNCHANGED vars

(* The TTL of the key runs out, whatever its holder is doing. *)
LockExpires(k) ==
  /\ lock[k] # Absent
  /\ lock' = [lock EXCEPT ![k] = Absent]
  /\ UNCHANGED <<jobRuns, pc, key, seq, outcome, runs, hurt>>

(* The process of a caller dies inside the call; a restarted process may   *)
(* call again.  Redis and Postgres keep what was written.                  *)
Crash(c) ==
  /\ pc[c] # "idle"
  /\ Goto(c, "idle", "none")
  /\ hurt' = hurt \cup {key[c]}
  /\ UNCHANGED <<lock, jobRuns, key, seq, runs>>

TryLock(c) ==
  \E k \in RunKey :
    TryLockGranted(c, k) \/ TryLockRefused(c, k) \/ TryLockFails(c, k)

RecordRun(c) == RecordInserted(c) \/ RecordConflict(c) \/ RecordFails(c)

(* What a call does by itself once it is under way. *)
Proceed(c) ==
  RecordRun(c) \/ BusinessStarts(c) \/ BusinessReturns(c) \/ Unlock(c)

(* Nothing is left to do: every caller has used up MaxCalls.  It keeps the *)
(* deadlock check meaningful in the bounded model.                         *)
AllCallsMade ==
  /\ \A c \in Caller : pc[c] = "idle" /\ seq[c] = MaxCalls
  /\ \A k \in RunKey : lock[k] = Absent
  /\ UNCHANGED vars

Next ==
  \/ \E c \in Caller : TryLock(c) \/ Proceed(c) \/ Crash(c)
  \/ \E k \in RunKey : LockExpires(k)
  \/ AllCallsMade

Spec == Init /\ [][Next]_vars

(* A running call is polled until it returns (its awaits complete), and    *)
(* Redis deletes a key whose TTL has run out.                              *)
Fairness ==
  /\ \A c \in Caller : WF_vars(Proceed(c))
  /\ \A k \in RunKey : WF_vars(LockExpires(k))

FairSpec == Spec /\ Fairness

-----------------------------------------------------------------------------
Active(c, k) == pc[c] # "idle" /\ key[c] = k

(* The business of one trigger is started at most once in the cluster,     *)
(* even when the lock expires under its holder, calls fail or processes    *)
(* die and call again: what the comment of guarded_tick calls "never       *)
(* executed twice".                                                        *)
AtMostOnce == \A k \in RunKey : runs[k] <= 1

(* No business runs without its trace: the row of the trigger exists, and  *)
(* names the instance that is about to run or is running it.               *)
RunIsRecorded ==
  /\ \A k \in RunKey : runs[k] > 0 => jobRuns[k] # {}
  /\ \A c \in Caller : pc[c] \in {"ready", "running"} => jobRuns[key[c]] = {c}

(* The strengthening of AtMostOnce that every step preserves. *)
OnceInv ==
  /\ AtMostOnce
  /\ RunIsRecorded
  /\ \A c \in Caller : pc[c] = "ready" => runs[key[c]] = 0

(* The strengthening of SettledMeansExecuted.  In an unhurt trigger the    *)
(* row means that the business has run or is about to; a held lock, or an  *)
(* answer given to anybody, means that it has run or that some call is     *)
(* still at it; and nobody unlocks before there is a row.                  *)
RowMeansRun(k) ==
  jobRuns[k] # {} =>
    runs[k] = 1 \/ \E d \in Caller : pc[d] = "ready" /\ key[d] = k

TouchedMeansBusy(k) ==
  (lock[k] # Absent \/ \E c \in Caller : key[c] = k /\ outcome[c] # "none") =>
    runs[k] = 1 \/ \E d \in Caller : Active(d, k)

UnlocksAfterRow(k) ==
  \A c \in Caller : pc[c] = "unlocking" /\ key[c] = k => jobRuns[k] # {}

SettleInv ==
  \A k \in RunKey \ hurt :
    RowMeansRun(k) /\ TouchedMeansBusy(k) /\ UnlocksAfterRow(k)

IInv == TypeOK /\ OnceInv /\ SettleInv

(* Losing the lock costs nothing: it may expire under its holder at any     *)
(* moment, but as long as no call for a trigger fails or dies, the trigger *)
(* is not lost: once no call for it is under way, its business has run,    *)
(* whoever skipped it.                                                     *)
SettledMeansExecuted ==
  \A c \in Caller :
    LET k == key[c] IN
      (/\ k \notin hurt
       /\ outcome[c] # "none"
       /\ \A d \in Caller : ~Active(d, k)) => runs[k] = 1

(* The lock of a trigger is never held for ever: neither a crashed holder  *)
(* nor a lost unlock blocks the key, because the SET carries a TTL.        *)
LockIsReleased == \A k \in RunKey : lock[k] # Absent ~> lock[k] = Absent

(* Every call returns to its scheduler. *)
CallReturns == \A c \in Caller : pc[c] # "idle" ~> pc[c] = "idle"

(* Nothing is held up for ever: neither a trigger's key nor a scheduler.   *)
CallsEnd == LockIsReleased /\ CallReturns

-----------------------------------------------------------------------------
(* The abstract promise: a trigger is claimed once, and run at most once   *)
(* after it was claimed.                                                   *)
Claimed == {k \in RunKey : jobRuns[k] # {}}

Once == INSTANCE RunOnce WITH claimed <- Claimed, runs <- runs

ImplementsRunOnce == Once!Spec
=============================================================================
