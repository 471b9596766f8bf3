---------------------------- MODULE DemoCluster ----------------------------
(***************************************************************************)
(* scheduler_demo/src/main.rs: two instances in one process.  Each runs    *)
(* run_interval_job with an on_tick that reads the wall clock and calls    *)
(* guarded_tick (module GuardedTick) for the bucket it finds; main sleeps, *)
(* cancels the token, joins the tasks and counts the rows of job_runs.     *)
(*                                                                         *)
(* A run key is the bucket itself.  The clock moves whatever the tasks do, *)
(* so that ticks may be late, and the two instances begin at any phase.    *)
(***************************************************************************)
EXTENDS GuardedTick, FiniteSets

CONSTANTS
  PERIOD,
  Runtime,    \* how long main sleeps
  LastTime    \* bound: the clock

(* There is a run key for every bucket of the clock. *)
DemoAssumption ==
  /\ MaxCalls \in Nat
  /\ PERIOD \in Nat \ {0} /\ LastTime \in Nat /\ PERIOD <= LastTime
  /\ {t \div PERIOD : t \in 0..LastTime} \subseteq RunKey

VARIABLES
  now,        \* the wall clock
  loop,       \* "new", "select", "trying" (before try_lock), "ticking", "stopped"
  due,        \* the next deadline of an instance's interval
  shutdown,   \* the token is cancelled
  main,       \* "asleep", "joining", "counting", "done" or "failed"
  n,          \* what count_runs returned
  triggered   \* history: buckets in which an on_tick began

demo == <<now, loop, due, shutdown, main, n, triggered>>
demoVars == <<vars, demo>>

bucket_run_key(t) == t \div PERIOD

DemoInit ==
  /\ Init
  /\ key = [c \in Caller |-> 0]
  /\ now \in 0..(PERIOD - 1)
  /\ loop = [c \in Caller |-> "new"] /\ due = [c \in Caller |-> 0]
  /\ shutdown = FALSE /\ main = "asleep" /\ n = 0 /\ triggered = {}

Set(c, s) == loop' = [loop EXCEPT ![c] = s]

(* spawn_instance: run_interval_job begins, and skips its first tick. *)
SkipFirstTick(c) ==
  /\ loop[c] = "new"
  /\ Set(c, "select")
  /\ due' = [due EXCEPT ![c] = now + PERIOD]
  /\ UNCHANGED <<vars, now, shutdown, main, n, triggered>>

(* The tick branch wins; on_tick computes the run key of the moment. *)
TickFires(c) ==
  /\ loop[c] = "select" /\ due[c] <= now /\ seq[c] < MaxCalls
  /\ Set(c, "trying")
  /\ due' = [due EXCEPT ![c] = @ + PERIOD]
  /\ key' = [key EXCEPT ![c] = bucket_run_key(now)]
  /\ triggered' = triggered \cup {bucket_run_key(now)}
  /\ UNCHANGED <<lock, jobRuns, pc, seq, outcome, runs, hurt>>
  /\ UNCHANGED <<now, shutdown, main, n>>

(* The call of guarded_tick, and its steps. *)
Tries(c) ==
  /\ loop[c] = "trying"
  /\ \/ TryLockGranted(c, key[c]) \/ TryLockRefused(c, key[c])
     \/ TryLockFails(c, key[c])
  /\ Set(c, "ticking")
  /\ UNCHANGED <<now, due, shutdown, main, n, triggered>>

Works(c) == Proceed(c) /\ UNCHANGED demo

(* Its outcome is only logged. *)
TickReturns(c) ==
  /\ loop[c] = "ticking" /\ pc[c] = "idle"
  /\ Set(c, "select")
  /\ UNCHANGED <<vars, now, due, shutdown, main, n, triggered>>

(* Mutant of ObserveShutdown: the token is raced against on_tick as well. *)
AbortTick(c) ==
  /\ loop[c] \in {"select", "trying"} /\ shutdown
  /\ Set(c, "stopped")
  /\ UNCHANGED <<vars, now, due, shutdown, main, n, triggered>>

ObserveShutdown(c) ==
  /\ loop[c] = "select" /\ shutdown
  /\ Set(c, "stopped")
  /\ UNCHANGED <<vars, now, due, shutdown, main, n, triggered>>

-----------------------------------------------------------------------------
(* main sleeps at least as long as it says. *)
Cancel ==
  /\ main = "asleep" /\ now >= Runtime
  /\ shutdown' = TRUE /\ main' = "joining"
  /\ UNCHANGED <<vars, now, loop, due, n, triggered>>

(* Mutant of Join: select! in place of join!. *)
JoinOne ==
  /\ main = "joining" /\ \E c \in Caller : loop[c] = "stopped"
  /\ main' = "counting"
  /\ UNCHANGED <<vars, now, loop, due, shutdown, n, triggered>>

Join ==
  /\ main = "joining" /\ \A c \in Caller : loop[c] = "stopped"
  /\ main' = "counting"
  /\ UNCHANGED <<vars, now, loop, due, shutdown, n, triggered>>

count_runs ==
  /\ main = "counting"
  /\ \/ main' = "done" /\ n' = Cardinality({k \in RunKey : jobRuns[k] # {}})
     \/ main' = "failed" /\ UNCHANGED n
  /\ UNCHANGED <<vars, now, loop, due, shutdown, triggered>>

(* The lock may expire at any moment, as in GuardedTick. *)
Expires == \E k \in RunKey : LockExpires(k) /\ UNCHANGED demo

Clock ==
  /\ now < LastTime /\ now' = now + 1
  /\ UNCHANGED <<vars, loop, due, shutdown, main, n, triggered>>

Ended == main \in {"done", "failed"} /\ UNCHANGED demoVars

spawn_instance(c) ==
  SkipFirstTick(c) \/ TickFires(c) \/ Tries(c) \/ Works(c) \/ TickReturns(c)
    \/ ObserveShutdown(c)

DemoNext ==
  \/ \E c \in Caller : spawn_instance(c)
  \/ Cancel \/ Join \/ count_runs \/ Expires \/ Clock \/ Ended

DemoSpec == DemoInit /\ [][DemoNext]_demoVars

-----------------------------------------------------------------------------
(* What main reports: when both tasks were joined, every bucket in which   *)
(* some instance ticked has been run exactly once, and is counted once,    *)
(* however late the ticks and however early the locks expired; unless a    *)
(* call for it failed.  Nothing runs after the count.                      *)
CountIsRuns ==
  main = "done" =>
    /\ \A c \in Caller : pc[c] = "idle"
    /\ \A k \in RunKey : runs[k] <= 1
    /\ \A k \in RunKey \ hurt : runs[k] = 1 <=> k \in triggered
    /\ hurt = {} => n = Cardinality(triggered)
=============================================================================
