---------------------------- MODULE IntervalJob ----------------------------
(***************************************************************************)
(* scheduler_demo: `run_interval_job`, the loop that selects between the   *)
(* ticks of a tokio interval and the shutdown token.                       *)
(*                                                                         *)
(* The interval keeps the default MissedTickBehavior, Burst: its deadline  *)
(* moves by exactly one period per tick, so that ticks missed while        *)
(* on_tick ran are all ready at once afterwards.  select! polls its        *)
(* branches in a random order: with a tick and the token both ready either *)
(* branch may win.                                                         *)
(*                                                                         *)
(* The run key of a tick is the bucket of the wall clock at the moment the *)
(* tick is run (bucket_run_key): only its phase in the bucket and the      *)
(* number of buckets passed since the last tick are kept.  The phase of    *)
(* the first tick is arbitrary: the loop starts when its instance does.    *)
(***************************************************************************)
EXTENDS Integers

CONSTANTS
  Period,     \* the period of the interval, in clock units
  MaxLag      \* bound: how far the loop may fall behind its interval

PeriodAssumption == Period \in Nat \ {0}
LagAssumption == MaxLag \in Nat

VARIABLES
  pc,         \* "new", "select", "ticking" (inside on_tick) or "stopped"
  due,        \* time left before the next deadline; negative when missed
  cancelled,  \* the CancellationToken has been cancelled
  waited,     \* time since the loop was entered, saturating at Period
  open,       \* ticks whose on_tick has started and not finished
  phase,      \* the wall clock within its bucket
  passed,     \* buckets passed since the run key of the last tick, up to 2
  onTime      \* the last tick was run on its deadline

bucket == <<phase, passed, onTime>>
vars == <<pc, due, cancelled, waited, open, bucket>>

(* Mutant of period_secs: the period is given in another unit. *)
period_secs_doubled == 2 * Period

(* What bucket_run_key divides by; its `.max(1)` never matters here. *)
period_secs == Period

TypeOK ==
  /\ pc \in {"new", "select", "ticking", "stopped"}
  /\ due \in -MaxLag..Period
  /\ cancelled \in BOOLEAN
  /\ waited \in 0..Period
  /\ open \in 0..1
  /\ phase \in 0..(period_secs - 1) /\ passed \in 0..2 /\ onTime \in BOOLEAN

Init ==
  /\ pc = "new"
  /\ due = 0
  /\ cancelled = FALSE
  /\ waited = 0
  /\ open = 0
  /\ phase \in 0..(period_secs - 1) /\ passed = 0 /\ onTime = FALSE

Saturate(n, top) == IF n < top THEN n + 1 ELSE top

(* Mutant of SkipFirstTick: the immediate first tick is not consumed. *)
KeepFirstTick ==
  /\ pc = "new"
  /\ pc' = "select"
  /\ UNCHANGED <<due, cancelled, waited, open, bucket>>

(* interval() is ready at once; the first `ticker.tick().await` consumes   *)
(* that tick so that the first business tick waits a full period.          *)
SkipFirstTick ==
  /\ pc = "new"
  /\ pc' = "select"
  /\ due' = Period
  /\ UNCHANGED <<cancelled, waited, open, bucket>>

(* The tick branch of select! wins: on_tick is awaited in the branch. *)
TickFires ==
  /\ pc = "select"
  /\ due <= 0
  /\ due' = due + Period
  /\ pc' = "ticking"
  /\ open' = open + 1
  /\ onTime' = (due = 0) /\ passed' = 0
  /\ UNCHANGED <<cancelled, waited, phase>>

TickReturns ==
  /\ pc = "ticking"
  /\ pc' = "select"
  /\ open' = open - 1
  /\ UNCHANGED <<due, cancelled, waited, bucket>>

(* Mutant of ObserveShutdown: the token is raced against on_tick as well. *)
AbortTick ==
  /\ pc \in {"select", "ticking"}
  /\ cancelled
  /\ pc' = "stopped"
  /\ UNCHANGED <<due, cancelled, waited, open, bucket>>

(* Mutant of ObserveShutdown: `biased;` with the tick branch first. *)
ObserveShutdownBiased ==
  /\ pc = "select"
  /\ cancelled
  /\ due > 0
  /\ pc' = "stopped"
  /\ UNCHANGED <<due, cancelled, waited, open, bucket>>

(* The shutdown branch of select! wins. *)
ObserveShutdown ==
  /\ pc = "select"
  /\ cancelled
  /\ pc' = "stopped"
  /\ UNCHANGED <<due, cancelled, waited, open, bucket>>

(* Somebody cancels the token; the loop may not even have started. *)
Cancel ==
  /\ ~cancelled
  /\ cancelled' = TRUE
  /\ UNCHANGED <<pc, due, waited, open, bucket>>

(* Time passes while on_tick runs or while the loop has nothing ready: a   *)
(* ready branch is polled at once.                                         *)
Clock ==
  /\ \/ pc = "ticking"
     \/ pc = "select" /\ due > 0 /\ ~cancelled
  /\ due > -MaxLag
  /\ due' = due - 1
  /\ waited' = Saturate(waited, Period)
  /\ phase' = (phase + 1) % period_secs
  /\ passed' = IF phase' = 0 THEN Saturate(passed, 2) ELSE passed
  /\ UNCHANGED <<pc, cancelled, open, onTime>>

(* The loop has returned. *)
Returned == pc = "stopped" /\ UNCHANGED vars

Next ==
  \/ SkipFirstTick \/ TickFires \/ TickReturns \/ ObserveShutdown
  \/ Cancel \/ Clock \/ Returned

Spec == Init /\ [][Next]_vars

(* The loop's task is polled, on_tick returns, and select!'s random choice *)
(* does not pick the tick branch for ever when the token is ready too:     *)
(* that takes strong fairness, since a running on_tick disables the choice.*)
Fairness ==
  /\ WF_vars(SkipFirstTick)
  /\ WF_vars(TickReturns)
  /\ SF_vars(ObserveShutdown)

FairSpec == Spec /\ Fairness

-----------------------------------------------------------------------------
(* The first business tick waits a full period: no on_tick begins earlier, *)
(* whatever the cancellation does.                                         *)
FirstTickWaits == open > 0 => waited = Period

(* Shutdown never cuts a tick short: when the loop has returned, every     *)
(* on_tick it started has finished.                                        *)
DrainedWhenStopped == pc = "stopped" => open = 0

(* Once cancelled the loop ends, even when on_tick is slower than the      *)
(* period and the interval always has a missed tick ready.                 *)
ShutdownCompletes == cancelled ~> pc = "stopped"

(* A tick on its deadline after a tick on its deadline is in the very next *)
(* bucket, whatever the phase of the instance: no trigger is swallowed by  *)
(* the UNIQUE run key of the one before, and no bucket is left out.        *)
EachBucketOnce ==
  [][(open' > open /\ onTime /\ due = 0) => passed = 1]_vars

(* Ticks are whole: none before the first period, none cut short by the    *)
(* shutdown, none swallowed by the run key of the tick before.             *)
TicksWhole == [](FirstTickWaits /\ DrainedWhenStopped) /\ EachBucketOnce
=============================================================================
