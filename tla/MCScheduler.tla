---------------------------- MODULE MCScheduler ----------------------------
(***************************************************************************)
(* Model-checking instance of the scheduler: guarded_tick called at any    *)
(* time by anybody (GuardedTick) and the interval loop in the time of its  *)
(* interval (IntervalJob).  A tick knows its run key and nothing of the    *)
(* loop, the loop awaits on_tick whatever it does, so that one run checks  *)
(* the two side by side: `part` says which one moves.                      *)
(***************************************************************************)
EXTENDS GuardedTick

CONSTANTS Period, MaxLag

VARIABLES part, lpc, due, cancelled, waited, open, phase, passed, onTime

Loop == INSTANCE IntervalJob WITH pc <- lpc

loopVars == <<lpc, due, cancelled, waited, open, phase, passed, onTime>>
all == <<vars, part, loopVars>>

ASSUME LoopAssumption == Loop!PeriodAssumption /\ Loop!LagAssumption

MCInit ==
  /\ Init
  /\ part \in {"tick", "loop"}
  /\ Loop!Init
  /\ part = "tick" => phase = 0
  /\ part = "loop" => key = CHOOSE f \in [Caller -> RunKey] : TRUE

MCNext ==
  /\ UNCHANGED part
  /\ \/ part = "tick" /\ Next /\ UNCHANGED loopVars
     \/ part = "loop" /\ Loop!Next /\ UNCHANGED vars

MCSpec ==
  /\ MCInit /\ [][MCNext]_all
  /\ \/ part = "tick" /\ Fairness
     \/ part = "loop" /\ Loop!Fairness

ShutdownCompletes == Loop!ShutdownCompletes
TicksWhole == Loop!TicksWhole
=============================================================================
