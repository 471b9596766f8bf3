------------------------------ MODULE RunOnce ------------------------------
(***************************************************************************)
(* What scheduler_demo promises about a trigger: whoever handles it, it is *)
(* first claimed (a durable mark that is never taken back), then run at    *)
(* most once.  A claimed trigger may never run: its claimer may die.       *)
(***************************************************************************)
EXTENDS Naturals

CONSTANT RunKey

VARIABLES
  claimed,    \* the triggers somebody claimed
  runs        \* how many times each trigger was run

vars == <<claimed, runs>>

Init ==
  /\ claimed = {}
  /\ runs = [k \in RunKey |-> 0]

Claim(k) ==
  /\ k \notin claimed
  /\ claimed' = claimed \cup {k}
  /\ UNCHANGED runs

Run(k) ==
  /\ k \in claimed
  /\ runs[k] = 0
  /\ runs' = [runs EXCEPT ![k] = 1]
  /\ UNCHANGED claimed

Next == \E k \in RunKey : Claim(k) \/ Run(k)

Spec == Init /\ [][Next]_vars
=============================================================================
