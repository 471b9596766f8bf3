--------------------------- MODULE MCMonitorFeed ---------------------------
(* Model-checking instance of MonitorFeed: the order of the frames that a  *)
(* page draws, whatever they show.                                         *)
EXTENDS MonitorFeed

Readings ==
  {[cpu |-> 91, mem_total |-> 10, mem_used |-> 5, load |-> 1, disks |-> <<>>]}
=============================================================================
