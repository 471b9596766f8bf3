----------------------------- MODULE MCStreams ------------------------------
(***************************************************************************)
(* Model-checking instance of what the servers stream: the hub of realtime *)
(* (RealtimeHub) and the monitoring feed. They are programs of their own   *)
(* and share no state, so that one run checks them side by side: `part`    *)
(* says which one moves.                                                   *)
(***************************************************************************)
EXTENDS RealtimeHub

CONSTANTS Page, Reading, CHANNEL_CAPACITY, MaxFrames

VARIABLES part,
          f_frame, step, latest, sent, f_pc, f_next, initial, shown,
          f_told, table

Feed == INSTANCE MonitorFeed WITH
  frame <- f_frame, pc <- f_pc, next <- f_next, told <- f_told

feedVars ==
  <<f_frame, step, latest, sent, f_pc, f_next, initial, shown, f_told, table>>
all == <<part, vars, feedVars>>

ASSUME MCAssumption ==
  /\ HubAssumption /\ Feed!FeedAssumption

(* A WebSocket whose socket never fills up before the watchdog runs out,   *)
(* and an SSE stream that a single unread frame blocks.                    *)
Windows == [c \in Conn |-> IF c \in Ws THEN MaxEvents + Timeout + 1 ELSE 1]

(* The first reading breaks the CPU rule and two disks' rules, the second   *)
(* is at every threshold or just below it.                                  *)
Disk(m, used) == [mount |-> m, total |-> 200, avail |-> 200 - 2 * used]
Readings ==
  {[cpu |-> 91, mem_total |-> 0, mem_used |-> 0, load |-> 1,
    disks |-> <<Disk("/", 85), Disk("/logs", 95)>>],
   [cpu |-> 90, mem_total |-> 10, mem_used |-> 10, load |-> 1,
    disks |-> <<Disk("/", 84)>>]}

MCInit ==
  /\ part \in {"hub", "feed"}
  /\ Init
  /\ Feed!Init

MCNext ==
  /\ UNCHANGED part
  /\ \/ part = "hub" /\ Next /\ UNCHANGED <<feedVars>>
     \/ part = "feed" /\ Feed!Next /\ UNCHANGED <<vars>>

MCSpec ==
  /\ MCInit /\ [][MCNext]_all
  /\ \/ part = "hub" /\ Fairness
     \/ part = "feed" /\ Feed!Fairness

FeedAgrees == Feed!FeedAgrees
PageCatchesUp == Feed!PageCatchesUp
=============================================================================
