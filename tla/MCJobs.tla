------------------------------- MODULE MCJobs -------------------------------
(***************************************************************************)
(* Model-checking instance of jobs that are interrupted and taken up       *)
(* again: the consumers of a queue (MqRabbit) and the rotation of keys.    *)
(* They share no state, so that one run checks the two side by side:       *)
(* `part` says which one moves.                                            *)
(***************************************************************************)
EXTENDS KeyRotation

CONSTANTS Consumer, N, Bad, MaxPublished, MaxCalls

VARIABLES part,
          declared, published, wire, queue, unacked, inbox, acks, removed, pc,
          jobs, handed, calls, failed, gone

Queue == INSTANCE MqRabbit

queueVars ==
  <<declared, published, wire, queue, unacked, inbox, acks, removed, pc, jobs,
    handed, calls, failed, gone>>
all == <<part, vars, queueVars>>

ASSUME MCAssumption ==
  /\ Queue!MqAssumption

(* One person's number is written in two ways, the other's in one.         *)
MCPhone ==
  {[of |-> "p", format |-> "plain"], [of |-> "p", format |-> "dashed"],
   [of |-> "q", format |-> "plain"]}

MCInit ==
  /\ part \in {"rotation", "queue"}
  /\ Init
  /\ Queue!Init

MCNext ==
  /\ UNCHANGED part
  /\ \/ part = "rotation" /\ Next /\ UNCHANGED <<queueVars>>
     \/ part = "queue" /\ Queue!Next /\ UNCHANGED <<vars>>

MCSpec ==
  /\ MCInit /\ [][MCNext]_all
  /\ \/ part = "rotation" /\ Fairness
     \/ part = "queue" /\ Queue!Fairness

JobsKept == Queue!JobsKept
CallReturns == Queue!CallReturns
=============================================================================
