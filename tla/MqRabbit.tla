------------------------------ MODULE MqRabbit ------------------------------
(***************************************************************************)
(* mq_rabbit/src/lib.rs: `publish` and `consume_n` on one durable queue of *)
(* a RabbitMQ broker.  Messages are numbered in the order they are         *)
(* published, so that the ready queue is a set read from its minimum: the  *)
(* broker requeues an unacknowledged message to its original place.        *)
(* Nothing limits the prefetch, and no channel is put in confirm mode.     *)
(***************************************************************************)
EXTENDS Naturals, Sequences, FiniteSetsExt

CONSTANTS
  Consumer,     \* channels on which consume_n is called
  N,            \* the jobs one call wants
  Bad,          \* messages that are not the JSON of an EmailJob
  MaxPublished, \* bound: messages
  MaxCalls      \* bound: calls of consume_n on one channel

MqAssumption ==
  /\ N \in Nat \ {0}
  /\ MaxPublished \in Nat /\ MaxCalls \in Nat
  /\ Bad \subseteq 1..MaxPublished

VARIABLES
  declared,   \* the queue exists
  published,  \* messages for which publish returned Ok
  wire,       \* their frames that the broker has not read
  queue,      \* ready messages
  unacked,    \* delivered on a channel and not acknowledged
  inbox,      \* deliveries the consumer stream has not processed
  acks,       \* basic.ack frames the broker has not read
  removed,    \* acknowledged: the broker has forgotten them
  pc,         \* "closed" (no channel), "receiving", "acking", "returned"
  jobs,       \* the vector of the current call
  handed,     \* handed[m]: how often m was in a vector returned by Ok
  calls,
  failed,     \* history: some call returned Err, or a channel died
  gone        \* history: messages that went with the publisher's connection

broker == <<queue, unacked, removed>>
vars == <<declared, published, wire, queue, unacked, inbox, acks, removed, pc,
          jobs, handed, calls, failed, gone>>

Msg == 1..MaxPublished

TypeOK ==
  /\ declared \in BOOLEAN
  /\ published \in 0..MaxPublished
  /\ wire \subseteq Msg /\ queue \subseteq Msg /\ removed \subseteq Msg
  /\ unacked \in [Consumer -> SUBSET Msg]
  /\ acks \in [Consumer -> SUBSET Msg]
  /\ inbox \in [Consumer -> Seq(Msg)] /\ jobs \in [Consumer -> Seq(Msg)]
  /\ pc \in [Consumer -> {"closed", "receiving", "acking", "returned"}]
  /\ handed \in [Msg -> Nat]
  /\ calls \in [Consumer -> 0..MaxCalls]
  /\ failed \in BOOLEAN /\ gone \subseteq Msg

Init ==
  /\ declared = FALSE
  /\ published = 0
  /\ wire = {} /\ queue = {} /\ removed = {}
  /\ unacked = [c \in Consumer |-> {}]
  /\ acks = [c \in Consumer |-> {}]
  /\ inbox = [c \in Consumer |-> <<>>]
  /\ jobs = [c \in Consumer |-> <<>>]
  /\ pc = [c \in Consumer |-> "closed"]
  /\ handed = [m \in Msg |-> 0]
  /\ calls = [c \in Consumer |-> 0]
  /\ failed = FALSE /\ gone = {}

InCall(c) == pc[c] \in {"receiving", "acking"}
Elements(s) == {s[i] : i \in DOMAIN s}

-----------------------------------------------------------------------------
(* What declare_queue and publish ask of the broker for its next restart.  *)
durable_unset == FALSE  \* mutant: the default of QueueDeclareOptions
durable == TRUE
delivery_mode == 2

(* Idempotent; whoever publishes has declared the queue before.            *)
declare_queue ==
  /\ ~declared
  /\ declared' = TRUE
  /\ UNCHANGED <<published, wire, broker, inbox, acks, pc, jobs, handed, calls,
                 failed, gone>>

(* publish returns Ok: the frame is written; without confirm mode the      *)
(* second await completes at once.                                         *)
publish ==
  /\ published < MaxPublished
  /\ published > 0 \/ declared
  /\ published' = published + 1
  /\ wire' = wire \cup {published + 1}
  /\ UNCHANGED <<declared, broker, inbox, acks, pc, jobs, handed, calls,
                 failed, gone>>

(* The broker reads a frame (the default exchange drops what it finds no   *)
(* queue for), or the publisher's connection breaks and what was in flight *)
(* is gone.                                                                *)
FrameArrives ==
  /\ wire # {}
  /\ wire' = wire \ {Min(wire)}
  /\ queue' = IF declared THEN queue \cup {Min(wire)} ELSE queue
  /\ UNCHANGED <<declared, published, unacked, inbox, acks, removed, pc, jobs,
                 handed, calls, failed, gone>>

FramesLost ==
  /\ wire # {}
  /\ wire' = {}
  /\ gone' = gone \cup wire
  /\ UNCHANGED <<declared, published, broker, inbox, acks, pc, jobs, handed,
                 calls, failed>>

-----------------------------------------------------------------------------
(* consume_n subscribes, on a new channel or on the one of its last call. *)
Subscribe(c) ==
  /\ declared
  /\ pc[c] \in {"closed", "returned"}
  /\ calls[c] < MaxCalls
  /\ calls' = [calls EXCEPT ![c] = @ + 1]
  /\ pc' = [pc EXCEPT ![c] = "receiving"]
  /\ jobs' = [jobs EXCEPT ![c] = <<>>]
  /\ inbox' = [inbox EXCEPT ![c] = <<>>]
  /\ UNCHANGED <<declared, published, wire, broker, acks, handed, failed,
                 gone>>

(* There is no such queue: the broker closes the channel. *)
SubscribeFails(c) ==
  /\ ~declared
  /\ pc[c] \in {"closed", "returned"}
  /\ calls[c] < MaxCalls
  /\ calls' = [calls EXCEPT ![c] = @ + 1]
  /\ pc' = [pc EXCEPT ![c] = "closed"]
  /\ failed' = TRUE
  /\ UNCHANGED <<declared, published, wire, broker, inbox, acks, jobs, handed,
                 gone>>

(* The broker pushes the oldest ready message to an open channel; after    *)
(* the call has returned its consumer may not be cancelled yet.            *)
Deliver(c) ==
  /\ pc[c] # "closed"
  /\ queue # {}
  /\ LET m == Min(queue) IN
       /\ queue' = queue \ {m}
       /\ unacked' = [unacked EXCEPT ![c] = @ \cup {m}]
       /\ inbox' = [inbox EXCEPT ![c] = Append(@, m)]
  /\ UNCHANGED <<declared, published, wire, acks, removed, pc, jobs, handed,
                 calls, failed, gone>>

(* The call returns Err: what it had acknowledged goes with its vector.    *)
ReturnErr(c) ==
  /\ pc' = [pc EXCEPT ![c] = "returned"]
  /\ jobs' = [jobs EXCEPT ![c] = <<>>]
  /\ failed' = TRUE

(* Mutant of Receive: acknowledge first, decode afterwards. *)
ReceiveAcksFirst(c) ==
  /\ pc[c] = "receiving"
  /\ inbox[c] # <<>>
  /\ acks' = [acks EXCEPT ![c] = @ \cup {Head(inbox[c])}]
  /\ IF Head(inbox[c]) \in Bad
       THEN ReturnErr(c)
       ELSE pc' = [pc EXCEPT ![c] = "acking"] /\ UNCHANGED <<jobs, failed>>
  /\ UNCHANGED <<declared, published, wire, broker, inbox, handed, calls,
                 gone>>

(* The next delivery is decoded: a bad one ends the call without an        *)
(* acknowledgement, a good one is acknowledged.                            *)
Receive(c) ==
  /\ pc[c] = "receiving"
  /\ inbox[c] # <<>>
  /\ IF Head(inbox[c]) \in Bad
       THEN ReturnErr(c) /\ UNCHANGED acks
       ELSE /\ acks' = [acks EXCEPT ![c] = @ \cup {Head(inbox[c])}]
            /\ pc' = [pc EXCEPT ![c] = "acking"]
            /\ UNCHANGED <<jobs, failed>>
  /\ UNCHANGED <<declared, published, wire, broker, inbox, handed, calls,
                 gone>>

(* Mutant of AckSent: the loop ends before the last job is pushed. *)
AckSentDropsLast(c) ==
  /\ pc[c] = "acking"
  /\ inbox' = [inbox EXCEPT ![c] = Tail(@)]
  /\ IF Len(jobs[c]) + 1 = N
       THEN /\ pc' = [pc EXCEPT ![c] = "returned"]
            /\ handed' = [m \in Msg |->
                 handed[m] + IF m \in Elements(jobs[c]) THEN 1 ELSE 0]
            /\ UNCHANGED jobs
       ELSE /\ pc' = [pc EXCEPT ![c] = "receiving"]
            /\ jobs' = [jobs EXCEPT ![c] = Append(@, Head(inbox[c]))]
            /\ UNCHANGED handed
  /\ UNCHANGED <<declared, published, wire, broker, acks, calls, failed, gone>>

(* ack().await is over: the frame is written (the broker may not have read *)
(* it).  The job is pushed; with N of them the call returns Ok(jobs).      *)
AckSent(c) ==
  /\ pc[c] = "acking"
  /\ inbox' = [inbox EXCEPT ![c] = Tail(@)]
  /\ LET got == Append(jobs[c], Head(inbox[c])) IN
       /\ jobs' = [jobs EXCEPT ![c] = got]
       /\ IF Len(got) = N
            THEN /\ pc' = [pc EXCEPT ![c] = "returned"]
                 /\ handed' = [m \in Msg |->
                      handed[m] + IF m \in Elements(got) THEN 1 ELSE 0]
            ELSE /\ pc' = [pc EXCEPT ![c] = "receiving"]
                 /\ UNCHANGED handed
  /\ UNCHANGED <<declared, published, wire, broker, acks, calls, failed, gone>>

BrokerReadsAck(c) ==
  /\ acks[c] # {}
  /\ \E m \in acks[c] :
       /\ acks' = [acks EXCEPT ![c] = @ \ {m}]
       /\ unacked' = [unacked EXCEPT ![c] = @ \ {m}]
       /\ removed' = removed \cup {m}
  /\ UNCHANGED <<declared, published, wire, queue, inbox, pc, jobs, handed,
                 calls, failed, gone>>

(* Mutant of Timeout: recv_loop is awaited without a timeout. *)
TimeoutNever(c) == FALSE /\ UNCHANGED vars

(* The timeout drops recv_loop wherever it stands. *)
Timeout(c) ==
  /\ InCall(c)
  /\ ReturnErr(c)
  /\ UNCHANGED <<declared, published, wire, broker, inbox, acks, handed, calls,
                 gone>>

(* Mutant of ChannelCloses: the call goes on with what it has, on a new    *)
(* channel.                                                                *)
ChannelReopens(c) ==
  /\ InCall(c)
  /\ queue' = queue \cup unacked[c]
  /\ unacked' = [unacked EXCEPT ![c] = {}]
  /\ acks' = [acks EXCEPT ![c] = {}]
  /\ inbox' = [inbox EXCEPT ![c] = <<>>]
  /\ pc' = [pc EXCEPT ![c] = "receiving"]
  /\ failed' = TRUE
  /\ UNCHANGED <<declared, published, wire, removed, jobs, handed, calls,
                 gone>>

(* The channel is closed, its connection breaks or its process dies: a     *)
(* running call ends with Err, acks not yet read are lost and the broker   *)
(* requeues what is unacknowledged.                                        *)
ChannelCloses(c) ==
  /\ pc[c] # "closed"
  /\ queue' = queue \cup unacked[c]
  /\ unacked' = [unacked EXCEPT ![c] = {}]
  /\ acks' = [acks EXCEPT ![c] = {}]
  /\ inbox' = [inbox EXCEPT ![c] = <<>>]
  /\ pc' = [pc EXCEPT ![c] = "closed"]
  /\ jobs' = [jobs EXCEPT ![c] = <<>>]
  /\ failed' = TRUE
  /\ UNCHANGED <<declared, published, wire, removed, handed, calls, gone>>

(* An orderly restart of the broker: every connection breaks, and what is  *)
(* left is what was declared durable, with the persistent messages in it.  *)
BrokerRestarts ==
  /\ declared' = (declared /\ durable)
  /\ queue' = IF durable /\ delivery_mode = 2
                THEN queue \cup UNION {unacked[c] : c \in Consumer} ELSE {}
  /\ unacked' = [c \in Consumer |-> {}]
  /\ acks' = [c \in Consumer |-> {}]
  /\ inbox' = [c \in Consumer |-> <<>>]
  /\ pc' = [c \in Consumer |-> "closed"]
  /\ jobs' = [c \in Consumer |-> <<>>]
  /\ failed' = TRUE
  /\ wire' = {}
  /\ gone' = gone \cup wire
  /\ UNCHANGED <<published, removed, handed, calls>>

(* The bounds of the model are used up. *)
NothingLeft ==
  /\ published = MaxPublished /\ wire = {}
  /\ \A c \in Consumer : pc[c] = "closed" /\ calls[c] = MaxCalls
  /\ UNCHANGED vars

Next ==
  \/ declare_queue \/ publish \/ FrameArrives \/ FramesLost \/ BrokerRestarts
  \/ \E c \in Consumer :
       \/ Subscribe(c) \/ SubscribeFails(c) \/ Deliver(c)
       \/ Receive(c) \/ AckSent(c) \/ BrokerReadsAck(c) \/ Timeout(c)
       \/ ChannelCloses(c)
  \/ NothingLeft

Spec == Init /\ [][Next]_vars

(* The runtime polls a call and its timer. *)
Fairness ==
  \A c \in Consumer :
    WF_vars(Receive(c)) /\ WF_vars(AckSent(c)) /\ WF_vars(Timeout(c))

FairSpec == Spec /\ Fairness

-----------------------------------------------------------------------------
(* A running call of c has m in its vector, or is about to push it. *)
InHandsOf(c, m) ==
  /\ InCall(c)
  /\ \/ m \in Elements(jobs[c])
     \/ pc[c] = "acking" /\ m = Head(inbox[c])

(* What publish returned Ok for is somewhere until it is acknowledged, in  *)
(* whatever order connections break, consumers come and go and the broker  *)
(* restarts; only a frame in flight can be lost.                           *)
NothingVanishes ==
  \A m \in 1..published :
    m \notin gone =>
      \/ m \in wire \cup queue \cup removed
      \/ \E c \in Consumer : m \in unacked[c]

(* A message that cannot be decoded is never acknowledged: it stays with   *)
(* the broker.                                                             *)
BadStaysInQueue == NothingVanishes /\ removed \cap Bad = {}

(* One call never returns a job twice, although the broker redelivers: its *)
(* vector does not outlive its channel.                                    *)
NoJobTwice ==
  \A c \in Consumer : \A i, j \in DOMAIN jobs[c] :
    jobs[c][i] = jobs[c][j] => i = j

(* As long as nothing fails, an acknowledged message reaches a caller      *)
(* exactly once: it is in the hands of a running call or was returned.     *)
AckedReachesCaller ==
  ~failed =>
    \A m \in removed :
      handed[m] + Cardinality({c \in Consumer : InHandsOf(c, m)}) = 1

(* "The timeout keeps tests from hanging": a call returns although there   *)
(* are fewer than N messages.                                              *)
CallReturns == \A c \in Consumer : InCall(c) ~> ~InCall(c)

(* "At least once": the broker redelivers what its consumer did not finish *)
(* processing, so a job the broker has forgotten is with a caller or in    *)
(* the vector of a call that will return it.                               *)
AtLeastOnce ==
  \A m \in removed : handed[m] > 0 \/ \E c \in Consumer : InHandsOf(c, m)

(* What becomes of a message: good ones are acknowledged into the hands of *)
(* one call, once; bad ones stay where they are.                           *)
JobsKept == BadStaysInQueue /\ NoJobTwice /\ AckedReachesCaller
=============================================================================
