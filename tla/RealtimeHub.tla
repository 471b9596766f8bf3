---------------------------- MODULE RealtimeHub ----------------------------
(***************************************************************************)
(* realtime_demo: the broadcast hub (hub.rs) and its connections: the      *)
(* select loop of a WebSocket (ws.rs) and the stream of an SSE response    *)
(* (sse.rs).  Events are numbered as they are published.  A frame is       *)
(* written to a socket whose buffer holds a few frames; a peer that does   *)
(* not read lets it fill up, and then the write waits.  (An SSE peer is    *)
(* told that it missed events, but not how many.)                          *)
(*                                                                         *)
(* One unit of time is HEARTBEAT_INTERVAL.                                 *)
(***************************************************************************)
EXTENDS Integers, Sequences, FiniteSets

CONSTANTS
  Ws, Sse,    \* connections
  Capacity,   \* CHANNEL_CAPACITY
  Timeout,    \* CLIENT_TIMEOUT
  Window,     \* frames that the socket of a connection buffers
  MaxEvents   \* bound: events published

Conn == Ws \cup Sse

(* CLIENT_TIMEOUT is two heartbeats at least, as a test of ws.rs asserts. *)
HubAssumption ==
  /\ Capacity \in Nat \ {0} /\ Timeout \in Nat \ {0, 1}
  /\ Window \in [Conn -> Nat \ {0}]
  /\ MaxEvents \in Nat
  /\ Ws \cap Sse = {} /\ IsFiniteSet(Ws)

VARIABLES
  tail,       \* events published
  pc,         \* "off", "select", "sending" (awaits a write), "closed"
  next,       \* the next event a receiver reads
  frame,      \* the frame being written
  socket,     \* frames written and not yet read by the peer
  inbound,    \* frames of the peer that the loop has not taken
  peer,       \* "reading", or "stalled": neither reads nor answers
  idle,       \* time left to the watchdog
  beat,       \* time left to the next Ping
  first,      \* history: the first event after the subscription
  told,       \* history: events written to the peer or reported as missed
  why,        \* history: why the loop ended
  stalled     \* history: connections whose peer has ever stalled

io == <<frame, socket, inbound>>
timers == <<idle, beat>>
vars == <<tail, pc, next, io, peer, timers, first, told, why, stalled>>

Ping == [kind |-> "ping", n |-> 0]
EventFrame(e) == [kind |-> "event", n |-> e]
Missed(k) == [kind |-> "lagged", n |-> k]
Frames == [kind : {"ping", "event", "lagged"}, n : 0..MaxEvents]

TypeOK ==
  /\ tail \in 0..MaxEvents
  /\ pc \in [Conn -> {"off", "select", "sending", "closed"}]
  /\ next \in [Conn -> 0..MaxEvents]
  /\ frame \in [Conn -> Frames]
  /\ socket \in [Conn -> Seq(Frames)]
  /\ \A c \in Conn : Len(socket[c]) <= Window[c]
  /\ inbound \in [Conn -> Seq({"text", "pong", "close"})]
  /\ peer \in [Conn -> {"reading", "stalled"}]
  /\ idle \in [Conn -> 0..Timeout] /\ beat \in [Conn -> 0..1]
  /\ first \in [Conn -> 0..MaxEvents] /\ told \in [Conn -> 0..MaxEvents]
  /\ why \in [Conn -> {"none", "watchdog", "peer", "io"}]
  /\ stalled \subseteq Conn

Init ==
  /\ tail = 0
  /\ pc = [c \in Conn |-> "off"]
  /\ next = [c \in Conn |-> 0]
  /\ frame = [c \in Conn |-> Ping]
  /\ socket = [c \in Conn |-> <<>>]
  /\ inbound = [c \in Conn |-> <<>>]
  /\ peer = [c \in Conn |-> "reading"]
  /\ idle = [c \in Conn |-> Timeout]
  /\ beat = [c \in Conn |-> 0]
  /\ first = [c \in Conn |-> 0] /\ told = [c \in Conn |-> 0]
  /\ why = [c \in Conn |-> "none"]
  /\ stalled = {}

-----------------------------------------------------------------------------
(* Bound: the events published, and the texts still to be, are MaxEvents. *)
Texts == {c \in Ws : inbound[c] # <<>> /\ Head(inbound[c]) = "text"}
Room == tail + Cardinality(Texts) < MaxEvents

(* Hub::publish never waits for a receiver. *)
Publish == tail' = tail + 1

publish ==
  /\ Room
  /\ Publish
  /\ UNCHANGED <<pc, next, io, peer, timers, first, told, why, stalled>>

(* handle_socket or sse_handler starts: the receiver gets what is sent     *)
(* from now on; the first tick of the heartbeat is due at once.            *)
Subscribe(c) ==
  /\ pc[c] = "off"
  /\ pc' = [pc EXCEPT ![c] = "select"]
  /\ next' = [next EXCEPT ![c] = tail]
  /\ first' = [first EXCEPT ![c] = tail]
  /\ UNCHANGED <<tail, io, peer, timers, told, why, stalled>>

Send(c, f) ==
  /\ pc' = [pc EXCEPT ![c] = "sending"]
  /\ frame' = [frame EXCEPT ![c] = f]

Close(c, reason) ==
  /\ pc' = [pc EXCEPT ![c] = "closed"]
  /\ why' = [why EXCEPT ![c] = reason]

(* recv: the next event is still in the ring. *)
Recv(c) ==
  /\ pc[c] = "select"
  /\ next[c] < tail
  /\ tail - next[c] <= Capacity
  /\ Send(c, EventFrame(next[c]))
  /\ next' = [next EXCEPT ![c] = @ + 1]
  /\ UNCHANGED <<tail, socket, inbound, peer, timers, first, told, why,
                 stalled>>

(* Mutant of Lagged: the lost events are passed over in silence. *)
LaggedSilently(c) ==
  /\ pc[c] = "select"
  /\ tail - next[c] > Capacity
  /\ next' = [next EXCEPT ![c] = tail - Capacity]
  /\ UNCHANGED <<tail, pc, io, peer, timers, first, told, why, stalled>>

(* recv: Lagged(n), the receiver goes on from the oldest event in the      *)
(* ring, and the peer is told.                                             *)
Lagged(c) ==
  /\ pc[c] = "select"
  /\ tail - next[c] > Capacity
  /\ Send(c, Missed(tail - Capacity - next[c]))
  /\ next' = [next EXCEPT ![c] = tail - Capacity]
  /\ UNCHANGED <<tail, socket, inbound, peer, timers, first, told, why,
                 stalled>>

(* The write completes when the socket has room. *)
Sent(c) ==
  /\ pc[c] = "sending"
  /\ Len(socket[c]) < Window[c]
  /\ socket' = [socket EXCEPT ![c] = Append(@, frame[c])]
  /\ told' = [told EXCEPT ![c] =
       CASE frame[c].kind = "event" -> @ + 1
         [] frame[c].kind = "lagged" -> @ + frame[c].n
         [] OTHER -> @]
  /\ pc' = [pc EXCEPT ![c] = "select"]
  /\ UNCHANGED <<tail, next, frame, inbound, peer, timers, first, why, stalled>>

(* The connection is broken: the write or the read fails. *)
Broken(c) ==
  /\ pc[c] \in {"select", "sending"}
  /\ Close(c, "io")
  /\ UNCHANGED <<tail, next, io, peer, timers, first, told, stalled>>

-----------------------------------------------------------------------------
(* Mutant of Received: only a text puts the watchdog off. *)
ReceivedTextOnly(c) ==
  /\ pc[c] = "select"
  /\ inbound[c] # <<>>
  /\ inbound' = [inbound EXCEPT ![c] = Tail(@)]
  /\ idle' = [idle EXCEPT ![c] = IF Head(inbound[c]) = "text" THEN Timeout ELSE @]
  /\ IF Head(inbound[c]) = "close" THEN Close(c, "peer") ELSE UNCHANGED <<pc, why>>
  /\ IF Head(inbound[c]) = "text" THEN Publish ELSE UNCHANGED tail
  /\ UNCHANGED <<next, frame, socket, peer, beat, first, told, stalled>>

(* The loop takes a frame of the peer: it puts the watchdog off; a text is *)
(* published, Close ends the loop, Pong needs nothing more.                *)
Received(c) ==
  /\ pc[c] = "select"
  /\ inbound[c] # <<>>
  /\ inbound' = [inbound EXCEPT ![c] = Tail(@)]
  /\ idle' = [idle EXCEPT ![c] = Timeout]
  /\ IF Head(inbound[c]) = "close" THEN Close(c, "peer") ELSE UNCHANGED <<pc, why>>
  /\ IF Head(inbound[c]) = "text" THEN Publish ELSE UNCHANGED tail
  /\ UNCHANGED <<next, frame, socket, peer, beat, first, told, stalled>>

HeartbeatTick(c) ==
  /\ pc[c] = "select"
  /\ beat[c] = 0
  /\ Send(c, Ping)
  /\ beat' = [beat EXCEPT ![c] = 1]
  /\ UNCHANGED <<tail, next, socket, inbound, peer, idle, first, told, why,
                 stalled>>

(* Mutant of IdleDeadline: the select! has no watchdog branch. *)
IdleDeadlineMissing(c) == FALSE /\ UNCHANGED vars

(* The watchdog has run out.  When a frame of the peer is ready as well,   *)
(* select! picks one of the two at random.                                 *)
IdleDeadline(c) ==
  /\ pc[c] = "select"
  /\ idle[c] = 0
  /\ Close(c, "watchdog")
  /\ UNCHANGED <<tail, next, io, peer, timers, first, told, stalled>>

-----------------------------------------------------------------------------
(* The peer reads a frame and answers a Ping with a Pong. *)
PeerReads(c) ==
  /\ peer[c] = "reading"
  /\ socket[c] # <<>>
  /\ socket' = [socket EXCEPT ![c] = Tail(@)]
  /\ inbound' = [inbound EXCEPT ![c] =
       IF c \in Ws /\ Head(socket[c]).kind = "ping" THEN Append(@, "pong") ELSE @]
  /\ UNCHANGED <<tail, pc, next, frame, peer, timers, first, told, why, stalled>>

(* The peer of a WebSocket sends a text, or closes. *)
PeerSends(c) ==
  /\ c \in Ws
  /\ peer[c] = "reading"
  /\ pc[c] \in {"select", "sending"}
  /\ inbound[c] = <<>>
  /\ \E f \in {"text", "close"} :
       /\ f = "text" => Room
       /\ inbound' = [inbound EXCEPT ![c] = <<f>>]
  /\ UNCHANGED <<tail, pc, next, frame, socket, peer, timers, first, told, why,
                 stalled>>

(* The peer dies without a sign: its machine, or the network, is gone. *)
PeerStalls(c) ==
  /\ peer[c] = "reading"
  /\ pc[c] \in {"select", "sending"}
  /\ peer' = [peer EXCEPT ![c] = "stalled"]
  /\ stalled' = stalled \cup {c}
  /\ UNCHANGED <<tail, pc, next, io, timers, first, told, why>>

(* Time passes: what a loop or a reading peer can do is done before, while *)
(* a write that waits for a stalled peer stops its loop only.              *)
Clock ==
  /\ \A c \in Conn :
       /\ pc[c] = "sending" => Len(socket[c]) = Window[c]
       /\ peer[c] = "reading" => socket[c] = <<>>
       /\ (pc[c] = "select" /\ c \in Ws) =>
            (inbound[c] = <<>> /\ idle[c] > 0 /\ beat[c] > 0)
       /\ pc[c] = "select" => next[c] = tail
  /\ LET down(f, c) == IF c \in Ws /\ pc[c] \in {"select", "sending"} /\ f[c] > 0
                         THEN f[c] - 1 ELSE f[c] IN
       /\ idle' = [c \in Conn |-> down(idle, c)]
       /\ beat' = [c \in Conn |-> down(beat, c)]
  /\ UNCHANGED <<tail, pc, next, io, peer, first, told, why, stalled>>

Loop(c) ==
  \/ Recv(c) \/ Lagged(c) \/ Sent(c)
  \/ c \in Ws /\ (Received(c) \/ HeartbeatTick(c) \/ IdleDeadline(c))

Next ==
  \/ publish
  \/ \E c \in Conn :
       \/ Subscribe(c) \/ Loop(c) \/ Broken(c)
       \/ PeerReads(c) \/ PeerSends(c) \/ PeerStalls(c)
  \/ Clock

Spec == Init /\ [][Next]_vars

(* The runtime polls the loops, select! picks every ready branch some      *)
(* time, a reading peer reads, time goes on.                               *)
Fairness ==
  /\ WF_vars(Clock)
  /\ \A c \in Conn : WF_vars(PeerReads(c)) /\ WF_vars(Loop(c))
  /\ \A c \in Ws : SF_vars(IdleDeadline(c))

FairSpec == Spec /\ Fairness

-----------------------------------------------------------------------------
(* What a connection was told of, in events, from the first it could get.  *)
Position == [c \in Conn |-> first[c] + told[c]]
Joined ==
  [c \in Conn |-> CASE pc[c] = "off" -> "off"
                    [] pc[c] = "closed" -> "left"
                    [] OTHER -> "on"]

(* Nothing is lost in silence: what is written to a connection, whichever  *)
(* branch of its loop writes it and whatever is published meanwhile, is    *)
(* each event once and in order, and where the ring has overtaken it the   *)
(* number of those it missed.                                              *)
Stream == INSTANCE AnnouncedStream WITH
  Listener <- Conn, published <- tail, joined <- Joined,
  position <- Position, wire <- socket

ImplementsStream == Stream!Spec

(* The watchdog hits nobody who is there: a peer that keeps reading (and   *)
(* thereby answers each Ping) is never closed as dead.                     *)
AliveIsKept == \A c \in Ws : why[c] = "watchdog" => c \in stalled

(* The socket takes all that can be written before the watchdog runs out. *)
Roomy(c) == Window[c] > MaxEvents + Timeout

(* Beyond CLIENT_TIMEOUT without any message from the peer the connection  *)
(* is closed and cleaned up.  Only a roomy socket has this: on a full one  *)
(* the loop waits in a write, where it does not poll its watchdog.         *)
SilentIsClosed ==
  \A c \in {d \in Ws : Roomy(d)} :
    (pc[c] \in {"select", "sending"} /\ peer[c] = "stalled") ~> pc[c] = "closed"
=============================================================================
