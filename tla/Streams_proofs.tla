--------------------------- MODULE Streams_proofs ---------------------------
(***************************************************************************)
(* Proofs about what the servers stream: the hub of realtime (RealtimeHub) *)
(* and the monitoring feed (MonitorFeed, as the instance Feed), for any    *)
(* connections and pages, windows, capacities and bounds.                  *)
(***************************************************************************)
EXTENDS MCStreams, SequenceTheorems, FiniteSetTheorems, WellFoundedInduction,
        TLAPS

-----------------------------------------------------------------------------
(* RealtimeHub.                                                            *)

(* A text is the first frame of the peer that waits, and it was counted. *)
TextInv ==
  /\ tail + Cardinality(Texts) <= MaxEvents
  /\ \A c \in Conn : \A i \in DOMAIN inbound[c] :
       i > 1 => inbound[c][i] = "pong"

(* Events that a frame tells the peer of. *)
Worth(f) ==
  CASE f.kind = "event" -> 1
    [] f.kind = "lagged" -> f.n
    [] OTHER -> 0

(* What a connection was told of, and will be by the frame it is writing,  *)
(* are the events from its first to the next that it reads.                *)
ToldInv ==
  \A c \in Conn :
    /\ next[c] <= tail
    /\ pc[c] = "off" => told[c] = 0
    /\ pc[c] = "select" => first[c] + told[c] = next[c]
    /\ pc[c] = "sending" => first[c] + told[c] + Worth(frame[c]) = next[c]

(* A Ping, or the answer to one, is on its way around. *)
PingUnderWay(c) ==
  \/ pc[c] = "sending" /\ frame[c].kind = "ping"
  \/ \E i \in DOMAIN socket[c] : socket[c][i].kind = "ping"
  \/ inbound[c] # <<>>

(* The loop of a peer that keeps reading is at most one heartbeat behind   *)
(* the last sign of life, and then the next sign is under way or due.      *)
AliveInv ==
  \A c \in Ws \ stalled :
    /\ peer[c] = "reading"
    /\ why[c] # "watchdog"
    /\ pc[c] \in {"off", "select", "sending"} =>
         /\ idle[c] >= Timeout - 1
         /\ idle[c] = Timeout \/ beat[c] = 0 \/ PingUnderWay(c)

HubInv == TypeOK /\ TextInv /\ ToldInv /\ AliveInv

LEMMA HubInit == ASSUME HubAssumption, Init PROVE HubInv
<1>1. TypeOK
  BY EmptySeq DEF HubAssumption, Init, TypeOK, Conn, Frames, Ping
<1>2. TextInv
  <2>1. Texts = {} BY DEF Init, Texts, Conn
  <2> QED BY <2>1, FS_EmptySet DEF Init, TextInv, HubAssumption
<1>3. ToldInv BY DEF Init, ToldInv
<1>4. AliveInv BY DEF Init, AliveInv, Conn, HubAssumption
<1> QED BY <1>1, <1>2, <1>3, <1>4 DEF HubInv

(* A step that leaves what the peers send alone. *)
LEMMA TextKept ==
  ASSUME TextInv, tail' <= tail, tail' \in Nat, tail \in Nat, UNCHANGED inbound,
         Cardinality(Texts) \in Nat, MaxEvents \in Nat
  PROVE  TextInv'
<1>1. Texts' = Texts BY DEF Texts
<1> QED BY <1>1 DEF TextInv

LEMMA TextsFinite ==
  ASSUME HubAssumption
  PROVE  IsFiniteSet(Texts) /\ Cardinality(Texts) \in Nat
<1>1. Texts \subseteq Ws BY DEF Texts
<1> QED BY <1>1, FS_Subset, FS_CardinalityType DEF HubAssumption

(* Every step that is not about the peers' frames. *)
LEMMA PublishKeeps ==
  ASSUME HubAssumption, HubInv, publish PROVE HubInv'
<1> USE DEF publish, Publish, io, timers, HubInv
<1>0. Cardinality(Texts) \in Nat BY TextsFinite
<1>1. tail' \in 0..MaxEvents /\ tail' = tail + 1
  BY <1>0 DEF Room, TypeOK, HubAssumption
<1>2. TypeOK' BY <1>1 DEF TypeOK
<1>3. TextInv'
  <2>1. Texts' = Texts BY DEF Texts
  <2> QED BY <2>1, <1>0, <1>1 DEF TextInv, Room, TypeOK, HubAssumption
<1>4. ToldInv' BY <1>1 DEF ToldInv, TypeOK
<1>5. AliveInv' BY DEF AliveInv, PingUnderWay
<1> QED BY <1>2, <1>3, <1>4, <1>5

LEMMA SubscribeKeeps ==
  ASSUME HubAssumption, HubInv, NEW c \in Conn, Subscribe(c) PROVE HubInv'
<1> USE DEF Subscribe, io, timers, HubInv
<1>0. Cardinality(Texts) \in Nat BY TextsFinite
<1>2. TypeOK' BY DEF TypeOK
<1>3. TextInv' BY <1>0, TextKept DEF TypeOK, HubAssumption
<1>4. ToldInv' BY DEF ToldInv, TypeOK
<1>5. AliveInv' BY DEF AliveInv, PingUnderWay, TypeOK, Conn
<1> QED BY <1>2, <1>3, <1>4, <1>5

LEMMA RecvKeeps ==
  ASSUME HubAssumption, HubInv, NEW c \in Conn, Recv(c) \/ Lagged(c)
  PROVE  HubInv'
<1> USE DEF HubInv
<1>0. Cardinality(Texts) \in Nat BY TextsFinite
<1>1. PICK f \in Frames, k \in Nat :
        /\ pc[c] = "select" /\ Send(c, f) /\ Worth(f) = k
        /\ next' = [next EXCEPT ![c] = @ + k] /\ next[c] + k <= tail
        /\ UNCHANGED <<tail, socket, inbound, peer, timers, first, told, why,
                       stalled>>
  <2>1. CASE Recv(c)
    <3>1. EventFrame(next[c]) \in Frames /\ Worth(EventFrame(next[c])) = 1
      BY DEF EventFrame, Frames, Worth, TypeOK
    <3>2. next[c] + 1 <= tail BY <2>1 DEF Recv, TypeOK
    <3> QED BY <2>1, <3>1, <3>2 DEF Recv
  <2>2. CASE Lagged(c)
    <3> DEFINE k == tail - Capacity - next[c]
    <3>1. k \in Nat /\ k \in 0..MaxEvents /\ next[c] + k = tail - Capacity
          /\ next[c] + k <= tail
      BY <2>2 DEF Lagged, TypeOK, HubAssumption
    <3>2. Missed(k) \in Frames /\ Worth(Missed(k)) = k
      BY <3>1 DEF Missed, Frames, Worth
    <3> HIDE DEF k
    <3>3. Send(c, Missed(k)) /\ next' = [next EXCEPT ![c] = next[c] + k]
      BY <2>2, <3>1 DEF Lagged, k
    <3> QED BY <2>2, <3>1, <3>2, <3>3 DEF Lagged
  <2> QED BY <2>1, <2>2
<1> USE DEF Send, timers
<1>2. TypeOK'
  <2>1. next[c] + k \in 0..MaxEvents BY <1>1 DEF TypeOK, HubAssumption
  <2> QED BY <1>1, <2>1 DEF TypeOK
<1>3. TextInv' BY <1>0, <1>1, TextKept DEF TypeOK, HubAssumption
<1>4. ToldInv' BY <1>1 DEF ToldInv, TypeOK
<1>5. AliveInv' BY <1>1 DEF AliveInv, PingUnderWay, TypeOK, Conn
<1> QED BY <1>2, <1>3, <1>4, <1>5

(* A frame that is written tells the peer of what it is worth. *)
LEMMA SentTells ==
  ASSUME TypeOK, NEW c \in Conn, Sent(c)
  PROVE  /\ frame[c] \in Frames /\ Worth(frame[c]) \in Nat
         /\ told' = [told EXCEPT ![c] = @ + Worth(frame[c])]
<1>1. /\ frame[c] \in Frames /\ frame[c].n \in Nat /\ told[c] \in Nat
      /\ frame[c].kind \in {"ping", "event", "lagged"}
  BY DEF TypeOK, Frames
<1>2. Worth(frame[c]) \in Nat BY <1>1 DEF Worth
<1>3. (CASE frame[c].kind = "event" -> told[c] + 1
         [] frame[c].kind = "lagged" -> told[c] + frame[c].n
         [] OTHER -> told[c]) = told[c] + Worth(frame[c])
  BY <1>1 DEF Worth
<1> QED BY <1>1, <1>2, <1>3 DEF Sent

LEMMA SentKeeps ==
  ASSUME HubAssumption, HubInv, NEW c \in Conn, Sent(c) PROVE HubInv'
<1> USE DEF timers, HubInv
<1>0. Cardinality(Texts) \in Nat BY TextsFinite
<1> DEFINE f == frame[c]
<1>1. f \in Frames /\ Worth(f) \in Nat
      /\ told' = [told EXCEPT ![c] = @ + Worth(f)]
  BY SentTells
<1> USE DEF Sent
<1>2. /\ socket'[c] \in Seq(Frames) /\ Len(socket'[c]) = Len(socket[c]) + 1
      /\ \A i \in 1..Len(socket[c]) : socket'[c][i] = socket[c][i]
      /\ socket'[c][Len(socket[c]) + 1] = f
  <2>0. socket[c] \in Seq(Frames) /\ c \in DOMAIN socket
    BY DEF TypeOK
  <2>1. socket[c] \in Seq(Frames) /\ socket'[c] = Append(socket[c], f)
    BY <2>0
  <2> HIDE DEF f
  <2> QED BY <1>1, <2>1, AppendProperties
<1>3. told[c] + Worth(f) \in 0..MaxEvents
  BY <1>1 DEF TypeOK, ToldInv, HubAssumption
<1>4. Len(socket'[c]) <= Window[c]
  BY <1>2, LenProperties DEF TypeOK, HubAssumption
<1>5. \A d \in Conn : socket'[d] \in Seq(Frames) /\ Len(socket'[d]) <= Window[d]
  BY <1>2, <1>4 DEF TypeOK
<1>6. TypeOK' BY <1>1, <1>3, <1>5 DEF TypeOK
<1>7. TextInv' BY <1>0, TextKept DEF TypeOK, HubAssumption
<1>8. ToldInv' BY <1>1 DEF ToldInv, TypeOK
<1>9. AliveInv'
  <2> SUFFICES ASSUME NEW d \in Ws \ stalled, PingUnderWay(d)
               PROVE  PingUnderWay(d)'
    BY DEF AliveInv, TypeOK, Conn
  <2>1. CASE d # c
    BY <2>1 DEF PingUnderWay, TypeOK, Conn
  <2>2. CASE d = c /\ f.kind = "ping"
    <3>1. Len(socket[c]) + 1 \in DOMAIN socket'[c]
      BY <1>2, LenProperties DEF TypeOK
    <3> QED BY <2>2, <1>2, <3>1 DEF PingUnderWay
  <2>3. CASE d = c /\ inbound[c] # <<>> BY <2>3 DEF PingUnderWay
  <2>4. CASE d = c /\ \E i \in DOMAIN socket[c] : socket[c][i].kind = "ping"
    <3>1. PICK i \in DOMAIN socket[c] : socket[c][i].kind = "ping" BY <2>4
    <3>2. i \in DOMAIN socket'[c] /\ socket'[c][i] = socket[c][i]
      BY <3>1, <1>2, LenProperties DEF TypeOK
    <3> QED BY <2>4, <3>1, <3>2 DEF PingUnderWay
  <2> QED BY <2>1, <2>2, <2>3, <2>4 DEF PingUnderWay
<1> QED BY <1>6, <1>7, <1>8, <1>9

(* A loop that ends leaves only its own place; a watchdog that ends it had *)
(* run out.                                                                *)
LEMMA CloseKeeps ==
  ASSUME HubAssumption, HubInv, NEW c \in Conn,
         Broken(c) \/ (c \in Ws /\ IdleDeadline(c))
  PROVE  HubInv'
<1> USE DEF HubInv
<1>0. Cardinality(Texts) \in Nat BY TextsFinite
<1>1. PICK w \in {"io", "watchdog"} :
        /\ Close(c, w) /\ (w = "watchdog" => c \in stalled)
        /\ UNCHANGED <<tail, next, io, peer, timers, first, told, stalled>>
  <2>1. CASE Broken(c) BY <2>1 DEF Broken
  <2>2. CASE c \in Ws /\ IdleDeadline(c)
    <3>1. c \notin stalled => idle[c] > 0
      BY <2>2 DEF IdleDeadline, AliveInv, HubAssumption, TypeOK
    <3> QED BY <2>2, <3>1 DEF IdleDeadline
  <2> QED BY <2>1, <2>2
<1> USE DEF Close, io, timers
<1>2. TypeOK' BY <1>1 DEF TypeOK
<1>3. TextInv' BY <1>0, <1>1, TextKept DEF TypeOK, HubAssumption
<1>4. ToldInv' BY <1>1 DEF ToldInv, TypeOK
<1>5. AliveInv' BY <1>1 DEF AliveInv, PingUnderWay, TypeOK, Conn
<1> QED BY <1>2, <1>3, <1>4, <1>5

(* The frames behind the one that the loop takes are answers to Pings. *)
LEMMA TextsOfReceived ==
  ASSUME HubAssumption, HubInv, NEW c \in Conn, inbound[c] # <<>>,
         inbound' = [inbound EXCEPT ![c] = Tail(@)]
  PROVE  /\ inbound'[c] \in Seq({"text", "pong", "close"})
         /\ \A i \in DOMAIN inbound'[c] : inbound'[c][i] = "pong"
         /\ Texts' = Texts \ {c}
<1> DEFINE F == {"text", "pong", "close"}
<1> USE DEF HubInv
<1>1. inbound[c] \in Seq(F) /\ inbound'[c] = Tail(inbound[c])
  BY DEF TypeOK
<1>2. /\ inbound'[c] \in Seq(F) /\ Len(inbound'[c]) = Len(inbound[c]) - 1
      /\ \A i \in 1..Len(inbound'[c]) : inbound'[c][i] = inbound[c][i + 1]
  BY <1>1, HeadTailProperties
<1>3. ASSUME NEW i \in DOMAIN inbound'[c] PROVE inbound'[c][i] = "pong"
  <2>1. i \in 1..Len(inbound'[c]) /\ Len(inbound'[c]) \in Nat
        /\ Len(inbound[c]) \in Nat
    BY <1>1, <1>2, LenProperties
  <2>2. i + 1 \in DOMAIN inbound[c] /\ i + 1 > 1
    BY <1>1, <1>2, <2>1, LenProperties
  <2> QED BY <1>2, <2>1, <2>2 DEF TextInv
<1>4. inbound'[c] # <<>> => Head(inbound'[c]) = "pong"
  <2> SUFFICES ASSUME inbound'[c] # <<>> PROVE Head(inbound'[c]) = "pong"
    OBVIOUS
  <2>1. 1 \in DOMAIN inbound'[c] BY <1>2, EmptySeq, LenProperties
  <2>2. Head(inbound'[c]) = inbound'[c][1] BY <1>2
  <2> QED BY <1>3, <2>1, <2>2
<1>5. Texts' = Texts \ {c} BY <1>4 DEF Texts, TypeOK, Conn
<1> QED BY <1>2, <1>3, <1>5

LEMMA ReceivedKeeps ==
  ASSUME HubAssumption, HubInv, NEW c \in Ws, Received(c) PROVE HubInv'
<1> USE DEF HubInv, Conn
<1>0. /\ IsFiniteSet(Texts) /\ Cardinality(Texts) \in Nat
  BY TextsFinite
<1>1. /\ inbound'[c] \in Seq({"text", "pong", "close"})
      /\ \A i \in DOMAIN inbound'[c] : inbound'[c][i] = "pong"
      /\ Texts' = Texts \ {c}
  BY TextsOfReceived DEF Received
<1>2. tail' + Cardinality(Texts') <= MaxEvents /\ tail' \in Nat /\ tail <= tail'
      /\ tail' <= MaxEvents
  <2>1. CASE Head(inbound[c]) = "text"
    <3>1. c \in Texts BY <2>1 DEF Texts, Received
    <3>2. Cardinality(Texts') = Cardinality(Texts) - 1
          /\ Cardinality(Texts') \in Nat
      BY <1>0, <1>1, <3>1, FS_RemoveElement, FS_CardinalityType
    <3>3. tail' = tail + 1 BY <2>1 DEF Received, Publish
    <3> QED BY <1>0, <3>2, <3>3 DEF TextInv, TypeOK, HubAssumption
  <2>2. CASE Head(inbound[c]) # "text"
    <3>1. Texts' = Texts BY <1>1, <2>2 DEF Texts
    <3>2. tail' = tail BY <2>2 DEF Received
    <3> QED BY <1>0, <3>1, <3>2 DEF TextInv, TypeOK, HubAssumption
  <2> QED BY <2>1, <2>2
<1>3. \/ UNCHANGED <<pc, why>>
      \/ Close(c, "peer")
  BY DEF Received
<1>4. /\ inbound' = [inbound EXCEPT ![c] = Tail(@)]
      /\ idle' = [idle EXCEPT ![c] = Timeout]
      /\ UNCHANGED <<next, frame, socket, peer, beat, first, told, stalled>>
      /\ pc[c] = "select"
  BY DEF Received
<1> USE DEF Close
<1>5. TypeOK'
  <2>1. inbound' \in [Conn -> Seq({"text", "pong", "close"})]
    BY <1>1, <1>4 DEF TypeOK
  <2>2. idle' \in [Conn -> 0..Timeout] BY <1>4 DEF TypeOK, HubAssumption
  <2>3. pc' \in [Conn -> {"off", "select", "sending", "closed"}]
        /\ why' \in [Conn -> {"none", "watchdog", "peer", "io"}]
    BY <1>3 DEF TypeOK
  <2>4. tail' \in 0..MaxEvents BY <1>2 DEF TypeOK, HubAssumption
  <2> QED BY <1>4, <2>1, <2>2, <2>3, <2>4 DEF TypeOK
<1>6. TextInv'
  <2>1. ASSUME NEW d \in Conn, NEW i \in DOMAIN inbound'[d], i > 1
        PROVE  inbound'[d][i] = "pong"
    BY <1>1, <1>4, <2>1 DEF TextInv, TypeOK
  <2> QED BY <1>2, <2>1 DEF TextInv
<1>7. ToldInv'
  <2>1. \A d \in Conn : pc'[d] = pc[d] \/ pc'[d] = "closed"
    BY <1>3 DEF TypeOK
  <2>2. \A d \in Conn : next[d] <= tail'
    BY <1>2 DEF ToldInv, TypeOK, HubAssumption
  <2> QED BY <1>4, <2>1, <2>2 DEF ToldInv
<1>8. AliveInv'
  <2> SUFFICES ASSUME NEW d \in Ws \ stalled
               PROVE  /\ why'[d] # "watchdog"
                      /\ pc'[d] \in {"off", "select", "sending"} =>
                           /\ idle'[d] >= Timeout - 1
                           /\ idle'[d] = Timeout \/ beat[d] = 0
                                \/ PingUnderWay(d)'
    BY <1>4 DEF AliveInv
  <2>1. CASE d = c
    BY <1>3, <1>4, <2>1 DEF AliveInv, TypeOK, HubAssumption
  <2>2. CASE d # c
    BY <1>3, <1>4, <2>2 DEF AliveInv, TypeOK, PingUnderWay
  <2> QED BY <2>1, <2>2
<1> QED BY <1>5, <1>6, <1>7, <1>8

LEMMA HeartbeatTickKeeps ==
  ASSUME HubAssumption, HubInv, NEW c \in Ws, HeartbeatTick(c) PROVE HubInv'
<1> USE DEF HubInv, Conn, HeartbeatTick, Send
<1>0. Cardinality(Texts) \in Nat BY TextsFinite
<1>1. Ping \in Frames /\ Worth(Ping) = 0
  BY DEF Ping, Frames, Worth, HubAssumption
<1>2. TypeOK' BY <1>1 DEF TypeOK
<1>3. TextInv' BY <1>0, TextKept DEF TypeOK, HubAssumption
<1>4. ToldInv' BY <1>1 DEF ToldInv, TypeOK
<1>5. AliveInv' BY DEF AliveInv, PingUnderWay, TypeOK, Ping
<1> QED BY <1>2, <1>3, <1>4, <1>5

(* A Pong goes behind whatever waits, so that no text is added. *)
LEMMA PongBehind ==
  ASSUME TypeOK, NEW c \in Conn,
         inbound' = [inbound EXCEPT ![c] = Append(@, "pong")]
  PROVE  /\ inbound'[c] \in Seq({"text", "pong", "close"})
         /\ inbound'[c] # <<>>
         /\ \A i \in DOMAIN inbound'[c] :
              \/ i \in DOMAIN inbound[c] /\ inbound'[c][i] = inbound[c][i]
              \/ inbound'[c][i] = "pong"
         /\ Texts' = Texts
<1> DEFINE F == {"text", "pong", "close"}
           s == inbound[c]
<1>1. s \in Seq(F) /\ inbound'[c] = Append(s, "pong") BY DEF TypeOK
<1> HIDE DEF s, F
<1>2. "pong" \in F BY DEF F
<1>3. /\ inbound'[c] \in Seq(F) /\ inbound'[c] # <<>>
      /\ Len(inbound'[c]) = Len(s) + 1
      /\ \A i \in 1..Len(s) : inbound'[c][i] = s[i]
      /\ inbound'[c][Len(s) + 1] = "pong"
  <2> DEFINE t == inbound'[c]
  <2>1. t = Append(s, "pong") BY <1>1
  <2> HIDE DEF t
  <2>2. /\ t \in Seq(F) /\ t # <<>> /\ Len(t) = Len(s) + 1
        /\ \A i \in 1..Len(s) : t[i] = s[i]
        /\ t[Len(s) + 1] = "pong"
    BY <1>1, <1>2, <2>1, AppendProperties
  <2> QED BY <2>2 DEF t
<1>4. ASSUME NEW i \in DOMAIN inbound'[c]
      PROVE  \/ i \in DOMAIN s /\ inbound'[c][i] = s[i]
             \/ inbound'[c][i] = "pong"
  BY <1>1, <1>3, LenProperties
<1>5. Head(inbound'[c]) = IF s = <<>> THEN "pong" ELSE Head(s)
  BY <1>1, HeadTailAppend
<1>6. Texts' = Texts
  <2>1. ASSUME NEW d \in Ws PROVE d \in Texts' <=> d \in Texts
    BY <1>3, <1>5 DEF Texts, s, TypeOK, Conn
  <2> QED BY <2>1 DEF Texts
<1> QED BY <1>3, <1>4, <1>6 DEF s, F

LEMMA PeerReadsKeeps ==
  ASSUME HubAssumption, HubInv, NEW c \in Conn, PeerReads(c) PROVE HubInv'
<1> USE DEF HubInv, timers
<1> DEFINE answered == c \in Ws /\ Head(socket[c]).kind = "ping"
<1>0. Cardinality(Texts) \in Nat BY TextsFinite
<1>1. /\ socket[c] # <<>> /\ socket' = [socket EXCEPT ![c] = Tail(@)]
      /\ answered => inbound' = [inbound EXCEPT ![c] = Append(@, "pong")]
      /\ ~answered => inbound' = inbound
      /\ UNCHANGED <<tail, pc, next, frame, peer, idle, beat, first, told, why,
                     stalled>>
  BY DEF PeerReads, TypeOK
<1> HIDE DEF answered
<1>2. /\ socket'[c] \in Seq(Frames) /\ Len(socket'[c]) = Len(socket[c]) - 1
      /\ \A i \in 1..Len(socket'[c]) : socket'[c][i] = socket[c][i + 1]
  <2> DEFINE q == socket[c]
             r == socket'[c]
  <2>1. q \in Seq(Frames) /\ r = Tail(q) /\ q # <<>>
    BY <1>1 DEF TypeOK
  <2> HIDE DEF q, r
  <2>2. /\ r \in Seq(Frames) /\ Len(r) = Len(q) - 1
        /\ \A i \in 1..Len(r) : r[i] = q[i + 1]
    BY <2>1, HeadTailProperties
  <2> QED BY <2>2 DEF q, r
<1>3. TypeOK'
  <2>1. socket' \in [Conn -> Seq(Frames)] BY <1>1, <1>2 DEF TypeOK
  <2>2. \A d \in Conn : Len(socket'[d]) <= Window[d]
    <3>1. Len(socket[c]) \in Nat BY LenProperties DEF TypeOK
    <3> QED BY <1>1, <1>2, <3>1 DEF TypeOK, HubAssumption
  <2>3. inbound' \in [Conn -> Seq({"text", "pong", "close"})]
    BY <1>1, PongBehind DEF TypeOK
  <2> QED BY <1>1, <2>1, <2>2, <2>3 DEF TypeOK
<1>4. TextInv'
  <2>1. CASE ~answered
    BY <1>0, <1>1, <2>1, TextKept DEF TypeOK, HubAssumption
  <2>2. CASE answered
    <3>1. Texts' = Texts BY <1>1, <2>2, PongBehind
    <3>2. ASSUME NEW d \in Conn, NEW i \in DOMAIN inbound'[d], i > 1
          PROVE  inbound'[d][i] = "pong"
      <4>1. CASE d = c BY <1>1, <2>2, <3>2, <4>1, PongBehind DEF TextInv
      <4>2. CASE d # c BY <1>1, <2>2, <3>2, <4>2 DEF TextInv, TypeOK
      <4> QED BY <4>1, <4>2
    <3> QED BY <1>1, <3>1, <3>2 DEF TextInv
  <2> QED BY <2>1, <2>2
<1>5. ToldInv' BY <1>1 DEF ToldInv
<1>6. AliveInv'
  <2> SUFFICES ASSUME NEW d \in Ws \ stalled, PingUnderWay(d)
               PROVE  PingUnderWay(d)'
    BY <1>1 DEF AliveInv
  <2>1. CASE d # c BY <1>1, <2>1 DEF PingUnderWay, TypeOK, Conn
  <2>2. CASE d = c /\ pc[d] = "sending" /\ frame[d].kind = "ping"
    BY <1>1, <2>2 DEF PingUnderWay
  <2>3. CASE d = c /\ inbound[d] # <<>>
    BY <1>1, <2>3, PongBehind DEF PingUnderWay
  <2>4. CASE d = c /\ \E i \in DOMAIN socket[d] : socket[d][i].kind = "ping"
    <3>1. PICK i \in DOMAIN socket[c] : socket[c][i].kind = "ping" BY <2>4
    <3>2. i \in 1..Len(socket[c]) /\ Len(socket[c]) \in Nat
          /\ DOMAIN socket'[c] = 1..Len(socket'[c])
      BY <1>2, LenProperties DEF TypeOK
    <3>3. CASE i = 1
      <4>1. Head(socket[c]) = socket[c][1] BY <1>1 DEF TypeOK
      <4>2. answered BY <2>4, <3>1, <3>3, <4>1 DEF answered
      <4> QED BY <1>1, <2>4, <4>2, PongBehind DEF PingUnderWay
    <3>4. CASE i > 1
      <4>1. i - 1 \in DOMAIN socket'[c] /\ socket'[c][i - 1] = socket[c][i]
        BY <1>2, <3>2, <3>4
      <4> QED BY <2>4, <3>1, <4>1 DEF PingUnderWay
    <3> QED BY <3>2, <3>3, <3>4
  <2> QED BY <2>1, <2>2, <2>3, <2>4 DEF PingUnderWay
<1> QED BY <1>3, <1>4, <1>5, <1>6

LEMMA PeerSendsKeeps ==
  ASSUME HubAssumption, HubInv, NEW c \in Conn, PeerSends(c) PROVE HubInv'
<1> USE DEF HubInv
<1>0. IsFiniteSet(Texts) /\ Cardinality(Texts) \in Nat BY TextsFinite
<1>2. PICK g \in {"text", "close"} :
        /\ g = "text" => Room
        /\ inbound' = [inbound EXCEPT ![c] = <<g>>]
  BY DEF PeerSends
<1>3. /\ c \in Ws /\ inbound[c] = <<>>
      /\ UNCHANGED <<tail, pc, next, frame, socket, peer, idle, beat, first,
                     told, why, stalled>>
  BY DEF PeerSends, timers
<1>4. inbound'[c] = <<g>> /\ <<g>> \in Seq({"text", "pong", "close"})
  BY <1>2 DEF TypeOK
<1>5. TypeOK' BY <1>2, <1>3, <1>4 DEF TypeOK
<1>6. TextInv'
  <2>1. Head(<<g>>) = g /\ <<g>> # <<>> OBVIOUS
  <2>2. Texts' = IF g = "text" THEN Texts \cup {c} ELSE Texts
    BY <1>2, <1>3, <1>4, <2>1 DEF Texts, TypeOK, Conn
  <2>3. c \notin Texts BY <1>3 DEF Texts
  <2>4. tail + Cardinality(Texts') <= MaxEvents
    <3>1. CASE g = "text"
      <4>1. Cardinality(Texts') = Cardinality(Texts) + 1
        BY <1>0, <2>2, <2>3, <3>1, FS_AddElement
      <4> QED BY <1>0, <1>2, <3>1, <4>1 DEF Room, TypeOK, HubAssumption
    <3>2. CASE g # "text" BY <2>2, <3>2 DEF TextInv
    <3> QED BY <3>1, <3>2
  <2>5. ASSUME NEW d \in Conn, NEW i \in DOMAIN inbound'[d], i > 1
        PROVE  inbound'[d][i] = "pong"
    <3>1. CASE d = c BY <1>4, <2>5, <3>1
    <3>2. CASE d # c BY <1>2, <2>5, <3>2 DEF TextInv, TypeOK
    <3> QED BY <3>1, <3>2
  <2> QED BY <1>3, <2>4, <2>5 DEF TextInv
<1>7. ToldInv' BY <1>3 DEF ToldInv
<1>8. AliveInv'
  <2>1. \A d \in Conn : inbound[d] # <<>> => inbound'[d] # <<>>
    BY <1>2, <1>3 DEF TypeOK
  <2> QED BY <1>3, <2>1 DEF AliveInv, PingUnderWay, Conn
<1> QED BY <1>5, <1>6, <1>7, <1>8

LEMMA PeerStallsKeeps ==
  ASSUME HubAssumption, HubInv, NEW c \in Conn, PeerStalls(c) PROVE HubInv'
<1> USE DEF HubInv, PeerStalls, io, timers
<1>0. Cardinality(Texts) \in Nat BY TextsFinite
<1>1. TypeOK' BY DEF TypeOK
<1>2. TextInv' BY <1>0, TextKept DEF TypeOK, HubAssumption
<1>3. ToldInv' BY DEF ToldInv
<1>4. AliveInv' BY DEF AliveInv, PingUnderWay, TypeOK, Conn
<1> QED BY <1>1, <1>2, <1>3, <1>4

(* Time passes only when the Ping of this interval has been sent, read and *)
(* answered, and the answer was taken: then the watchdog was just wound up.*)
LEMMA ClockKeeps ==
  ASSUME HubAssumption, HubInv, Clock PROVE HubInv'
<1> USE DEF HubInv
<1>0. Cardinality(Texts) \in Nat BY TextsFinite
<1>1. /\ UNCHANGED <<tail, pc, next, frame, socket, inbound, peer, first, told,
                     why, stalled>>
      /\ idle' \in [Conn -> 0..Timeout] /\ beat' \in [Conn -> 0..1]
      /\ \A c \in Conn : beat'[c] = beat[c] \/ beat'[c] = beat[c] - 1
      /\ \A c \in Conn : idle'[c] = idle[c] \/ idle'[c] = idle[c] - 1
      /\ \A c \in Ws : (pc[c] \in {"select", "sending"} /\ beat[c] > 0) =>
           beat'[c] = beat[c] - 1
      /\ \A c \in Conn : pc[c] = "off" => idle'[c] = idle[c]
  BY DEF Clock, io, TypeOK, HubAssumption, Conn
<1>2. TypeOK' BY <1>1 DEF TypeOK
<1>3. TextInv' BY <1>0, <1>1, TextKept DEF TypeOK, HubAssumption
<1>4. ToldInv' BY <1>1 DEF ToldInv
<1>5. AliveInv'
  <2> SUFFICES ASSUME NEW c \in Ws \ stalled,
                      pc[c] \in {"off", "select", "sending"}
               PROVE  /\ idle'[c] >= Timeout - 1
                      /\ idle'[c] = Timeout \/ beat'[c] = 0
                           \/ PingUnderWay(c)'
    BY <1>1 DEF AliveInv
  <2>0. c \in Conn /\ peer[c] = "reading" /\ socket[c] = <<>>
    BY DEF AliveInv, Clock, Conn
  <2>1. CASE pc[c] = "off"
    BY <1>1, <2>0, <2>1 DEF AliveInv, PingUnderWay
  <2>2. CASE pc[c] = "sending"
    <3>1. Len(socket[c]) = Window[c] BY <2>0, <2>2 DEF Clock
    <3>2. Len(socket[c]) = 0 BY <2>0
    <3> QED BY <2>0, <3>1, <3>2 DEF HubAssumption
  <2>3. CASE pc[c] = "select"
    <3>1. inbound[c] = <<>> /\ beat[c] > 0 BY <2>0, <2>3 DEF Clock
    <3>2. ~PingUnderWay(c) BY <2>0, <2>3, <3>1 DEF PingUnderWay
    <3>3. idle[c] = Timeout BY <2>3, <3>1, <3>2 DEF AliveInv
    <3>4. beat'[c] = 0
      <4>1. beat[c] = 1 BY <2>0, <3>1 DEF TypeOK
      <4> QED BY <1>1, <2>3, <3>1, <4>1
    <3> QED BY <1>1, <2>0, <3>3, <3>4 DEF HubAssumption
  <2> QED BY <2>1, <2>2, <2>3
<1> QED BY <1>2, <1>3, <1>4, <1>5

LEMMA HubStep ==
  ASSUME HubAssumption, HubInv, [Next]_vars PROVE HubInv'
<1>1. CASE UNCHANGED vars
  <2> USE <1>1 DEF vars, io, timers, HubInv
  <2>1. TypeOK' BY DEF TypeOK
  <2>2. TextInv' BY DEF TextInv, Texts
  <2>3. ToldInv' /\ AliveInv' BY DEF ToldInv, AliveInv, PingUnderWay
  <2> QED BY <2>1, <2>2, <2>3
<1>2. CASE publish BY <1>2, PublishKeeps
<1>3. ASSUME NEW c \in Conn, Subscribe(c) PROVE HubInv'
  BY <1>3, SubscribeKeeps
<1>4. ASSUME NEW c \in Conn, Loop(c) PROVE HubInv'
  <2>1. CASE Recv(c) \/ Lagged(c) BY <2>1, RecvKeeps
  <2>2. CASE Sent(c) BY <2>2, SentKeeps
  <2>3. CASE c \in Ws /\ Received(c) BY <2>3, ReceivedKeeps
  <2>4. CASE c \in Ws /\ HeartbeatTick(c) BY <2>4, HeartbeatTickKeeps
  <2>5. CASE c \in Ws /\ IdleDeadline(c) BY <2>5, CloseKeeps
  <2> QED BY <1>4, <2>1, <2>2, <2>3, <2>4, <2>5 DEF Loop
<1>5. ASSUME NEW c \in Conn, Broken(c) PROVE HubInv'
  BY <1>5, CloseKeeps
<1>6. ASSUME NEW c \in Conn, PeerReads(c) \/ PeerSends(c) \/ PeerStalls(c)
      PROVE  HubInv'
  BY <1>6, PeerReadsKeeps, PeerSendsKeeps, PeerStallsKeeps
<1>7. CASE Clock BY <1>7, ClockKeeps
<1> QED BY <1>1, <1>2, <1>3, <1>4, <1>5, <1>6, <1>7 DEF Next

(* The inductive invariant of the hub, for any connections, whatever their *)
(* sockets hold and whichever peers stall or break off.                    *)
THEOREM HubInvariant == ASSUME HubAssumption PROVE Spec => []HubInv
<1>1. Init => HubInv BY HubInit
<1>2. HubInv /\ [Next]_vars => HubInv' BY HubStep
<1> QED BY <1>1, <1>2, PTL DEF Spec

(* The watchdog of ws.rs closes nobody whose peer keeps reading, as long   *)
(* as its timeout is two heartbeats or more.                               *)
THEOREM WatchdogSparesTheLiving ==
  ASSUME HubAssumption PROVE Spec => []AliveIsKept
<1>1. HubInv => AliveIsKept BY DEF HubInv, AliveInv, AliveIsKept
<1> QED BY <1>1, HubInvariant, PTL

-----------------------------------------------------------------------------
(* The frame that a connection writes is about the events it is to be told *)
(* of next; those that it reports as missed are not in the ring any more.  *)
FrameInv ==
  \A c \in Conn : pc[c] = "sending" =>
    \/ frame[c] = EventFrame(Position[c]) /\ Position[c] < tail
    \/ \E k \in 1..(tail - Position[c] - Capacity) : frame[c] = Missed(k)
    \/ frame[c] = Ping

LEMMA Positions ==
  ASSUME HubInv
  PROVE  /\ \A c \in Conn : Position[c] = first[c] + told[c] /\ Position[c] \in Nat
         /\ tail \in Nat
BY DEF HubInv, TypeOK, Position

(* What a step has to do with the frames: a loop that leaves its select    *)
(* takes one that is right, and the others keep theirs.                    *)
LEMMA FrameKept ==
  ASSUME HubAssumption, HubInv, HubInv', FrameInv, tail' >= tail, UNCHANGED <<first, told>>,
         NEW c \in Conn,
         \A d \in Conn \ {c} : pc'[d] = "sending" => pc[d] = "sending" /\ frame'[d] = frame[d],
         pc'[c] = "sending" =>
           \/ pc[c] = "sending" /\ frame'[c] = frame[c]
           \/ frame'[c] = EventFrame(Position[c]) /\ Position[c] < tail
           \/ \E k \in 1..(tail - Position[c] - Capacity) : frame'[c] = Missed(k)
           \/ frame'[c] = Ping
  PROVE  FrameInv'
<1>1. Position' = Position
  BY DEF Position
<1>2. tail \in Nat /\ tail' \in Nat /\ Capacity \in Nat /\ \A d \in Conn : Position[d] \in Nat
  <2>1. tail' \in Nat BY DEF HubInv, TypeOK
  <2> QED BY <2>1, Positions DEF HubAssumption
<1> SUFFICES ASSUME NEW d \in Conn, pc'[d] = "sending"
             PROVE  \/ frame'[d] = EventFrame(Position[d]) /\ Position[d] < tail'
                    \/ \E k \in 1..(tail' - Position[d] - Capacity) : frame'[d] = Missed(k)
                    \/ frame'[d] = Ping
  BY <1>1 DEF FrameInv, EventFrame, Missed, Ping
<1>3. \/ frame'[d] = EventFrame(Position[d]) /\ Position[d] < tail
      \/ \E k \in 1..(tail - Position[d] - Capacity) : frame'[d] = Missed(k)
      \/ frame'[d] = Ping
  BY DEF FrameInv
<1>4. \A k \in 1..(tail - Position[d] - Capacity) : k \in 1..(tail' - Position[d] - Capacity)
  BY <1>2
<1> QED BY <1>2, <1>3, <1>4

(* A write tells the listener of what is next, or keeps the connection up. *)
LEMMA SentWrites ==
  ASSUME HubAssumption, HubInv, FrameInv, NEW c \in Conn, Sent(c)
  PROVE  Stream!Tell(c) \/ Stream!Announce(c) \/ Stream!KeepAlive(c)
<1>0. Position[c] = first[c] + told[c] /\ tail \in Nat /\ told[c] \in Nat /\ first[c] \in Nat
      /\ told \in [Conn -> Nat] /\ first \in [Conn -> Nat]
  BY Positions DEF HubInv, TypeOK
<1>1. Joined[c] = "on" /\ Joined' = Joined
  BY DEF Sent, Joined, HubInv, TypeOK
<1>2. socket' = [socket EXCEPT ![c] = Append(@, frame[c])] /\ UNCHANGED tail
  BY DEF Sent
<1>3. ASSUME NEW k \in Nat, told' = [told EXCEPT ![c] = @ + k], UNCHANGED first
      PROVE  Position' = [Position EXCEPT ![c] = @ + k]
  <2>1. Position' = [d \in Conn |-> first[d] + told'[d]]
    BY <1>3 DEF Position
  <2>2. first[c] + told'[c] = Position[c] + k
    BY <1>0, <1>3
  <2>3. \A d \in Conn \ {c} : first[d] + told'[d] = Position[d]
    BY <1>0, <1>3 DEF Position
  <2>4. Position = [d \in Conn |-> Position[d]]
    BY DEF Position
  <2> QED BY <2>1, <2>2, <2>3, <2>4
<1>4. CASE frame[c] = EventFrame(Position[c]) /\ Position[c] < tail
  <2>1. told' = [told EXCEPT ![c] = @ + 1] /\ UNCHANGED first
    BY <1>4 DEF Sent, EventFrame
  <2>2. Position' = [Position EXCEPT ![c] = @ + 1]
    BY <1>3, <2>1
  <2>3. Stream!Item("event", Position[c]) = frame[c]
    BY <1>4 DEF Stream!Item, EventFrame
  <2> QED BY <1>1, <1>2, <1>4, <2>2, <2>3 DEF Stream!Tell, Stream!Write
<1>5. ASSUME NEW k \in 1..(tail - Position[c] - Capacity), frame[c] = Missed(k)
      PROVE  Stream!Announce(c)
  <2>0. k \in Nat BY <1>0 DEF HubAssumption
  <2>1. told' = [told EXCEPT ![c] = @ + k] /\ UNCHANGED first
    BY <1>5 DEF Sent, Missed
  <2>2. Position' = [Position EXCEPT ![c] = @ + k]
    BY <1>3, <2>0, <2>1
  <2>3. Stream!Item("lagged", k) = frame[c]
    BY <1>5 DEF Stream!Item, Missed
  <2> QED BY <1>1, <1>2, <2>2, <2>3 DEF Stream!Announce, Stream!Write
<1>6. CASE frame[c] = Ping
  <2>1. told' = [told EXCEPT ![c] = told[c]] /\ UNCHANGED first
    BY <1>6 DEF Sent, Ping
  <2>2. told[c] + 0 = told[c]
    BY <1>0
  <2>3. told' = [told EXCEPT ![c] = @ + 0]
    BY <2>1, <2>2
  <2>4. Position' = [Position EXCEPT ![c] = @ + 0]
    BY <1>3, <2>1, <2>3
  <2>5. Stream!Item("ping", 0) = frame[c]
    BY <1>6 DEF Stream!Item, Ping
  <2> QED BY <1>1, <1>2, <2>4, <2>5 DEF Stream!KeepAlive, Stream!Write
<1> QED BY <1>4, <1>5, <1>6 DEF FrameInv, Sent

(* Where no frame is written and no receiver begins, positions stay. *)
LEMMA Elsewhere ==
  ASSUME UNCHANGED <<pc, socket, first, told>>
  PROVE  UNCHANGED <<Joined, Position, socket>>
BY DEF Joined, Position

LEMMA StreamStep ==
  ASSUME HubAssumption, HubInv, HubInv', FrameInv, [Next]_vars
  PROVE  FrameInv' /\ [Stream!Next]_(Stream!vars)
<1> USE DEF io, timers
<1>0. /\ tail \in Nat /\ Capacity \in Nat
      /\ \A c \in Conn : Position[c] \in Nat
      /\ pc \in [Conn -> {"off", "select", "sending", "closed"}]
      /\ frame \in [Conn -> Frames] /\ socket \in [Conn -> Seq(Frames)]
  BY Positions DEF HubInv, TypeOK, HubAssumption
<1>1. CASE publish
  <2>1. Stream!Publish
    BY <1>1, Elsewhere DEF publish, Publish, Stream!Publish
  <2>2. ASSUME NEW c \in Conn PROVE FrameInv'
    BY <1>0, <1>1, <2>2, FrameKept DEF publish, Publish
  <2> QED BY <2>1, <2>2 DEF Stream!Next, FrameInv
<1>2. ASSUME NEW c \in Conn, Subscribe(c) PROVE FrameInv' /\ Stream!Join(c)
  <2>1. first[c] \in Nat /\ told[c] = 0 /\ told \in [Conn -> Nat] /\ first \in [Conn -> Nat]
    BY <1>2 DEF Subscribe, HubInv, TypeOK, ToldInv
  <2>2. Position' = [Position EXCEPT ![c] = tail]
    <3>1. Position' = [d \in Conn |-> first'[d] + told[d]]
      BY <1>2 DEF Subscribe, Position
    <3>2. first'[c] + told[c] = tail
      BY <1>0, <1>2, <2>1 DEF Subscribe
    <3>3. \A d \in Conn \ {c} : first'[d] + told[d] = Position[d]
      BY <1>2, <2>1 DEF Subscribe, Position
    <3>4. Position = [d \in Conn |-> Position[d]]
      BY DEF Position
    <3> QED BY <3>1, <3>2, <3>3, <3>4
  <2>3. Joined[c] = "off" /\ Joined' = [Joined EXCEPT ![c] = "on"]
    BY <1>0, <1>2 DEF Subscribe, Joined
  <2>4. ASSUME NEW d \in Conn, pc'[d] = "sending"
        PROVE  d # c /\ pc[d] = "sending" /\ Position'[d] = Position[d]
               /\ frame'[d] = frame[d] /\ tail' = tail
    BY <1>0, <1>2, <2>2, <2>4 DEF Subscribe
  <2>5. FrameInv'
    BY <2>4 DEF FrameInv, EventFrame, Missed, Ping
  <2> QED BY <1>2, <2>2, <2>3, <2>5 DEF Subscribe, Stream!Join
<1>3. ASSUME NEW c \in Conn, Recv(c) \/ Lagged(c) \/ (c \in Ws /\ HeartbeatTick(c))
      PROVE  FrameInv' /\ UNCHANGED Stream!vars
  <2>1. PICK f : /\ pc[c] = "select" /\ Send(c, f)
                 /\ UNCHANGED <<tail, socket, first, told>>
                 /\ \/ f = EventFrame(Position[c]) /\ Position[c] < tail
                    \/ \E k \in 1..(tail - Position[c] - Capacity) : f = Missed(k)
                    \/ f = Ping
    <3>1. pc[c] = "select" /\ next[c] = Position[c]
      BY <1>3, Positions DEF Recv, Lagged, HeartbeatTick, HubInv, ToldInv
    <3>2. CASE Recv(c)
      BY <1>0, <3>1, <3>2 DEF Recv
    <3>3. CASE Lagged(c)
      <4>1. tail - Capacity - next[c] \in 1..(tail - Position[c] - Capacity)
        BY <1>0, <3>1, <3>3 DEF Lagged
      <4> QED BY <3>1, <3>3, <4>1 DEF Lagged
    <3>4. CASE HeartbeatTick(c)
      BY <3>1, <3>4 DEF HeartbeatTick
    <3> QED BY <1>3, <3>2, <3>3, <3>4
  <2>2. Joined' = Joined /\ Position' = Position
    BY <1>0, <2>1 DEF Send, Joined, Position
  <2>3. frame'[c] = f /\ \A d \in Conn \ {c} : pc'[d] = pc[d] /\ frame'[d] = frame[d]
    BY <1>0, <2>1 DEF Send
  <2>4. FrameInv'
    <3>1. tail' >= tail BY <1>0, <2>1
    <3>2. \/ frame'[c] = EventFrame(Position[c]) /\ Position[c] < tail
          \/ \E k \in 1..(tail - Position[c] - Capacity) : frame'[c] = Missed(k)
          \/ frame'[c] = Ping
      BY <2>1, <2>3
    <3> QED BY <2>1, <2>3, <3>1, <3>2, FrameKept
  <2> QED BY <2>1, <2>2, <2>4 DEF Stream!vars
<1>4. ASSUME NEW c \in Conn, Sent(c) PROVE FrameInv' /\ Stream!Next
  <2>1. Stream!Next
    BY <1>4, SentWrites DEF Stream!Next
  <2>2. ASSUME NEW d \in Conn, pc'[d] = "sending"
        PROVE  d # c /\ pc[d] = "sending" /\ Position'[d] = Position[d]
               /\ frame'[d] = frame[d] /\ tail' = tail
    BY <1>0, <1>4, <2>2 DEF Sent, Position, HubInv, TypeOK
  <2>3. FrameInv'
    BY <2>2 DEF FrameInv, EventFrame, Missed, Ping
  <2> QED BY <2>1, <2>3
<1>5. ASSUME NEW c \in Conn, NEW reason, Close(c, reason), pc[c] \in {"select", "sending"},
             UNCHANGED <<tail, socket, frame, first, told>>
      PROVE  FrameInv' /\ Stream!Leave(c)
  <2>1. Position' = Position
    BY <1>5 DEF Position
  <2>2. Joined[c] = "on" /\ Joined' = [Joined EXCEPT ![c] = "left"]
    BY <1>0, <1>5 DEF Close, Joined
  <2>3. FrameInv'
    BY <1>0, <1>5, FrameKept DEF Close
  <2> QED BY <1>5, <2>1, <2>2, <2>3 DEF Stream!Leave
<1>6. ASSUME NEW c \in Ws, Received(c) PROVE FrameInv' /\ [Stream!Next]_(Stream!vars)
  <2>0. c \in Conn BY DEF Conn
  <2>1. CASE Head(inbound[c]) = "close"
    BY <1>5, <1>6, <2>0, <2>1 DEF Received, Stream!Next
  <2>2. CASE Head(inbound[c]) # "close"
    <3>1. UNCHANGED <<pc, frame, socket, first, told>> /\ tail' \in {tail, tail + 1}
      BY <1>6, <2>2 DEF Received, Publish
    <3>2. FrameInv'
      BY <1>0, <2>0, <3>1, FrameKept
    <3>3. Stream!Publish \/ UNCHANGED Stream!vars
      BY <3>1, Elsewhere DEF Stream!Publish, Stream!vars
    <3> QED BY <3>2, <3>3 DEF Stream!Next
  <2> QED BY <2>1, <2>2
<1>7. ASSUME NEW c \in Conn, Broken(c) \/ (c \in Ws /\ IdleDeadline(c))
      PROVE  FrameInv' /\ Stream!Next
  BY <1>5, <1>7 DEF Broken, IdleDeadline, Stream!Next
<1>8. ASSUME NEW c \in Conn, PeerReads(c) PROVE FrameInv' /\ Stream!Next
  <2>1. UNCHANGED <<tail, pc, frame, first, told>>
    BY <1>8 DEF PeerReads
  <2>2. Stream!Hear(c)
    BY <1>8, <2>1 DEF PeerReads, Stream!Hear, Joined, Position
  <2>3. FrameInv'
    BY <1>0, <2>1, FrameKept
  <2> QED BY <2>2, <2>3 DEF Stream!Next
<1>9. CASE UNCHANGED <<tail, pc, frame, socket, first, told>>
  <2>1. UNCHANGED Stream!vars
    BY <1>9, Elsewhere DEF Stream!vars
  <2>2. FrameInv'
    BY <1>9 DEF FrameInv, Position, EventFrame, Missed, Ping
  <2> QED BY <2>1, <2>2
<1>10. ASSUME NEW c \in Conn, Loop(c) PROVE FrameInv' /\ [Stream!Next]_(Stream!vars)
  BY <1>3, <1>4, <1>6, <1>7, <1>10 DEF Loop
<1>11. ASSUME NEW c \in Conn, PeerSends(c) \/ PeerStalls(c)
       PROVE  UNCHANGED <<tail, pc, frame, socket, first, told>>
  BY <1>11 DEF PeerSends, PeerStalls
<1>12. Clock => UNCHANGED <<tail, pc, frame, socket, first, told>>
  BY DEF Clock
<1>13. UNCHANGED vars => UNCHANGED <<tail, pc, frame, socket, first, told>>
  BY DEF vars
<1>14. ASSUME NEW c \in Conn,
              Subscribe(c) \/ Loop(c) \/ Broken(c) \/ PeerReads(c) \/ PeerSends(c) \/ PeerStalls(c)
       PROVE  FrameInv' /\ [Stream!Next]_(Stream!vars)
  BY <1>2, <1>7, <1>8, <1>9, <1>10, <1>11, <1>14 DEF Stream!Next
<1> QED BY <1>1, <1>9, <1>12, <1>13, <1>14 DEF Next

(* Whatever the loops of ws.rs and the streams of sse.rs write, through    *)
(* whichever branch, stalls and breaks, is to each listener the stream of  *)
(* AnnouncedStream: each event once, in order, and every gap told of.      *)
THEOREM HubImplementsStream == ASSUME HubAssumption PROVE Spec => ImplementsStream
<1>1. Init => FrameInv /\ Stream!Init
  BY DEF Init, FrameInv, Stream!Init, Joined, Position
<1>2. HubInv /\ HubInv' /\ FrameInv /\ [Next]_vars
        => FrameInv' /\ [Stream!Next]_(Stream!vars)
  BY StreamStep
<1> QED BY <1>1, <1>2, HubInvariant, PTL DEF Spec, ImplementsStream, Stream!Spec

-----------------------------------------------------------------------------
(* A set of numbers has a least one. Whatever fails for a number fails for *)
(* a least one: this is how what FlattenSeq runs together is reasoned      *)
(* about below (as in Issued_proofs, for its instance of it).              *)
LEMMA LeastExists ==
  ASSUME NEW S \in SUBSET Nat, S # {} PROVE \E x \in S : \A y \in S : x <= y
<1> DEFINE T == {0..k : k \in S}
<1>1. T \subseteq FiniteSubsetsOf(Nat)
  <2> SUFFICES ASSUME NEW k \in S PROVE 0..k \in FiniteSubsetsOf(Nat)
    OBVIOUS
  <2>1. IsFiniteSet(0..k) BY FS_Interval
  <2> QED BY <2>1 DEF FiniteSubsetsOf
<1>2. \E I \in T : \A J \in T : <<J, I>> \notin StrictSubsetOrdering(Nat)
  <2> HIDE DEF T
  <2>1. T # {} BY DEF T
  <2> QED BY <1>1, <2>1, FS_StrictSubsetOrderingWellFounded, WFMin, Zenon
<1>3. PICK x \in S : \A y \in S : <<0..y, 0..x>> \notin StrictSubsetOrdering(Nat)
  BY <1>2
<1>4. ASSUME NEW y \in S, y < x PROVE FALSE
  <2>1. /\ 0..y \subseteq 0..x /\ 0..y # 0..x
        /\ 0..y \in SUBSET Nat /\ 0..x \in SUBSET Nat
    BY <1>4
  <2> QED BY <1>3, <2>1 DEF StrictSubsetOrdering
<1> QED BY <1>4

(* f has the first parts of s run together. *)
Joins(f, s, n) ==
  /\ f[0] = <<>>
  /\ \A k \in 1..n : f[k] = f[k - 1] \o s[k]

(* f is that for all n parts of s, which are sequences over S. *)
JoinedUp(S, s, n, f) ==
  /\ s \in Seq(Seq(S)) /\ n \in Nat /\ n = Len(s)
  /\ f \in [0..n -> Seq(S)] /\ Joins(f, s, n)

LEMMA PrefixesExist ==
  ASSUME NEW S, NEW s \in Seq(Seq(S)), NEW n \in 0..Len(s)
  PROVE  \E f \in [0..n -> Seq(S)] : Joins(f, s, n)
<1> DEFINE bad == {k \in 0..Len(s) : ~ \E f \in [0..k -> Seq(S)] : Joins(f, s, k)}
<1>1. Len(s) \in Nat /\ \A k \in 1..Len(s) : s[k] \in Seq(S)
  BY LenProperties, ElementOfSeq
<1>2. SUFFICES ASSUME bad # {} PROVE FALSE
  BY <1>1
<1>3. PICK k \in bad : \A j \in bad : k <= j
  <2>1. bad \in SUBSET Nat BY <1>1
  <2> HIDE DEF bad
  <2> QED BY <1>2, <2>1, LeastExists
<1>4. CASE k = 0
  <2> DEFINE f == [i \in 0..0 |-> <<>>]
  <2>1. f \in [0..k -> Seq(S)] /\ Joins(f, s, k)
    BY <1>4 DEF Joins
  <2> QED BY <2>1
<1>5. CASE k # 0
  <2>1. k \in Nat /\ k \in 1..Len(s) /\ k - 1 \in 0..Len(s) /\ k - 1 < k
    BY <1>1, <1>5
  <2>2. k - 1 \notin bad
    <3> HIDE DEF bad
    <3> QED BY <1>3, <2>1
  <2>3. PICK f \in [0..(k - 1) -> Seq(S)] : Joins(f, s, k - 1)
    BY <2>1, <2>2
  <2> DEFINE e == f[k - 1] \o s[k]
             g == [i \in 0..k |-> IF i = k THEN e ELSE f[i]]
  <2>4. e \in Seq(S)
    <3>1. f[k - 1] \in Seq(S) /\ s[k] \in Seq(S) BY <1>1, <2>1
    <3> QED BY <3>1, ConcatProperties
  <2>5. /\ \A i \in 0..k : i = k \/ i \in 0..(k - 1)
        /\ \A i \in 0..(k - 1) : i \in 0..k /\ i # k
        /\ k \in 0..k /\ 0 \in 0..(k - 1)
    BY <2>1
  <2> HIDE DEF e
  <2>6. g \in [0..k -> Seq(S)]
    BY <2>1, <2>4, <2>5
  <2>7. g[0] = <<>>
    BY <2>3, <2>5 DEF Joins
  <2>8. g[k] = e /\ \A i \in 0..(k - 1) : g[i] = f[i]
    BY <2>5
  <2> HIDE DEF g
  <2>9. ASSUME NEW i \in 1..k PROVE g[i] = g[i - 1] \o s[i]
    <3>1. i - 1 \in 0..(k - 1) /\ g[i - 1] = f[i - 1]
      BY <2>1, <2>8
    <3>2. CASE i = k
      BY <2>8, <3>1, <3>2 DEF e
    <3>3. CASE i # k
      <4>1. i \in 1..(k - 1) /\ i \in 0..(k - 1)
        BY <2>1, <3>3
      <4>2. f[i] = f[i - 1] \o s[i]
        BY <2>3, <4>1 DEF Joins
      <4> QED BY <2>8, <3>1, <4>1, <4>2
    <3> QED BY <3>2, <3>3
  <2>10. Joins(g, s, k)
    BY <2>7, <2>9 DEF Joins
  <2> QED BY <2>6, <2>10
<1> QED BY <1>4, <1>5

(* FlattenSeq runs all the parts together. *)
LEMMA FlattenJoins ==
  ASSUME NEW S, NEW s \in Seq(Seq(S))
  PROVE  \E f : JoinedUp(S, s, Len(s), f) /\ Feed!FlattenSeq(s) = f[Len(s)]
<1> DEFINE N == Len(s)
           Part(x, i) == IF i = 1 THEN s[i] ELSE x[i - 1] \o s[i]
           c == CHOOSE x : x = [i \in 1..N |-> Part(x, i)]
<1>1. N \in Nat /\ N \in 0..N /\ \A k \in 1..N : s[k] \in Seq(S)
  BY LenProperties, ElementOfSeq
<1>2. PICK f \in [0..N -> Seq(S)] : Joins(f, s, N)
  BY <1>1, PrefixesExist
<1> SUFFICES Feed!FlattenSeq(s) = f[N]
  BY <1>1, <1>2 DEF JoinedUp
<1>3. CASE N = 0
  <2>1. s = <<>> BY <1>3, EmptySeq
  <2> QED BY <1>2, <1>3, <2>1 DEF Joins, Feed!FlattenSeq
<1>4. CASE N # 0
  <2>1. Feed!FlattenSeq(s) = c[N]
    BY <1>4 DEF Feed!FlattenSeq
  <2> DEFINE h == [i \in 1..N |-> f[i]]
  <2>2. DOMAIN h = 1..N /\ h = [i \in 1..N |-> h[i]] /\ \A i \in 1..N : h[i] = f[i]
    OBVIOUS
  <2> HIDE DEF h
  <2>3. ASSUME NEW i \in 1..N PROVE h[i] = Part(h, i)
    <3>1. f[i] = f[i - 1] \o s[i] /\ f[0] = <<>> /\ s[i] \in Seq(S)
      BY <1>1, <1>2 DEF Joins
    <3>2. CASE i = 1
      <4>1. <<>> \o s[i] = s[i] BY <3>1, ConcatEmptySeq
      <4>2. i - 1 = 0 BY <3>2
      <4> QED BY <2>2, <3>1, <3>2, <4>1, <4>2
    <3>3. CASE i # 1
      <4>1. i - 1 \in 1..N BY <1>1, <3>3
      <4>2. h[i - 1] = f[i - 1] BY <2>2, <4>1
      <4> QED BY <2>2, <3>1, <3>3, <4>2
    <3> QED BY <3>2, <3>3
  <2>4. c = [i \in 1..N |-> Part(c, i)]
    <3> HIDE DEF Part
    <3>1. h = [i \in 1..N |-> Part(h, i)] BY <2>2, <2>3
    <3> QED BY <3>1
  <2> HIDE DEF c
  <2>5. ASSUME NEW n \in 1..N, c[n] # h[n] PROVE FALSE
    <3> DEFINE bad == {k \in 1..N : c[k] # h[k]}
    <3>1. bad \in SUBSET Nat /\ bad # {} BY <1>1, <2>5
    <3>2. PICK k \in bad : \A j \in bad : k <= j
      <4> HIDE DEF bad
      <4> QED BY <3>1, LeastExists
    <3>3. k # 1 => k - 1 \in 1..N /\ c[k - 1] = h[k - 1]
      <4>1. k # 1 => k - 1 \in 1..N /\ k - 1 < k BY <1>1
      <4> QED BY <3>2, <4>1
    <3>4. c[k] = IF k = 1 THEN s[k] ELSE c[k - 1] \o s[k] BY <2>4
    <3>5. h[k] = IF k = 1 THEN s[k] ELSE h[k - 1] \o s[k] BY <2>3
    <3> QED BY <3>3, <3>4, <3>5
  <2>6. N \in 1..N BY <1>1, <1>4
  <2>7. h[N] = f[N] BY <2>2, <2>6
  <2> QED BY <1>2, <2>1, <2>5, <2>6, <2>7
<1> QED BY <1>3, <1>4


LEMMA Concats ==
  ASSUME NEW S, NEW u \in Seq(S), NEW v \in Seq(S), NEW w, w = u \o v
  PROVE  /\ w \in Seq(S) /\ Len(u) \in Nat /\ Len(v) \in Nat
         /\ Len(w) = Len(u) + Len(v)
         /\ \A j \in 1..Len(u) : w[j] = u[j]
         /\ \A j \in 1..Len(v) : w[Len(u) + j] = v[j]
<1> DEFINE a == Len(u)  b == Len(v)
<1>1. /\ w \in Seq(S) /\ a \in Nat /\ b \in Nat /\ Len(w) = a + b
      /\ \A i \in 1..(a + b) : w[i] = IF i <= a THEN u[i] ELSE v[i - a]
  BY ConcatProperties, LenProperties
<1> HIDE DEF a, b
<1>2. ASSUME NEW j \in 1..a PROVE w[j] = u[j]
  <2>1. j \in 1..(a + b) /\ j <= a BY <1>1
  <2> QED BY <1>1, <2>1
<1>3. ASSUME NEW j \in 1..b PROVE w[a + j] = v[j]
  <2>1. a + j \in 1..(a + b) /\ ~(a + j <= a) /\ (a + j) - a = j BY <1>1
  <2> QED BY <1>1, <2>1
<1> QED BY <1>1, <1>2, <1>3 DEF a, b

(* What was run together first stays where it is. *)
LEMMA PrefixStays ==
  ASSUME NEW S, NEW s, NEW N, NEW f, JoinedUp(S, s, N, f)
  PROVE  \A n, m \in 0..N : n <= m =>
           Len(f[n]) <= Len(f[m]) /\ \A j \in 1..Len(f[n]) : f[m][j] = f[n][j]
<1> TAKE n, m \in 0..N
<1> HAVE n <= m
<1>0. /\ s \in Seq(Seq(S)) /\ N \in Nat /\ N = Len(s)
      /\ f \in [0..N -> Seq(S)] /\ Joins(f, s, N)
  BY DEF JoinedUp
<1> DEFINE Stays(k) == Len(f[n]) <= Len(f[k]) /\ \A j \in 1..Len(f[n]) : f[k][j] = f[n][j]
           bad == {k \in 0..N : n <= k /\ ~Stays(k)}
<1>1. n \in Nat /\ \A k \in 1..N : s[k] \in Seq(S)
  BY <1>0, LenProperties, ElementOfSeq
<1>2. \A k \in 0..N : f[k] \in Seq(S) /\ Len(f[k]) \in Nat
  BY <1>0, LenProperties
<1> SUFFICES ASSUME bad # {} PROVE FALSE
  OBVIOUS
<1>3. PICK k \in bad : \A j \in bad : k <= j
  <2>1. bad \in SUBSET Nat BY <1>0, <1>1
  <2> HIDE DEF bad
  <2> QED BY <2>1, LeastExists
<1>4. k # n
  BY <1>2
<1>5. k \in Nat /\ n <= k - 1 /\ k - 1 \in 0..N /\ k \in 1..N /\ k \in 0..N
  <2>1. k \in 0..N /\ n <= k OBVIOUS
  <2> HIDE DEF bad
  <2> QED BY <1>0, <1>1, <1>4, <2>1
<1>6. Stays(k - 1)
  <2>1. k - 1 \notin bad
    <3> HIDE DEF bad
    <3> QED BY <1>3, <1>5
  <2> HIDE DEF Stays
  <2> QED BY <1>5, <2>1
<1>7. f[k] = f[k - 1] \o s[k] /\ s[k] \in Seq(S) /\ f[k - 1] \in Seq(S)
  BY <1>0, <1>1, <1>2, <1>5 DEF Joins
<1> DEFINE x == f[n]  y == f[k - 1]  z == f[k]  v == s[k]
<1>8. /\ Len(z) = Len(y) + Len(v) /\ Len(v) \in Nat /\ Len(y) \in Nat
      /\ \A j \in 1..Len(y) : z[j] = y[j]
  <2>1. z = y \o v /\ v \in Seq(S) /\ y \in Seq(S) BY <1>7
  <2> HIDE DEF y, z, v
  <2> QED BY <2>1, Concats
<1>9. Len(x) \in Nat /\ Len(x) <= Len(y) /\ \A j \in 1..Len(x) : y[j] = x[j]
  BY <1>2, <1>6
<1>10. Len(x) <= Len(z) /\ \A j \in 1..Len(x) : z[j] = x[j]
  <2> HIDE DEF x, y, z
  <2>1. Len(x) <= Len(z) BY <1>8, <1>9
  <2>2. \A j \in 1..Len(x) : j \in 1..Len(y) BY <1>8, <1>9
  <2> QED BY <1>8, <1>9, <2>1, <2>2
<1> QED BY <1>10

(* Where the parts are found in the whole. *)
Found(s, N, f) ==
  \A n \in 1..N :
    /\ Len(f[n]) = Len(f[n - 1]) + Len(s[n])
    /\ Len(f[n]) <= Len(f[N])
    /\ \A j \in 1..Len(s[n]) : f[N][Len(f[n - 1]) + j] = s[n][j]

LEMMA PartFound ==
  ASSUME NEW S, NEW s, NEW N, NEW f, JoinedUp(S, s, N, f)
  PROVE  Found(s, N, f)
<1> SUFFICES ASSUME NEW n \in 1..N
             PROVE  /\ Len(f[n]) = Len(f[n - 1]) + Len(s[n])
                    /\ Len(f[n]) <= Len(f[N])
                    /\ \A j \in 1..Len(s[n]) : f[N][Len(f[n - 1]) + j] = s[n][j]
  BY DEF Found
<1>1. /\ n - 1 \in 0..N /\ n \in 0..N /\ N \in 0..N /\ n <= N
      /\ s[n] \in Seq(S) /\ f[n - 1] \in Seq(S) /\ f[n] = f[n - 1] \o s[n]
  <2>0. /\ s \in Seq(Seq(S)) /\ N \in Nat /\ N = Len(s)
        /\ f \in [0..N -> Seq(S)] /\ Joins(f, s, N)
    BY DEF JoinedUp
  <2>1. n - 1 \in 0..N /\ n \in 0..N /\ N \in 0..N /\ n <= N
    BY <2>0
  <2> QED BY <2>0, <2>1, ElementOfSeq DEF Joins
<1> DEFINE y == f[n - 1]  z == f[n]  w == f[N]  v == s[n]
<1>2. /\ Len(z) = Len(y) + Len(v) /\ Len(v) \in Nat /\ Len(y) \in Nat
      /\ \A j \in 1..Len(v) : z[Len(y) + j] = v[j]
  <2>1. z = y \o v /\ v \in Seq(S) /\ y \in Seq(S) BY <1>1
  <2> HIDE DEF y, z, v
  <2> QED BY <2>1, Concats
<1>3. Len(z) <= Len(w) /\ \A j \in 1..Len(z) : w[j] = z[j]
  <2>1. \A i, m \in 0..N : i <= m =>
          Len(f[i]) <= Len(f[m]) /\ \A j \in 1..Len(f[i]) : f[m][j] = f[i][j]
    BY PrefixStays
  <2>2. n \in 0..N /\ N \in 0..N /\ n <= N BY <1>1
  <2> QED BY <2>1, <2>2
<1>4. ASSUME NEW j \in 1..Len(v) PROVE w[Len(y) + j] = v[j]
  <2> HIDE DEF y, z, w, v
  <2>1. Len(y) + j \in 1..Len(z) BY <1>2
  <2> QED BY <1>2, <1>3, <2>1
<1> QED BY <1>2, <1>3, <1>4

(* There is one way to run s together. *)
LEMMA JoinsOnce ==
  ASSUME NEW S, NEW s, NEW N, NEW f, JoinedUp(S, s, N, f), NEW g, Joins(g, s, N)
  PROVE  g[N] = f[N]
<1> DEFINE bad == {k \in 0..N : g[k] # f[k]}
<1>1. /\ N \in Nat /\ N \in 0..N /\ f[0] = <<>> /\ g[0] = <<>>
      /\ \A k \in 1..N : f[k] = f[k - 1] \o s[k] /\ g[k] = g[k - 1] \o s[k]
  <2>1. N = Len(s) /\ s \in Seq(Seq(S)) /\ Joins(f, s, N) BY DEF JoinedUp
  <2>2. N \in Nat BY <2>1, LenProperties
  <2>3. N \in 0..N BY <2>2
  <2> QED BY <2>1, <2>2, <2>3 DEF Joins
<1> SUFFICES ASSUME bad # {} PROVE FALSE
  BY <1>1
<1>2. PICK k \in bad : \A j \in bad : k <= j
  <2>1. bad \in SUBSET Nat BY <1>1
  <2> HIDE DEF bad
  <2> QED BY <2>1, LeastExists
<1>3. k # 0
  BY <1>1
<1>4. k \in 1..N /\ k - 1 \in 0..N /\ k - 1 < k
  <2>1. k \in 0..N OBVIOUS
  <2> HIDE DEF bad
  <2> QED BY <1>1, <1>3, <2>1
<1>5. g[k - 1] = f[k - 1]
  <2>1. k - 1 \notin bad
    <3> HIDE DEF bad
    <3> QED BY <1>2, <1>4
  <2> QED BY <1>4, <2>1
<1> QED BY <1>1, <1>4, <1>5

(* The parts of two sequences, one after the other. *)
LEMMA FlattenConcat ==
  ASSUME NEW S, NEW s \in Seq(Seq(S)), NEW t \in Seq(Seq(S))
  PROVE  Feed!FlattenSeq(s \o t) = Feed!FlattenSeq(s) \o Feed!FlattenSeq(t)
<1> DEFINE a == Len(s)
           b == Len(t)
           r == s \o t
           N == Len(r)
<1>1. PICK f : JoinedUp(S, s, a, f) /\ Feed!FlattenSeq(s) = f[a]
  BY FlattenJoins
<1>2. PICK h : JoinedUp(S, t, b, h) /\ Feed!FlattenSeq(t) = h[b]
  BY FlattenJoins
<1>3. /\ r \in Seq(Seq(S)) /\ a \in Nat /\ b \in Nat /\ N = a + b
      /\ \A j \in 1..a : r[j] = s[j]
      /\ \A j \in 1..b : r[a + j] = t[j]
  <2> HIDE DEF a, b
  <2> QED BY Concats DEF a, b
<1>4. PICK e : JoinedUp(S, r, N, e) /\ Feed!FlattenSeq(r) = e[N]
  <2> HIDE DEF r
  <2> QED BY <1>3, FlattenJoins
<1>5. /\ \A k \in 0..a : f[k] \in Seq(S)
      /\ \A k \in 0..b : h[k] \in Seq(S)
      /\ f[0] = <<>> /\ \A k \in 1..a : f[k] = f[k - 1] \o s[k] /\ s[k] \in Seq(S)
      /\ h[0] = <<>> /\ \A k \in 1..b : h[k] = h[k - 1] \o t[k] /\ t[k] \in Seq(S)
  BY <1>1, <1>2, ElementOfSeq DEF JoinedUp, Joins
<1> DEFINE g == [i \in 0..N |-> IF i <= a THEN f[i] ELSE f[a] \o h[i - a]]
<1> HIDE DEF a, b, N, r
<1>6. /\ \A i \in 0..a : i \in 0..N /\ g[i] = f[i]
      /\ \A i \in 0..b : a + i \in 0..N /\ g[a + i] = f[a] \o h[i]
  <2>1. \A i \in 0..a : i \in 0..N /\ i <= a BY <1>3
  <2>2. ASSUME NEW i \in 0..b PROVE a + i \in 0..N /\ g[a + i] = f[a] \o h[i]
    <3>1. a + i \in 0..N /\ (a + i) - a = i /\ a \in 0..a BY <1>3
    <3>2. CASE i = 0
      <4>1. f[a] \o <<>> = f[a] BY <1>5, <3>1, ConcatEmptySeq
      <4>2. a + i = a BY <1>3, <3>2
      <4> QED BY <1>3, <1>5, <3>1, <3>2, <4>1, <4>2
    <3>3. CASE i # 0
      <4>1. ~(a + i <= a) BY <1>3, <3>3
      <4> QED BY <3>1, <4>1
    <3> QED BY <3>2, <3>3
  <2> QED BY <2>1, <2>2
<1> HIDE DEF g
<1>7. ASSUME NEW k \in 1..N PROVE g[k] = g[k - 1] \o r[k]
  <2>1. CASE k <= a
    <3>1. k \in 1..a /\ k \in 0..a /\ k - 1 \in 0..a BY <1>3, <2>1
    <3> QED BY <1>3, <1>5, <1>6, <3>1
  <2>2. CASE ~(k <= a)
    <3>0. PICK i \in 1..b : k = a + i
      <4>1. k - a \in 1..b /\ k = a + (k - a) BY <1>3, <2>2
      <4> QED BY <4>1
    <3>1. i \in 0..b /\ i - 1 \in 0..b /\ a + i = k /\ a + (i - 1) = k - 1
      BY <1>3, <3>0
    <3>2. g[k] = f[a] \o h[i] /\ g[k - 1] = f[a] \o h[i - 1] /\ r[k] = t[i]
      BY <1>3, <1>6, <3>1
    <3>3. h[i] = h[i - 1] \o t[i] /\ h[i - 1] \in Seq(S) /\ t[i] \in Seq(S)
      BY <1>5, <3>1
    <3>4. f[a] \in Seq(S)
      <4>1. a \in 0..a BY <1>3
      <4> QED BY <1>5, <4>1
    <3>5. (f[a] \o h[i - 1]) \o t[i] = f[a] \o (h[i - 1] \o t[i])
      <4> DEFINE x == f[a]  y == h[i - 1]  z == t[i]
      <4>1. x \in Seq(S) /\ y \in Seq(S) /\ z \in Seq(S) BY <3>3, <3>4
      <4> HIDE DEF x, y, z
      <4>2. (x \o y) \o z = x \o (y \o z) BY <4>1, ConcatAssociative
      <4> QED BY <4>2 DEF x, y, z
    <3> QED BY <3>2, <3>3, <3>5
  <2> QED BY <2>1, <2>2
<1>8. Joins(g, r, N)
  <2>1. 0 \in 0..a BY <1>3
  <2> QED BY <1>5, <1>6, <1>7, <2>1 DEF Joins
<1>9. g[N] = e[N]
  BY <1>4, <1>8, JoinsOnce
<1>10. g[N] = f[a] \o h[b]
  <2>1. b \in 0..b /\ a + b = N BY <1>3
  <2> QED BY <1>6, <2>1
<1> QED BY <1>1, <1>2, <1>4, <1>9, <1>10 DEF r

(* w is made of the parts of s, and s[n] begins after the first o[n - 1].  *)
Placed(s, w, o) ==
  /\ o[0] = 0 /\ Len(w) = o[Len(s)]
  /\ \A n \in 0..Len(s) : o[n] \in Nat
  /\ \A n \in 1..Len(s) : o[n] = o[n - 1] + Len(s[n])
  /\ \A n \in 1..Len(s) : \A j \in 1..Len(s[n]) : w[o[n - 1] + j] = s[n][j]
  /\ \A m, n \in 0..Len(s) : m <= n => o[m] <= o[n]
  /\ \A k \in 1..Len(w) : \E n \in 1..Len(s) : o[n - 1] < k /\ k <= o[n]

LEMMA FlattenPlaced ==
  ASSUME NEW S, NEW s \in Seq(Seq(S))
  PROVE  /\ Feed!FlattenSeq(s) \in Seq(S)
         /\ \E o : Placed(s, Feed!FlattenSeq(s), o)
<1> DEFINE N == Len(s)
<1>1. PICK f : JoinedUp(S, s, N, f) /\ Feed!FlattenSeq(s) = f[N]
  BY FlattenJoins
<1>2. N \in Nat /\ N \in 0..N BY LenProperties
<1>3. f \in [0..N -> Seq(S)] /\ f[0] = <<>>
  <2>1. f \in [0..N -> Seq(S)] /\ Joins(f, s, N) BY <1>1 DEF JoinedUp
  <2> QED BY <2>1 DEF Joins
<1>4. \A n \in 0..N : f[n] \in Seq(S) /\ Len(f[n]) \in Nat
  BY <1>3, LenProperties
<1>5. Found(s, N, f)
  <2> HIDE DEF N
  <2> QED BY <1>1, PartFound
<1>6. \A n, m \in 0..N : n <= m =>
        Len(f[n]) <= Len(f[m]) /\ \A j \in 1..Len(f[n]) : f[m][j] = f[n][j]
  <2> HIDE DEF N
  <2> QED BY <1>1, PrefixStays
<1> DEFINE o == [n \in 0..N |-> Len(f[n])]
           w == f[N]
<1>7. \A n \in 0..N : o[n] = Len(f[n])
  OBVIOUS
<1>8. 0 \in 0..N /\ Len(f[0]) = 0
  BY <1>2, <1>3, EmptySeq
<1>9. \A n \in 1..N : n \in 0..N /\ n - 1 \in 0..N
  BY <1>2
<1> HIDE DEF o, w, N
<1>10. o[0] = 0 /\ Len(w) = o[N]
  BY <1>2, <1>7, <1>8 DEF w
<1>11. \A n \in 0..N : o[n] \in Nat
  BY <1>4, <1>7
<1>12. \A n \in 1..N : o[n] = o[n - 1] + Len(s[n])
  BY <1>5, <1>7, <1>9 DEF Found
<1>13. \A n \in 1..N : \A j \in 1..Len(s[n]) : w[o[n - 1] + j] = s[n][j]
  BY <1>5, <1>7, <1>9 DEF Found, w
<1>14. \A m, n \in 0..N : m <= n => o[m] <= o[n]
  BY <1>6, <1>7
<1>15. ASSUME NEW k \in 1..Len(w) PROVE \E n \in 1..N : o[n - 1] < k /\ k <= o[n]
  <2> DEFINE after == {n \in 0..N : k <= o[n]}
  <2>0. k \in Nat /\ ~(k <= 0) /\ k <= o[N]
    <3>1. Len(w) \in Nat BY <1>2, <1>4 DEF w
    <3> QED BY <1>10, <3>1
  <2>1. after \in SUBSET Nat /\ N \in after BY <1>2, <2>0
  <2>2. PICK n \in after : \A m \in after : n <= m
    <3> HIDE DEF after
    <3> QED BY <2>1, LeastExists
  <2>3. n # 0 BY <1>10, <2>0
  <2>4. n \in 1..N /\ n - 1 \in 0..N /\ n - 1 < n
    <3>1. n \in 0..N OBVIOUS
    <3> HIDE DEF after
    <3> QED BY <1>2, <2>3, <3>1
  <2>5. n - 1 \notin after
    <3> HIDE DEF after
    <3> QED BY <2>2, <2>4
  <2>6. o[n - 1] < k BY <1>11, <2>0, <2>4, <2>5
  <2> QED BY <2>4, <2>6
<1>16. Placed(s, w, o)
  BY <1>10, <1>11, <1>12, <1>13, <1>14, <1>15 DEF Placed, N
<1>17. f[N] \in Seq(S) BY <1>2, <1>4
<1> QED BY <1>1, <1>16, <1>17 DEF w

(* Parts of one element or none: what is left of a sequence that is        *)
(* filtered stands, one to one, for the elements that are kept.            *)
Kept(s) == {n \in 1..Len(s) : Len(s[n]) = 1}

LEMMA FlattenSingles ==
  ASSUME NEW S, NEW s \in Seq(Seq(S)), \A n \in 1..Len(s) : Len(s[n]) \in {0, 1}
  PROVE  \E g \in [1..Len(Feed!FlattenSeq(s)) -> Kept(s)] :
           /\ \A k \in 1..Len(Feed!FlattenSeq(s)) : Feed!FlattenSeq(s)[k] = s[g[k]][1]
           /\ \A k, l \in 1..Len(Feed!FlattenSeq(s)) : g[k] = g[l] => k = l
           /\ \A n \in Kept(s) : \E k \in 1..Len(Feed!FlattenSeq(s)) : g[k] = n
<1> DEFINE w == Feed!FlattenSeq(s)
           N == Len(s)
<1>1. PICK o : Placed(s, w, o)
  BY FlattenPlaced
<1>2. N \in Nat /\ Len(w) \in Nat
  <2>1. w \in Seq(S) BY FlattenPlaced
  <2> HIDE DEF w
  <2> QED BY <2>1, LenProperties
<1>3. /\ o[0] = 0 /\ Len(w) = o[N]
      /\ \A n \in 0..N : o[n] \in Nat
      /\ \A n \in 1..N : o[n] = o[n - 1] + Len(s[n])
      /\ \A n \in 1..N : \A j \in 1..Len(s[n]) : w[o[n - 1] + j] = s[n][j]
      /\ \A m, n \in 0..N : m <= n => o[m] <= o[n]
      /\ \A k \in 1..Len(w) : \E n \in 1..N : o[n - 1] < k /\ k <= o[n]
  BY <1>1 DEF Placed
<1> HIDE DEF w, N
<1>4. ASSUME NEW n \in 1..N
      PROVE  /\ Len(s[n]) = 0 \/ Len(s[n]) = 1
             /\ n \in 0..N /\ n - 1 \in 0..N /\ o[n] \in Nat /\ o[n - 1] \in Nat
  BY <1>2, <1>3 DEF N
<1>5. ASSUME NEW k \in 1..Len(w)
      PROVE  \E n \in Kept(s) : k = o[n - 1] + 1
  <2>1. PICK n \in 1..N : o[n - 1] < k /\ k <= o[n] BY <1>3
  <2>2. k \in Nat /\ o[n] = o[n - 1] + Len(s[n]) BY <1>2, <1>3
  <2>3. Len(s[n]) = 1 /\ k = o[n - 1] + 1
    <3> DEFINE a == o[n - 1]  b == o[n]  c == Len(s[n])
    <3>1. a \in Nat /\ b \in Nat /\ b = a + c /\ (c = 0 \/ c = 1) /\ a < k /\ k <= b
      BY <1>4, <2>1, <2>2
    <3> HIDE DEF a, b, c
    <3>2. c = 1 /\ k = a + 1 BY <2>2, <3>1
    <3> QED BY <3>2 DEF a, c
  <2> QED BY <2>3 DEF Kept, N
<1> DEFINE g == [k \in 1..Len(w) |-> CHOOSE n \in Kept(s) : k = o[n - 1] + 1]
<1>6. ASSUME NEW k \in 1..Len(w)
      PROVE  g[k] \in Kept(s) /\ k = o[g[k] - 1] + 1
  BY <1>5
<1>7. g \in [1..Len(w) -> Kept(s)]
  BY <1>6
<1> HIDE DEF g
<1>8. ASSUME NEW n \in Kept(s)
      PROVE  /\ n \in 1..N /\ o[n] = o[n - 1] + 1 /\ o[n - 1] + 1 \in 1..Len(w)
             /\ w[o[n - 1] + 1] = s[n][1]
  <2>1. n \in 1..N /\ Len(s[n]) = 1 BY DEF Kept, N
  <2>2. o[n] = o[n - 1] + 1 /\ o[n] <= o[N]
    <3>1. N \in 0..N /\ n <= N BY <1>2, <2>1
    <3> QED BY <1>3, <1>4, <2>1, <3>1
  <2>3. w[o[n - 1] + 1] = s[n][1]
    <3>1. 1 \in 1..Len(s[n]) BY <2>1
    <3> QED BY <1>3, <2>1, <3>1
  <2>4. o[n - 1] + 1 \in 1..Len(w)
    BY <1>2, <1>3, <1>4, <2>1, <2>2
  <2> QED BY <2>1, <2>2, <2>3, <2>4
<1>9. \A k \in 1..Len(w) : w[k] = s[g[k]][1]
  BY <1>6, <1>8
<1>10. \A k, l \in 1..Len(w) : g[k] = g[l] => k = l
  BY <1>6
<1>11. ASSUME NEW n \in Kept(s) PROVE \E k \in 1..Len(w) : g[k] = n
  <2> DEFINE k == o[n - 1] + 1
             m == g[k]
  <2>1. k \in 1..Len(w) /\ n \in 1..N /\ o[n] = o[n - 1] + 1 BY <1>8
  <2>2. m \in Kept(s) /\ k = o[m - 1] + 1 BY <1>6, <2>1
  <2>3. m \in 1..N /\ o[m] = o[m - 1] + 1 BY <1>8, <2>2
  <2>4. o[m - 1] = o[n - 1]
    <3>1. o[m - 1] \in Nat /\ o[n - 1] \in Nat BY <1>4, <2>1, <2>3
    <3> QED BY <2>2, <3>1
  <2> HIDE DEF m, k
  <2>5. n \in Nat /\ m \in Nat /\ n \in 0..N /\ m \in 0..N /\ n - 1 \in 0..N
        /\ m - 1 \in 0..N /\ o[n - 1] \in Nat /\ o[m - 1] \in Nat
    BY <1>4, <2>1, <2>3
  <2>6. ~(m < n)
    <3> SUFFICES ASSUME m < n PROVE FALSE
      OBVIOUS
    <3>1. m <= n - 1 BY <2>5
    <3>2. o[m] <= o[n - 1] BY <1>3, <2>5, <3>1
    <3> QED BY <2>3, <2>4, <2>5, <3>2
  <2>7. ~(n < m)
    <3> SUFFICES ASSUME n < m PROVE FALSE
      OBVIOUS
    <3>1. n <= m - 1 BY <2>5
    <3>2. o[n] <= o[m - 1] BY <1>3, <2>5, <3>1
    <3> QED BY <2>1, <2>4, <2>5, <3>2
  <2>8. m = n BY <2>5, <2>6, <2>7
  <2> QED BY <2>1, <2>8 DEF m
<1>12. /\ g \in [1..Len(w) -> Kept(s)]
       /\ \A k \in 1..Len(w) : w[k] = s[g[k]][1]
       /\ \A k, l \in 1..Len(w) : g[k] = g[l] => k = l
       /\ \A n \in Kept(s) : \E k \in 1..Len(w) : g[k] = n
  BY <1>7, <1>9, <1>10, <1>11
<1> QED BY <1>12 DEF w

-----------------------------------------------------------------------------
(* What evaluate, render_prometheus and query_range make of any samples.   *)

(* The alerts of one rule. *)
hits(rule, ms) ==
  Feed!FlattenSeq([j \in DOMAIN ms |->
    IF Feed!breaks(rule, ms[j]) THEN <<Feed!Alert(rule, ms[j])>> ELSE <<>>])

(* w are the alerts of the rule, g says of which samples. *)
Tells(rule, ms, w, g) ==
  /\ g \in [1..Len(w) -> {j \in DOMAIN ms : Feed!breaks(rule, ms[j])}]
  /\ \A k \in 1..Len(w) : w[k] = Feed!Alert(rule, ms[g[k]])
  /\ \A k, l \in 1..Len(w) : g[k] = g[l] => k = l
  /\ \A j \in DOMAIN ms :
       Feed!breaks(rule, ms[j]) => \E k \in 1..Len(w) : g[k] = j

LEMMA RuleTells ==
  ASSUME NEW n \in Nat, NEW ms, DOMAIN ms = 1..n, NEW rule, NEW S,
         \A j \in 1..n : Feed!Alert(rule, ms[j]) \in S
  PROVE  hits(rule, ms) \in Seq(S) /\ \E g : Tells(rule, ms, hits(rule, ms), g)
<1> DEFINE rows(j) == IF Feed!breaks(rule, ms[j])
                      THEN <<Feed!Alert(rule, ms[j])>> ELSE <<>>
           s == [j \in 1..n |-> rows(j)]
<1>1. ASSUME NEW j \in 1..n
      PROVE  /\ s[j] \in Seq(S)
             /\ Feed!breaks(rule, ms[j]) => Len(s[j]) = 1 /\ s[j][1] = Feed!Alert(rule, ms[j])
             /\ ~Feed!breaks(rule, ms[j]) => Len(s[j]) = 0
  <2> DEFINE a == Feed!Alert(rule, ms[j])
  <2>1. a \in S OBVIOUS
  <2>2. s[j] = IF Feed!breaks(rule, ms[j]) THEN <<a>> ELSE <<>> OBVIOUS
  <2> HIDE DEF a, s
  <2>3. /\ <<a>> \in Seq(S) /\ Len(<<a>>) = 1 /\ <<a>>[1] = a
        /\ <<>> \in Seq(S) /\ Len(<<>>) = 0
    BY <2>1, EmptySeq
  <2> QED BY <2>2, <2>3 DEF a
<1>2. DOMAIN s = 1..n /\ s = [j \in 1..n |-> s[j]] /\ hits(rule, ms) = Feed!FlattenSeq(s)
  BY DEF hits
<1> HIDE DEF s, rows
<1>3. s \in Seq(Seq(S)) /\ Len(s) = n
  BY <1>1, <1>2
<1>4. \A j \in 1..Len(s) : Len(s[j]) \in {0, 1}
  BY <1>1, <1>3
<1> DEFINE w == Feed!FlattenSeq(s)
<1>5. w \in Seq(S)
  BY <1>3, FlattenPlaced
<1>6. PICK g \in [1..Len(w) -> Kept(s)] :
        /\ \A k \in 1..Len(w) : w[k] = s[g[k]][1]
        /\ \A k, l \in 1..Len(w) : g[k] = g[l] => k = l
        /\ \A j \in Kept(s) : \E k \in 1..Len(w) : g[k] = j
  BY <1>3, <1>4, FlattenSingles
<1> HIDE DEF w
<1>7. Kept(s) = {j \in DOMAIN ms : Feed!breaks(rule, ms[j])}
  BY <1>1, <1>3 DEF Kept
<1>8. Tells(rule, ms, w, g)
  <2>1. \A k \in 1..Len(w) : w[k] = Feed!Alert(rule, ms[g[k]])
    BY <1>1, <1>6, <1>7
  <2> QED BY <1>6, <1>7, <2>1 DEF Tells
<1> QED BY <1>2, <1>5, <1>8 DEF w

(* The alerts are, one to one, the samples that break a rule. *)
OneToOne(rules, ms) ==
  LET as == Feed!evaluate(rules, ms)
      breaches == {x \in (DOMAIN rules) \X (DOMAIN ms) :
                     Feed!breaks(rules[x[1]], ms[x[2]])} IN
  \E of \in Feed!Bijection(DOMAIN as, breaches) :
    \A k \in DOMAIN as : as[k] = Feed!Alert(rules[of[k][1]], ms[of[k][2]])

LEMMA EvaluateTells ==
  ASSUME NEW q \in Nat, NEW rules, DOMAIN rules = 1..q,
         NEW n \in Nat, NEW ms, DOMAIN ms = 1..n
  PROVE  OneToOne(rules, ms)
<1> DEFINE as == Feed!evaluate(rules, ms)
           breaches == {x \in (DOMAIN rules) \X (DOMAIN ms) :
                          Feed!breaks(rules[x[1]], ms[x[2]])}
           S == {Feed!Alert(rules[i], ms[j]) : i \in 1..q, j \in 1..n}
           s == [i \in 1..q |-> hits(rules[i], ms)]
           G == [i \in 1..q |-> CHOOSE g : Tells(rules[i], ms, s[i], g)]
<1>1. ASSUME NEW i \in 1..q
      PROVE  s[i] \in Seq(S) /\ Tells(rules[i], ms, s[i], G[i])
  <2> DEFINE rule == rules[i]
  <2>1. \A j \in 1..n : Feed!Alert(rule, ms[j]) \in S OBVIOUS
  <2>2. s[i] = hits(rule, ms) OBVIOUS
  <2> HIDE DEF S, s, rule
  <2>3. hits(rule, ms) \in Seq(S) /\ \E g : Tells(rule, ms, hits(rule, ms), g)
    BY <2>1, RuleTells
  <2> QED BY <2>2, <2>3 DEF rule
<1>2. DOMAIN s = 1..q /\ s = [i \in 1..q |-> s[i]] /\ as = Feed!FlattenSeq(s)
  BY DEF hits, Feed!evaluate
<1> HIDE DEF s, S, G
<1>3. s \in Seq(Seq(S)) /\ Len(s) = q
  BY <1>1, <1>2
<1>4. as \in Seq(S) /\ \E o : Placed(s, as, o)
  <2> HIDE DEF as
  <2> QED BY <1>2, <1>3, FlattenPlaced
<1>5. PICK o : Placed(s, as, o)
  BY <1>4
<1>6. DOMAIN as = 1..Len(as) /\ Len(as) \in Nat
  <2> HIDE DEF as
  <2> QED BY <1>4, LenProperties
<1> HIDE DEF as
<1>7. /\ Len(as) = o[q]
      /\ \A i \in 0..q : o[i] \in Nat
      /\ \A i \in 1..q : o[i] = o[i - 1] + Len(s[i])
      /\ \A i \in 1..q : \A j \in 1..Len(s[i]) : as[o[i - 1] + j] = s[i][j]
      /\ \A m, i \in 0..q : m <= i => o[m] <= o[i]
      /\ \A k \in 1..Len(as) : \E i \in 1..q : o[i - 1] < k /\ k <= o[i]
  BY <1>3, <1>5 DEF Placed
<1>8. \A i \in 1..q : Len(s[i]) \in Nat /\ i \in 0..q /\ i - 1 \in 0..q
  BY <1>1, LenProperties
<1> DEFINE I == [k \in 1..Len(as) |-> CHOOSE i \in 1..q : o[i - 1] < k /\ k <= o[i]]
           At(k) == <<I[k], G[I[k]][k - o[I[k] - 1]]>>
           of == [k \in 1..Len(as) |-> At(k)]
<1>9. \A k \in 1..Len(as) : I[k] \in 1..q /\ o[I[k] - 1] < k /\ k <= o[I[k]]
  BY <1>7
<1> HIDE DEF I
<1>10. \A k \in 1..Len(as) : of[k] = <<I[k], G[I[k]][k - o[I[k] - 1]]>>
  OBVIOUS
<1> HIDE DEF At
<1>11. DOMAIN of = 1..Len(as) /\ of = [k \in 1..Len(as) |-> of[k]]
  OBVIOUS
<1> HIDE DEF of
(* A place in the whole is one in the alerts of a rule. *)
<1>12. ASSUME NEW k \in 1..Len(as)
       PROVE  LET j == k - o[I[k] - 1] IN
              /\ I[k] \in 1..q /\ j \in 1..Len(s[I[k]]) /\ k = o[I[k] - 1] + j
              /\ as[k] = s[I[k]][j] /\ of[k] = <<I[k], G[I[k]][j]>>
  <2> DEFINE i == I[k]
             j == k - o[i - 1]
  <2>1. i \in 1..q /\ o[i - 1] < k /\ k <= o[i] BY <1>9
  <2> HIDE DEF i
  <2>2. o[i - 1] \in Nat /\ o[i] = o[i - 1] + Len(s[i]) /\ Len(s[i]) \in Nat
    BY <1>7, <1>8, <2>1
  <2>3. j \in 1..Len(s[i]) /\ k = o[i - 1] + j
    <3> DEFINE a == o[i - 1]  b == o[i]  c == Len(s[i])
    <3>1. a \in Nat /\ c \in Nat /\ b = a + c /\ k \in Nat /\ a < k /\ k <= b
      BY <1>6, <2>1, <2>2
    <3> HIDE DEF a, b, c
    <3>2. k - a \in 1..c /\ k = a + (k - a) BY <3>1
    <3> QED BY <3>2 DEF a, c
  <2>4. as[k] = s[i][j] BY <1>7, <2>1, <2>3
  <2>5. of[k] = <<i, G[i][j]>> BY <1>10 DEF i
  <2> QED BY <2>1, <2>3, <2>4, <2>5 DEF i
<1>13. ASSUME NEW k \in 1..Len(as)
       PROVE  /\ of[k] \in breaches
              /\ as[k] = Feed!Alert(rules[of[k][1]], ms[of[k][2]])
  <2> DEFINE i == I[k]
             j == k - o[i - 1]
             h == G[i][j]
  <2>1. i \in 1..q /\ j \in 1..Len(s[i]) /\ as[k] = s[i][j] /\ of[k] = <<i, h>>
    BY <1>12
  <2> HIDE DEF i, j
  <2>2. /\ h \in DOMAIN ms /\ Feed!breaks(rules[i], ms[h])
        /\ s[i][j] = Feed!Alert(rules[i], ms[h])
    BY <1>1, <2>1 DEF Tells
  <2> QED BY <2>1, <2>2
<1>14. ASSUME NEW k \in 1..Len(as), NEW l \in 1..Len(as), of[k] = of[l]
       PROVE  k = l
  <2> DEFINE i == I[k]
             a == k - o[i - 1]
             b == l - o[i - 1]
  <2>1. /\ i \in 1..q /\ a \in 1..Len(s[i]) /\ k = o[i - 1] + a
        /\ of[k] = <<i, G[i][a]>>
    BY <1>12
  <2>2. I[l] = i
    <3> DEFINE e == I[l]  y == G[e][l - o[e - 1]]  z == G[i][a]
    <3>1. of[l] = <<e, y>> /\ of[k] = <<i, z>> BY <1>12, <2>1
    <3> HIDE DEF e, y, z, i, a, b
    <3>2. e = i BY <1>14, <3>1
    <3> QED BY <3>2 DEF e
  <2>3. b \in 1..Len(s[i]) /\ l = o[i - 1] + b /\ of[l] = <<i, G[i][b]>>
    BY <1>12, <2>2
  <2> HIDE DEF i, a, b
  <2>4. G[i][a] = G[i][b] BY <1>14, <2>1, <2>3
  <2>5. a = b BY <1>1, <2>1, <2>3, <2>4 DEF Tells
  <2> QED BY <2>1, <2>3, <2>5
<1>15. ASSUME NEW x \in breaches
       PROVE  \E k \in 1..Len(as) : of[k] = x
  <2>1. PICK i \in 1..q, j \in 1..n : x = <<i, j>> /\ Feed!breaks(rules[i], ms[j])
    OBVIOUS
  <2>2. PICK m \in 1..Len(s[i]) : G[i][m] = j
    BY <1>1, <2>1 DEF Tells
  <2> DEFINE k == o[i - 1] + m
  <2>3. /\ o[i - 1] \in Nat /\ o[i] \in Nat /\ o[i] = o[i - 1] + Len(s[i])
        /\ Len(s[i]) \in Nat /\ m \in Nat /\ m >= 1 /\ m <= Len(s[i])
    <3>1. Len(s[i]) \in Nat /\ i \in 0..q /\ i - 1 \in 0..q BY <1>8
    <3>2. m \in Nat /\ m >= 1 /\ m <= Len(s[i]) BY <2>2, <3>1
    <3> QED BY <1>7, <3>1, <3>2
  <2>4. o[i - 1] < k /\ k <= o[i] /\ k \in Nat /\ k >= 1 /\ k - o[i - 1] = m
    <3> DEFINE a == o[i - 1]  b == o[i]  c == Len(s[i])
    <3> HIDE DEF a, b, c
    <3> SUFFICES a < a + m /\ a + m <= b /\ a + m \in Nat /\ a + m >= 1 /\ (a + m) - a = m
      BY DEF a, b
    <3>1. a \in Nat /\ b \in Nat /\ b = a + c /\ c \in Nat /\ m <= c
      BY <2>3 DEF a, b, c
    <3> QED BY <2>3, <3>1
  <2> HIDE DEF k
  <2>5. k \in 1..Len(as)
    <3>1. q \in 0..q /\ i \in 0..q /\ i <= q OBVIOUS
    <3>2. o[i] <= o[q] BY <1>7, <3>1
    <3> QED BY <1>6, <1>7, <2>3, <2>4, <3>2
  <2> DEFINE e == I[k]
  <2>6. e \in 1..q /\ o[e - 1] < k /\ k <= o[e] BY <1>9, <2>5
  <2> HIDE DEF e
  <2>7. e = i
    <3>1. /\ e \in 0..q /\ e - 1 \in 0..q /\ i \in 0..q /\ i - 1 \in 0..q
          /\ o[e] \in Nat /\ o[e - 1] \in Nat
      BY <1>7, <1>8, <2>6
    <3>2. ~(e < i)
      <4> SUFFICES ASSUME e < i PROVE FALSE
        OBVIOUS
      <4>1. e <= i - 1 BY <2>6
      <4>2. o[e] <= o[i - 1] BY <1>7, <3>1, <4>1
      <4> QED BY <2>3, <2>4, <2>6, <3>1, <4>2
    <3>3. ~(i < e)
      <4> SUFFICES ASSUME i < e PROVE FALSE
        OBVIOUS
      <4>1. i <= e - 1 BY <2>6
      <4>2. o[i] <= o[e - 1] BY <1>7, <3>1, <4>1
      <4> QED BY <2>3, <2>4, <2>6, <3>1, <4>2
    <3> QED BY <2>6, <3>2, <3>3
  <2>8. of[k] = <<i, G[i][m]>>
    BY <1>10, <2>4, <2>5, <2>7 DEF e
  <2> QED BY <2>1, <2>2, <2>5, <2>8
<1>16. of \in [1..Len(as) -> breaches]
  BY <1>11, <1>13
<1>17. of \in Feed!Bijection(DOMAIN as, breaches)
  BY <1>6, <1>14, <1>15, <1>16
  DEF Feed!Bijection, Feed!Injection, Feed!Surjection, Feed!IsInjective
<1> QED BY <1>6, <1>13, <1>17 DEF OneToOne, as

(* Every element of the whole is one of a part. *)
LEMMA InPart ==
  ASSUME NEW S, NEW s \in Seq(Seq(S)), NEW w \in Seq(S), NEW o, Placed(s, w, o),
         NEW k \in 1..Len(w)
  PROVE  \E i \in 1..Len(s) : \E j \in 1..Len(s[i]) : k = o[i - 1] + j /\ w[k] = s[i][j]
<1>1. PICK i \in 1..Len(s) : o[i - 1] < k /\ k <= o[i]
  BY DEF Placed
<1> DEFINE a == o[i - 1]  b == o[i]  c == Len(s[i])
<1>2. a \in Nat /\ b = a + c /\ c \in Nat /\ k \in Nat
  <2>1. /\ Len(s) \in Nat /\ Len(w) \in Nat /\ s[i] \in Seq(S)
        /\ \A n \in 1..Len(s) : n - 1 \in 0..Len(s)
    BY LenProperties, ElementOfSeq
  <2>2. Len(s[i]) \in Nat BY <2>1, LenProperties
  <2> QED BY <2>1, <2>2 DEF Placed
<1>3. k - a \in 1..c /\ k = a + (k - a)
  <2>1. a < k /\ k <= b BY <1>1
  <2> HIDE DEF a, b, c
  <2> QED BY <1>2, <2>1
<1> HIDE DEF a, b, c
<1>4. w[a + (k - a)] = s[i][k - a]
  BY <1>3 DEF Placed, a, c
<1> QED BY <1>3, <1>4 DEF a, c

(* Where the lines of HELP and of TYPE stand in what is written for the    *)
(* first sample of a name.                                                 *)
Place(kind) == IF kind = "HELP" THEN 1 ELSE 2

LEMMA HeadersStandOnce ==
  ASSUME NEW n \in Nat, NEW ms, DOMAIN ms = 1..n
  PROVE  LET ls == Feed!render_prometheus(ms) IN
         \A i \in DOMAIN ls : ls[i].kind = "sample" =>
           \A k \in {"HELP", "TYPE"} :
             LET at == {j \in DOMAIN ls : ls[j].kind = k /\ ls[j].name = ls[i].name} IN
             \E j \in at : at = {j} /\ j < i
<1> DEFINE ls == Feed!render_prometheus(ms)
           S == {Feed!Line(k, ms[i]) : k \in {"HELP", "TYPE", "sample"}, i \in 1..n}
           rows(i) == IF Feed!seen(ms, i)
                      THEN <<Feed!Line("sample", ms[i])>>
                      ELSE <<Feed!Line("HELP", ms[i]), Feed!Line("TYPE", ms[i]),
                             Feed!Line("sample", ms[i])>>
           s == [i \in 1..n |-> rows(i)]
<1>1. ASSUME NEW i \in 1..n
      PROVE  /\ s[i] \in Seq(S) /\ Len(s[i]) \in Nat
             /\ \A j \in 1..Len(s[i]) : s[i][j].name = ms[i].name
             /\ Feed!seen(ms, i) => Len(s[i]) = 1 /\ s[i][1].kind = "sample"
             /\ ~Feed!seen(ms, i) =>
                  /\ Len(s[i]) = 3 /\ s[i][1].kind = "HELP" /\ s[i][2].kind = "TYPE"
                  /\ s[i][3].kind = "sample"
  <2> DEFINE h == Feed!Line("HELP", ms[i])
             t == Feed!Line("TYPE", ms[i])
             u == Feed!Line("sample", ms[i])
  <2>1. h \in S /\ t \in S /\ u \in S OBVIOUS
  <2>2. /\ h.kind = "HELP" /\ t.kind = "TYPE" /\ u.kind = "sample"
        /\ h.name = ms[i].name /\ t.name = ms[i].name /\ u.name = ms[i].name
    BY DEF Feed!Line
  <2>3. s[i] = IF Feed!seen(ms, i) THEN <<u>> ELSE <<h, t, u>> OBVIOUS
  <2> HIDE DEF h, t, u, s, S
  <2>4. CASE Feed!seen(ms, i)
    <3>1. s[i] = <<u>> BY <2>3, <2>4
    <3>2. Len(s[i]) = 1 /\ s[i] \in Seq(S) BY <2>1, <3>1
    <3> QED BY <2>2, <2>4, <3>1, <3>2
  <2>5. CASE ~Feed!seen(ms, i)
    <3>1. s[i] = <<h, t, u>> BY <2>3, <2>5
    <3>2. Len(s[i]) = 3 /\ s[i] \in Seq(S) BY <2>1, <3>1
    <3>3. \A j \in 1..3 : j = 1 \/ j = 2 \/ j = 3 OBVIOUS
    <3> QED BY <2>2, <2>5, <3>1, <3>2, <3>3
  <2> QED BY <2>4, <2>5
<1>2. DOMAIN s = 1..n /\ s = [i \in 1..n |-> s[i]] /\ ls = Feed!FlattenSeq(s)
  BY DEF Feed!render_prometheus
<1> HIDE DEF s, S, rows
<1>3. s \in Seq(Seq(S)) /\ Len(s) = n
  BY <1>1, <1>2
<1>4. ls \in Seq(S) /\ \E o : Placed(s, ls, o)
  <2> HIDE DEF ls
  <2> QED BY <1>2, <1>3, FlattenPlaced
<1>5. PICK o : Placed(s, ls, o)
  BY <1>4
<1>6. DOMAIN ls = 1..Len(ls) /\ Len(ls) \in Nat
  <2> HIDE DEF ls
  <2> QED BY <1>4, LenProperties
<1> HIDE DEF ls
<1>7. /\ Len(ls) = o[n]
      /\ \A i \in 0..n : o[i] \in Nat
      /\ \A i \in 1..n : o[i] = o[i - 1] + Len(s[i])
      /\ \A i \in 1..n : \A j \in 1..Len(s[i]) : ls[o[i - 1] + j] = s[i][j]
      /\ \A m, i \in 0..n : m <= i => o[m] <= o[i]
  BY <1>3, <1>5 DEF Placed
<1>8. \A k \in 1..Len(ls) : \E i \in 1..n : \E j \in 1..Len(s[i]) :
        k = o[i - 1] + j /\ ls[k] = s[i][j]
  <2> HIDE DEF S
  <2>1. ASSUME NEW k \in 1..Len(ls)
        PROVE  \E i \in 1..Len(s) : \E j \in 1..Len(s[i]) :
                 k = o[i - 1] + j /\ ls[k] = s[i][j]
    BY <1>3, <1>4, <1>5, InPart
  <2> QED BY <1>3, <2>1
<1>9. \A i \in 1..n : i \in 0..n /\ i - 1 \in 0..n /\ o[i] \in Nat /\ o[i - 1] \in Nat
  BY <1>7
(* A header line is that of the first sample of its name. *)
<1>10. ASSUME NEW k \in 1..Len(ls), NEW K \in {"HELP", "TYPE"}, ls[k].kind = K
       PROVE  \E i \in 1..n : /\ ~Feed!seen(ms, i) /\ ms[i].name = ls[k].name
                              /\ k = o[i - 1] + Place(K)
  <2>0. PICK i \in 1..n : \E j \in 1..Len(s[i]) : k = o[i - 1] + j /\ ls[k] = s[i][j]
    BY <1>8
  <2>1. PICK j \in 1..Len(s[i]) : k = o[i - 1] + j /\ ls[k] = s[i][j]
    BY <2>0
  <2>2. j \in Nat /\ 1 <= j /\ j <= Len(s[i]) BY <1>1, <2>1
  <2>3. ~Feed!seen(ms, i)
    <3> SUFFICES ASSUME Feed!seen(ms, i) PROVE FALSE
      OBVIOUS
    <3>1. j = 1 BY <1>1, <2>2
    <3> QED BY <1>1, <1>10, <2>1, <3>1
  <2>4. j = 1 \/ j = 2 \/ j = 3 BY <1>1, <2>2, <2>3
  <2>5. j = Place(K) BY <1>1, <1>10, <2>1, <2>3, <2>4 DEF Place
  <2> QED BY <1>1, <2>1, <2>3, <2>5
<1>11. ASSUME NEW k \in 1..Len(ls), ls[k].kind = "sample", NEW K \in {"HELP", "TYPE"}
       PROVE  LET at == {j \in 1..Len(ls) : ls[j].kind = K /\ ls[j].name = ls[k].name} IN
              \E j \in at : at = {j} /\ j < k
  <2> DEFINE at == {j \in 1..Len(ls) : ls[j].kind = K /\ ls[j].name = ls[k].name}
  <2>0. PICK i \in 1..n : \E j \in 1..Len(s[i]) : k = o[i - 1] + j /\ ls[k] = s[i][j]
    BY <1>8
  <2>1. PICK j \in 1..Len(s[i]) : k = o[i - 1] + j /\ ls[k] = s[i][j]
    BY <2>0
  <2>2. ls[k].name = ms[i].name /\ j \in Nat /\ 1 <= j
    BY <1>1, <2>1
  <2> DEFINE same == {m \in 1..n : ms[m].name = ms[i].name}
  <2>3. PICK f \in same : \A m \in same : f <= m
    <3>1. same \in SUBSET Nat /\ i \in same OBVIOUS
    <3> HIDE DEF same
    <3> QED BY <3>1, LeastExists
  <2>4. f \in 1..n /\ ms[f].name = ms[i].name /\ f <= i
    <3>1. i \in same /\ f \in 1..n /\ ms[f].name = ms[i].name OBVIOUS
    <3> HIDE DEF same
    <3> QED BY <2>3, <3>1
  <2>5. ~Feed!seen(ms, f)
    <3> SUFFICES ASSUME Feed!seen(ms, f) PROVE FALSE
      OBVIOUS
    <3>1. PICK m \in 1..(f - 1) : ms[m].name = ms[f].name BY DEF Feed!seen
    <3>2. m \in 1..n /\ ~(f <= m) BY <2>4
    <3>3. m \in same BY <2>4, <3>1, <3>2
    <3> QED BY <2>3, <3>2, <3>3
  <2> HIDE DEF same
  <2>6. /\ Len(s[f]) = 3 /\ s[f][1].kind = "HELP" /\ s[f][2].kind = "TYPE"
        /\ s[f][1].name = ms[f].name /\ s[f][2].name = ms[f].name
    <3>1. Len(s[f]) = 3 BY <1>1, <2>4, <2>5
    <3>2. 1 \in 1..Len(s[f]) /\ 2 \in 1..Len(s[f]) BY <3>1
    <3> QED BY <1>1, <2>4, <2>5, <3>1, <3>2
  <2> DEFINE p == Place(K)
             h == o[f - 1] + p
  <2>7. p \in Nat /\ 1 <= p /\ p <= 2 /\ p \in 1..Len(s[f])
        /\ s[f][p].kind = K /\ s[f][p].name = ms[f].name
    BY <2>6 DEF Place
  <2> HIDE DEF p
  <2>8. h \in Nat /\ 1 <= h /\ h < o[f] /\ ls[h] = s[f][p]
    <3>1. o[f] = o[f - 1] + 3 /\ o[f] \in Nat /\ o[f - 1] \in Nat
      BY <1>7, <1>9, <2>4, <2>6
    <3>2. ls[o[f - 1] + p] = s[f][p] BY <1>7, <2>4, <2>7
    <3> DEFINE a == o[f - 1]  b == o[f]
    <3>3. b = a + 3 /\ a \in Nat BY <3>1
    <3> HIDE DEF a, b
    <3>4. a + p \in Nat /\ 1 <= a + p /\ a + p < b BY <2>7, <3>3
    <3> QED BY <3>2, <3>4 DEF a, b
  <2>9. h \in 1..Len(ls)
    <3>1. n \in 0..n /\ f \in 0..n /\ f <= n BY <2>4
    <3>2. o[f] <= o[n] BY <1>7, <3>1
    <3> QED BY <1>6, <1>7, <1>9, <2>4, <2>8, <3>2
  <2>10. h \in at
    BY <2>2, <2>4, <2>7, <2>8, <2>9
  <2>11. h < k
    <3>1. CASE f = i
      <4>1. j \in 1..3 BY <2>1, <2>6, <3>1
      <4>2. j = 3 BY <1>1, <1>11, <2>1, <2>5, <3>1, <4>1
      <4> DEFINE a == o[i - 1]
      <4>3. a \in Nat /\ k = a + 3 /\ h = a + p BY <1>9, <2>1, <3>1, <4>2
      <4> HIDE DEF a, h
      <4> QED BY <2>7, <4>3
    <3>2. CASE f # i
      <4>1. f <= i - 1 /\ f \in 0..n /\ i - 1 \in 0..n BY <2>1, <2>4, <3>2
      <4>2. o[f] <= o[i - 1] BY <1>7, <4>1
      <4>3. o[f] \in Nat /\ o[i - 1] \in Nat BY <1>9, <2>1, <2>4
      <4>4. o[i - 1] < k BY <2>1, <2>2, <4>3
      <4> QED BY <2>8, <4>2, <4>3, <4>4
    <3> QED BY <3>1, <3>2
  <2>12. ASSUME NEW e \in at PROVE e = h
    <3>1. e \in 1..Len(ls) /\ ls[e].kind = K /\ ls[e].name = ms[i].name BY <2>2
    <3>2. PICK g \in 1..n : ~Feed!seen(ms, g) /\ ms[g].name = ls[e].name
                            /\ e = o[g - 1] + Place(K)
      BY <1>10, <3>1
    <3>3. g \in same BY <3>1, <3>2 DEF same
    <3>4. g = f
      <4> SUFFICES ASSUME g # f PROVE FALSE
        OBVIOUS
      <4>1. f \in 1..(g - 1) BY <2>3, <2>4, <3>3, <3>2
      <4>2. Feed!seen(ms, g) BY <2>4, <3>1, <3>2, <4>1 DEF Feed!seen
      <4> QED BY <3>2, <4>2
    <3> QED BY <3>2, <3>4 DEF p
  <2>13. at = {h}
    <3> HIDE DEF at, h
    <3> QED BY <2>10, <2>12
  <2> QED BY <2>10, <2>11, <2>13
<1> QED BY <1>6, <1>11 DEF ls

(* The rows of a query: those of each part, one after the other; none where *)
(* none is asked for; and the same whatever range of times holds them.     *)
Asked(m, name, from, to) == m.name = name /\ m.ts >= from /\ m.ts <= to

Rows(ms, name, from, to) ==
  [i \in DOMAIN ms |-> IF Asked(ms[i], name, from, to) THEN <<ms[i]>> ELSE <<>>]

(* x are the parts that the query makes of ms: a row or nothing for each. *)
Selected(T, ms, name, from, to, x) ==
  /\ Feed!where(ms, name, from, to) = Feed!FlattenSeq(x)
  /\ x \in Seq(Seq(T)) /\ Len(x) = Len(ms) /\ Len(ms) \in Nat
  /\ \A i \in 1..Len(ms) :
       /\ Asked(ms[i], name, from, to) => x[i] = <<ms[i]>>
       /\ ~Asked(ms[i], name, from, to) => x[i] = <<>>

LEMMA RowsOf ==
  ASSUME NEW T, NEW ms \in Seq(T), NEW name, NEW from, NEW to
  PROVE  Selected(T, ms, name, from, to, Rows(ms, name, from, to))
<1> DEFINE n == Len(ms)
           r == Rows(ms, name, from, to)
<1>1. n \in Nat /\ DOMAIN ms = 1..n /\ \A i \in 1..n : ms[i] \in T
  BY LenProperties, ElementOfSeq
<1>2. DOMAIN r = 1..n /\ r = [i \in 1..n |-> r[i]]
  BY <1>1 DEF Rows
<1>3. \A i \in 1..n :
        /\ Asked(ms[i], name, from, to) => r[i] = <<ms[i]>>
        /\ ~Asked(ms[i], name, from, to) => r[i] = <<>>
  BY <1>1 DEF Rows
<1>4. Feed!where(ms, name, from, to) = Feed!FlattenSeq(r)
  BY DEF Feed!where, Rows, Asked
<1> HIDE DEF r, n
<1>5. ASSUME NEW i \in 1..n PROVE r[i] \in Seq(T)
  <2> DEFINE m == ms[i]
  <2>1. m \in T /\ (r[i] = <<m>> \/ r[i] = <<>>)
    BY <1>1, <1>3
  <2> HIDE DEF m
  <2>2. <<m>> \in Seq(T) /\ <<>> \in Seq(T) BY <2>1, EmptySeq
  <2> QED BY <2>1, <2>2
<1>6. r \in Seq(Seq(T)) /\ Len(r) = n
  BY <1>1, <1>2, <1>5
<1> QED BY <1>1, <1>3, <1>4, <1>6 DEF Selected, r, n

LEMMA WhereIsSeq ==
  ASSUME NEW T, NEW ms \in Seq(T), NEW name, NEW from, NEW to
  PROVE  Feed!where(ms, name, from, to) \in Seq(T)
<1>1. PICK x : Selected(T, ms, name, from, to, x)
  BY RowsOf
<1>2. x \in Seq(Seq(T)) /\ Feed!where(ms, name, from, to) = Feed!FlattenSeq(x)
  BY <1>1 DEF Selected
<1> QED BY <1>2, FlattenPlaced

LEMMA WhereOfBoth ==
  ASSUME NEW T, NEW u \in Seq(T), NEW v \in Seq(T), NEW name, NEW from, NEW to
  PROVE  Feed!where(u \o v, name, from, to)
         = Feed!where(u, name, from, to) \o Feed!where(v, name, from, to)
<1> DEFINE w == u \o v
           a == Len(u)
           b == Len(v)
<1>1. /\ w \in Seq(T) /\ a \in Nat /\ b \in Nat /\ Len(w) = a + b
      /\ \A j \in 1..a : w[j] = u[j]
      /\ \A j \in 1..b : w[a + j] = v[j]
  <2> HIDE DEF w
  <2> QED BY Concats DEF w
<1>2. PICK x : Selected(T, u, name, from, to, x)
  BY RowsOf
<1>3. PICK y : Selected(T, v, name, from, to, y)
  BY RowsOf
<1> HIDE DEF w
<1>4. PICK z : Selected(T, w, name, from, to, z)
  BY <1>1, RowsOf
<1>5. z = x \o y
  <2> DEFINE e == x \o y
  <2>1. x \in Seq(Seq(T)) /\ y \in Seq(Seq(T)) /\ Len(x) = a /\ Len(y) = b
        /\ z \in Seq(Seq(T)) /\ Len(z) = a + b
    BY <1>1, <1>2, <1>3, <1>4 DEF Selected
  <2>2. /\ e \in Seq(Seq(T)) /\ Len(e) = Len(x) + Len(y)
        /\ \A j \in 1..Len(x) : e[j] = x[j]
        /\ \A j \in 1..Len(y) : e[Len(x) + j] = y[j]
    <3> DEFINE S == Seq(T)
    <3>1. x \in Seq(S) /\ y \in Seq(S) BY <2>1
    <3> HIDE DEF e, S
    <3>2. /\ e \in Seq(S) /\ Len(e) = Len(x) + Len(y)
          /\ \A j \in 1..Len(x) : e[j] = x[j]
          /\ \A j \in 1..Len(y) : e[Len(x) + j] = y[j]
      BY <3>1, Concats DEF e
    <3> QED BY <3>2 DEF S
  <2> HIDE DEF e, a, b
  <2>3. ASSUME NEW i \in 1..(a + b) PROVE z[i] = e[i]
    <3>1. CASE i \in 1..a
      <4>1. w[i] = u[i] /\ e[i] = x[i] BY <1>1, <2>1, <2>2, <3>1
      <4> QED BY <1>1, <1>2, <1>4, <3>1, <4>1 DEF Selected, a
    <3>2. CASE i \notin 1..a
      <4>1. PICK j \in 1..b : i = a + j
        <5>1. i - a \in 1..b /\ i = a + (i - a) BY <1>1, <3>2
        <5> QED BY <5>1
      <4>2. w[i] = v[j] /\ e[i] = y[j] BY <1>1, <2>1, <2>2, <4>1
      <4> QED BY <1>1, <1>3, <1>4, <4>1, <4>2 DEF Selected, b
    <3> QED BY <3>1, <3>2
  <2>4. z = e
    <3> DEFINE S == Seq(T)
    <3>1. /\ z \in Seq(S) /\ e \in Seq(S) /\ Len(z) = Len(e)
          /\ \A i \in 1..Len(z) : z[i] = e[i]
      BY <2>1, <2>2, <2>3
    <3> HIDE DEF S
    <3> QED BY <3>1, SeqEqual
  <2> QED BY <2>4 DEF e
<1>6. Feed!FlattenSeq(x \o y) = Feed!FlattenSeq(x) \o Feed!FlattenSeq(y)
  <2>1. x \in Seq(Seq(T)) /\ y \in Seq(Seq(T))
    BY <1>2, <1>3 DEF Selected
  <2> QED BY <2>1, FlattenConcat
<1> QED BY <1>2, <1>3, <1>4, <1>5, <1>6 DEF w, Selected

LEMMA WhereNone ==
  ASSUME NEW T, NEW ms \in Seq(T), NEW name, NEW from, NEW to,
         \A i \in 1..Len(ms) : ~Asked(ms[i], name, from, to)
  PROVE  Feed!where(ms, name, from, to) = <<>>
<1>1. PICK x : Selected(T, ms, name, from, to, x)
  BY RowsOf
<1>2. /\ x \in Seq(Seq(T)) /\ Feed!where(ms, name, from, to) = Feed!FlattenSeq(x)
      /\ \A i \in 1..Len(x) : x[i] = <<>>
  BY <1>1 DEF Selected
<1> DEFINE w == Feed!FlattenSeq(x)
<1>3. \A i \in 1..Len(x) : Len(x[i]) = 0
  BY <1>2, EmptySeq
<1>4. w \in Seq(T) /\ \E o : Placed(x, w, o)
  BY <1>2, FlattenPlaced
<1> HIDE DEF w
<1>5. PICK o : Placed(x, w, o)
  BY <1>4
<1>6. Len(w) \in Nat
  BY <1>4, LenProperties
<1>7. Len(w) = 0
  <2> SUFFICES ASSUME Len(w) # 0 PROVE FALSE
    OBVIOUS
  <2>1. 1 \in 1..Len(w) BY <1>6
  <2>2. \E i \in 1..Len(x) : \E j \in 1..Len(x[i]) : 1 = o[i - 1] + j /\ w[1] = x[i][j]
    BY <1>2, <1>4, <1>5, <2>1, InPart
  <2> QED BY <1>3, <2>2
<1>8. w = <<>>
  BY <1>4, <1>7, EmptySeq
<1> QED BY <1>2, <1>8 DEF w

LEMMA WhereSame ==
  ASSUME NEW T, NEW ms \in Seq(T), NEW name, NEW a, NEW b, NEW c, NEW d,
         \A i \in 1..Len(ms) : Asked(ms[i], name, a, b) <=> Asked(ms[i], name, c, d)
  PROVE  Feed!where(ms, name, a, b) = Feed!where(ms, name, c, d)
<1>1. DOMAIN ms = 1..Len(ms)
  BY LenProperties
<1>2. Rows(ms, name, a, b) = Rows(ms, name, c, d)
  BY <1>1, Zenon DEF Rows
<1>3. /\ Selected(T, ms, name, a, b, Rows(ms, name, a, b))
      /\ Selected(T, ms, name, c, d, Rows(ms, name, c, d))
  BY RowsOf
<1> QED BY <1>2, <1>3 DEF Selected

-----------------------------------------------------------------------------
(* MonitorFeed.                                                            *)

FeedTypes ==
  /\ latest.ts \in Nat
  /\ sent \in Seq([ts : Nat, reading : SUBSET Reading])
  /\ f_pc \in [Page -> {"off", "subscribed", "opening", "live", "closed"}]
  /\ f_next \in [Page -> Nat] /\ initial \in [Page -> Nat]
  /\ shown \in [Page -> Int] /\ f_told \in [Page -> SUBSET Nat]

(* The collector gives each snapshot to `latest` before it broadcasts it.  *)
CollectorInv ==
  /\ \A i \in 1..Len(sent) : sent[i].ts = i
  /\ \/ f_frame = {} /\ step = 0 /\ latest.ts = Len(sent)
     \/ \E r \in Reading :
          /\ f_frame = {[ts |-> Len(sent) + 1, reading |-> {r}]}
          /\ \/ step = 1 /\ latest.ts = Len(sent)
             \/ step = 2 /\ latest.ts = Len(sent) + 1

(* What a stream begins with is not older than its receiver's first frame. *)
PageOK(p) ==
  /\ f_next[p] <= Len(sent)
  /\ shown[p] <= latest.ts
  /\ f_pc[p] = "opening" => f_next[p] <= initial[p] /\ initial[p] <= latest.ts
  /\ f_pc[p] = "live" => (initial[p]..f_next[p]) \subseteq f_told[p] \cup {0}

PageInv == \A p \in Page : PageOK(p)

FeedInv == FeedTypes /\ CollectorInv /\ PageInv


(* What a frame is, and that it is the one snapshot. *)
Snapshots == [ts : Nat, reading : SUBSET Reading]

LEMMA FrameOfOne == ASSUME NEW x, f_frame = {x} PROVE Feed!snapshot = x
BY DEF Feed!snapshot

LEMMA FeedStart ==
  ASSUME Feed!FeedAssumption, Feed!Init PROVE FeedInv
<1>1. FeedTypes
  BY DEF Feed!Init, Feed!Empty, FeedTypes
<1>2. CollectorInv
  BY DEF Feed!Init, Feed!Empty, CollectorInv
<1>3. PageInv
  BY DEF Feed!Init, Feed!Empty, PageInv, PageOK
<1> QED BY <1>1, <1>2, <1>3 DEF FeedInv

LEMMA CollectStep ==
  ASSUME Feed!FeedAssumption, FeedInv, NEW r \in Reading, Feed!Collect(r)
  PROVE FeedInv'
<1> USE DEF FeedInv, Feed!Collect, Feed!pages
<1>1. FeedTypes'
  BY DEF FeedTypes
<1>2. CollectorInv'
  <2>1. latest.ts = Len(sent) BY DEF CollectorInv
  <2>2. f_frame' = {[ts |-> Len(sent) + 1, reading |-> {r}]} /\ step' = 1
    BY <2>1
  <2> QED BY <2>1, <2>2 DEF CollectorInv
<1>3. PageInv'
  BY DEF PageInv, PageOK
<1> QED BY <1>1, <1>2, <1>3

LEMMA PublishStep ==
  ASSUME Feed!FeedAssumption, FeedInv, Feed!Publish
  PROVE FeedInv'
<1>0. PICK r \in Reading :
        /\ f_frame = {[ts |-> Len(sent) + 1, reading |-> {r}]}
        /\ \/ step = 1 /\ latest.ts = Len(sent)
           \/ step = 2 /\ latest.ts = Len(sent) + 1
  BY DEF FeedInv, CollectorInv, Feed!Publish
<1> DEFINE snap == [ts |-> Len(sent) + 1, reading |-> {r}]
<1>1. Feed!snapshot = snap BY <1>0, FrameOfOne
<1>2. sent \in Seq(Snapshots) BY DEF FeedInv, FeedTypes, Snapshots
<1>3. snap \in Snapshots BY <1>2 DEF Snapshots
<1>4. UNCHANGED <<f_pc, f_next, initial, shown, f_told>>
  BY DEF Feed!Publish, Feed!pages
<1>5. CASE step = 1
  <2>1. latest' = snap /\ sent' = sent /\ f_frame' = f_frame /\ step' = 2
    BY <1>0, <1>1, <1>5 DEF Feed!Publish, Feed!publishing
  <2>2. FeedTypes'
    BY <1>2, <1>4, <2>1 DEF FeedInv, FeedTypes
  <2>3. CollectorInv'
    BY <1>0, <2>1 DEF FeedInv, CollectorInv
  <2>4. PageInv'
    <3>1. latest.ts <= latest'.ts BY <1>0, <1>2, <1>5, <2>1
    <3>2. latest.ts \in Nat /\ latest'.ts \in Nat BY <2>2 DEF FeedInv, FeedTypes
    <3> QED BY <1>4, <2>1, <3>1, <3>2 DEF FeedInv, FeedTypes, PageInv, PageOK
  <2> QED BY <2>2, <2>3, <2>4 DEF FeedInv
<1>6. CASE step = 2
  <2>1. latest' = latest /\ sent' = Append(sent, snap) /\ f_frame' = {} /\ step' = 0
    BY <1>0, <1>1, <1>6 DEF Feed!Publish, Feed!publishing
  <2> HIDE DEF snap
  <2>2. /\ sent' \in Seq(Snapshots) /\ Len(sent') = Len(sent) + 1
        /\ \A i \in 1..Len(sent) : sent'[i] = sent[i]
        /\ sent'[Len(sent) + 1] = snap
    BY <1>2, <1>3, <2>1, AppendProperties
  <2>3. FeedTypes'
    BY <1>4, <2>1, <2>2 DEF FeedInv, FeedTypes, Snapshots
  <2>4. CollectorInv'
    <3>1. \A i \in 1..Len(sent') : sent'[i].ts = i
      BY <1>2, <2>2 DEF FeedInv, CollectorInv, snap
    <3> QED BY <1>0, <1>2, <1>6, <2>1, <2>2, <3>1 DEF CollectorInv
  <2>5. PageInv'
    BY <1>2, <1>4, <2>1, <2>2 DEF FeedInv, FeedTypes, PageInv, PageOK
  <2> QED BY <2>3, <2>4, <2>5 DEF FeedInv
<1> QED BY <1>0, <1>5, <1>6

(* Where the collector stands as a page sees it. *)
LEMMA LatestAhead == ASSUME FeedInv
  PROVE /\ Len(sent) \in Nat /\ latest.ts \in Nat
        /\ Len(sent) <= latest.ts
        /\ \A i \in 1..Len(sent) : sent[i].ts = i
BY DEF FeedInv, FeedTypes, CollectorInv

(* A step of one page keeps what the others rest on. *)
SamePage(q) ==
  /\ f_pc'[q] = f_pc[q] /\ f_next'[q] = f_next[q] /\ initial'[q] = initial[q]
  /\ shown'[q] = shown[q] /\ f_told'[q] = f_told[q]

LEMMA PageStep ==
  ASSUME FeedInv, NEW p \in Page, FeedTypes',
         UNCHANGED <<f_frame, step, latest, sent>>,
         \A q \in Page \ {p} : SamePage(q), PageOK(p)'
  PROVE FeedInv'
<1>1. CollectorInv' BY DEF FeedInv, CollectorInv
<1>2. ASSUME NEW q \in Page PROVE PageOK(q)'
  <2>1. CASE q # p BY <2>1 DEF FeedInv, PageInv, PageOK, SamePage
  <2> QED BY <2>1
<1> QED BY <1>1, <1>2 DEF FeedInv, PageInv

LEMMA PagesStep ==
  ASSUME Feed!FeedAssumption, FeedInv, NEW p \in Page,
         Feed!stream_handler(p) \/ Feed!Leave(p)
  PROVE FeedInv'
<1>0. /\ FeedTypes /\ PageOK(p)
      /\ Len(sent) \in Nat /\ latest.ts \in Nat /\ Len(sent) <= latest.ts
      /\ f_next[p] \in Nat /\ initial[p] \in Nat
  BY LatestAhead DEF FeedInv, PageInv, FeedTypes
<1>1. CASE Feed!Subscribe(p)
  <2>1. /\ f_pc' = [f_pc EXCEPT ![p] = "subscribed"]
        /\ f_next' = [f_next EXCEPT ![p] = Len(sent)]
        /\ UNCHANGED <<f_frame, step, latest, sent, initial, shown, f_told>>
    BY <1>1 DEF Feed!Subscribe, Feed!collector
  <2>2. FeedTypes' BY <1>0, <2>1 DEF FeedTypes
  <2>3. PageOK(p)' BY <1>0, <2>1 DEF FeedTypes, PageOK
  <2>4. \A q \in Page \ {p} : SamePage(q) BY <1>0, <2>1 DEF FeedTypes, SamePage
  <2> QED BY <2>1, <2>2, <2>3, <2>4, PageStep
<1>2. CASE Feed!ReadLatest(p)
  <2>1. /\ f_pc' = [f_pc EXCEPT ![p] = "opening"]
        /\ initial' = [initial EXCEPT ![p] = latest.ts]
        /\ UNCHANGED <<f_frame, step, latest, sent, f_next, shown, f_told>>
    BY <1>2 DEF Feed!ReadLatest, Feed!collector
  <2>2. FeedTypes' BY <1>0, <2>1 DEF FeedTypes
  <2>3. PageOK(p)' BY <1>0, <2>1 DEF FeedTypes, PageOK
  <2>4. \A q \in Page \ {p} : SamePage(q) BY <1>0, <2>1 DEF FeedTypes, SamePage
  <2> QED BY <2>1, <2>2, <2>3, <2>4, PageStep
<1>3. CASE Feed!InitialFrame(p)
  <2>1. /\ f_pc' = [f_pc EXCEPT ![p] = "live"] /\ f_pc[p] = "opening"
        /\ shown' = [shown EXCEPT ![p] = initial[p]]
        /\ f_told' = [f_told EXCEPT ![p] = @ \cup {initial[p]}]
        /\ UNCHANGED <<f_frame, step, latest, sent, f_next, initial>>
    BY <1>3 DEF Feed!InitialFrame, Feed!Draw, Feed!collector
  <2>2. FeedTypes' BY <1>0, <2>1 DEF FeedTypes
  <2>3. PageOK(p)' BY <1>0, <2>1 DEF FeedTypes, PageOK
  <2>4. \A q \in Page \ {p} : SamePage(q) BY <1>0, <2>1 DEF FeedTypes, SamePage
  <2> QED BY <2>1, <2>2, <2>3, <2>4, PageStep
<1>4. CASE Feed!LiveFrame(p)
  <2>1. f_next[p] < Len(sent) /\ f_pc[p] = "live"
    BY <1>4 DEF Feed!LiveFrame
  <2>2. f_next[p] + 1 \in 1..Len(sent) BY <1>0, <2>1
  <2>3. sent[f_next[p] + 1].ts = f_next[p] + 1
    BY <2>2, LatestAhead
  <2>4. /\ f_next' = [f_next EXCEPT ![p] = @ + 1]
        /\ shown' = [shown EXCEPT ![p] = f_next[p] + 1]
        /\ f_told' = [f_told EXCEPT ![p] = @ \cup {f_next[p] + 1}]
        /\ UNCHANGED <<f_frame, step, latest, sent, f_pc, initial>>
    BY <1>4, <2>3 DEF Feed!LiveFrame, Feed!Draw, Feed!collector
  <2>5. FeedTypes' BY <1>0, <2>4 DEF FeedTypes
  <2>6. PageOK(p)' BY <1>0, <2>1, <2>4 DEF FeedTypes, PageOK
  <2>7. \A q \in Page \ {p} : SamePage(q) BY <1>0, <2>4 DEF FeedTypes, SamePage
  <2> QED BY <2>4, <2>5, <2>6, <2>7, PageStep
<1>5. CASE Feed!Lagged(p)
  <2> DEFINE oldest == Len(sent) - CHANNEL_CAPACITY
             passed == {sent[i].ts : i \in (f_next[p] + 1)..oldest}
  <2>1. /\ f_next' = [f_next EXCEPT ![p] = oldest]
        /\ f_told' = [f_told EXCEPT ![p] = @ \cup passed]
        /\ UNCHANGED <<f_frame, step, latest, sent, f_pc, initial, shown>>
        /\ Len(sent) - f_next[p] > CHANNEL_CAPACITY /\ f_pc[p] = "live"
    BY <1>5 DEF Feed!Lagged, Feed!collector
  <2>2. oldest \in Nat /\ f_next[p] < oldest /\ oldest <= Len(sent)
    BY <1>0, <2>1 DEF Feed!FeedAssumption
  <2> HIDE DEF oldest
  <2>3. \A i \in (f_next[p] + 1)..oldest : i \in 1..Len(sent)
    BY <1>0, <2>2
  <2>4. \A i \in (f_next[p] + 1)..oldest : sent[i].ts = i
    BY <2>3, LatestAhead
  <2>5. passed = (f_next[p] + 1)..oldest BY <2>4
  <2> HIDE DEF passed
  <2>6. passed \subseteq Nat BY <1>0, <2>2, <2>5
  <2>7. FeedTypes' BY <1>0, <2>1, <2>2, <2>6 DEF FeedTypes
  <2>8. PageOK(p)' BY <1>0, <2>1, <2>2, <2>5 DEF FeedTypes, PageOK
  <2>9. \A q \in Page \ {p} : SamePage(q) BY <1>0, <2>1 DEF FeedTypes, SamePage
  <2> QED BY <2>1, <2>7, <2>8, <2>9, PageStep
<1>6. CASE Feed!Leave(p)
  <2>1. /\ f_pc' = [f_pc EXCEPT ![p] = "closed"]
        /\ UNCHANGED <<f_frame, step, latest, sent, f_next, initial, shown, f_told>>
    BY <1>6 DEF Feed!Leave, Feed!collector
  <2>2. FeedTypes' BY <1>0, <2>1 DEF FeedTypes
  <2>3. PageOK(p)' BY <1>0, <2>1 DEF FeedTypes, PageOK
  <2>4. \A q \in Page \ {p} : SamePage(q) BY <1>0, <2>1 DEF FeedTypes, SamePage
  <2> QED BY <2>1, <2>2, <2>3, <2>4, PageStep
<1> QED BY <1>1, <1>2, <1>3, <1>4, <1>5, <1>6 DEF Feed!stream_handler

LEMMA FeedRest ==
  ASSUME FeedInv, UNCHANGED <<f_frame, step, latest, sent, f_pc, f_next,
                              initial, shown, f_told>>
  PROVE FeedInv'
BY DEF FeedInv, FeedTypes, CollectorInv, PageInv, PageOK

THEOREM FeedInvariant == ASSUME Feed!FeedAssumption PROVE Feed!Spec => []FeedInv
<1>1. Feed!Init => FeedInv BY FeedStart
<1>2. FeedInv /\ [Feed!Next]_(Feed!vars) => FeedInv'
  <2> SUFFICES ASSUME FeedInv, [Feed!Next]_(Feed!vars) PROVE FeedInv'
    OBVIOUS
  <2>1. CASE \E r \in Reading : Feed!Collect(r) BY <2>1, CollectStep
  <2>2. CASE Feed!Publish BY <2>2, PublishStep
  <2>3. CASE \E p \in Page : Feed!stream_handler(p) \/ Feed!Leave(p)
    BY <2>3, PagesStep
  <2>4. CASE Feed!Save
    BY <2>4, FeedRest DEF Feed!Save, Feed!collector, Feed!pages
  <2>5. CASE UNCHANGED Feed!vars
    BY <2>5, FeedRest DEF Feed!vars, Feed!collector, Feed!pages
  <2> QED BY <2>1, <2>2, <2>3, <2>4, <2>5 DEF Feed!Next, Feed!Over
<1> QED BY <1>1, <1>2, PTL DEF Feed!Spec

-----------------------------------------------------------------------------
(* What is pulled, alerted on, exported and stored.                        *)

(* All that is ever measured. *)
Taken == {Feed!collect(r, ts)[i] : r \in Reading, ts \in Nat, i \in Nat}

(* ms is a batch of one time. *)
Batch(ms, ts) ==
  ms \in Seq(Taken) /\ \A i \in 1..Len(ms) : ms[i].ts = ts

LEMMA CollectsBatch ==
  ASSUME Feed!FeedAssumption, NEW r \in Reading, NEW ts \in Nat
  PROVE  Batch(Feed!collect(r, ts), ts)
<1> DEFINE d == Len(r.disks)
           head == Feed!machine_samples(r, ts)
           tail3 == Feed!load_samples(r, ts)
           disk(i) == Feed!disk_samples(r.disks[i], ts)
           s == [i \in 1..d |-> disk(i)]
           U == {head[j] : j \in 1..4} \cup {tail3[j] : j \in 1..3}
                \cup {s[i][j] : i \in 1..d, j \in 1..3}
<1>1. d \in Nat /\ DOMAIN r.disks = 1..d
  BY DEF Feed!FeedAssumption
<1>2. head = [j \in 1..4 |-> head[j]] /\ \A j \in 1..4 : head[j].ts = ts
  BY DEF Feed!machine_samples, Feed!Sample
<1>3. tail3 = [j \in 1..3 |-> tail3[j]] /\ \A j \in 1..3 : tail3[j].ts = ts
  BY DEF Feed!load_samples, Feed!Sample
<1>4. \A i \in 1..d : /\ disk(i) = [j \in 1..3 |-> disk(i)[j]]
                      /\ \A j \in 1..3 : disk(i)[j].ts = ts
  BY DEF Feed!disk_samples, Feed!Sample
<1>5. Feed!collect(r, ts) = head \o Feed!FlattenSeq(s) \o tail3
  BY <1>1 DEF Feed!collect
<1>6. DOMAIN s = 1..d /\ s = [i \in 1..d |-> s[i]] /\ \A i \in 1..d : s[i] = disk(i)
  OBVIOUS
<1> HIDE DEF d, head, tail3, disk, s
<1>7. \A u \in U : u.ts = ts
  BY <1>2, <1>3, <1>4, <1>6
<1>8. /\ \A j \in 1..4 : head[j] \in U
      /\ \A j \in 1..3 : tail3[j] \in U
      /\ \A i \in 1..d : \A j \in 1..3 : s[i][j] \in U
  OBVIOUS
<1> HIDE DEF U
<1>9. head \in Seq(U) /\ tail3 \in Seq(U) /\ s \in Seq(Seq(U))
  <2>1. head \in Seq(U) BY <1>2, <1>8
  <2>2. tail3 \in Seq(U) BY <1>3, <1>8
  <2>3. ASSUME NEW i \in 1..d PROVE s[i] \in Seq(U)
    <3> DEFINE x == s[i]
    <3>1. x = [j \in 1..3 |-> x[j]] /\ \A j \in 1..3 : x[j] \in U
      BY <1>4, <1>6, <1>8
    <3> HIDE DEF x
    <3>2. x \in Seq(U) BY <3>1
    <3> QED BY <3>2 DEF x
  <2>4. s \in Seq(Seq(U)) BY <1>1, <1>6, <2>3
  <2> QED BY <2>1, <2>2, <2>4
<1>10. Feed!FlattenSeq(s) \in Seq(U)
  BY <1>9, FlattenPlaced
<1>11. Feed!collect(r, ts) \in Seq(U)
  BY <1>5, <1>9, <1>10, ConcatProperties
<1> DEFINE c == Feed!collect(r, ts)
<1>12. \A i \in Nat : c[i] \in Taken
  BY DEF Taken
<1> HIDE DEF c
<1>13. Len(c) \in Nat /\ c = [i \in 1..Len(c) |-> c[i]] /\ \A i \in 1..Len(c) : c[i] \in U
  BY <1>11, LenProperties, ElementOfSeq DEF c
<1>14. c \in Seq(Taken)
  BY <1>12, <1>13
<1>15. \A i \in 1..Len(c) : c[i].ts = ts
  BY <1>7, <1>13
<1> QED BY <1>14, <1>15 DEF Batch, c

LEMMA MetricsBatch ==
  ASSUME Feed!FeedAssumption, NEW s \in Snapshots
  PROVE  Batch(Feed!metrics(s), s.ts)
<1>1. s.ts \in Nat /\ s.reading \in SUBSET Reading
  BY DEF Snapshots
<1>2. CASE s.reading = {}
  <2>1. Feed!metrics(s) = <<>> BY <1>2 DEF Feed!metrics
  <2> QED BY <2>1, EmptySeq DEF Batch
<1>3. CASE s.reading # {}
  <2> DEFINE r == CHOOSE r \in s.reading : TRUE
  <2>1. r \in Reading BY <1>1, <1>3
  <2>2. Feed!metrics(s) = Feed!collect(r, s.ts) BY <1>3 DEF Feed!metrics
  <2> HIDE DEF r
  <2> QED BY <1>1, <2>1, <2>2, CollectsBatch
<1> QED BY <1>2, <1>3

(* Of each snapshot the table holds nothing, or what every query of its    *)
(* time then finds.                                                        *)
Stored(s) ==
  \/ \A i \in 1..Len(table) : table[i].ts # s.ts
  \/ \A name : Feed!where(table, name, s.ts, s.ts)
               = Feed!where(Feed!metrics(s), name, s.ts, s.ts)

TableInv ==
  /\ table \in Seq(Taken) /\ \A i \in 1..Len(table) : table[i].ts \in 0..latest.ts
  /\ latest \in Snapshots /\ Stored(latest)
  /\ \A i \in 1..Len(sent) :
       Stored(sent[i]) /\ (sent[i].ts = latest.ts => sent[i] = latest)
  /\ step = 2 => f_frame = {latest}
  /\ Len(sent) <= MaxFrames /\ (f_frame # {} => Len(sent) < MaxFrames)

LEMMA TableStart ==
  ASSUME Feed!FeedAssumption, Feed!Init PROVE TableInv
<1>1. /\ table = <<>> /\ sent = <<>> /\ step = 0 /\ f_frame = {}
      /\ latest = [ts |-> 0, reading |-> {}]
  BY DEF Feed!Init, Feed!Empty, Feed!migrate
<1>2. table \in Seq(Taken) /\ Len(table) = 0 /\ Len(sent) = 0
  BY <1>1, EmptySeq
<1>3. latest \in Snapshots
  BY <1>1 DEF Snapshots
<1>4. Stored(latest)
  BY <1>2 DEF Stored
<1> QED BY <1>1, <1>2, <1>3, <1>4 DEF TableInv, Feed!FeedAssumption

LEMMA TableCollect ==
  ASSUME FeedInv, TableInv, NEW r \in Reading, Feed!Collect(r)
  PROVE  TableInv'
<1>1. /\ UNCHANGED <<latest, sent, table>> /\ step' = 1
      /\ Len(sent) < MaxFrames
  BY DEF Feed!Collect
<1>2. \A s : Stored(s)' <=> Stored(s)
  BY <1>1 DEF Stored
<1> QED BY <1>1, <1>2 DEF TableInv

LEMMA TablePublish ==
  ASSUME Feed!FeedAssumption, FeedInv, TableInv, Feed!Publish
  PROVE  TableInv'
<1>1. PICK r \in Reading :
        /\ f_frame = {[ts |-> Len(sent) + 1, reading |-> {r}]}
        /\ \/ step = 1 /\ latest.ts = Len(sent)
           \/ step = 2 /\ latest.ts = Len(sent) + 1
  BY DEF FeedInv, CollectorInv, Feed!Publish
<1> DEFINE snap == [ts |-> Len(sent) + 1, reading |-> {r}]
<1>2. Feed!snapshot = snap BY <1>1, FrameOfOne
<1>3. sent \in Seq(Snapshots) /\ Len(sent) \in Nat
  BY LenProperties DEF FeedInv, FeedTypes, Snapshots
<1>4. snap \in Snapshots /\ snap.ts = Len(sent) + 1 BY <1>3 DEF Snapshots
<1>5. table' = table
  BY DEF Feed!Publish
<1>6. \A s : Stored(s)' <=> Stored(s)
  BY <1>5 DEF Stored
<1>7. CASE step = 1
  <2>1. latest' = snap /\ sent' = sent /\ f_frame' = f_frame /\ step' = 2
    BY <1>1, <1>2, <1>7 DEF Feed!Publish, Feed!publishing
  <2>2. \A i \in 1..Len(table) : table[i].ts \in 0..snap.ts /\ table[i].ts # snap.ts
    BY <1>1, <1>3, <1>4, <1>7 DEF TableInv
  <2>3. Stored(snap) BY <2>2 DEF Stored
  <2>4. f_frame' = {latest'} /\ f_frame # {} BY <1>1, <2>1
  <2> HIDE DEF snap
  <2>5. \A i \in 1..Len(sent) : sent[i].ts # snap.ts
    BY <1>3, <1>4 DEF FeedInv, CollectorInv
  <2> QED BY <1>4, <1>5, <1>6, <2>1, <2>2, <2>3, <2>4, <2>5 DEF TableInv
<1>8. CASE step = 2
  <2>1. latest' = latest /\ sent' = Append(sent, snap) /\ f_frame' = {} /\ step' = 0
    BY <1>1, <1>2, <1>8 DEF Feed!Publish, Feed!publishing
  <2>2. snap = latest
    <3>1. f_frame = {snap} /\ f_frame = {latest} BY <1>1, <1>8 DEF TableInv
    <3> HIDE DEF snap
    <3> QED BY <3>1
  <2> HIDE DEF snap
  <2>3. /\ Len(sent') = Len(sent) + 1
        /\ \A i \in 1..Len(sent) : sent'[i] = sent[i]
        /\ sent'[Len(sent) + 1] = snap
    BY <1>3, <1>4, <2>1, AppendProperties
  <2>4. \A i \in 1..Len(sent') :
          Stored(sent'[i]) /\ (sent'[i].ts = latest.ts => sent'[i] = latest)
    <3>1. \A i \in 1..Len(sent') : i \in 1..Len(sent) \/ i = Len(sent) + 1
      BY <1>3, <2>3
    <3> QED BY <2>2, <2>3, <3>1 DEF TableInv
  <2>5. Len(sent') <= MaxFrames
    <3>1. Len(sent) < MaxFrames /\ MaxFrames \in Nat
      BY <1>1 DEF TableInv, Feed!FeedAssumption
    <3> QED BY <1>3, <2>3, <3>1
  <2> QED BY <1>5, <1>6, <2>1, <2>4, <2>5 DEF TableInv
<1> QED BY <1>1, <1>7, <1>8

LEMMA TableSave ==
  ASSUME Feed!FeedAssumption, FeedInv, TableInv, Feed!Save
  PROVE  TableInv'
<1> DEFINE b == Feed!metrics(latest)
           t == latest.ts
<1>1. /\ UNCHANGED <<f_frame, step, latest, sent>>
      /\ table' = table \o b \/ table' = table
      /\ \A i \in DOMAIN table : table[i].ts < t
  BY DEF Feed!Save, Feed!collector, Feed!save_samples
<1>2. Batch(b, t)
  BY MetricsBatch DEF TableInv
<1>3. table \in Seq(Taken) /\ t \in Nat /\ latest \in Snapshots
  BY DEF TableInv, Snapshots
<1>4. b \in Seq(Taken) /\ \A i \in 1..Len(b) : b[i].ts = t
  BY <1>2 DEF Batch
<1>5. CASE table' = table
  <2>1. \A s : Stored(s)' <=> Stored(s) BY <1>5 DEF Stored
  <2> QED BY <1>1, <1>5, <2>1 DEF TableInv
<1>6. CASE table' = table \o b
  <2> DEFINE n == Len(table)
  <2> HIDE DEF b, t
  <2>1. /\ n \in Nat /\ Len(b) \in Nat /\ table' \in Seq(Taken)
        /\ Len(table') = n + Len(b)
        /\ \A j \in 1..n : table'[j] = table[j]
        /\ \A j \in 1..Len(b) : table'[n + j] = b[j]
    BY <1>3, <1>4, <1>6, Concats
  <2>2. \A i \in 1..n : table[i].ts < t /\ table[i].ts # t
    <3>1. DOMAIN table = 1..n BY <1>3, LenProperties
    <3>2. \A i \in 1..n : table[i].ts \in Nat BY DEF TableInv
    <3> QED BY <1>1, <1>3, <3>1, <3>2
  <2> HIDE DEF n
  <2>3. ASSUME NEW i \in 1..Len(table')
        PROVE  \/ i \in 1..n /\ table'[i] = table[i]
               \/ \E j \in 1..Len(b) : table'[i] = b[j]
    <3>1. i \in 1..n \/ (i - n \in 1..Len(b) /\ n + (i - n) = i) BY <2>1
    <3> QED BY <2>1, <3>1
  <2>4. ASSUME NEW i \in 1..Len(table') PROVE table'[i].ts \in 0..t
    <3>1. \A k \in 1..n : table[k].ts \in 0..t BY DEF TableInv, n, t
    <3>2. t \in 0..t BY <1>3
    <3> QED BY <1>4, <2>3, <3>1, <3>2
  <2>5. ASSUME NEW s, s.ts \in Nat, s.ts # t, Stored(s) PROVE Stored(s)'
    <3>1. CASE \A i \in 1..n : table[i].ts # s.ts
      <4>1. \A i \in 1..Len(table') : table'[i].ts # s.ts
        BY <1>4, <2>3, <2>5, <3>1
      <4> QED BY <4>1 DEF Stored
    <3>2. CASE \A name : Feed!where(table, name, s.ts, s.ts)
                         = Feed!where(Feed!metrics(s), name, s.ts, s.ts)
      <4>1. ASSUME NEW name
            PROVE  Feed!where(table', name, s.ts, s.ts)
                   = Feed!where(Feed!metrics(s), name, s.ts, s.ts)
        <5> DEFINE o == Feed!where(table, name, s.ts, s.ts)
        <5>1. Feed!where(table \o b, name, s.ts, s.ts)
              = o \o Feed!where(b, name, s.ts, s.ts)
          BY <1>3, <1>4, WhereOfBoth
        <5>2. Feed!where(b, name, s.ts, s.ts) = <<>>
          <6>1. \A i \in 1..Len(b) : ~Asked(b[i], name, s.ts, s.ts)
            <7> SUFFICES ASSUME NEW i \in 1..Len(b) PROVE ~(t >= s.ts /\ t <= s.ts)
              BY <1>4 DEF Asked
            <7> QED BY <1>3, <2>5
          <6> QED BY <1>4, <6>1, WhereNone
        <5>3. o \in Seq(Taken) BY <1>3, <1>4, WhereIsSeq
        <5> HIDE DEF o
        <5>4. o \o <<>> = o BY <5>3, ConcatEmptySeq
        <5> QED BY <1>6, <3>2, <5>1, <5>2, <5>4 DEF o
      <4> QED BY <4>1 DEF Stored
    <3> QED BY <2>5, <3>1, <3>2 DEF Stored, n
  <2>6. ASSUME NEW s, s.ts = t, Feed!metrics(s) = b PROVE Stored(s)'
    <3>1. ASSUME NEW name
          PROVE  Feed!where(table', name, s.ts, s.ts) = Feed!where(b, name, s.ts, s.ts)
      <4> DEFINE o == Feed!where(b, name, s.ts, s.ts)
      <4>1. Feed!where(table \o b, name, s.ts, s.ts) = Feed!where(table, name, s.ts, s.ts) \o o
        BY <1>3, <1>4, WhereOfBoth
      <4>2. Feed!where(table, name, s.ts, s.ts) = <<>>
        <5>1. \A i \in 1..Len(table) : ~Asked(table[i], name, s.ts, s.ts)
          <6> SUFFICES ASSUME NEW i \in 1..n PROVE ~(table[i].ts >= s.ts)
            BY DEF Asked, n
          <6>1. table[i].ts \in Nat BY DEF TableInv, n
          <6> QED BY <1>3, <2>2, <2>6, <6>1
        <5> QED BY <1>3, <5>1, WhereNone
      <4>3. o \in Seq(Taken) BY <1>3, <1>4, WhereIsSeq
      <4> HIDE DEF o
      <4>4. <<>> \o o = o BY <4>3, ConcatEmptySeq
      <4> QED BY <1>6, <4>1, <4>2, <4>4 DEF o
    <3> QED BY <2>6, <3>1 DEF Stored
  <2>7. Stored(latest)' BY <1>1, <2>6 DEF b, t
  <2>8. ASSUME NEW i \in 1..Len(sent) PROVE Stored(sent[i])'
    <3>1. /\ Stored(sent[i]) /\ sent[i].ts \in Nat
          /\ sent[i].ts = t => sent[i] = latest
      BY LatestAhead DEF TableInv, t
    <3>2. ASSUME NEW s, s = sent[i] PROVE Stored(s)'
      <4>1. Stored(s) /\ s.ts \in Nat /\ (s.ts = t => s = latest) BY <3>1, <3>2
      <4>2. CASE s.ts # t
        BY <2>5, <4>1, <4>2
      <4>3. CASE s.ts = t
        BY <2>6, <4>1, <4>3 DEF b
      <4> QED BY <4>2, <4>3
    <3> QED BY <1>1, <3>2 DEF Stored
  <2> QED BY <1>1, <2>1, <2>4, <2>7, <2>8 DEF TableInv, t
<1> QED BY <1>1, <1>5, <1>6

LEMMA TableRest ==
  ASSUME TableInv, UNCHANGED <<f_frame, step, latest, sent, table>>
  PROVE  TableInv'
<1>1. \A s : Stored(s)' <=> Stored(s)
  BY DEF Stored
<1> QED BY <1>1 DEF TableInv

THEOREM TableInvariant ==
  ASSUME Feed!FeedAssumption PROVE Feed!Spec => [](FeedInv /\ TableInv)
<1>1. Feed!Init => TableInv BY TableStart
<1>2. FeedInv /\ TableInv /\ [Feed!Next]_(Feed!vars) => TableInv'
  <2> SUFFICES ASSUME FeedInv, TableInv, [Feed!Next]_(Feed!vars) PROVE TableInv'
    OBVIOUS
  <2>1. CASE \E r \in Reading : Feed!Collect(r) BY <2>1, TableCollect
  <2>2. CASE Feed!Publish BY <2>2, TablePublish
  <2>3. CASE \E p \in Page : Feed!stream_handler(p) \/ Feed!Leave(p)
    BY <2>3, TableRest
    DEF Feed!stream_handler, Feed!Subscribe, Feed!ReadLatest, Feed!InitialFrame,
        Feed!LiveFrame, Feed!Lagged, Feed!Leave, Feed!collector
  <2>4. CASE Feed!Save BY <2>4, TableSave
  <2>5. CASE UNCHANGED Feed!vars
    BY <2>5, TableRest DEF Feed!vars, Feed!collector
  <2> QED BY <2>1, <2>2, <2>3, <2>4, <2>5 DEF Feed!Next, Feed!Over
<1> QED BY <1>1, <1>2, FeedInvariant, PTL DEF Feed!Spec

(* Of a snapshot of which anything is stored a query finds all of a name.  *)
LEMMA QueriesFindAll ==
  ASSUME Feed!FeedAssumption, FeedInv, TableInv
  PROVE  Feed!BatchesWhole
<1> SUFFICES ASSUME NEW i \in DOMAIN sent,
                    NEW name,
                    NEW j \in DOMAIN table, table[j].ts = sent[i].ts
             PROVE  Feed!query_range(name, sent[i].ts, sent[i].ts)
                    = Feed!where(Feed!metrics(sent[i]), name, 0, MaxFrames)
  BY DEF Feed!BatchesWhole
<1> DEFINE s == sent[i]
<1>1. i \in 1..Len(sent) /\ s \in Snapshots
  <2>1. sent \in Seq(Snapshots) BY DEF FeedInv, FeedTypes, Snapshots
  <2> QED BY <2>1, LenProperties, ElementOfSeq
<1>2. s.ts \in Nat /\ s.ts <= MaxFrames /\ MaxFrames \in Nat
  <2>1. s.ts = i /\ Len(sent) \in Nat BY <1>1, LatestAhead
  <2> QED BY <1>1, <2>1 DEF TableInv, Feed!FeedAssumption
<1>3. Stored(s)
  BY <1>1 DEF TableInv
<1>4. j \in 1..Len(table) /\ table[j].ts = s.ts
  <2>1. table \in Seq(Taken) BY DEF TableInv
  <2> QED BY <2>1, LenProperties
<1> DEFINE ms == Feed!metrics(s)
<1>5. Batch(ms, s.ts)
  BY <1>1, MetricsBatch
<1> HIDE DEF s
<1>7. Feed!where(table, name, s.ts, s.ts) = Feed!where(ms, name, s.ts, s.ts)
  BY <1>3, <1>4 DEF Stored
<1> HIDE DEF ms
<1>8. ms \in Seq(Taken) /\ \A k \in 1..Len(ms) : ms[k].ts = s.ts
  BY <1>5 DEF Batch
<1>9. \A k \in 1..Len(ms) :
        Asked(ms[k], name, s.ts, s.ts) <=> Asked(ms[k], name, 0, MaxFrames)
  BY <1>2, <1>8 DEF Asked
<1>10. Feed!where(ms, name, s.ts, s.ts) = Feed!where(ms, name, 0, MaxFrames)
  BY <1>8, <1>9, WhereSame
<1> QED BY <1>7, <1>10 DEF s, ms, Feed!query_range

(* What monitor_demo pushes, pulls, alerts on, exports and stores is one   *)
(* series of snapshots, each whole: for any readings, disks, pages and     *)
(* capacity of the channel.                                                *)
THEOREM FeedIsOneSeries ==
  ASSUME Feed!FeedAssumption PROVE Feed!Spec => []FeedAgrees
<1>1. ASSUME FeedInv, TableInv PROVE Feed!EveryBreachAlerts /\ Feed!HeadersOnce
  <2> DEFINE ms == Feed!metrics(latest)
             rules == Feed!default_rules
  <2>1. Batch(ms, latest.ts)
    BY <1>1, MetricsBatch DEF TableInv
  <2> HIDE DEF ms
  <2>2. Len(ms) \in Nat /\ DOMAIN ms = 1..Len(ms)
    BY <2>1, LenProperties DEF Batch
  <2>3. DOMAIN rules = 1..3
    BY DEF Feed!default_rules
  <2>8. \A i \in 1..3 : \A m :
          Feed!breaks(rules[i], m) <=> Feed!Alarming(i, m)
    <3> SUFFICES ASSUME NEW i \in 1..3, NEW m
                 PROVE  Feed!breaks(rules[i], m) <=> Feed!Alarming(i, m)
      OBVIOUS
    <3>1. i = 1 \/ i = 2 \/ i = 3 OBVIOUS
    <3> QED BY <3>1 DEF Feed!breaks, Feed!matches, Feed!Alarming,
                        Feed!default_rules, Feed!Rule
  <2> HIDE DEF rules
  <2>4. OneToOne(rules, ms)
    BY <2>2, <2>3, EvaluateTells
  <2>5. Feed!EveryBreachAlerts
    <3>1. {x \in (DOMAIN rules) \X (DOMAIN ms) : Feed!breaks(rules[x[1]], ms[x[2]])}
          = {x \in (1..3) \X (DOMAIN ms) : Feed!Alarming(x[1], ms[x[2]])}
      BY <2>3, <2>8
    <3> QED BY <2>4, <3>1, Zenon
        DEF OneToOne, Feed!EveryBreachAlerts, Feed!alerts, ms, rules
  <2>6. LET ls == Feed!render_prometheus(ms) IN
        \A i \in DOMAIN ls : ls[i].kind = "sample" =>
          \A k \in {"HELP", "TYPE"} :
            LET at == {j \in DOMAIN ls : ls[j].kind = k /\ ls[j].name = ls[i].name} IN
            \E j \in at : at = {j} /\ j < i
    BY <2>2, HeadersStandOnce
  <2>7. Feed!HeadersOnce
    BY <2>6 DEF Feed!HeadersOnce, ms
  <2> QED BY <2>5, <2>7
<1>2. FeedInv /\ TableInv => FeedAgrees
  BY <1>1, QueriesFindAll
  DEF FeedAgrees, Feed!FeedAgrees, FeedInv, PageInv, PageOK, Feed!NothingMissed,
      Feed!PullNotBehind
<1> QED BY <1>2, TableInvariant, PTL
=============================================================================
