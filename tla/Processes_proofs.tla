-------------------------- MODULE Processes_proofs --------------------------
(***************************************************************************)
(* Proofs about what watches over other processes.                         *)
(*                                                                         *)
(* The registry of instances: the heartbeat renews a lease before it runs  *)
(* out, whatever the round trip takes within the bound of HeldIsListed     *)
(* (Timed follows the age of a lease through register, a tick, a request   *)
(* and its answer), a key stays under the lease of the newest registration *)
(* of its address (Placed), and a watch agrees with discover.              *)
(*                                                                         *)
(* The plugin host: the invariant says what is in the pipes of a plugin at *)
(* each point of a call, and who holds the mutex then.                     *)
(***************************************************************************)
EXTENDS MCProcesses, SequenceTheorems, TLAPS

-----------------------------------------------------------------------------
(* The registry *)

Longest == IF MaxDelay > heartbeat THEN MaxDelay ELSE heartbeat
RoomForDelay == MaxDelay + Longest < TTL

(* The lease of r is not gone, and has at least n seconds left. *)
Left(r, n) == lease[r] # {} /\ \A t \in lease[r] : t >= n

(* What is left of a lease: while it is being registered it is as old as   *)
(* the call; a task that waits for the next tick renewed it one heartbeat  *)
(* before, or was answered late; a request adds its own delay to that,     *)
(* until etcd has handled it.                                              *)
TimedAt(r) ==
  /\ pc[r] \in {"granted", "put"} => Left(r, TTL - age[r])
  /\ task[r] = "ticking" =>
       /\ Left(r, TTL - Longest)
       /\ due[r] > 0 => Left(r, TTL - heartbeat + due[r])
  /\ task[r] = "waiting" =>
       /\ due[r] > 0 => due[r] + age[r] <= heartbeat
       /\ request[r] = "sent" => Left(r, TTL - Longest - age[r])
       /\ request[r] = "renewed" => Left(r, TTL - age[r])
       /\ request[r] \in {"sent", "renewed"}
Timed == RoomForDelay => \A r \in Reg : TimedAt(r)

(* A key is there as long as the lease of the last registration put under  *)
(* the address; and nothing was put before register came to it.            *)
PlacedAt(r) ==
  /\ newest[AddrOf[r]] = {r} => pc[r] \notin {"new", "granted"}
  /\ (newest[AddrOf[r]] = {r} /\ lease[r] # {}) => key[AddrOf[r]] = {r}
  /\ pc[r] \in {"new", "granted", "put"} => task[r] = "none" /\ due[r] = 0
  /\ task[r] = "waiting" => request[r] # "none"
Placed == \A r \in Reg : PlacedAt(r)

OneLease == \A r \in Reg : \A t, u \in lease[r] : t = u

RInv == TypeOK /\ OneLease /\ Placed /\ Timed /\ WatchAgrees

LEMMA HeartbeatIsPositive == heartbeat \in Nat \ {0}
  <1>1. TTL \div 3 \in Int
    BY RegistryAssumption
  <1>2. QED
    BY <1>1 DEF heartbeat

LEMMA RInvInit == Init => RInv
<1>1. SUFFICES ASSUME Init PROVE RInv
  OBVIOUS
<1>2. TypeOK
  BY <1>1, RegistryAssumption, HeartbeatIsPositive DEF Init, TypeOK
<1>3. OneLease /\ WatchAgrees
  BY <1>1 DEF Init, OneLease, WatchAgrees
<1>4. Placed
  BY <1>1, RegistryAssumption DEF Init, Placed, PlacedAt
<1>5. Timed
  BY <1>1 DEF Init, Timed, TimedAt
<1>6. QED
  BY <1>2, <1>3, <1>4, <1>5 DEF RInv

LEMMA LongestIsANumber ==
  Longest \in Nat /\ Longest >= heartbeat /\ Longest >= MaxDelay
  BY HeartbeatIsPositive, RegistryAssumption DEF Longest

(* The only change of the key and of the watch is one that etcd tells of. *)
LEMMA EmitPut ==
  ASSUME TypeOK, WatchAgrees, NEW a \in Addr, NEW r \in Reg,
         key' = [key EXCEPT ![a] = {r}], Emit("Put", a)
  PROVE  WatchAgrees' /\ watch' \subseteq
           [known : SUBSET Addr, told : SUBSET Addr, view : SUBSET Addr]
<1>1. discover' = discover \cup {a}
  BY DEF discover, TypeOK
<1>2. ASSUME NEW w \in watch'
      PROVE  /\ w \in [known : SUBSET Addr, told : SUBSET Addr,
                       view : SUBSET Addr]
             /\ discover' = w.view \cup (w.known \ w.told)
  <2>1. PICK v \in watch : w = [v EXCEPT !.told = @ \cup {a},
                                         !.view = WatchEvent(@, "Put", a)]
    BY DEF Emit
  <2>2. v \in [known : SUBSET Addr, told : SUBSET Addr, view : SUBSET Addr]
    BY DEF TypeOK
  <2>3. /\ w.known = v.known /\ w.told = v.told \cup {a}
        /\ w.view = v.view \cup {a}
        /\ w = [known |-> w.known, told |-> w.told, view |-> w.view]
    BY <2>1, <2>2 DEF WatchEvent
  <2>4. discover = v.view \cup (v.known \ v.told)
    BY DEF WatchAgrees
  <2>5. w \in [known : SUBSET Addr, told : SUBSET Addr, view : SUBSET Addr]
    BY <2>2, <2>3
  <2>6. discover' = w.view \cup (w.known \ w.told)
    BY <1>1, <2>3, <2>4
  <2> QED BY <2>5, <2>6
<1> QED BY <1>2 DEF WatchAgrees

LEMMA EmitDelete ==
  ASSUME TypeOK, WatchAgrees, NEW a \in Addr,
         key' = [key EXCEPT ![a] = {}], Emit("Delete", a)
  PROVE  WatchAgrees' /\ watch' \subseteq
           [known : SUBSET Addr, told : SUBSET Addr, view : SUBSET Addr]
<1>1. discover' = discover \ {a}
  BY DEF discover, TypeOK
<1>2. ASSUME NEW w \in watch'
      PROVE  /\ w \in [known : SUBSET Addr, told : SUBSET Addr,
                       view : SUBSET Addr]
             /\ discover' = w.view \cup (w.known \ w.told)
  <2>1. PICK v \in watch : w = [v EXCEPT !.told = @ \cup {a},
                                         !.view = WatchEvent(@, "Delete", a)]
    BY DEF Emit
  <2>2. v \in [known : SUBSET Addr, told : SUBSET Addr, view : SUBSET Addr]
    BY DEF TypeOK
  <2>3. /\ w.known = v.known /\ w.told = v.told \cup {a}
        /\ w.view = v.view \ {a}
        /\ w = [known |-> w.known, told |-> w.told, view |-> w.view]
    BY <2>1, <2>2 DEF WatchEvent
  <2>4. discover = v.view \cup (v.known \ v.told)
    BY DEF WatchAgrees
  <2>5. w \in [known : SUBSET Addr, told : SUBSET Addr, view : SUBSET Addr]
    BY <2>2, <2>3
  <2>6. discover' = w.view \cup (w.known \ w.told)
    BY <1>1, <2>3, <2>4
  <2> QED BY <2>5, <2>6
<1> QED BY <1>2 DEF WatchAgrees

LEMMA SilentStep ==
  ASSUME WatchAgrees, UNCHANGED <<key, watch>> PROVE WatchAgrees'
  BY DEF WatchAgrees, discover

(* A step of another registration. *)
LEMMA TimedElsewhere ==
  ASSUME NEW q \in Reg, TimedAt(q), pc'[q] = pc[q], task'[q] = task[q],
         lease'[q] = lease[q], age'[q] = age[q], due'[q] = due[q],
         request'[q] = request[q]
  PROVE  TimedAt(q)'
  BY DEF TimedAt, Left

(* What etcd does with a lease that ends. *)
LEMMA LeaseGoneStep ==
  ASSUME TypeOK, WatchAgrees, OneLease, NEW r \in Reg, LeaseGone(r)
  PROVE  /\ lease' \in [Reg -> SUBSET (0..TTL)]
         /\ key' \in [Addr -> SUBSET Reg]
         /\ watch' \subseteq
              [known : SUBSET Addr, told : SUBSET Addr, view : SUBSET Addr]
         /\ WatchAgrees' /\ OneLease'
         /\ lease' = [lease EXCEPT ![r] = {}]
         /\ \A q \in Reg \ {r} :
              key[AddrOf[q]] = {q} => key'[AddrOf[q]] = {q}
<1>1. AddrOf[r] \in Addr
  BY RegistryAssumption
<1>2. lease' = [lease EXCEPT ![r] = {}] /\ lease' \in [Reg -> SUBSET (0..TTL)]
  BY DEF LeaseGone, TypeOK
<1>3. OneLease'
  BY <1>2 DEF OneLease, TypeOK
<1>4. CASE key[AddrOf[r]] = {r}
  <2>1. /\ key' = [key EXCEPT ![AddrOf[r]] = {}] /\ Emit("Delete", AddrOf[r])
    BY <1>4 DEF LeaseGone
  <2>2. key' \in [Addr -> SUBSET Reg]
    BY <2>1, <1>1 DEF TypeOK
  <2>3. \A q \in Reg \ {r} :
              key[AddrOf[q]] = {q} => key'[AddrOf[q]] = {q}
    BY <2>1, <1>4, RegistryAssumption DEF TypeOK
  <2> QED BY <1>1, <1>2, <1>3, <2>1, <2>2, <2>3, EmitDelete
<1>5. CASE key[AddrOf[r]] # {r}
  <2>1. UNCHANGED <<key, watch>>
    BY <1>5 DEF LeaseGone
  <2> QED BY <1>2, <1>3, <2>1, SilentStep DEF TypeOK
<1> QED BY <1>4, <1>5

LEMMA KeepAliveStep ==
  ASSUME RInv, NEW r \in Reg, KeepAlive(r) PROVE RInv'
<1>1. TypeOK'
  BY RegistryAssumption, HeartbeatIsPositive DEF RInv, TypeOK, KeepAlive,
                                                 etcd, beat, Task
<1>2. OneLease'
  BY DEF RInv, TypeOK, OneLease, KeepAlive, etcd, beat, Task
<1>3. Placed'
  BY DEF RInv, TypeOK, Placed, PlacedAt, KeepAlive, etcd, beat, Task
<1>4. ASSUME RoomForDelay, NEW q \in Reg PROVE TimedAt(q)'
  <2>1. TimedAt(q) /\ TimedAt(r) /\ PlacedAt(r)
    BY <1>4 DEF RInv, Timed, Placed
  <2>2. QED
    BY <2>1, <1>4, HeartbeatIsPositive, LongestIsANumber, RegistryAssumption
       DEF RInv, TypeOK, TimedAt, PlacedAt, Left, RoomForDelay, KeepAlive,
           etcd, beat, Task
<1>5. WatchAgrees'
  BY SilentStep DEF RInv, KeepAlive, etcd, beat, Task
<1> QED BY <1>1, <1>2, <1>3, <1>4, <1>5 DEF RInv, Timed, RoomForDelay

LEMMA AnsweredStep ==
  ASSUME RInv, NEW r \in Reg, Answered(r) PROVE RInv'
<1>1. TypeOK'
  BY RegistryAssumption, HeartbeatIsPositive DEF RInv, TypeOK, Answered, etcd,
                                                 beat, Task
<1>2. OneLease'
  BY DEF RInv, TypeOK, OneLease, Answered, etcd, beat, Task
<1>3. Placed'
  BY DEF RInv, TypeOK, Placed, PlacedAt, Answered, etcd, beat, Task
<1>4. ASSUME RoomForDelay, NEW q \in Reg PROVE TimedAt(q)'
  <2>1. TimedAt(q) /\ TimedAt(r) /\ PlacedAt(r)
    BY <1>4 DEF RInv, Timed, Placed
  <2>2. CASE q # r
    BY <2>1, <2>2, TimedElsewhere DEF RInv, TypeOK, Answered, etcd, beat, Task
  <2>3. CASE q = r
    <3>1. /\ task[r] = "waiting" /\ request[r] = "renewed"
          /\ task'[r] = "ticking" /\ pc'[r] = pc[r]
          /\ UNCHANGED <<lease, age, due>>
      BY <2>1 DEF RInv, TypeOK, TimedAt, Answered, etcd, Task
    <3>2. pc[r] \notin {"granted", "put"}
      BY <2>1, <3>1 DEF PlacedAt
    <3>3. age[r] \in 0..MaxDelay /\ due[r] \in Int
          /\ \A t \in lease[r] : t \in Int
      BY RegistryAssumption, HeartbeatIsPositive DEF RInv, TypeOK
    <3>4. Left(r, TTL - age[r]) /\ (due[r] > 0 => due[r] + age[r] <= heartbeat)
      BY <2>1, <3>1 DEF TimedAt
    <3>5. Left(r, TTL - Longest)
      BY <3>3, <3>4, LongestIsANumber, RegistryAssumption DEF Left
    <3>6. due[r] > 0 => Left(r, TTL - heartbeat + due[r])
      BY <3>3, <3>4, HeartbeatIsPositive, RegistryAssumption DEF Left
    <3> QED BY <2>3, <3>1, <3>2, <3>5, <3>6 DEF TimedAt, Left
  <2> QED BY <2>2, <2>3
<1>5. WatchAgrees'
  BY SilentStep DEF RInv, Answered, etcd, beat, Task
<1> QED BY <1>1, <1>2, <1>3, <1>4, <1>5 DEF RInv, Timed, RoomForDelay

LEMMA HeartbeatFailsStep ==
  ASSUME RInv, NEW r \in Reg, HeartbeatFails(r) PROVE RInv'
<1>1. TypeOK'
  BY RegistryAssumption, HeartbeatIsPositive DEF RInv, TypeOK, HeartbeatFails,
                                                 etcd, beat, Task
<1>2. OneLease'
  BY DEF RInv, TypeOK, OneLease, HeartbeatFails, etcd, beat, Task
<1>3. Placed'
  BY DEF RInv, TypeOK, Placed, PlacedAt, HeartbeatFails, etcd, beat, Task
<1>4. ASSUME RoomForDelay, NEW q \in Reg PROVE TimedAt(q)'
  <2>1. TimedAt(q) /\ TimedAt(r) /\ PlacedAt(r)
    BY <1>4 DEF RInv, Timed, Placed
  <2>2. QED
    BY <2>1, <1>4, HeartbeatIsPositive, LongestIsANumber, RegistryAssumption
       DEF RInv, TypeOK, TimedAt, PlacedAt, Left, RoomForDelay,
           HeartbeatFails, etcd, beat, Task
<1>5. WatchAgrees'
  BY SilentStep DEF RInv, HeartbeatFails, etcd, beat, Task
<1> QED BY <1>1, <1>2, <1>3, <1>4, <1>5 DEF RInv, Timed, RoomForDelay

LEMMA StopSeenStep ==
  ASSUME RInv, NEW r \in Reg, StopSeen(r) PROVE RInv'
<1>1. TypeOK'
  BY RegistryAssumption, HeartbeatIsPositive DEF RInv, TypeOK, StopSeen, etcd,
                                                 beat, Task
<1>2. OneLease'
  BY DEF RInv, TypeOK, OneLease, StopSeen, etcd, beat, Task
<1>3. Placed'
  BY DEF RInv, TypeOK, Placed, PlacedAt, StopSeen, etcd, beat, Task
<1>4. ASSUME RoomForDelay, NEW q \in Reg PROVE TimedAt(q)'
  <2>1. TimedAt(q) /\ TimedAt(r) /\ PlacedAt(r)
    BY <1>4 DEF RInv, Timed, Placed
  <2>2. QED
    BY <2>1, <1>4, HeartbeatIsPositive, LongestIsANumber, RegistryAssumption
       DEF RInv, TypeOK, TimedAt, PlacedAt, Left, RoomForDelay, StopSeen,
           etcd, beat, Task
<1>5. WatchAgrees'
  BY SilentStep DEF RInv, StopSeen, etcd, beat, Task
<1> QED BY <1>1, <1>2, <1>3, <1>4, <1>5 DEF RInv, Timed, RoomForDelay

LEMMA DeregisterStep ==
  ASSUME RInv, NEW r \in Reg, Deregister(r) PROVE RInv'
<1>1. TypeOK'
  BY RegistryAssumption, HeartbeatIsPositive DEF RInv, TypeOK, Deregister,
                                                 etcd, beat, Leave, Goto
<1>2. OneLease'
  BY DEF RInv, TypeOK, OneLease, Deregister, etcd, beat, Leave, Goto
<1>3. Placed'
  BY DEF RInv, TypeOK, Placed, PlacedAt, Deregister, etcd, beat, Leave, Goto
<1>4. ASSUME RoomForDelay, NEW q \in Reg PROVE TimedAt(q)'
  <2>1. TimedAt(q) /\ TimedAt(r) /\ PlacedAt(r)
    BY <1>4 DEF RInv, Timed, Placed
  <2>2. QED
    BY <2>1, <1>4, HeartbeatIsPositive, LongestIsANumber, RegistryAssumption
       DEF RInv, TypeOK, TimedAt, PlacedAt, Left, RoomForDelay, Deregister,
           etcd, beat, Leave, Goto
<1>5. WatchAgrees'
  BY SilentStep DEF RInv, Deregister, etcd, beat, Leave, Goto
<1> QED BY <1>1, <1>2, <1>3, <1>4, <1>5 DEF RInv, Timed, RoomForDelay

LEMMA DropStep ==
  ASSUME RInv, NEW r \in Reg, Drop(r) PROVE RInv'
<1>1. TypeOK'
  BY RegistryAssumption, HeartbeatIsPositive DEF RInv, TypeOK, Drop, etcd,
                                                 beat, Leave, Goto
<1>2. OneLease'
  BY DEF RInv, TypeOK, OneLease, Drop, etcd, beat, Leave, Goto
<1>3. Placed'
  BY DEF RInv, TypeOK, Placed, PlacedAt, Drop, etcd, beat, Leave, Goto
<1>4. ASSUME RoomForDelay, NEW q \in Reg PROVE TimedAt(q)'
  <2>1. TimedAt(q) /\ TimedAt(r) /\ PlacedAt(r)
    BY <1>4 DEF RInv, Timed, Placed
  <2>2. QED
    BY <2>1, <1>4, HeartbeatIsPositive, LongestIsANumber, RegistryAssumption
       DEF RInv, TypeOK, TimedAt, PlacedAt, Left, RoomForDelay, Drop, etcd,
           beat, Leave, Goto
<1>5. WatchAgrees'
  BY SilentStep DEF RInv, Drop, etcd, beat, Leave, Goto
<1> QED BY <1>1, <1>2, <1>3, <1>4, <1>5 DEF RInv, Timed, RoomForDelay

LEMMA CrashStep ==
  ASSUME RInv, NEW r \in Reg, Crash(r) PROVE RInv'
<1>1. TypeOK'
  BY RegistryAssumption, HeartbeatIsPositive DEF RInv, TypeOK, Crash, etcd,
                                                 beat, Leave, Goto, Task
<1>2. OneLease'
  BY DEF RInv, TypeOK, OneLease, Crash, etcd, beat, Leave, Goto, Task
<1>3. Placed'
  BY DEF RInv, TypeOK, Placed, PlacedAt, Crash, etcd, beat, Leave, Goto, Task
<1>4. ASSUME RoomForDelay, NEW q \in Reg PROVE TimedAt(q)'
  <2>1. TimedAt(q) /\ TimedAt(r) /\ PlacedAt(r)
    BY <1>4 DEF RInv, Timed, Placed
  <2>2. QED
    BY <2>1, <1>4, HeartbeatIsPositive, LongestIsANumber, RegistryAssumption
       DEF RInv, TypeOK, TimedAt, PlacedAt, Left, RoomForDelay, Crash, etcd,
           beat, Leave, Goto, Task
<1>5. WatchAgrees'
  BY SilentStep DEF RInv, Crash, etcd, beat, Leave, Goto, Task
<1> QED BY <1>1, <1>2, <1>3, <1>4, <1>5 DEF RInv, Timed, RoomForDelay

LEMMA SpawnHeartbeatStep ==
  ASSUME RInv, NEW r \in Reg, SpawnHeartbeat(r) PROVE RInv'
<1>1. TypeOK'
  BY RegistryAssumption, HeartbeatIsPositive DEF RInv, TypeOK, SpawnHeartbeat,
                                                 etcd, beat, Goto, Task
<1>2. OneLease'
  BY DEF RInv, TypeOK, OneLease, SpawnHeartbeat, etcd, beat, Goto, Task
<1>3. Placed'
  BY DEF RInv, TypeOK, Placed, PlacedAt, SpawnHeartbeat, etcd, beat, Goto, Task
<1>4. ASSUME RoomForDelay, NEW q \in Reg PROVE TimedAt(q)'
  <2>1. TimedAt(q) /\ TimedAt(r) /\ PlacedAt(r)
    BY <1>4 DEF RInv, Timed, Placed
  <2>2. CASE q # r
    BY <2>1, <2>2, TimedElsewhere DEF RInv, TypeOK, SpawnHeartbeat, etcd,
                                      beat, Task, Goto
  <2>3. CASE q = r
    <3>1. /\ pc[r] = "put" /\ due[r] = 0 /\ task'[r] = "ticking"
          /\ pc'[r] = "held" /\ UNCHANGED <<lease, age, due>>
      BY <2>1 DEF RInv, TypeOK, PlacedAt, SpawnHeartbeat, etcd, Task, Goto
    <3>2. age[r] \in 0..MaxDelay /\ \A t \in lease[r] : t \in Int
      BY RegistryAssumption DEF RInv, TypeOK
    <3>3. Left(r, TTL - age[r])
      BY <2>1, <3>1 DEF TimedAt
    <3>4. Left(r, TTL - Longest)
      BY <3>2, <3>3, LongestIsANumber, RegistryAssumption DEF Left
    <3> QED BY <2>3, <3>1, <3>4 DEF TimedAt, Left
  <2> QED BY <2>2, <2>3
<1>5. WatchAgrees'
  BY SilentStep DEF RInv, SpawnHeartbeat, etcd, beat, Goto, Task
<1> QED BY <1>1, <1>2, <1>3, <1>4, <1>5 DEF RInv, Timed, RoomForDelay

LEMMA LeaseGrantStep ==
  ASSUME RInv, NEW r \in Reg, LeaseGrant(r) PROVE RInv'
<1>1. TypeOK'
  BY RegistryAssumption, HeartbeatIsPositive DEF RInv, TypeOK, LeaseGrant,
                                                 etcd, beat, Goto
<1>2. OneLease'
  BY DEF RInv, TypeOK, OneLease, LeaseGrant, etcd, beat, Goto
<1>3. Placed'
  BY DEF RInv, TypeOK, Placed, PlacedAt, LeaseGrant, etcd, beat, Goto
<1>4. ASSUME RoomForDelay, NEW q \in Reg PROVE TimedAt(q)'
  <2>1. TimedAt(q) /\ TimedAt(r) /\ PlacedAt(r)
    BY <1>4 DEF RInv, Timed, Placed
  <2>2. QED
    BY <2>1, <1>4, HeartbeatIsPositive, LongestIsANumber, RegistryAssumption
       DEF RInv, TypeOK, TimedAt, PlacedAt, Left, RoomForDelay, LeaseGrant,
           etcd, beat, Goto
<1>5. WatchAgrees'
  BY SilentStep DEF RInv, LeaseGrant, etcd, beat, Goto
<1> QED BY <1>1, <1>2, <1>3, <1>4, <1>5 DEF RInv, Timed, RoomForDelay

LEMMA RegisterFailsStep ==
  ASSUME RInv, NEW r \in Reg, RegisterFails(r) PROVE RInv'
<1>1. TypeOK'
  BY RegistryAssumption, HeartbeatIsPositive DEF RInv, TypeOK, RegisterFails,
                                                 etcd, beat, Goto
<1>2. OneLease'
  BY DEF RInv, TypeOK, OneLease, RegisterFails, etcd, beat, Goto
<1>3. Placed'
  BY DEF RInv, TypeOK, Placed, PlacedAt, RegisterFails, etcd, beat, Goto
<1>4. ASSUME RoomForDelay, NEW q \in Reg PROVE TimedAt(q)'
  <2>1. TimedAt(q) /\ TimedAt(r) /\ PlacedAt(r)
    BY <1>4 DEF RInv, Timed, Placed
  <2>2. QED
    BY <2>1, <1>4, HeartbeatIsPositive, LongestIsANumber, RegistryAssumption
       DEF RInv, TypeOK, TimedAt, PlacedAt, Left, RoomForDelay, RegisterFails,
           etcd, beat, Goto
<1>5. WatchAgrees'
  BY SilentStep DEF RInv, RegisterFails, etcd, beat, Goto
<1> QED BY <1>1, <1>2, <1>3, <1>4, <1>5 DEF RInv, Timed, RoomForDelay

LEMMA EtcdAnswersStep ==
  ASSUME RInv, NEW r \in Reg, EtcdAnswers(r) PROVE RInv'
<1>1. TypeOK'
  BY RegistryAssumption, HeartbeatIsPositive DEF RInv, TypeOK, EtcdAnswers,
                                                 etcd, beat
<1>2. OneLease'
  BY DEF RInv, TypeOK, OneLease, EtcdAnswers, etcd, beat
<1>3. Placed'
  BY DEF RInv, TypeOK, Placed, PlacedAt, EtcdAnswers, etcd, beat
<1>4. ASSUME RoomForDelay, NEW q \in Reg PROVE TimedAt(q)'
  <2>1. TimedAt(q) /\ TimedAt(r) /\ PlacedAt(r)
    BY <1>4 DEF RInv, Timed, Placed
  <2>2. CASE q # r
    BY <2>1, <2>2, TimedElsewhere DEF RInv, TypeOK, EtcdAnswers, etcd
  <2>3. CASE q = r
    <3>1. CASE lease[r] = {}
      <4>1. task[r] \notin {"ticking", "waiting"}
            /\ pc[r] \notin {"granted", "put"}
        BY <2>1, <3>1 DEF TimedAt, EtcdAnswers, Left
      <4> QED BY <2>3, <4>1 DEF TimedAt, EtcdAnswers
    <3>2. CASE lease[r] # {}
      <4>1. /\ lease'[r] = {TTL} /\ UNCHANGED <<pc, task, age, due>>
            /\ task[r] = "waiting" => request'[r] = "renewed"
        BY <3>2 DEF RInv, TypeOK, EtcdAnswers
      <4>2. age[r] \in 0..MaxDelay /\ due[r] \in -MaxBacklog..heartbeat
        BY DEF RInv, TypeOK
      <4>3. /\ TTL \in Nat /\ Longest \in Nat /\ heartbeat \in Nat
            /\ age[r] \in Nat /\ due[r] \in Int /\ due[r] <= heartbeat
        BY <4>2, RegistryAssumption, HeartbeatIsPositive, LongestIsANumber
      <4>4. /\ TTL >= TTL - age[r] /\ TTL >= TTL - Longest
            /\ TTL >= TTL - heartbeat + due[r]
        BY <4>3
      <4> QED BY <2>1, <2>3, <4>1, <4>4 DEF TimedAt, Left
    <3> QED BY <3>1, <3>2
  <2> QED BY <2>2, <2>3
<1>5. WatchAgrees'
  BY SilentStep DEF RInv, EtcdAnswers, etcd, beat
<1> QED BY <1>1, <1>2, <1>3, <1>4, <1>5 DEF RInv, Timed, RoomForDelay

LEMMA RequestLostStep ==
  ASSUME RInv, NEW r \in Reg, RequestLost(r) PROVE RInv'
<1>1. TypeOK'
  BY RegistryAssumption, HeartbeatIsPositive DEF RInv, TypeOK, RequestLost,
                                                 etcd, beat
<1>2. OneLease'
  BY DEF RInv, TypeOK, OneLease, RequestLost, etcd, beat
<1>3. Placed'
  BY DEF RInv, TypeOK, Placed, PlacedAt, RequestLost, etcd, beat
<1>4. ASSUME RoomForDelay, NEW q \in Reg PROVE TimedAt(q)'
  <2>1. TimedAt(q) /\ TimedAt(r) /\ PlacedAt(r)
    BY <1>4 DEF RInv, Timed, Placed
  <2>2. QED
    BY <2>1, <1>4, HeartbeatIsPositive, LongestIsANumber, RegistryAssumption
       DEF RInv, TypeOK, TimedAt, PlacedAt, Left, RoomForDelay, RequestLost,
           etcd, beat
<1>5. WatchAgrees'
  BY SilentStep DEF RInv, RequestLost, etcd, beat
<1> QED BY <1>1, <1>2, <1>3, <1>4, <1>5 DEF RInv, Timed, RoomForDelay

LEMMA PutStep ==
  ASSUME RInv, NEW r \in Reg, Put(r) PROVE RInv'
<1>1. /\ AddrOf[r] \in Addr
      /\ key' = [key EXCEPT ![AddrOf[r]] = {r}] /\ Emit("Put", AddrOf[r])
      /\ newest' = [newest EXCEPT ![AddrOf[r]] = {r}]
      /\ pc' = [pc EXCEPT ![r] = "put"] /\ pc[r] = "granted"
      /\ UNCHANGED <<lease, task, due, request, stop, age>>
  BY RegistryAssumption DEF Put, Goto, beat
<1>2. /\ WatchAgrees'
      /\ watch' \subseteq
           [known : SUBSET Addr, told : SUBSET Addr, view : SUBSET Addr]
  BY <1>1, EmitPut DEF RInv
<1>3. TypeOK'
  BY <1>1, <1>2 DEF RInv, TypeOK
<1>4. OneLease'
  BY <1>1 DEF RInv, OneLease
<1>5. Placed'
  <2>1. SUFFICES ASSUME NEW q \in Reg PROVE PlacedAt(q)'
    BY DEF Placed
  <2>2. PlacedAt(q) /\ PlacedAt(r) /\ AddrOf[q] \in Addr
    BY RegistryAssumption DEF RInv, Placed
  <2>3. CASE q = r
    <3>1. /\ key'[AddrOf[r]] = {r} /\ pc'[r] = "put" /\ task[r] = "none"
          /\ due[r] = 0
      BY <1>1, <2>2 DEF RInv, TypeOK, PlacedAt
    <3> QED BY <1>1, <2>3, <3>1 DEF PlacedAt
  <2>4. CASE q # r /\ AddrOf[q] = AddrOf[r]
    <3>1. newest'[AddrOf[q]] # {q} /\ pc'[q] = pc[q]
      BY <1>1, <2>4 DEF RInv, TypeOK
    <3> QED BY <1>1, <2>2, <3>1 DEF PlacedAt
  <2>5. CASE q # r /\ AddrOf[q] # AddrOf[r]
    <3>1. /\ newest'[AddrOf[q]] = newest[AddrOf[q]] /\ pc'[q] = pc[q]
          /\ key'[AddrOf[q]] = key[AddrOf[q]]
      BY <1>1, <2>2, <2>5 DEF RInv, TypeOK
    <3> QED BY <1>1, <2>2, <3>1 DEF PlacedAt
  <2> QED BY <2>3, <2>4, <2>5
<1>6. ASSUME RoomForDelay, NEW q \in Reg PROVE TimedAt(q)'
  BY <1>1, <1>6 DEF RInv, TypeOK, Timed, TimedAt, Left
<1> QED BY <1>2, <1>3, <1>4, <1>5, <1>6 DEF RInv, Timed, RoomForDelay

LEMMA LeaseRevokeStep ==
  ASSUME RInv, NEW r \in Reg, LeaseRevoke(r) PROVE RInv'
<1>1. /\ pc[r] = "stopping" /\ task[r] = "ended"
      /\ pc' = [pc EXCEPT ![r] = "gone"]
      /\ UNCHANGED <<task, due, request, stop, age, newest>>
  BY DEF LeaseRevoke, Goto, beat
<1>2. CASE LeaseGone(r)
  <2>1. /\ lease' \in [Reg -> SUBSET (0..TTL)] /\ key' \in [Addr -> SUBSET Reg]
        /\ watch' \subseteq
             [known : SUBSET Addr, told : SUBSET Addr, view : SUBSET Addr]
        /\ WatchAgrees' /\ OneLease' /\ lease' = [lease EXCEPT ![r] = {}]
        /\ \A q \in Reg \ {r} :
             key[AddrOf[q]] = {q} => key'[AddrOf[q]] = {q}
    BY <1>2, LeaseGoneStep DEF RInv
  <2>2. TypeOK'
    BY <1>1, <2>1 DEF RInv, TypeOK
  <2>3. Placed'
    BY <1>1, <2>1, RegistryAssumption DEF RInv, TypeOK, Placed, PlacedAt
  <2>4. ASSUME RoomForDelay, NEW q \in Reg PROVE TimedAt(q)'
    BY <1>1, <2>1, <2>4 DEF RInv, TypeOK, Timed, TimedAt, Left
  <2> QED BY <2>1, <2>2, <2>3, <2>4 DEF RInv, Timed, RoomForDelay
<1>3. CASE UNCHANGED etcd
  <2>1. TypeOK' /\ OneLease'
    BY <1>1, <1>3 DEF RInv, TypeOK, OneLease, etcd
  <2>2. Placed'
    BY <1>1, <1>3 DEF RInv, TypeOK, Placed, PlacedAt, etcd
  <2>3. ASSUME RoomForDelay, NEW q \in Reg PROVE TimedAt(q)'
    BY <1>1, <1>3, <2>3 DEF RInv, TypeOK, Timed, TimedAt, Left, etcd
  <2>4. WatchAgrees'
    BY <1>3, SilentStep DEF RInv, etcd
  <2> QED BY <2>1, <2>2, <2>3, <2>4 DEF RInv, Timed, RoomForDelay
<1> QED BY <1>2, <1>3 DEF LeaseRevoke

(* A lease that is being renewed in time does not run out. *)
LEMMA LeaseRunsOutStep ==
  ASSUME RInv, NEW r \in Reg, LeaseRunsOut(r) PROVE RInv'
<1>1. /\ lease[r] = {0}
      /\ UNCHANGED <<pc, task, due, request, stop, age, newest>>
  BY DEF LeaseRunsOut, beat
<1>2. /\ lease' \in [Reg -> SUBSET (0..TTL)] /\ key' \in [Addr -> SUBSET Reg]
      /\ watch' \subseteq
           [known : SUBSET Addr, told : SUBSET Addr, view : SUBSET Addr]
      /\ WatchAgrees' /\ OneLease' /\ lease' = [lease EXCEPT ![r] = {}]
      /\ \A q \in Reg \ {r} :
           key[AddrOf[q]] = {q} => key'[AddrOf[q]] = {q}
  BY LeaseGoneStep DEF RInv, LeaseRunsOut
<1>3. TypeOK'
  BY <1>1, <1>2 DEF RInv, TypeOK
<1>4. Placed'
  <2>1. SUFFICES ASSUME NEW q \in Reg PROVE PlacedAt(q)'
    BY DEF Placed
  <2>2. PlacedAt(q) /\ (q # r => lease'[q] = lease[q]) /\ lease'[r] = {}
    BY <1>2 DEF RInv, Placed, TypeOK
  <2> QED BY <2>2, <1>1, <1>2 DEF PlacedAt
<1>5. ASSUME RoomForDelay, NEW q \in Reg PROVE TimedAt(q)'
  <2>1. CASE q # r
    BY <1>1, <1>2, <1>5, <2>1, TimedElsewhere DEF RInv, TypeOK, Timed
  <2>2. CASE q = r
    <3>1. TimedAt(r)
      BY <1>5 DEF RInv, Timed
    <3>2. /\ TTL \in Nat /\ Longest \in Nat /\ MaxDelay \in Nat
          /\ age[r] \in Nat /\ age[r] <= MaxDelay
          /\ Longest >= MaxDelay /\ MaxDelay + Longest < TTL
      BY <1>5, RegistryAssumption, LongestIsANumber
         DEF RInv, TypeOK, RoomForDelay
    <3>3. ~(0 >= TTL - age[r]) /\ ~(0 >= TTL - Longest)
          /\ ~(0 >= TTL - Longest - age[r])
      BY <3>2
    <3>4. /\ pc[r] \notin {"granted", "put"}
          /\ task[r] \notin {"ticking", "waiting"}
      BY <3>1, <3>3, <1>1 DEF TimedAt, Left
    <3> QED BY <2>2, <3>4, <1>1 DEF TimedAt
  <2> QED BY <2>1, <2>2
<1> QED BY <1>2, <1>3, <1>4, <1>5 DEF RInv, Timed, RoomForDelay

LEMMA WatchServiceStep == ASSUME RInv, watch_service PROVE RInv'
<1>1. /\ watch' = {[known |-> discover, told |-> {}, view |-> {}]}
      /\ UNCHANGED <<lease, key, pc, task, due, request, stop, age, newest>>
  BY DEF watch_service, beat
<1>2. discover' = discover /\ discover \subseteq Addr
  BY <1>1 DEF discover
<1>3. TypeOK' /\ OneLease'
  BY <1>1, <1>2 DEF RInv, TypeOK, OneLease
<1>4. WatchAgrees'
  BY <1>1, <1>2 DEF WatchAgrees
<1>5. Placed'
  BY <1>1 DEF RInv, Placed, PlacedAt
<1>6. Timed'
  BY <1>1 DEF RInv, Timed, TimedAt, Left, RoomForDelay
<1> QED BY <1>3, <1>4, <1>5, <1>6 DEF RInv

(* A second passes: every lease, and every timer that runs, is one second  *)
(* further, and what is late is at most MaxDelay late.                     *)
LEMMA ClockStep == ASSUME RInv, Clock PROVE RInv'
<1>1. /\ lease' = [r \in Reg |-> {t - 1 : t \in lease[r]}]
      /\ due' = [r \in Reg |-> IF task[r] \in {"ticking", "waiting"}
                                 THEN Later(due[r]) ELSE due[r]]
      /\ age' = [r \in Reg |-> IF age[r] < MaxDelay THEN age[r] + 1 ELSE age[r]]
      /\ UNCHANGED <<key, watch, pc, task, request, stop, newest>>
  BY DEF Clock
<1>2. \A r \in Reg : /\ lease[r] \in SUBSET (0..TTL)
                     /\ due[r] \in -MaxBacklog..heartbeat
                     /\ age[r] \in 0..MaxDelay
  BY DEF RInv, TypeOK
<1>3. /\ TTL \in Nat \ {0} /\ MaxDelay \in Nat /\ MaxBacklog \in Nat
      /\ heartbeat \in Nat \ {0} /\ Longest \in Nat /\ Longest >= heartbeat
  BY RegistryAssumption, HeartbeatIsPositive, LongestIsANumber
<1>4. ASSUME NEW r \in Reg PROVE lease'[r] \in SUBSET (0..TTL)
  <2>1. \A t \in lease[r] : t # 0
    BY DEF Clock, RInv, OneLease
  <2> QED BY <1>1, <1>2, <1>3, <2>1
<1>5. ASSUME NEW r \in Reg
      PROVE /\ due'[r] \in -MaxBacklog..heartbeat /\ age'[r] \in 0..MaxDelay
            /\ task[r] \in {"ticking", "waiting"} =>
                 /\ due'[r] <= due[r]
                 /\ due'[r] > 0 => due'[r] = due[r] - 1
                 /\ due[r] > 0 => due'[r] = due[r] - 1
            /\ task[r] \notin {"ticking", "waiting"} => due'[r] = due[r]
            /\ age[r] < MaxDelay => age'[r] = age[r] + 1
  BY <1>1, <1>2, <1>3 DEF Later
<1>6. TypeOK'
  BY <1>1, <1>4, <1>5 DEF RInv, TypeOK
<1>7. OneLease'
  BY <1>1 DEF RInv, OneLease
<1>8. Placed'
  BY <1>1, <1>5 DEF RInv, Placed, PlacedAt
<1>9. ASSUME RoomForDelay, NEW r \in Reg PROVE TimedAt(r)'
  <2>1. TimedAt(r) /\ lease'[r] = {t - 1 : t \in lease[r]}
    BY <1>1, <1>9 DEF RInv, Timed
  <2>2. /\ task[r] = "ticking" => due[r] > 0
        /\ (pc[r] \in {"granted", "put"} \/ request[r] # "none") =>
             age'[r] = age[r] + 1
    BY <1>5 DEF Clock
  <2>3. ASSUME NEW n \in Int, Left(r, n)
        PROVE  lease'[r] # {} /\ \A t \in lease'[r] : t >= n - 1
    <3>1. \A t \in lease[r] : t \in Int /\ t >= n
      BY <1>2, <2>3 DEF Left
    <3> QED BY <2>1, <2>3, <3>1 DEF Left
  <2>4. /\ TTL - age[r] \in Int /\ TTL - Longest \in Int
        /\ TTL - Longest - age[r] \in Int /\ TTL - heartbeat + due[r] \in Int
    BY <1>2, <1>3
  <2>5. pc[r] \in {"granted", "put"} =>
          lease'[r] # {} /\ \A t \in lease'[r] : t >= TTL - age'[r]
    <3>1. SUFFICES ASSUME pc[r] \in {"granted", "put"}
                   PROVE lease'[r] # {} /\ \A t \in lease'[r] : t >= TTL - age'[r]
      OBVIOUS
    <3>2. Left(r, TTL - age[r]) /\ age'[r] = age[r] + 1
      BY <2>1, <2>2, <3>1 DEF TimedAt
    <3>3. (TTL - age[r]) - 1 = TTL - age'[r]
      BY <3>2, <1>2, <1>3
    <3> QED BY <2>3, <2>4, <3>2, <3>3
  <2>6. task[r] = "ticking" =>
          /\ lease'[r] # {}
          /\ \A t \in lease'[r] : t >= TTL - Longest
          /\ due'[r] > 0 => \A t \in lease'[r] : t >= TTL - heartbeat + due'[r]
    <3>1. SUFFICES ASSUME task[r] = "ticking"
                   PROVE  /\ lease'[r] # {}
                          /\ \A t \in lease'[r] : t >= TTL - heartbeat + due'[r]
                          /\ \A t \in lease'[r] : t >= TTL - Longest
      OBVIOUS
    <3>2. due[r] > 0 /\ due'[r] = due[r] - 1 /\ due[r] \in Int
      BY <2>2, <3>1, <1>5, <1>2
    <3>3. Left(r, TTL - heartbeat + due[r])
      BY <2>1, <3>1, <3>2 DEF TimedAt
    <3>4. /\ (TTL - heartbeat + due[r]) - 1 = TTL - heartbeat + due'[r]
          /\ (TTL - heartbeat + due[r]) - 1 >= TTL - Longest
          /\ \A t \in lease'[r] : t \in Int
      BY <3>2, <1>3, <1>4
    <3>5. lease'[r] # {}
          /\ \A t \in lease'[r] : t >= (TTL - heartbeat + due[r]) - 1
      BY <2>3, <2>4, <3>3
    <3>6. \A t \in lease'[r] : t >= TTL - Longest
      BY <3>4, <3>5, <3>2, <1>3
    <3> QED BY <3>4, <3>5, <3>6
  <2>7. task[r] = "waiting" =>
          /\ due'[r] > 0 => due'[r] + age'[r] <= heartbeat
          /\ request[r] = "sent" =>
               lease'[r] # {} /\ \A t \in lease'[r] : t >= TTL - Longest - age'[r]
          /\ request[r] = "renewed" =>
               lease'[r] # {} /\ \A t \in lease'[r] : t >= TTL - age'[r]
          /\ request[r] \in {"sent", "renewed"}
    <3>1. SUFFICES ASSUME task[r] = "waiting"
          PROVE
          /\ due'[r] > 0 => due'[r] + age'[r] <= heartbeat
          /\ request[r] = "sent" =>
               lease'[r] # {} /\ \A t \in lease'[r] : t >= TTL - Longest - age'[r]
          /\ request[r] = "renewed" =>
               lease'[r] # {} /\ \A t \in lease'[r] : t >= TTL - age'[r]
          /\ request[r] \in {"sent", "renewed"}
      OBVIOUS
    <3>2. request[r] \in {"sent", "renewed"} /\ age'[r] = age[r] + 1
      BY <2>1, <2>2, <3>1 DEF TimedAt
    <3>3. due'[r] > 0 => due'[r] + age'[r] <= heartbeat
      <4>1. due'[r] > 0 => due'[r] = due[r] - 1 /\ due[r] > 0
        BY <1>5, <1>2, <1>3, <3>1
      <4>2. due[r] > 0 => due[r] + age[r] <= heartbeat
        BY <2>1, <3>1 DEF TimedAt
      <4> QED BY <4>1, <4>2, <3>2, <1>2, <1>3
    <3>4. /\ (TTL - age[r]) - 1 = TTL - age'[r]
          /\ (TTL - Longest - age[r]) - 1 = TTL - Longest - age'[r]
      BY <3>2, <1>2, <1>3
    <3>5. /\ request[r] = "sent" => Left(r, TTL - Longest - age[r])
          /\ request[r] = "renewed" => Left(r, TTL - age[r])
      BY <2>1, <3>1 DEF TimedAt
    <3> QED BY <3>2, <3>3, <3>4, <3>5, <2>3, <2>4
  <2> QED BY <2>5, <2>6, <2>7, <1>1 DEF TimedAt, Left
<1>10. WatchAgrees'
  BY <1>1, SilentStep DEF RInv
<1> QED BY <1>6, <1>7, <1>8, <1>9, <1>10 DEF RInv, Timed, RoomForDelay

LEMMA RegistryStep == RInv /\ [Next]_vars => RInv'
<1>1. SUFFICES ASSUME RInv, [Next]_vars PROVE RInv'
  OBVIOUS
<1>2. CASE \E r \in Reg : Register(r)
  BY <1>1, <1>2, LeaseGrantStep, PutStep, SpawnHeartbeatStep,
     RegisterFailsStep DEF Register
<1>3. CASE \E r \in Reg : Heartbeat(r)
  BY <1>1, <1>3, KeepAliveStep, AnsweredStep, HeartbeatFailsStep, StopSeenStep
     DEF Heartbeat
<1>4. CASE \E r \in Reg : EtcdAnswers(r) \/ RequestLost(r) \/ LeaseRunsOut(r)
  BY <1>1, <1>4, EtcdAnswersStep, RequestLostStep, LeaseRunsOutStep
<1>5. CASE \E r \in Reg :
             Deregister(r) \/ LeaseRevoke(r) \/ Drop(r) \/ Crash(r)
  BY <1>1, <1>5, DeregisterStep, LeaseRevokeStep, DropStep, CrashStep
<1>6. CASE watch_service \/ Clock
  BY <1>1, <1>6, WatchServiceStep, ClockStep
<1>7. CASE UNCHANGED vars
  <2>1. UNCHANGED <<lease, key, watch, pc, task, due, request, stop, age,
                    newest>>
    BY <1>7 DEF vars, etcd, beat
  <2>2. TypeOK' /\ OneLease' /\ Placed'
    BY <1>1, <2>1 DEF RInv, TypeOK, OneLease, Placed, PlacedAt
  <2>3. Timed'
    BY <1>1, <2>1 DEF RInv, Timed, TimedAt, Left, RoomForDelay
  <2> QED BY <1>1, <2>1, <2>2, <2>3, SilentStep DEF RInv
<1> QED BY <1>1, <1>2, <1>3, <1>4, <1>5, <1>6, <1>7 DEF Next

(* The types, the times and the keys of a registry, for any registrations, *)
(* addresses, TTL and delays.                                              *)
THEOREM RegistryInvariant == Spec => []RInv
  BY RInvInit, RegistryStep, PTL DEF Spec

(* What beats is renewed before its lease runs out, and a registration     *)
(* that shuts down removes no key but its own: discover and a watcher see  *)
(* what is alive (ListingTrue).                                            *)
THEOREM RegistryTellsTheTruth == Spec => []ListingTrue
<1>1. RInv => ListingTrue
  <2>1. SUFFICES ASSUME RInv, RoomForDelay, NEW r \in Reg, Beating(r),
                        newest[AddrOf[r]] = {r}
                 PROVE  key[AddrOf[r]] = {r}
    BY DEF ListingTrue, HeldIsListed, RInv, RoomForDelay, Longest
  <2>2. TimedAt(r) /\ PlacedAt(r)
    BY <2>1 DEF RInv, Timed, Placed
  <2>3. lease[r] # {}
    BY <2>1, <2>2 DEF TimedAt, Beating, Left
  <2> QED BY <2>1, <2>2, <2>3 DEF PlacedAt
<1> QED BY <1>1, RegistryInvariant, PTL

-----------------------------------------------------------------------------
(* The plugin host *)

(* The mutex is held from the write of a request to the end of its read. *)
Mutex ==
  /\ \A c \in lock : h_pc[c] \in {"writing", "reading"}
  /\ \A c \in Caller : h_pc[c] \in {"writing", "reading"} => lock = {c}

(* A handler that is at work has a plugin, and no outcome yet. *)
AtWork ==
  \A c \in Caller :
    /\ h_pc[c] # "idle" => plugin[c] \in Plugin
    /\ h_pc[c] \in {"locking", "writing", "reading"} => outcome[c].kind = "none"

Reads(c, p) == h_pc[c] = "reading" /\ plugin[c] = p

(* What is in the pipes of a plugin none of whose calls was dropped: the   *)
(* request of the handler that reads, or the response to it, and nothing   *)
(* when nobody reads.                                                      *)
PipesOK(p) ==
  /\ process[p] # "up" => stdin[p] = <<>>
  /\ p \notin dropped =>
       /\ (\A c \in Caller : ~Reads(c, p)) => stdin[p] = <<>> /\ stdout[p] = <<>>
       /\ \A c \in Caller : Reads(c, p) =>
            LET l == [id |-> id[c], whole |-> TRUE] IN
            \/ stdin[p] = <<l>> /\ stdout[p] = <<>>
            \/ stdin[p] = <<>> /\ stdout[p] = <<l>>
            \/ stdin[p] = <<>> /\ stdout[p] = <<>>
Pipes == \A p \in Plugin : PipesOK(p)

PInv == Host!TypeOK /\ Mutex /\ AtWork /\ Pipes /\ Host!OwnAnswer /\ Host!NoOrphans

LEMMA HostInit == ASSUME Host!PluginAssumption, Host!Init PROVE PInv
<1>1. Host!TypeOK
  <2>1. /\ 0 \in 0..MaxInstalls /\ 1 \in 1..(MaxId + 1) /\ 0 \in 0..MaxId
        /\ <<>> \in Seq(Host!Line)
    BY EmptySeq DEF Host!PluginAssumption
  <2>2. [kind |-> "none", answers |-> 0] \in [kind : Host!Outcomes, answers : 0..MaxId]
    BY <2>1 DEF Host!Outcomes
  <2> QED BY <2>1, <2>2 DEF Host!Init, Host!TypeOK
<1>2. Mutex /\ AtWork /\ Pipes /\ Host!OwnAnswer /\ Host!NoOrphans
  BY DEF Host!Init, Mutex, AtWork, Pipes, PipesOK, Reads, Host!OwnAnswer,
         Host!NoOrphans
<1> QED BY <1>1, <1>2 DEF PInv

(* A step that leaves the pipes, the mutex and the reads alone. *)
LEMMA PipesAlone ==
  ASSUME Pipes, UNCHANGED <<process, stdin, stdout, dropped>>,
         \A c \in Caller : h_pc'[c] = "reading" <=> h_pc[c] = "reading",
         \A c \in Caller : h_pc[c] = "reading" =>
           plugin'[c] = plugin[c] /\ id'[c] = id[c]
  PROVE  Pipes'
  BY DEF Pipes, PipesOK, Reads

LEMMA TaskStep ==
  ASSUME Host!PluginAssumption, PInv, NEW c \in Caller, NEW p \in Plugin,
         NEW at \in {"locking", "owner"}, Host!Task(c, p, at),
         own' \in [Caller -> {"none", "up", "exited"}]
  PROVE  PInv'
<1>1. /\ h_pc[c] = "idle" /\ h_pc' = [h_pc EXCEPT ![c] = at]
      /\ plugin' = [plugin EXCEPT ![c] = p] /\ id' = [id EXCEPT ![c] = 0]
      /\ outcome' = [outcome EXCEPT ![c] = [kind |-> "none", answers |-> 0]]
      /\ UNCHANGED <<manifests, process, next_id, stdin, stdout, lock, dropped,
                     orphaned>>
  BY DEF Host!Task, Host!pipes
<1>2. Host!TypeOK'
  BY <1>1 DEF PInv, Host!TypeOK, Host!PluginAssumption, Host!Outcomes
<1>3. Mutex' /\ AtWork' /\ Host!OwnAnswer' /\ Host!NoOrphans'
  BY <1>1 DEF PInv, Host!TypeOK, Mutex, AtWork, Host!OwnAnswer, Host!NoOrphans
<1>4. Pipes'
  BY <1>1, PipesAlone DEF PInv, Host!TypeOK
<1> QED BY <1>2, <1>3, <1>4 DEF PInv

LEMMA InstallStep ==
  ASSUME Host!PluginAssumption, PInv, NEW c \in Caller, Host!install(c)
  PROVE PInv'
<1> DEFINE p == plugin[c]
<1>1. p \in Plugin
  BY DEF PInv, AtWork, Host!install
<1>2. /\ h_pc[c] = "owner" /\ manifests[p] < MaxInstalls /\ lock = {}
      /\ manifests' = [manifests EXCEPT ![p] = @ + 1]
      /\ process' = [process EXCEPT ![p] = own[c]]
      /\ next_id' = [next_id EXCEPT ![p] = 1]
      /\ stdin' = [stdin EXCEPT ![p] = <<>>]
      /\ stdout' = [stdout EXCEPT ![p] = <<>>]
      /\ dropped' = dropped \ {p} /\ orphaned' = orphaned
      /\ h_pc' = [h_pc EXCEPT ![c] = "idle"]
      /\ plugin' = [plugin EXCEPT ![c] = None]
      /\ own' = [own EXCEPT ![c] = "none"]
      /\ UNCHANGED <<lock, id, outcome>>
  BY DEF Host!install, Host!DropChild, Host!Leave, Host!kill_on_drop, PInv,
         Host!TypeOK
<1>3. Host!TypeOK'
  <2>1. manifests[p] + 1 \in 0..MaxInstalls /\ 1 \in 1..(MaxId + 1)
    BY <1>1, <1>2 DEF PInv, Host!TypeOK, Host!PluginAssumption
  <2> QED BY <1>1, <1>2, <2>1, EmptySeq DEF PInv, Host!TypeOK
<1>4. Mutex' /\ AtWork' /\ Host!OwnAnswer' /\ Host!NoOrphans'
  BY <1>2 DEF PInv, Host!TypeOK, Mutex, AtWork, Host!OwnAnswer, Host!NoOrphans
<1>5. ASSUME NEW q \in Plugin PROVE PipesOK(q)'
  <2>1. \A d \in Caller : h_pc'[d] # "reading" /\ h_pc[d] # "reading"
    BY <1>2 DEF PInv, Host!TypeOK, Mutex
  <2>2. CASE q = p
    BY <1>1, <1>2, <2>1, <2>2 DEF PInv, Host!TypeOK, PipesOK, Reads
  <2>3. CASE q # p
    BY <1>1, <1>2, <2>1, <2>3 DEF PInv, Host!TypeOK, Pipes, PipesOK, Reads
  <2> QED BY <2>2, <2>3
<1> QED BY <1>3, <1>4, <1>5 DEF PInv, Pipes

(* What the owner of a host outside the registry does to it. *)
LEMMA OwnerStep ==
  ASSUME Host!PluginAssumption, PInv, NEW c \in Caller,
         \/ Host!shutdown(c) \/ Host!ShutdownReturns(c) \/ Host!ShutdownKills(c)
         \/ Host!OwnerDropped(c) \/ Host!OwnExits(c)
  PROVE  PInv'
<1>1. /\ \/ /\ h_pc[c] \in {"owner", "stopping"}
            /\ h_pc' \in {[h_pc EXCEPT ![c] = "idle"], [h_pc EXCEPT ![c] = "stopping"]}
         \/ h_pc' = h_pc
      /\ plugin' = plugin \/ (h_pc' = [h_pc EXCEPT ![c] = "idle"]
           /\ plugin' = [plugin EXCEPT ![c] = None])
      /\ own' \in {own, [own EXCEPT ![c] = "none"], [own EXCEPT ![c] = "exited"]}
      /\ orphaned' = orphaned
      /\ UNCHANGED <<manifests, process, next_id, stdin, stdout, lock, id,
                     outcome, dropped>>
  BY DEF Host!shutdown, Host!ShutdownReturns, Host!ShutdownKills,
         Host!OwnerDropped, Host!OwnExits,
     Host!Leave, Host!DropChild, Host!kill_on_drop, Host!calls, Host!pipes,
     PInv, Host!TypeOK
<1>2. Host!TypeOK'
  BY <1>1 DEF PInv, Host!TypeOK
<1>4. \A d \in Caller :
        /\ \/ h_pc'[d] = h_pc[d]
           \/ /\ h_pc'[d] \in {"idle", "stopping"}
              /\ h_pc[d] \in {"owner", "stopping"}
        /\ h_pc'[d] # "idle" => plugin'[d] = plugin[d]
        /\ h_pc[d] = "reading" => plugin'[d] = plugin[d]
  BY <1>1 DEF PInv, Host!TypeOK
<1>3. Mutex' /\ AtWork' /\ Host!OwnAnswer' /\ Host!NoOrphans'
  <2>1. Mutex'
    BY <1>1, <1>4 DEF PInv, Host!TypeOK, Mutex
  <2>2. AtWork'
    BY <1>1, <1>4 DEF PInv, AtWork
  <2>3. Host!OwnAnswer' /\ Host!NoOrphans'
    BY <1>1 DEF PInv, Host!OwnAnswer, Host!NoOrphans
  <2> QED BY <2>1, <2>2, <2>3
<1>5. Pipes'
  BY <1>1, <1>4, PipesAlone DEF PInv
<1> QED BY <1>2, <1>3, <1>5 DEF PInv

(* A handler leaves with an outcome that is not its own answer. *)
LEMMA RefusedStep ==
  ASSUME Host!PluginAssumption, PInv, NEW c \in Caller,
         NEW kind \in Host!Outcomes \ {"Ok"}, Host!Return(c, kind, 0),
         \/ h_pc[c] = "locking" /\ lock = {}
         \/ h_pc[c] = "writing"
         \/ /\ h_pc[c] = "reading" /\ stdout[plugin[c]] = <<>>
            /\ process[plugin[c]] = "exited",
         UNCHANGED <<manifests, process, own, orphaned, next_id, stdin, stdout,
                     id, dropped>>
  PROVE  PInv'
<1>1. /\ h_pc' = [h_pc EXCEPT ![c] = "idle"]
      /\ plugin' = [plugin EXCEPT ![c] = None]
      /\ outcome' = [outcome EXCEPT ![c] = [kind |-> kind, answers |-> 0]]
      /\ lock' = {}
  BY DEF Host!Return, Host!Release
<1>2. Host!TypeOK'
  <2>1. [kind |-> kind, answers |-> 0] \in [kind : Host!Outcomes, answers : 0..MaxId]
    BY DEF Host!PluginAssumption
  <2> QED BY <1>1, <2>1 DEF PInv, Host!TypeOK
<1>3. \A d \in Caller : /\ d # c => h_pc[d] \notin {"writing", "reading"}
                        /\ h_pc'[d] \notin {"writing", "reading"}
                        /\ h_pc'[d] # "idle" => (h_pc'[d] = h_pc[d] /\ d # c)
  <2>1. \A d \in Caller : d # c => h_pc[d] \notin {"writing", "reading"}
    BY DEF PInv, Mutex
  <2> QED BY <1>1, <2>1 DEF PInv, Host!TypeOK
<1>4. Mutex' /\ AtWork'
  BY <1>1, <1>3 DEF PInv, Host!TypeOK, Mutex, AtWork
<1>5. Host!OwnAnswer' /\ Host!NoOrphans'
  BY <1>1 DEF PInv, Host!TypeOK, Host!OwnAnswer, Host!NoOrphans
<1>6. ASSUME NEW q \in Plugin PROVE PipesOK(q)'
  <2>1. PipesOK(q)
    BY DEF PInv, Pipes
  <2>2. CASE Reads(c, q)
    BY <2>1, <2>2, <1>3 DEF PipesOK, Reads
  <2>3. CASE ~Reads(c, q)
    BY <2>1, <2>3, <1>3 DEF PipesOK, Reads
  <2> QED BY <2>2, <2>3
<1> QED BY <1>2, <1>4, <1>5, <1>6 DEF PInv, Pipes

LEMMA LockStep ==
  ASSUME Host!PluginAssumption, PInv, NEW c \in Caller, Host!Lock(c)
  PROVE PInv'
<1> DEFINE p == plugin[c]
<1>1. p \in Plugin /\ h_pc[c] = "locking" /\ lock = {}
      /\ UNCHANGED <<manifests, process, own, orphaned, stdin, stdout, dropped>>
  BY DEF PInv, AtWork, Host!Lock, Host!pipes
<1>2. CASE /\ Host!Return(c, "Protocol", 0) /\ UNCHANGED <<next_id, id>>
  BY <1>1, <1>2, RefusedStep DEF Host!Outcomes
<1>3. CASE /\ next_id[p] <= MaxId
           /\ lock' = {c} /\ h_pc' = [h_pc EXCEPT ![c] = "writing"]
           /\ id' = [id EXCEPT ![c] = next_id[p]]
           /\ next_id' = [next_id EXCEPT ![p] = @ + 1]
           /\ UNCHANGED <<plugin, outcome>>
  <2>1. next_id[p] \in 0..MaxId /\ next_id[p] + 1 \in 1..(MaxId + 1)
    BY <1>1, <1>3 DEF PInv, Host!TypeOK, Host!PluginAssumption
  <2>2. Host!TypeOK'
    BY <1>1, <1>3, <2>1 DEF PInv, Host!TypeOK
  <2>3. \A d \in Caller : h_pc[d] \notin {"writing", "reading"}
    BY <1>1 DEF PInv, Mutex
  <2>4. Mutex' /\ AtWork'
    BY <1>1, <1>3, <2>3 DEF PInv, Host!TypeOK, Mutex, AtWork
  <2>5. Host!OwnAnswer' /\ Host!NoOrphans'
    BY <1>1, <1>3 DEF PInv, Host!TypeOK, AtWork, Host!OwnAnswer, Host!NoOrphans
  <2>6. Pipes'
    BY <1>1, <1>3, <2>3, PipesAlone DEF PInv, Host!TypeOK
  <2> QED BY <2>2, <2>4, <2>5, <2>6 DEF PInv
<1> QED BY <1>2, <1>3 DEF Host!Lock

LEMMA WrittenIsLines ==
  ASSUME Host!PluginAssumption, NEW s \in Seq(Host!Line), NEW n \in 0..MaxId,
         NEW whole \in BOOLEAN
  PROVE  /\ Host!Written(s, n, whole) \in Seq(Host!Line)
         /\ s = <<>> => Host!Written(s, n, whole) = <<[id |-> n, whole |-> whole]>>
<1>1. [id |-> n, whole |-> whole] \in Host!Line
      /\ [id |-> 0, whole |-> whole] \in Host!Line
  BY DEF Host!Line, Host!PluginAssumption
<1> DEFINE l == [id |-> n, whole |-> whole]
           z == [id |-> 0, whole |-> whole]
<1>2. l \in Host!Line /\ z \in Host!Line /\ Append(s, l) \in Seq(Host!Line)
  BY <1>1
<1>3. s # <<>> => Len(s) \in 1..Len(s)
  OBVIOUS
<1>4. s # <<>> => [s EXCEPT ![Len(s)] = z] \in Seq(Host!Line)
  <2> HIDE DEF z
  <2> QED BY <1>2, <1>3
<1>5. s = <<>> => Append(s, l) = <<l>>
  <2> HIDE DEF l
  <2> QED OBVIOUS
<1>6. \/ Host!Written(s, n, whole) = [s EXCEPT ![Len(s)] = z] /\ s # <<>>
      \/ Host!Written(s, n, whole) = Append(s, l)
  BY DEF Host!Written
<1>7. s = <<>> => Host!Written(s, n, whole) = Append(s, l)
  BY DEF Host!Written
<1> HIDE DEF l, z
<1>8. Host!Written(s, n, whole) \in Seq(Host!Line)
  BY <1>2, <1>4, <1>6
<1>9. s = <<>> => Host!Written(s, n, whole) = <<l>>
  BY <1>5, <1>7
<1> QED BY <1>8, <1>9 DEF l

LEMMA WriteStep ==
  ASSUME Host!PluginAssumption, PInv, NEW c \in Caller, Host!Write(c)
  PROVE PInv'
<1> DEFINE p == plugin[c]
           l == [id |-> id[c], whole |-> TRUE]
<1>1. /\ p \in Plugin /\ h_pc[c] = "writing" /\ process[p] = "up"
      /\ stdin' = [stdin EXCEPT ![p] = Host!Written(@, id[c], TRUE)]
      /\ h_pc' = [h_pc EXCEPT ![c] = "reading"]
      /\ UNCHANGED <<manifests, process, own, orphaned, next_id, stdout, lock,
                     plugin, id, outcome, dropped>>
  BY DEF PInv, AtWork, Host!Write
<1>2. /\ Host!Written(stdin[p], id[c], TRUE) \in Seq(Host!Line)
      /\ stdin[p] = <<>> => Host!Written(stdin[p], id[c], TRUE) = <<l>>
  BY <1>1, WrittenIsLines DEF PInv, Host!TypeOK
<1>3. Host!TypeOK'
  BY <1>1, <1>2 DEF PInv, Host!TypeOK
<1>4. Mutex' /\ AtWork' /\ Host!OwnAnswer' /\ Host!NoOrphans'
  BY <1>1 DEF PInv, Host!TypeOK, Mutex, AtWork, Host!OwnAnswer, Host!NoOrphans
<1>5. \A d \in Caller : d # c => h_pc[d] \notin {"writing", "reading"}
  BY <1>1 DEF PInv, Mutex
<1>6. ASSUME NEW q \in Plugin PROVE PipesOK(q)'
  <2>1. PipesOK(q) /\ (\A d \in Caller : ~Reads(d, q))
    BY <1>1, <1>5 DEF PInv, Pipes, Reads
  <2>2. CASE q # p
    <3>1. UNCHANGED <<stdin[q], stdout[q]>> /\ \A d \in Caller : ~Reads(d, q)'
      BY <1>1, <1>5, <2>2 DEF PInv, Host!TypeOK, Reads
    <3> QED BY <1>1, <2>1, <3>1 DEF PipesOK
  <2>3. CASE q = p
    <3>1. /\ p \notin dropped => stdin'[p] = <<l>> /\ stdout'[p] = <<>>
          /\ \A d \in Caller : Reads(d, p)' <=> d = c
          /\ id'[c] = id[c] /\ process'[p] = "up"
      BY <1>1, <1>2, <1>5, <2>1, <2>3 DEF PInv, Host!TypeOK, Reads, PipesOK
    <3> QED BY <1>1, <2>3, <3>1 DEF PipesOK
  <2> QED BY <2>2, <2>3
<1> QED BY <1>3, <1>4, <1>6 DEF PInv, Pipes

LEMMA ReadStep ==
  ASSUME Host!PluginAssumption, PInv, NEW c \in Caller, Host!Read(c)
  PROVE PInv'
<1> DEFINE p == plugin[c]
           h == Head(stdout[p])
<1>1. /\ p \in Plugin /\ h_pc[c] = "reading" /\ stdout[p] # <<>>
      /\ h_pc' = [h_pc EXCEPT ![c] = "idle"]
      /\ plugin' = [plugin EXCEPT ![c] = None]
      /\ outcome' = [outcome EXCEPT ![c] =
                       [kind |-> Host!Verdict(c, h), answers |-> h.id]]
      /\ lock' = {} /\ stdout' = [stdout EXCEPT ![p] = Tail(@)]
      /\ UNCHANGED <<manifests, process, own, orphaned, next_id, stdin, id,
                     dropped>>
  BY DEF PInv, AtWork, Host!Read, Host!Return, Host!Release
<1>2. h \in Host!Line /\ Tail(stdout[p]) \in Seq(Host!Line)
  BY <1>1 DEF PInv, Host!TypeOK
<1>3. /\ h.id \in 0..MaxId /\ Host!Verdict(c, h) \in Host!Outcomes
      /\ Host!Verdict(c, h) = "Ok" => h.id = id[c]
  BY <1>2 DEF Host!Line, Host!Verdict, Host!Outcomes
<1>4. Host!TypeOK'
  <2> HIDE DEF h
  <2> QED BY <1>1, <1>2, <1>3 DEF PInv, Host!TypeOK
<1>5. \A d \in Caller : /\ d # c => h_pc[d] \notin {"writing", "reading"}
                        /\ h_pc'[d] \notin {"writing", "reading"}
                        /\ h_pc'[d] # "idle" => (h_pc'[d] = h_pc[d] /\ d # c)
  <2>1. \A d \in Caller : d # c => h_pc[d] \notin {"writing", "reading"}
    BY <1>1 DEF PInv, Mutex
  <2> QED BY <1>1, <2>1 DEF PInv, Host!TypeOK
<1>6. Mutex' /\ AtWork' /\ Host!NoOrphans'
  BY <1>1, <1>5 DEF PInv, Host!TypeOK, Mutex, AtWork, Host!NoOrphans
<1>7. Host!OwnAnswer'
  <2>1. outcome'[c].kind = "Ok" => outcome'[c].answers = id'[c]
    <3> HIDE DEF h
    <3> QED BY <1>1, <1>3 DEF PInv, Host!TypeOK
  <2>2. \A d \in Caller \ {c} : outcome'[d] = outcome[d] /\ id'[d] = id[d]
    BY <1>1 DEF PInv, Host!TypeOK
  <2> QED BY <2>1, <2>2 DEF PInv, Host!OwnAnswer
<1>8. ASSUME NEW q \in Plugin PROVE PipesOK(q)'
  <2>1. PipesOK(q) /\ \A d \in Caller : ~Reads(d, q)'
    BY <1>5 DEF PInv, Pipes, Reads
  <2>2. CASE q # p
    <3>1. /\ stdin'[q] = stdin[q] /\ stdout'[q] = stdout[q]
          /\ \A d \in Caller : ~Reads(d, q)
      BY <1>1, <1>5, <2>2 DEF PInv, Host!TypeOK, Reads
    <3> QED BY <1>1, <2>1, <3>1 DEF PipesOK
  <2>3. CASE q = p
    <3>1. p \notin dropped => stdin[p] = <<>> /\ Tail(stdout[p]) = <<>>
      <4> DEFINE l == [id |-> id[c], whole |-> TRUE]
      <4>1. p \notin dropped => stdin[p] = <<>> /\ stdout[p] = <<l>>
        BY <1>1, <2>1, <2>3 DEF PipesOK, Reads
      <4>2. Tail(<<l>>) = <<>>
        <5> HIDE DEF l
        <5> QED OBVIOUS
      <4> QED BY <4>1, <4>2
    <3>2. stdin'[p] = stdin[p] /\ stdout'[p] = Tail(stdout[p])
      BY <1>1 DEF PInv, Host!TypeOK
    <3> QED BY <1>1, <2>1, <2>3, <3>1, <3>2 DEF PipesOK
  <2> QED BY <2>2, <2>3
<1> QED BY <1>4, <1>6, <1>7, <1>8 DEF PInv, Pipes

LEMMA ReadEofStep ==
  ASSUME Host!PluginAssumption, PInv, NEW c \in Caller, Host!ReadEof(c)
  PROVE PInv'
  BY RefusedStep DEF Host!ReadEof, Host!Outcomes, Host!pipes

LEMMA WriteFailsStep ==
  ASSUME Host!PluginAssumption, PInv, NEW c \in Caller, Host!WriteFails(c)
  PROVE PInv'
  BY RefusedStep DEF Host!WriteFails, Host!Outcomes, Host!pipes

(* A dropped call may leave half a line behind, and is remembered. *)
LEMMA DroppedStep ==
  ASSUME Host!PluginAssumption, PInv, NEW c \in Caller, Host!Dropped(c)
  PROVE PInv'
<1> DEFINE p == plugin[c]
<1>1. /\ p \in Plugin /\ h_pc[c] \in {"locking", "writing", "reading"}
      /\ h_pc' = [h_pc EXCEPT ![c] = "idle"]
      /\ plugin' = [plugin EXCEPT ![c] = None]
      /\ UNCHANGED <<manifests, process, own, orphaned, next_id, id, outcome>>
  BY DEF PInv, AtWork, Host!Dropped
<1>2. \/ h_pc[c] \in {"writing", "reading"} /\ lock = {c} /\ lock' = {}
         /\ dropped' = dropped \cup {p}
      \/ h_pc[c] = "locking" /\ lock' = lock /\ dropped' = dropped
         /\ UNCHANGED <<stdin, stdout>>
  BY <1>1 DEF PInv, Mutex, Host!Dropped, Host!Holds, Host!Release, Host!pipes
<1>3. /\ stdin' \in [Plugin -> Seq(Host!Line)] /\ stdout' \in [Plugin -> Seq(Host!Line)]
      /\ \A q \in Plugin \ {p} : stdin'[q] = stdin[q] /\ stdout'[q] = stdout[q]
      /\ process[p] # "up" => stdin'[p] = stdin[p]
  <2>1. CASE UNCHANGED Host!pipes
    BY <2>1 DEF PInv, Host!TypeOK, Host!pipes
  <2>2. CASE /\ h_pc[c] = "writing" /\ process[p] = "up"
             /\ stdin' = [stdin EXCEPT ![p] = Host!Written(@, id[c], FALSE)]
             /\ UNCHANGED stdout
    <3>1. Host!Written(stdin[p], id[c], FALSE) \in Seq(Host!Line)
      BY <1>1, WrittenIsLines DEF PInv, Host!TypeOK
    <3> QED BY <2>2, <3>1, <1>1 DEF PInv, Host!TypeOK
  <2>3. CASE /\ h_pc[c] = "reading" /\ stdout[p] # <<>>
             /\ stdout' = [stdout EXCEPT ![p][1].whole = FALSE]
             /\ UNCHANGED stdin
    <3> DEFINE h == [stdout[p][1] EXCEPT !.whole = FALSE]
    <3>1. stdout[p] \in Seq(Host!Line) /\ 1 \in 1..Len(stdout[p])
      BY <1>1, <2>3 DEF PInv, Host!TypeOK
    <3>2. h \in Host!Line
      <4>1. stdout[p][1] \in Host!Line
        BY <3>1
      <4>2. \A x \in Host!Line : [x EXCEPT !.whole = FALSE] \in Host!Line
        BY DEF Host!Line
      <4> QED BY <4>1, <4>2
    <3>3. stdout' = [stdout EXCEPT ![p] = [@ EXCEPT ![1] = h]]
      BY <2>3, <1>1, <3>1 DEF PInv, Host!TypeOK
    <3> HIDE DEF h
    <3>4. [stdout[p] EXCEPT ![1] = h] \in Seq(Host!Line)
      BY <3>1, <3>2
    <3> QED BY <2>3, <3>3, <3>4, <1>1 DEF PInv, Host!TypeOK
  <2> QED BY <2>1, <2>2, <2>3 DEF Host!Dropped
<1>4. Host!TypeOK'
  BY <1>1, <1>2, <1>3 DEF PInv, Host!TypeOK
<1>5. Mutex' /\ AtWork' /\ Host!OwnAnswer' /\ Host!NoOrphans'
  <2>1. \A d \in Caller : /\ h_pc'[d] # "idle" => h_pc'[d] = h_pc[d] /\ d # c
                          /\ d # c => h_pc'[d] = h_pc[d] /\ plugin'[d] = plugin[d]
                          /\ h_pc'[c] = "idle"
    BY <1>1 DEF PInv, Host!TypeOK
  <2>2. Mutex'
    BY <1>1, <1>2, <2>1 DEF PInv, Mutex
  <2>3. AtWork'
    BY <1>1, <2>1 DEF PInv, AtWork
  <2>4. Host!OwnAnswer' /\ Host!NoOrphans'
    BY <1>1 DEF PInv, Host!OwnAnswer, Host!NoOrphans
  <2> QED BY <2>2, <2>3, <2>4
<1>6. ASSUME NEW q \in Plugin PROVE PipesOK(q)'
  <2>1. PipesOK(q)
    BY DEF PInv, Pipes
  <2>2. \A d \in Caller : Reads(d, q)' => (d # c /\ Reads(d, q))
    BY <1>1 DEF PInv, Host!TypeOK, Reads
  <2>3. CASE h_pc[c] = "locking"
    <3>1. \A d \in Caller : Reads(d, q) <=> Reads(d, q)'
      BY <1>1, <2>3 DEF PInv, Host!TypeOK, Reads
    <3> QED BY <1>1, <1>2, <2>1, <2>3, <3>1 DEF PipesOK
  <2>4. CASE h_pc[c] # "locking" /\ q = p
    BY <1>1, <1>2, <1>3, <2>1, <2>4 DEF PipesOK
  <2>5. CASE h_pc[c] # "locking" /\ q # p
    <3>1. \A d \in Caller : ~Reads(d, q) /\ ~Reads(d, q)'
      BY <1>1, <1>2, <2>2, <2>5 DEF PInv, Mutex, Reads
    <3> QED BY <1>1, <1>2, <1>3, <2>1, <2>5, <3>1 DEF PipesOK
  <2> QED BY <2>3, <2>4, <2>5
<1> QED BY <1>4, <1>5, <1>6 DEF PInv, Pipes

LEMMA PluginAnswersStep ==
  ASSUME Host!PluginAssumption, PInv, NEW p \in Plugin, Host!PluginAnswers(p)
  PROVE  PInv'
<1>1. /\ process[p] = "up" /\ stdin[p] # <<>>
      /\ stdin' = [stdin EXCEPT ![p] = Tail(@)]
      /\ stdout' = [stdout EXCEPT ![p] = Append(@, Head(stdin[p]))]
      /\ UNCHANGED <<manifests, process, own, orphaned, next_id, lock, h_pc,
                     plugin, id, outcome, dropped>>
  BY DEF Host!PluginAnswers
<1>2. /\ Tail(stdin[p]) \in Seq(Host!Line) /\ Head(stdin[p]) \in Host!Line
      /\ stdin[p] \in Seq(Host!Line) /\ stdout[p] \in Seq(Host!Line)
  BY <1>1 DEF PInv, Host!TypeOK
<1>3. Append(stdout[p], Head(stdin[p])) \in Seq(Host!Line)
  <2> DEFINE h == Head(stdin[p])
             s == stdout[p]
  <2>1. h \in Host!Line /\ s \in Seq(Host!Line)
    BY <1>2
  <2> HIDE DEF h, s
  <2>2. Append(s, h) \in Seq(Host!Line)
    BY <2>1
  <2> QED BY <2>2 DEF h, s
<1>4. Host!TypeOK'
  BY <1>1, <1>2, <1>3 DEF PInv, Host!TypeOK
<1>5. Mutex' /\ AtWork' /\ Host!OwnAnswer' /\ Host!NoOrphans'
  BY <1>1 DEF PInv, Mutex, AtWork, Host!OwnAnswer, Host!NoOrphans
<1>6. ASSUME NEW q \in Plugin PROVE PipesOK(q)'
  <2>1. PipesOK(q) /\ (\A d \in Caller : Reads(d, q)' <=> Reads(d, q))
    BY <1>1 DEF PInv, Pipes, Reads
  <2>2. CASE q # p
    <3>1. stdin'[q] = stdin[q] /\ stdout'[q] = stdout[q]
      BY <1>1, <2>2 DEF PInv, Host!TypeOK
    <3> QED BY <1>1, <2>1, <3>1 DEF PipesOK
  <2>3. CASE q = p /\ p \in dropped
    BY <1>1, <2>3 DEF PipesOK
  <2>4. CASE q = p /\ p \notin dropped
    <3>1. PICK c \in Caller : Reads(c, p)
      BY <1>1, <2>1, <2>4 DEF PipesOK
    <3> DEFINE l == [id |-> id[c], whole |-> TRUE]
    <3>2. stdin[p] = <<l>> /\ stdout[p] = <<>>
      BY <1>1, <2>1, <2>4, <3>1 DEF PipesOK
    <3>3. stdin'[p] = Tail(<<l>>) /\ stdout'[p] = Append(<<>>, Head(<<l>>))
      BY <1>1, <3>2 DEF PInv, Host!TypeOK
    <3>4. Tail(<<l>>) = <<>> /\ Append(<<>>, Head(<<l>>)) = <<l>>
      <4> HIDE DEF l
      <4> QED OBVIOUS
    <3>5. \A d \in Caller : Reads(d, p) => d = c
      BY <3>1 DEF PInv, Mutex, Reads
    <3> QED BY <1>1, <2>1, <2>4, <3>1, <3>3, <3>4, <3>5 DEF PipesOK
  <2> QED BY <2>2, <2>3, <2>4
<1> QED BY <1>4, <1>5, <1>6 DEF PInv, Pipes

LEMMA PluginExitsStep ==
  ASSUME Host!PluginAssumption, PInv, NEW p \in Plugin, Host!PluginExits(p)
  PROVE PInv'
<1>1. /\ process' = [process EXCEPT ![p] = "exited"]
      /\ stdin' = [stdin EXCEPT ![p] = <<>>]
      /\ UNCHANGED <<manifests, own, orphaned, next_id, stdout, lock, h_pc,
                     plugin, id, outcome, dropped>>
  BY DEF Host!PluginExits
<1>2. Host!TypeOK'
  BY <1>1, EmptySeq DEF PInv, Host!TypeOK
<1>3. Mutex' /\ AtWork' /\ Host!OwnAnswer' /\ Host!NoOrphans'
  BY <1>1 DEF PInv, Mutex, AtWork, Host!OwnAnswer, Host!NoOrphans
<1>4. Pipes'
  BY <1>1 DEF PInv, Host!TypeOK, Pipes, PipesOK, Reads
<1> QED BY <1>2, <1>3, <1>4 DEF PInv

LEMMA HostStep == ASSUME Host!PluginAssumption, PInv, [Host!Next]_(Host!vars)
  PROVE PInv'
<1>1. CASE \E c \in Caller : \E p \in Plugin : Host!spawn(c, p) \/ Host!Call(c, p)
  <2>1. PICK c \in Caller, p \in Plugin : Host!spawn(c, p) \/ Host!Call(c, p)
    BY <1>1
  <2>2. own' \in [Caller -> {"none", "up", "exited"}]
        /\ (Host!Task(c, p, "owner") \/ Host!Task(c, p, "locking"))
    BY <2>1 DEF Host!spawn, Host!Call, PInv, Host!TypeOK
  <2> QED BY <2>2, TaskStep
<1>2. CASE \E c \in Caller : Host!Lock(c) \/ Host!Proceed(c) \/ Host!Dropped(c)
  BY <1>2, LockStep, WriteStep, WriteFailsStep, ReadStep, ReadEofStep,
     DroppedStep DEF Host!Proceed
<1>3. CASE \E c \in Caller :
             \/ Host!install(c) \/ Host!shutdown(c) \/ Host!ShutdownReturns(c)
             \/ Host!ShutdownKills(c) \/ Host!OwnerDropped(c) \/ Host!OwnExits(c)
  BY <1>3, InstallStep, OwnerStep
<1>4. CASE \E p \in Plugin : Host!PluginAnswers(p) \/ Host!PluginExits(p)
  BY <1>4, PluginAnswersStep, PluginExitsStep
<1>5. CASE UNCHANGED Host!vars
  <2>1. UNCHANGED <<manifests, process, h_pc, plugin, own, next_id, stdin, stdout,
                    lock, id, outcome, dropped, orphaned>>
    BY <1>5 DEF Host!vars, Host!calls, Host!pipes
  <2> QED BY <2>1 DEF PInv, Host!TypeOK, Mutex, AtWork, Host!OwnAnswer,
                      Host!NoOrphans, Pipes,
                      PipesOK, Reads
<1> QED BY <1>1, <1>2, <1>3, <1>4, <1>5 DEF Host!Next

(* The types, the mutex and the pipes of the plugin host, for any plugins, *)
(* handlers and bounds.                                                    *)
THEOREM HostInvariant == ASSUME Host!PluginAssumption PROVE Host!Spec => []PInv
  BY HostInit, HostStep, PTL DEF Host!Spec

(* However calls are dropped and plugins die: no call returns the answer   *)
(* to another, one that was not disturbed is never refused, and no process *)
(* outlives its host (HostSound).                                          *)
THEOREM CallsStayPaired == ASSUME Host!PluginAssumption PROVE Host!Spec => []HostSound
<1>1. PInv => HostSound
  <2>1. SUFFICES ASSUME PInv, NEW p \in Plugin \ dropped
        PROVE
        /\ (lock = {} /\ process[p] = "up") => stdin[p] = <<>> /\ stdout[p] = <<>>
        /\ \A c \in Caller :
             (h_pc[c] = "reading" /\ plugin[c] = p /\ stdout[p] # <<>>) =>
               Host!Verdict(c, Head(stdout[p])) = "Ok"
    BY DEF HostSound, Host!HostSound, Host!InStep, PInv
  <2>2. PipesOK(p)
    BY <2>1 DEF PInv, Pipes
  <2>3. lock = {} => stdin[p] = <<>> /\ stdout[p] = <<>>
    BY <2>1, <2>2 DEF PInv, Mutex, PipesOK, Reads
  <2>4. ASSUME NEW c \in Caller, h_pc[c] = "reading", plugin[c] = p,
               stdout[p] # <<>>
        PROVE  Host!Verdict(c, Head(stdout[p])) = "Ok"
    <3> DEFINE l == [id |-> id[c], whole |-> TRUE]
    <3>1. stdout[p] = <<l>>
      BY <2>1, <2>2, <2>4 DEF PipesOK, Reads
    <3>2. Head(<<l>>) = l
      <4> HIDE DEF l
      <4> QED OBVIOUS
    <3>3. Host!Verdict(c, l) = "Ok"
      BY DEF Host!Verdict
    <3> QED BY <3>1, <3>2, <3>3
  <2> QED BY <2>3, <2>4
<1> QED BY <1>1, HostInvariant, PTL
=============================================================================
