-------------------------- MODULE ServiceRegistry --------------------------
(***************************************************************************)
(* cluster_demo/src/discovery.rs: registrations of one service in etcd.    *)
(* `register` takes a lease, puts the key of the address under that lease  *)
(* and starts a heartbeat task; the handle it returns is deregistered,     *)
(* dropped, or dies with its process.  etcd deletes a key with the lease   *)
(* it is attached to, and a watcher is told of every put and delete.       *)
(* Times are kept as timers that a common clock moves, in seconds.         *)
(***************************************************************************)
EXTENDS Integers

CONSTANTS
  Reg,        \* calls of register, each by a process of its own
  Addr,
  AddrOf,     \* the address each call registers
  TTL,        \* ttl_secs
  MaxDelay,   \* longest round trip to etcd, and longest call of register
  MaxBacklog  \* bound: ticks that a slow round trip can leave overdue

ASSUME RegistryAssumption ==
  /\ AddrOf \in [Reg -> Addr]
  /\ TTL \in Nat \ {0} /\ MaxDelay \in Nat /\ MaxBacklog \in Nat

VARIABLES
  lease,      \* etcd: {} or {time left to the lease of a registration}
  key,        \* etcd: {} or {the registration whose lease the key is under}
  watch,      \* {} or {a watch: the addresses known when it began, those
              \* it was told of since, and those it takes to be up}
  pc,         \* where a registration stands
  task,       \* its heartbeat task: "none", "ticking", "waiting", "ended"
  due,        \* time to the next tick of the task's interval, below 0: late
  request,    \* its keep-alive request: "none", "sent", or answered
  age,        \* time age register was called, or the request sent
  stop,       \* the stop signal was sent
  newest      \* history: the last registration put under an address

etcd == <<lease, key, watch>>
beat == <<task, due, request, stop>>
vars == <<etcd, pc, beat, age, newest>>

(* `ttl_secs / 3`, but one second at least. *)
heartbeat == IF TTL \div 3 >= 1 THEN TTL \div 3 ELSE 1

TypeOK ==
  /\ lease \in [Reg -> SUBSET (0..TTL)]
  /\ key \in [Addr -> SUBSET Reg]
  /\ watch \subseteq
       [known : SUBSET Addr, told : SUBSET Addr, view : SUBSET Addr]
  /\ pc \in [Reg -> {"new", "granted", "put", "held", "stopping", "gone"}]
  /\ task \in [Reg -> {"none", "ticking", "waiting", "ended"}]
  /\ due \in [Reg -> -MaxBacklog..heartbeat]
  /\ age \in [Reg -> 0..MaxDelay]
  /\ request \in [Reg -> {"none", "sent", "renewed", "expired"}]
  /\ stop \in [Reg -> BOOLEAN]
  /\ newest \in [Addr -> SUBSET Reg]

Init ==
  /\ lease = [r \in Reg |-> {}]
  /\ key = [a \in Addr |-> {}]
  /\ watch = {}
  /\ pc = [r \in Reg |-> "new"]
  /\ task = [r \in Reg |-> "none"]
  /\ due = [r \in Reg |-> 0]
  /\ request = [r \in Reg |-> "none"]
  /\ age = [r \in Reg |-> 0]
  /\ stop = [r \in Reg |-> FALSE]
  /\ newest = [a \in Addr |-> {}]

Goto(r, l) == pc' = [pc EXCEPT ![r] = l]
Task(r, l) == task' = [task EXCEPT ![r] = l]

(* The task of a watch handles what is pushed to it in order, with         *)
(* on_event(Up) and on_event(Down).                                        *)
WatchEvent(view, type, a) ==
  IF type = "Put" THEN view \cup {a} ELSE view \ {a}

(* etcd tells a watch of what changes after the revision it began at.      *)
(* Nothing waits for its task: all that matters of its delay is what it    *)
(* believes when it has caught up.                                         *)
Emit(type, a) ==
  watch' = {[w EXCEPT !.told = @ \cup {a}, !.view = WatchEvent(@, type, a)] :
              w \in watch}

discover == {a \in Addr : key[a] # {}}

(* etcd drops the lease of r, and the key if it is under that lease. *)
LeaseGone(r) ==
  LET a == AddrOf[r] IN
    /\ lease' = [lease EXCEPT ![r] = {}]
    /\ IF key[a] = {r}
         THEN key' = [key EXCEPT ![a] = {}] /\ Emit("Delete", a)
         ELSE UNCHANGED <<key, watch>>

-----------------------------------------------------------------------------
(* register, step 1: lease_grant; the lease starts to run. *)
LeaseGrant(r) ==
  /\ pc[r] = "new"
  /\ lease' = [lease EXCEPT ![r] = {TTL}]
  /\ age' = [age EXCEPT ![r] = 0]
  /\ Goto(r, "granted")
  /\ UNCHANGED <<key, watch, beat, newest>>

(* Step 2: the key is put under the lease, replacing the key and the lease *)
(* of an earlier registration of the address.                              *)
Put(r) ==
  /\ pc[r] = "granted"
  /\ lease[r] # {}
  /\ key' = [key EXCEPT ![AddrOf[r]] = {r}]
  /\ newest' = [newest EXCEPT ![AddrOf[r]] = {r}]
  /\ Emit("Put", AddrOf[r])
  /\ Goto(r, "put")
  /\ UNCHANGED <<lease, beat, age>>

(* Step 3: the keep-alive stream is open, the heartbeat task is spawned;   *)
(* the first tick of its interval is due at once.                          *)
SpawnHeartbeat(r) ==
  /\ pc[r] = "put"
  /\ Goto(r, "held")
  /\ Task(r, "ticking")
  /\ UNCHANGED <<etcd, due, request, age, stop, newest>>

(* A step of register fails (put: also because the lease has run out), or  *)
(* its process dies: nobody revokes the lease.                             *)
RegisterFails(r) ==
  /\ pc[r] \in {"granted", "put"}
  /\ Goto(r, "gone")
  /\ UNCHANGED <<etcd, beat, age, newest>>

-----------------------------------------------------------------------------
(* The tick branch of select!: a keep-alive request is sent. *)
KeepAlive(r) ==
  /\ task[r] = "ticking"
  /\ due[r] <= 0
  /\ Task(r, "waiting")
  /\ request' = [request EXCEPT ![r] = "sent"]
  /\ due' = [due EXCEPT ![r] = @ + heartbeat]
  /\ age' = [age EXCEPT ![r] = 0]
  /\ UNCHANGED <<etcd, pc, stop, newest>>

(* etcd handles the request: it extends a lease that has not run out, and  *)
(* answers TTL 0 for a lease it does not know.                             *)
EtcdAnswers(r) ==
  /\ request[r] = "sent"
  /\ lease' = [lease EXCEPT ![r] = IF @ = {} THEN {} ELSE {TTL}]
  /\ request' = [request EXCEPT ![r] =
       CASE task[r] # "waiting" -> "none"
         [] task[r] = "waiting" /\ lease[r] # {} -> "renewed"
         [] OTHER -> "expired"]
  /\ UNCHANGED <<key, watch, pc, task, due, age, stop, newest>>

(* The request of a task that is gone is lost with its connection. *)
RequestLost(r) ==
  /\ request[r] # "none"
  /\ task[r] = "ended"
  /\ request' = [request EXCEPT ![r] = "none"]
  /\ UNCHANGED <<etcd, pc, task, due, age, stop, newest>>

(* `Ok(Some(_))`: any answer counts as success. *)
Answered(r) ==
  /\ task[r] = "waiting"
  /\ request[r] \in {"renewed", "expired"}
  /\ Task(r, "ticking")
  /\ request' = [request EXCEPT ![r] = "none"]
  /\ UNCHANGED <<etcd, pc, due, age, stop, newest>>

(* Sending fails or the stream ends: the task gives up. *)
HeartbeatFails(r) ==
  /\ task[r] = "waiting"
  /\ Task(r, "ended")
  /\ UNCHANGED <<etcd, pc, due, request, age, stop, newest>>

(* The stop branch of select!. *)
StopSeen(r) ==
  /\ task[r] = "ticking"
  /\ stop[r]
  /\ Task(r, "ended")
  /\ UNCHANGED <<etcd, pc, due, request, age, stop,
                 newest>>

-----------------------------------------------------------------------------
Leave(r, l) == pc[r] = "held" /\ Goto(r, l)

(* Mutant of Deregister: the task is awaited without being told to stop. *)
DeregisterSilently(r) ==
  /\ Leave(r, "stopping")
  /\ UNCHANGED <<etcd, beat, age, newest>>

(* deregister: send the stop signal and await the task .. *)
Deregister(r) ==
  /\ Leave(r, "stopping")
  /\ stop' = [stop EXCEPT ![r] = TRUE]
  /\ UNCHANGED <<etcd, task, due, request, age, newest>>

(* Mutant of LeaseRevoke: the key is deleted, whoever it belongs to. *)
DeleteKey(r) ==
  /\ pc[r] = "stopping"
  /\ task[r] = "ended"
  /\ Goto(r, "gone")
  /\ key' = [key EXCEPT ![AddrOf[r]] = {}]
  /\ Emit("Delete", AddrOf[r])
  /\ UNCHANGED <<lease, beat, age, newest>>

(* .. then revoke the lease; on an error it is left to run out. *)
LeaseRevoke(r) ==
  /\ pc[r] = "stopping"
  /\ task[r] = "ended"
  /\ Goto(r, "gone")
  /\ LeaseGone(r) \/ UNCHANGED etcd
  /\ UNCHANGED <<beat, age, newest>>

(* Mutant of Drop: Registration without its Drop. *)
DropSilently(r) ==
  /\ Leave(r, "gone")
  /\ UNCHANGED <<etcd, beat, age, newest>>

(* The handle is dropped: only the task is told. *)
Drop(r) ==
  /\ Leave(r, "gone")
  /\ stop' = [stop EXCEPT ![r] = TRUE]
  /\ UNCHANGED <<etcd, task, due, request, age, newest>>

(* The process dies with its task; a request under way may still arrive. *)
Crash(r) ==
  /\ Leave(r, "gone")
  /\ Task(r, "ended")
  /\ UNCHANGED <<etcd, due, request, age, stop, newest>>

-----------------------------------------------------------------------------
LeaseRunsOut(r) ==
  /\ lease[r] = {0}
  /\ LeaseGone(r)
  /\ UNCHANGED <<pc, beat, age, newest>>

(* watch_service: the watch begins at the present revision. *)
watch_service ==
  /\ watch = {}
  /\ watch' = {[known |-> discover, told |-> {}, view |-> {}]}
  /\ UNCHANGED <<lease, key, pc, beat, age, newest>>

Later(t) == IF t > -MaxBacklog THEN t - 1 ELSE t

(* Time passes.  Leases are dropped and ticks are served on time; a round  *)
(* trip and a call of register take MaxDelay at most.                      *)
Clock ==
  /\ \A r \in Reg :
       /\ lease[r] # {0}
       /\ task[r] = "ticking" => due[r] > 0
       /\ (pc[r] \in {"granted", "put"} \/ request[r] # "none") =>
            age[r] < MaxDelay
  /\ lease' = [r \in Reg |-> {t - 1 : t \in lease[r]}]
  /\ due' = [r \in Reg |->
       IF task[r] \in {"ticking", "waiting"} THEN Later(due[r]) ELSE due[r]]
  /\ age' = [r \in Reg |-> IF age[r] < MaxDelay THEN age[r] + 1 ELSE age[r]]
  /\ UNCHANGED <<key, watch, pc, task, request, stop, newest>>

Register(r) ==
  LeaseGrant(r) \/ Put(r) \/ SpawnHeartbeat(r) \/ RegisterFails(r)

Heartbeat(r) == KeepAlive(r) \/ Answered(r) \/ HeartbeatFails(r) \/ StopSeen(r)

Next ==
  \/ \E r \in Reg :
       \/ Register(r) \/ Heartbeat(r) \/ EtcdAnswers(r) \/ RequestLost(r)
       \/ Deregister(r) \/ LeaseRevoke(r) \/ Drop(r) \/ Crash(r)
       \/ LeaseRunsOut(r)
  \/ watch_service
  \/ Clock

Spec == Init /\ [][Next]_vars

(* Time goes on; the runtime polls register, deregister and the task, and  *)
(* the select! of the task picks at random; etcd answers and drops what    *)
(* has run out.                                                            *)
Fairness ==
  /\ WF_vars(Clock)
  /\ \A r \in Reg :
       /\ WF_vars(Put(r) \/ SpawnHeartbeat(r) \/ RegisterFails(r))
       /\ WF_vars(KeepAlive(r) \/ Answered(r)) /\ SF_vars(StopSeen(r))
       /\ WF_vars(EtcdAnswers(r)) /\ WF_vars(RequestLost(r))
       /\ WF_vars(LeaseRevoke(r)) /\ WF_vars(LeaseRunsOut(r))

FairSpec == Spec /\ Fairness

-----------------------------------------------------------------------------
Beating(r) == pc[r] = "held" /\ task[r] \in {"ticking", "waiting"}

(* The heartbeat is fast enough: when the round trip leaves room for it, a *)
(* registration that is held and beating is in the registry, unless a      *)
(* later one took its address; what an earlier registration of the same    *)
(* address does on its way out never removes it.                           *)
HeldIsListed ==
  (MaxDelay + (IF MaxDelay > heartbeat THEN MaxDelay ELSE heartbeat) < TTL) =>
    \A r \in Reg :
      (Beating(r) /\ newest[AddrOf[r]] = {r}) => key[AddrOf[r]] = {r}

(* "However it dies, the key disappears by itself": once the handle is     *)
(* deregistered or dropped, or the heartbeat has ended with its process or *)
(* its stream, nothing keeps the lease alive.                              *)
GoneIsDelisted ==
  \A r \in Reg :
    (pc[r] \in {"stopping", "gone"} \/ task[r] = "ended") ~> lease[r] = {}

(* A consumer that begins to watch and lists afterwards, at whatever time  *)
(* of the cluster, misses nothing: what it was told of is as discover      *)
(* finds it, and what it was not told of is as it was when the watch began.*)
WatchAgrees ==
  \A w \in watch : discover = w.view \cup (w.known \ w.told)

(* deregister returns: the task notices the signal, wherever it is. *)
DeregisterReturns == \A r \in Reg : pc[r] = "stopping" ~> pc[r] = "gone"

(* "As long as the instance is alive it renews, and the key stays": what   *)
(* keeps beating is in the registry, or gets back into it.                 *)
AliveIsListed ==
  \A r \in Reg : Beating(r) ~> (~Beating(r) \/ AddrOf[r] \in discover)

(* Both ways of asking tell the truth: discover finds what beats, and a    *)
(* watcher, early or late, knows what discover finds.                      *)
ListingTrue == HeldIsListed /\ WatchAgrees
=============================================================================
