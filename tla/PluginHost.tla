----------------------------- MODULE PluginHost -----------------------------
(***************************************************************************)
(* plugin_demo: the registry of plugins (routes.rs) and the JSON-RPC calls *)
(* over the stdin and stdout of their processes (plugin.rs).  One mutex    *)
(* guards the registry and is held during a whole call.  A handler whose   *)
(* client goes away is dropped wherever it awaits: while it waits for the  *)
(* mutex, in the middle of a write, or in the middle of a read_line, whose *)
(* half-read line is lost.  A host that is not in the registry belongs to  *)
(* the task that spawned it: an install under way, or main, which shuts    *)
(* its own down.                                                           *)
(***************************************************************************)
EXTENDS Naturals, Sequences

CONSTANTS
  Caller,
  Plugin,      \* manifests: [name, capabilities], one of a name
  granted,     \* the capabilities that the host grants
  MaxId,       \* bound: calls of one plugin process
  MaxInstalls, \* bound: installations of one plugin
  None         \* no plugin

PluginAssumption ==
  /\ \A p, q \in Plugin : p.name = q.name => p = q
  /\ MaxId \in Nat /\ MaxInstalls \in Nat

VARIABLES
  manifests,  \* how many manifests of a plugin are listed
  process,    \* the process behind its host: "none", "up" or "exited"
  next_id,
  stdin,      \* request lines; the last one may be cut short
  stdout,     \* response lines; the first may have lost its beginning
  lock,       \* {} or {the handler that holds the mutex}
  pc,         \* where a handler stands, or the task that owns a host
  plugin,     \* the plugin it calls or installs
  own,        \* the process of the host it owns: "none", "up" or "exited"
  id,         \* the id of its request
  outcome,    \* what the last call of a handler returned
  dropped,    \* history: plugins one of whose calls was dropped
  orphaned    \* a process runs that no host has in hand

pipes == <<stdin, stdout>>
calls == <<next_id, pipes, lock, id, outcome, dropped>>
vars == <<manifests, process, pc, plugin, own, calls, orphaned>>

(* A line carries the id of its request; 0 is what a plugin answers to a   *)
(* line that is no JSON.                                                   *)
Line == [id : 0..MaxId, whole : BOOLEAN]
Outcomes == {"none", "Ok", "Io", "Closed", "Codec", "Protocol"}

TypeOK ==
  /\ manifests \in [Plugin -> 0..MaxInstalls]
  /\ process \in [Plugin -> {"none", "up", "exited"}]
  /\ next_id \in [Plugin -> 1..(MaxId + 1)]
  /\ stdin \in [Plugin -> Seq(Line)] /\ stdout \in [Plugin -> Seq(Line)]
  /\ lock \in SUBSET Caller
  /\ pc \in [Caller -> {"idle", "locking", "writing", "reading", "owner",
                       "stopping"}]
  /\ own \in [Caller -> {"none", "up", "exited"}]
  /\ plugin \in [Caller -> Plugin \cup {None}]
  /\ id \in [Caller -> 0..MaxId]
  /\ outcome \in [Caller -> [kind : Outcomes, answers : 0..MaxId]]
  /\ dropped \subseteq Plugin /\ orphaned \in BOOLEAN

Init ==
  /\ manifests = [p \in Plugin |-> 0]
  /\ process = [p \in Plugin |-> "none"]
  /\ next_id = [p \in Plugin |-> 1]
  /\ stdin = [p \in Plugin |-> <<>>]
  /\ stdout = [p \in Plugin |-> <<>>]
  /\ lock = {}
  /\ pc = [c \in Caller |-> "idle"]
  /\ plugin = [c \in Caller |-> None]
  /\ id = [c \in Caller |-> 0]
  /\ outcome = [c \in Caller |-> [kind |-> "none", answers |-> 0]]
  /\ own = [c \in Caller |-> "none"]
  /\ dropped = {} /\ orphaned = FALSE

Holds(c) == lock = {c}
Release == lock' = {}

-----------------------------------------------------------------------------
KNOWN_CAPABILITIES == {"read_text", "transform_text", "net", "fs_read"}

(* What a manifest asks for must be known and granted. *)
authorize(p) == p.capabilities \subseteq KNOWN_CAPABILITIES \cap granted

(* A new task: a request of the plugin routes, or main. *)
Task(c, p, at) ==
  /\ pc[c] = "idle"
  /\ pc' = [pc EXCEPT ![c] = at]
  /\ plugin' = [plugin EXCEPT ![c] = p]
  /\ id' = [id EXCEPT ![c] = 0]
  /\ outcome' = [outcome EXCEPT ![c] = [kind |-> "none", answers |-> 0]]
  /\ UNCHANGED <<manifests, process, next_id, pipes, lock, dropped, orphaned>>

(* PluginHost::spawn, after authorize: the new host is the caller's. *)
spawn(c, p) ==
  /\ authorize(p)
  /\ Task(c, p, "owner")
  /\ own' = [own EXCEPT ![c] = "up"]

kill_on_drop_unset == FALSE  \* mutant: the default of Command
kill_on_drop == TRUE

(* A Child is dropped; a process that runs is killed then. *)
DropChild(state) ==
  orphaned' = (orphaned \/ (state = "up" /\ ~kill_on_drop))

(* The owner gives its host away. *)
Leave(c) ==
  /\ pc' = [pc EXCEPT ![c] = "idle"]
  /\ plugin' = [plugin EXCEPT ![c] = None]
  /\ own' = [own EXCEPT ![c] = "none"]

(* install, with the mutex: the host replaces the one of the same name,    *)
(* which is dropped, and one more manifest is listed.                      *)
install(c) ==
  LET p == plugin[c] IN
    /\ pc[c] = "owner"
    /\ manifests[p] < MaxInstalls
    /\ lock = {}
    /\ manifests' = [manifests EXCEPT ![p] = @ + 1]
    /\ DropChild(process[p])
    /\ process' = [process EXCEPT ![p] = own[c]]
    /\ next_id' = [next_id EXCEPT ![p] = 1]
    /\ stdin' = [stdin EXCEPT ![p] = <<>>]
    /\ stdout' = [stdout EXCEPT ![p] = <<>>]
    /\ dropped' = dropped \ {p}
    /\ Leave(c)
    /\ UNCHANGED <<lock, id, outcome>>

(* shutdown: the pipes are closed, and the process is waited for; one that *)
(* does not end on the end of its stdin is killed after two seconds.       *)
shutdown(c) ==
  /\ pc[c] = "owner"
  /\ pc' = [pc EXCEPT ![c] = "stopping"]
  /\ UNCHANGED <<manifests, process, plugin, own, calls, orphaned>>

ShutdownReturns(c) ==
  /\ pc[c] = "stopping" /\ own[c] = "exited"
  /\ Leave(c)
  /\ UNCHANGED <<manifests, process, calls, orphaned>>

ShutdownKills(c) ==
  /\ pc[c] = "stopping" /\ own[c] = "up"
  /\ Leave(c)
  /\ UNCHANGED <<manifests, process, calls, orphaned>>

(* The task that owns a host is dropped, and the host with it. *)
OwnerDropped(c) ==
  /\ pc[c] \in {"owner", "stopping"}
  /\ DropChild(own[c])
  /\ Leave(c)
  /\ UNCHANGED <<manifests, process, calls>>

(* call_plugin: wait for the mutex. *)
Call(c, p) == Task(c, p, "locking") /\ UNCHANGED own

Return(c, kind, answers) ==
  /\ pc' = [pc EXCEPT ![c] = "idle"]
  /\ plugin' = [plugin EXCEPT ![c] = None]
  /\ outcome' = [outcome EXCEPT ![c] = [kind |-> kind, answers |-> answers]]
  /\ Release

(* The mutex is taken; a plugin that is not installed is a Protocol error, *)
(* otherwise the call draws its id.                                        *)
Lock(c) ==
  LET p == plugin[c] IN
    /\ pc[c] = "locking"
    /\ lock = {}
    /\ \/ /\ process[p] = "none"
          /\ Return(c, "Protocol", 0)
          /\ UNCHANGED <<next_id, id>>
       \/ /\ process[p] # "none"
          /\ next_id[p] <= MaxId
          /\ lock' = {c}
          /\ pc' = [pc EXCEPT ![c] = "writing"]
          /\ id' = [id EXCEPT ![c] = next_id[p]]
          /\ next_id' = [next_id EXCEPT ![p] = @ + 1]
          /\ UNCHANGED <<plugin, outcome>>
    /\ UNCHANGED <<manifests, process, own, orphaned, pipes, dropped>>

(* s followed by a request, cut short or whole; behind a request that was  *)
(* cut short it makes one line that is no JSON.                            *)
Written(s, n, whole) ==
  IF s # <<>> /\ ~s[Len(s)].whole
    THEN [s EXCEPT ![Len(s)] = [id |-> 0, whole |-> whole]]
    ELSE Append(s, [id |-> n, whole |-> whole])

(* Mutant of Write: the mutex covers the write only. *)
WriteUnlocks(c) ==
  LET p == plugin[c] IN
    /\ pc[c] = "writing"
    /\ process[p] = "up"
    /\ stdin' = [stdin EXCEPT ![p] = Written(@, id[c], TRUE)]
    /\ pc' = [pc EXCEPT ![c] = "reading"]
    /\ Release
    /\ UNCHANGED <<manifests, process, own, orphaned, next_id, stdout, plugin,
                   id, outcome, dropped>>

(* write_all and flush. *)
Write(c) ==
  LET p == plugin[c] IN
    /\ pc[c] = "writing"
    /\ process[p] = "up"
    /\ stdin' = [stdin EXCEPT ![p] = Written(@, id[c], TRUE)]
    /\ pc' = [pc EXCEPT ![c] = "reading"]
    /\ UNCHANGED <<manifests, process, own, orphaned, next_id, stdout, lock,
                   plugin, id, outcome, dropped>>

(* The pipe is broken. *)
WriteFails(c) ==
  /\ pc[c] = "writing"
  /\ process[plugin[c]] = "exited"
  /\ Return(c, "Io", 0)
  /\ UNCHANGED <<manifests, process, own, orphaned, next_id, pipes, id,
                 dropped>>

-----------------------------------------------------------------------------
(* Mutant of Verdict: the ids are not compared. *)
VerdictUnpaired(c, line) == IF line.whole THEN "Ok" ELSE "Codec"

(* What a call makes of the line it has read: half a line is no JSON, and  *)
(* the id must be its own.  (A result and an RPC error are both answers.)  *)
Verdict(c, line) ==
  CASE ~line.whole -> "Codec"
    [] line.whole /\ line.id # id[c] -> "Protocol"
    [] OTHER -> "Ok"

Read(c) ==
  LET p == plugin[c] IN
    /\ pc[c] = "reading"
    /\ stdout[p] # <<>>
    /\ Return(c, Verdict(c, Head(stdout[p])), Head(stdout[p]).id)
    /\ stdout' = [stdout EXCEPT ![p] = Tail(@)]
    /\ UNCHANGED <<manifests, process, own, orphaned, next_id, stdin, id,
                   dropped>>

(* Mutant of ReadEof: end of file is not told from an empty read. *)
ReadEofIgnored(c) == FALSE /\ UNCHANGED vars

(* read_line returns 0: the plugin has closed its stdout. *)
ReadEof(c) ==
  LET p == plugin[c] IN
    /\ pc[c] = "reading"
    /\ stdout[p] = <<>>
    /\ process[p] = "exited"
    /\ Return(c, "Closed", 0)
    /\ UNCHANGED <<manifests, process, own, orphaned, next_id, pipes, id,
                   dropped>>

(* The handler is dropped at an await, and with it the guard of the mutex. *)
Dropped(c) ==
  LET p == plugin[c] IN
    /\ pc[c] \in {"locking", "writing", "reading"}
    /\ pc' = [pc EXCEPT ![c] = "idle"]
    /\ plugin' = [plugin EXCEPT ![c] = None]
    /\ IF Holds(c) THEN Release /\ dropped' = dropped \cup {p}
                   ELSE UNCHANGED <<lock, dropped>>
    /\ \/ UNCHANGED pipes
       \/ /\ pc[c] = "writing" /\ process[p] = "up"
          /\ stdin' = [stdin EXCEPT ![p] = Written(@, id[c], FALSE)]
          /\ UNCHANGED stdout
       \/ /\ pc[c] = "reading" /\ stdout[p] # <<>>
          /\ stdout' = [stdout EXCEPT ![p][1].whole = FALSE]
          /\ UNCHANGED stdin
    /\ UNCHANGED <<manifests, process, own, orphaned, next_id, id, outcome>>

-----------------------------------------------------------------------------
(* The plugin answers its next whole line, in order. *)
PluginAnswers(p) ==
  /\ process[p] = "up"
  /\ stdin[p] # <<>> /\ Head(stdin[p]).whole
  /\ stdin' = [stdin EXCEPT ![p] = Tail(@)]
  /\ stdout' = [stdout EXCEPT ![p] = Append(@, Head(stdin[p]))]
  /\ UNCHANGED <<manifests, process, own, orphaned, next_id, lock, pc, plugin,
                 id, outcome, dropped>>

(* It crashes: what it has not read is gone, what it wrote can be read. *)
PluginExits(p) ==
  /\ process[p] = "up"
  /\ process' = [process EXCEPT ![p] = "exited"]
  /\ stdin' = [stdin EXCEPT ![p] = <<>>]
  /\ UNCHANGED <<manifests, own, orphaned, next_id, stdout, lock, pc, plugin,
                 id, outcome, dropped>>

(* The process of a host outside the registry ends. *)
OwnExits(c) ==
  /\ own[c] = "up"
  /\ own' = [own EXCEPT ![c] = "exited"]
  /\ UNCHANGED <<manifests, process, pc, plugin, calls, orphaned>>

Proceed(c) == Write(c) \/ WriteFails(c) \/ Read(c) \/ ReadEof(c)

Next ==
  \/ \E c \in Caller :
       \/ \E p \in Plugin : spawn(c, p) \/ Call(c, p)
       \/ Lock(c) \/ Proceed(c) \/ Dropped(c)
       \/ install(c) \/ shutdown(c) \/ ShutdownReturns(c) \/ ShutdownKills(c)
       \/ OwnerDropped(c) \/ OwnExits(c)
  \/ \E p \in Plugin : PluginAnswers(p) \/ PluginExits(p)

Spec == Init /\ [][Next]_vars

(* The runtime polls the handlers; the mutex is handed on in the order of  *)
(* arrival; a plugin that is up answers what it is asked; the timer of a   *)
(* shutdown fires.                                                         *)
Fairness ==
  /\ \A c \in Caller :
       /\ WF_vars(Proceed(c)) /\ SF_vars(Lock(c))
       /\ WF_vars(ShutdownReturns(c) \/ ShutdownKills(c))
  /\ \A p \in Plugin : WF_vars(PluginAnswers(p))

FairSpec == Spec /\ Fairness

-----------------------------------------------------------------------------
(* The id pairs a response with its request: whatever was dropped before,  *)
(* no call returns the answer to another call.                             *)
OwnAnswer ==
  \A c \in Caller : outcome[c].kind = "Ok" => outcome[c].answers = id[c]

(* One request, one response: unless a call was dropped half-way, nothing  *)
(* is left in the pipes when the mutex is free, and no call is refused for *)
(* a response that was not its own.                                        *)
InStep ==
  \A p \in Plugin \ dropped :
    /\ (lock = {} /\ process[p] = "up") => stdin[p] = <<>> /\ stdout[p] = <<>>
    /\ \A c \in Caller :
         (pc[c] = "reading" /\ plugin[c] = p /\ stdout[p] # <<>>) =>
           Verdict(c, Head(stdout[p])) = "Ok"

(* No process outlives its host, whoever replaces it, and wherever an       *)
(* install or a shutdown is dropped.                                       *)
NoOrphans == ~orphaned

(* A crashed plugin keeps nobody waiting: the handler that is talking to a *)
(* plugin returns, and with it the mutex that all plugins share; and a     *)
(* plugin that ignores the end of its stdin does not keep its shutdown.    *)
CallReturns ==
  \A c \in Caller :
    pc[c] \in {"writing", "reading", "stopping"} ~> pc[c] = "idle"

(* The line protocol stays paired through dropped requests and crashes,    *)
(* and no process is left behind.                                          *)
HostSound == OwnAnswer /\ InStep /\ NoOrphans
=============================================================================
