---------------------------- MODULE MCProcesses -----------------------------
(***************************************************************************)
(* Model-checking instance of what watches over other processes: the       *)
(* registry of instances (ServiceRegistry) and the plugins of a host       *)
(* (PluginHost).  They share no state, so that one run checks them side by *)
(* side: `part` says which one moves.                                      *)
(***************************************************************************)
EXTENDS ServiceRegistry

CONSTANTS Caller, Plugin, granted, MaxId, MaxInstalls, None

VARIABLES part,
          manifests, process, next_id, stdin, stdout, lock, h_pc, plugin,
          own, id, outcome, dropped, orphaned

Host == INSTANCE PluginHost WITH
  pc <- h_pc

pluginVars ==
  <<manifests, process, next_id, stdin, stdout, lock, h_pc, plugin, own,
    id, outcome, dropped, orphaned>>
all == <<part, vars, pluginVars>>

ASSUME MCAssumption ==
  /\ Host!PluginAssumption

(* Every registration is one of the same address: an instance that is      *)
(* restarted, or replaced while the old one is still shutting down.        *)
SameAddr == [r \in Reg |-> CHOOSE a \in Addr : TRUE]

(* One plugin may run, the other asks for too much.                        *)
MCPlugin ==
  {[name |-> "echo-tools", capabilities |-> {"read_text"}],
   [name |-> "scanner", capabilities |-> {"read_text", "fs_read"}]}

MCInit ==
  /\ part \in {"registry", "plugin"}
  /\ Init
  /\ Host!Init

MCNext ==
  /\ UNCHANGED part
  /\ \/ part = "registry" /\ Next /\ UNCHANGED <<pluginVars>>
     \/ part = "plugin" /\ Host!Next /\ UNCHANGED <<vars>>

MCSpec ==
  /\ MCInit /\ [][MCNext]_all
  /\ \/ part = "registry" /\ Fairness
     \/ part = "plugin" /\ Host!Fairness

HostSound == Host!HostSound
CallReturns == Host!CallReturns
=============================================================================
