------------------------- MODULE MCServiceRegistry -------------------------
(* Model-checking instances of ServiceRegistry. *)
EXTENDS ServiceRegistry

(* Every registration is one of the same address: an instance that is      *)
(* restarted, or replaced while the old one is still shutting down.        *)
SameAddr == [r \in Reg |-> CHOOSE a \in Addr : TRUE]
=============================================================================
