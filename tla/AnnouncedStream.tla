-------------------------- MODULE AnnouncedStream ---------------------------
(***************************************************************************)
(* What realtime_demo promises a listener: from the moment it joins it is  *)
(* written every event that is published, once and in order; where it      *)
(* falls behind by more than a ring holds, the stream says how many events *)
(* it skips, and skips none that the ring still holds.                     *)
(***************************************************************************)
EXTENDS Integers, Sequences

CONSTANTS
  Listener,
  Capacity    \* events that the ring holds

VARIABLES
  published,  \* events published
  joined,     \* "off", "on", "left"
  position,   \* the next event that a listener is to be told of
  wire        \* what was written to a listener and not yet read

vars == <<published, joined, position, wire>>

Item(kind, n) == [kind |-> kind, n |-> n]

Init ==
  /\ published = 0
  /\ joined = [l \in Listener |-> "off"]
  /\ position = [l \in Listener |-> 0]
  /\ wire = [l \in Listener |-> <<>>]

Publish == published' = published + 1 /\ UNCHANGED <<joined, position, wire>>

Join(l) ==
  /\ joined[l] = "off"
  /\ joined' = [joined EXCEPT ![l] = "on"]
  /\ position' = [position EXCEPT ![l] = published]
  /\ UNCHANGED <<published, wire>>

Leave(l) ==
  /\ joined[l] = "on"
  /\ joined' = [joined EXCEPT ![l] = "left"]
  /\ UNCHANGED <<published, position, wire>>

(* An item that tells of the next k events is written. *)
Write(l, item, k) ==
  /\ joined[l] = "on"
  /\ wire' = [wire EXCEPT ![l] = Append(@, item)]
  /\ position' = [position EXCEPT ![l] = @ + k]
  /\ UNCHANGED <<published, joined>>

Tell(l) ==
  /\ position[l] < published
  /\ Write(l, Item("event", position[l]), 1)

Announce(l) ==
  \E k \in 1..(published - position[l] - Capacity) :
    Write(l, Item("lagged", k), k)

KeepAlive(l) == Write(l, Item("ping", 0), 0)

Hear(l) ==
  /\ wire[l] # <<>>
  /\ wire' = [wire EXCEPT ![l] = Tail(@)]
  /\ UNCHANGED <<published, joined, position>>

Next ==
  \/ Publish
  \/ \E l \in Listener :
       Join(l) \/ Leave(l) \/ Tell(l) \/ Announce(l) \/ KeepAlive(l) \/ Hear(l)

Spec == Init /\ [][Next]_vars
=============================================================================
