--------------------------- MODULE MCCollabService ---------------------------
(***************************************************************************)
(* An instance of CollabService for TLC: scenarios with the events of one  *)
(* part (queue, clients, content updates, other signals), and one with a   *)
(* client, a room and a crash.                                             *)
(***************************************************************************)
EXTENDS CollabService

\* At most `bounds[kind]` events of each kind named, none of the others.
Bounded(bounds) == [kind \in Kinds |-> IF kind \in DOMAIN bounds THEN bounds[kind] ELSE 0]

Scenarios ==
    {Bounded([start |-> 2, die |-> 1, stop |-> 1, send |-> 1, fault |-> 1]),
     Bounded([start |-> 1, load |-> 2, write |-> 2]),
     Bounded([start |-> 1, load |-> 2, signal |-> 1]),
     Bounded([start |-> 2, die |-> 1, stop |-> 1, early |-> 1, load |-> 1]),
     Bounded([start |-> 1, stop |-> 1, dial |-> 3]),
     Bounded([start |-> 1, stop |-> 1, dial |-> 1, ask |-> 1]),
     Bounded([start |-> 1, dial |-> 3, ask |-> 1, tick |-> 2]),
     Bounded([start |-> 1, dial |-> 2, ask |-> 2, tick |-> 1, fence |-> 1]),
     Bounded([start |-> 1, dial |-> 2, announce |-> 3, fence |-> 1])}

\* Two tries share a socket.
SharedSocket == [c \in Clients |-> IF c = "c3" THEN "s2" ELSE "s1"]

\* The first client of the shared socket is one member, the others another one.
TwoMembers == [c \in Clients |-> IF c = "c1" THEN "m1" ELSE "m2"]
=============================================================================
