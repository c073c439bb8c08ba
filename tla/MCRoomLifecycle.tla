-------------------------- MODULE MCRoomLifecycle --------------------------
(***************************************************************************)
(* An instance of RoomLifecycle for TLC.                                   *)
(***************************************************************************)
EXTENDS RoomLifecycle

MaxEvents == [kind \in Kinds |-> IF kind = "join" THEN 2 ELSE 1]
=============================================================================
