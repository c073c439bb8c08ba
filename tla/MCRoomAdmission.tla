-------------------------- MODULE MCRoomAdmission --------------------------
(***************************************************************************)
(* An instance of RoomAdmission for TLC.                                   *)
(***************************************************************************)
EXTENDS RoomAdmission, TLC

MaxEvents == [dial |-> 3, frame |-> 2, load |-> 2, event |-> 2]
Symmetry == Permutations(Clients)
=============================================================================
