---------------------------- MODULE MCDoorControl ----------------------------
(* The instances of DoorControl that TLC checks.                           *)
EXTENDS DoorControl, TLC

\* The websocket client tasks run the same code.
ClientSymmetry == Permutations(Client)
=============================================================================
