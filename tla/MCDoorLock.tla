----------------------------- MODULE MCDoorLock -----------------------------
(***************************************************************************)
(* DoorLock for TLC.  It has no parameters: all of its states are checked. *)
(***************************************************************************)
EXTENDS DoorLock
=============================================================================
