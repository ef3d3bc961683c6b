----------------------------- MODULE MCDoorLoop -----------------------------
(* Instances of DoorLoop for TLC: see the .cfg files.                      *)
EXTENDS DoorLoop
=============================================================================
