----------------------------- MODULE MCConsole -----------------------------
(* Instances of Console for TLC: see the .cfg files.                       *)
EXTENDS Console
=============================================================================
