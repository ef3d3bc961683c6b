--------------------------- MODULE MCRadioReceiver ---------------------------
(* Instances of RadioReceiver for TLC: see the .cfg files.                 *)
EXTENDS RadioReceiver
=============================================================================
