------------------------------ MODULE MCGarage ------------------------------
(* An instance of Garage for TLC: see the .cfg file.                       *)
EXTENDS Garage

(* Two addresses that differ in two bytes: torn, either may become <<0, 0, *)
(* 1>> or the blank <<1, 1, 1>>.                                           *)
a == <<0, 1, 1>>
b == <<1, 0, 1>>
AandB == {a, b}

(* A remote that can move the door, with a later code, and another one.    *)
FewFrames == {[address |-> a, code |-> 0, button |-> "door"],
              [address |-> a, code |-> 1, button |-> "door"],
              [address |-> b, code |-> 0, button |-> "door"]}
=============================================================================
