-------------------------- MODULE MCRemoteRegistry --------------------------
(* Instances of RemoteRegistry for TLC: see the .cfg files.                *)
EXTENDS RemoteRegistry

(* Addresses of remotes: c is what is left of b when a is written over it  *)
(* and the power fails before the last two bytes.                          *)
a == <<0, 1, 2>>
b == <<2, 0, 1>>
c == <<0, 0, 1>>
AandB == {a, b}
AandBandC == {a, b, c}

(* Codes so far apart that no remote's code is in the window of another's; *)
(* the first one's wrap around.                                            *)
CodesApart == [d \in Remotes |-> CASE d = a -> 14 [] d = b -> 3 [] OTHER -> 8]

(* Two remotes whose codes are close.                                      *)
CodesClose == [d \in Remotes |-> 14]

ThreeEach == [d \in Remotes |-> 3]
OneOfA    == [d \in Remotes |-> IF d = a THEN 1 ELSE 0]

(* Frames that noise makes of others: they come at any time, again and     *)
(* again, from remotes that nobody presses.                                *)
TwoMisread == {[address |-> b, code |-> 4, button |-> "door"],
               [address |-> c, code |-> 9, button |-> "other"]}
=============================================================================
