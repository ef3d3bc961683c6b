-------------------------------- MODULE Door --------------------------------
(***************************************************************************)
(* What the garage door promises to somebody who presses a remote or flips *)
(* the wall switch, without the program that does it: a request starts a   *)
(* stopped door and stops a moving one, two runs that follow each other go *)
(* in opposite directions, and a door nobody stops ends by itself.         *)
(*                                                                         *)
(* A request is first waiting (request), then taken up (serving); another  *)
(* one may wait while one is being served, a third one is absorbed.        *)
(***************************************************************************)

VARIABLES
  motor,     (* "off", "forward" or "backward"                             *)
  heading,   (* the direction of the next run                              *)
  request,   (* a request is waiting                                       *)
  serving    (* a request has been taken up and not yet carried out        *)

vars == <<motor, heading, request, serving>>

Opposite(d) == IF d = "forward" THEN "backward" ELSE "forward"

Init == /\ motor = "off"
        /\ heading = "forward"
        /\ request = FALSE
        /\ serving = FALSE

Press == /\ request' = TRUE
         /\ UNCHANGED <<motor, heading, serving>>

Take == /\ request
        /\ ~serving
        /\ request' = FALSE
        /\ serving' = TRUE
        /\ UNCHANGED <<motor, heading>>

Start == /\ serving
         /\ motor = "off"
         /\ motor' = heading
         /\ heading' = Opposite(heading)
         /\ serving' = FALSE
         /\ UNCHANGED request

Stop == /\ serving
        /\ motor # "off"
        /\ motor' = "off"
        /\ serving' = FALSE
        /\ UNCHANGED <<heading, request>>

TimeOut == /\ ~serving
           /\ motor # "off"
           /\ motor' = "off"
           /\ UNCHANGED <<heading, request, serving>>

(* The controller restarts: the door halts and the direction is forgotten. *)
Restart == /\ motor' = "off"
           /\ heading' = "forward"
           /\ request' = FALSE
           /\ serving' = FALSE

Next == Press \/ Take \/ Start \/ Stop \/ TimeOut \/ Restart

Spec == Init /\ [][Next]_vars

=============================================================================
