------------------------------ MODULE DoorLoop ------------------------------
(***************************************************************************)
(* The part of loop() in arduino_porte_garage.ino that drives the motor,   *)
(* at the grain at which something else can happen: the radio interrupt,   *)
(* the millisecond clock, the wall switch and a reset all fall between any *)
(* two steps.  A step is a stretch of the code between two accesses to     *)
(* what the others see: actionPorteGarage, the clock and the two PWM pins. *)
(***************************************************************************)
EXTENDS Integers

CONSTANTS
  Timeout,   (* tenSecondsInMs, the longest run, in clock ticks             *)
  ClockMod,  (* millis() counts modulo this (2^32 in the program)           *)
  MaxLag     (* bound: clock ticks that one pass of loop() can take         *)

ASSUME ConstantsAssumption ==
  /\ Timeout \in Nat \ {0}
  /\ MaxLag \in Nat \ {0}
  /\ ClockMod \in Nat
  /\ ClockMod > Timeout + MaxLag

VARIABLES
  pc,                  (* where loop() is                                   *)
  actionPorteGarage,   (* a start or a stop is asked for                    *)
  garageState,         (* "stopped" or "moving"                             *)
  porteGarageDir,      (* direction of the next run                         *)
  startGarageTime,     (* millis() when the last request was served         *)
  pwmForward,          (* duty cycle written to the forward pin, 0 or 255   *)
  pwmBackward,         (* duty cycle written to the backward pin            *)
  onOffSwitch,         (* level of the wall switch                          *)
  switchPrev,          (* on_off_switch_state_prev                          *)
  millis,              (* the clock                                         *)
  lag,                 (* ticks since loop() last looked at the clock       *)
  runTicks             (* history: ticks since the motor was switched on    *)

door  == <<garageState, porteGarageDir, startGarageTime>>
pins  == <<pwmForward, pwmBackward>>
panel == <<onOffSwitch, switchPrev>>
time  == <<millis, lag, runTicks>>
vars  == <<pc, actionPorteGarage, door, pins, panel, time>>

Labels == {"switch", "action", "clear", "toggle", "timeout",
           "fwd1", "fwd2", "bwd1", "bwd2",   \* DoorGoForward, DoorGoBackward
          "stop1", "stop2",                 \* DoorStop for a request
          "halt1", "halt2"}                 \* DoorStop for the time-out

(* Bound: runTicks stops here, one above what RunBounded allows.           *)
RunCap == Timeout + 2 * MaxLag

MotorOn == pwmForward # 0 \/ pwmBackward # 0

-----------------------------------------------------------------------------
(* setup(): DoorStop, nothing asked for, and the level of the wall switch  *)
(* taken as it is found, so that it does not count as a change.            *)
Init ==
  /\ pc = "switch"
  /\ actionPorteGarage = FALSE
  /\ garageState = "stopped"
  /\ porteGarageDir = "forward"
  /\ startGarageTime = 0
  /\ pwmForward = 0
  /\ pwmBackward = 0
  /\ onOffSwitch \in {0, 1}
  /\ switchPrev = onOffSwitch
  /\ millis = 0
  /\ lag = 0
  /\ runTicks = 0

(* Mutant: two clock readings compared as if the clock never wrapped.       *)
ElapsedSigned == IF millis >= startGarageTime THEN millis - startGarageTime ELSE 0

(* millis() - startGarageTime in unsigned arithmetic.                      *)
Elapsed == IF millis >= startGarageTime
           THEN millis - startGarageTime
           ELSE millis - startGarageTime + ClockMod

-----------------------------------------------------------------------------
(* The wall switch is a change detector: either edge is a request.         *)
ReadSwitch ==
  /\ pc = "switch"
  /\ pc' = "action"
  /\ switchPrev' = onOffSwitch
  /\ actionPorteGarage' = (actionPorteGarage \/ onOffSwitch # switchPrev)
  /\ UNCHANGED <<door, pins, onOffSwitch, time>>

TestAction ==
  /\ pc = "action"
  /\ pc' = IF actionPorteGarage THEN "clear" ELSE "timeout"
  /\ UNCHANGED <<actionPorteGarage, door, pins, panel, time>>

(* Mutant: the deadline is stored, and can pass the end of the clock.       *)
ClearActionDeadline ==
  /\ pc = "clear"
  /\ pc' = "toggle"
  /\ actionPorteGarage' = FALSE
  /\ startGarageTime' = millis + Timeout
  /\ UNCHANGED <<garageState, porteGarageDir, pins, panel, time>>

(* The flag is cleared some instructions after it was tested: a request    *)
(* that the interrupt makes in between is merged with the one in hand.     *)
ClearAction ==
  /\ pc = "clear"
  /\ pc' = "toggle"
  /\ actionPorteGarage' = FALSE
  /\ startGarageTime' = millis
  /\ UNCHANGED <<garageState, porteGarageDir, pins, panel, time>>

ToggleStop ==
  /\ pc = "toggle"
  /\ garageState = "moving"
  /\ garageState' = "stopped"
  /\ pc' = "stop1"
  /\ UNCHANGED <<actionPorteGarage, porteGarageDir, startGarageTime, pins, panel, time>>

ToggleStart ==
  /\ pc = "toggle"
  /\ garageState # "moving"
  /\ garageState' = "moving"
  /\ pc' = IF porteGarageDir = "forward" THEN "fwd1" ELSE "bwd1"
  /\ UNCHANGED <<actionPorteGarage, porteGarageDir, startGarageTime, pins, panel, time>>

(* DoorStop: the backward pin first, then the forward one.  Called for a   *)
(* request it returns to the time-out test, called by that test to the top.*)
StopBackward ==
  /\ pc \in {"stop1", "halt1"}
  /\ pc' = IF pc = "stop1" THEN "stop2" ELSE "halt2"
  /\ pwmBackward' = 0
  /\ UNCHANGED <<actionPorteGarage, door, pwmForward, panel, time>>

(* Mutant: DoorStop leaves the forward pin as it is.                        *)
StopForwardForgotten ==
  /\ pc \in {"stop2", "halt2"}
  /\ pc' = IF pc = "stop2" THEN "timeout" ELSE "switch"
  /\ UNCHANGED <<actionPorteGarage, door, pins, panel, time>>

StopForward ==
  /\ pc \in {"stop2", "halt2"}
  /\ pc' = IF pc = "stop2" THEN "timeout" ELSE "switch"
  /\ pwmForward' = 0
  /\ UNCHANGED <<actionPorteGarage, door, pwmBackward, panel, time>>

(* DoorGoForward releases the backward pin before it drives the forward    *)
(* one; DoorGoBackward drives the backward pin first.                      *)
ForwardRelease ==
  /\ pc = "fwd1"
  /\ pc' = "fwd2"
  /\ pwmBackward' = 0
  /\ UNCHANGED <<actionPorteGarage, door, pwmForward, panel, time>>

(* Mutant: the direction of the next run is not turned round.               *)
ForwardDriveSameDir ==
  /\ pc = "fwd2"
  /\ pc' = "timeout"
  /\ pwmForward' = 255
  /\ runTicks' = 0
  /\ UNCHANGED <<actionPorteGarage, door, pwmBackward, panel, millis, lag>>

ForwardDrive ==
  /\ pc = "fwd2"
  /\ pc' = "timeout"
  /\ pwmForward' = 255
  /\ porteGarageDir' = "backward"
  /\ runTicks' = 0
  /\ UNCHANGED <<actionPorteGarage, garageState, startGarageTime, pwmBackward, panel, millis, lag>>

BackwardDrive ==
  /\ pc = "bwd1"
  /\ pc' = "bwd2"
  /\ pwmBackward' = 255
  /\ runTicks' = 0
  /\ UNCHANGED <<actionPorteGarage, door, pwmForward, panel, millis, lag>>

(* Mutant: the same omission after a backward run.                          *)
BackwardReleaseSameDir ==
  /\ pc = "bwd2"
  /\ pc' = "timeout"
  /\ pwmForward' = 0
  /\ UNCHANGED <<actionPorteGarage, door, pwmBackward, panel, time>>

BackwardRelease ==
  /\ pc = "bwd2"
  /\ pc' = "timeout"
  /\ pwmForward' = 0
  /\ porteGarageDir' = "forward"
  /\ UNCHANGED <<actionPorteGarage, garageState, startGarageTime, pwmBackward, panel, time>>

(* Mutant: a deadline computed once, which the clock may never reach.       *)
ExpiredDeadline == garageState = "moving" /\ millis >= startGarageTime + Timeout

Expired == garageState = "moving" /\ Elapsed >= Timeout

(* The end of a pass: the clock has been looked at, the lag starts again.  *)
TimeoutStop ==
  /\ pc = "timeout"
  /\ Expired
  /\ startGarageTime' = 0
  /\ garageState' = "stopped"
  /\ pc' = "halt1"
  /\ lag' = 0
  /\ UNCHANGED <<actionPorteGarage, porteGarageDir, pins, panel, millis, runTicks>>

EndOfPass ==
  /\ pc = "timeout"
  /\ ~Expired
  /\ pc' = "switch"
  /\ lag' = 0
  /\ UNCHANGED <<actionPorteGarage, door, pins, panel, millis, runTicks>>

Loop == \/ ReadSwitch \/ TestAction \/ ClearAction \/ ToggleStop \/ ToggleStart
        \/ StopBackward \/ StopForward \/ ForwardRelease \/ ForwardDrive
        \/ BackwardDrive \/ BackwardRelease \/ TimeoutStop \/ EndOfPass

-----------------------------------------------------------------------------
(* The radio interrupt accepts a frame of a known remote (processFrame).   *)
RadioAction ==
  /\ actionPorteGarage' = TRUE
  /\ UNCHANGED <<pc, door, pins, panel, time>>

FlipSwitch ==
  /\ onOffSwitch' = 1 - onOffSwitch
  /\ UNCHANGED <<pc, actionPorteGarage, door, pins, switchPrev, time>>

NextMillis == IF millis = ClockMod - 1 THEN 0 ELSE millis + 1

(* The clock ticks at most MaxLag times while loop() makes one pass.       *)
Tick ==
  /\ lag < MaxLag
  /\ lag' = lag + 1
  /\ millis' = NextMillis
  /\ runTicks' = (IF MotorOn /\ runTicks < RunCap THEN runTicks + 1 ELSE runTicks)
  /\ UNCHANGED <<pc, actionPorteGarage, door, pins, panel>>

(* Power comes back or the reset button is pressed, wherever loop() was;   *)
(* setup() finds the wall switch as it now is.                             *)
Reset ==
  /\ pc' = "switch"
  /\ actionPorteGarage' = FALSE
  /\ garageState' = "stopped"
  /\ porteGarageDir' = "forward"
  /\ startGarageTime' = 0
  /\ pwmForward' = 0
  /\ pwmBackward' = 0
  /\ onOffSwitch' \in {0, 1}
  /\ switchPrev' = onOffSwitch'
  /\ millis' = 0
  /\ lag' = 0
  /\ runTicks' = 0

Next == Loop \/ RadioAction \/ FlipSwitch \/ Tick \/ Reset

Spec == Init /\ [][Next]_vars

(* loop() is called for ever and the clock runs; nobody has to press.      *)
FairSpec == Spec /\ WF_vars(Loop) /\ WF_vars(Tick)

-----------------------------------------------------------------------------
(* The types of the variables.                                             *)
TypeOK ==
  /\ pc \in Labels
  /\ actionPorteGarage \in BOOLEAN
  /\ garageState \in {"stopped", "moving"}
  /\ porteGarageDir \in {"forward", "backward"}
  /\ startGarageTime \in 0 .. ClockMod - 1
  /\ pwmForward \in {0, 255} /\ pwmBackward \in {0, 255}
  /\ onOffSwitch \in {0, 1} /\ switchPrev \in {0, 1}
  /\ millis \in 0 .. ClockMod - 1
  /\ lag \in 0 .. MaxLag
  /\ runTicks \in 0 .. RunCap

(* The two halves of the H-bridge are never driven together.  Nothing in   *)
(* DoorGoBackward ensures it, as it raises one pin before it lowers the    *)
(* other: it follows from garageState being "stopped" only when both pins  *)
(* are already low.                                                        *)
NeverBothDirections == pwmForward = 0 \/ pwmBackward = 0

(* At the top of loop() the software's idea of the door is the pins': it   *)
(* runs if and only if garageState says so, and then against the direction *)
(* kept for the next run.                                                  *)
StateMatchesPins ==
  pc = "switch" =>
    /\ MotorOn <=> garageState = "moving"
    /\ pwmForward # 0  => porteGarageDir = "backward"
    /\ pwmBackward # 0 => porteGarageDir = "forward"

(* However the requests, the clock's wrap-around and the interrupts fall,  *)
(* the motor is never driven for longer than the time-out and the two      *)
(* passes of loop() it may take to notice and to act on it.                *)
RunBounded == MotorOn => runTicks <= Timeout - 1 + 2 * MaxLag

(* A door that moves stops, even if nobody ever presses again.             *)
DoorStops == MotorOn ~> ~MotorOn

-----------------------------------------------------------------------------
(* The abstract door that this loop implements.  The motor is the pins; a  *)
(* request is being served from the moment the flag is cleared to the pin  *)
(* write that changes the motor.                                           *)
Motor == CASE pwmForward # 0  -> "forward"
           [] pwmBackward # 0 -> "backward"
           [] OTHER            -> "off"

Heading == IF pc = "bwd2" THEN "forward" ELSE porteGarageDir

Serving == \/ pc \in {"toggle", "fwd1", "fwd2", "bwd1"}
           \/ pc \in {"stop1", "stop2"} /\ MotorOn

AbstractDoor == INSTANCE Door WITH motor   <- Motor,
                                   heading <- Heading,
                                   request <- actionPorteGarage,
                                   serving <- Serving

(* Every step of loop() and of the interrupts is a step of the door as its *)
(* user sees it, or invisible: runs alternate, each start and each stop    *)
(* answers a request or is the time-out's.                                 *)
ImplementsDoor == AbstractDoor!Spec

=============================================================================
