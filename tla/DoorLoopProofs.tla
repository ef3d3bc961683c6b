--------------------------- MODULE DoorLoopProofs ---------------------------
(***************************************************************************)
(* Machine-checked proofs about DoorLoop, for every time-out, every clock  *)
(* width and every latency of loop() that ConstantsAssumption admits.      *)
(***************************************************************************)
EXTENDS DoorLoop, TLAPS

(* Zero is a clock reading and a lag, whatever the constants are.          *)
LEMMA ZeroInRange == 0 \in 0 .. ClockMod - 1 /\ 0 \in 0 .. MaxLag /\ 0 \in 0 .. RunCap
  BY ConstantsAssumption DEF ConstantsAssumption, RunCap

(* Every step keeps the types of the variables.                            *)
LEMMA TypeNext == TypeOK /\ [Next]_vars => TypeOK'
<1> SUFFICES ASSUME TypeOK, [Next]_vars PROVE TypeOK'
  OBVIOUS
<1> USE ConstantsAssumption DEF ConstantsAssumption, TypeOK, Labels, door, pins, panel, time
<1>1. CASE ReadSwitch        BY <1>1 DEF ReadSwitch
<1>2. CASE TestAction        BY <1>2 DEF TestAction
<1>3. CASE ClearAction       BY <1>3 DEF ClearAction
<1>4. CASE ToggleStop        BY <1>4 DEF ToggleStop
<1>5. CASE ToggleStart       BY <1>5 DEF ToggleStart
<1>6. CASE StopBackward      BY <1>6 DEF StopBackward
<1>7. CASE StopForward       BY <1>7 DEF StopForward
<1>8. CASE ForwardRelease    BY <1>8 DEF ForwardRelease
<1>9. CASE ForwardDrive      BY <1>9, ZeroInRange DEF ForwardDrive
<1>10. CASE BackwardDrive    BY <1>10, ZeroInRange DEF BackwardDrive
<1>11. CASE BackwardRelease  BY <1>11 DEF BackwardRelease
<1>12. CASE TimeoutStop      BY <1>12 DEF TimeoutStop
<1>13. CASE EndOfPass        BY <1>13 DEF EndOfPass
<1>14. CASE RadioAction      BY <1>14 DEF RadioAction
<1>15. CASE FlipSwitch       BY <1>15 DEF FlipSwitch
<1>16. CASE Tick             BY <1>16 DEF Tick, NextMillis, RunCap
<1>17. CASE Reset            BY <1>17, ZeroInRange, Zenon DEF Reset
<1>18. CASE UNCHANGED vars   BY <1>18 DEF vars
<1>19. QED
  BY <1>1, <1>2, <1>3, <1>4, <1>5, <1>6, <1>7, <1>8, <1>9, <1>10, <1>11,
     <1>12, <1>13, <1>14, <1>15, <1>16, <1>17, <1>18 DEF Next, Loop

(* Every variable of the control loop keeps its type.                      *)
THEOREM TypeCorrect == Spec => []TypeOK
<1>1. Init => TypeOK
  BY ZeroInRange, Zenon DEF Init, TypeOK, Labels
<1>2. QED
  BY <1>1, TypeNext, PTL DEF Spec

-----------------------------------------------------------------------------
(* What holds at each label of loop().  The two pins are the invariant of  *)
(* NeverBothDirections; to be inductive it needs to know where the motor   *)
(* is off, and the direction kept while it runs.                           *)
AtRest == {"switch", "action", "clear", "toggle", "timeout"}

PinsByLabel ==
  /\ NeverBothDirections
  /\ pc \in AtRest => (MotorOn <=> garageState = "moving")
  /\ pc \in {"fwd1", "fwd2", "bwd1"} => ~MotorOn /\ garageState = "moving"
  /\ pc = "bwd2" => pwmBackward # 0 /\ garageState = "moving"
  /\ pc \in {"stop1", "stop2", "halt1", "halt2"} => garageState = "stopped"
  /\ pc \in {"stop2", "halt2"} => pwmBackward = 0
  /\ pc \in {"fwd1", "fwd2"} => porteGarageDir = "forward"
  /\ pc \in {"bwd1", "bwd2"} => porteGarageDir = "backward"
  /\ pwmForward # 0 => porteGarageDir = "backward"
  /\ pwmBackward # 0 /\ pc # "bwd2" => porteGarageDir = "forward"

(* How long the motor has been on: at most since startGarageTime while the *)
(* time-out is armed, and since the pass that noticed it afterwards.       *)
ClockByLabel ==
  /\ MotorOn /\ pc \in {"switch", "action", "clear", "timeout", "bwd2"} =>
       runTicks <= Elapsed /\ Elapsed <= Timeout - 1 + lag
  /\ MotorOn /\ pc \in {"toggle", "stop1", "stop2"} => runTicks <= Timeout - 1 + lag
  /\ MotorOn /\ pc \in {"halt1", "halt2"} => runTicks <= Timeout - 1 + MaxLag + lag
  /\ pc \in {"toggle", "fwd1", "fwd2", "bwd1"} => Elapsed <= lag

IInv == TypeOK /\ PinsByLabel /\ ClockByLabel

(* The pins.                                                               *)
LEMMA PinsNext == IInv /\ [Next]_vars => PinsByLabel'
<1> SUFFICES ASSUME IInv, [Next]_vars PROVE PinsByLabel'
  OBVIOUS
<1> USE DEF IInv, TypeOK, PinsByLabel, NeverBothDirections, MotorOn, AtRest,
            Labels, door, pins
<1>1. CASE ReadSwitch        BY <1>1 DEF ReadSwitch
<1>2. CASE TestAction        BY <1>2 DEF TestAction
<1>3. CASE ClearAction       BY <1>3 DEF ClearAction
<1>4. CASE ToggleStop        BY <1>4 DEF ToggleStop
<1>5. CASE ToggleStart       BY <1>5 DEF ToggleStart
<1>6. CASE StopBackward      BY <1>6 DEF StopBackward
<1>7. CASE StopForward       BY <1>7 DEF StopForward
<1>8. CASE ForwardRelease    BY <1>8 DEF ForwardRelease
<1>9. CASE ForwardDrive      BY <1>9 DEF ForwardDrive
<1>10. CASE BackwardDrive    BY <1>10 DEF BackwardDrive
<1>11. CASE BackwardRelease  BY <1>11 DEF BackwardRelease
<1>12. CASE TimeoutStop      BY <1>12 DEF TimeoutStop
<1>13. CASE EndOfPass        BY <1>13 DEF EndOfPass
<1>14. CASE RadioAction      BY <1>14 DEF RadioAction
<1>15. CASE FlipSwitch       BY <1>15 DEF FlipSwitch
<1>16. CASE Tick             BY <1>16 DEF Tick
<1>17. CASE Reset            BY <1>17 DEF Reset
<1>18. CASE UNCHANGED vars   BY <1>18 DEF vars
<1>19. QED
  BY <1>1, <1>2, <1>3, <1>4, <1>5, <1>6, <1>7, <1>8, <1>9, <1>10, <1>11,
     <1>12, <1>13, <1>14, <1>15, <1>16, <1>17, <1>18 DEF Next, Loop

(* Unsigned subtraction: serving a request sets the elapsed time to zero,  *)
(* and a tick adds one to it until the clock has gone all the way round.   *)
LEMMA ElapsedTick ==
  ASSUME TypeOK, millis' = NextMillis, startGarageTime' = startGarageTime,
         Elapsed + 1 < ClockMod
  PROVE  Elapsed' = Elapsed + 1
  BY ConstantsAssumption DEF ConstantsAssumption, TypeOK, Elapsed, NextMillis

(* Elapsed is a clock reading.                                             *)
LEMMA ElapsedType == TypeOK => Elapsed \in 0 .. ClockMod - 1
  BY ConstantsAssumption DEF ConstantsAssumption, TypeOK, Elapsed

(* The running time.                                                       *)
LEMMA ClockNext == IInv /\ [Next]_vars => ClockByLabel'
<1> SUFFICES ASSUME IInv, [Next]_vars PROVE ClockByLabel'
  OBVIOUS
<1>0. Elapsed \in 0 .. ClockMod - 1
  BY ElapsedType DEF IInv
<1>t. CASE Tick
  <2>1. UNCHANGED <<pc, pwmForward, pwmBackward, startGarageTime>>
    BY <1>t DEF Tick, door, pins
  <2>2. lag < MaxLag /\ lag' = lag + 1 /\ millis' = NextMillis
    BY <1>t DEF Tick
  <2>3. MotorOn' <=> MotorOn
    BY <2>1 DEF MotorOn
  <2>4. MotorOn => runTicks' <= runTicks + 1
    BY <1>t DEF Tick, IInv, TypeOK
  <2>5. Elapsed + 1 < ClockMod => Elapsed' = Elapsed + 1
    BY <2>1, <2>2, ElapsedTick DEF IInv
  <2>6. runTicks' \in Int
    BY <1>t DEF Tick, IInv, TypeOK
  <2>7. QED
    BY <1>0, <2>1, <2>2, <2>3, <2>4, <2>5, <2>6, ConstantsAssumption
       DEF ConstantsAssumption, IInv, TypeOK, ClockByLabel, Labels
<1> USE <1>0, ConstantsAssumption
    DEF ConstantsAssumption, IInv, TypeOK, PinsByLabel, ClockByLabel, MotorOn,
        AtRest, Labels, Elapsed, door, pins, time
<1>1. CASE ReadSwitch        BY <1>1 DEF ReadSwitch
<1>2. CASE TestAction        BY <1>2 DEF TestAction
<1>3. CASE ClearAction       BY <1>3 DEF ClearAction
<1>4. CASE ToggleStop        BY <1>4 DEF ToggleStop
<1>5. CASE ToggleStart       BY <1>5 DEF ToggleStart
<1>6. CASE StopBackward      BY <1>6 DEF StopBackward
<1>7. CASE StopForward       BY <1>7 DEF StopForward
<1>8. CASE ForwardRelease    BY <1>8 DEF ForwardRelease
<1>9. CASE ForwardDrive      BY <1>9 DEF ForwardDrive
<1>10. CASE BackwardDrive    BY <1>10 DEF BackwardDrive
<1>11. CASE BackwardRelease  BY <1>11 DEF BackwardRelease
<1>12. CASE TimeoutStop      BY <1>12 DEF TimeoutStop
<1>13. CASE EndOfPass        BY <1>13 DEF EndOfPass, Expired
<1>14. CASE RadioAction      BY <1>14 DEF RadioAction
<1>15. CASE FlipSwitch       BY <1>15 DEF FlipSwitch
<1>17. CASE Reset            BY <1>17 DEF Reset
<1>18. CASE UNCHANGED vars   BY <1>18 DEF vars
<1>19. QED
  BY <1>t, <1>1, <1>2, <1>3, <1>4, <1>5, <1>6, <1>7, <1>8, <1>9, <1>10, <1>11,
     <1>12, <1>13, <1>14, <1>15, <1>17, <1>18 DEF Next, Loop

(* setup() establishes the invariant.                                      *)
LEMMA InitIInv == Init => IInv
<1> SUFFICES ASSUME Init PROVE IInv
  OBVIOUS
<1>1. TypeOK
  BY ZeroInRange, Zenon DEF Init, TypeOK, Labels
<1>2. PinsByLabel /\ ClockByLabel
  BY DEF Init, PinsByLabel, ClockByLabel, NeverBothDirections, MotorOn, AtRest
<1>3. QED
  BY <1>1, <1>2 DEF IInv

LEMMA IInvAlways == Spec => []IInv
<1>1. IInv /\ [Next]_vars => IInv'
  BY TypeNext, PinsNext, ClockNext DEF IInv
<1>2. QED
  BY <1>1, InitIInv, PTL DEF Spec

(* The bridge is never driven both ways, wherever interrupts and resets    *)
(* fall between the writes of its two pins.                                *)
THEOREM BridgeIsSafe == Spec => []NeverBothDirections
<1>1. IInv => NeverBothDirections
  BY DEF IInv, PinsByLabel
<1>2. QED
  BY <1>1, IInvAlways, PTL

(* Whenever loop() looks at its state, the software knows what the motor   *)
(* does.                                                                   *)
THEOREM StateIsKnown == Spec => []StateMatchesPins
<1>1. IInv => StateMatchesPins
  BY DEF IInv, PinsByLabel, AtRest, StateMatchesPins
<1>2. QED
  BY <1>1, IInvAlways, PTL

(* No run of the motor outlasts the time-out and two passes of loop(),     *)
(* wherever the clock wraps around.                                        *)
THEOREM RunIsBounded == Spec => []RunBounded
<1>1. IInv => RunBounded
  <2> SUFFICES ASSUME IInv, MotorOn PROVE runTicks <= Timeout - 1 + 2 * MaxLag
    BY DEF RunBounded
  <2>1. Elapsed \in Int
    BY ElapsedType DEF IInv
  <2>2. pc \notin {"fwd1", "fwd2", "bwd1"}
    BY DEF IInv, PinsByLabel
  <2>3. QED
    BY <2>1, <2>2, ConstantsAssumption
       DEF ConstantsAssumption, IInv, TypeOK, ClockByLabel, Labels
<1>2. QED
  BY <1>1, IInvAlways, PTL

-----------------------------------------------------------------------------
(* The loop implements the door.  A request is still there when the loop   *)
(* takes it up.                                                            *)
RequestKept == pc = "clear" => actionPorteGarage = TRUE

RInv == IInv /\ RequestKept

(* Only the loop itself takes a request away.                              *)
LEMMA RequestKeptNext == TypeOK /\ RequestKept /\ [Next]_vars => RequestKept'
<1> SUFFICES ASSUME TypeOK, RequestKept, [Next]_vars, pc' = "clear"
             PROVE  actionPorteGarage' = TRUE
  BY DEF RequestKept
<1>1. CASE TestAction
  BY <1>1, Zenon DEF TestAction, TypeOK
<1>2. CASE RadioAction
  BY <1>2, Zenon DEF RadioAction
<1>3. CASE FlipSwitch \/ Tick \/ UNCHANGED vars
  <2>1. pc' = pc /\ actionPorteGarage' = actionPorteGarage
    BY <1>3 DEF FlipSwitch, Tick, vars
  <2>2. QED
    BY <2>1, Zenon DEF RequestKept
<1>4. CASE ~(TestAction \/ RadioAction \/ FlipSwitch \/ Tick \/ UNCHANGED vars)
  BY <1>4 DEF Next, Loop, ReadSwitch, ClearAction, ToggleStop, ToggleStart,
     StopBackward, StopForward, ForwardRelease, ForwardDrive, BackwardDrive,
     BackwardRelease, TimeoutStop, EndOfPass, Reset
<1>5. QED
  BY <1>1, <1>2, <1>3, <1>4

(* The motor is what the pins say.                                         *)
LEMMA MotorValue ==
  IInv => /\ (pwmForward # 0 => Motor = "forward")
          /\ (pwmBackward # 0 => Motor = "backward")
          /\ (~MotorOn => Motor = "off")
  BY DEF IInv, PinsByLabel, NeverBothDirections, MotorOn, Motor

(* A step that touches neither the pins nor the request, and serves it     *)
(* neither more nor less than before, is invisible.                        *)
LEMMA HiddenStep ==
  ASSUME UNCHANGED <<pwmForward, pwmBackward, actionPorteGarage>>,
         Heading' = Heading, Serving' <=> Serving
  PROVE  UNCHANGED AbstractDoor!vars
<1>1. Motor' = Motor
  BY DEF Motor
<1>2. Serving' = Serving
  BY DEF Serving
<1>3. QED
  BY <1>1, <1>2 DEF AbstractDoor!vars

(* A step that raises the request and does nothing else is a press.        *)
LEMMA PressStep ==
  ASSUME UNCHANGED <<pwmForward, pwmBackward>>, actionPorteGarage' = TRUE,
         Heading' = Heading, Serving' <=> Serving
  PROVE  AbstractDoor!Press
<1>1. Motor' = Motor
  BY DEF Motor
<1>2. Serving' = Serving
  BY DEF Serving
<1>3. QED
  BY <1>1, <1>2 DEF AbstractDoor!Press

(* The first pin write of a run is its start.                              *)
LEMMA StartStep ==
  ASSUME IInv, IInv', ForwardDrive \/ BackwardDrive
  PROVE  AbstractDoor!Start
<1>1. CASE ForwardDrive
  <2>1. Motor = "off" /\ Motor' = "forward"
    BY <1>1, MotorValue DEF ForwardDrive, Motor, IInv, PinsByLabel, MotorOn
  <2>2. Heading = "forward" /\ Heading' = "backward"
    BY <1>1 DEF ForwardDrive, Heading, IInv, PinsByLabel
  <2>3. Serving /\ Serving' = FALSE
    BY <1>1 DEF ForwardDrive, Serving, IInv, PinsByLabel
  <2>4. QED
    BY <1>1, <2>1, <2>2, <2>3 DEF AbstractDoor!Start, AbstractDoor!Opposite, ForwardDrive
<1>2. CASE BackwardDrive
  <2>1. Motor = "off" /\ Motor' = "backward"
    BY <1>2, MotorValue DEF BackwardDrive, Motor, IInv, PinsByLabel, MotorOn
  <2>2. Heading = "backward" /\ Heading' = "forward"
    BY <1>2 DEF BackwardDrive, Heading, IInv, PinsByLabel
  <2>3. Serving /\ Serving' = FALSE
    BY <1>2 DEF BackwardDrive, Serving, IInv, PinsByLabel
  <2>4. QED
    BY <1>2, <2>1, <2>2, <2>3 DEF AbstractDoor!Start, AbstractDoor!Opposite, BackwardDrive
<1>3. QED
  BY <1>1, <1>2

(* The pin write of DoorStop that ends a run is its stop when a request is *)
(* being served, and the time-out's otherwise; the other write is hidden.  *)
LEMMA StopStep ==
  ASSUME IInv, IInv', StopBackward \/ StopForward
  PROVE  AbstractDoor!Stop \/ AbstractDoor!TimeOut \/ UNCHANGED AbstractDoor!vars
<1>1. /\ pc # "bwd2" /\ pc' # "bwd2"
      /\ UNCHANGED <<actionPorteGarage, porteGarageDir>>
      /\ pc \in {"stop1", "stop2", "halt1", "halt2"}
      /\ pc' \in {"stop2", "halt2", "timeout", "switch"}
  BY DEF StopBackward, StopForward, door
<1>2. Heading' = Heading
  BY <1>1 DEF Heading
<1>3. Serving <=> (pc \in {"stop1", "stop2"} /\ MotorOn)
  BY <1>1 DEF Serving
<1>4. Serving' <=> (pc' = "stop2" /\ MotorOn')
  BY <1>1 DEF Serving
<1>5. CASE UNCHANGED <<pwmForward, pwmBackward>>
  <2>1. MotorOn' <=> MotorOn
    BY <1>5 DEF MotorOn
  <2>2. pc \in {"stop1", "halt1"} \/ ~MotorOn
    BY <1>5 DEF StopBackward, StopForward, MotorOn, IInv, PinsByLabel
  <2>3. pc \in {"stop1", "halt1"} => (pc' = "stop2" <=> pc = "stop1")
    BY DEF StopBackward, StopForward
  <2>4. Serving' <=> Serving
    BY <1>3, <1>4, <2>1, <2>2, <2>3
  <2>5. QED
    BY <1>1, <1>2, <1>5, <2>4, HiddenStep
<1>6. CASE ~UNCHANGED <<pwmForward, pwmBackward>>
  <2>1. MotorOn /\ ~MotorOn'
    BY <1>6 DEF StopBackward, StopForward, MotorOn, IInv, TypeOK, PinsByLabel,
       NeverBothDirections
  <2>2. Motor # "off" /\ Motor' = "off"
    BY <2>1, MotorValue DEF MotorOn, Motor
  <2>3. Serving' = FALSE
    BY <1>4, <2>1 DEF Serving
  <2>4. CASE Serving
    BY <1>1, <1>2, <2>2, <2>3, <2>4 DEF AbstractDoor!Stop
  <2>5. CASE ~Serving
    <3>1. Serving' = Serving
      BY <1>4, <2>1, <2>5 DEF Serving
    <3>2. QED
      BY <1>1, <1>2, <2>2, <2>5, <3>1 DEF AbstractDoor!TimeOut
  <2>6. QED
    BY <2>4, <2>5
<1>7. QED
  BY <1>5, <1>6

(* Every step of the loop is one of the door or hidden.                    *)
LEMMA RefinementStep ==
  ASSUME RInv, IInv', [Next]_vars
  PROVE  [AbstractDoor!Next]_AbstractDoor!vars
<1> USE DEF RInv
<1>1. CASE ReadSwitch
  <2>1. /\ UNCHANGED <<pwmForward, pwmBackward, porteGarageDir>>
        /\ pc = "switch" /\ pc' = "action"
    BY <1>1 DEF ReadSwitch, door, pins
  <2>2. Heading' = Heading /\ (Serving' <=> Serving)
    BY <2>1 DEF Heading, Serving
  <2>3. actionPorteGarage' = TRUE \/ actionPorteGarage' = actionPorteGarage
    BY <1>1, Zenon DEF ReadSwitch, IInv, TypeOK
  <2>4. QED
    BY <2>1, <2>2, <2>3, HiddenStep, PressStep DEF AbstractDoor!Next
<1>2. CASE TestAction \/ ToggleStop \/ ToggleStart \/ ForwardRelease
           \/ BackwardRelease \/ TimeoutStop \/ EndOfPass \/ FlipSwitch \/ Tick
           \/ UNCHANGED vars
  <2>1. UNCHANGED <<pwmForward, pwmBackward, actionPorteGarage>>
    BY <1>2 DEF TestAction, ToggleStop, ToggleStart, ForwardRelease,
       BackwardRelease, TimeoutStop, EndOfPass, FlipSwitch, Tick, vars, pins,
       IInv, PinsByLabel, NeverBothDirections, MotorOn, TypeOK
  <2>2. Heading' = Heading
    BY <1>2 DEF TestAction, ToggleStop, ToggleStart, ForwardRelease,
       BackwardRelease, TimeoutStop, EndOfPass, FlipSwitch, Tick, vars, door, Heading
  <2>3. MotorOn' <=> MotorOn
    BY <2>1 DEF MotorOn
  <2>4. Serving' <=> Serving
    BY <1>2, <2>3 DEF TestAction, ToggleStop, ToggleStart, ForwardRelease,
       BackwardRelease, TimeoutStop, EndOfPass, FlipSwitch, Tick, vars, Serving,
       IInv, PinsByLabel, AtRest
  <2>5. QED
    BY <2>1, <2>2, <2>4, HiddenStep
<1>3. CASE ClearAction
  <2>1. /\ UNCHANGED <<pwmForward, pwmBackward, porteGarageDir>>
        /\ pc = "clear" /\ pc' = "toggle"
    BY <1>3 DEF ClearAction, pins
  <2>2. actionPorteGarage /\ actionPorteGarage' = FALSE
    BY <1>3, <2>1, Zenon DEF ClearAction, RequestKept
  <2>3. Motor' = Motor /\ Heading' = Heading
    BY <2>1 DEF Motor, Heading
  <2>4. ~Serving /\ Serving' = TRUE
    BY <2>1 DEF Serving
  <2>5. AbstractDoor!Take
    BY <2>2, <2>3, <2>4, Zenon DEF AbstractDoor!Take
  <2>6. QED
    BY <2>5 DEF AbstractDoor!Next
<1>4. CASE StopBackward \/ StopForward
  BY <1>4, StopStep DEF AbstractDoor!Next
<1>5. CASE ForwardDrive \/ BackwardDrive
  BY <1>5, StartStep DEF AbstractDoor!Next
<1>6. CASE RadioAction
  <2>1. /\ UNCHANGED <<pwmForward, pwmBackward, porteGarageDir, pc>>
        /\ actionPorteGarage' = TRUE
    BY <1>6, Zenon DEF RadioAction, door, pins
  <2>2. MotorOn' <=> MotorOn
    BY <2>1 DEF MotorOn
  <2>3. Heading' = Heading /\ (Serving' <=> Serving)
    BY <2>1, <2>2 DEF Heading, Serving
  <2>4. QED
    BY <2>1, <2>3, PressStep DEF AbstractDoor!Next
<1>7. CASE Reset
  <2>1. Motor' = "off" /\ Heading' = "forward" /\ Serving' = FALSE
    BY <1>7 DEF Reset, Motor, Heading, Serving, MotorOn
  <2>2. actionPorteGarage' = FALSE
    BY <1>7, Zenon DEF Reset
  <2>3. QED
    BY <2>1, <2>2, Zenon DEF AbstractDoor!Restart, AbstractDoor!Next
<1>8. QED
  BY <1>1, <1>2, <1>3, <1>4, <1>5, <1>6, <1>7 DEF Next, Loop

(* The loop and its interrupts implement the abstract door, whatever the   *)
(* constants: runs alternate, each start answers a request, each stop a    *)
(* request or the time-out.                                                *)
THEOREM LoopImplementsDoor == Spec => ImplementsDoor
<1>1. Init => AbstractDoor!Init
  <2> SUFFICES ASSUME Init PROVE AbstractDoor!Init
    OBVIOUS
  <2>1. Motor = "off" /\ Heading = "forward" /\ Serving = FALSE
    BY DEF Init, Motor, Heading, Serving, MotorOn
  <2>2. actionPorteGarage = FALSE
    BY Zenon DEF Init
  <2>3. QED
    BY <2>1, <2>2, Zenon DEF AbstractDoor!Init
<1>2. Init => RInv
  BY InitIInv DEF RInv, RequestKept, Init
<1>3. RInv /\ [Next]_vars => RInv'
  BY TypeNext, PinsNext, ClockNext, RequestKeptNext DEF RInv, IInv
<1>4. RInv /\ RInv' /\ [Next]_vars => [AbstractDoor!Next]_AbstractDoor!vars
  BY RefinementStep DEF RInv
<1>5. QED
  BY <1>1, <1>2, <1>3, <1>4, PTL DEF Spec, ImplementsDoor, AbstractDoor!Spec

=============================================================================
