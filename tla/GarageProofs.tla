---------------------------- MODULE GarageProofs ----------------------------
(***************************************************************************)
(* Machine-checked proofs about Garage: each component finds in the others *)
(* what its own module takes them to be, so that what was proved of the    *)
(* console alone holds of the whole; and nobody who is not entitled starts *)
(* the motor or becomes known.                                             *)
(***************************************************************************)
EXTENDS Garage, TLAPS

ConsoleFacts == INSTANCE ConsoleProofs

-----------------------------------------------------------------------------
(* The console.                                                            *)

LEMMA ConsoleStepIsSerial == SerialStep => Serial!Next
BY GarageAssumption
   DEF GarageAssumption, SerialStep, Serial!Next, Serial!Loop, Serial!Keys

LEMMA StepIsSerial == [Next]_vars => [Serial!Next]_(Serial!vars)
<1> SUFFICES ASSUME [Next]_vars PROVE [Serial!Next]_(Serial!vars)
  OBVIOUS
<1> DEFINE Quiet == UNCHANGED <<consoleVars, progModeEnabled>>
<1>1. Quiet => UNCHANGED Serial!vars
  BY DEF consoleVars, Serial!vars, Serial!prog, Serial!switch, Serial!time
<1>2. CASE ConsoleStep  BY <1>2, ConsoleStepIsSerial DEF ConsoleStep
<1>3. CASE ResetCommand
  BY <1>3 DEF ResetCommand, Serial!Next, Serial!Loop, Serial!Keys
<1>4. CASE ReadSwitch \/ TestAction \/ ClearAction \/ Toggle \/ TestTimeout
  BY <1>4, <1>1 DEF ReadSwitch, TestAction, ClearAction, Toggle, TestTimeout, DoorRest
<1>5. CASE HearNothing  BY <1>5, <1>1 DEF HearNothing
<1>6. ASSUME NEW f \in Frames, HearKnown(f) PROVE Quiet
  BY <1>6 DEF HearKnown
<1>7. ASSUME NEW f \in Frames, AddRemote(f) \/ DeleteRemote(f) PROVE Serial!Next
  BY <1>7 DEF AddRemote, DeleteRemote, Serial!Next
<1>8. CASE CheckValid \/ CheckInvalid \/ FlipSwitch
  BY <1>8, <1>1 DEF CheckValid, CheckInvalid, FlipSwitch
<1>9. CASE Second       BY <1>9 DEF Second, Serial!Next
<1>10. CASE Restart     BY <1>10 DEF Restart, Serial!Next
<1>11. CASE UNCHANGED vars  BY <1>11, <1>1 DEF vars
<1>12. QED
  BY <1>1, <1>2, <1>3, <1>4, <1>5, <1>6, <1>7, <1>8, <1>9, <1>10, <1>11
     DEF Next, Loop, Hear

-----------------------------------------------------------------------------
(* The door.                                                               *)

LEMMA StepIsDoor == [Next]_vars => [GarageDoor!Next]_(GarageDoor!vars)
<1> SUFFICES ASSUME [Next]_vars PROVE [GarageDoor!Next]_(GarageDoor!vars)
  OBVIOUS
<1> USE DEF GarageDoor!Next
<1>1. UNCHANGED doorVars => UNCHANGED GarageDoor!vars
  BY DEF doorVars, GarageDoor!vars
<1>2. CASE ConsoleStep \/ ResetCommand
  BY <1>2, <1>1 DEF ConsoleStep, ResetCommand
<1>3. CASE ReadSwitch   BY <1>3, <1>1 DEF ReadSwitch
<1>4. CASE TestAction   BY <1>4, <1>1 DEF TestAction
<1>5. CASE ClearAction  BY <1>5 DEF ClearAction
<1>6. CASE Toggle       BY <1>6 DEF Toggle
<1>7. CASE TestTimeout  BY <1>7, <1>1 DEF TestTimeout
<1>8. CASE Hear
  BY <1>8, <1>1 DEF Hear, HearNothing, HearKnown, AddRemote, DeleteRemote, Hearing
<1>9. CASE CheckValid   BY <1>9, <1>1 DEF CheckValid
<1>10. CASE CheckInvalid \/ Second \/ FlipSwitch
  BY <1>10, <1>1 DEF CheckInvalid, Second, FlipSwitch
<1>11. CASE Restart     BY <1>11 DEF Restart
<1>12. CASE UNCHANGED vars  BY <1>12, <1>1 DEF vars
<1>13. QED
  BY <1>2, <1>3, <1>4, <1>5, <1>6, <1>7, <1>8, <1>9, <1>10, <1>11, <1>12
     DEF Next, Loop

-----------------------------------------------------------------------------
(* The table of remotes.                                                   *)

(* What is being processed is a frame, and codes are codes.                *)
Typed1 ==
  /\ Table!Known \subseteq Addresses
  /\ \A a \in Table!Known : codes[a] \in Codes
  /\ isr \in Frames \cup {NoFrame}

(* A code found valid is still so when it is stored, if its remote is.     *)
StillValid ==
  isr # NoFrame /\ valid /\ place \in Table!Known => Takes(isr.code, codes[place])

TableInv == Typed1 /\ StillValid

(* A code that a place takes is ahead of its own by less than the window.  *)
LEMMA TakesIsAhead ==
  ASSUME NEW c \in Codes, NEW s \in Codes, Takes(c, s)
  PROVE  \E n \in 0 .. Window - 1 : (s + n) % CodeMod = c
<1> USE GarageAssumption DEF GarageAssumption, Codes
<1> DEFINE n == IF c >= s THEN c - s ELSE c - s + CodeMod
<1>1. n \in 0 .. CodeMod - 1
  OBVIOUS
<1>2. (c - s + CodeMod) % CodeMod = n
  <2>1. CASE c >= s
    <3>1. c - s + CodeMod = CodeMod * 1 + n /\ n \in 0 .. CodeMod - 1
      BY <2>1, <1>1
    <3>2. QED
      BY <3>1
  <2>2. CASE ~(c >= s)
    <3>1. c - s + CodeMod = n
      BY <2>2
    <3>2. QED
      BY <3>1, <1>1
  <2>3. QED
    BY <2>1, <2>2
<1>3. n \in 0 .. Window - 1
  BY <1>1, <1>2 DEF Takes
<1>4. (s + n) % CodeMod = c
  <2>1. CASE c >= s
    BY <2>1
  <2>2. CASE ~(c >= s)
    <3>1. s + n = c + CodeMod
      BY <2>2
    <3>2. QED
      BY <3>1
  <2>3. QED
    BY <2>1, <2>2
<1>5. QED
  BY <1>3, <1>4

(* What the table's operators leave in it.                                 *)
LEMMA PutKeepsTypes ==
  ASSUME Typed1, NEW a \in Addresses, NEW c \in Codes, codes' = Table!Put(a, c)
  PROVE  Table!Known' \subseteq Addresses /\ \A b \in Table!Known' : codes'[b] \in Codes
BY DEF Typed1, Table!Known, Table!Put

LEMMA DropKeepsTypes ==
  ASSUME Typed1, NEW a, codes' = Table!Drop(a)
  PROVE  /\ Table!Known' = Table!Known \ {a}
         /\ \A b \in Table!Known' : codes'[b] = codes[b] /\ codes'[b] \in Codes
BY DEF Typed1, Table!Known, Table!Drop

LEMMA TableInvInit == Init => TableInv
BY GarageAssumption
   DEF GarageAssumption, Init, Table!Init, Table!Nothing, Table!Known, TableInv, Typed1,
       StillValid

(* What is found valid is, if the remote of the place is known after it.   *)
LEMMA LookUpStillValid ==
  ASSUME NEW f \in Frames, NEW p, LookUp(f, p) PROVE StillValid'
BY DEF LookUp, StillValid, Takes

LEMMA TableInvNext == TableInv /\ [Next]_vars => TableInv'
<1> SUFFICES ASSUME TableInv, [Next]_vars PROVE TableInv'
  OBVIOUS
<1> USE DEF TableInv
<1> DEFINE Quiet == UNCHANGED <<codes, isr, place, valid>>
<1>1. Quiet => TableInv'
  BY DEF Typed1, StillValid, Table!Known, Takes
<1>2. isr' = NoFrame /\ Table!Known' \subseteq Addresses
        /\ (\A b \in Table!Known' : codes'[b] \in Codes) => TableInv'
  BY DEF Typed1, StillValid
<1>3. CASE ConsoleStep
  BY <1>3, <1>1 DEF ConsoleStep, tableVars, radioVars
<1>4. CASE ResetCommand
  <2>1. isr' = NoFrame /\ codes' = Table!Nothing
    BY <1>4 DEF ResetCommand, Idle, radioVars, Table!ForgetAll
  <2>2. QED
    BY <2>1, <1>2 DEF Table!Nothing, Table!Known
<1>5. CASE ReadSwitch \/ TestAction \/ ClearAction \/ Toggle \/ TestTimeout
  BY <1>5, <1>1 DEF ReadSwitch, TestAction, ClearAction, Toggle, TestTimeout, DoorRest,
     tableVars, radioVars
<1>6. CASE HearNothing
  BY <1>6, <1>1 DEF HearNothing, Table!Ignore, radioVars
<1>7. ASSUME NEW f \in Frames, HearKnown(f) PROVE TableInv'
  <2>1. codes' = codes /\ LookUp(f, f.address)
    BY <1>7 DEF HearKnown, Table!Ignore
  <2>2. Typed1'
    BY <2>1 DEF LookUp, Typed1, Table!Known
  <2>3. QED
    BY <1>7, <2>1, <2>2, LookUpStillValid
<1>8. ASSUME NEW f \in Frames, AddRemote(f) PROVE TableInv'
  <2>1. isr = NoFrame /\ isr' = isr
    BY <1>8 DEF AddRemote, Hearing, Idle, radioVars
  <2>2. CASE codes' = codes
    BY <2>1, <2>2, <1>2 DEF Typed1, Table!Known
  <2>3. CASE codes' = Table!Put(f.address, f.code)
    <3>1. f.address \in Addresses /\ f.code \in Codes
      BY GarageAssumption DEF GarageAssumption, Codes, Addresses
    <3>2. QED
      BY <2>1, <2>3, <3>1, PutKeepsTypes, <1>2
  <2>4. QED
    BY <1>8, <2>2, <2>3 DEF AddRemote, Table!Refuse, Table!Admit
<1>9. ASSUME NEW f \in Frames, DeleteRemote(f) PROVE TableInv'
  <2>1. Table!Known' \subseteq Addresses /\ \A b \in Table!Known' : codes'[b] \in Codes
    <3>1. CASE codes' = Table!Drop(f.address)
      <4>1. QED
        BY <3>1, DropKeepsTypes DEF Typed1
    <3>2. CASE \E c \in Codes : codes' = Table!Put(f.address, c)
      <4>1. f.address \in Addresses
        BY GarageAssumption DEF GarageAssumption, Addresses
      <4>2. QED
        BY <3>2, <4>1, PutKeepsTypes
    <3>3. QED
      BY <1>9, <3>1, <3>2 DEF DeleteRemote, Table!Forget, Codes
  <2>2. CASE \E p \in Table!Known : LookUp(f, p)
    <3>1. PICK p \in Table!Known : LookUp(f, p)
      BY <2>2
    <3>2. isr' = f
      BY <3>1 DEF LookUp
    <3>3. QED
      BY <2>1, <3>1, <3>2, LookUpStillValid DEF Typed1
  <2>3. CASE LookUpSecond(f)
    <3>1. isr' = f /\ place' = NoFrame /\ NoFrame \notin Addresses
      BY <2>3, GarageAssumption DEF LookUpSecond, GarageAssumption, Addresses
    <3>2. QED
      BY <2>1, <3>1 DEF Typed1, StillValid
  <2>4. QED
    BY <1>9, <2>2, <2>3 DEF DeleteRemote
<1>10. CASE CheckValid
  <2>1. isr' = NoFrame /\ isr \in Frames
    BY <1>10 DEF CheckValid, Return, Typed1
  <2>2. CASE codes' = codes
    BY <2>1, <2>2, <1>2 DEF Typed1, Table!Known
  <2>3. CASE place \in Table!Known /\ codes' = Table!Put(place, isr.code)
    <3>1. place \in Addresses /\ isr.code \in Codes
      BY <2>1, <2>3, GarageAssumption DEF GarageAssumption, Codes, Typed1
    <3>2. QED
      BY <2>1, <2>3, <3>1, PutKeepsTypes, <1>2
  <2>4. QED
    BY <1>10, <2>2, <2>3 DEF CheckValid
<1>11. CASE CheckInvalid
  BY <1>11, <1>2 DEF CheckInvalid, Return, tableVars, Typed1, Table!Known
<1>12. CASE Second \/ FlipSwitch
  BY <1>12, <1>1 DEF Second, FlipSwitch, tableVars, radioVars
<1>13. CASE Restart
  <2>1. PICK kept \in SUBSET Torn : codes' \in [kept -> Codes]
    BY <1>13 DEF Restart
  <2>2. Table!Known' \subseteq Addresses /\ \A b \in Table!Known' : codes'[b] \in Codes
    BY <2>1 DEF Torn, Table!Known
  <2>3. QED
    BY <1>13, <2>2, <1>2 DEF Restart, Return
<1>14. CASE UNCHANGED vars
  BY <1>14, <1>1 DEF vars, tableVars, radioVars
<1>15. QED
  BY <1>3, <1>4, <1>5, <1>6, <1>7, <1>8, <1>9, <1>10, <1>11, <1>12, <1>13, <1>14
     DEF Next, Loop, Hear

(* Storing a valid code is a step ahead of the abstract table.             *)
LEMMA CheckValidAdvances ==
  ASSUME TableInv, CheckValid, place \in Table!Known PROVE Table!Next
<1>1. isr \in Frames /\ isr.code \in Codes /\ place \in Table!Known
      /\ codes[place] \in Codes
  BY GarageAssumption
     DEF GarageAssumption, CheckValid, TableInv, Typed1, Codes
<1>2. Takes(isr.code, codes[place])
  BY DEF CheckValid, TableInv, StillValid
<1>3. PICK n \in 0 .. Window - 1 : (codes[place] + n) % CodeMod = isr.code
  BY <1>1, <1>2, TakesIsAhead
<1>4. codes' = Table!Put(place, (codes[place] + n) % CodeMod)
  BY <1>3 DEF CheckValid
<1>5. UNCHANGED <<progModeEnabled, last, admitted, intact>>
  BY DEF CheckValid
<1>6. Table!Advance(place)
  BY <1>4, <1>5 DEF Table!Advance
<1>7. QED
  BY <1>1, <1>6 DEF Table!Next

LEMMA ConsoleOpensOrNothing ==
  SerialStep => progModeEnabled' = TRUE \/ UNCHANGED progModeEnabled
BY DEF SerialStep, Serial!ParseSerial, Serial!NothingToRead, Serial!ToggleSeconds,
       Serial!ToggleSwitched, Serial!TogglePin, Serial!TakeRequest,
       Serial!ProgSecondsReset, Serial!ProgEnable, Serial!NoRequest, Serial!prog

LEMMA StepIsTable == TableInv /\ [Next]_vars => [Table!Next]_(Table!vars)
<1> SUFFICES ASSUME TableInv, [Next]_vars PROVE [Table!Next]_(Table!vars)
  OBVIOUS
<1> DEFINE Quiet == UNCHANGED <<tableVars, progModeEnabled>>
<1>1. Quiet => UNCHANGED Table!vars
  BY DEF tableVars, Table!vars
<1>2. CASE ConsoleStep
  BY <1>2, <1>1, ConsoleOpensOrNothing
     DEF ConsoleStep, Table!Next, Table!Open, tableVars
<1>3. CASE ResetCommand
  BY <1>3 DEF ResetCommand, Table!Next
<1>4. CASE ReadSwitch \/ TestAction \/ ClearAction \/ Toggle \/ TestTimeout
  BY <1>4, <1>1 DEF ReadSwitch, TestAction, ClearAction, Toggle, TestTimeout, DoorRest
<1>5. CASE Hear
  <2>1. Table!Ignore => Table!Next
    BY DEF Table!Next
  <2>2. ASSUME NEW f \in Frames, AddRemote(f) \/ DeleteRemote(f) PROVE Table!Next
    BY <2>2 DEF AddRemote, DeleteRemote, Table!Next
  <2>3. QED
    BY <1>5, <2>1, <2>2 DEF Hear, HearNothing, HearKnown
<1>6. CASE CheckValid
  <2>1. CASE place \in Table!Known
    BY <1>6, <2>1, CheckValidAdvances
  <2>2. CASE place \notin Table!Known
    BY <1>6, <2>2, <1>1 DEF CheckValid, tableVars
  <2>3. QED
    BY <2>1, <2>2
<1>7. CASE CheckInvalid \/ FlipSwitch
  BY <1>7, <1>1 DEF CheckInvalid, FlipSwitch
<1>8. CASE Second
  <2>1. progModeEnabled' = FALSE \/ UNCHANGED progModeEnabled
    BY <1>8 DEF Second, Serial!Second, Serial!CountProgSecond, Serial!prog
  <2>2. QED
    BY <1>8, <2>1, <1>1 DEF Second, Table!Next, Table!Close, tableVars
<1>9. CASE Restart
  BY <1>9 DEF Restart, Table!Next
<1>10. CASE UNCHANGED vars  BY <1>10, <1>1 DEF vars
<1>11. QED
  BY <1>2, <1>3, <1>4, <1>5, <1>6, <1>7, <1>8, <1>9, <1>10 DEF Next, Loop

(* The receiver keeps what each of its components promises alone.          *)
THEOREM ComponentsKept == Spec => KeepsComponents
<1>1. Init => Serial!Init /\ GarageDoor!Init /\ Table!Init
  BY DEF Init
<1>2. QED
  BY <1>1, StepIsSerial, StepIsDoor, TableInvInit, TableInvNext, StepIsTable, PTL
     DEF Spec, KeepsComponents, Serial!Spec, GarageDoor!Spec, Table!Spec

-----------------------------------------------------------------------------
(* Who may start the motor.  A flag that is set, a request being served and *)
(* a valid door frame on its way each go back to somebody entitled.        *)
Guarded ==
  /\ actionPorteGarage \in BOOLEAN /\ serving \in BOOLEAN
  /\ actionPorteGarage => entitled
  /\ serving => granted
  /\ isr # NoFrame /\ valid /\ isr.button = "door" => entitled

LEMMA GuardedInit == Init => Guarded
BY DEF Init, GarageDoor!Init, Guarded

LEMMA GuardedNext == Guarded /\ [Next]_vars => Guarded'
<1> SUFFICES ASSUME Guarded, [Next]_vars PROVE Guarded'
  OBVIOUS
<1> USE DEF Guarded
<1>1. CASE ConsoleStep \/ ResetCommand
  BY <1>1 DEF ConsoleStep, ResetCommand, doorVars, radioVars, history
<1>2. CASE ReadSwitch
  BY <1>2 DEF ReadSwitch, GarageDoor!Press, doorVars, DoorRest, radioVars
<1>3. CASE TestAction \/ TestTimeout
  BY <1>3 DEF TestAction, TestTimeout, GarageDoor!TimeOut, doorVars, DoorRest, radioVars
<1>4. CASE ClearAction
  BY <1>4 DEF ClearAction, Idle, GarageDoor!Take, DoorRest, radioVars
<1>5. CASE Toggle
  <2>1. UNCHANGED <<actionPorteGarage, entitled, granted, isr, valid>> /\ serving' = FALSE
    BY <1>5, Zenon DEF Toggle, GarageDoor!Start, GarageDoor!Stop, DoorRest, radioVars
  <2>2. QED
    BY <2>1
<1>6. CASE HearNothing
  BY <1>6 DEF HearNothing, Hearing, doorVars, radioVars
<1>7. ASSUME NEW f \in Frames, HearKnown(f) PROVE Guarded'
  BY <1>7 DEF HearKnown, Hearing, LookUp, Entitle, doorVars
<1>8. ASSUME NEW f \in Frames, AddRemote(f) PROVE Guarded'
  BY <1>8 DEF AddRemote, Hearing, doorVars, radioVars
<1>9. ASSUME NEW f \in Frames, DeleteRemote(f) PROVE Guarded'
  BY <1>9 DEF DeleteRemote, Table!Forget, Hearing, LookUp, LookUpSecond, Entitle, doorVars
<1>10. CASE CheckValid
  BY <1>10 DEF CheckValid, Return, GarageDoor!Press, doorVars, history
<1>11. CASE CheckInvalid
  BY <1>11 DEF CheckInvalid, Return, doorVars, history
<1>12. CASE Second \/ FlipSwitch
  BY <1>12 DEF Second, FlipSwitch, doorVars, radioVars, history
<1>13. CASE Restart
  BY <1>13 DEF Restart, GarageDoor!Restart, Return
<1>14. CASE UNCHANGED vars
  BY <1>14 DEF vars, doorVars, radioVars, history
<1>15. QED
  BY <1>1, <1>2, <1>3, <1>4, <1>5, <1>6, <1>7, <1>8, <1>9, <1>10, <1>11, <1>12,
     <1>13, <1>14 DEF Next, Loop, Hear

(* The motor starts in Toggle alone, while a request is served.            *)
LEMMA StartIsServed ==
  ASSUME Guarded, [Next]_vars, motor = "off", motor' # "off" PROVE granted
<1>1. motor' # motor
  OBVIOUS
<1>2. ~UNCHANGED doorVars
  BY <1>1 DEF doorVars
<1>3. CASE Toggle
  BY <1>3 DEF Toggle, GarageDoor!Start, GarageDoor!Stop, Guarded
<1>4. CASE ReadSwitch \/ ClearAction \/ TestTimeout \/ CheckValid \/ Restart
  BY <1>4, <1>1, <1>2
     DEF ReadSwitch, ClearAction, TestTimeout, CheckValid, Restart, GarageDoor!Press,
         GarageDoor!Take, GarageDoor!TimeOut, GarageDoor!Restart
<1>5. CASE ConsoleStep \/ ResetCommand \/ TestAction \/ Hear \/ CheckInvalid \/ Second
           \/ FlipSwitch \/ UNCHANGED vars
  BY <1>5, <1>2
     DEF ConsoleStep, ResetCommand, TestAction, Hear, HearNothing, HearKnown, AddRemote,
         DeleteRemote, Hearing, CheckInvalid, Second, FlipSwitch, vars
<1>6. QED
  BY <1>3, <1>4, <1>5 DEF Next, Loop

(* The motor is started only for the wall switch or for a door frame of a  *)
(* remote that was known when the frame came, with a code that was valid   *)
(* for the place of the table it was checked at.                           *)
THEOREM OnlyTheEntitledStart == Spec => StartedByRight
<1>1. Guarded /\ [Next]_vars => [motor = "off" /\ motor' # "off" => granted]_vars
  BY StartIsServed
<1>2. QED
  BY <1>1, GuardedInit, GuardedNext, PTL DEF Spec, StartedByRight

-----------------------------------------------------------------------------
(* Who becomes known.  Programming mode, and the request for it on its way *)
(* through loop(), go back to a p.                                         *)
OpenIsAsked ==
  requestProgMode \/ pc \in {"reset", "enable"} \/ progModeEnabled => asked

LEMMA OpenIsAskedInit == Init => OpenIsAsked
BY DEF Init, Serial!Init, OpenIsAsked

LEMMA OpenIsAskedNext == OpenIsAsked /\ [Next]_vars => OpenIsAsked'
<1> SUFFICES ASSUME OpenIsAsked, [Next]_vars PROVE OpenIsAsked'
  OBVIOUS
<1> USE DEF OpenIsAsked
<1> DEFINE Quiet == UNCHANGED <<requestProgMode, pc, progModeEnabled, asked>>
<1>1. CASE ConsoleStep
  BY <1>1
     DEF ConsoleStep, SerialStep, Serial!ParseSerial, Serial!NothingToRead,
         Serial!ToggleSeconds, Serial!ToggleSwitched, Serial!TogglePin,
         Serial!TakeRequest, Serial!ProgSecondsReset, Serial!ProgEnable,
         Serial!NoRequest, Serial!prog
<1>2. CASE ResetCommand
  BY <1>2 DEF ResetCommand, Serial!ParseSerial, Serial!prog, history
<1>3. CASE ReadSwitch \/ TestAction \/ ClearAction \/ Toggle \/ TestTimeout
  <2>1. Quiet
    BY <1>3 DEF ReadSwitch, TestAction, ClearAction, Toggle, TestTimeout, DoorRest,
                consoleVars
  <2>2. QED
    BY <2>1
<1>4. CASE HearNothing
  BY <1>4 DEF HearNothing, Hearing, consoleVars
<1>5. ASSUME NEW f \in Frames, HearKnown(f) PROVE OpenIsAsked'
  BY <1>5 DEF HearKnown, Hearing, consoleVars
<1>6. ASSUME NEW f \in Frames, AddRemote(f) \/ DeleteRemote(f) PROVE OpenIsAsked'
  BY <1>6 DEF AddRemote, DeleteRemote, Hearing, Serial!ProgFrame
<1>7. CASE CheckValid \/ CheckInvalid \/ FlipSwitch
  BY <1>7 DEF CheckValid, CheckInvalid, FlipSwitch, consoleVars, history
<1>8. CASE Second
  BY <1>8 DEF Second, Serial!Second, Serial!CountProgSecond, Serial!prog, history
<1>9. CASE Restart
  BY <1>9 DEF Restart, Serial!Restart
<1>10. CASE UNCHANGED vars
  BY <1>10 DEF vars, consoleVars, history
<1>11. QED
  BY <1>1, <1>2, <1>3, <1>4, <1>5, <1>6, <1>7, <1>8, <1>9, <1>10
     DEF Next, Loop, Hear

(* The power failures are counted.                                         *)
TypedRestarts == restarts \in Nat

LEMMA TypedRestartsAlways == Spec => []TypedRestarts
<1>1. Init => TypedRestarts
  BY DEF Init, TypedRestarts
<1>2. TypedRestarts /\ [Next]_vars => TypedRestarts'
  <2> SUFFICES ASSUME TypedRestarts, [Next]_vars PROVE TypedRestarts'
    OBVIOUS
  <2>1. CASE Restart
    BY <2>1 DEF Restart, TypedRestarts
  <2>2. CASE ~Restart
    <3>1. restarts' = restarts
      BY <2>2
         DEF Next, Loop, Hear, ConsoleStep, ResetCommand, ReadSwitch, TestAction,
             ClearAction, Toggle, TestTimeout, DoorRest, HearNothing, HearKnown,
             AddRemote, DeleteRemote, Hearing, CheckValid, CheckInvalid, Second,
             FlipSwitch, history, vars
    <3>2. QED
      BY <3>1 DEF TypedRestarts
  <2>3. QED
    BY <2>1, <2>2
<1>3. QED
  BY <1>1, <1>2, PTL DEF Spec

(* A remote is admitted in AddRemote alone, and becomes known there or by a *)
(* power failure.                                                          *)
Opened == progModeEnabled

Growth ==
  /\ admitted' = admitted \/ Opened
  /\ \A x \in Table!Known' \ Table!Known :
       Opened \/ (restarts' # restarts /\ Table!Pieced(x))

LEMMA KnownGrowsInAddRemote == TypedRestarts /\ [Next]_vars => Growth
<1> SUFFICES ASSUME TypedRestarts, [Next]_vars PROVE Growth
  OBVIOUS
<1>1. UNCHANGED <<codes, admitted>> => Growth
  BY DEF Table!Known, Growth
<1>2. CASE ConsoleStep \/ ReadSwitch \/ TestAction \/ ClearAction \/ Toggle \/ TestTimeout
           \/ CheckInvalid \/ Second \/ FlipSwitch \/ UNCHANGED vars
  BY <1>1, <1>2
     DEF ConsoleStep, ReadSwitch, TestAction, ClearAction, Toggle, TestTimeout, DoorRest,
         CheckInvalid, Second, FlipSwitch, vars, tableVars
<1>3. CASE ResetCommand
  BY <1>3 DEF ResetCommand, Table!ForgetAll, Table!Nothing, Table!Known, Growth
<1>4. CASE HearNothing
  BY <1>4, <1>1 DEF HearNothing, Table!Ignore
<1>5. ASSUME NEW f \in Frames, HearKnown(f) PROVE Growth
  BY <1>5, <1>1 DEF HearKnown, Table!Ignore
<1>6. ASSUME NEW f \in Frames, AddRemote(f) \/ DeleteRemote(f) PROVE Growth
  BY <1>6 DEF AddRemote, DeleteRemote, Serial!ProgFrame, Growth, Opened
<1>7. CASE CheckValid
  BY <1>7, <1>1 DEF CheckValid, Table!Put, Table!Known, Growth
<1>8. CASE Restart
  <2>1. PICK kept \in SUBSET Torn : codes' \in [kept -> Codes]
    BY <1>8 DEF Restart
  <2>2. admitted' = admitted /\ restarts' # restarts
    BY <1>8 DEF Restart, Table!Restart, TypedRestarts
  <2>3. QED
    BY <2>1, <2>2 DEF Table!Known, Torn, Growth
<1>9. QED
  BY <1>2, <1>3, <1>4, <1>5, <1>6, <1>7, <1>8 DEF Next, Loop, Hear

(* What is proved of Console is proved of the console in the receiver.     *)
LEMMA SameConsole ==
  /\ Serial!Init => ConsoleFacts!Init
  /\ [Serial!Next]_(Serial!vars) => [ConsoleFacts!Next]_(ConsoleFacts!vars)
  /\ ConsoleFacts!ProgModeBounded => Serial!ProgModeBounded
<1> USE DEF
  Serial!prog, Serial!switch, Serial!time, Serial!SinceCap, Serial!Keys,
  Serial!CountProgSecond, ConsoleFacts!prog, ConsoleFacts!switch, ConsoleFacts!time,
  ConsoleFacts!SinceCap, ConsoleFacts!Keys, ConsoleFacts!CountProgSecond
<1>1. Serial!Init => ConsoleFacts!Init
  BY DEF Serial!Init, ConsoleFacts!Init
<1>2. ASSUME NEW key \in Serial!Keys, Serial!ParseSerial(key) PROVE ConsoleFacts!Next
  BY <1>2 DEF Serial!ParseSerial, ConsoleFacts!ParseSerial, ConsoleFacts!Next,
              ConsoleFacts!Loop
<1>3. Serial!Loop => ConsoleFacts!Next
  BY <1>2
     DEF Serial!Loop, Serial!NothingToRead, Serial!ToggleSeconds, Serial!ToggleSwitched,
         Serial!TogglePin, Serial!TakeRequest, Serial!ProgSecondsReset,
         Serial!ProgEnable, Serial!NoRequest, ConsoleFacts!Next, ConsoleFacts!Loop,
         ConsoleFacts!NothingToRead, ConsoleFacts!ToggleSeconds,
         ConsoleFacts!ToggleSwitched, ConsoleFacts!TogglePin, ConsoleFacts!TakeRequest,
         ConsoleFacts!ProgSecondsReset, ConsoleFacts!ProgEnable, ConsoleFacts!NoRequest
<1>4. Serial!Second \/ Serial!ProgFrame \/ Serial!Restart => ConsoleFacts!Next
  BY DEF Serial!Second, Serial!ProgFrame, Serial!Restart, ConsoleFacts!Next,
         ConsoleFacts!Second, ConsoleFacts!ProgFrame, ConsoleFacts!Restart
<1>5. QED
  BY <1>1, <1>3, <1>4
     DEF Serial!Next, Serial!vars, ConsoleFacts!vars, Serial!ProgModeBounded,
         ConsoleFacts!ProgModeBounded

(* A remote is admitted only while an operator's request for programming   *)
(* mode is not older than its time and the latency of loop(), the bound    *)
(* being the console's, which the whole receiver keeps; what becomes known *)
(* otherwise is what a power failure brings back, pieced together from the *)
(* bytes of remotes that were admitted so.                                 *)
THEOREM AdmissionIsInTime == Spec => AdmittedInTime
<1>1. Spec => []Serial!ProgModeBounded
  <2>1. ConsoleFacts!ConsoleAssumption
    BY GarageAssumption DEF GarageAssumption, ConsoleFacts!ConsoleAssumption
  <2>2. Serial!Spec => []Serial!ProgModeBounded
    <3>1. ConsoleFacts!Spec => []ConsoleFacts!ProgModeBounded
      BY <2>1, ConsoleFacts!ProgModeIsBounded
    <3>2. QED
      BY <3>1, SameConsole, PTL DEF Serial!Spec, ConsoleFacts!Spec
  <2>3. QED
    BY <2>2, ComponentsKept, PTL DEF KeepsComponents
<1>2. OpenIsAsked /\ Serial!ProgModeBounded /\ TypedRestarts /\ [Next]_vars
        => [/\ admitted' = admitted \/ InTime
            /\ \A x \in Table!Known' \ Table!Known :
                 InTime \/ (restarts' # restarts /\ Table!Pieced(x))]_vars
  BY KnownGrowsInAddRemote DEF OpenIsAsked, Serial!ProgModeBounded, Growth, Opened, InTime
<1>3. QED
  BY <1>1, <1>2, OpenIsAskedInit, OpenIsAskedNext, TypedRestartsAlways, PTL
     DEF Spec, AdmittedInTime

=============================================================================
