------------------------------- MODULE Garage -------------------------------
(***************************************************************************)
(* The garage receiver as a whole: the radio interrupt, which puts what it *)
(* hears to the known remotes (RemoteTable), ends programming mode and     *)
(* asks for the door; loop(), which serves the console (Console) and then  *)
(* the door (Door); Timer 3, the wall switch and power failures.  They meet*)
(* in progModeEnabled and actionPorteGarage.                               *)
(*                                                                         *)
(* The EEPROM and the places of the table are below RemoteTable, which     *)
(* RemoteRegistry implements; the pins, the clock and the statements of    *)
(* the door's code are below Door, which DoorLoop implements.              *)
(***************************************************************************)
EXTENDS Integers, FiniteSets

CONSTANTS
  ByteMod,      (* a byte of an address counts modulo this (2^8)            *)
  Remotes, MAX_REMOTES, Window, CodeMod, Frames, Garbled, NoFrame,
  ProgSeconds, MaxLag,
  Typed,        (* bound: the keys that are typed                           *)
  MaxRestarts   (* bound: power failures                                    *)

ASSUME GarageAssumption ==
  /\ ProgSeconds \in Nat \ {0} /\ MaxLag \in Nat \ {0}
  /\ Typed \subseteq {"p", "1", "0", "unknown", "quiet"}
  /\ Window \in Nat /\ CodeMod \in Nat /\ 0 < Window /\ Window <= CodeMod
  /\ NoFrame \notin Frames /\ Garbled \notin Frames
  /\ ByteMod \in Nat \ {0} /\ Remotes \subseteq [1 .. 3 -> 0 .. ByteMod - 1]
  /\ NoFrame \notin [1 .. 3 -> 0 .. ByteMod - 1]
  /\ \A f \in Frames : f.address \in Remotes /\ f.code \in 0 .. CodeMod - 1

Codes     == 0 .. CodeMod - 1
Addresses == [1 .. 3 -> 0 .. ByteMod - 1]
Blank     == [k \in 1 .. 3 |-> ByteMod - 1]   \* as in EEPROM never written

VARIABLES
  at,           (* where loop() is: in the console's part or at the wall    *)
                (* switch, the test of the flag, the toggle, the time-out   *)
  pc, wanted, requestProgMode, progModeEnabled, progModeSeconds,
  switchedOn, switchedOnSeconds, device, lag, sinceRequest,    \* Console
  motor, heading, actionPorteGarage, serving,                  \* Door
  edge,         (* the wall switch has been flipped since loop() read it    *)
  codes, last, admitted, intact,                               \* RemoteTable
  isr,          (* the frame in processFrame(), or NoFrame                  *)
  place,        (* the remote in the place that was looked up, NoFrame if it*)
                (* is there in an earlier place, too                        *)
  valid,        (* whether that place takes the frame's code                *)
  asked,        (* history: p was typed since power came                    *)
  entitled,     (* history: somebody who may ask for the door has           *)
  granted,      (* history: that was so for the request being served        *)
  restarts      (* counted for the bound                                    *)

Serial    == INSTANCE Console
GarageDoor == INSTANCE Door WITH request <- actionPorteGarage
Table     == INSTANCE RemoteTable WITH open <- progModeEnabled

(* What only one component has; progModeEnabled belongs to two.            *)
consoleVars == <<pc, wanted, requestProgMode, progModeSeconds, switchedOn,
                 switchedOnSeconds, device, lag, sinceRequest>>
doorVars    == <<motor, heading, actionPorteGarage, serving>>
tableVars   == <<codes, last, admitted, intact>>
radioVars   == <<isr, place, valid>>
history     == <<asked, entitled, granted, restarts>>
vars        == <<at, consoleVars, progModeEnabled, doorVars, edge, tableVars,
                 radioVars, history>>

Init ==
  /\ at = "console"
  /\ Serial!Init /\ GarageDoor!Init /\ Table!Init
  /\ edge = FALSE
  /\ isr = NoFrame /\ place = NoFrame /\ valid = FALSE
  /\ asked = FALSE /\ entitled = FALSE /\ granted = FALSE /\ restarts = 0

-----------------------------------------------------------------------------
(* loop().  It stands still while the radio interrupt runs.                *)
Idle == isr = NoFrame

SerialStep ==
  \/ \E key \in Typed : Serial!ParseSerial(key)
  \/ Serial!NothingToRead
  \/ Serial!ToggleSeconds \/ Serial!ToggleSwitched \/ Serial!TogglePin
  \/ Serial!TakeRequest \/ Serial!ProgSecondsReset \/ Serial!ProgEnable
  \/ Serial!NoRequest

ConsoleStep ==
  /\ Idle /\ at = "console"
  /\ SerialStep
  /\ at' = IF pc' = "serial" THEN "switch" ELSE "console"
  /\ asked' = (asked \/ requestProgMode')
  /\ UNCHANGED <<doorVars, edge, tableVars, radioVars, entitled, granted, restarts>>

(* Command r.                                                              *)
ResetCommand ==
  /\ Idle /\ at = "console"
  /\ Serial!ParseSerial("quiet")
  /\ Table!ForgetAll
  /\ UNCHANGED <<at, doorVars, edge, radioVars, history>>

DoorRest == <<consoleVars, progModeEnabled, tableVars, radioVars, asked, restarts>>

(* Mutant: the flag is assigned, not set: a remote's request is lost.       *)
ReadSwitchOverwrites ==
  /\ Idle /\ at = "switch" /\ at' = "action"
  /\ edge' = FALSE
  /\ entitled' = (entitled \/ edge)
  /\ actionPorteGarage' = edge
  /\ UNCHANGED <<motor, heading, serving, granted, DoorRest>>

(* Either edge of the wall switch is a request; two that loop() has not    *)
(* seen are none.                                                          *)
ReadSwitch ==
  /\ Idle /\ at = "switch" /\ at' = "action"
  /\ edge' = FALSE
  /\ entitled' = (entitled \/ edge)
  /\ IF edge THEN GarageDoor!Press ELSE UNCHANGED doorVars
  /\ UNCHANGED <<granted, DoorRest>>

(* The flag is cleared after its test: what comes in between is merged.    *)
TestAction ==
  /\ Idle /\ at = "action"
  /\ at' = IF actionPorteGarage THEN "clear" ELSE "timeout"
  /\ UNCHANGED <<doorVars, edge, entitled, granted, DoorRest>>

ClearAction ==
  /\ Idle /\ at = "clear" /\ at' = "toggle"
  /\ GarageDoor!Take
  /\ granted' = entitled /\ entitled' = FALSE
  /\ UNCHANGED <<edge, DoorRest>>

Toggle ==
  /\ Idle /\ at = "toggle" /\ at' = "timeout"
  /\ GarageDoor!Start \/ GarageDoor!Stop
  /\ UNCHANGED <<edge, entitled, granted, DoorRest>>

(* The time is up, or not yet.                                             *)
TestTimeout ==
  /\ Idle /\ at = "timeout" /\ at' = "console"
  /\ GarageDoor!TimeOut \/ UNCHANGED doorVars
  /\ UNCHANGED <<edge, entitled, granted, DoorRest>>

Loop == \/ ConsoleStep \/ ResetCommand
        \/ ReadSwitch \/ TestAction \/ ClearAction \/ Toggle \/ TestTimeout

-----------------------------------------------------------------------------
(* The radio interrupt: a frame that differs from the last one.            *)

Takes(code, stored) == (code - stored + CodeMod) % CodeMod < Window

Hearing == Idle /\ UNCHANGED <<at, doorVars, edge, asked, granted, restarts>>

(* The frame goes on to the check of its code, at place p.                 *)
Entitle(f) ==
  entitled' = (entitled \/ (f.address \in Table!Known /\ valid' /\ f.button = "door"))

LookUp(f, p) ==
  /\ isr' = f /\ place' = p
  /\ valid' = Takes(f.code, IF p \in Table!Known' THEN codes'[p] ELSE codes[p])
  /\ Entitle(f)

(* The same at a place whose remote has an earlier one, which only a power *)
(* failure can leave: its code is any.                                     *)
LookUpSecond(f) ==
  /\ ~intact
  /\ isr' = f /\ place' = NoFrame
  /\ valid' \in BOOLEAN
  /\ Entitle(f)

Return == isr' = NoFrame /\ place' = NoFrame /\ valid' = FALSE

(* A garbled frame and, outside programming mode, that of an unknown remote*)
(* are ignored.                                                            *)
HearNothing ==
  /\ Hearing /\ Table!Ignore
  /\ last' # Garbled => last'.address \notin Table!Known
  /\ UNCHANGED <<consoleVars, progModeEnabled, radioVars, entitled>>

HearKnown(f) ==
  /\ Hearing /\ Table!Ignore
  /\ last' = f /\ f.address \in Table!Known
  /\ LookUp(f, f.address)
  /\ UNCHANGED <<consoleVars, progModeEnabled>>

Full == Cardinality(Table!Known) >= MAX_REMOTES - 1

(* Mutant: the remote that is added may move the door at once.              *)
AddRemoteAndAct(f) ==
  /\ Hearing /\ Serial!ProgFrame
  /\ Table!Refuse(f) \/ (~Full /\ Table!Admit(f))
  /\ isr' = f /\ place' = f.address /\ valid' = TRUE
  /\ UNCHANGED entitled

(* After a power failure remotes that are there twice may fill the table.  *)
AddRemote(f) ==
  /\ Hearing /\ Serial!ProgFrame
  /\ Table!Refuse(f) \/ (~Full /\ Table!Admit(f))
  /\ UNCHANGED <<radioVars, entitled>>

(* The code is checked against the remote that has moved into the place of *)
(* the one deleted, or against what is left of that one if it was the last.*)
DeleteRemote(f) ==
  /\ Hearing /\ Serial!ProgFrame
  /\ Table!Forget(f)
  /\ LookUpSecond(f) \/ \E p \in Table!Known : LookUp(f, p)

(* Mutant: the code is stored though its remote was the last and is deleted.*)
CheckValidRevives ==
  /\ isr # NoFrame /\ valid
  /\ IF place # NoFrame
     THEN codes' = Table!Put(place, isr.code) ELSE UNCHANGED codes
  /\ IF isr.button = "door" THEN GarageDoor!Press ELSE UNCHANGED doorVars
  /\ Return
  /\ UNCHANGED <<at, consoleVars, progModeEnabled, edge, last, admitted,
                 intact, history>>

(* A valid code is stored, and UP, DOWN and INVERT ask for the door.       *)
CheckValid ==
  /\ isr # NoFrame /\ valid
  /\ IF place \in Table!Known
     THEN codes' = Table!Put(place, isr.code) ELSE UNCHANGED codes
  /\ IF isr.button = "door" THEN GarageDoor!Press ELSE UNCHANGED doorVars
  /\ Return
  /\ UNCHANGED <<at, consoleVars, progModeEnabled, edge, last, admitted,
                 intact, history>>

CheckInvalid ==
  /\ isr # NoFrame /\ ~valid
  /\ Return
  /\ UNCHANGED <<at, consoleVars, progModeEnabled, doorVars, edge, tableVars,
                 history>>

Hear == HearNothing \/ \E f \in Frames : HearKnown(f) \/ AddRemote(f) \/ DeleteRemote(f)

-----------------------------------------------------------------------------
(* Timer 3 waits for the radio interrupt; the wall switch and power do not.*)
Second ==
  /\ Idle /\ Serial!Second
  /\ UNCHANGED <<at, doorVars, edge, tableVars, radioVars, history>>

FlipSwitch ==
  /\ edge' = ~edge
  /\ UNCHANGED <<at, doorVars, consoleVars, progModeEnabled, tableVars, radioVars,
                 history>>

(* loadRemotes takes what the EEPROM holds: remotes that RAM may have      *)
(* forgotten, with codes that may be others, and torn addresses.           *)
Torn == {x \in Addresses : Table!Pieced(x)}

Restart ==
  /\ restarts < MaxRestarts
  /\ restarts' = restarts + 1
  /\ at' = "console"
  /\ Serial!Restart /\ GarageDoor!Restart
  /\ edge' = FALSE
  /\ \E kept \in SUBSET Torn :
       Cardinality(kept) <= MAX_REMOTES - 1 /\ codes' \in [kept -> Codes]
  /\ Table!Restart
  /\ Return
  /\ asked' = FALSE /\ entitled' = FALSE /\ granted' = FALSE

Next == \/ Loop \/ Hear \/ CheckValid \/ CheckInvalid
        \/ Second \/ FlipSwitch \/ Restart

Spec == Init /\ [][Next]_vars

(* The radio interrupt returns, Timer 3 runs, and loop() goes on: however  *)
(* often it is interrupted, it is not for ever.                            *)
FairSpec == /\ Spec
            /\ WF_vars(CheckValid \/ CheckInvalid)
            /\ SF_vars(Loop) /\ SF_vars(Second)

-----------------------------------------------------------------------------
(* Each component finds in the others what its own module takes them to be:*)
(* what was shown of it alone holds of the whole.                          *)
KeepsComponents == Serial!Spec /\ GarageDoor!Spec /\ Table!Spec
ImplementsComponents == KeepsComponents /\ Serial!FairSpec

(* A remote is admitted only while an operator's request for programming   *)
(* mode, made since power came, is not older than its time and the latency *)
(* of loop(); and what becomes known without such a request is brought back*)
(* by a power failure, from the bytes of remotes that were admitted so.    *)
InTime == asked /\ sinceRequest < ProgSeconds + MaxLag

AdmittedInTime ==
  [][/\ admitted' = admitted \/ InTime
     /\ \A x \in Table!Known' \ Table!Known :
          InTime \/ (restarts' # restarts /\ Table!Pieced(x))]_vars

(* The motor is started only for somebody entitled to it: the wall switch, *)
(* or a door frame, not the last one again, of a remote known when it came,*)
(* with a code that is valid for the place of the table it is checked at.  *)
StartedByRight ==
  [][motor = "off" /\ motor' # "off" => granted]_vars

(* A request starts the stopped door and stops the moving one, whatever the*)
(* console, the timer and the radio do, unless the power fails.            *)
Waiting == actionPorteGarage /\ restarts = MaxRestarts

RequestHeeded ==
  /\ Waiting /\ motor = "off" ~> motor # "off"
  /\ Waiting /\ motor # "off" ~> motor = "off"
=============================================================================
