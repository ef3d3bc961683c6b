------------------------------ MODULE Console ------------------------------
(***************************************************************************)
(* The operator's side of arduino_porte_garage.ino: the commands read from *)
(* the serial line by loop(), the programming mode they open, the device   *)
(* output they switch, and Timer 3, the interrupt that counts the seconds. *)
(* Timer 3 and the radio interrupt fall between any two statements of      *)
(* loop().                                                                 *)
(***************************************************************************)
EXTENDS Integers

CONSTANTS
  ProgSeconds,    (* how long programming mode stays open (60)              *)
  MaxLag          (* bound: seconds that one pass of loop() can take        *)

ASSUME ConsoleAssumption ==
  /\ ProgSeconds \in Nat \ {0}
  /\ MaxLag \in Nat \ {0}

(* p opens programming mode, 1 and 0 switch the device, any other command  *)
(* that is not known switches it off; "quiet" stands for r, l, h and the   *)
(* control characters, which leave this part of the state alone.           *)
Keys == {"p", "1", "0", "unknown", "quiet"}

VARIABLES
  pc,                 (* where loop() is                                    *)
  wanted,             (* the argument of toggleSwitch() while it runs       *)
  requestProgMode,    (* parseSerial() asks loop() for programming mode     *)
  progModeEnabled, progModeSeconds,
  switchedOn, switchedOnSeconds,
  device,             (* level of the device pin                            *)
  lag,                (* seconds ticked during this pass of loop()          *)
  sinceRequest        (* history: seconds since setProgMode(true) was called*)

prog   == <<progModeEnabled, progModeSeconds>>
switch == <<switchedOn, switchedOnSeconds, device>>
time   == <<lag, sinceRequest>>
vars   == <<pc, wanted, requestProgMode, prog, switch, time>>

(* Bound: sinceRequest stops here, one above what ProgModeBounded allows.  *)
SinceCap == ProgSeconds + MaxLag

Init ==
  /\ pc = "serial"
  /\ wanted = FALSE
  /\ requestProgMode = FALSE
  /\ progModeEnabled = FALSE /\ progModeSeconds = 0
  /\ switchedOn = FALSE /\ switchedOnSeconds = 0 /\ device = FALSE
  /\ lag = 0 /\ sinceRequest = 0

-----------------------------------------------------------------------------
(* parseSerial(): the key chooses what follows.                            *)
ParseSerial(key) ==
  /\ pc = "serial"
  /\ pc' = IF key \in {"1", "0", "unknown"} THEN "seconds" ELSE "request"
  /\ wanted' = (key = "1")
  /\ requestProgMode' = (requestProgMode \/ key = "p")
  /\ UNCHANGED <<prog, switch, time>>

NothingToRead ==
  /\ pc = "serial"
  /\ pc' = "request"
  /\ UNCHANGED <<wanted, requestProgMode, prog, switch, time>>

(* toggleSwitch(wanted), statement by statement.                           *)
ToggleSeconds ==
  /\ pc = "seconds"
  /\ pc' = "switch"
  /\ switchedOnSeconds' = 0
  /\ UNCHANGED <<wanted, requestProgMode, prog, switchedOn, device, time>>

ToggleSwitched ==
  /\ pc = "switch"
  /\ pc' = "pin"
  /\ switchedOn' = wanted
  /\ UNCHANGED <<wanted, requestProgMode, prog, switchedOnSeconds, device, time>>

TogglePin ==
  /\ pc = "pin"
  /\ pc' = "request"
  /\ device' = wanted
  /\ UNCHANGED <<wanted, requestProgMode, prog, switchedOn, switchedOnSeconds, time>>

(* loop(): a request for programming mode is taken up.                     *)
TakeRequest ==
  /\ pc = "request" /\ requestProgMode
  /\ pc' = "reset"
  /\ requestProgMode' = FALSE
  /\ UNCHANGED <<wanted, prog, switch, time>>

(* Mutant: the seconds of an earlier opening are kept.                      *)
ProgSecondsKept ==
  /\ pc = "reset"
  /\ pc' = "enable"
  /\ sinceRequest' = 0
  /\ UNCHANGED <<wanted, requestProgMode, prog, switch, lag>>

(* setProgMode(true): two statements, either side of which an interrupt can*)
(* fall.                                                                   *)
ProgSecondsReset ==
  /\ pc = "reset"
  /\ pc' = "enable"
  /\ progModeSeconds' = 0
  /\ sinceRequest' = 0
  /\ UNCHANGED <<wanted, requestProgMode, progModeEnabled, switch, lag>>

ProgEnable ==
  /\ pc = "enable"
  /\ progModeEnabled' = TRUE
  /\ pc' = "serial"
  /\ lag' = 0
  /\ UNCHANGED <<wanted, requestProgMode, progModeSeconds, switch, sinceRequest>>

NoRequest ==
  /\ pc = "request" /\ ~requestProgMode
  /\ pc' = "serial"
  /\ lag' = 0
  /\ UNCHANGED <<wanted, requestProgMode, prog, switch, sinceRequest>>

Loop == \/ \E key \in Keys : ParseSerial(key)
        \/ NothingToRead \/ ToggleSeconds \/ ToggleSwitched \/ TogglePin
        \/ TakeRequest \/ ProgSecondsReset \/ ProgEnable \/ NoRequest

-----------------------------------------------------------------------------
(* Mutant: the limit itself is still inside the window.                     *)
CountProgSecondLate ==
  IF progModeSeconds + 1 > ProgSeconds
  THEN progModeEnabled' = FALSE /\ progModeSeconds' = 0
  ELSE progModeSeconds' = progModeSeconds + 1 /\ UNCHANGED progModeEnabled

(* Mutant: every second begins the window anew.                             *)
CountProgSecondRestarts ==
  progModeSeconds' = 1 /\ UNCHANGED progModeEnabled

(* A second in programming mode: the last one calls setProgMode(false).    *)
CountProgSecond ==
  IF progModeSeconds + 1 >= ProgSeconds
  THEN progModeEnabled' = FALSE /\ progModeSeconds' = 0
  ELSE progModeSeconds' = progModeSeconds + 1 /\ UNCHANGED progModeEnabled

(* TIMER3_COMPB_vect.  The code that would count switchedOnSeconds is a    *)
(* comment.                                                                *)
Second ==
  /\ lag < MaxLag
  /\ lag' = lag + 1
  /\ sinceRequest' = IF sinceRequest < SinceCap THEN sinceRequest + 1 ELSE sinceRequest
  /\ IF progModeEnabled THEN CountProgSecond ELSE UNCHANGED prog
  /\ UNCHANGED <<pc, wanted, requestProgMode, switch>>

(* The radio interrupt: a valid frame in programming mode ends it.         *)
ProgFrame ==
  /\ progModeEnabled
  /\ progModeSeconds' = 0
  /\ progModeEnabled' = FALSE
  /\ UNCHANGED <<pc, wanted, requestProgMode, switch, time>>

(* Power fails and comes back.                                             *)
Restart ==
  /\ pc' = "serial"
  /\ wanted' = FALSE
  /\ requestProgMode' = FALSE
  /\ progModeEnabled' = FALSE /\ progModeSeconds' = 0
  /\ switchedOn' = FALSE /\ switchedOnSeconds' = 0 /\ device' = FALSE
  /\ lag' = 0 /\ sinceRequest' = 0

Next == Loop \/ Second \/ ProgFrame \/ Restart

Spec == Init /\ [][Next]_vars

(* loop() is called for ever and the timer runs; nobody has to type, and no*)
(* frame has to come.                                                      *)
FairSpec == Spec /\ WF_vars(Loop) /\ WF_vars(Second)

-----------------------------------------------------------------------------
Labels == {"serial", "seconds", "switch", "pin", "request", "reset", "enable"}

(* The types of the variables.                                             *)
TypeOK ==
  /\ pc \in Labels
  /\ wanted \in BOOLEAN
  /\ requestProgMode \in BOOLEAN
  /\ progModeEnabled \in BOOLEAN
  /\ progModeSeconds \in 0 .. ProgSeconds - 1
  /\ switchedOn \in BOOLEAN /\ switchedOnSeconds = 0 /\ device \in BOOLEAN
  /\ lag \in 0 .. MaxLag
  /\ sinceRequest \in 0 .. SinceCap

(* Programming mode is over in time, wherever Timer 3 and the radio        *)
(* interrupt loop(): it is open for less than its 60 seconds and those that*)
(* passed between the two statements of setProgMode(true).                 *)
ProgModeBounded == progModeEnabled => sinceRequest < ProgSeconds + MaxLag

(* Timer 3 never ends the mode before its time has passed since it was last*)
(* asked for, even if it was open already.                                 *)
NotClosedEarly ==
  [][Second /\ progModeEnabled /\ ~progModeEnabled' => sinceRequest + 1 >= ProgSeconds]_vars

(* Programming mode ends unless it is asked for again.                     *)
ProgModeEnds == progModeEnabled ~> (~progModeEnabled \/ requestProgMode)

=============================================================================
