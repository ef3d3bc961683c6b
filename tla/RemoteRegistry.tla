--------------------------- MODULE RemoteRegistry ---------------------------
(***************************************************************************)
(* The remotes that arduino_porte_garage.ino knows: the table in RAM and   *)
(* its copy in EEPROM, what processFrame() does with a frame, the reset    *)
(* command of the console, and power failures.                             *)
(*                                                                         *)
(* processFrame() runs in the radio interrupt: loop() and the timers wait  *)
(* until it returns.  The EEPROM is written byte by byte (EEPROM.put() of a*)
(* Remote: two bytes of code, three of address), and power can fail between*)
(* any two bytes.  saveRemotes() called by the reset command runs in       *)
(* loop(), where the radio interrupt can fall between the reading of a byte*)
(* from RAM and its writing.                                               *)
(***************************************************************************)
EXTENDS Integers

CONSTANTS
  ByteMod,     (* a byte counts modulo this (2^8)                           *)
  Remotes,     (* the addresses of the remotes of the neighbourhood         *)
  NoFrame,     (* lastFrame after a restart                                 *)
  Garbled,     (* a frame whose checksum is wrong                           *)
  MAX_REMOTES, (* 16                                                        *)
  Window,      (* 25, the codes ahead that are not accepted any more        *)
  CodeMod,     (* rolling codes count modulo this (2^16)                    *)
  FirstCode,   (* FirstCode[d]: the code of remote d before its first press *)
  Misread,     (* frames that noise makes of others, the checksum unharmed  *)
  MaxPresses,  (* bound: MaxPresses[d], the presses of remote d             *)
  MaxCrashes,  (* bound: power failures                                     *)
  MaxResets    (* bound: reset commands                                     *)

ASSUME RegistryAssumption ==
  /\ ByteMod \in Nat \ {0} /\ CodeMod = ByteMod * ByteMod
  /\ Remotes \subseteq [1 .. 3 -> 0 .. ByteMod - 1]
  /\ MAX_REMOTES \in Nat \ {0}
  /\ Window \in Nat /\ CodeMod \in Nat /\ 0 < Window /\ Window < CodeMod
  /\ FirstCode \in [Remotes -> 0 .. CodeMod - 1]
  /\ Misread \subseteq [address : Remotes, code : 0 .. CodeMod - 1,
                        button : {"door", "other"}]
  /\ MaxPresses \in [Remotes -> Nat] /\ MaxCrashes \in Nat /\ MaxResets \in Nat

Byte      == 0 .. ByteMod - 1
Addresses == [1 .. 3 -> Byte]
Codes   == 0 .. CodeMod - 1
Slots   == 0 .. MAX_REMOTES - 1
Buttons == {"door", "other"}   \* commands 2, 4 and 15; any other command
Entry   == [code : Codes, address : Addresses]
Frame   == [address : Remotes, code : Codes, button : Buttons]

(* The array in RAM starts as zeros; an EEPROM byte never written holds    *)
(* only ones.                                                              *)
Zeroed == [code |-> 0, address |-> [k \in 1 .. 3 |-> 0]]
Blank  == [k \in 1 .. 3 |-> ByteMod - 1]
Erased == [code |-> CodeMod - 1, address |-> Blank]

VARIABLES
  remoteCount, remotes,     (* the table                                    *)
  eeCount, eeRemotes,       (* its copy in EEPROM                           *)
  lastFrame,                (* the last frame received                      *)
  progModeEnabled,          (* the next frame adds or deletes its remote    *)
  isr,                      (* where processFrame() is                      *)
  rx, index,                (* its frame, and the remote's place or -1      *)
  cell,                     (* next EEPROM byte its saveRemotes() writes    *)
  after,                    (* where processFrame() goes on after the save  *)
  reset, resetCell, tmp,    (* the same for the reset command in loop(), and*)
                            (* the byte read and not yet written            *)
  presses, button, onAir,   (* of each remote: presses so far, the button of*)
                            (* the last one, and whether it is still held   *)
  crashes, resets,          (* counted for the bounds                       *)
  served,                   (* history: actions since the last press        *)
  mixed,                    (* history: another frame came in during it     *)
  saved,                    (* history: the remotes known at the last save  *)
  admitted                  (* history: the remotes ever added              *)

ram     == <<remoteCount, remotes>>
eeprom  == <<eeCount, eeRemotes>>
handler == <<isr, rx, index, cell, after>>
console == <<reset, resetCell, tmp>>
devices == <<presses, button, onAir>>
counts  == <<crashes, resets>>
history == <<served, mixed, saved, admitted>>
vars    == <<ram, eeprom, lastFrame, progModeEnabled, handler, console,
             devices, counts, history>>

(* Mutant: the search starts at the second entry.                          *)
KnownSetFromOne == {remotes[i].address : i \in 1 .. remoteCount - 1}

(* The remotes that findRemoteWithAddress finds.                           *)
KnownSet == {remotes[i].address : i \in 0 .. remoteCount - 1}
Known(a) == a \in KnownSet

(* The code and the frame of a remote's last press.                        *)
Code(d)     == (FirstCode[d] + presses[d]) % CodeMod
FrameOf(d)  == [address |-> d, code |-> Code(d), button |-> button[d]]

findRemoteWithAddress(a) ==
  IF Known(a)
  THEN CHOOSE i \in 0 .. remoteCount - 1 :
         /\ remotes[i].address = a
         /\ \A j \in 0 .. i - 1 : remotes[j].address # a
  ELSE -1

(* How far a code is ahead of the stored one, in unsigned arithmetic.  (A  *)
(* code is its two bytes, the first one the more significant; the byte that*)
(* getRollingCode() leaves uninitialised is shifted out.)                  *)
Ahead(code, stored) == (code - stored + CodeMod) % CodeMod

(* Mutant: any code that is not behind is accepted.                         *)
isRollingCodeValidWide(code, stored) == Ahead(code, stored) < CodeMod \div 2

(* The difference is below the window, or it is after 100 has been added to*)
(* both, "in case of overflow".                                            *)
isRollingCodeValid(code, stored) ==
  \/ Ahead(code, stored) < Window
  \/ Ahead((code + 100) % CodeMod, (stored + 100) % CodeMod) < Window

-----------------------------------------------------------------------------
(* The EEPROM has been prepared by the reset command once: its count would *)
(* read -1 had it never been written.                                      *)
Init ==
  /\ eeCount = 0
  /\ eeRemotes = [i \in Slots |-> Erased]
  /\ remoteCount = eeCount
  /\ remotes = [i \in Slots |-> Zeroed]
  /\ lastFrame = NoFrame
  /\ progModeEnabled = FALSE
  /\ isr = "idle" /\ rx = NoFrame /\ index = -1 /\ cell = 0 /\ after = "idle"
  /\ reset = "none" /\ resetCell = 0 /\ tmp = 0
  /\ presses = [d \in Remotes |-> 0]
  /\ button = [d \in Remotes |-> "door"]
  /\ onAir = [d \in Remotes |-> FALSE]
  /\ crashes = 0 /\ resets = 0
  /\ served = [d \in Remotes |-> 0]
  /\ mixed = [d \in Remotes |-> FALSE]
  /\ saved = {} /\ admitted = {}

-----------------------------------------------------------------------------
(* The radio interrupt.                                                    *)

(* saveRemotes() is called; what follows it is `then`.                     *)
Save(then) == isr' = "saveCount" /\ cell' = 0 /\ after' = then

Return == isr' = "idle" /\ rx' = NoFrame /\ index' = -1 /\ cell' = 0 /\ after' = "idle"

Idle == isr = "idle"

(* Mutant: every frame is processed.                                        *)
NewFrameNoFilter(f) ==
  /\ Idle
  /\ lastFrame' = f
  /\ mixed' = [d \in Remotes |-> mixed[d] \/ (onAir[d] /\ f # FrameOf(d))]
  /\ UNCHANGED <<eeprom, console, devices, counts, served, saved>>

(* A frame that differs from the last one is remembered and processed.     *)
NewFrame(f) ==
  /\ Idle
  /\ f # lastFrame
  /\ lastFrame' = f
  /\ mixed' = [d \in Remotes |-> mixed[d] \/ (onAir[d] /\ f # FrameOf(d))]
  /\ UNCHANGED <<eeprom, console, devices, counts, served, saved>>

(* Checksum mismatch: nothing but lastFrame changes.                       *)
ReceiveGarbled ==
  /\ NewFrame(Garbled)
  /\ UNCHANGED <<ram, progModeEnabled, handler, admitted>>

(* Mutant: the code of an unknown remote is checked too (index -1).          *)
ReceiveNormalUnknown(f) ==
  /\ ~progModeEnabled
  /\ NewFrame(f)
  /\ isr' = "check"
  /\ rx' = f
  /\ index' = findRemoteWithAddress(f.address)
  /\ UNCHANGED <<cell, after>>
  /\ UNCHANGED <<ram, progModeEnabled, admitted>>

(* A frame outside programming mode: an unknown remote is ignored.         *)
ReceiveNormal(f) ==
  /\ ~progModeEnabled
  /\ NewFrame(f)
  /\ IF Known(f.address)
     THEN /\ isr' = "check"
          /\ rx' = f
          /\ index' = findRemoteWithAddress(f.address)
          /\ UNCHANGED <<cell, after>>
     ELSE UNCHANGED handler
  /\ UNCHANGED <<ram, progModeEnabled, admitted>>

(* The Remote structure of a frame.                                        *)
EntryOf(f) == [code |-> f.code, address |-> f.address]

(* Mutant: the table is never full.                                         *)
addRemoteNoLimit(f) ==
  /\ remotes' = [i \in Slots |-> IF i = remoteCount THEN EntryOf(f) ELSE remotes[i]]
  /\ remoteCount' = remoteCount + 1
  /\ rx' = f
  /\ Save("idle")
  /\ admitted' = admitted \cup {f.address}
  /\ UNCHANGED index

(* addRemote: refused when MAX_REMOTES - 1 remotes are known.              *)
addRemote(f) ==
  IF remoteCount >= MAX_REMOTES - 1
  THEN UNCHANGED <<ram, handler, admitted>>
  ELSE /\ remotes' = [i \in Slots |-> IF i = remoteCount THEN EntryOf(f) ELSE remotes[i]]
       /\ remoteCount' = remoteCount + 1
       /\ rx' = f
       /\ Save("idle")
       /\ admitted' = admitted \cup {f.address}
       /\ UNCHANGED index

(* The table without its entry k: the entries above move down.             *)
Without(k) == [i \in Slots |-> IF i \in k .. remoteCount - 2
                               THEN remotes[i + 1] ELSE remotes[i]]

(* Mutant: the entries above the deleted one stay where they are.           *)
deleteRemoteNoShift(f) ==
  /\ remoteCount' = remoteCount - 1
  /\ rx' = f
  /\ index' = findRemoteWithAddress(f.address)
  /\ Save("check")
  /\ UNCHANGED <<remotes, admitted>>

(* Mutant: the deletion is not saved.                                       *)
deleteRemoteNoSave(f) ==
  /\ remotes' = Without(findRemoteWithAddress(f.address))
  /\ remoteCount' = remoteCount - 1
  /\ rx' = f
  /\ index' = findRemoteWithAddress(f.address)
  /\ isr' = "check" /\ UNCHANGED <<cell, after, admitted>>

(* deleteRemote.  processFrame() then checks the code against the place    *)
(* the remote had.                                                         *)
deleteRemote(f) ==
  /\ remotes' = Without(findRemoteWithAddress(f.address))
  /\ remoteCount' = remoteCount - 1
  /\ rx' = f
  /\ index' = findRemoteWithAddress(f.address)
  /\ Save("check")
  /\ UNCHANGED admitted

(* Mutant: the mode stays open for the next frame.                          *)
ReceiveProgStaysOpen(f) ==
  /\ progModeEnabled
  /\ NewFrame(f)
  /\ IF Known(f.address) THEN deleteRemote(f) ELSE addRemote(f)
  /\ UNCHANGED progModeEnabled

(* In programming mode any button adds an unknown remote or deletes a known*)
(* one, and ends the mode.                                                 *)
ReceiveProg(f) ==
  /\ progModeEnabled
  /\ NewFrame(f)
  /\ progModeEnabled' = FALSE
  /\ IF Known(f.address) THEN deleteRemote(f) ELSE addRemote(f)

(* saveRemotes: the count, of which one byte changes (it is below 2^8; the *)
(* other stays 0), then the bytes of each entry.                           *)
SaveCount ==
  /\ isr = "saveCount"
  /\ eeCount' = remoteCount
  /\ isr' = "saveCell"
  /\ UNCHANGED <<ram, eeRemotes, lastFrame, progModeEnabled, rx, index, cell,
                 after, console, devices, counts, history>>

(* The bytes of an entry as EEPROM.put writes them: the code, the more     *)
(* significant byte first, then the address.                               *)
ByteOf(e, k) == IF k = 0 THEN e.code \div ByteMod
                ELSE IF k = 1 THEN e.code % ByteMod
                ELSE e.address[k - 1]

WithByte(e, k, v) == IF k = 0 THEN [e EXCEPT !.code = v * ByteMod + (e.code % ByteMod)]
                     ELSE IF k = 1
                     THEN [e EXCEPT !.code = (e.code \div ByteMod) * ByteMod + v]
                     ELSE [e EXCEPT !.address[k - 1] = v]

(* The loop over the entries goes on: asked before each entry, not inside. *)
MoreToSave(n) == n % 5 = 0 => n \div 5 < remoteCount

SaveCell ==
  /\ isr = "saveCell"
  /\ MoreToSave(cell)
  /\ eeRemotes' = [eeRemotes EXCEPT ![cell \div 5] =
                     WithByte(@, cell % 5, ByteOf(remotes[cell \div 5], cell % 5))]
  /\ cell' = cell + 1
  /\ UNCHANGED <<ram, eeCount, lastFrame, progModeEnabled, isr, rx, index,
                 after, console, devices, counts, history>>

SaveDone ==
  /\ isr = "saveCell"
  /\ ~MoreToSave(cell)
  /\ IF after = "idle"
     THEN Return
     ELSE isr' = after /\ cell' = 0 /\ after' = "idle" /\ UNCHANGED <<rx, index>>
  /\ saved' = KnownSet
  /\ UNCHANGED <<ram, eeprom, lastFrame, progModeEnabled, console, devices,
                 counts, served, mixed, admitted>>

(* A valid code is stored and saved before the button is looked at.        *)
CheckValid ==
  /\ isr = "check"
  /\ isRollingCodeValid(rx.code, remotes[index].code)
  /\ remotes' = [remotes EXCEPT ![index].code = rx.code]
  /\ Save("act")
  /\ UNCHANGED <<remoteCount, eeprom, lastFrame, progModeEnabled, rx, index,
                 console, devices, counts, history>>

(* Mutant: a refused code is stored as well.                                *)
CheckInvalidResync ==
  /\ isr = "check"
  /\ ~isRollingCodeValid(rx.code, remotes[index].code)
  /\ remotes' = [remotes EXCEPT ![index].code = rx.code]
  /\ Return
  /\ UNCHANGED <<remoteCount, eeprom, lastFrame, progModeEnabled, console, devices,
                 counts, history>>

CheckInvalid ==
  /\ isr = "check"
  /\ ~isRollingCodeValid(rx.code, remotes[index].code)
  /\ Return
  /\ UNCHANGED <<ram, eeprom, lastFrame, progModeEnabled, console, devices,
                 counts, history>>

(* The button: UP, DOWN and INVERT ask loop() for an action (the press is  *)
(* charged with it if the remote has not been pressed again meanwhile).    *)
Act ==
  /\ isr = "act"
  /\ served' = [served EXCEPT ![rx.address] =
                  IF rx = FrameOf(rx.address) /\ rx.button = "door" /\ @ < 2
                  THEN @ + 1 ELSE @]
  /\ Return
  /\ UNCHANGED <<ram, eeprom, lastFrame, progModeEnabled, console, devices,
                 counts, mixed, saved, admitted>>

-----------------------------------------------------------------------------
(* loop() and Timer 3, which run only between interrupts.                  *)

OpenProgMode ==
  /\ Idle /\ reset = "none"
  /\ progModeEnabled' = TRUE
  /\ UNCHANGED <<ram, eeprom, lastFrame, handler, console, devices, counts, history>>

ProgModeTimeout ==
  /\ Idle /\ progModeEnabled
  /\ progModeEnabled' = FALSE
  /\ UNCHANGED <<ram, eeprom, lastFrame, handler, console, devices, counts, history>>

LoopRest == <<lastFrame, progModeEnabled, handler, devices, crashes, served, mixed,
              admitted>>

(* Command r: forget all remotes and save.                                 *)
ResetCommand ==
  /\ Idle /\ reset = "none" /\ resets < MaxResets
  /\ resets' = resets + 1
  /\ remoteCount' = 0
  /\ reset' = "readCount"
  /\ UNCHANGED <<remotes, eeprom, resetCell, tmp, saved, LoopRest>>

ResetReadCount ==
  /\ Idle /\ reset = "readCount"
  /\ tmp' = remoteCount
  /\ reset' = "writeCount"
  /\ UNCHANGED <<ram, eeprom, resetCell, resets, saved, LoopRest>>

ResetWriteCount ==
  /\ Idle /\ reset = "writeCount"
  /\ eeCount' = tmp
  /\ tmp' = 0
  /\ reset' = "readCell"
  /\ resetCell' = 0
  /\ UNCHANGED <<ram, eeRemotes, resets, saved, LoopRest>>

ResetReadCell ==
  /\ Idle /\ reset = "readCell"
  /\ MoreToSave(resetCell)
  /\ tmp' = ByteOf(remotes[resetCell \div 5], resetCell % 5)
  /\ reset' = "writeCell"
  /\ UNCHANGED <<ram, eeprom, resetCell, resets, saved, LoopRest>>

ResetWriteCell ==
  /\ Idle /\ reset = "writeCell"
  /\ eeRemotes' = [eeRemotes EXCEPT ![resetCell \div 5] =
                     WithByte(@, resetCell % 5, tmp)]
  /\ tmp' = 0
  /\ resetCell' = resetCell + 1
  /\ reset' = "readCell"
  /\ UNCHANGED <<ram, eeCount, resets, saved, LoopRest>>

ResetDone ==
  /\ Idle /\ reset = "readCell"
  /\ ~MoreToSave(resetCell)
  /\ reset' = "none" /\ resetCell' = 0
  /\ saved' = KnownSet
  /\ UNCHANGED <<ram, eeprom, tmp, resets, LoopRest>>

-----------------------------------------------------------------------------
(* The remotes.                                                            *)
DeviceRest == <<ram, eeprom, lastFrame, progModeEnabled, handler, console, counts>>

Press(d) ==
  /\ ~onAir[d] /\ presses[d] < MaxPresses[d]
  /\ presses' = [presses EXCEPT ![d] = @ + 1]
  /\ \E b \in Buttons : button' = [button EXCEPT ![d] = b]
  /\ onAir' = [onAir EXCEPT ![d] = TRUE]
  /\ served' = [served EXCEPT ![d] = 0]
  /\ mixed' = [mixed EXCEPT ![d] = FALSE]
  /\ UNCHANGED <<DeviceRest, saved, admitted>>

Release(d) ==
  /\ onAir[d]
  /\ onAir' = [onAir EXCEPT ![d] = FALSE]
  /\ UNCHANGED <<DeviceRest, presses, button, history>>

(* Power fails and comes back: setup() reads the table from EEPROM.        *)
loadRemotes ==
  /\ remoteCount' = eeCount
  /\ remotes' = [i \in Slots |-> IF i < eeCount THEN eeRemotes[i] ELSE Zeroed]

Crash ==
  /\ crashes < MaxCrashes
  /\ crashes' = crashes + 1
  /\ loadRemotes
  /\ lastFrame' = NoFrame
  /\ progModeEnabled' = FALSE
  /\ Return
  /\ reset' = "none" /\ resetCell' = 0 /\ tmp' = 0
  /\ mixed' = [d \in Remotes |-> mixed[d] \/ onAir[d]]
  /\ saved' = KnownSet'
  /\ UNCHANGED <<eeprom, devices, resets, served, admitted>>

(* The frames that can come in: those of the buttons that are held, and    *)
(* those that noise makes of them.                                         *)
OnAir == {FrameOf(d) : d \in {e \in Remotes : onAir[e]}} \cup Misread

Interrupt == \/ \E f \in OnAir : ReceiveNormal(f) \/ ReceiveProg(f)
             \/ ReceiveGarbled
             \/ SaveCount \/ SaveCell \/ SaveDone
             \/ CheckValid \/ CheckInvalid \/ Act

Background == \/ OpenProgMode \/ ProgModeTimeout
              \/ ResetCommand \/ ResetReadCount \/ ResetWriteCount
              \/ ResetReadCell \/ ResetWriteCell \/ ResetDone

Next == \/ Interrupt \/ Background \/ Crash
        \/ \E d \in Remotes : Press(d) \/ Release(d)

Spec == Init /\ [][Next]_vars

-----------------------------------------------------------------------------
Labels == {"idle", "check", "saveCount", "saveCell", "act"}

(* The types of the variables.                                             *)
TypeOK ==
  /\ remoteCount \in 0 .. MAX_REMOTES - 1 /\ remotes \in [Slots -> Entry]
  /\ eeCount \in 0 .. MAX_REMOTES - 1 /\ eeRemotes \in [Slots -> Entry]
  /\ lastFrame \in Frame \cup {NoFrame, Garbled}
  /\ progModeEnabled \in BOOLEAN
  /\ isr \in Labels /\ after \in {"idle", "check", "act"}
  /\ rx \in Frame \cup {NoFrame}
  /\ index \in -1 .. MAX_REMOTES - 1
  /\ cell \in 0 .. 5 * MAX_REMOTES
  /\ reset \in {"none", "readCount", "writeCount", "readCell", "writeCell"}
  /\ resetCell \in 0 .. 5 * MAX_REMOTES
  /\ \A d \in Remotes : presses[d] \in 0 .. MaxPresses[d]
  /\ button \in [Remotes -> Buttons]
  /\ onAir \in [Remotes -> BOOLEAN]
  /\ served \in [Remotes -> 0 .. 2]
  /\ mixed \in [Remotes -> BOOLEAN]
  /\ tmp \in Nat
  /\ saved \subseteq Addresses /\ admitted \subseteq Remotes

(* Every access has a cell: the code is checked at a counted entry or, if  *)
(* that was the last one and has just been deleted, at the one above; and  *)
(* the saves, also the one whose count the radio interrupt changes while it*)
(* is inside an entry, write entries of the array.                         *)
TableWithinBounds ==
  /\ isr \in {"check", "act"} => index \in Slots /\ index <= remoteCount
  /\ isr = "saveCell" /\ MoreToSave(cell) => cell \div 5 \in Slots
  /\ reset = "writeCell" => resetCell \div 5 \in Slots

(* Between two saves the EEPROM holds the table, entry by entry, so that a *)
(* power failure then loses nothing; unless the reset command has been used*)
(* (its save can write a count that the interrupt has changed meanwhile).  *)
EepromMirrors ==
  isr \notin {"saveCount", "saveCell"} /\ resets = 0 =>
    /\ eeCount = remoteCount
    /\ \A i \in 0 .. remoteCount - 1 : eeRemotes[i] = remotes[i]

(* A remote is in the table once at most, unless power has failed (a       *)
(* deletion saved in part leaves a remote twice in EEPROM).                *)
Distinct == \A i, j \in 0 .. remoteCount - 1 :
              remotes[i].address = remotes[j].address => i = j

NoDuplicates == crashes = 0 => Distinct

(* The stored rolling code of a remote.                                    *)
Stored(a) == remotes[findRemoteWithAddress(a)].code

(* The code stored for a remote is one that this remote has sent, if noise *)
(* makes no code of its own (Misread empty).                               *)
SentCodes(a) == {(FirstCode[a] + k) % CodeMod : k \in 1 .. presses[a]}

StoredCodeIsOwn ==
  \A i \in 0 .. remoteCount - 1 : remotes[i].code \in SentCodes(remotes[i].address)

(* A remote that was pressed too often out of range stays refused, however *)
(* often it is pressed, until it is deleted and added again, or until noise*)
(* makes a valid code of one that is not.                                  *)
LockedOut(a) ==
  /\ Known(a)
  /\ ~isRollingCodeValid(Code(a), Stored(a))
  /\ isr = "check" /\ rx.address = a =>
       ~isRollingCodeValid(rx.code, Stored(a))

LockOutLasts ==
  [][\A a \in Remotes : LockedOut(a) /\ Known(a)' => LockedOut(a)']_vars

(* The frame of one press, repeated while the button is held, asks for two *)
(* actions only if another frame, or a restart, came in between.           *)
RepeatsIgnored == \A d \in Remotes : served[d] = 2 => mixed[d]


-----------------------------------------------------------------------------
(* The promise that the table keeps.                                       *)
Table == INSTANCE RemoteTable WITH
  codes  <- [a \in KnownSet |-> Stored(a)],
  open   <- progModeEnabled,
  last   <- lastFrame,
  intact <- crashes = 0,
  Frames <- Frame

(* Through deletions that move entries, saves cut by the reset command and *)
(* power failures, a remote becomes known or is forgotten only as Table    *)
(* says: one frame in programming mode, one change, codes that only move   *)
(* ahead through every overflow; and an address that a power failure tears *)
(* is put together from the bytes of admitted ones.                        *)
ImplementsTable == Table!Spec

=============================================================================
