# Formal models of embedded-projects

This directory holds TLA+ models of the programs in this repository, the TLC
configurations that check them on small instances, and TLAPS proofs of what
matters most for every value of the parameters.

1. Inventory · 2. Modules and correspondence · 3. Runs and bounds ·
4. Fairness · 5. Proofs · 6. Where code and comments disagree ·
7. Assumptions and what is left out · 8. Plan

`tlc -config <cfg> <module>` runs a check, `tlapm <module>Proofs.tla` checks the
proofs. `PROJECT.json` names, for every definition, the source lines it models;
for every run its properties; for every property a mutation of the code that
violates it; and the hazards the properties are for.

## 1. Inventory

### Garage-door receiver: `arduino_porte_garage/arduino_porte_garage.ino`

One Arduino sketch. A Somfy RTS receiver decodes frames from hand-held remotes
in an interrupt, a table of known remotes lives in RAM and in EEPROM, and
`loop()` drives a door motor through two PWM pins.

| component | state | operations | runs in |
|---|---|---|---|
| door control loop | `actionPorteGarage`, `garageState`, `porteGarageDir`, `startGarageTime`, two pins | `loop()` from the wall switch to the time-out, `DoorGoForward`, `DoorGoBackward`, `DoorStop` | `loop()` |
| radio front end | `state`, `halfway`, `bits`, `frame`, `TCNT1` | `stateChange`, Timer 1 overflow | interrupts |
| frame decoding | `frame`, a checksum | `unscrambleFrame`, `calculateChecksum` | interrupt |
| remote registry | `remotes`, `remoteCount`, `lastFrame`, EEPROM | `processFrame`, `addRemote`, `deleteRemote`, `isRollingCodeValid`, `isRepeatedFrame`, `loadRemotes`, `saveRemotes`, command `r` | interrupt, `loop()`, `setup()` |
| operator console and timers | `requestProgMode`, `progModeEnabled`, `progModeSeconds`, `switchedOn`, `switchedOnSeconds` | `parseSerial`, `setProgMode`, `toggleSwitch`, Timer 3 each second | `loop()` and interrupt |

How they interact:

    receiver pin --edge--> stateChange --frame--> isRepeatedFrame, processFrame
                                                    | unscramble, checksum
                           Timer 1 --overflow-->    v
                           (aborts a capture)   remote registry <--> EEPROM
                                                    |        ^
                         actionPorteGarage = true   |        | progModeEnabled
                                                    v        | (one frame ends it)
      wall switch, millis() ----------------->  loop()   console, Timer 3
                                                    |
                                                    v  two PWM pins

* `stateChange` calls `processFrame` inside the interrupt, which may write the
  EEPROM for tens of milliseconds: further edges are lost meanwhile.
* The interrupt and `loop()` share `actionPorteGarage`; the interrupt, Timer 3
  and `loop()` share `progModeEnabled` and `progModeSeconds`; the interrupt and
  the reset command of `loop()` share `remoteCount`, `remotes` and the EEPROM.
  None of them is protected.
* The EEPROM outlives the power, everything else begins again in `setup()`.

What makes it correct, and is hard to test:

* *Door.* The H-bridge is never driven both ways, and the time-out, which is all
  that ends a run nobody stops, holds across the wrap of `millis()`, across
  requests that come at any instruction, and across resets.
* *Radio.* No noise makes the interrupt write beyond the payload buffer; noise
  never leaves the receiver deaf; an undisturbed frame is received as sent.
* *Decoding.* What the remote said is what comes out; which corruptions the
  checksum lets through.
* *Registry.* No remote twice, the table within its array, EEPROM equal to RAM between
  two saves although it is written byte by byte, rolling codes that belong to their
  remote, one action for one press; as a whole, what the abstract `RemoteTable`
  promises: a remote comes and goes by a frame of its own in programming mode, and its
  code only moves ahead; and what a power failure brings back comes from remotes that
  were admitted.
* *Console.* Programming mode, in which any remote may be added, ends on time
  and not before, wherever the interrupts fall.
* *The whole.* The door moves only for the wall switch or for a new frame, with a
  valid code, of a remote that was known when it came; a remote is admitted only in
  the time after an operator's command; a request is heeded, whatever the other parts
  do meanwhile.

### chip32: `chip32/`

A 32-bit virtual machine with variable-length instructions (`chip32.cpp`,
`chip32.h`) and its two-pass assembler (`chip32_assembler.cpp`).

| component | state | operations |
|---|---|---|
| virtual machine | ROM, RAM, 21 registers (`ip` and `sp` among them), the local `skip` and `instrCount` | `chip32_initialize`, `chip32_run` with its 26 instructions, `chip32_set_register` |
| assembler | `m_instructions`, `m_labels`, `program` | `Parse`, `CompileMnemonicArguments`, `CompileConstantArguments`, `BuildBinary` |

The machine is sequential. What is hard is that instructions have different
lengths, that `ip` is moved in three places for one instruction, that a program
may jump anywhere and write `ip` and `sp`, that stack and heap share one
memory, that the host may interrupt it after any number of instructions, and
that every check is made on a number of one kind (an offset, an address, a
register number) that a later line may use as another kind. It is correct when
it computes what `chip32.h` says and touches nothing outside its memories. The
assembler is correct when the machine finds each instruction where the
assembler put it, with the operands of the source, and each jump goes behind its
label. What is hard there: the host may parse and build again, after errors too,
into a vector that is not empty; the second pass writes at addresses of 16 bits
that the first one recorded; and the sizes of the two programs are kept in two
places.

### Script engine harness: `script-engines/`

Third-party interpreters and parsers kept as vendored copies and a `main.cpp`
that calls a test function of one of them.

## 2. Modules and how they correspond to the code

| module | models | grain |
|---|---|---|
| `Door` | the door as its user sees it (abstract) | a request, its being taken up, a start, a stop, a time-out, a restart |
| `DoorLoop` | `loop()`, the motor functions, against interrupt, clock, wall switch, reset; implements `Door` | a step between two accesses to a shared variable or a pin |
| `RadioReceiver` | `stateChange`, Timer 1, with a transmitter and noise | half a bit of radio time, an edge |
| `FrameCodec` | `unscrambleFrame`, `calculateChecksum`, with the scrambling remote | an iteration of a loop |
| `RemoteTable` | the remotes the receiver obeys, without places, EEPROM or saves (abstract) | one frame, one reset command, one power failure |
| `RemoteRegistry` | `processFrame` and the table, EEPROM, command `r`, power failures; implements `RemoteTable` | a statement of `processFrame`, one byte written to the EEPROM |
| `Console` | `parseSerial`, `setProgMode`, `toggleSwitch`, Timer 3 | a statement |
| `Garage` | the receiver as a whole: `Console`, `RemoteTable` and `Door` composed | a statement of `loop()`, a frame |
| `Chip32Base` | bytes, words, registers, opcodes | |
| `Chip32Isa` | the instruction set and the memory map `chip32.h` documents (abstract) | an instruction |
| `Chip32` | `chip32_initialize`, `chip32_run`, `chip32_set_register`; implements `Chip32Isa` but for the behaviours it lists | an iteration of the interpreter loop |
| `Chip32Asm` | `Parse`, both passes of `BuildBinary` | a source line; an instruction of a pass |
| `*Proofs` | theorems about the module of that name | |
| `MC*` | instances for TLC | |

How they are put together:

    Garage = Console  o  RemoteTable  o  Door          Chip32Isa    Chip32Base
                             ^            ^                ^        ^       ^
                       RemoteRegistry  DoorLoop          Chip32 ----+   Chip32Asm

where `^` is "implemented by" (`ImplementsTable`, `ImplementsDoor`,
`ImplementsIsaElsewhere`) or, for `Chip32Base`, "instantiated by".

### DoorLoop

`pc` is the place in `loop()`. `ReadSwitch` is the wall switch, `TestAction` and
`ClearAction` are the test of `actionPorteGarage` and the statement that clears
it (between them the interrupt may set it again), `ToggleStop`/`ToggleStart` the
branch on `garageState`. `ForwardRelease`, `ForwardDrive`, `BackwardDrive`,
`BackwardRelease`, `StopBackward` and `StopForward` are the single `analogWrite`s
of the three motor functions in their order, and `TimeoutStop`/`EndOfPass` the
time-out. The environment is `RadioAction` (`processFrame` asks for an action),
`FlipSwitch`, `Tick` and `Reset`. `runTicks` is a history variable.

The refinement of `Door` maps `motor` to the two pins, `request` to
`actionPorteGarage` and `serving` to the labels between the clearing of the flag
and the `analogWrite` that changes the motor. `heading` is `porteGarageDir`,
except after `BackwardDrive`, where the motor turns one statement before the
variable does.

### RadioReceiver

Time is counted in half bits (604 us). A remote's frame is a sequence of levels
(`Waveform`): two hardware sync pulses, the software sync, the Manchester-coded
payload. `Synchronise` is cases 0, 1 and 2 of `stateChange`, `Boundary` and
`PayloadBit` the two branches of case 3, `NoEdge` Timer 1 with its overflow.
`Inverted`, `Spike`, `FallSilent` and `Noise` disturb the link. `busy` is the
time that `processFrame` spends on the EEPROM inside the interrupt. `capture`
and `heard` are history.

### FrameCodec

A byte is the set of its 1 bits, so `^` is the symmetric difference and the
checksum's nibbles are subsets. `CopyFrame`, `UnscrambleByte`, `BeginChecksum`,
`ChecksumByte`, `EndChecksum` follow the loops. The remote (`Sayable`,
`Scrambled`) is outside the repository: it is what the two functions invert.

### RemoteRegistry

`isr` is the place in `processFrame`, `reset` the place in the reset command.
`ReceiveNormal`, `ReceiveProg` and `ReceiveGarbled` are its beginning
(`isRepeatedFrame`, checksum, look-up, programming mode), `addRemote` and
`deleteRemote` the two changes, `SaveCount`, `SaveCell` and `SaveDone` the EEPROM
writes of `saveRemotes`, byte by byte as `EEPROM.put` makes them (a `Remote` is two
bytes of code and three of address: `ByteOf`, `WithByte`), `CheckValid`/`CheckInvalid`
`isRollingCodeValid` with the store and the save of the new code, `Act` the `switch`
on the command. Since `processFrame` is an interrupt, only a power failure (`Crash`)
falls between its steps, also inside a code or an address; the steps of the reset
command (`ResetCommand` ... `ResetDone`) are interrupted by the radio, also between
reading a byte in RAM and writing it to EEPROM. Both saves ask for the count before an
entry and not inside it (`MoreToSave`). A restart loads the table from EEPROM,
whatever it holds. `served`, `mixed`, `saved` and `admitted` are history.

The refinement of `RemoteTable` maps `codes` to the code in the first place of each
remote that `findRemoteWithAddress` finds, `open` to `progModeEnabled`, and
`intact` to "the power has not failed". The change in RAM is the abstract step; the
saves are invisible. What `RemoteTable` promises of a power failure is what byte-wise
writes leave of it (`Pieced`): a restart may bring back any remotes that were admitted
before, forgotten ones too, with any codes, and a torn address, each byte of which is
that of an admitted remote or of blank memory.

`Press` and `Release` are the remotes, `Misread` the frames noise makes
of others without the checksum noticing (`FrameCodec` shows that there are many).

### Console

`ParseSerial` is one command, `ToggleSeconds`, `ToggleSwitched` and `TogglePin`
are `toggleSwitch`, `TakeRequest`, `ProgSecondsReset` and `ProgEnable` the
request for programming mode and the two statements of `setProgMode(true)`,
`Second` is `TIMER3_COMPB_vect`, `ProgFrame` the call of `setProgMode(false)` in
`processFrame`. The commands `l` and `h` print only; `r` is in `RemoteRegistry`.

### Garage

Three `INSTANCE`s, `Serial`, `GarageDoor` and `Table`, share `progModeEnabled`
(which is `open` in the table) and `actionPorteGarage` (`request` in the door).
`at` is the place in `loop()`: `ConsoleStep` and `ResetCommand` are its console,
`ReadSwitch`, `TestAction`, `ClearAction`, `Toggle` and `TestTimeout` the rest of
the pass. `HearNothing`, `HearKnown`, `AddRemote` and `DeleteRemote` are
`processFrame` up to the check of the code, `CheckValid` and `CheckInvalid` its end:
between them `isr`, `place` and `valid` hold the frame, the place that was looked
up and the answer, and everything but the wall switch and the power waits. `edge`
is the wall switch. In this module the EEPROM is below the table: `Restart` loads any
table that `RemoteTable` allows after a power failure, remotes that RAM had forgotten and
torn addresses included (`Torn`). Remotes that are then there twice fill the table
earlier (`AddRemote`), and the code of one that is deleted may be checked against its
other entry, which has any code (`LookUpSecond`).

`asked`, `entitled` and `granted` are history. `Entitle` is what gives a right to the
door: a door frame, not the last one again, of a remote known when it came, whose code is
valid for the place looked up, that of the remote itself or, for the frame that deletes
it, the place it had. `ClearAction` passes the right on to the request being served and
takes it away, so that each start needs a new one.

### Chip32

One action per instruction, named as in `chip32.h` (`OpNot` for `not`).
`Fetch(op)` stands for the checks at the top of the loop, `Execute(op)` adds
that the instruction is not skipped and names registers that exist, `Consumed(n)`
is `ip` after `n` argument bytes and `Advance` the end of the loop.
`StackRefused`, `AddressRefused`, `BadAddress`, `UnknownOpcode` and `BadRegister`
are the error returns. `CanPush`, `PopUnderflow` and `PopOverflow` are the stack
macros as they are written. An access outside ROM or RAM is undefined in C++:
`WildArgument` and `WildAccess` end in a status of their own instead of guessing
what would be read or hit. `Pause` is the return at the limit, `Enter` the next
call of `chip32_run`, which starts with new local variables.

The refinement of `Chip32Isa` maps its stack to the words of RAM between `sp`
and the end of RAM, its heap to what lies below the `stack_size` bytes given to
`chip32_initialize`, and leaves out `ip` and `sp`. `Chip32Isa` has the memory map of
`chip32.h` 149-169: ROM and RAM at their addresses in a space of 16 bits, and a dummy byte
in the gaps, whose writes are lost and whose value is any. It says nothing of a store into
ROM or of an access to the room of the stack. A program
that names `ip` or `sp` as a register is outside the instruction set; the machine
is still checked on such programs for `TypeOK` and `WritesStayInRam`.
`ImplementsIsaElsewhere` says that every step is a step of the instruction set
*or one of the behaviours that `KnownDivergence` lists*. These are actions that say
what the machine does instead (`DividesOnly`: the quotient, and no remainder; `PopsOn`:
only from the empty stack, or where the program is longer than the heap), not exemptions
of an instruction: a `div` that spoiled another register or a `jr` that went elsewhere
would be found. Only after an access outside the memories, which C++ leaves undefined,
or once a push has gone below the room of the stack, may anything follow. So the list in section 6 is complete: for the programs of the run
by TLC, for every program and layout by `DoesWhatIsaSays` (section 5).

### Chip32Asm

A line is a record of one of five kinds: a label, a word with arguments, constants in
ROM, data in RAM, and a line that one of the format checks refuses. That is what
`Split` and `GetArgs` make of the text; the text itself is left out, but for the
blanks inside quotes, which decide what is stored (`CompileItem`). `ParseName`,
`ParseMnemonic`, `ParseUnknown` and `ParseError` are one turn of the loop of `Parse`;
`Emit` is one turn of the first loop of `BuildBinary` with `Serialize`, `Patch` and
`LabelNotFound` of the second. `not` is compiled by reading a second element of a
vector of one: what is read is undefined, and the model takes any register or an
error. The bytes of C++ objects that are never initialised are any of `Junk`. The host
calls `Parse` and `BuildBinary` in any order; a vector longer than `MaxBefore` is
replaced by an empty one before the next call. The properties read the image as
`Chip32` does, with the sizes of `Chip32Base`. `JumpsLand` speaks of the labels of
code. Names of data get the addresses that the code gives them, none for constants,
which comments contradict (section 6).

## 3. Runs, bounds, and why they are enough

| run | distinct states | bounds |
|---|---|---|
| `door_loop` | 57,360 | time-out 3, clock modulo 6, 2 ticks in a pass |
| `radio` | 770,808 | payload of 3 bits; sync 3, software sync 4, overflow 5 half bits |
| `frame_codec` | 728,064 | 3 bytes of 4 bits, up to 2 inverted bits |
| `registry` | 1,915,124 | 2 remotes, 3 presses each, table of 3, window 2, bytes modulo 4, no failures |
| `registry_faults` | 1,815,550 | 3 remotes with addresses of 3 bytes modulo 4, 1 press of one, 1 misread frame of each other one, 1 power failure, 1 reset command |
| `console` | 1,014 | 4 seconds of programming mode, 2 seconds in a pass |
| `garage` | 228,266 | 2 remotes with addresses of 3 bits, table of 2, window 1, codes modulo 2, 3 frames, 1 second of programming mode, 1 second in a pass, 1 power failure |
| `chip32` | 365,169 | ROM 16, RAM 24 at address 20, of which 12 for the stack, bytes modulo 32, limits none, 1 and 2 |
| `chip32_asm` | 1,185,311 | sources of 3 lines out of 21, addresses modulo 29, bytes modulo 26, up to 2 bytes in the vector |

The other three runs (`registry_stale_index`, `registry_power_cut`,
`chip32_asm_text`) each exhibit one disagreement of section 6.

* `door_loop` checks `NeverBothDirections`, `StateMatchesPins`, `RunBounded`,
  `DoorStops` and the refinement `ImplementsDoor`. The clock wraps in the middle of
  a run, and two ticks per pass let the time-out be noticed late. Requests and
  resets are unbounded. The proofs of section 5 remove the bounds.
* `radio` checks `RoomForNextBit`, `GoodCaptureExact`, `StaleCaptureShifted` and
  `HeldFrameHeard`. The receiver keeps one bit of history (`halfway`) and a counter:
  three bits contain every pair of successive bits, a first and a last one. The gaps
  are shortened but keep their order (half a bit, a bit, sync, software sync,
  overflow). Noise is unbounded.
* `frame_codec` checks `SentIsDecoded`, `FlipSpoilsTwo` and `ChecksumIsLastByte`. The
  first byte, a middle one and the last one; the operations are bitwise, so two bits
  per nibble have all the cases that four have; two inverted bits, the least number
  that can cancel out.
* `registry` checks `StoredCodeIsOwn`, `RepeatsIgnored`, `LockOutLasts` and
  `ImplementsTable`: with a window of 2, three presses take a code through the
  window, to its edge and beyond it, and a remote's codes wrap within them. The first
  codes of the two remotes lie further apart than a window, as they do in practice
  with 2^16 of them: see `registry_stale_index` for what follows when they do not.
* `registry_faults` checks `TableWithinBounds`, `EepromMirrors`, `NoDuplicates` and
  `ImplementsTable`: three remotes compete for the two usable cells of the table, a
  failure falls between any two bytes written, a frame between any two steps of the
  reset command, and two remotes are heard only through noise. The addresses differ in
  several bytes, and one of them is what is left of another when the third has been
  written over it in part: a torn address may be blank in part, nobody's, or a
  neighbour's.
* `console` checks `ProgModeBounded`, `NotClosedEarly` and `ProgModeEnds`: passes
  shorter and longer than a second, all commands, unbounded.
* `garage` checks `AdmittedInTime`, `StartedByRight`, `ImplementsComponents` and
  `RequestHeeded`. Three frames are the least with two remotes and two codes of one
  of them; the table of two has one usable place, so that it is empty and full and one
  remote at a time is known. The two addresses differ in two bytes, so that a restart
  may know either, a mixture of both, or blank memory. Since
  the parts are checked by themselves with larger bounds, this run only has to reach
  every order of their steps: a request from the switch, one from the radio between
  the test and the clearing of the flag, programming mode that opens, times out or is
  used up by a frame at any statement, a power failure anywhere.
* `chip32` checks `WritesStayInRam`, `LimitedRunReturns` and `ImplementsIsaElsewhere`
  on every program of two instructions out of 36, of three where the first is
  `push`, `skipz` or a change of `sp`, plus programs for the deep stack, each
  arithmetic instruction and the end of ROM (`MCChip32`). With a limit of 1 the host
  pauses the machine after each instruction; with a limit of 2 an instruction is also
  skipped under a limit. RAM is placed at 20, its size less a word: the highest place at
  which the theorem of section 5 keeps pushes inside. The heap is smaller than ROM (12
  and 16), so that the checks of `store` and `load` against the size of ROM let through
  an access that overlaps the room of the stack.
  Words have 20 bits because TLC's integers have 31.
* `chip32_asm` checks `ImageIsSource`, `JumpsLand` and `PatchesReserved`. Three lines
  hold a jump, its label and what lies between or before them; operands wider than
  their place are cut, constants of a width that there is not are refused; a constant
  of 25 bytes takes the image to the last address of 29 and beyond; bytes modulo 26
  give every opcode a value and every address its two bytes. Each source is built into
  an empty vector and behind the bytes of another build, once and twice.

Deadlock is checked everywhere but in `frame_codec`, whose behaviours end with
the decoded frame.

## 4. Fairness

* `DoorLoop`, `Console`: `WF(Loop)`, as the Arduino core calls `loop()` for ever
  and no interrupt lasts for ever; `WF(Tick)` and `WF(Second)`, as the timers
  run. Nothing is assumed of the environment: nobody has to press or type.
* `RadioReceiver`: time goes on and no EEPROM save lasts for ever
  (`WF(Time /\ ~busy')`); a remote whose button is held keeps sending
  (`WF(held /\ Send)`), which is what `HeldFrameHeard` is about. The band is quiet
  from `Hold` on: over noise that never ends no receiver can promise anything.
* `Chip32`: `WF(chip32_run)`, a called C function runs. The host need not call.
* `Garage`: weak fairness of the return of `processFrame`; strong fairness of
  `loop()` and of Timer 3, which the radio interrupt holds up again and again but
  never for ever. (In `Console` alone nothing holds them up and weak fairness is
  enough; `ImplementsComponents` shows that the composition gives `Console` its
  fairness.) `RequestHeeded` is stated for the time after the last power failure.
* `RemoteRegistry` and `Chip32Asm` state no liveness and have no fairness: the
  former promises nothing "in the end", the latter returns to its host after a
  number of steps that the length of the source bounds.

## 5. What is proved

All proofs are about the modules themselves, with their constants left open under
the assumptions they declare (`ConstantsAssumption`, `TimingAssumption`, ...), which
TLC evaluates in every run. A theorem with a hypothesis of its own says so.

| theorem | says | argument |
|---|---|---|
| `DoorLoopProofs!TypeCorrect` | `TypeOK`, for every time-out, clock width and latency | inductive as it stands |
| `DoorLoopProofs!BridgeIsSafe` | `NeverBothDirections` | `IInv` |
| `DoorLoopProofs!StateIsKnown` | `StateMatchesPins` | `IInv` |
| `DoorLoopProofs!RunIsBounded` | `RunBounded`, through the wrap of the clock | `IInv` |
| `DoorLoopProofs!LoopImplementsDoor` | `Spec => ImplementsDoor` | step simulation under `IInv` and `RequestKept` |
| `RadioReceiverProofs!TypeCorrect` | `TypeOK`, for every payload length | `TInv` |
| `RadioReceiverProofs!FrameWritesInBounds` | `RoomForNextBit`, for every payload length | `Counters` |
| `RadioReceiverProofs!CaptureIsExact` | `GoodCaptureExact` | `CaptureInv` |
| `RadioReceiverProofs!StaleCaptureIsShifted` | `StaleCaptureShifted` | `CaptureInv` |
| `FrameCodecProofs!TypeCorrect` | `TypeOK`, for every frame length and byte width | `IInv`, `LinkInv` |
| `FrameCodecProofs!SentIsAlwaysDecoded` | `SentIsDecoded` | `IInv`, `LinkInv` |
| `FrameCodecProofs!FlipsSpoilTwo` | `FlipSpoilsTwo`, for any number of flips | `IInv`, `LinkInv` |
| `FrameCodecProofs!ChecksumSeesLastByte` | `ChecksumIsLastByte` | loop invariant `IInv` |
| `RemoteRegistryProofs!TypeCorrect` | `TypeOK` | `TypeInv` |
| `RemoteRegistryProofs!TableStaysWithinBounds` | `TableWithinBounds` | `TableInv` |
| `RemoteRegistryProofs!NoRemoteTwice` | `NoDuplicates` | `DupInv`, until the first power failure |
| `RemoteRegistryProofs!NothingIsLostBetweenSaves` | `EepromMirrors` | `SavedUpTo` |
| `RemoteRegistryProofs!HeldButtonActsOnce` | `RepeatsIgnored`, if `Misread = {}` | `ServedOnce` |
| `RemoteRegistryProofs!RegistryKeepsThePromise` | `Spec => ImplementsTable`, with resets and with failures between any two bytes | step simulation under the invariants above |
| `RemoteRegistryProofs!OverflowTestAddsNothing` | `isRollingCodeValid` is its first comparison | modular arithmetic |
| `RemoteRegistryProofs!OwnCodesOnly` | `StoredCodeIsOwn`, if `Misread = {}`, `MaxCrashes = 0` and `NoneInWindow` | `OwnInv` |
| `RemoteRegistryProofs!LockedOutForGood` | `LockOutLasts`, if also `MaxPresses[d] <= CodeMod` | `OwnInv`, `GoneInv`, step by step |
| `ConsoleProofs!TypeCorrect` | `TypeOK` | `IInv` |
| `ConsoleProofs!ProgModeIsBounded` | `ProgModeBounded` | `IInv` |
| `ConsoleProofs!TimerIsNotEarly` | `NotClosedEarly` | the same `IInv` |
| `Chip32AsmProofs!TypeCorrect` | `TypeOK`, for every source: what is compiled and written are bytes | `TInv` and what each line is compiled to |
| `Chip32AsmProofs!ImageIsTheSource` | `ImageIsSource`, of every source whose texts are single words (`WholeSource`) | `IInv`; little-endian numbers read back |
| `Chip32AsmProofs!JumpsLandWhereMeant` | `JumpsLand`, for the labels of code | `IInv`: `Stands` and `PatchStands` |
| `Chip32AsmProofs!PatchesOnlyReserved` | `PatchesReserved`, up to the last of the 16-bit addresses | `ReservedInv` |
| `Chip32AsmProofs!AssembledRuns` | an announced image in the machine of `Chip32`: every instruction but `not` and `jr` is executed with the operands meant | `IInv`, `RegistersNamed`, `TakesOperands` |
| `GarageProofs!ComponentsKept` | `Spec => KeepsComponents` | step by step |
| `GarageProofs!OnlyTheEntitledStart` | `StartedByRight` | a frame in hand and a flag set are somebody's right |
| `GarageProofs!AdmissionIsInTime` | `AdmittedInTime` | from `ConsoleProofs!ProgModeIsBounded`, through the composition |
| `Chip32Proofs!TypeCorrect` | `TypeOK` for every program and memory, if arithmetic yields words | one lemma per kind of effect |
| `Chip32Proofs!NothingWrittenOutside` | `WritesStayInRam`, if also `RomSize <= RamSize` and `RamAddr + 4 <= RamSize` | from `TypeOK` and the two checks |
| `Chip32Proofs!LimitIsUsedUp` | with a limit, each step that stays in the loop is counted and the count stays within the limit | `TypeOK` |
| `Chip32Proofs!DoesWhatIsaSays` | `Spec => InstructionSet!Init /\ ImplementsIsaElsewhere` in every layout, if arithmetic yields words and the host leaves `ip` and `sp` alone | step simulation, one lemma per instruction |

* *Door.* `NeverBothDirections` is not inductive: `DoorGoBackward` raises its pin
  first. `PinsByLabel` adds what each label knows of the pins, `garageState` and
  the direction. `RunBounded` is not inductive either: `ClockByLabel` says that
  while the time-out is armed the motor has been on no longer than the clock shows
  since `startGarageTime`, which in turn is below the time-out plus the latency of
  this pass. `ElapsedTick` is the lemma on modular subtraction: one tick adds one
  to the difference unless it wraps, which the bound excludes.
* *Refinement of the door.* Each action of `DoorLoop` is a `Take`, `Start`, `Stop`,
  `TimeOut`, `Press` or `Restart` of `Door`, or hidden. `RequestKept` (only `loop()`
  takes a request away) is what makes `ClearAction` a `Take`.
* *Capture.* `CaptureInv` relates what is still to come of the wave, counted from its
  end (`HalvesLeft`), to the bits taken so far and to `halfway`: the receiver is never
  told where in the frame it is, so the position has to come from the transmitter.
* *Decoding.* Scrambling and descrambling are recursive functions over the bytes of
  a frame. That they are inverse is shown by a least counterexample: if some byte
  came out wrong, so would the one before it. Decoded byte `n` is received byte `n`
  combined with received byte `n - 1`, so a flip shows in two bytes and the checksum
  telescopes: after byte `i` its low nibble is that of received byte `i` alone. Hence
  noise anywhere but in the last byte is accepted.
* *Registry.* `TableInv` adds the count in EEPROM, the value the reset command
  holds in its hand, and the index that survives a save. `ResetTypes` adds that a save
  which is inside an entry stays inside the array, although the interrupt may have
  changed the count since the entry was begun (`InEntry`). `DupInv` adds that an
  entry is one the remotes can have sent; deleting shifts the entries and keeps
  them distinct, adding needs that the address was not found (`FindKnown`).
  `SavedUpTo` says that the bytes a save has passed agree with RAM; `CodeBytes` and
  `TwoBytes` make a code of its two bytes again. It holds in the
  middle of a save that a power failure cuts short, and the restart loads the
  half-written table, so that the two agree again. `ServedOnce` ties the
  actions since a press to `lastFrame`: after the first one the frame is either still
  the last one heard, and ignored, or `mixed` is set.
* *Refinement of the table.* `AddedCodes`, `DeletedCodes` and `CodedCodes` say what
  appending an entry, moving the entries down over one place, and writing a code do to
  the map that a table stands for, in which the first entry of a remote counts.
  `OnlyAdmitted` says of RAM, of EEPROM and of the byte that the reset command has in
  hand that each byte of an address is, at its place, that of a remote added some time
  or of blank memory; it is kept by each byte written (`PieceWritten`) and makes a
  restart an abstract one. `CountedAreRemotes` says that before the first failure the
  counted entries are whole addresses. `AheadIs` turns a valid code into an `Advance`, and
  `AsManyRemotes` counts the remotes of a table without duplicates, so that a table
  found full is full of remotes (`Refuse`). After a failure a remote may have two
  entries; that is why the abstract `Forget` may then leave the other one.
* *Codes.* `NoneInWindow` says that no code of a remote lies less than a window ahead
  of another's, which the run `registry_stale_index` shows to be needed. Then a code
  that is valid for the place that was looked up is one of the remote in that place
  (`ValidIsOwn`), although that place may by then be another remote's or a cell that
  is not counted any more: `OwnInv` covers the pending place for that reason. A remote
  that is locked out stays so because each press takes it one code further from the
  one stored (`PressesApart`), which no other step moves (`StoredStays`), until its
  codes come round; `GoneInv` says that the frame of a deletion, whose code is still to
  be checked, is that of a remote no longer known.
* *Console.* `Counted` relates `progModeSeconds` to the seconds since it was asked
  for: they differ by at most one pass of `loop()`.
* *Composition.* `ComponentsKept` shows for each action of `Garage` that it is, for
  each of the three components, one of its steps or invisible. Invariants of a part are
  then invariants of the whole: `AdmissionIsInTime` takes `ProgModeBounded` from
  `ConsoleProofs` instead of proving it again. `OpenIsAsked` takes the mode back to a
  command, `Growth` says that only a frame in the mode or a restart makes a remote known.
  `Guarded` follows the right to the door from the frame in hand to the flag and to the
  request being served.
* *chip32.* The hypotheses of `NothingWrittenOutside` are needed: `CanPush` compares
  the offset `sp` with the *address* of RAM and `store` compares an offset in RAM with
  the *size of ROM*. Raising `RamAddr` above `RamSize - 4` lets a program that sets
  `sp` write behind RAM, as the mutant `CanPushBelowEnd` shows.
* *Refinement of the instruction set.* Nothing is assumed of the layout but what
  `MachineAssumption` says: ROM and RAM lie in 16 bits and do not overlap, the stack has
  no more room than RAM. Each instruction that names neither `ip` nor `sp` (`Within`) is
  shown to be the instruction of `Chip32Isa` or to do what the list says; one that names
  them is `Outside` it. `PushServed` and `PopRefused` say when the checks of the stack let
  an access through and when they are wrong, `AddressRefusedShown`, `StoreShown` and
  `LoadShown` that an address of data is taken as an offset or refused for the size of
  ROM. The stack is kept in RAM: `StackPushed` and `StackPopped` show that a push appends
  and a pop removes the last word, which needs that a word written is read back
  (`JoinOfBytes`, by the uniqueness of quotients, for bytes of any width) and that it
  disturbs no other word. `Fresh` is the one invariant needed beside `TypeOK`: a machine
  that has not begun has no skip pending.
* *Assembler.* `ImageIsSource` speaks of images that have been announced; the inductive
  invariant speaks of the image while it is being built. `ImageInv` says of the lines
  that the first pass has emitted that they lie end to end up to the end of the vector
  (`Lies`), each with its opcode and bytes and, where it declares a place, with that
  place in `m_labels` (`Stands`), and of those that the second pass has been at that
  their two bytes make the address of their label (`PatchStands`). A step of the second
  pass disturbs none of this because the line it patches shares no byte with another
  (`PatchKeepsLines`). `SourceInv` is needed beside it: `Parse` declares a name once,
  also when it is called again after an error, or emitting a later line would move the
  label of an earlier one. `AnnouncedInv` says that only a finished build announces a
  size, so that neither `Parse` nor a failed build leaves the promise of an old image.
  `ReservedInv` needs one address more than the others: in an image that just fills 16
  bits the places to patch still have an address, though the end of the image has none.
  That the operands read are those meant is arithmetic: `TwoBytes` and `FourBytes` put a
  number together again from its bytes, for bytes of any width. The constants of a line
  are joined by `FlattenSeq`, a recursive function behind a `CHOOSE`: `FlattenExists`
  shows by a least counterexample that there is one, `FlattenType` and `FlattenOne` what
  it returns, so that no induction is needed. `LinesAssumption` says what the format
  checks of `Parse` let through: as many arguments as the mnemonic takes, registers that
  `GetRegister` knows, numbers of 32 bits.
* *From the assembler to the machine.* `AssembledRuns` speaks of both programs: for any
  ROM whose first bytes are the announced image (`Loaded`), and any registers whose `ip`
  is the address of an instruction of the source, the machine of `Chip32` is in a state
  where it executes this instruction: it does not refuse the opcode, the place of the
  arguments or a register. It takes the operands that were written, or for a jump or
  call the address of its label, and the next line of the source begins where the machine
  goes on. It does not say that `ip` is there, which is the program's affair. `not` and
  `jr` are left out: they are emitted with a byte more than the machine reads.
* *Limits.* `LimitIsUsedUp` is the part of `LimitedRunReturns` that needs no fairness
  (`EachCounted`): `max_instr` less `instrCount` falls with every step that stays in
  the loop and is never negative. That the loop then takes its next step is left to
  the fairness of the run.

Only model-checked:

* everything under fairness (`DoorStops`, `HeldFrameHeard`, `ProgModeEnds`,
  `LimitedRunReturns`, `RequestHeeded`, the fairness in `ImplementsComponents`), as
  TLAPS does not reason about `ENABLED`.

## 6. Where code and comments disagree

Shown by a run:

| run | what happens |
|---|---|
| `registry_stale_index` | `processFrame` keeps the index it looked up before `deleteRemote` moved the entries; the code of the deleted remote can be stored for the one that moved into its place, if their codes are within a window |
| `registry_power_cut` | a failure while a deletion is saved restarts with a table that is neither the old nor the new one |
| `chip32_asm_text` | a text with a blank, such as the example in the comment of `Parse`, becomes a zero per word, without an error |

Stated exactly by a property or a definition that holds:

* `StaleCaptureShifted`: a capture aborted between the two edges of a bit leaves
  `halfway` set (ino 342); the next undisturbed frame is received half a bit early,
  each bit the opposite of the one before. `HeldFrameHeard`: a frame that ends in
  two equal bits is heard in the end, as it puts `halfway` right.
* `RepeatsIgnored`: `isRepeatedFrame` remembers one frame (ino 618); another one in
  between makes the next repetition new, and a code equal to the stored one is
  accepted.
* `OverflowTestAddsNothing`: the comparison "in case of overflow" (ino 690) adds 100
  to both codes and accepts nothing more; the first one alone is right across the wrap.
* `StartedByRight`: the frame that deletes a remote may still move the door, as its
  code is checked after the deletion (ino 548), and in the place the remote had: "a code
  that is valid" is one that is valid for that place.
* `RemoteTable!Pieced`: a power failure inside an address leaves a remote that nobody
  has added (ino 730).
* `KnownDivergence` of `Chip32`; lines are of chip32.cpp unless said otherwise:

  | action | chip32.h | the machine |
  |---|---|---|
  | `SkipsOnNumber` | `skipz` and `skipnz` test a register | they test its number (366, 376) |
  | `ForgetsSkip` | | a pause forgets a pending skip (149) |
  | `SkipsHalf`, `ReadsBeyondRom` | instructions are skipped whole | `not`, `jmp`, `jr`, `skipz` and `skipnz` have no size in `OPCODES_LIST` (chip32.h 146): their arguments are executed, or read beyond ROM |
  | `DividesOnly` | the remainder goes to the second register | it is lost, and zero traps (285) |
  | `JumpsTooFar` | `jr` goes to the address | to the byte behind it, in 16 bits (359) |
  | `PushesOn` | a push on a full stack is an overflow | it goes into the heap, `stack_size` is not used; all are refused where RAM is placed too low (56) |
  | `PopsOn` | a pop from an empty stack is an underflow | it reads behind RAM unless RAM is placed below 4 (60); where the program is longer than the heap, pops are refused that are fine (62) |
  | `AddressOutsideRomSize` | addresses are of 16 bits, with a dummy byte in gaps | they are refused from the size of ROM on (239, 248) |
  | `StoresAtOffset`, `LoadsAtOffset` | data lies at the address of ROM or RAM | the address is an offset in RAM, whatever `addr` of ROM and RAM |

  `ip` counts from the start of ROM: `g_rom->addr` is looked at by nothing but
  `chip32_memory`. Every `syscall` fails: chip32.h promises handlers, but
  `chip32_on_interrupt` is `static` and called by nobody (112). `Chip32Isa` allows this
  as an interrupt without a handler (`SyscallUnhandled`).
* `Divergent`, `CompileMnemonicArguments`, `AddressOf` and `ParseUnknown` of `Chip32Asm`,
  all in chip32_assembler.cpp: `not` reads a second argument that it need not have, beyond
  its vector (197); `jr` reserves two bytes for a label where the machine reads a register
  (203); a label emits an opcode byte that nobody has initialised (275), so that a jump to
  the first of two labels in a row lands on such a byte; the label of constants in ROM
  keeps address 0 and that of data in RAM gets an address in the image (277, 284), where
  comments say that they get the real one (271, 289, 402); addresses wrap at 16 bits
  without an error (274); operands wider than their place are cut without an error (170,
  210, 217); a text without a character is a zero of the width of its constants (231); a
  word that is no mnemonic is passed over without an error (357), the names `jmp`, `jr`,
  `shl`, `shr` and `ishr` of `chip32.h` among them.

Hazards that no property covers, and why, are marked in `PROJECT.json`: a change of the
wall switch counted twice (the abstract door may be asked at any time), the missing
`volatile`, and, in the assembler, `not` and `jr`, names of data, images that are too
large and words that are passed over (the properties leave these out by name).

Seen while modelling, without a property of their own:

* The automatic switch-off announced by the commands (ino 419) is commented out
  (ino 384); `switchedOnSeconds` stays 0, which `Console!TypeOK` states.
* An EEPROM never written reads a count of -1 (ino 718). The models begin with an
  EEPROM that the reset command has prepared.
* `addRemote` refuses the 16th remote: it compares with `MAX_REMOTES - 1`
  (ino 648). `TableWithinBounds` states the bound that holds.
* `saveRemotes` called by the reset command (ino 413) can write a count that the
  interrupt has changed meanwhile: `EepromMirrors` is stated for runs without it, so
  that nothing is claimed of the EEPROM after such a save but what `ImplementsTable` and
  the types say.
* The calls of `DoorStop` for the limit switches are commented out (ino 245).

## 7. Assumptions and what is left out

* The shared variables of the sketch are not `volatile`. The models assume that
  each pass of `loop()` reads them again, as it does in a build where `loop()` calls
  functions the compiler cannot see into. Multi-byte shared variables are read and
  written in one step; the two that cross the interrupt boundary as more than a byte
  (`remoteCount`, `progModeSeconds`) hold values below 256.
* Messages on the serial line, `showRemotes` and the printing of frames are left
  out; they change no state.
* Radio levels are sampled once per half bit, so that tolerances of `inRange`
  become equality; `Spike` stands for the gaps that fit no range.
* An EEPROM byte is written whole or not at all. `EEPROM.put` writes only bytes that
  have changed; in the models one that has not changed is a step without effect.
* In `StoredCodeIsOwn` and `LockOutLasts` noise makes no valid frame of its own.
* `Chip32` is the build with checks (`VM_DISABLE_CHECKS` not defined), on a host
  with a 64-bit `size_t`; with 32 bits the sum in `_CHECK_CAN_POP` can wrap.
  `WritesStayInRam` holds where ROM is no larger than RAM and RAM is placed at its size
  less a word or lower; chip32.h allows other places, for which nothing is claimed. The
  host calls `chip32_run` again only after a pause. `chip32_stack_push`,
  `chip32_stack_pop` and `chip32_memory` are declared in no header and called by
  nobody.
* `Garage` takes the door, the console and the table at the grain of their modules;
  a remote's frame is heard whole, as `RadioReceiver` and `FrameCodec` yield it.
* `Chip32Asm` begins behind `Split` and `GetArgs`: spaces, comments and the digits of
  numbers are left out, and so are texts with a piece behind a blank that begins with a
  digit, which `strtol` reads as that number. It assumes lines whose arguments the
  format checks accept or refuse as a whole (`malformed`).
* Not modelled, and why: the script engine harness (straight-line calls that print);
  the vendored interpreters and parsers (`json`, `tcli`, `lisp-1k`,
  `lisp-interpreter`, `RISVM`, `fe`, `zForth`, `partcl`, `chip8`, `jsmn`, `nano-cbor`),
  which are other projects' code that nothing here depends on; the container
  configuration in `home_assistant`. These copies are more than 95 % of the lines
  under version control: the map covers a small share of all lines, but nearly every
  statement that changes state in the repository's own two programs.

## 8. Plan

Done: every component of the sketch and of chip32, the abstract specifications
`Door`, `RemoteTable` and `Chip32Isa`, the composition `Garage`, and the proofs of
section 5.

Left, in this order:

1. A composition of `Chip32Asm` and `Chip32`: assemble, load, run. `AssembledRuns` shows
   one instruction at a time; what is missing is the host that loads the image, and a
   whole program.
2. `chip32_asm` with sources of four lines, once with fewer kinds of line.
