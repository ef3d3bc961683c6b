------------------------------- MODULE Chip32 -------------------------------
(***************************************************************************)
(* The virtual machine of chip32.cpp: chip32_initialize(), the interpreter *)
(* loop of chip32_run() with its checks, one action per instruction, its   *)
(* budget of instructions and the host that calls it again after a pause.  *)
(*                                                                         *)
(* An access outside ROM or RAM is undefined: the status is then "wild     *)
(* read" or "wild write" ("trap" for a division by zero), after which only *)
(* a new start is modelled.  No function that registers an interrupt       *)
(* handler can be called, g_interrupt_callback is always null.             *)
(***************************************************************************)
EXTENDS Chip32Base

CONSTANTS
  RomAddr,     (* g_rom->addr, which chip32_run() does not look at          *)
  RamAddr,     (* g_ram->addr                                               *)
  StackSize,   (* g_stack_size, stored by chip32_initialize and not used    *)
  ProgSize,    (* prog_size, given to chip32_run                            *)
  Roms,        (* the programs: contents of ROM                             *)
  Budgets,     (* max_instr, given to chip32_run; 0 is no limit             *)
  HostWrites   (* register and value of chip32_set_register                 *)

(* ROM and RAM lie in the 16 bits of the memory map and do not overlap.    *)
ASSUME MachineAssumption ==
  /\ RamAddr \in 0 .. ByteMod * ByteMod - RamSize
  /\ RomAddr \in 0 .. ByteMod * ByteMod - RomSize
  /\ RomAddr + RomSize <= RamAddr \/ RamAddr + RamSize <= RomAddr
  /\ ProgSize \in 0 .. ByteMod * ByteMod - 1
  /\ StackSize \in 0 .. RamSize
  /\ Roms \subseteq [0 .. RomSize - 1 -> Byte]
  /\ Budgets \subseteq Nat
  /\ HostWrites \subseteq Registers \X Word

VARIABLES
  rom,       \* g_rom->mem
  ram,       \* g_ram->mem
  reg,       \* g_registers
  status,    \* what chip32_run() returned last, or "running", "ready"
  skip,      \* its variable skip
  count,     \* instrCount, when there is a limit
  budget     \* max_instr

vars == <<rom, ram, reg, status, skip, count, budget>>

Wild    == {"wild read", "wild write", "trap"}
Stopped == {"VM_FINISHED", "VM_ERR_UNKNOWN_OPCODE", "VM_ERR_INVALID_REGISTER",
            "VM_ERR_UNHANDLED_INTERRUPT", "VM_ERR_STACK_OVERFLOW",
            "VM_ERR_STACK_UNDERFLOW", "VM_ERR_INVALID_ADDRESS"}

Zeroed == [r \in Registers |-> IF r = SP THEN RamSize ELSE 0]

Init ==
  /\ rom \in Roms
  /\ ram = [a \in 0 .. RamSize - 1 |-> 0]
  /\ reg = Zeroed
  /\ status = "ready"
  /\ skip = FALSE /\ count = 0 /\ budget = 0

-----------------------------------------------------------------------------
(* Fetching.                                                               *)

(* OPCODES_LIST leaves out the sizes of the last five instructions.        *)
Undersized == {"not", "jmp", "jr", "skipz", "skipnz"}
Bytes(op)  == IF op \in Undersized THEN 0 ELSE ArgBytes(op)

InRom(a) == a < RomSize
Looping  == status = "running" /\ (budget = 0 \/ count < budget)

Fetch(op) ==
  /\ Looping
  /\ InRom(reg[IP]) /\ rom[reg[IP]] \in Opcodes
  /\ Instructions[rom[reg[IP]] + 1] = op
  /\ InRom(reg[IP] + Bytes(op))

Arg(k)   == rom[reg[IP] + k]
Short(k) == Arg(k) + ByteMod * Arg(k + 1)

(* The argument bytes are where the code reads them.                       *)
ArgsInRom(op) == InRom(reg[IP] + ArgBytes(op))

(* _CHECK_REGISTER_VALID for each register named.                          *)
RegistersValid(op) == \A k \in RegisterArgs(op) : Arg(k) \in Registers

Execute(op) == Fetch(op) /\ ~skip /\ ArgsInRom(op) /\ RegistersValid(op)

-----------------------------------------------------------------------------
(* What an instruction does to the machine.                                *)

Plus(w, n)  == (w + n) % WordMod
Consumed(n) == [reg EXCEPT ![IP] = Plus(@, n)]   \* after n argument bytes

(* The end of the loop: g_registers[IP]++, instrCount++.                   *)
Advance(r) ==
  /\ reg' = [r EXCEPT ![IP] = Plus(@, 1)]
  /\ count' = IF budget = 0 THEN 0 ELSE count + 1
  /\ UNCHANGED <<rom, status, budget>>

Plain(r) == Advance(r) /\ UNCHANGED <<ram, skip>>

(* A jump, whose target makes up for the g_registers[IP]++ to come.        *)
JumpTo(r, target) == Plain([r EXCEPT ![IP] = Plus(target, WordMod - 1)])

(* chip32_run() returns, or goes astray, n argument bytes later.           *)
Return(result, n) ==
  /\ status' = result
  /\ reg' = Consumed(n)
  /\ count' = 0 /\ budget' = 0
  /\ UNCHANGED <<rom, ram, skip>>

-----------------------------------------------------------------------------
Nop == Execute("nop") /\ Plain(reg)

Halt == Execute("halt") /\ Return("VM_FINISHED", 0)

Syscall == Execute("syscall") /\ Return("VM_ERR_UNHANDLED_INTERRUPT", 1)

Lcons ==
  /\ Execute("lcons")
  /\ Plain([Consumed(5) EXCEPT ![Arg(1)] = Join(Arg(2), Arg(3), Arg(4), Arg(5))])

(* The instructions with two registers: the words they find in them, and   *)
(* the result they put into the first.                                     *)
First  == Consumed(2)[Arg(1)]
Second == Consumed(2)[Arg(2)]

Result(w) == Plain([Consumed(2) EXCEPT ![Arg(1)] = w])

Mov         == Execute("mov") /\ Result(Second)
Compute(op) == Execute(op) /\ Result(Alu(op, First, Second))

(* The remainder is not kept.                                              *)
Div == Execute("div") /\ Second # 0 /\ Result(Alu("div", First, Second))

DivByZero == Execute("div") /\ Second = 0 /\ Return("trap", 2)

OpNot ==
  /\ Execute("not")
  /\ LET r == Consumed(1)
     IN  Plain([r EXCEPT ![Arg(1)] = Alu("not", r[Arg(1)], r[Arg(1)])])

(* Mutant: sp is a signed number.                                           *)
CanPushSigned == reg[SP] - 4 <= RamAddr

(* Mutant: a push is compared with the end of the address range of RAM.     *)
CanPushBelowEnd == reg[SP] >= 4 /\ reg[SP] - 4 <= RamAddr + RamSize

(* The checks of the stack mix the offset that sp is with the address of   *)
(* RAM and with the size of the program.                                   *)
CanPush      == reg[SP] >= 4 /\ reg[SP] - 4 <= RamAddr
PopUnderflow == reg[SP] + 4 > RamAddr + RamSize
PopOverflow  == ~PopUnderflow /\ reg[SP] < ProgSize
CanPop       == ~PopUnderflow /\ ~PopOverflow

Push ==
  /\ Execute("push") /\ CanPush /\ reg[SP] <= RamSize
  /\ LET r == [Consumed(1) EXCEPT ![SP] = @ - 4]
     IN  ram' = WithWord(ram, r[SP], r[Arg(1)]) /\ Advance(r)
  /\ UNCHANGED skip

Pop ==
  /\ Execute("pop") /\ CanPop /\ reg[SP] + 4 <= RamSize
  /\ LET r == [Consumed(1) EXCEPT ![Arg(1)] = WordAt(ram, reg[SP])]
     IN  Plain([r EXCEPT ![SP] = Plus(@, 4)])

StackRefused ==
  \/ Execute("push") /\ ~CanPush /\ Return("VM_ERR_STACK_OVERFLOW", 1)
  \/ Execute("pop") /\ PopUnderflow /\ Return("VM_ERR_STACK_UNDERFLOW", 1)
  \/ Execute("pop") /\ PopOverflow /\ Return("VM_ERR_STACK_OVERFLOW", 1)

(* Mutant: ra is the last byte of the call.                                 *)
CallReturnsInside ==
  /\ Execute("call")
  /\ JumpTo([Consumed(2) EXCEPT ![RA] = Plus(reg[IP], 2)], Short(1))

Call ==
  /\ Execute("call")
  /\ JumpTo([Consumed(2) EXCEPT ![RA] = Plus(reg[IP], 3)], Short(1))

Ret == Execute("ret") /\ JumpTo(reg, reg[RA])

Jmp == Execute("jmp") /\ JumpTo(Consumed(2), Short(1))

(* The address is not made up for, and cut to 16 bits.                     *)
Jr == /\ Execute("jr")
      /\ Plain([reg EXCEPT ![IP] = Consumed(1)[Arg(1)] % (ByteMod * ByteMod)])

(* store and load: the address is checked against ROM, and used in RAM.    *)
Store ==
  /\ Execute("store") /\ InRom(Short(1) + 3) /\ Short(1) + 3 < RamSize
  /\ ram' = WithWord(ram, Short(1), Consumed(3)[Arg(3)])
  /\ Advance(Consumed(3)) /\ UNCHANGED skip

Load ==
  /\ Execute("load") /\ InRom(Short(2) + 3) /\ Short(2) + 3 < RamSize
  /\ Plain([Consumed(3) EXCEPT ![Arg(1)] = WordAt(ram, Short(2))])

AddressRefused ==
  \/ Execute("store") /\ ~InRom(Short(1) + 3) /\ Return("VM_ERR_INVALID_ADDRESS", 3)
  \/ Execute("load") /\ ~InRom(Short(2) + 3) /\ Return("VM_ERR_INVALID_ADDRESS", 3)

(* The tests look at the number of the register, not at its value.         *)
SkipIf(op, condition) ==
  /\ Execute(op)
  /\ skip' = condition
  /\ Advance(Consumed(1)) /\ UNCHANGED ram

Skipz  == SkipIf("skipz", Arg(1) = 0)
Skipnz == SkipIf("skipnz", Arg(1) # 0)

(* Mutant: an instruction that is skipped is not counted.                   *)
SkipOverUncounted ==
  /\ skip /\ skip' = FALSE
  /\ \E op \in Ops : Fetch(op) /\ reg' = [reg EXCEPT ![IP] = Plus(@, Bytes(op) + 1)]
  /\ UNCHANGED <<rom, ram, status, count, budget>>

SkipOver ==
  /\ skip /\ skip' = FALSE
  /\ \E op \in Ops : Fetch(op) /\ Advance(Consumed(Bytes(op)))
  /\ UNCHANGED ram

-----------------------------------------------------------------------------
(* The other ways out of the loop.                                         *)

BadAddress ==
  /\ Looping
  /\ \/ ~InRom(reg[IP])
     \/ /\ InRom(reg[IP]) /\ rom[reg[IP]] \in Opcodes
        /\ ~InRom(reg[IP] + Bytes(Instructions[rom[reg[IP]] + 1]))
  /\ Return("VM_ERR_INVALID_ADDRESS", 0)

UnknownOpcode ==
  /\ Looping /\ InRom(reg[IP]) /\ rom[reg[IP]] \notin Opcodes
  /\ Return("VM_ERR_UNKNOWN_OPCODE", 0)

(* lcons looks at its register before it reads the constant.               *)
BadRegister ==
  /\ ~skip
  /\ \E op \in Ops :
       /\ Fetch(op) /\ ArgsInRom(op) /\ ~RegistersValid(op)
       /\ Return("VM_ERR_INVALID_REGISTER", IF op = "lcons" THEN 1 ELSE ArgBytes(op))

(* Accesses outside the memories.                                          *)
WildArgument ==
  ~skip /\ \E op \in Ops : Fetch(op) /\ ~ArgsInRom(op) /\ Return("wild read", ArgBytes(op))

(* Where the instructions that access RAM do so, once their checks pass.   *)
Access(op) ==
  CASE op = "push"  -> IF CanPush THEN {reg[SP] - 4} ELSE {}
    [] op = "pop"   -> IF CanPop THEN {reg[SP]} ELSE {}
    [] op = "store" -> IF InRom(Short(1) + 3) THEN {Short(1)} ELSE {}
    [] op = "load"  -> IF InRom(Short(2) + 3) THEN {Short(2)} ELSE {}

WildAccess ==
  \E op \in {"push", "pop", "store", "load"} :
    /\ Execute(op)
    /\ \E a \in Access(op) : a + 3 >= RamSize
    /\ Return(IF op \in {"push", "store"} THEN "wild write" ELSE "wild read", 0)

Pause ==
  /\ status = "running" /\ budget # 0 /\ count >= budget
  /\ status' = "VM_PAUSED" /\ count' = 0 /\ budget' = 0
  /\ UNCHANGED <<rom, ram, reg, skip>>

chip32_run ==
  \/ Nop \/ Halt \/ Syscall \/ Lcons \/ Mov \/ Div \/ DivByZero \/ OpNot
  \/ \E op \in AluOps : Compute(op)
  \/ Push \/ Pop \/ StackRefused \/ Call \/ Ret \/ Jmp \/ Jr
  \/ Store \/ Load \/ AddressRefused \/ Skipz \/ Skipnz \/ SkipOver
  \/ BadAddress \/ UnknownOpcode \/ BadRegister
  \/ WildArgument \/ WildAccess \/ Pause

-----------------------------------------------------------------------------
(* The host.                                                               *)

(* chip32_run() is called, for the first time or after a pause: skip and   *)
(* instrCount are new variables.                                           *)
Enter(b) ==
  /\ status \in {"ready", "VM_PAUSED"}
  /\ status' = "running" /\ skip' = FALSE /\ count' = 0 /\ budget' = b
  /\ UNCHANGED <<rom, ram, reg>>

chip32_set_register(r, v) ==
  /\ status \notin Wild \cup {"running"}
  /\ reg' = [reg EXCEPT ![r] = v]
  /\ UNCHANGED <<rom, ram, status, skip, count, budget>>

chip32_initialize ==
  /\ status # "running"
  /\ ram' = [a \in 0 .. RamSize - 1 |-> 0]
  /\ reg' = Zeroed
  /\ status' = "ready" /\ skip' = FALSE /\ count' = 0 /\ budget' = 0
  /\ UNCHANGED rom

Next ==
  \/ chip32_run
  \/ \E b \in Budgets : Enter(b)
  \/ \E w \in HostWrites : chip32_set_register(w[1], w[2])
  \/ chip32_initialize

Spec == Init /\ [][Next]_vars

(* The loop of chip32_run() goes on while it may.                          *)
FairSpec == Spec /\ WF_vars(chip32_run)

-----------------------------------------------------------------------------
(* The types of the variables.                                             *)
TypeOK ==
  /\ rom \in [0 .. RomSize - 1 -> Byte]
  /\ ram \in [0 .. RamSize - 1 -> Byte]
  /\ reg \in [Registers -> Word]
  /\ status \in {"ready", "running", "VM_PAUSED"} \cup Stopped \cup Wild
  /\ skip \in BOOLEAN
  /\ budget \in Nat /\ count \in Nat
  /\ budget # 0 => count <= budget

(* However the program sets sp, calls, jumps into the middle of an         *)
(* instruction or is paused: push and store change nothing outside RAM.    *)
WritesStayInRam == status # "wild write"

(* With a limit chip32_run() returns, whatever the program does: each step *)
(* that stays inside uses up one of the max_instr instructions, one that is*)
(* only skipped too, and the loop goes on until none is left.              *)
Limited     == status = "running" /\ budget # 0
EachCounted == Limited /\ Limited' =>
                 budget' = budget /\ count' = count + 1 /\ count' <= budget

LimitedRunReturns == [][EachCounted]_vars /\ (Limited ~> status # "running")

-----------------------------------------------------------------------------
(* The instruction set of chip32.h: its stack is the words between sp and  *)
(* the end of RAM, its heap what lies below the room for the stack.        *)
HeapSize == RamSize - StackSize

StackInPlace == reg[SP] \in HeapSize .. RamSize /\ (RamSize - reg[SP]) % 4 = 0

Outcome ==
  IF status \in Wild \/ ~StackInPlace THEN "undefined"
  ELSE IF status \in {"ready", "running", "VM_PAUSED"} THEN "on"
  ELSE status

General  == Registers \ {IP, SP}
Shown(r) == [x \in General |-> r[x]]

InstructionSet == INSTANCE Chip32Isa WITH
  pc      <- reg[IP],
  regs    <- Shown(reg),
  stack   <- [i \in 1 .. (RamSize - reg[SP]) \div 4 |-> WordAt(ram, RamSize - 4 * i)],
  heap    <- [a \in 0 .. HeapSize - 1 |-> ram[a]],
  outcome <- Outcome

(* Where the machine does something else than chip32.h says, and what.  It *)
(* also refuses every syscall: nothing can register a function for them.   *)
Stops(why) == InstructionSet!Stops(why)
GoesAstray == Outcome' = "undefined"

(* A pause forgets the skip.                                               *)
ForgetsSkip ==
  /\ status = "VM_PAUSED" /\ skip /\ skip' = FALSE
  /\ UNCHANGED <<rom, ram, reg, Outcome>>

(* The number of the register is tested, not its value.                    *)
SkipsOnNumber ==
  \/ InstructionSet!SkipIf("skipz", Arg(1) = 0)
  \/ InstructionSet!SkipIf("skipnz", Arg(1) # 0)

(* The last five instructions are skipped without their arguments, which   *)
(* may also lie beyond ROM.                                                *)
SkipsHalf ==
  /\ \E op \in Undersized : Fetch(op)
  /\ skip /\ skip' = FALSE
  /\ InstructionSet!Sets(Shown(reg), reg[IP] + 1)
  /\ UNCHANGED <<ram, reg[SP]>>

ReadsBeyondRom == ~skip /\ (\E op \in Undersized : Fetch(op) /\ ~ArgsInRom(op)) /\ GoesAstray

(* The remainder is lost, and a divisor of zero not noticed.               *)
DividesOnly ==
  /\ InstructionSet!Execute("div")
  /\ IF reg[Arg(2)] = 0 THEN GoesAstray
     ELSE InstructionSet!Plain("div",
            [Shown(reg) EXCEPT ![Arg(1)] = Alu("div", reg[Arg(1)], reg[Arg(2)])])

(* jr goes to the byte behind its target, in 16 bits.                      *)
JumpsTooFar ==
  /\ InstructionSet!Execute("jr")
  /\ InstructionSet!Jump(Shown(reg), (reg[Arg(1)] % (ByteMod * ByteMod)) + 1)

(* A push goes on below the room of the stack, or is refused because RAM is*)
(* placed too low.                                                         *)
PushesOn ==
  /\ InstructionSet!Execute("push")
  /\ \/ reg[SP] - 4 < HeapSize /\ GoesAstray
     \/ reg[SP] - 4 > RamAddr /\ Stops("VM_ERR_STACK_OVERFLOW")

(* A pop from the empty stack reads behind RAM, unless RAM is placed at the*)
(* very bottom; one from a stack that has grown is refused if the program  *)
(* is longer than the heap.                                                *)
PopsOn ==
  /\ InstructionSet!Execute("pop")
  /\ \/ reg[SP] = RamSize /\ RamAddr >= 4 /\ GoesAstray
     \/ reg[SP] < ProgSize /\ Stops("VM_ERR_STACK_OVERFLOW")

(* An address of data is refused beyond the size of ROM, and else taken as *)
(* one that counts from the start of RAM, which it is if RamAddr is 0.     *)
AddressOutsideRomSize ==
  /\ \/ InstructionSet!Execute("store") /\ ~InRom(Short(1) + 3)
     \/ InstructionSet!Execute("load") /\ ~InRom(Short(2) + 3)
  /\ Stops("VM_ERR_INVALID_ADDRESS")

StoresAtOffset ==
  /\ InstructionSet!Execute("store") /\ InRom(Short(1) + 3)
  /\ IF Short(1) + 3 >= RamSize THEN GoesAstray
     ELSE /\ InstructionSet!Sets(Shown(reg), InstructionSet!After("store"))
          /\ ram' = WithWord(ram, Short(1), reg[Arg(3)])
          /\ UNCHANGED <<reg[SP], skip>>

LoadsAtOffset ==
  /\ InstructionSet!Execute("load") /\ InRom(Short(2) + 3)
  /\ IF Short(2) + 3 >= RamSize THEN GoesAstray
     ELSE InstructionSet!Plain("load", [Shown(reg) EXCEPT ![Arg(1)] = WordAt(ram, Short(2))])

KnownDivergence ==
  \/ ForgetsSkip \/ SkipsOnNumber \/ SkipsHalf \/ ReadsBeyondRom
  \/ DividesOnly \/ JumpsTooFar \/ PushesOn \/ PopsOn
  \/ AddressOutsideRomSize \/ StoresAtOffset \/ LoadsAtOffset

(* The machine does what chip32.h says, or exactly what the list says that *)
(* it does instead: over pauses and limits, with stack and heap in one     *)
(* memory, when a program jumps into the middle of an instruction.         *)
ImplementsIsaElsewhere == [][InstructionSet!Next \/ KnownDivergence]_(InstructionSet!isaVars)

=============================================================================
