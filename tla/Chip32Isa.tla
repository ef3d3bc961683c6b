------------------------------ MODULE Chip32Isa ------------------------------
(***************************************************************************)
(* The instruction set that chip32.h documents, as an abstract machine: a  *)
(* stack that is a sequence of words, a heap beside it, an instruction     *)
(* pointer that always stands at an instruction and counts, as the labels  *)
(* of the assembler do, from the start of ROM.  It knows nothing of the    *)
(* budget of chip32_run() and its pauses.                                  *)
(*                                                                         *)
(* Data lies in one address space of 16 bits: ROM and RAM somewhere in it, *)
(* and a dummy byte wherever neither is.  RAM holds the heap and above it  *)
(* the room for the stack.                                                 *)
(*                                                                         *)
(* A program that names ip or sp as a register is outside the instruction  *)
(* set: anything may follow.                                               *)
(***************************************************************************)
EXTENDS Chip32Base

CONSTANTS
  RomAddr, RamAddr,  \* where ROM and RAM start in the address space
  StackSize          \* the stack_size given to chip32_initialize(), in bytes

HeapSize == RamSize - StackSize
General  == Registers \ {IP, SP}

VARIABLES
  rom,       \* the program
  pc,        \* the address of the next instruction
  regs,      \* the registers but ip and sp
  stack,     \* the words pushed, the last one at the end
  heap,      \* the bytes that load and store reach
  skip,      \* the next instruction is to be skipped
  outcome    \* "on", or why the program has stopped

isaVars == <<rom, pc, regs, stack, heap, skip, outcome>>

Init ==
  /\ pc = 0
  /\ regs = [r \in General |-> 0]
  /\ stack = <<>>
  /\ heap = [a \in 0 .. HeapSize - 1 |-> 0]
  /\ skip = FALSE
  /\ outcome = "on"

(* The instruction at pc, when it lies in ROM with its arguments.          *)
Fetch(op) ==
  /\ outcome = "on"
  /\ pc < RomSize /\ rom[pc] \in Opcodes
  /\ Instructions[rom[pc] + 1] = op
  /\ pc + ArgBytes(op) < RomSize

Arg(k)   == rom[pc + k]
Short(k) == Arg(k) + ByteMod * Arg(k + 1)
After(op) == pc + ArgBytes(op) + 1   \* the address after the instruction

Execute(op) ==
  /\ Fetch(op) /\ ~skip
  /\ \A k \in RegisterArgs(op) : Arg(k) \in General

(* The effects an instruction has, what it does not name staying as it is. *)
Sets(newRegs, newPc) ==
  /\ regs' = newRegs /\ pc' = newPc
  /\ UNCHANGED <<rom, outcome>>

Jump(newRegs, newPc) == Sets(newRegs, newPc) /\ UNCHANGED <<stack, heap, skip>>
Plain(op, newRegs)   == Jump(newRegs, After(op))

Stops(why) ==
  /\ outcome' = why /\ pc' \in Word
  /\ UNCHANGED <<rom, regs, stack, heap, skip>>

-----------------------------------------------------------------------------
Nop == Execute("nop") /\ Plain("nop", regs)

Halt == Execute("halt") /\ Stops("VM_FINISHED")

(* What is served by "user-registered function" may change any register.   *)
SyscallServed ==
  /\ Execute("syscall")
  /\ \A r \in General : regs'[r] \in Word
  /\ Plain("syscall", [r \in General |-> regs'[r]])

(* "interrupt triggered without registered handler".                       *)
SyscallUnhandled == Execute("syscall") /\ Stops("VM_ERR_UNHANDLED_INTERRUPT")

Lcons == /\ Execute("lcons")
         /\ Plain("lcons", [regs EXCEPT ![Arg(1)] = Join(Arg(2), Arg(3), Arg(4), Arg(5))])

Mov == /\ Execute("mov")
       /\ Plain("mov", [regs EXCEPT ![Arg(1)] = regs[Arg(2)]])

Compute(op) ==
  /\ Execute(op)
  /\ Plain(op, [regs EXCEPT ![Arg(1)] = Alu(op, regs[Arg(1)], regs[Arg(2)])])

(* "divide and store in first reg, remain in second".                      *)
Div ==
  /\ Execute("div") /\ regs[Arg(2)] # 0
  /\ Plain("div", [regs EXCEPT ![Arg(1)] = Alu("div", regs[Arg(1)], regs[Arg(2)]),
                               ![Arg(2)] = Alu("rem", regs[Arg(1)], regs[Arg(2)])])

OpNot == /\ Execute("not")
       /\ Plain("not", [regs EXCEPT ![Arg(1)] = Alu("not", regs[Arg(1)], regs[Arg(1)])])

Push ==
  /\ Execute("push")
  /\ 4 * (Len(stack) + 1) <= StackSize
  /\ stack' = Append(stack, regs[Arg(1)])
  /\ Sets(regs, After("push")) /\ UNCHANGED <<heap, skip>>

PushOnFull ==
  /\ Execute("push") /\ 4 * (Len(stack) + 1) > StackSize
  /\ Stops("VM_ERR_STACK_OVERFLOW")

Pop ==
  /\ Execute("pop") /\ stack # <<>>
  /\ stack' = SubSeq(stack, 1, Len(stack) - 1)
  /\ Sets([regs EXCEPT ![Arg(1)] = stack[Len(stack)]], After("pop"))
  /\ UNCHANGED <<heap, skip>>

PopOnEmpty == Execute("pop") /\ stack = <<>> /\ Stops("VM_ERR_STACK_UNDERFLOW")

(* RA is the next instruction, ret goes back to it.                        *)
Call == /\ Execute("call")
        /\ Jump([regs EXCEPT ![RA] = After("call")], Short(1))

Ret  == Execute("ret") /\ Jump(regs, regs[RA])
Jmp  == Execute("jmp") /\ Jump(regs, Short(1))
Jr   == Execute("jr") /\ Jump(regs, regs[Arg(1)])

(* The memory map: what lies at an address, and the four bytes of a word.  *)
InHeap(a)  == a \in RamAddr .. RamAddr + HeapSize - 1
InStack(a) == a \in RamAddr + HeapSize .. RamAddr + RamSize - 1
InRom(a)   == a \in RomAddr .. RomAddr + RomSize - 1
Cells(a)   == a .. a + 3
LastAddress == ByteMod * ByteMod - 1

(* The bytes that fall into a gap are lost in the dummy byte.  Nothing is  *)
(* said of a store into ROM or into the room of the stack.                 *)
Store ==
  /\ Execute("store") /\ Short(1) + 3 <= LastAddress
  /\ \A c \in Cells(Short(1)) : ~InRom(c) /\ ~InStack(c)
  /\ heap' = [i \in DOMAIN heap |->
                IF RamAddr + i \in Cells(Short(1))
                THEN ByteOf(regs[Arg(3)], RamAddr + i - Short(1)) ELSE heap[i]]
  /\ Sets(regs, After("store")) /\ UNCHANGED <<stack, skip>>

(* A byte from a gap is whatever the dummy byte holds.                     *)
Load ==
  /\ Execute("load") /\ Short(2) + 3 <= LastAddress
  /\ regs'[Arg(1)] \in Word
  /\ \A c \in Cells(Short(2)) :
       LET byte == ByteOf(regs'[Arg(1)], c - Short(2))
       IN  /\ ~InStack(c)
           /\ InHeap(c) => byte = heap[c - RamAddr]
           /\ InRom(c) => byte = rom[c - RomAddr]
  /\ Plain("load", [regs EXCEPT ![Arg(1)] = regs'[Arg(1)]])

BeyondMemory ==
  /\ \/ Execute("store") /\ Short(1) + 3 > LastAddress
     \/ Execute("load") /\ Short(2) + 3 > LastAddress
  /\ Stops("VM_ERR_INVALID_ADDRESS")

(* "skip next instruction if zero", "if not zero".                         *)
SkipIf(op, condition) ==
  /\ Execute(op)
  /\ skip' = condition
  /\ Sets(regs, After(op)) /\ UNCHANGED <<stack, heap>>

Skipz  == SkipIf("skipz", regs[Arg(1)] = 0)
Skipnz == SkipIf("skipnz", regs[Arg(1)] # 0)

SkipOver ==
  /\ skip /\ skip' = FALSE
  /\ \E op \in Ops : Fetch(op) /\ Sets(regs, After(op))
  /\ UNCHANGED <<stack, heap>>

-----------------------------------------------------------------------------
BadAddress ==
  /\ outcome = "on"
  /\ \/ pc >= RomSize
     \/ /\ pc < RomSize /\ rom[pc] \in Opcodes
        /\ pc + ArgBytes(Instructions[rom[pc] + 1]) >= RomSize
  /\ Stops("VM_ERR_INVALID_ADDRESS")

UnknownOpcode ==
  /\ outcome = "on" /\ pc < RomSize /\ rom[pc] \notin Opcodes
  /\ Stops("VM_ERR_UNKNOWN_OPCODE")

BadRegister ==
  /\ ~skip
  /\ \E op \in Ops : Fetch(op) /\ \E k \in RegisterArgs(op) : Arg(k) \notin Registers
  /\ Stops("VM_ERR_INVALID_REGISTER")

(* Outside the instruction set: anything may follow.                       *)
Outside ==
  \/ outcome = "undefined"
  \/ ~skip /\ \E op \in Ops : Fetch(op) /\ \E k \in RegisterArgs(op) : Arg(k) \in {IP, SP}

Run ==
  \/ Nop \/ Halt \/ SyscallServed \/ SyscallUnhandled \/ Lcons \/ Mov \/ Div \/ OpNot
  \/ \E op \in AluOps : Compute(op)
  \/ Push \/ PushOnFull \/ Pop \/ PopOnEmpty
  \/ Call \/ Ret \/ Jmp \/ Jr \/ Store \/ Load \/ BeyondMemory
  \/ Skipz \/ Skipnz \/ SkipOver
  \/ BadAddress \/ UnknownOpcode \/ BadRegister

(* The host sets a register, or begins again.                              *)
SetRegister ==
  /\ \E r \in General : regs'[r] \in Word /\ regs' = [regs EXCEPT ![r] = regs'[r]]
  /\ UNCHANGED <<rom, pc, stack, heap, skip, outcome>>

Initialize == Init' /\ UNCHANGED rom

Next == Run \/ Outside \/ SetRegister \/ Initialize

Spec == Init /\ [][Next]_isaVars
=============================================================================
