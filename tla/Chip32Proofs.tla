---------------------------- MODULE Chip32Proofs ----------------------------
(***************************************************************************)
(* For memories and programs of every size: the registers stay words and   *)
(* the memories bytes, a limited run stays within its limit, and nothing is*)
(* written outside RAM when RAM is no smaller than ROM and not placed      *)
(* higher than its own size.  In every layout the machine implements       *)
(* Chip32Isa but for the divergences that Chip32 lists.                    *)
(***************************************************************************)
EXTENDS Chip32, TLAPS

MemoryOf(size) == [0 .. size - 1 -> Byte]

-----------------------------------------------------------------------------
(* Bytes and words.                                                        *)

LEMMA ByteModPositive == /\ ByteMod \in Nat /\ 26 <= ByteMod
                         /\ ByteMod * ByteMod \in Nat
                         /\ ByteMod * (ByteMod * ByteMod) \in Nat
                         /\ WordMod \in Nat
                         /\ ByteMod * ByteMod <= WordMod
                         /\ 676 <= WordMod
<1>1. ByteMod \in Nat /\ 26 <= ByteMod
  BY Chip32Assumption
<1>2. ByteMod * ByteMod \in Nat /\ 676 <= ByteMod * ByteMod
  BY <1>1
<1>3. /\ ByteMod * (ByteMod * ByteMod) \in Nat
      /\ ByteMod * ByteMod <= ByteMod * (ByteMod * ByteMod)
  BY <1>1, <1>2
<1>4. /\ WordMod \in Nat
      /\ ByteMod * (ByteMod * ByteMod) <= WordMod
  BY <1>1, <1>3 DEF WordMod
<1> QED
  BY <1>1, <1>2, <1>3, <1>4

(* Sixteen bits, and one more, are well below a word.                      *)
LEMMA ShortsBelowWords ==
  ASSUME NEW n \in Nat
  PROVE  n % (ByteMod * ByteMod) \in Nat /\ (n % (ByteMod * ByteMod)) + 1 < WordMod
<1> DEFINE Q == ByteMod * ByteMod
<1>1. ByteMod \in Nat /\ 26 <= ByteMod /\ Q \in Nat /\ 676 <= Q
  <2>1. ByteMod \in Nat /\ 26 <= ByteMod
    BY ByteModPositive
  <2> QED
    BY <2>1
<1>2. Q + 1 <= WordMod
  <2>1. ByteMod * Q \in Nat /\ Q <= ByteMod * Q
    BY <1>1
  <2>2. 26 * (ByteMod * Q) <= ByteMod * (ByteMod * Q)
    BY <1>1, <2>1
  <2> DEFINE R == ByteMod * Q
             V == ByteMod * R
  <2>3. R \in Nat /\ Q <= R /\ 26 * R <= V /\ V \in Nat
    BY <1>1, <2>1, <2>2
  <2>4. WordMod = V
    BY DEF WordMod
  <2> HIDE DEF Q, R, V
  <2> QED
    BY <1>1, <2>3, <2>4
<1> HIDE DEF Q
<1>3. n % Q \in 0 .. Q - 1 /\ WordMod \in Nat
  BY <1>1, ByteModPositive
<1> QED
  BY <1>1, <1>2, <1>3 DEF Q

(* One digit more.                                                         *)
LEMMA Digit ==
  ASSUME NEW M \in Nat, NEW b \in Byte, NEW w \in 0 .. M - 1
  PROVE  b + ByteMod * w \in 0 .. ByteMod * M - 1
<1>1. ByteMod \in Nat /\ 26 <= ByteMod
  BY ByteModPositive
<1>2. ByteMod * w <= ByteMod * (M - 1)
  BY <1>1
<1>3. ByteMod * (M - 1) = ByteMod * M - ByteMod
  BY <1>1
<1>4. ByteMod * w \in Nat /\ ByteMod * M \in Nat
  BY <1>1
<1> QED
  BY <1>1, <1>2, <1>3, <1>4 DEF Byte

(* Four bytes make a word.                                                 *)
LEMMA JoinIsWord ==
  ASSUME NEW b0 \in Byte, NEW b1 \in Byte, NEW b2 \in Byte, NEW b3 \in Byte
  PROVE  Join(b0, b1, b2, b3) \in Word
<1>1. b3 \in 0 .. ByteMod - 1
  BY DEF Byte
<1>2. b2 + ByteMod * b3 \in 0 .. ByteMod * ByteMod - 1
  BY <1>1, Digit, ByteModPositive
<1>3. b1 + ByteMod * (b2 + ByteMod * b3) \in 0 .. ByteMod * (ByteMod * ByteMod) - 1
  BY <1>2, Digit, ByteModPositive
<1>4. b0 + ByteMod * (b1 + ByteMod * (b2 + ByteMod * b3)) \in 0 .. WordMod - 1
  BY <1>3, Digit, ByteModPositive DEF WordMod
<1> QED
  BY <1>4 DEF Join, Word

LEMMA ByteOfIsByte ==
  ASSUME NEW w \in Word, NEW i \in 0 .. 3
  PROVE  ByteOf(w, i) \in Byte
<1>1. w \in Nat
  BY ByteModPositive DEF Word
<1>2. \A m \in Nat : m % ByteMod \in Byte
  BY ByteModPositive DEF Byte
<1>3. \A d \in Nat \ {0} : w \div d \in Nat
  BY <1>1
<1>4. /\ ByteMod \in Nat \ {0}
      /\ ByteMod * ByteMod \in Nat \ {0}
      /\ ByteMod * (ByteMod * ByteMod) \in Nat \ {0}
  BY ByteModPositive
<1>5. CASE i = 0
  BY <1>1, <1>2, <1>5 DEF ByteOf
<1>6. CASE i = 1
  BY <1>2, <1>3, <1>4, <1>6 DEF ByteOf
<1>7. CASE i = 2
  BY <1>2, <1>3, <1>4, <1>7 DEF ByteOf
<1>8. CASE i = 3
  BY <1>2, <1>3, <1>4, <1>8 DEF ByteOf
<1> QED
  BY <1>5, <1>6, <1>7, <1>8

(* A word written keeps a memory a memory, wherever it is written.         *)
LEMMA WithWordTyped ==
  ASSUME NEW size \in Nat, NEW m \in MemoryOf(size), NEW a \in Nat, NEW w \in Word
  PROVE  WithWord(m, a, w) \in MemoryOf(size)
<1>1. DOMAIN m = 0 .. size - 1
  BY DEF MemoryOf
<1>2. ASSUME NEW i \in 0 .. size - 1
      PROVE  (IF i \in a .. a + 3 THEN ByteOf(w, i - a) ELSE m[i]) \in Byte
  <2>1. CASE i \in a .. a + 3
    <3>1. i - a \in 0 .. 3
      BY <2>1
    <3> QED
      BY <2>1, <3>1, ByteOfIsByte
  <2>2. CASE i \notin a .. a + 3
    BY <2>2 DEF MemoryOf
  <2> QED
    BY <2>1, <2>2
<1> QED
  BY <1>1, <1>2 DEF WithWord, MemoryOf

LEMMA WordAtTyped ==
  ASSUME NEW size \in Nat, NEW m \in MemoryOf(size), NEW a \in Nat, a + 3 < size
  PROVE  WordAt(m, a) \in Word
<1>1. m[a] \in Byte /\ m[a + 1] \in Byte /\ m[a + 2] \in Byte /\ m[a + 3] \in Byte
  BY DEF MemoryOf
<1> QED
  BY <1>1, JoinIsWord DEF WordAt

LEMMA PlusTyped ==
  ASSUME NEW w \in Word, NEW n \in Nat
  PROVE  Plus(w, n) \in Word
BY ByteModPositive DEF Plus, Word

-----------------------------------------------------------------------------
(* Registers.                                                              *)
Regs == [Registers -> Word]

LEMMA PointersAreRegisters == IP \in Registers /\ SP \in Registers /\ RA \in Registers
BY DEF IP, SP, RA, Registers

LEMMA SetTyped ==
  ASSUME NEW r \in Regs, NEW i \in Registers, NEW w \in Word
  PROVE  [r EXCEPT ![i] = w] \in Regs
BY DEF Regs

LEMMA ConsumedTyped ==
  ASSUME TypeOK, NEW n \in Nat
  PROVE  Consumed(n) \in Regs
<1>1. reg \in Regs /\ reg[IP] \in Word
  BY PointersAreRegisters DEF TypeOK, Regs
<1> QED
  BY <1>1, SetTyped, PlusTyped, PointersAreRegisters DEF Consumed

(* The end of the loop.                                                    *)
LEMMA AdvanceTyped ==
  ASSUME TypeOK, Looping, NEW r \in Regs, Advance(r), ram' \in MemoryOf(RamSize),
         skip' \in BOOLEAN
  PROVE  TypeOK'
<1>1. r[IP] \in Word
  BY PointersAreRegisters DEF Regs
<1>2. reg' \in Regs
  BY <1>1, SetTyped, PlusTyped, PointersAreRegisters DEF Advance
<1>3. count' \in Nat /\ (budget' # 0 => count' <= budget')
  BY DEF TypeOK, Advance, Looping
<1> QED
  BY <1>2, <1>3 DEF TypeOK, Advance, Regs, MemoryOf

LEMMA PlainTyped ==
  ASSUME TypeOK, Looping, NEW r \in Regs, Plain(r)
  PROVE  TypeOK'
<1>1. ram' \in MemoryOf(RamSize) /\ skip' \in BOOLEAN
  BY DEF TypeOK, Plain, MemoryOf
<1> QED
  BY <1>1, AdvanceTyped DEF Plain

LEMMA ReturnTyped ==
  ASSUME TypeOK, NEW n \in Nat, NEW result \in Stopped \cup Wild, Return(result, n)
  PROVE  TypeOK'
<1>1. reg' \in Regs
  BY ConsumedTyped DEF Return
<1> QED
  BY <1>1 DEF TypeOK, Return, Regs

-----------------------------------------------------------------------------
(* The arguments of an instruction that is executed are bytes.             *)
LEMMA ArgsAreBytes ==
  ASSUME TypeOK, NEW op \in Ops, Execute(op)
  PROVE  /\ Looping /\ reg[IP] \in Nat
         /\ \A k \in 1 .. ArgBytes(op) : Arg(k) \in Byte
         /\ \A k \in RegisterArgs(op) : Arg(k) \in Registers
<1>1. reg[IP] \in Nat
  BY PointersAreRegisters, ByteModPositive DEF TypeOK, Word
<1>2. ArgBytes(op) \in Nat
  BY DEF ArgBytes, Ops, Instructions, AluOps
<1>3. reg[IP] + ArgBytes(op) < RomSize
  BY DEF Execute, ArgsInRom, InRom
<1>4. ASSUME NEW k \in 1 .. ArgBytes(op) PROVE Arg(k) \in Byte
  <2>1. reg[IP] + k \in 0 .. RomSize - 1
    BY <1>1, <1>2, <1>3, Chip32Assumption
  <2> QED
    BY <2>1 DEF Arg, TypeOK
<1> QED
  BY <1>1, <1>4 DEF Execute, Fetch, RegistersValid

LEMMA Sizes ==
  /\ AluOps \subseteq Ops
  /\ {"lcons", "mov", "div", "not", "push", "pop", "call", "jmp", "jr", "store", "load",
      "skipz", "skipnz"} \subseteq Ops
  /\ ArgBytes("lcons") = 5 /\ ArgBytes("call") = 2 /\ ArgBytes("jmp") = 2
  /\ ArgBytes("store") = 3 /\ ArgBytes("load") = 3
  /\ RegisterArgs("store") = {3}
  /\ \A op \in {"lcons", "push", "pop", "load", "not", "jr"} : RegisterArgs(op) = {1}
  /\ \A op \in {"mov", "div"} \cup AluOps : RegisterArgs(op) = {1, 2}
BY DEF ArgBytes, RegisterArgs, Ops, Instructions, AluOps

(* Sixteen bits.                                                           *)
LEMMA ShortTyped ==
  ASSUME NEW k \in Nat, Arg(k) \in Byte, Arg(k + 1) \in Byte
  PROVE  Short(k) \in Nat /\ Short(k) \in Word
<1>1. Arg(k + 1) \in 0 .. ByteMod - 1
  BY DEF Byte
<1>2. Short(k) \in 0 .. ByteMod * ByteMod - 1
  BY <1>1, Digit, ByteModPositive DEF Short
<1> QED
  BY <1>2, ByteModPositive DEF Word

LEMMA JumpTyped ==
  ASSUME TypeOK, Looping, NEW r \in Regs, NEW target \in Word, JumpTo(r, target)
  PROVE  TypeOK'
<1>1. WordMod - 1 \in Nat
  BY ByteModPositive
<1>2. [r EXCEPT ![IP] = Plus(target, WordMod - 1)] \in Regs
  BY <1>1, PlusTyped, SetTyped, PointersAreRegisters
<1> QED
  BY <1>2, PlainTyped DEF JumpTo

LEMMA OperandsTyped ==
  ASSUME TypeOK, NEW op \in {"mov", "div"} \cup AluOps, Execute(op)
  PROVE  First \in Word /\ Second \in Word /\ Arg(1) \in Registers
<1>1. Arg(1) \in Registers /\ Arg(2) \in Registers
  BY Sizes, ArgsAreBytes
<1> QED
  BY <1>1, ConsumedTyped DEF First, Second, Regs

LEMMA ResultTyped ==
  ASSUME TypeOK, Looping, Arg(1) \in Registers, NEW w \in Word, Result(w)
  PROVE  TypeOK'
<1>1. [Consumed(2) EXCEPT ![Arg(1)] = w] \in Regs
  BY ConsumedTyped, SetTyped
<1> QED
  BY <1>1, PlainTyped DEF Result

-----------------------------------------------------------------------------
(* Every step of the loop keeps the types.                                 *)
LEMMA RunTyped ==
  ASSUME TypeOK, AluTyped(Word), chip32_run
  PROVE  TypeOK'
<1> USE DEF Wild, Stopped
<1>0. reg \in Regs /\ \A r \in Registers : reg[r] \in Word
  BY DEF TypeOK, Regs
<1>30. RamSize \in Nat /\ ram \in MemoryOf(RamSize)
  <2>1. RamSize \in Nat
    BY Chip32Assumption, ByteModPositive
  <2>2. ram \in MemoryOf(RamSize)
    BY DEF TypeOK, MemoryOf
  <2> QED
    BY <2>1, <2>2
<1>1. CASE Nop
  BY <1>1, <1>0, PlainTyped DEF Nop, Execute, Fetch
<1>2. CASE Halt
  BY <1>2, ReturnTyped DEF Halt
<1>3. CASE Syscall
  BY <1>3, ReturnTyped DEF Syscall
<1>4. CASE Lcons
  <2>1. Execute("lcons") /\ Looping
    BY <1>4 DEF Lcons, Execute, Fetch
  <2>2. /\ Arg(1) \in Registers /\ Arg(2) \in Byte /\ Arg(3) \in Byte
        /\ Arg(4) \in Byte /\ Arg(5) \in Byte
    BY <2>1, Sizes, ArgsAreBytes
  <2>3. [Consumed(5) EXCEPT ![Arg(1)] = Join(Arg(2), Arg(3), Arg(4), Arg(5))] \in Regs
    BY <2>2, JoinIsWord, ConsumedTyped, SetTyped
  <2> QED
    BY <1>4, <2>1, <2>3, PlainTyped DEF Lcons
<1>5. CASE Mov
  <2>1. Execute("mov") /\ Looping
    BY <1>5 DEF Mov, Execute, Fetch
  <2> QED
    BY <1>5, <2>1, OperandsTyped, ResultTyped DEF Mov
<1>6. CASE Div
  <2>1. Execute("div") /\ Looping
    BY <1>6 DEF Div, Execute, Fetch
  <2>2. Alu("div", First, Second) \in Word
    BY <2>1, OperandsTyped DEF AluTyped
  <2> QED
    BY <1>6, <2>1, <2>2, OperandsTyped, ResultTyped DEF Div
<1>7. CASE DivByZero
  BY <1>7, ReturnTyped DEF DivByZero
<1>8. CASE OpNot
  <2>1. Execute("not") /\ Looping /\ Arg(1) \in Registers
    BY <1>8, Sizes, ArgsAreBytes DEF OpNot, Execute, Fetch
  <2>2. Consumed(1) \in Regs /\ Consumed(1)[Arg(1)] \in Word
    BY <2>1, ConsumedTyped DEF Regs
  <2>3. Alu("not", Consumed(1)[Arg(1)], Consumed(1)[Arg(1)]) \in Word
    BY <2>2 DEF AluTyped
  <2> QED
    BY <1>8, <2>1, <2>2, <2>3, SetTyped, PlainTyped DEF OpNot
<1>9. ASSUME NEW op \in AluOps, Compute(op) PROVE TypeOK'
  <2>1. Execute(op) /\ Looping
    BY <1>9 DEF Compute, Execute, Fetch
  <2>2. Alu(op, First, Second) \in Word
    BY <2>1, OperandsTyped DEF AluTyped
  <2> QED
    BY <1>9, <2>1, <2>2, OperandsTyped, ResultTyped DEF Compute
<1>10. CASE Push
  <2>1. Execute("push") /\ Looping /\ Arg(1) \in Registers
    BY <1>10, Sizes, ArgsAreBytes DEF Push, Execute, Fetch
  <2> DEFINE r == [Consumed(1) EXCEPT ![SP] = @ - 4]
  <2>2. Consumed(1) \in Regs /\ Consumed(1)[SP] = reg[SP]
    BY <1>0, ConsumedTyped DEF Consumed, Regs, IP, SP, Registers
  <2>3. reg[SP] - 4 \in Word /\ reg[SP] - 4 \in Nat
    BY <1>0, <1>10, PointersAreRegisters, ByteModPositive DEF Push, CanPush, Word
  <2>4. r \in Regs /\ r[SP] = reg[SP] - 4
    BY <2>2, <2>3, SetTyped, PointersAreRegisters DEF Regs
  <2>5. r[Arg(1)] \in Word
    BY <2>1, <2>4 DEF Regs
  <2>6. WithWord(ram, r[SP], r[Arg(1)]) \in MemoryOf(RamSize)
    BY <1>30, <2>3, <2>4, <2>5, WithWordTyped
  <2>7. ram' \in MemoryOf(RamSize) /\ Advance(r) /\ skip' \in BOOLEAN
    BY <1>10, <2>6 DEF Push, TypeOK
  <2> QED
    BY <2>1, <2>4, <2>7, AdvanceTyped
<1>11. CASE Pop
  <2>1. Execute("pop") /\ Looping /\ Arg(1) \in Registers
    BY <1>11, Sizes, ArgsAreBytes DEF Pop, Execute, Fetch
  <2>2. reg[SP] \in Nat /\ reg[SP] + 3 < RamSize
    BY <1>0, <1>11, PointersAreRegisters, ByteModPositive, Chip32Assumption DEF Pop, Word
  <2>3. WordAt(ram, reg[SP]) \in Word
    BY <1>30, <2>2, WordAtTyped
  <2> DEFINE r == [Consumed(1) EXCEPT ![Arg(1)] = WordAt(ram, reg[SP])]
  <2>4. r \in Regs /\ r[SP] \in Word
    BY <2>1, <2>3, ConsumedTyped, SetTyped, PointersAreRegisters DEF Regs
  <2>5. [r EXCEPT ![SP] = Plus(@, 4)] \in Regs
    BY <2>4, PlusTyped, SetTyped, PointersAreRegisters
  <2>6. Plain([r EXCEPT ![SP] = Plus(@, 4)])
    BY <1>11 DEF Pop
  <2> QED
    BY <2>1, <2>5, <2>6, PlainTyped
<1>12. CASE StackRefused
  BY <1>12, ReturnTyped DEF StackRefused
<1>13. CASE Call
  <2>1. Execute("call") /\ Looping /\ Short(1) \in Word
    BY <1>13, Sizes, ArgsAreBytes, ShortTyped DEF Call, Execute, Fetch
  <2>2. [Consumed(2) EXCEPT ![RA] = Plus(reg[IP], 3)] \in Regs
    BY <1>0, ConsumedTyped, PlusTyped, SetTyped, PointersAreRegisters
  <2> QED
    BY <1>13, <2>1, <2>2, JumpTyped DEF Call
<1>14. CASE Ret
  BY <1>14, <1>0, JumpTyped, PointersAreRegisters DEF Ret, Execute, Fetch
<1>15. CASE Jmp
  <2>1. Execute("jmp") /\ Looping /\ Short(1) \in Word
    BY <1>15, Sizes, ArgsAreBytes, ShortTyped DEF Jmp, Execute, Fetch
  <2> QED
    BY <1>15, <2>1, ConsumedTyped, JumpTyped DEF Jmp
<1>16. CASE Jr
  <2>1. Execute("jr") /\ Looping /\ Arg(1) \in Registers
    BY <1>16, Sizes, ArgsAreBytes DEF Jr, Execute, Fetch
  <2>2. Consumed(1)[Arg(1)] \in Nat
    BY <2>1, ConsumedTyped, ByteModPositive DEF Regs, Word
  <2>3. Consumed(1)[Arg(1)] % (ByteMod * ByteMod) \in Word
    <3>1. ByteMod * ByteMod \in Nat /\ ByteMod * ByteMod > 0
      BY ByteModPositive
    <3>2. Consumed(1)[Arg(1)] % (ByteMod * ByteMod) \in 0 .. ByteMod * ByteMod - 1
      BY <2>2, <3>1
    <3> QED
      BY <3>2, ByteModPositive DEF Word
  <2> QED
    BY <1>16, <1>0, <2>1, <2>3, SetTyped, PlainTyped, PointersAreRegisters DEF Jr
<1>17. CASE Store
  <2>1. Execute("store") /\ Looping /\ Short(1) \in Nat /\ Arg(3) \in Registers
    BY <1>17, Sizes, ArgsAreBytes, ShortTyped DEF Store, Execute, Fetch
  <2>2. Consumed(3) \in Regs /\ Consumed(3)[Arg(3)] \in Word
    BY <2>1, ConsumedTyped DEF Regs
  <2>3. WithWord(ram, Short(1), Consumed(3)[Arg(3)]) \in MemoryOf(RamSize)
    BY <1>30, <2>1, <2>2, WithWordTyped
  <2>4. ram' \in MemoryOf(RamSize) /\ Advance(Consumed(3)) /\ skip' \in BOOLEAN
    BY <1>17, <2>3 DEF Store, TypeOK
  <2> QED
    BY <2>1, <2>2, <2>4, AdvanceTyped
<1>18. CASE Load
  <2>1. Execute("load") /\ Looping /\ Arg(1) \in Registers /\ Short(2) \in Nat
    BY <1>18, Sizes, ArgsAreBytes, ShortTyped DEF Load, Execute, Fetch
  <2>2. WordAt(ram, Short(2)) \in Word
    BY <1>30, <1>18, <2>1, WordAtTyped DEF Load
  <2>3. [Consumed(3) EXCEPT ![Arg(1)] = WordAt(ram, Short(2))] \in Regs
    BY <2>1, <2>2, ConsumedTyped, SetTyped
  <2> QED
    BY <1>18, <2>1, <2>3, PlainTyped DEF Load
<1>19. CASE AddressRefused
  BY <1>19, ReturnTyped DEF AddressRefused
<1>20. ASSUME NEW op \in {"skipz", "skipnz"}, NEW condition \in BOOLEAN, SkipIf(op, condition)
       PROVE  TypeOK'
  <2>1. Looping /\ Consumed(1) \in Regs /\ Advance(Consumed(1))
    BY <1>20, ConsumedTyped DEF SkipIf, Execute, Fetch
  <2>2. ram' \in MemoryOf(RamSize) /\ skip' \in BOOLEAN
    BY <1>20 DEF SkipIf, TypeOK, MemoryOf
  <2> QED
    BY <2>1, <2>2, AdvanceTyped
<1>21. CASE SkipOver
  <2>1. PICK op \in Ops : Fetch(op) /\ Advance(Consumed(Bytes(op)))
    BY <1>21 DEF SkipOver
  <2>2. Bytes(op) \in Nat
    BY DEF Bytes, ArgBytes, Ops, Instructions, AluOps
  <2>3. Looping /\ Consumed(Bytes(op)) \in Regs
    BY <2>1, <2>2, ConsumedTyped DEF Fetch
  <2>4. ram' \in MemoryOf(RamSize) /\ skip' \in BOOLEAN
    BY <1>21 DEF SkipOver, TypeOK, MemoryOf
  <2> QED
    BY <2>1, <2>3, <2>4, AdvanceTyped
<1>22. CASE BadAddress
  BY <1>22, ReturnTyped DEF BadAddress
<1>23. CASE UnknownOpcode
  BY <1>23, ReturnTyped DEF UnknownOpcode
<1>24. ASSUME NEW op \in Ops PROVE ArgBytes(op) \in Nat
  BY DEF ArgBytes, Ops, Instructions, AluOps
<1>25. CASE BadRegister
  <2>1. PICK op \in Ops :
          Return("VM_ERR_INVALID_REGISTER", IF op = "lcons" THEN 1 ELSE ArgBytes(op))
    BY <1>25 DEF BadRegister
  <2>2. (IF op = "lcons" THEN 1 ELSE ArgBytes(op)) \in Nat
    BY <1>24
  <2> QED
    BY <2>1, <2>2, ReturnTyped
<1>26. CASE WildArgument
  BY <1>26, <1>24, ReturnTyped DEF WildArgument
<1>27. CASE WildAccess
  BY <1>27, ReturnTyped DEF WildAccess
<1>28. CASE Pause
  BY <1>28 DEF Pause, TypeOK
<1>29. ASSUME Skipz \/ Skipnz PROVE TypeOK'
  BY <1>20, <1>29 DEF Skipz, Skipnz
<1> QED
  BY <1>1, <1>2, <1>3, <1>4, <1>5, <1>6, <1>7, <1>8, <1>9, <1>10, <1>11, <1>12, <1>13,
     <1>14, <1>15, <1>16, <1>17, <1>18, <1>19, <1>21, <1>22, <1>23, <1>25, <1>26, <1>27,
     <1>28, <1>29 DEF chip32_run

-----------------------------------------------------------------------------
LEMMA InitTyped == Init => TypeOK
<1> SUFFICES ASSUME Init PROVE TypeOK
  OBVIOUS
<1>1. 0 \in Byte /\ 0 \in Word /\ RamSize \in Word /\ RamSize \in Nat
  BY Chip32Assumption, ByteModPositive DEF Byte, Word
<1>2. Zeroed \in [Registers -> Word]
  BY <1>1 DEF Zeroed
<1>3. rom \in [0 .. RomSize - 1 -> Byte]
  BY MachineAssumption DEF Init
<1> QED
  BY <1>1, <1>2, <1>3 DEF Init, TypeOK

LEMMA NextTyped ==
  ASSUME AluTyped(Word), TypeOK, [Next]_vars
  PROVE  TypeOK'
<1>1. CASE chip32_run
  BY <1>1, RunTyped
<1>2. ASSUME NEW b \in Budgets, Enter(b) PROVE TypeOK'
  <2>1. b \in Nat
    BY MachineAssumption
  <2>2. budget' \in Nat /\ count' \in Nat /\ count' <= budget'
    BY <1>2, <2>1 DEF Enter
  <2> QED
    BY <1>2, <2>2 DEF Enter, TypeOK
<1>3. ASSUME NEW w \in HostWrites, chip32_set_register(w[1], w[2]) PROVE TypeOK'
  <2>1. w[1] \in Registers /\ w[2] \in Word
    BY MachineAssumption
  <2>2. reg' \in [Registers -> Word]
    BY <1>3, <2>1 DEF chip32_set_register, TypeOK
  <2> QED
    BY <1>3, <2>2 DEF chip32_set_register, TypeOK
<1>4. CASE chip32_initialize
  <2>1. 0 \in Byte /\ 0 \in Word /\ RamSize \in Word
    BY Chip32Assumption, ByteModPositive DEF Byte, Word
  <2>2. ram' \in [0 .. RamSize - 1 -> Byte] /\ reg' \in [Registers -> Word]
    BY <1>4, <2>1 DEF chip32_initialize, Zeroed
  <2> QED
    BY <1>4, <2>2 DEF chip32_initialize, TypeOK
<1>5. CASE UNCHANGED vars
  BY <1>5 DEF vars, TypeOK
<1> QED
  BY <1>1, <1>2, <1>3, <1>4, <1>5 DEF Next

(* The types hold for every program and every way the host calls it, if    *)
(* arithmetic computes words.                                              *)
THEOREM TypeCorrect == AluTyped(Word) => (Spec => []TypeOK)
<1> SUFFICES ASSUME AluTyped(Word) PROVE Spec => []TypeOK
  OBVIOUS
<1>1. Init => TypeOK
  BY InitTyped
<1>2. TypeOK /\ [Next]_vars => TypeOK'
  BY NextTyped
<1> QED
  BY <1>1, <1>2, PTL DEF Spec

(* The checks of push and store, for all that they compare sp with the     *)
(* address of RAM and an address in RAM with the size of ROM, keep every   *)
(* write inside RAM in a machine whose RAM is no smaller than its ROM and  *)
(* placed at least a word below its own size.                              *)
THEOREM NothingWrittenOutside ==
  AluTyped(Word) /\ RomSize <= RamSize /\ RamAddr + 4 <= RamSize
    => (Spec => []WritesStayInRam)
<1> SUFFICES ASSUME AluTyped(Word), RomSize <= RamSize, RamAddr + 4 <= RamSize
             PROVE  Spec => []WritesStayInRam
  OBVIOUS
<1>1. Init => WritesStayInRam
  BY DEF Init, WritesStayInRam
<1>2. TypeOK /\ WritesStayInRam /\ [Next]_vars => WritesStayInRam'
  <2> SUFFICES ASSUME TypeOK, WritesStayInRam, [Next]_vars PROVE WritesStayInRam'
    OBVIOUS
  <2>1. CASE WildAccess
    <3>1. PICK op \in {"push", "pop", "store", "load"} :
            /\ Execute(op)
            /\ \E a \in Access(op) : a + 3 >= RamSize
            /\ Return(IF op \in {"push", "store"} THEN "wild write" ELSE "wild read", 0)
      BY <2>1 DEF WildAccess
    <3>2. op # "push"
      <4> SUFFICES ASSUME op = "push" PROVE FALSE
        OBVIOUS
      <4>1. CanPush /\ reg[SP] - 4 + 3 >= RamSize
        BY <3>1 DEF Access
      <4>2. reg[SP] \in Nat
        BY PointersAreRegisters, ByteModPositive DEF TypeOK, Word
      <4> QED
        BY <4>1, <4>2, MachineAssumption, Chip32Assumption, ByteModPositive DEF CanPush
    <3>3. op # "store"
      <4> SUFFICES ASSUME op = "store" PROVE FALSE
        OBVIOUS
      <4>1. Short(1) + 3 < RomSize /\ Short(1) + 3 >= RamSize
        BY <3>1 DEF Access, InRom
      <4>2. Execute("store") /\ "store" \in Ops
        BY <3>1, Sizes
      <4>3. Arg(1) \in Byte /\ Arg(2) \in Byte
        BY <4>2, Sizes, ArgsAreBytes
      <4>4. Short(1) \in Nat
        BY <4>3, ShortTyped
      <4> QED
        BY <4>1, <4>4, Chip32Assumption, ByteModPositive
    <3> QED
      BY <3>1, <3>2, <3>3 DEF Return, WritesStayInRam
  <2>2. CASE chip32_run /\ ~WildAccess
    BY <2>2 DEF chip32_run, WritesStayInRam, Return, Advance, Plain, JumpTo, Result, SkipIf,
                Nop, Halt, Syscall, Lcons, Mov, Div, DivByZero, OpNot, Compute, Push, Pop,
                StackRefused, Call, Ret, Jmp, Jr, Store, Load, AddressRefused, Skipz, Skipnz,
                SkipOver, BadAddress, UnknownOpcode, BadRegister, WildArgument, Pause
  <2>3. CASE \E b \in Budgets : Enter(b)
    BY <2>3 DEF Enter, WritesStayInRam
  <2>4. CASE \E w \in HostWrites : chip32_set_register(w[1], w[2])
    BY <2>4 DEF chip32_set_register, WritesStayInRam
  <2>5. CASE chip32_initialize
    BY <2>5 DEF chip32_initialize, WritesStayInRam
  <2>6. CASE UNCHANGED vars
    BY <2>6 DEF vars, WritesStayInRam
  <2> QED
    BY <2>1, <2>2, <2>3, <2>4, <2>5, <2>6 DEF Next
<1>3. Spec => []TypeOK
  BY TypeCorrect
<1> QED
  BY <1>1, <1>2, <1>3, PTL DEF Spec

(* With a limit every step of the loop that stays in it uses up one of the *)
(* max_instr instructions, the one that is skipped included, and none is   *)
(* left over: no jump, call or skip goes round without being counted, so   *)
(* that chip32_run() cannot stay inside for more than max_instr steps.     *)
THEOREM LimitIsUsedUp ==
  AluTyped(Word) => (Spec => [][EachCounted]_vars)
<1> SUFFICES ASSUME AluTyped(Word) PROVE Spec => [][EachCounted]_vars
  OBVIOUS
<1> DEFINE Counted == budget' = budget /\ count' = count + 1
<1>1. ASSUME Next, Limited, Limited' PROVE Counted /\ Looping
  <2>1. chip32_run
    BY <1>1 DEF Next, Limited, Enter, chip32_set_register, chip32_initialize
  <2>2. \A r : Advance(r) => Counted
    BY <1>1 DEF Advance, Limited
  <2>3. \A result, n : Return(result, n) => result = "running"
    BY <1>1 DEF Return, Limited
  <2>4. CASE Looping
    <3>1. ASSUME \/ Nop \/ Lcons \/ Mov \/ Div \/ OpNot \/ \E op \in AluOps : Compute(op)
                 \/ Push \/ Pop \/ Call \/ Ret \/ Jmp \/ Jr \/ Store \/ Load
                 \/ Skipz \/ Skipnz \/ SkipOver
          PROVE  \E r : Advance(r)
      BY <3>1, Zenon DEF Nop, Lcons, Mov, Div, OpNot, Compute, Push, Pop, Call, Ret, Jmp, Jr,
            Store, Load, Skipz, Skipnz, SkipOver, SkipIf, Result, JumpTo, Plain
    <3>2. /\ ~Halt /\ ~Syscall /\ ~DivByZero /\ ~StackRefused /\ ~AddressRefused
          /\ ~BadAddress /\ ~UnknownOpcode /\ ~BadRegister /\ ~WildArgument
      BY <2>3, Zenon DEF Halt, Syscall, DivByZero, StackRefused, AddressRefused,
         BadAddress, UnknownOpcode, BadRegister, WildArgument
    <3>4. ~WildAccess
      <4>1. ~Return("wild write", 0) /\ ~Return("wild read", 0)
        BY <2>3, Zenon
      <4>2. \A op : ~Return(IF op \in {"push", "store"} THEN "wild write" ELSE "wild read", 0)
        BY <4>1, Zenon
      <4> QED
        BY <4>2, Zenon DEF WildAccess
    <3>5. ~Pause
      BY <1>1 DEF Pause, Limited
    <3>3. \E r : Advance(r)
      BY <2>1, <3>1, <3>2, <3>4, <3>5, Zenon DEF chip32_run
    <3> QED
      BY <2>2, <2>4, <3>3
  <2>5. CASE ~Looping
    <3>1. \A op : ~Fetch(op) /\ ~Execute(op)
      BY <2>5 DEF Fetch, Execute
    <3>2. Pause
      BY <2>1, <2>5, <3>1, Zenon DEF chip32_run, Nop, Halt, Syscall, Lcons, Mov, Div, DivByZero,
         OpNot, Compute, Push, Pop, StackRefused, Call, Ret, Jmp, Jr, Store, Load, AddressRefused,
         Skipz, Skipnz, SkipIf, SkipOver, BadAddress, UnknownOpcode, BadRegister,
         WildArgument, WildAccess
    <3> QED
      BY <1>1, <3>2 DEF Pause, Limited
  <2> QED
    BY <2>4, <2>5
<1>2. TypeOK /\ [Next]_vars => [EachCounted]_vars
  <2> SUFFICES ASSUME TypeOK, Next, Limited, Limited'
               PROVE  budget' = budget /\ count' = count + 1 /\ count' <= budget
    BY DEF EachCounted
  <2>1. Counted /\ Looping
    BY <1>1
  <2> QED
    BY <2>1 DEF TypeOK, Looping, Limited
<1>3. Spec => []TypeOK
  BY TypeCorrect
<1> QED
  BY <1>2, <1>3, PTL DEF Spec

-----------------------------------------------------------------------------
(* The refinement of Chip32Isa, one instruction at a time.                 *)
LEMMA SameBase ==
  /\ InstructionSet!Opcodes = Opcodes /\ InstructionSet!Ops = Ops
  /\ InstructionSet!Instructions = Instructions /\ InstructionSet!AluOps = AluOps
  /\ InstructionSet!General = General
  /\ InstructionSet!Registers = Registers /\ InstructionSet!Word = Word
  /\ InstructionSet!IP = IP /\ InstructionSet!SP = SP /\ InstructionSet!RA = RA
  /\ InstructionSet!HeapSize = HeapSize
  /\ \A op : InstructionSet!ArgBytes(op) = ArgBytes(op)
  /\ \A op : InstructionSet!RegisterArgs(op) = RegisterArgs(op)
BY DEF InstructionSet!Opcodes, Opcodes, InstructionSet!Ops, Ops,
       InstructionSet!Instructions, Instructions, InstructionSet!AluOps, AluOps,
       InstructionSet!General, General, InstructionSet!Registers, Registers,
       InstructionSet!Word, Word, InstructionSet!WordMod, WordMod,
       InstructionSet!IP, IP, InstructionSet!SP, SP, InstructionSet!RA, RA,
       InstructionSet!HeapSize, HeapSize, InstructionSet!ArgBytes, ArgBytes,
       InstructionSet!RegisterArgs, RegisterArgs

(* What StackInPlace says of sp.                                           *)
StackAt(sp) == sp \in HeapSize .. RamSize /\ (RamSize - sp) % 4 = 0

(* Where the machine stands as Chip32Isa expects it to.                    *)
Regular == TypeOK /\ StackInPlace /\ Looping

LEMMA RegularFacts ==
  ASSUME Regular
  PROVE  /\ reg \in Regs /\ status = "running" /\ Outcome = "on"
         /\ reg[IP] \in Nat /\ reg[SP] \in Nat
BY PointersAreRegisters, ByteModPositive
   DEF Regular, TypeOK, Regs, Word, Looping, Outcome, StackInPlace, Wild

LEMMA FetchShown ==
  ASSUME Regular, NEW op \in Ops, Fetch(op), ArgsInRom(op)
  PROVE  InstructionSet!Fetch(op)
BY SameBase, RegularFacts DEF Fetch, ArgsInRom, InRom, InstructionSet!Fetch

(* An instruction that does not name ip or sp.                             *)
LEMMA ExecuteShown ==
  ASSUME Regular, NEW op \in Ops, Execute(op), \A k \in RegisterArgs(op) : Arg(k) \notin {IP, SP}
  PROVE  /\ InstructionSet!Execute(op)
         /\ \A k \in RegisterArgs(op) : Arg(k) \in General
<1>1. InstructionSet!Fetch(op)
  BY FetchShown DEF Execute
<1>2. \A k \in RegisterArgs(op) : Arg(k) \in General
  BY DEF Execute, RegistersValid, General
<1> QED
  BY <1>1, <1>2, SameBase DEF Execute, InstructionSet!Execute, InstructionSet!Arg, Arg

(* What the end of the loop, and a return from it, are to Chip32Isa.       *)
LEMMA AdvanceShown ==
  ASSUME Regular, NEW r \in Regs, Advance(r), StackAt(r[SP])
  PROVE  InstructionSet!Sets(Shown(r), Plus(r[IP], 1))
<1>1. reg' = [r EXCEPT ![IP] = Plus(@, 1)] /\ status' = status /\ rom' = rom
  BY DEF Advance
<1>2. reg'[IP] = Plus(r[IP], 1) /\ reg'[SP] = r[SP]
  BY <1>1 DEF Regs, IP, SP, Registers
<1>3. Shown(reg)' = Shown(r)
  BY <1>1 DEF Regs, Shown, General
<1>4. Outcome' = Outcome
  BY <1>1, <1>2, RegularFacts DEF Outcome, StackInPlace, StackAt, Wild
<1> QED
  BY <1>1, <1>2, <1>3, <1>4 DEF InstructionSet!Sets

LEMMA PlainShown ==
  ASSUME Regular, NEW r \in Regs, Plain(r), r[SP] = reg[SP]
  PROVE  InstructionSet!Jump(Shown(r), Plus(r[IP], 1))
<1>1. InstructionSet!Sets(Shown(r), Plus(r[IP], 1))
  BY AdvanceShown DEF Plain, Regular, StackInPlace, StackAt
<1>2. reg'[SP] = reg[SP]
  BY DEF Plain, Advance, Regs, IP, SP, Registers
<1> QED
  BY <1>1, <1>2 DEF Plain, InstructionSet!Jump

LEMMA ReturnShown ==
  ASSUME Regular, NEW n \in Nat, NEW result \in Stopped, Return(result, n)
  PROVE  InstructionSet!Stops(result)
<1>1. reg' = Consumed(n) /\ status' = result /\ ram' = ram /\ rom' = rom /\ skip' = skip
  BY DEF Return
<1>2. /\ reg'[IP] \in Word /\ reg'[SP] = reg[SP]
      /\ \A x \in General : reg'[x] = reg[x]
  BY <1>1, RegularFacts, PlusTyped, PointersAreRegisters
     DEF Consumed, Regs, General, IP, SP, Registers
<1>3. Outcome' = result
  BY <1>1, <1>2 DEF Outcome, StackInPlace, Regular, Stopped, Wild
<1>4. Shown(reg)' = Shown(reg)
  BY <1>2 DEF Shown
<1> QED
  BY <1>1, <1>2, <1>3, <1>4, SameBase DEF InstructionSet!Stops

LEMMA AstrayShown ==
  ASSUME NEW n, NEW result \in Wild, Return(result, n) PROVE GoesAstray
BY DEF Return, GoesAstray, Outcome
-----------------------------------------------------------------------------
(* A word that is written is read back.                                    *)
LEMMA QuotientUnique ==
  ASSUME NEW d \in Nat \ {0}, NEW q \in Nat, NEW r \in 0 .. d - 1
  PROVE  (d * q + r) \div d = q
<1> DEFINE p == (d * q + r) \div d
           s == (d * q + r) % d
<1>1. d * q \in Nat /\ p \in Nat /\ s \in 0 .. d - 1 /\ d * q + r = d * p + s
  OBVIOUS
<1>2. ~ p < q
  <2> SUFFICES ASSUME p + 1 <= q PROVE FALSE
    BY <1>1
  <2>1. d * (p + 1) <= d * q
    BY <1>1
  <2>2. d * (p + 1) = d * p + d
    BY <1>1
  <2> QED
    BY <1>1, <2>1, <2>2
<1>3. ~ q < p
  <2> SUFFICES ASSUME q + 1 <= p PROVE FALSE
    BY <1>1
  <2>1. d * (q + 1) <= d * p
    BY <1>1
  <2>2. d * (q + 1) = d * q + d
    BY <1>1
  <2> QED
    BY <1>1, <2>1, <2>2
<1> QED
  BY <1>1, <1>2, <1>3

LEMMA Expand ==
  ASSUME NEW b \in Nat, NEW c \in Nat, NEW q \in Nat, NEW t \in Nat
  PROVE  b * (c * q + t) = (b * c) * q + b * t
<1>1. b * (c * q + t) = b * (c * q) + b * t
  OBVIOUS
<1>2. b * (c * q) = (b * c) * q
  OBVIOUS
<1> QED
  BY <1>1, <1>2

LEMMA Bigger ==
  ASSUME NEW b \in Nat, NEW c \in Nat, NEW d \in Nat, c <= d
  PROVE  b * c \in Nat /\ b * d \in Nat /\ b * c <= b * d
OBVIOUS

LEMMA QuotientTwice ==
  ASSUME NEW w \in Nat, NEW c \in Nat \ {0}, NEW d \in Nat \ {0}
  PROVE  w \div (d * c) = (w \div d) \div c
<1> DEFINE p == w \div d
           q == p \div c
           s == w % d
           t == p % c
<1>1. p \in Nat /\ q \in Nat /\ s \in 0 .. d - 1 /\ t \in 0 .. c - 1
  OBVIOUS
<1>2. w = d * p + s /\ p = c * q + t
  OBVIOUS
<1> HIDE DEF p, q, s, t
<1>3. d * p = (d * c) * q + d * t
  BY <1>1, <1>2, Expand
<1>4. d * c \in Nat \ {0} /\ d * t \in Nat /\ (d * c) * q \in Nat
  BY <1>1
<1>5. d * t <= d * (c - 1) /\ d * (c - 1) = d * c - d
  BY <1>1
<1>6. d * t + s \in 0 .. (d * c) - 1
  BY <1>1, <1>4, <1>5
<1>7. w = (d * c) * q + (d * t + s)
  BY <1>1, <1>2, <1>3, <1>4
<1>8. ((d * c) * q + (d * t + s)) \div (d * c) = q
  BY <1>1, <1>4, <1>6, QuotientUnique
<1> QED
  BY <1>7, <1>8 DEF q, p

LEMMA JoinOfBytes ==
  ASSUME NEW w \in Word
  PROVE  Join(ByteOf(w, 0), ByteOf(w, 1), ByteOf(w, 2), ByteOf(w, 3)) = w
<1> DEFINE B  == ByteMod
           q1 == w \div B
           q2 == q1 \div B
           q3 == q2 \div B
<1>1. B \in Nat \ {0} /\ w \in Nat /\ w < B * (B * (B * B))
  BY ByteModPositive DEF Word, WordMod
<1>2. B * B \in Nat \ {0} /\ B * (B * B) \in Nat \ {0}
  BY ByteModPositive
<1> HIDE DEF B
<1>13. ASSUME NEW m \in Nat
       PROVE  m \div B \in Nat /\ m % B \in 0 .. B - 1 /\ m = B * (m \div B) + (m % B)
  BY <1>1
<1>3. q1 \in Nat /\ w % B \in 0 .. B - 1 /\ w = B * q1 + (w % B)
  BY <1>1, <1>13
<1>4. q2 \in Nat /\ q1 % B \in 0 .. B - 1 /\ q1 = B * q2 + (q1 % B)
  BY <1>3, <1>13
<1>5. q3 \in Nat /\ q2 % B \in 0 .. B - 1 /\ q2 = B * q3 + (q2 % B)
  BY <1>4, <1>13
<1>6. w \div (B * B) = q2
  BY <1>1, QuotientTwice
<1>7. w \div (B * (B * B)) = q3
  <2>1. w \div (B * (B * B)) = q1 \div (B * B)
    BY <1>1, <1>2, QuotientTwice
  <2>2. q1 \div (B * B) = q3
    BY <1>1, <1>3, QuotientTwice
  <2> QED
    BY <2>1, <2>2
<1>8. q3 < B
  <2> HIDE DEF q1, q2, q3
  <2> SUFFICES ASSUME B <= q3 PROVE FALSE
    BY <1>1, <1>5
  <2>1. B * B <= q2
    <3>1. B * B <= B * q3 /\ B * q3 \in Nat
      BY <1>1, <1>5, Bigger
    <3> QED
      BY <3>1, <1>2, <1>4, <1>5
  <2>2. B * (B * B) <= q1
    <3>1. B * (B * B) <= B * q2 /\ B * q2 \in Nat
      BY <1>1, <1>2, <1>4, <2>1, Bigger
    <3> QED
      BY <3>1, <1>2, <1>3, <1>4
  <2>3. B * (B * (B * B)) <= w
    <3>1. B * (B * (B * B)) <= B * q1 /\ B * q1 \in Nat /\ B * (B * (B * B)) \in Nat
      BY <1>1, <1>2, <1>3, <2>2, Bigger
    <3> QED
      BY <3>1, <1>1, <1>3
  <2> QED
    BY <1>1, <1>2, <2>3
<1>9. q3 % B = q3
  BY <1>1, <1>5, <1>8
<1>10. /\ ByteOf(w, 0) = w % B /\ ByteOf(w, 1) = q1 % B
       /\ ByteOf(w, 2) = q2 % B /\ ByteOf(w, 3) = q3
  <2>1. ByteOf(w, 0) = w % B
    BY DEF ByteOf, B
  <2>2. ByteOf(w, 1) = q1 % B
    BY DEF ByteOf, B
  <2>3. ByteOf(w, 2) = q2 % B
    BY <1>6 DEF ByteOf, B
  <2>4. ByteOf(w, 3) = q3
    BY <1>7, <1>9 DEF ByteOf, B
  <2> QED
    BY <2>1, <2>2, <2>3, <2>4
<1>11. (w % B) + B * ((q1 % B) + B * ((q2 % B) + B * q3)) = w
  <2> HIDE DEF q1, q2, q3
  <2>1. (q2 % B) + B * q3 = q2
    BY <1>1, <1>4, <1>5
  <2>2. (q1 % B) + B * q2 = q1
    BY <1>1, <1>3, <1>4
  <2>3. (w % B) + B * q1 = w
    BY <1>1, <1>3
  <2> QED
    BY <2>1, <2>2, <2>3
<1> QED
  BY <1>10, <1>11 DEF Join, B

LEMMA WrittenIsRead ==
  ASSUME NEW size \in Nat, NEW m \in MemoryOf(size), NEW a \in Nat, a + 3 < size, NEW w \in Word
  PROVE  WordAt(WithWord(m, a, w), a) = w
<1>1. DOMAIN m = 0 .. size - 1 /\ {a, a + 1, a + 2, a + 3} \subseteq 0 .. size - 1
  BY DEF MemoryOf
<1>2. /\ WithWord(m, a, w)[a] = ByteOf(w, 0)
      /\ WithWord(m, a, w)[a + 1] = ByteOf(w, 1)
      /\ WithWord(m, a, w)[a + 2] = ByteOf(w, 2)
      /\ WithWord(m, a, w)[a + 3] = ByteOf(w, 3)
  BY <1>1 DEF WithWord
<1> QED
  BY <1>2, JoinOfBytes DEF WordAt

LEMMA WrittenBeside ==
  ASSUME NEW size \in Nat, NEW m \in MemoryOf(size), NEW a \in Nat, NEW b \in Nat,
         b + 3 < size, b + 3 < a \/ a + 3 < b, NEW w \in Word
  PROVE  WordAt(WithWord(m, a, w), b) = WordAt(m, b)
<1>1. DOMAIN m = 0 .. size - 1 /\ {b, b + 1, b + 2, b + 3} \subseteq 0 .. size - 1
  BY DEF MemoryOf
<1>2. \A c \in {b, b + 1, b + 2, b + 3} : c \notin a .. a + 3
  OBVIOUS
<1> QED
  BY <1>1, <1>2 DEF WordAt, WithWord
-----------------------------------------------------------------------------
(* Each instruction, in a program that does not name ip or sp.             *)
Within(op) == Execute(op) /\ \A k \in RegisterArgs(op) : Arg(k) \notin {IP, SP}

LEMMA JumpsBack ==
  ASSUME NEW target \in Word
  PROVE  Plus(Plus(target, WordMod - 1), 1) = target
<1>1. target \in Nat /\ target < WordMod /\ WordMod \in Nat /\ 676 <= WordMod
  BY ByteModPositive DEF Word
<1> HIDE DEF WordMod
<1>2. CASE target = 0
  BY <1>1, <1>2 DEF Plus
<1>3. CASE target > 0
  <2>1. (target + (WordMod - 1)) % WordMod = target - 1
    BY <1>1, <1>3
  <2> QED
    BY <1>1, <1>3, <2>1 DEF Plus
<1> QED
  BY <1>1, <1>2, <1>3

LEMMA ConsumedShown ==
  ASSUME Regular, NEW op \in Ops, ArgsInRom(op), NEW n \in Nat, n = ArgBytes(op)
  PROVE  /\ Consumed(n) \in Regs
         /\ Plus(Consumed(n)[IP], 1) = InstructionSet!After(op)
         /\ Consumed(n)[SP] = reg[SP]
         /\ \A x \in General : Consumed(n)[x] = reg[x]
<1>1. reg \in Regs /\ reg[IP] \in Nat /\ reg[IP] + n < RomSize
  BY RegularFacts DEF ArgsInRom, InRom
<1>2. RomSize \in Nat /\ WordMod \in Nat /\ RomSize < WordMod
  BY Chip32Assumption, ByteModPositive
<1>3. Plus(Plus(reg[IP], n), 1) = reg[IP] + n + 1
  <2> HIDE DEF WordMod
  <2> QED
    BY <1>1, <1>2 DEF Plus
<1>4. Consumed(n) \in Regs
  BY ConsumedTyped DEF Regular
<1>5. Consumed(n)[IP] = Plus(reg[IP], n)
  BY <1>1, PointersAreRegisters DEF Consumed, Regs
<1>6. InstructionSet!After(op) = reg[IP] + n + 1
  BY SameBase DEF InstructionSet!After
<1>7. Consumed(n)[SP] = reg[SP] /\ \A x \in General : Consumed(n)[x] = reg[x]
  BY <1>1 DEF Consumed, Regs, General, IP, SP, Registers
<1> QED
  BY <1>3, <1>4, <1>5, <1>6, <1>7

LEMMA SetShown ==
  ASSUME NEW r \in Regs, \A y \in General : r[y] = reg[y], NEW x \in General, NEW w
  PROVE  Shown([r EXCEPT ![x] = w]) = [Shown(reg) EXCEPT ![x] = w]
BY DEF Shown, Regs, General

LEMMA SameShown ==
  ASSUME NEW r \in Regs, \A y \in General : r[y] = reg[y]
  PROVE  Shown(r) = Shown(reg)
BY DEF Shown

LEMMA SpNotShown ==
  ASSUME NEW r \in Regs, NEW w PROVE Shown([r EXCEPT ![SP] = w]) = Shown(r)
<1>1. \A x \in General : [r EXCEPT ![SP] = w][x] = r[x]
  BY DEF Regs, General
<1> QED
  BY <1>1 DEF Shown

(* An instruction that puts w into the register x and goes on.             *)
LEMMA ResultShown ==
  ASSUME Regular, NEW op \in Ops, ArgsInRom(op), NEW n \in Nat, n = ArgBytes(op),
         NEW x \in General, NEW w \in Word, Plain([Consumed(n) EXCEPT ![x] = w])
  PROVE  InstructionSet!Plain(op, [Shown(reg) EXCEPT ![x] = w])
<1> DEFINE r == [Consumed(n) EXCEPT ![x] = w]
<1>1. Consumed(n) \in Regs /\ \A y \in General : Consumed(n)[y] = reg[y]
  BY ConsumedShown
<1>2. x \in Registers /\ x # IP /\ x # SP
  BY DEF General
<1>3. r \in Regs /\ r[IP] = Consumed(n)[IP] /\ r[SP] = reg[SP]
  BY <1>1, <1>2, ConsumedShown, SetTyped, PointersAreRegisters DEF Regs
<1>4. Shown(r) = [Shown(reg) EXCEPT ![x] = w]
  BY <1>1, SetShown
<1>5. InstructionSet!Jump(Shown(r), Plus(r[IP], 1))
  BY <1>3, PlainShown DEF InstructionSet!Jump, InstructionSet!Sets
<1> QED
  BY <1>3, <1>4, <1>5, ConsumedShown
     DEF InstructionSet!Plain, InstructionSet!Jump, InstructionSet!Sets

LEMMA NopShown ==
  ASSUME Regular, Nop PROVE InstructionSet!Nop
<1>1. "nop" \in Ops /\ ArgBytes("nop") = 0 /\ RegisterArgs("nop") = {}
  BY DEF Ops, Instructions, ArgBytes, RegisterArgs, AluOps
<1>2. Execute("nop") /\ Plain(reg) /\ ArgsInRom("nop")
  BY DEF Nop, Execute
<1>3. InstructionSet!Execute("nop")
  BY <1>1, <1>2, ExecuteShown
<1>4. Consumed(0)[IP] = reg[IP]
  BY RegularFacts, PointersAreRegisters, ByteModPositive DEF Consumed, Regs, Plus, Word
<1>5. InstructionSet!Jump(Shown(reg), Plus(reg[IP], 1))
  BY <1>2, RegularFacts, PlainShown DEF InstructionSet!Jump, InstructionSet!Sets
<1>6. Plus(reg[IP], 1) = InstructionSet!After("nop")
  BY <1>1, <1>2, <1>4, ConsumedShown
<1> QED
  BY <1>3, <1>5, <1>6
     DEF InstructionSet!Nop, InstructionSet!Plain, InstructionSet!Jump, InstructionSet!Sets

LEMMA LconsShown ==
  ASSUME Regular, Lcons, Within("lcons") PROVE InstructionSet!Lcons
<1>1. "lcons" \in Ops /\ Execute("lcons") /\ ArgsInRom("lcons") /\ ArgBytes("lcons") = 5
  BY Sizes DEF Lcons, Execute
<1>2. InstructionSet!Execute("lcons") /\ Arg(1) \in General
  BY <1>1, Sizes, ExecuteShown DEF Within
<1>3. /\ Arg(2) \in Byte /\ Arg(3) \in Byte /\ Arg(4) \in Byte /\ Arg(5) \in Byte
  BY <1>1, ArgsAreBytes DEF Regular
<1>4. Plain([Consumed(5) EXCEPT ![Arg(1)] = Join(Arg(2), Arg(3), Arg(4), Arg(5))])
  BY DEF Lcons
<1>5. InstructionSet!Plain("lcons",
        [Shown(reg) EXCEPT ![Arg(1)] = Join(Arg(2), Arg(3), Arg(4), Arg(5))])
  BY <1>1, <1>2, <1>3, <1>4, JoinIsWord, ResultShown
<1> QED
  BY <1>2, <1>5
     DEF InstructionSet!Lcons, InstructionSet!Arg, Arg, InstructionSet!Join, Join

LEMMA OperandsShown ==
  ASSUME Regular, NEW op \in {"mov", "div"} \cup AluOps, Within(op)
  PROVE  /\ op \in Ops /\ ArgsInRom(op) /\ ArgBytes(op) = 2
         /\ InstructionSet!Execute(op)
         /\ Arg(1) \in General /\ First = Shown(reg)[Arg(1)] /\ First \in Word
         /\ Arg(2) \in General /\ Second = Shown(reg)[Arg(2)] /\ Second \in Word
<1>1. op \in Ops /\ ArgBytes(op) = 2 /\ RegisterArgs(op) = {1, 2}
  BY DEF Ops, Instructions, ArgBytes, RegisterArgs, AluOps
<1>2. ArgsInRom(op) /\ InstructionSet!Execute(op) /\ Arg(1) \in General /\ Arg(2) \in General
  BY <1>1, ExecuteShown DEF Within, Execute
<1>3. First = Shown(reg)[Arg(1)] /\ Second = Shown(reg)[Arg(2)]
  BY <1>1, <1>2, ConsumedShown DEF First, Second, Shown
<1>4. First \in Word /\ Second \in Word
  BY OperandsTyped DEF Within, Regular
<1> QED
  BY <1>1, <1>2, <1>3, <1>4

LEMMA MovShown ==
  ASSUME Regular, Mov, Within("mov") PROVE InstructionSet!Mov
<1>1. InstructionSet!Plain("mov", [Shown(reg) EXCEPT ![Arg(1)] = Shown(reg)[Arg(2)]])
  BY OperandsShown, ResultShown DEF Mov, Result
<1> QED
  BY <1>1, OperandsShown DEF InstructionSet!Mov, InstructionSet!Arg, Arg

LEMMA ComputeShown ==
  ASSUME AluTyped(Word), Regular, NEW op \in AluOps, Compute(op), Within(op)
  PROVE  InstructionSet!Compute(op)
<1>1. Alu(op, First, Second) \in Word
  BY OperandsShown DEF AluTyped
<1>2. Plain([Consumed(2) EXCEPT ![Arg(1)] = Alu(op, First, Second)])
  BY DEF Compute, Result
<1>3. InstructionSet!Plain(op, [Shown(reg) EXCEPT ![Arg(1)] = Alu(op, First, Second)])
  BY <1>1, <1>2, OperandsShown, ResultShown
<1>4. InstructionSet!Execute(op) /\ First = Shown(reg)[Arg(1)] /\ Second = Shown(reg)[Arg(2)]
  BY OperandsShown
<1> QED
  BY <1>3, <1>4 DEF InstructionSet!Compute, InstructionSet!Arg, Arg

(* div: what is listed of it.                                              *)
LEMMA DivShown ==
  ASSUME AluTyped(Word), Regular, Div \/ DivByZero, Within("div")
  PROVE  DividesOnly
<1>1. /\ InstructionSet!Execute("div") /\ Arg(1) \in General /\ Arg(2) \in General
      /\ First = reg[Arg(1)] /\ First \in Word /\ Second = reg[Arg(2)] /\ Second \in Word
  BY OperandsShown DEF Shown
<1>2. CASE Div
  <2>1. Alu("div", First, Second) \in Word
    BY <1>1 DEF AluTyped
  <2>2. InstructionSet!Plain("div", [Shown(reg) EXCEPT ![Arg(1)] = Alu("div", First, Second)])
    BY <1>1, <1>2, <2>1, OperandsShown, ResultShown DEF Div, Result
  <2> QED
    BY <1>1, <1>2, <2>2 DEF Div, DividesOnly
<1>3. CASE DivByZero
  <2>1. GoesAstray
    BY <1>3, AstrayShown DEF DivByZero, Wild
  <2> QED
    BY <1>1, <1>3, <2>1 DEF DivByZero, DividesOnly
<1> QED
  BY <1>2, <1>3

LEMMA NotShown ==
  ASSUME AluTyped(Word), Regular, OpNot, Within("not") PROVE InstructionSet!OpNot
<1>1. "not" \in Ops /\ Execute("not") /\ ArgsInRom("not") /\ ArgBytes("not") = 1
  BY DEF Ops, Instructions, ArgBytes, AluOps, OpNot, Execute
<1>2. InstructionSet!Execute("not") /\ Arg(1) \in General
  BY <1>1, Sizes, ExecuteShown DEF Within
<1>3. Consumed(1)[Arg(1)] = Shown(reg)[Arg(1)] /\ Consumed(1)[Arg(1)] \in Word
  BY <1>1, <1>2, ConsumedShown DEF Shown, General, Regs
<1>4. Alu("not", Shown(reg)[Arg(1)], Shown(reg)[Arg(1)]) \in Word
  BY <1>3 DEF AluTyped
<1>5. InstructionSet!Plain("not",
        [Shown(reg) EXCEPT ![Arg(1)] = Alu("not", Shown(reg)[Arg(1)], Shown(reg)[Arg(1)])])
  BY <1>1, <1>2, <1>3, <1>4, ResultShown DEF OpNot
<1> QED
  BY <1>2, <1>5 DEF InstructionSet!OpNot, InstructionSet!Arg, Arg
-----------------------------------------------------------------------------
(* Stack and heap in the one memory.                                       *)
StackOf(m, sp) == [i \in 1 .. (RamSize - sp) \div 4 |-> WordAt(m, RamSize - 4 * i)]
HeapOf(m)      == [a \in 0 .. HeapSize - 1 |-> m[a]]

LEMMA SizesFit ==
  /\ RamSize \in Nat /\ HeapSize \in Nat /\ StackSize \in Nat /\ HeapSize <= RamSize
  /\ HeapSize + StackSize = RamSize
BY Chip32Assumption, MachineAssumption, ByteModPositive DEF HeapSize

LEMMA StackPushed ==
  ASSUME NEW m \in MemoryOf(RamSize), NEW sp \in Nat, StackAt(sp), HeapSize <= sp - 4,
         NEW w \in Word
  PROVE  /\ StackOf(WithWord(m, sp - 4, w), sp - 4) = Append(StackOf(m, sp), w)
         /\ HeapOf(WithWord(m, sp - 4, w)) = HeapOf(m)
         /\ 4 * (Len(StackOf(m, sp)) + 1) <= StackSize
         /\ StackAt(sp - 4)
<1> DEFINE d  == (RamSize - sp) \div 4
           a  == sp - 4
           mw == WithWord(m, a, w)
<1>1. RamSize \in Nat /\ HeapSize \in Nat /\ HeapSize + StackSize = RamSize
  BY SizesFit
<1>2. d \in Nat /\ RamSize - sp = 4 * d /\ a \in Nat /\ a + 3 < RamSize /\ HeapSize <= a
  BY <1>1 DEF StackAt
<1>3. (RamSize - a) \div 4 = d + 1 /\ StackAt(a)
  BY <1>1, <1>2 DEF StackAt
<1>4. ASSUME NEW i \in 1 .. d PROVE WordAt(mw, RamSize - 4 * i) = WordAt(m, RamSize - 4 * i)
  <2>1. RamSize - 4 * i \in Nat /\ RamSize - 4 * i + 3 < RamSize /\ a + 3 < RamSize - 4 * i
    BY <1>1, <1>2
  <2> QED
    BY <1>1, <1>2, <2>1, WrittenBeside
<1>5. WordAt(mw, RamSize - 4 * (d + 1)) = w
  <2>1. RamSize - 4 * (d + 1) = a
    BY <1>1, <1>2
  <2> QED
    BY <1>1, <1>2, <2>1, WrittenIsRead
<1>6. StackOf(mw, a) = [i \in 1 .. d + 1 |-> WordAt(mw, RamSize - 4 * i)]
  BY <1>3 DEF StackOf
<1>7. /\ StackOf(m, sp) = [i \in 1 .. d |-> WordAt(m, RamSize - 4 * i)]
      /\ Len(StackOf(m, sp)) = d
  BY <1>2 DEF StackOf
<1>8. HeapOf(mw) = HeapOf(m)
  <2>1. \A b \in 0 .. HeapSize - 1 : b \in DOMAIN m /\ b \notin a .. a + 3
    BY <1>1, <1>2 DEF MemoryOf
  <2> QED
    BY <2>1 DEF HeapOf, WithWord
<1>9. StackOf(mw, a) = Append(StackOf(m, sp), w)
  <2> HIDE DEF d, a, mw
  <2>1. Append(StackOf(m, sp), w)
          = [i \in 1 .. d + 1 |-> IF i = d + 1 THEN w ELSE WordAt(m, RamSize - 4 * i)]
    BY <1>2, <1>7
  <2> QED
    BY <1>2, <1>4, <1>5, <1>6, <2>1
<1>10. 4 * (Len(StackOf(m, sp)) + 1) <= StackSize
  <2> HIDE DEF d
  <2> QED
    BY <1>1, <1>2, <1>7, SizesFit
<1> QED
  BY <1>3, <1>8, <1>9, <1>10

LEMMA StackPopped ==
  ASSUME NEW m \in MemoryOf(RamSize), NEW sp \in Nat, StackAt(sp), sp < RamSize
  PROVE  /\ StackOf(m, sp) # <<>>
         /\ StackOf(m, sp + 4) = SubSeq(StackOf(m, sp), 1, Len(StackOf(m, sp)) - 1)
         /\ StackOf(m, sp)[Len(StackOf(m, sp))] = WordAt(m, sp)
         /\ StackAt(sp + 4)
<1> DEFINE d == (RamSize - sp) \div 4
<1>1. RamSize \in Nat /\ HeapSize \in Nat
  BY SizesFit
<1>2. d \in Nat /\ 1 <= d /\ RamSize - sp = 4 * d
  BY <1>1 DEF StackAt
<1>3. (RamSize - (sp + 4)) \div 4 = d - 1 /\ StackAt(sp + 4)
  BY <1>1, <1>2 DEF StackAt
<1>4. /\ StackOf(m, sp) = [i \in 1 .. d |-> WordAt(m, RamSize - 4 * i)]
      /\ Len(StackOf(m, sp)) = d
  BY <1>2 DEF StackOf
<1>5. StackOf(m, sp + 4) = [i \in 1 .. d - 1 |-> WordAt(m, RamSize - 4 * i)]
  BY <1>3 DEF StackOf
<1> HIDE DEF d
<1>6. RamSize - 4 * d = sp
  BY <1>1, <1>2
<1>7. SubSeq(StackOf(m, sp), 1, d - 1) = [i \in 1 .. d - 1 |-> WordAt(m, RamSize - 4 * i)]
  BY <1>2, <1>4
<1>8. StackOf(m, sp) # <<>>
  BY <1>2, <1>4
<1> QED
  BY <1>2, <1>3, <1>4, <1>5, <1>6, <1>7, <1>8

(* How many words the stack holds, and where it may grow.                  *)
LEMMA StackCounted ==
  ASSUME NEW m, NEW sp \in Nat, StackAt(sp)
  PROVE  /\ Len(StackOf(m, sp)) \in Nat /\ 4 * Len(StackOf(m, sp)) = RamSize - sp
         /\ StackOf(m, sp) = <<>> <=> sp = RamSize
         /\ sp # RamSize => sp + 4 <= RamSize
<1> DEFINE d == (RamSize - sp) \div 4
<1>1. RamSize \in Nat /\ HeapSize \in Nat
  BY SizesFit
<1>2. d \in Nat /\ RamSize - sp = 4 * d
  BY <1>1 DEF StackAt
<1>3. StackOf(m, sp) = [i \in 1 .. d |-> WordAt(m, RamSize - 4 * i)]
  BY DEF StackOf
<1> HIDE DEF d
<1>4. Len(StackOf(m, sp)) = d /\ (StackOf(m, sp) = <<>> <=> d = 0)
  BY <1>2, <1>3
<1> QED
  BY <1>1, <1>2, <1>4

LEMMA RegularStack ==
  ASSUME Regular
  PROVE  /\ reg[SP] \in Nat /\ StackAt(reg[SP]) /\ ram \in MemoryOf(RamSize)
         /\ HeapSize <= reg[SP] /\ reg[SP] <= RamSize
         /\ reg[SP] # RamSize => reg[SP] + 4 <= RamSize
         /\ StackOf(ram, reg[SP]) = <<>> <=> reg[SP] = RamSize
         /\ Len(StackOf(ram, reg[SP])) \in Nat
         /\ 4 * Len(StackOf(ram, reg[SP])) = RamSize - reg[SP]
<1>1. /\ reg[SP] \in Nat /\ StackAt(reg[SP]) /\ ram \in MemoryOf(RamSize)
      /\ HeapSize <= reg[SP] /\ reg[SP] <= RamSize
  BY RegularFacts, SizesFit DEF Regular, TypeOK, StackInPlace, StackAt, MemoryOf
<1> QED
  BY <1>1, StackCounted
-----------------------------------------------------------------------------
LEMMA PushShown ==
  ASSUME Regular, Push, Within("push"), HeapSize <= reg[SP] - 4 PROVE InstructionSet!Push
<1> DEFINE r == [Consumed(1) EXCEPT ![SP] = @ - 4]
<1>1. "push" \in Ops /\ Execute("push") /\ ArgsInRom("push") /\ ArgBytes("push") = 1
  BY DEF Ops, Instructions, ArgBytes, AluOps, Push, Execute
<1>2. InstructionSet!Execute("push") /\ Arg(1) \in General
  BY <1>1, Sizes, ExecuteShown DEF Within
<1>4. ram \in MemoryOf(RamSize) /\ reg[SP] \in Nat /\ StackAt(reg[SP])
  BY RegularStack
<1>5. /\ Consumed(1) \in Regs /\ Plus(Consumed(1)[IP], 1) = InstructionSet!After("push")
      /\ Consumed(1)[SP] = reg[SP] /\ \A x \in General : Consumed(1)[x] = reg[x]
  BY <1>1, ConsumedShown
<1>6. reg[SP] - 4 \in Word
  <2>1. reg[SP] < WordMod /\ WordMod \in Nat
    BY <1>4, SizesFit, Chip32Assumption, ByteModPositive DEF StackAt
  <2> HIDE DEF WordMod
  <2> QED
    BY <1>4, <2>1, SizesFit DEF Word
<1>7. /\ r \in Regs /\ r[SP] = reg[SP] - 4 /\ r[IP] = Consumed(1)[IP]
      /\ \A x \in General : r[x] = reg[x]
  BY <1>5, <1>6 DEF Regs, General, IP, SP, Registers
<1>8. Shown(r) = Shown(reg) /\ r[Arg(1)] = Shown(reg)[Arg(1)] /\ r[Arg(1)] \in Word
  BY <1>2, <1>7 DEF Shown, General, Regs
<1>9. Advance(r) /\ ram' = WithWord(ram, reg[SP] - 4, r[Arg(1)]) /\ skip' = skip
  BY <1>7 DEF Push
<1> HIDE DEF r
<1>10. /\ StackOf(ram', reg[SP] - 4) = Append(StackOf(ram, reg[SP]), r[Arg(1)])
       /\ HeapOf(ram') = HeapOf(ram)
       /\ 4 * (Len(StackOf(ram, reg[SP])) + 1) <= StackSize
       /\ StackAt(reg[SP] - 4)
  BY <1>4, <1>8, <1>9, StackPushed
<1>11. InstructionSet!Sets(Shown(reg), InstructionSet!After("push"))
  BY <1>5, <1>7, <1>8, <1>9, <1>10, AdvanceShown DEF InstructionSet!Sets
<1>12. reg'[SP] = reg[SP] - 4
  BY <1>7, <1>9 DEF Advance, Regs, IP, SP, Registers
<1> QED
  BY <1>2, <1>8, <1>9, <1>10, <1>11, <1>12
     DEF InstructionSet!Push, InstructionSet!Sets, InstructionSet!Arg, Arg, StackOf, HeapOf

LEMMA PopShown ==
  ASSUME Regular, Pop, Within("pop") PROVE InstructionSet!Pop
<1> DEFINE r == [Consumed(1) EXCEPT ![Arg(1)] = WordAt(ram, reg[SP])]
           s == [r EXCEPT ![SP] = Plus(@, 4)]
<1>1. "pop" \in Ops /\ Execute("pop") /\ ArgsInRom("pop") /\ ArgBytes("pop") = 1
  BY DEF Ops, Instructions, ArgBytes, AluOps, Pop, Execute
<1>2. InstructionSet!Execute("pop") /\ Arg(1) \in General
  BY <1>1, Sizes, ExecuteShown DEF Within
<1>4. ram \in MemoryOf(RamSize) /\ reg[SP] \in Nat /\ StackAt(reg[SP]) /\ reg[SP] + 4 <= RamSize
  BY RegularStack DEF Pop
<1>5. /\ Consumed(1) \in Regs /\ Plus(Consumed(1)[IP], 1) = InstructionSet!After("pop")
      /\ Consumed(1)[SP] = reg[SP] /\ \A x \in General : Consumed(1)[x] = reg[x]
  BY <1>1, ConsumedShown
<1>6. WordAt(ram, reg[SP]) \in Word
  BY <1>4, SizesFit, WordAtTyped
<1>7. Plus(reg[SP], 4) = reg[SP] + 4 /\ Plus(reg[SP], 4) \in Word
  <2>1. reg[SP] + 4 < WordMod /\ WordMod \in Nat
    BY <1>4, Chip32Assumption, ByteModPositive
  <2> HIDE DEF WordMod
  <2> QED
    BY <1>4, <2>1 DEF Plus, Word
<1>8. r \in Regs /\ r[SP] = reg[SP] /\ r[IP] = Consumed(1)[IP]
  BY <1>2, <1>5, <1>6 DEF Regs, General, IP, SP, Registers
<1>9. s \in Regs /\ s[SP] = reg[SP] + 4 /\ s[IP] = Consumed(1)[IP]
  BY <1>7, <1>8 DEF Regs, IP, SP, Registers
<1>10. Shown(s) = [Shown(reg) EXCEPT ![Arg(1)] = WordAt(ram, reg[SP])]
  <2>1. Shown(r) = [Shown(reg) EXCEPT ![Arg(1)] = WordAt(ram, reg[SP])]
    <3>1. \A w : Shown([Consumed(1) EXCEPT ![Arg(1)] = w]) = [Shown(reg) EXCEPT ![Arg(1)] = w]
      BY <1>2, <1>5, SetShown
    <3> QED
      BY <3>1
  <2>2. Shown(s) = Shown(r)
    <3> HIDE DEF r
    <3> QED
      BY <1>8, SpNotShown
  <2> QED
    BY <2>1, <2>2
<1>11. Plain(s)
  BY DEF Pop
<1> HIDE DEF s
<1>12. /\ StackOf(ram, reg[SP]) # <<>>
       /\ StackOf(ram, reg[SP] + 4)
            = SubSeq(StackOf(ram, reg[SP]), 1, Len(StackOf(ram, reg[SP])) - 1)
       /\ StackOf(ram, reg[SP])[Len(StackOf(ram, reg[SP]))] = WordAt(ram, reg[SP])
       /\ StackAt(reg[SP] + 4)
  BY <1>4, SizesFit, StackPopped
<1>13. InstructionSet!Sets(Shown(s), InstructionSet!After("pop"))
  BY <1>5, <1>9, <1>11, <1>12, AdvanceShown DEF InstructionSet!Sets, Plain
<1>14. reg'[SP] = reg[SP] + 4 /\ ram' = ram /\ skip' = skip
  BY <1>9, <1>11 DEF Plain, Advance, Regs, IP, SP, Registers
<1> QED
  BY <1>2, <1>10, <1>12, <1>13, <1>14
     DEF InstructionSet!Pop, InstructionSet!Sets, InstructionSet!Arg, Arg, StackOf

(* A jump.                                                                 *)
LEMMA JumpShown ==
  ASSUME Regular, NEW r \in Regs, r[SP] = reg[SP], NEW target \in Word, JumpTo(r, target)
  PROVE  InstructionSet!Jump(Shown(r), target)
<1> DEFINE s == [r EXCEPT ![IP] = Plus(target, WordMod - 1)]
<1>1. Plus(target, WordMod - 1) \in Word
  BY PlusTyped, ByteModPositive
<1>2. /\ s \in Regs /\ s[SP] = reg[SP] /\ s[IP] = Plus(target, WordMod - 1)
      /\ Shown(s) = Shown(r)
  BY <1>1 DEF Regs, Shown, General, IP, SP, Registers
<1>3. Plain(s)
  BY DEF JumpTo
<1> HIDE DEF s
<1> QED
  BY <1>2, <1>3, PlainShown, JumpsBack DEF InstructionSet!Jump, InstructionSet!Sets

LEMMA CallShown ==
  ASSUME Regular, Call PROVE InstructionSet!Call
<1> DEFINE r == [Consumed(2) EXCEPT ![RA] = Plus(reg[IP], 3)]
<1>1. "call" \in Ops /\ Execute("call") /\ ArgsInRom("call") /\ ArgBytes("call") = 2
  BY Sizes DEF Call, Execute
<1>2. RegisterArgs("call") = {}
  BY DEF RegisterArgs, AluOps
<1>3. InstructionSet!Execute("call")
  BY <1>1, <1>2, ExecuteShown
<1>4. Short(1) \in Word
  BY <1>1, ArgsAreBytes, ShortTyped DEF Regular
<1>5. /\ Consumed(2) \in Regs /\ Consumed(2)[SP] = reg[SP]
      /\ \A x \in General : Consumed(2)[x] = reg[x]
  BY <1>1, ConsumedShown
<1>6. Plus(reg[IP], 3) = InstructionSet!After("call") /\ Plus(reg[IP], 3) \in Word
  <2>1. reg[IP] \in Nat /\ reg[IP] + 3 < WordMod /\ WordMod \in Nat
    BY <1>1, RegularFacts, Chip32Assumption, ByteModPositive DEF ArgsInRom, InRom
  <2>2. InstructionSet!After("call") = reg[IP] + 3
    BY <1>1, <2>1, SameBase DEF InstructionSet!After
  <2> HIDE DEF WordMod
  <2>3. Plus(reg[IP], 3) = reg[IP] + 3 /\ reg[IP] + 3 \in Word
    BY <2>1 DEF Plus, Word
  <2> QED
    BY <2>2, <2>3
<1>7. RA \in General /\ RA # SP /\ RA \in Registers
  BY DEF RA, SP, IP, General, Registers
<1>8. r \in Regs /\ r[SP] = reg[SP] /\ Shown(r) = [Shown(reg) EXCEPT ![RA] = Plus(reg[IP], 3)]
  BY <1>5, <1>6, <1>7, SetShown, SetTyped DEF Regs
<1>9. JumpTo(r, Short(1))
  BY DEF Call
<1> HIDE DEF r
<1> QED
  BY <1>3, <1>4, <1>6, <1>8, <1>9, JumpShown, SameBase
     DEF InstructionSet!Call, InstructionSet!Short, InstructionSet!Arg, Short, Arg,
         InstructionSet!Jump, InstructionSet!Sets

LEMMA RetShown ==
  ASSUME Regular, Ret PROVE InstructionSet!Ret
<1>1. "ret" \in Ops /\ RegisterArgs("ret") = {} /\ Execute("ret")
  BY DEF Ops, Instructions, RegisterArgs, AluOps, Ret
<1>2. InstructionSet!Execute("ret")
  BY <1>1, ExecuteShown
<1>3. reg[RA] \in Word /\ reg[RA] = Shown(reg)[RA]
  BY RegularFacts DEF Regs, Shown, General, RA, SP, IP, Registers
<1>4. InstructionSet!Jump(Shown(reg), reg[RA])
  BY <1>3, RegularFacts, JumpShown DEF Ret, InstructionSet!Jump, InstructionSet!Sets
<1> QED
  BY <1>2, <1>3, <1>4, SameBase
     DEF InstructionSet!Ret, InstructionSet!Jump, InstructionSet!Sets

LEMMA JmpShown ==
  ASSUME Regular, Jmp PROVE InstructionSet!Jmp
<1>1. "jmp" \in Ops /\ Execute("jmp") /\ ArgsInRom("jmp") /\ ArgBytes("jmp") = 2
  BY Sizes DEF Jmp, Execute
<1>2. RegisterArgs("jmp") = {}
  BY DEF RegisterArgs, AluOps
<1>3. InstructionSet!Execute("jmp") /\ Short(1) \in Word
  BY <1>1, <1>2, ExecuteShown, ArgsAreBytes, ShortTyped DEF Regular
<1>4. Consumed(2) \in Regs /\ Consumed(2)[SP] = reg[SP] /\ Shown(Consumed(2)) = Shown(reg)
  BY <1>1, ConsumedShown, SameShown
<1> QED
  BY <1>3, <1>4, JumpShown
     DEF Jmp, InstructionSet!Jmp, InstructionSet!Short, InstructionSet!Arg, Short, Arg,
         InstructionSet!Jump, InstructionSet!Sets

(* jr: one byte too far.                                                   *)
LEMMA JrShown ==
  ASSUME Regular, Jr, Within("jr") PROVE JumpsTooFar
<1> DEFINE t == reg[Arg(1)] % (ByteMod * ByteMod)
           r == [reg EXCEPT ![IP] = t]
<1>1. "jr" \in Ops /\ Execute("jr") /\ ArgsInRom("jr") /\ ArgBytes("jr") = 1
  BY DEF Ops, Instructions, ArgBytes, AluOps, Jr, Execute
<1>2. InstructionSet!Execute("jr") /\ Arg(1) \in General
  BY <1>1, Sizes, ExecuteShown DEF Within
<1>3. Consumed(1)[Arg(1)] = reg[Arg(1)] /\ reg[Arg(1)] \in Nat
  BY <1>1, <1>2, ConsumedShown, RegularFacts, ByteModPositive DEF Regs, General, Word
<1>4. t \in Word /\ Plus(t, 1) = t + 1
  <2>1. t \in Nat /\ t + 1 < WordMod /\ WordMod \in Nat
    BY <1>3, ShortsBelowWords, ByteModPositive
  <2> HIDE DEF t, WordMod
  <2> QED
    BY <2>1 DEF Plus, Word
<1> HIDE DEF t
<1>5. /\ r \in Regs /\ r[SP] = reg[SP] /\ r[IP] = t /\ Shown(r) = Shown(reg)
  BY <1>4, RegularFacts DEF Regs, Shown, General, IP, SP, Registers
<1>6. Plain(r)
  BY <1>3 DEF Jr, t
<1> HIDE DEF r
<1>7. InstructionSet!Jump(Shown(reg), t + 1)
  BY <1>4, <1>5, <1>6, PlainShown
<1> QED
  BY <1>2, <1>7 DEF JumpsTooFar, t

(* store and load: the address is taken as an offset.                      *)
LEMMA StoreShown ==
  ASSUME Regular, Store, Within("store") PROVE StoresAtOffset
<1>1. "store" \in Ops /\ Execute("store") /\ ArgsInRom("store") /\ ArgBytes("store") = 3
  BY Sizes DEF Store, Execute
<1>2. InstructionSet!Execute("store") /\ Arg(3) \in General
  BY <1>1, Sizes, ExecuteShown DEF Within
<1>3. Short(1) \in Nat /\ InRom(Short(1) + 3) /\ ~(Short(1) + 3 >= RamSize)
  BY <1>1, Sizes, ArgsAreBytes, ShortTyped, SizesFit DEF Regular, Store
<1>4. StackAt(reg[SP])
  BY RegularStack
<1>5. /\ Consumed(3) \in Regs /\ Plus(Consumed(3)[IP], 1) = InstructionSet!After("store")
      /\ Consumed(3)[SP] = reg[SP] /\ Shown(Consumed(3)) = Shown(reg)
      /\ Consumed(3)[Arg(3)] = reg[Arg(3)]
  BY <1>1, <1>2, ConsumedShown, SameShown
<1>6. ram' = WithWord(ram, Short(1), reg[Arg(3)]) /\ skip' = skip /\ Advance(Consumed(3))
  BY <1>5 DEF Store
<1>7. InstructionSet!Sets(Shown(reg), InstructionSet!After("store"))
  BY <1>4, <1>5, <1>6, AdvanceShown
<1>8. reg'[SP] = reg[SP]
  BY <1>5, <1>6 DEF Advance, Regs, IP, SP, Registers
<1> QED
  BY <1>2, <1>3, <1>6, <1>7, <1>8 DEF StoresAtOffset

LEMMA LoadShown ==
  ASSUME Regular, Load, Within("load") PROVE LoadsAtOffset
<1>1. "load" \in Ops /\ Execute("load") /\ ArgsInRom("load") /\ ArgBytes("load") = 3
  BY Sizes DEF Load, Execute
<1>2. InstructionSet!Execute("load") /\ Arg(1) \in General
  BY <1>1, Sizes, ExecuteShown DEF Within
<1>3. Short(2) \in Nat /\ InRom(Short(2) + 3) /\ Short(2) + 3 < RamSize
  BY <1>1, Sizes, ArgsAreBytes, ShortTyped DEF Regular, Load
<1>4. WordAt(ram, Short(2)) \in Word
  BY <1>3, RegularStack, WordAtTyped, SizesFit
<1>5. InstructionSet!Plain("load", [Shown(reg) EXCEPT ![Arg(1)] = WordAt(ram, Short(2))])
  BY <1>1, <1>2, <1>4, ResultShown DEF Load
<1> QED
  BY <1>2, <1>3, <1>5, SizesFit DEF LoadsAtOffset

(* The two tests look at the number of the register.                       *)
LEMMA TestShown ==
  ASSUME Regular, NEW op \in {"skipz", "skipnz"}, Within(op),
         NEW condition, SkipIf(op, condition)
  PROVE  InstructionSet!SkipIf(op, condition)
<1>1. op \in Ops /\ ArgBytes(op) = 1 /\ RegisterArgs(op) = {1}
  BY Sizes DEF ArgBytes, RegisterArgs, AluOps
<1>2. ArgsInRom(op) /\ InstructionSet!Execute(op)
  BY <1>1, ExecuteShown DEF Within, Execute
<1>3. /\ Consumed(1) \in Regs /\ Plus(Consumed(1)[IP], 1) = InstructionSet!After(op)
      /\ Consumed(1)[SP] = reg[SP] /\ Shown(Consumed(1)) = Shown(reg)
  BY <1>1, <1>2, ConsumedShown, SameShown
<1>4. skip' = condition /\ Advance(Consumed(1)) /\ ram' = ram
  BY DEF SkipIf
<1>5. InstructionSet!Sets(Shown(reg), InstructionSet!After(op))
  BY <1>3, <1>4, RegularStack, AdvanceShown
<1>6. reg'[SP] = reg[SP]
  BY <1>3, <1>4 DEF Advance, Regs, IP, SP, Registers
<1> QED
  BY <1>2, <1>4, <1>5, <1>6 DEF InstructionSet!SkipIf

LEMMA SkipsShown ==
  ASSUME Regular, \/ Skipz /\ Within("skipz")
                  \/ Skipnz /\ Within("skipnz")
  PROVE  SkipsOnNumber
<1>1. CASE Skipz /\ Within("skipz")
  BY <1>1, TestShown DEF Skipz, SkipsOnNumber
<1>2. CASE Skipnz /\ Within("skipnz")
  BY <1>2, TestShown DEF Skipnz, SkipsOnNumber
<1> QED
  BY <1>1, <1>2

(* Only the five instructions without a size have arguments beyond ROM.    *)
LEMMA SizeKnown ==
  ASSUME NEW op \in Ops, Fetch(op), op \notin Undersized
  PROVE  Bytes(op) = ArgBytes(op) /\ ArgsInRom(op)
BY DEF Bytes, Fetch, ArgsInRom

LEMMA WildArgumentShown ==
  ASSUME Regular, WildArgument PROVE ReadsBeyondRom
<1>1. PICK op \in Ops : Fetch(op) /\ ~ArgsInRom(op) /\ Return("wild read", ArgBytes(op))
  BY DEF WildArgument
<1>2. op \in Undersized
  BY <1>1, SizeKnown
<1>3. GoesAstray
  BY <1>1, AstrayShown DEF Wild
<1> QED
  BY <1>1, <1>2, <1>3 DEF WildArgument, ReadsBeyondRom

LEMMA SkipOverShown ==
  ASSUME Regular, SkipOver PROVE InstructionSet!SkipOver \/ SkipsHalf
<1>1. skip /\ skip' = FALSE /\ ram' = ram
  BY DEF SkipOver
<1>2. PICK op \in Ops : Fetch(op) /\ Advance(Consumed(Bytes(op)))
  BY DEF SkipOver
<1>3. CASE op \notin Undersized
  <2> DEFINE n == ArgBytes(op)
  <2>1. Bytes(op) = n /\ ArgsInRom(op) /\ n \in Nat
    <3>1. n \in Nat
      BY DEF ArgBytes, Ops, Instructions, AluOps
    <3> QED
      BY <1>2, <1>3, <3>1, SizeKnown
  <2> HIDE DEF n
  <2>2. /\ Consumed(n) \in Regs /\ Plus(Consumed(n)[IP], 1) = InstructionSet!After(op)
        /\ Consumed(n)[SP] = reg[SP] /\ Shown(Consumed(n)) = Shown(reg)
    BY <2>1, ConsumedShown, SameShown DEF n
  <2>3. Advance(Consumed(n))
    BY <1>2, <2>1 DEF Advance
  <2>4. InstructionSet!Sets(Shown(reg), InstructionSet!After(op))
    BY <2>2, <2>3, RegularStack, AdvanceShown
  <2>5. reg'[SP] = reg[SP]
    BY <2>2, <2>3 DEF Advance, Regs, IP, SP, Registers
  <2>6. InstructionSet!Fetch(op) /\ op \in InstructionSet!Ops
    BY <1>2, <2>1, FetchShown, SameBase
  <2> QED
    BY <1>1, <2>4, <2>5, <2>6 DEF InstructionSet!SkipOver
<1>4. CASE op \in Undersized
  <2>1. Advance(Consumed(0))
    BY <1>2, <1>4 DEF Bytes
  <2>2. reg \in Regs /\ reg[IP] \in Nat /\ reg[IP] < RomSize /\ RomSize \in Nat
    BY <1>2, RegularFacts, Chip32Assumption, ByteModPositive DEF Fetch, InRom
  <2>3. Plus(reg[IP], 0) = reg[IP] /\ Plus(reg[IP], 1) = reg[IP] + 1 /\ reg[IP] \in Word
    <3>1. reg[IP] + 1 < WordMod /\ WordMod \in Nat
      BY <2>2, Chip32Assumption, ByteModPositive
    <3> HIDE DEF WordMod
    <3> QED
      BY <2>2, <3>1 DEF Plus, Word
  <2>4. Consumed(0) = reg
    BY <2>2, <2>3, PointersAreRegisters DEF Consumed, Regs
  <2>5. InstructionSet!Sets(Shown(reg), reg[IP] + 1)
    BY <2>1, <2>2, <2>3, <2>4, RegularStack, AdvanceShown
  <2>6. reg'[SP] = reg[SP]
    BY <2>1, <2>2, <2>4 DEF Advance, Regs, IP, SP, Registers
  <2> QED
    BY <1>1, <1>2, <1>4, <2>5, <2>6 DEF SkipsHalf
<1> QED
  BY <1>3, <1>4
-----------------------------------------------------------------------------
(* The other ways out of the loop.                                         *)
LEMMA OutsideShown ==
  ASSUME Regular, NEW op \in Ops, Execute(op), ~Within(op) PROVE InstructionSet!Outside
<1>1. ~skip /\ InstructionSet!Fetch(op) /\ op \in InstructionSet!Ops
  BY FetchShown, SameBase DEF Execute
<1>2. \E k \in InstructionSet!RegisterArgs(op) :
        InstructionSet!Arg(k) \in {InstructionSet!IP, InstructionSet!SP}
  BY SameBase DEF Within, InstructionSet!Arg, Arg
<1> QED
  BY <1>1, <1>2 DEF InstructionSet!Outside

LEMMA StopsShown ==
  ASSUME Regular, Halt \/ Syscall \/ UnknownOpcode \/ BadAddress \/ BadRegister
  PROVE  InstructionSet!Next
<1>1. \A op \in Ops : ArgBytes(op) \in Nat
  BY DEF ArgBytes, Ops, Instructions, AluOps
<1>2. /\ "halt" \in Ops /\ RegisterArgs("halt") = {}
      /\ "syscall" \in Ops /\ RegisterArgs("syscall") = {}
  BY DEF Ops, Instructions, RegisterArgs, AluOps
<1>3. Outcome = "on" /\ reg[IP] \in Nat
  BY RegularFacts
<1>4. CASE Halt
  <2>1. InstructionSet!Execute("halt") /\ InstructionSet!Stops("VM_FINISHED")
    BY <1>2, <1>4, ExecuteShown, ReturnShown DEF Halt, Stopped
  <2> QED
    BY <2>1 DEF InstructionSet!Next, InstructionSet!Run, InstructionSet!Halt
<1>5. CASE Syscall
  <2>1. InstructionSet!Execute("syscall") /\ InstructionSet!Stops("VM_ERR_UNHANDLED_INTERRUPT")
    BY <1>2, <1>5, ExecuteShown, ReturnShown DEF Syscall, Stopped
  <2> QED
    BY <2>1 DEF InstructionSet!Next, InstructionSet!Run, InstructionSet!SyscallUnhandled
<1>6. CASE UnknownOpcode
  <2>1. InstructionSet!Stops("VM_ERR_UNKNOWN_OPCODE")
    BY <1>6, ReturnShown DEF UnknownOpcode, Stopped
  <2>2. reg[IP] < RomSize /\ rom[reg[IP]] \notin Opcodes
    BY <1>6 DEF UnknownOpcode, InRom
  <2> QED
    BY <1>3, <2>1, <2>2, SameBase
       DEF InstructionSet!Next, InstructionSet!Run, InstructionSet!UnknownOpcode
<1>7. CASE BadAddress
  <2>1. InstructionSet!Stops("VM_ERR_INVALID_ADDRESS")
    BY <1>7, ReturnShown DEF BadAddress, Stopped
  <2>2. \/ reg[IP] >= RomSize
        \/ /\ reg[IP] < RomSize /\ rom[reg[IP]] \in Opcodes
           /\ reg[IP] + ArgBytes(Instructions[rom[reg[IP]] + 1]) >= RomSize
    <3>1. RomSize \in Nat
      BY Chip32Assumption, ByteModPositive
    <3>2. CASE ~InRom(reg[IP])
      BY <1>3, <3>1, <3>2 DEF InRom
    <3>3. CASE InRom(reg[IP])
      <4> DEFINE op == Instructions[rom[reg[IP]] + 1]
      <4>1. rom[reg[IP]] \in Opcodes /\ ~InRom(reg[IP] + Bytes(op))
        BY <1>7, <3>3 DEF BadAddress
      <4>2. op \in Ops
        BY <4>1 DEF Ops, Opcodes
      <4>3. ArgBytes(op) \in Nat /\ Bytes(op) \in Nat /\ Bytes(op) <= ArgBytes(op)
        BY <1>1, <4>2 DEF Bytes
      <4> HIDE DEF op
      <4>4. reg[IP] + ArgBytes(op) >= RomSize
        BY <1>3, <3>1, <4>1, <4>3 DEF InRom
      <4> QED
        BY <3>3, <4>1, <4>4 DEF op, InRom
    <3> QED
      BY <3>2, <3>3
  <2> QED
    BY <1>3, <2>1, <2>2, SameBase
       DEF InstructionSet!Next, InstructionSet!Run, InstructionSet!BadAddress
<1>8. CASE BadRegister
  <2>1. PICK op \in Ops :
          /\ ~skip /\ Fetch(op) /\ ArgsInRom(op) /\ ~RegistersValid(op)
          /\ Return("VM_ERR_INVALID_REGISTER", IF op = "lcons" THEN 1 ELSE ArgBytes(op))
    BY <1>8 DEF BadRegister
  <2>2. (IF op = "lcons" THEN 1 ELSE ArgBytes(op)) \in Nat
    BY <1>1
  <2>3. InstructionSet!Stops("VM_ERR_INVALID_REGISTER")
    BY <2>1, <2>2, ReturnShown DEF Stopped
  <2>4. InstructionSet!Fetch(op) /\ op \in InstructionSet!Ops
    BY <2>1, FetchShown, SameBase
  <2>5. \E k \in InstructionSet!RegisterArgs(op) :
          InstructionSet!Arg(k) \notin InstructionSet!Registers
    BY <2>1, SameBase DEF RegistersValid, InstructionSet!Arg, Arg
  <2> QED
    BY <2>1, <2>3, <2>4, <2>5
       DEF InstructionSet!Next, InstructionSet!Run, InstructionSet!BadRegister
<1> QED
  BY <1>4, <1>5, <1>6, <1>7, <1>8

LEMMA AddressRefusedShown ==
  ASSUME Regular, AddressRefused PROVE InstructionSet!Next \/ AddressOutsideRomSize
<1>1. PICK op \in {"store", "load"} :
        /\ Execute(op) /\ Return("VM_ERR_INVALID_ADDRESS", 3)
        /\ ~InRom(Short(IF op = "store" THEN 1 ELSE 2) + 3)
  BY DEF AddressRefused
<1>2. op \in Ops
  BY Sizes
<1>3. CASE ~Within(op)
  BY <1>1, <1>2, <1>3, OutsideShown DEF InstructionSet!Next
<1>4. CASE Within(op)
  <2>1. InstructionSet!Execute(op)
    BY <1>1, <1>2, <1>4, ExecuteShown DEF Within
  <2>2. Stops("VM_ERR_INVALID_ADDRESS")
    BY <1>1, ReturnShown DEF Stopped, Stops
  <2> QED
    BY <1>1, <2>1, <2>2 DEF AddressOutsideRomSize
<1> QED
  BY <1>3, <1>4

(* A push, whether it is done, refused or goes astray.                     *)
LEMMA PushServed ==
  ASSUME Regular, Within("push"),
         Push \/ (~CanPush /\ Return("VM_ERR_STACK_OVERFLOW", 1))
  PROVE  InstructionSet!Push \/ InstructionSet!PushOnFull \/ PushesOn
<1>1. "push" \in Ops /\ Execute("push")
  BY Sizes DEF Within
<1>2. InstructionSet!Execute("push")
  BY <1>1, ExecuteShown DEF Within
<1>3. /\ reg[SP] \in Nat /\ StackAt(reg[SP]) /\ RamSize \in Nat /\ StackSize \in Nat
      /\ HeapSize \in Nat /\ HeapSize + StackSize = RamSize
  BY RegularStack, SizesFit
<1>4. CASE Push /\ HeapSize <= reg[SP] - 4
  BY <1>4, PushShown DEF Within
<1>5. CASE Push /\ reg[SP] - 4 < HeapSize
  <2>1. reg'[SP] = reg[SP] - 4
    <3> DEFINE r == [Consumed(1) EXCEPT ![SP] = @ - 4]
    <3>1. Consumed(1) \in Regs /\ Consumed(1)[SP] = reg[SP]
      BY ConsumedTyped, RegularFacts DEF Regular, Consumed, Regs, IP, SP, Registers
    <3>2. r[SP] = reg[SP] - 4 /\ Advance(r)
      BY <1>5, <3>1, PointersAreRegisters DEF Push, Regs
    <3>3. DOMAIN r = Registers
      BY <3>1 DEF Regs
    <3> HIDE DEF r
    <3> QED
      BY <3>2, <3>3 DEF Advance, IP, SP, Registers
  <2>2. ~StackInPlace'
    BY <1>3, <1>5, <2>1 DEF StackInPlace
  <2>3. GoesAstray
    BY <2>2 DEF GoesAstray, Outcome
  <2> QED
    BY <1>2, <1>5, <2>3 DEF PushesOn
<1>6. CASE ~CanPush /\ Return("VM_ERR_STACK_OVERFLOW", 1)
  <2>1. Stops("VM_ERR_STACK_OVERFLOW")
    BY <1>6, ReturnShown DEF Stopped, Stops
  <2>2. CASE reg[SP] - 4 > RamAddr
    BY <1>2, <2>1, <2>2 DEF PushesOn
  <2>3. CASE reg[SP] < 4
    <3>1. 4 * Len(StackOf(ram, reg[SP])) = RamSize - reg[SP] /\ Len(StackOf(ram, reg[SP])) \in Nat
      BY RegularStack
    <3> DEFINE l == Len(StackOf(ram, reg[SP]))
    <3> HIDE DEF l
    <3>2. 4 * (l + 1) > StackSize
      BY <1>3, <2>3, <3>1 DEF l
    <3> QED
      BY <1>2, <2>1, <3>2 DEF InstructionSet!PushOnFull, Stops, StackOf, l
  <2> QED
    BY <1>3, <1>6, <2>2, <2>3, MachineAssumption DEF CanPush
<1> QED
  BY <1>3, <1>4, <1>5, <1>6

(* A pop that is refused.                                                  *)
LEMMA PopRefused ==
  ASSUME Regular, Within("pop"),
         \/ PopUnderflow /\ Return("VM_ERR_STACK_UNDERFLOW", 1)
         \/ PopOverflow /\ Return("VM_ERR_STACK_OVERFLOW", 1)
  PROVE  InstructionSet!PopOnEmpty \/ PopsOn
<1>1. "pop" \in Ops /\ Execute("pop")
  BY Sizes DEF Within
<1>2. InstructionSet!Execute("pop")
  BY <1>1, ExecuteShown DEF Within
<1>3. CASE PopUnderflow /\ Return("VM_ERR_STACK_UNDERFLOW", 1)
  <2>1. InstructionSet!Stops("VM_ERR_STACK_UNDERFLOW")
    BY <1>3, ReturnShown DEF Stopped
  <2>2. StackOf(ram, reg[SP]) = <<>>
    <3>1. reg[SP] = RamSize
      BY <1>3, RegularStack, SizesFit, MachineAssumption, ByteModPositive DEF PopUnderflow
    <3> QED
      BY <3>1, RegularStack
  <2> QED
    BY <1>2, <2>1, <2>2 DEF InstructionSet!PopOnEmpty, StackOf
<1>4. CASE PopOverflow /\ Return("VM_ERR_STACK_OVERFLOW", 1)
  <2>1. Stops("VM_ERR_STACK_OVERFLOW")
    BY <1>4, ReturnShown DEF Stopped, Stops
  <2> QED
    BY <1>2, <1>4, <2>1 DEF PopsOn, PopOverflow
<1> QED
  BY <1>3, <1>4

LEMMA StackRefusedShown ==
  ASSUME Regular, StackRefused PROVE InstructionSet!Next \/ PushesOn \/ PopsOn
<1>1. CASE Execute("push") /\ ~CanPush /\ Return("VM_ERR_STACK_OVERFLOW", 1)
  <2>1. CASE Within("push")
    BY <1>1, <2>1, PushServed DEF InstructionSet!Next, InstructionSet!Run
  <2>2. CASE ~Within("push")
    BY <1>1, <2>2, Sizes, OutsideShown DEF InstructionSet!Next
  <2> QED
    BY <2>1, <2>2
<1>2. CASE /\ Execute("pop")
           /\ \/ PopUnderflow /\ Return("VM_ERR_STACK_UNDERFLOW", 1)
              \/ PopOverflow /\ Return("VM_ERR_STACK_OVERFLOW", 1)
  <2>1. CASE Within("pop")
    BY <1>2, <2>1, PopRefused DEF InstructionSet!Next, InstructionSet!Run
  <2>2. CASE ~Within("pop")
    BY <1>2, <2>2, Sizes, OutsideShown DEF InstructionSet!Next
  <2> QED
    BY <2>1, <2>2
<1> QED
  BY <1>1, <1>2 DEF StackRefused

(* The accesses behind RAM.                                                *)
LEMMA WildAccessShown ==
  ASSUME Regular, WildAccess
  PROVE  InstructionSet!Next \/ PopsOn \/ StoresAtOffset \/ LoadsAtOffset
<1>1. PICK op \in {"push", "pop", "store", "load"} :
        /\ Execute(op)
        /\ \E a \in Access(op) : a + 3 >= RamSize
        /\ Return(IF op \in {"push", "store"} THEN "wild write" ELSE "wild read", 0)
  BY DEF WildAccess
<1>2. op \in Ops /\ GoesAstray
  BY <1>1, Sizes, AstrayShown DEF Wild
<1>3. CASE ~Within(op)
  BY <1>1, <1>2, <1>3, OutsideShown DEF InstructionSet!Next
<1>4. CASE Within(op)
  <2>1. InstructionSet!Execute(op)
    BY <1>1, <1>2, <1>4, ExecuteShown DEF Within
  <2>2. PICK a \in Access(op) : a + 3 >= RamSize
    BY <1>1
  <2>3. op # "push"
    BY <2>2, RegularStack, SizesFit DEF Access
  <2>4. CASE op = "pop"
    <3>1. a = reg[SP] /\ CanPop
      BY <2>2, <2>4 DEF Access
    <3>2. reg[SP] = RamSize
      BY <2>2, <3>1, RegularStack, SizesFit
    <3>3. RamAddr >= 4
      BY <3>1, <3>2, SizesFit, MachineAssumption, ByteModPositive DEF CanPop, PopUnderflow
    <3> QED
      BY <1>2, <2>1, <2>4, <3>2, <3>3 DEF PopsOn
  <2>5. CASE op = "store"
    <3>1. InRom(Short(1) + 3) /\ Short(1) + 3 >= RamSize
      BY <2>2, <2>5 DEF Access
    <3> QED
      BY <1>2, <2>1, <2>5, <3>1 DEF StoresAtOffset
  <2>6. CASE op = "load"
    <3>1. InRom(Short(2) + 3) /\ Short(2) + 3 >= RamSize
      BY <2>2, <2>6 DEF Access
    <3> QED
      BY <1>2, <2>1, <2>6, <3>1 DEF LoadsAtOffset
  <2> QED
    BY <2>3, <2>4, <2>5, <2>6
<1> QED
  BY <1>3, <1>4

LEMMA PauseShown ==
  ASSUME Pause PROVE UNCHANGED InstructionSet!isaVars
<1>1. status = "running" /\ status' = "VM_PAUSED" /\ UNCHANGED <<rom, ram, reg, skip>>
  BY DEF Pause
<1>2. Outcome' = Outcome
  BY <1>1 DEF Outcome, StackInPlace, Wild
<1> QED
  BY <1>1, <1>2 DEF InstructionSet!isaVars

(* Every step of the loop.                                                 *)
LEMMA RunShown ==
  ASSUME AluTyped(Word), Regular, chip32_run
  PROVE  InstructionSet!Next \/ KnownDivergence \/ UNCHANGED InstructionSet!isaVars
<1>3. ASSUME NEW op \in Ops, Execute(op), ~Within(op) PROVE InstructionSet!Next
  BY <1>3, OutsideShown DEF InstructionSet!Next
<1>4. /\ Lcons => Within("lcons") \/ InstructionSet!Next
      /\ Mov => Within("mov") \/ InstructionSet!Next
      /\ OpNot => Within("not") \/ InstructionSet!Next
      /\ Push => Within("push") \/ InstructionSet!Next
      /\ Pop => Within("pop") \/ InstructionSet!Next
      /\ Store => Within("store") \/ InstructionSet!Next
      /\ Load => Within("load") \/ InstructionSet!Next
      /\ Skipz => Within("skipz") \/ InstructionSet!Next
      /\ Skipnz => Within("skipnz") \/ InstructionSet!Next
      /\ Div \/ DivByZero => Within("div") \/ InstructionSet!Next
      /\ Jr => Within("jr") \/ InstructionSet!Next
  <2>1. /\ Lcons => Execute("lcons")
        /\ Mov => Execute("mov")
        /\ OpNot => Execute("not")
        /\ Push => Execute("push")
        /\ Pop => Execute("pop")
        /\ Store => Execute("store")
        /\ Load => Execute("load")
        /\ Skipz => Execute("skipz")
        /\ Skipnz => Execute("skipnz")
        /\ Div \/ DivByZero => Execute("div")
        /\ Jr => Execute("jr")
    BY DEF Lcons, Mov, OpNot, Push, Pop, Store, Load, Skipz, Skipnz, SkipIf, Div, DivByZero, Jr
  <2>2. /\ "lcons" \in Ops /\ "mov" \in Ops /\ "not" \in Ops /\ "push" \in Ops
        /\ "pop" \in Ops /\ "store" \in Ops /\ "load" \in Ops
        /\ "skipz" \in Ops /\ "skipnz" \in Ops /\ "div" \in Ops /\ "jr" \in Ops
    BY Sizes
  <2> QED
    BY <1>3, <2>1, <2>2
<1>5. CASE Halt \/ Syscall \/ UnknownOpcode \/ BadAddress \/ BadRegister
  BY <1>5, StopsShown
<1>6. CASE AddressRefused
  BY <1>6, AddressRefusedShown DEF KnownDivergence
<1>7. CASE StackRefused \/ WildAccess \/ WildArgument
  BY <1>7, StackRefusedShown, WildAccessShown, WildArgumentShown DEF KnownDivergence
<1>8. CASE Pause
  BY <1>8, PauseShown
<1>9. CASE Nop \/ Call \/ Ret \/ Jmp \/ SkipOver
  BY <1>9, NopShown, CallShown, RetShown, JmpShown, SkipOverShown
     DEF InstructionSet!Next, InstructionSet!Run, KnownDivergence
<1>10. CASE Lcons \/ Mov \/ OpNot
  BY <1>4, <1>10, LconsShown, MovShown, NotShown DEF InstructionSet!Next, InstructionSet!Run
<1>11. ASSUME NEW op \in AluOps, Compute(op) PROVE InstructionSet!Next
  <2>1. CASE Within(op)
    BY <1>11, <2>1, ComputeShown, SameBase DEF InstructionSet!Next, InstructionSet!Run
  <2>2. op \in Ops /\ Execute(op)
    BY <1>11, Sizes DEF Compute
  <2> QED
    BY <1>3, <2>1, <2>2
<1>12. CASE Push \/ Pop
  BY <1>4, <1>12, PushServed, PopShown
     DEF InstructionSet!Next, InstructionSet!Run, KnownDivergence
<1>13. CASE Store \/ Load
  BY <1>4, <1>13, StoreShown, LoadShown DEF KnownDivergence
<1>14. CASE Skipz \/ Skipnz
  BY <1>4, <1>14, SkipsShown DEF KnownDivergence
<1>15. CASE Div \/ DivByZero \/ Jr
  BY <1>4, <1>15, DivShown, JrShown DEF KnownDivergence
<1> QED
  BY <1>5, <1>6, <1>7, <1>8, <1>9, <1>10, <1>11, <1>12, <1>13, <1>14, <1>15 DEF chip32_run
-----------------------------------------------------------------------------
(* The host, and the whole.                                                *)

(* Every run begins without a skip pending, unless after a pause.          *)
Fresh == status = "ready" => ~skip

LEMMA NextFresh == Fresh /\ [Next]_vars => Fresh'
<1> SUFFICES ASSUME Fresh, [Next]_vars PROVE Fresh'
  OBVIOUS
<1>1. CASE chip32_run
  <2>1. status' # "ready"
    BY <1>1 DEF chip32_run, Return, Advance, Plain, JumpTo, Result, SkipIf, Execute, Fetch,
                Looping, Nop, Halt, Syscall, Lcons, Mov, Div, DivByZero, OpNot, Compute, Push,
                Pop, StackRefused, Call, Ret, Jmp, Jr, Store, Load, AddressRefused, Skipz,
                Skipnz, SkipOver, BadAddress, UnknownOpcode, BadRegister, WildArgument,
                WildAccess, Pause
  <2> QED
    BY <2>1 DEF Fresh
<1>2. CASE \E b \in Budgets : Enter(b)
  BY <1>2 DEF Enter, Fresh
<1>3. CASE \E w \in HostWrites : chip32_set_register(w[1], w[2])
  BY <1>3 DEF chip32_set_register, Fresh
<1>4. CASE chip32_initialize
  BY <1>4 DEF chip32_initialize, Fresh
<1>5. CASE UNCHANGED vars
  BY <1>5 DEF vars, Fresh
<1> QED
  BY <1>1, <1>2, <1>3, <1>4, <1>5 DEF Next

LEMMA ZeroedShown ==
  /\ Shown(Zeroed) = [r \in InstructionSet!General |-> 0]
  /\ Zeroed[IP] = 0 /\ StackAt(Zeroed[SP])
  /\ \A m : StackOf(m, Zeroed[SP]) = <<>>
<1>1. Zeroed[IP] = 0 /\ Zeroed[SP] = RamSize /\ \A x \in General : Zeroed[x] = 0
  BY DEF Zeroed, General, IP, SP, Registers
<1>2. StackAt(RamSize) /\ (RamSize - RamSize) \div 4 = 0
  BY SizesFit DEF StackAt
<1>3. \A m : StackOf(m, RamSize) = <<>>
  BY <1>2 DEF StackOf
<1> QED
  BY <1>1, <1>2, <1>3, SameBase DEF Shown

LEMMA InitShown == Init => InstructionSet!Init
<1> SUFFICES ASSUME Init PROVE InstructionSet!Init
  OBVIOUS
<1>1. reg = Zeroed /\ status = "ready" /\ skip = FALSE /\ ram = [a \in 0 .. RamSize - 1 |-> 0]
  BY DEF Init
<1>2. Outcome = "on"
  BY <1>1, ZeroedShown DEF Outcome, StackInPlace, StackAt, Wild
<1>3. HeapOf(ram) = [a \in 0 .. HeapSize - 1 |-> 0]
  BY <1>1, SizesFit DEF HeapOf
<1>4. Shown(reg) = [r \in InstructionSet!General |-> 0]
  BY <1>1, ZeroedShown
<1>5. [i \in 1 .. (RamSize - reg[SP]) \div 4 |-> WordAt(ram, RamSize - 4 * i)] = <<>>
  <2>1. StackOf(ram, reg[SP]) = <<>>
    BY <1>1, ZeroedShown
  <2> QED
    BY <2>1 DEF StackOf
<1>6. [a \in 0 .. HeapSize - 1 |-> ram[a]] = [a \in 0 .. InstructionSet!HeapSize - 1 |-> 0]
  BY <1>3, SameBase DEF HeapOf
<1>7. reg[IP] = 0 /\ skip = FALSE
  BY <1>1, ZeroedShown
<1> QED
  BY <1>2, <1>4, <1>5, <1>6, <1>7 DEF InstructionSet!Init

LEMMA InitializeShown == chip32_initialize => InstructionSet!Initialize
<1> SUFFICES ASSUME chip32_initialize PROVE InstructionSet!Initialize
  OBVIOUS
<1>1. /\ reg' = Zeroed /\ status' = "ready" /\ skip' = FALSE
      /\ ram' = [a \in 0 .. RamSize - 1 |-> 0] /\ rom' = rom
  BY DEF chip32_initialize
<1>2. Outcome' = "on"
  BY <1>1, ZeroedShown DEF Outcome, StackInPlace, StackAt, Wild
<1>3. HeapOf(ram') = [a \in 0 .. HeapSize - 1 |-> 0]
  BY <1>1, SizesFit DEF HeapOf
<1>4. Shown(reg)' = [r \in InstructionSet!General |-> 0]
  BY <1>1, ZeroedShown DEF Shown
<1>5. [i \in 1 .. (RamSize - reg'[SP]) \div 4 |-> WordAt(ram', RamSize - 4 * i)] = <<>>
  BY <1>1, ZeroedShown DEF StackOf
<1>6. [a \in 0 .. HeapSize - 1 |-> ram'[a]] = [a \in 0 .. InstructionSet!HeapSize - 1 |-> 0]
  BY <1>3, SameBase DEF HeapOf
<1>7. reg'[IP] = 0 /\ skip' = FALSE /\ rom' = rom
  BY <1>1, ZeroedShown
<1>8. InstructionSet!Init'
  BY <1>2, <1>4, <1>5, <1>6, <1>7 DEF InstructionSet!Init
<1> QED
  BY <1>7, <1>8 DEF InstructionSet!Initialize

LEMMA EnterShown ==
  ASSUME TypeOK, Fresh, NEW b, Enter(b)
  PROVE  ForgetsSkip \/ UNCHANGED InstructionSet!isaVars
<1>1. /\ status \in {"ready", "VM_PAUSED"} /\ status' = "running" /\ skip' = FALSE
      /\ UNCHANGED <<rom, ram, reg>>
  BY DEF Enter
<1>2. Outcome' = Outcome
  BY <1>1 DEF Outcome, StackInPlace, Wild
<1>3. CASE skip
  BY <1>1, <1>2, <1>3 DEF Fresh, ForgetsSkip
<1>4. CASE ~skip
  <2>1. skip' = skip
    BY <1>1, <1>4 DEF TypeOK
  <2> QED
    BY <1>1, <1>2, <2>1, Zenon DEF InstructionSet!isaVars, Shown
<1> QED
  BY <1>3, <1>4

LEMMA SetRegisterShown ==
  ASSUME TypeOK, NEW r \in General, NEW v \in Word, chip32_set_register(r, v)
  PROVE  InstructionSet!SetRegister
<1>1. reg' = [reg EXCEPT ![r] = v] /\ UNCHANGED <<rom, ram, status, skip>>
  BY DEF chip32_set_register
<1>2. reg'[IP] = reg[IP] /\ reg'[SP] = reg[SP] /\ reg'[r] = v
  BY <1>1 DEF TypeOK, General, IP, SP, Registers
<1>3. Shown(reg') = [Shown(reg) EXCEPT ![r] = v] /\ Shown(reg')[r] = v
  BY <1>1 DEF TypeOK, Shown, General
<1>4. Outcome' = Outcome
  BY <1>1, <1>2 DEF Outcome, StackInPlace
<1>5. Shown(reg)' = Shown(reg')
  BY DEF Shown
<1>6. \E x \in InstructionSet!General :
        Shown(reg)'[x] \in InstructionSet!Word
        /\ Shown(reg)' = [Shown(reg) EXCEPT ![x] = Shown(reg)'[x]]
  BY <1>3, <1>5, SameBase
<1> QED
  BY <1>1, <1>2, <1>4, <1>6 DEF InstructionSet!SetRegister

LEMMA StepShown ==
  ASSUME AluTyped(Word), HostWrites \subseteq General \X Word,
         TypeOK, Fresh, [Next]_vars
  PROVE  [InstructionSet!Next \/ KnownDivergence]_(InstructionSet!isaVars)
<1> SUFFICES InstructionSet!Next \/ KnownDivergence \/ UNCHANGED InstructionSet!isaVars
  OBVIOUS
<1>1. CASE ~StackInPlace /\ ~chip32_initialize
  BY <1>1 DEF InstructionSet!Next, InstructionSet!Outside, Outcome
<1>2. CASE StackInPlace /\ chip32_run
  <2>1. CASE Looping
    BY <1>2, <2>1, RunShown DEF Regular
  <2>2. CASE Pause
    BY <2>2, PauseShown
  <2>3. CASE ~Looping /\ ~Pause
    BY <1>2, <2>3
       DEF chip32_run, SkipIf, Execute, Fetch, Nop, Halt, Syscall, Lcons, Mov, Div, DivByZero,
           OpNot, Compute, Push, Pop, StackRefused, Call, Ret, Jmp, Jr, Store, Load,
           AddressRefused, Skipz, Skipnz, SkipOver, BadAddress, UnknownOpcode, BadRegister,
           WildArgument, WildAccess
  <2> QED
    BY <2>1, <2>2, <2>3
<1>3. ASSUME NEW b \in Budgets, Enter(b) 
      PROVE  KnownDivergence \/ UNCHANGED InstructionSet!isaVars
  BY <1>3, EnterShown DEF KnownDivergence
<1>4. ASSUME NEW w \in HostWrites, chip32_set_register(w[1], w[2]) PROVE InstructionSet!Next
  <2>1. w[1] \in General /\ w[2] \in Word
    OBVIOUS
  <2> QED
    BY <1>4, <2>1, SetRegisterShown DEF InstructionSet!Next
<1>5. CASE chip32_initialize
  BY <1>5, InitializeShown DEF InstructionSet!Next
<1>6. CASE UNCHANGED vars
  BY <1>6 DEF vars, InstructionSet!isaVars, Outcome, StackInPlace, Shown
<1> QED
  BY <1>1, <1>2, <1>3, <1>4, <1>5, <1>6 DEF Next

(* The machine does what chip32.h says of every instruction, or exactly    *)
(* what the list of divergences says: for every program, over pauses and   *)
(* limits, wherever ROM, RAM, heap and stack lie and however large they    *)
(* are, when the host leaves ip and sp alone.                              *)
THEOREM DoesWhatIsaSays ==
  AluTyped(Word) /\ HostWrites \subseteq General \X Word
    => (Spec => InstructionSet!Init /\ ImplementsIsaElsewhere)
<1> SUFFICES ASSUME AluTyped(Word), HostWrites \subseteq General \X Word
             PROVE  Spec => InstructionSet!Init /\ ImplementsIsaElsewhere
  OBVIOUS
<1>1. Init => InstructionSet!Init /\ Fresh
  BY InitShown DEF Init, Fresh
<1>2. Fresh /\ [Next]_vars => Fresh'
  BY NextFresh
<1>3. TypeOK /\ Fresh /\ [Next]_vars
        => [InstructionSet!Next \/ KnownDivergence]_(InstructionSet!isaVars)
  BY StepShown
<1>4. Spec => []TypeOK
  BY TypeCorrect
<1>5. Spec => []Fresh
  BY <1>1, <1>2, PTL DEF Spec
<1> QED
  BY <1>1, <1>3, <1>4, <1>5, PTL DEF Spec, ImplementsIsaElsewhere
=============================================================================
