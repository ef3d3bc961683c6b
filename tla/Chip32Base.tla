----------------------------- MODULE Chip32Base -----------------------------
(***************************************************************************)
(* What the chip32 virtual machine and its instruction set share: bytes,   *)
(* little-endian words, the registers and the names of the instructions.   *)
(* Bytes count modulo ByteMod (256 in the code), words modulo its fourth   *)
(* power; what the arithmetic instructions compute is left to Alu.         *)
(***************************************************************************)
EXTENDS Integers, Sequences

CONSTANTS
  ByteMod,     (* 256                                                       *)
  RomSize,     (* g_rom->size                                               *)
  RamSize,     (* g_ram->size                                               *)
  Alu(_, _, _) (* Alu(op, a, b): what op makes of the words a and b         *)

WordMod == ByteMod * (ByteMod * (ByteMod * ByteMod))
Byte    == 0 .. ByteMod - 1
Word    == 0 .. WordMod - 1

Join(b0, b1, b2, b3) == b0 + ByteMod * (b1 + ByteMod * (b2 + ByteMod * b3))
ByteOf(w, i) == CASE i = 0 -> w % ByteMod
                  [] i = 1 -> (w \div ByteMod) % ByteMod
                  [] i = 2 -> (w \div (ByteMod * ByteMod)) % ByteMod
                  [] i = 3 -> (w \div (ByteMod * (ByteMod * ByteMod))) % ByteMod

(* The word at address a of memory m, and m with the word w written there. *)
WordAt(m, a)       == Join(m[a], m[a + 1], m[a + 2], m[a + 3])
WithWord(m, a, w)  == [i \in DOMAIN m |-> IF i \in a .. a + 3 THEN ByteOf(w, i - a) ELSE m[i]]

Registers == 0 .. 20         \* r0-r5, t0-t9, ip, bp, sp, ra, ov
IP == 16
SP == 18
RA == 19

(* The instructions, in the order of their opcodes.                        *)
Instructions == <<
  "nop", "halt", "syscall", "lcons", "mov", "push", "pop", "call", "ret",
  "store", "load", "add", "sub", "mul", "div", "shl", "shr", "ishr",
  "and", "or", "xor", "not", "jmp", "jr", "skipz", "skipnz" >>

Opcodes == 0 .. 25
Ops     == {Instructions[i] : i \in 1 .. 26}
AluOps  == {"add", "sub", "mul", "shl", "shr", "ishr", "and", "or", "xor"}

(* The bytes that follow the opcode.                                       *)
ArgBytes(op) ==
  CASE op \in {"nop", "halt", "ret"} -> 0
    [] op \in {"syscall", "push", "pop", "not", "jr", "skipz", "skipnz"} -> 1
    [] op \in {"mov", "div", "call", "jmp"} \cup AluOps -> 2
    [] op \in {"store", "load"} -> 3
    [] op = "lcons" -> 5

(* Which of them name a register.                                          *)
RegisterArgs(op) ==
  CASE op \in {"lcons", "push", "pop", "load", "not", "jr", "skipz", "skipnz"} -> {1}
    [] op \in {"mov", "div"} \cup AluOps -> {1, 2}
    [] op = "store" -> {3}
    [] op \in {"nop", "halt", "ret", "syscall", "call", "jmp"} -> {}

(* Sizes are 16 bits wide.                                                 *)
ASSUME Chip32Assumption ==
  /\ ByteMod \in Nat /\ 26 <= ByteMod
  /\ RomSize \in 1 .. ByteMod * ByteMod - 1
  /\ RamSize \in 4 .. ByteMod * ByteMod - 1

(* The results of arithmetic are words: a hypothesis of the theorems, for  *)
(* all words.                                                              *)
AluTyped(words) ==
  \A op \in AluOps \cup {"div", "not"} : \A a, b \in words : Alu(op, a, b) \in Word
=============================================================================
