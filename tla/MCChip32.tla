------------------------------ MODULE MCChip32 ------------------------------
(***************************************************************************)
(* chip32 on bytes of five bits and words of twenty: every program of two  *)
(* instructions from a repertoire, halt after them, those that begin with  *)
(* an instruction that matters for what follows, and a few others.         *)
(***************************************************************************)
EXTENDS Chip32

LOCAL INSTANCE Bitwise
LOCAL INSTANCE SequencesExt

W         == 1048576
Half      == W \div 2

(* a * b modulo W, within the integers TLC has.                            *)
Product(a, b) ==
  (a * (b % 1024) + ((a * (b \div 1024)) % 1024) * 1024) % W

Shifted(a, n) == IF n >= 20 THEN 0 ELSE shiftR(a, n)

MCAlu(op, a, b) ==
  CASE op = "add"  -> (a + b) % W
    [] op = "sub"  -> (a - b) % W
    [] op = "mul"  -> Product(a, b)
    [] op = "div"  -> a \div b
    [] op = "rem"  -> a % b
    [] op = "shl"  -> IF b >= 20 THEN 0 ELSE Product(a, 2 ^ b)
    [] op = "shr"  -> Shifted(a, b)
    [] op = "ishr" -> IF a < Half THEN Shifted(a, b)
                      ELSE W - 1 - Shifted(W - 1 - a, b)
    [] op = "and"  -> a & b
    [] op = "or"   -> a | b
    [] op = "xor"  -> a ^^ b
    [] op = "not"  -> W - 1 - a

Code(op) == (CHOOSE i \in 1 .. 26 : Instructions[i] = op) - 1

(* A word in memory order.                                                 *)
Little(w) == <<w % ByteMod, w \div ByteMod, 0, 0>>

(* The instructions that programs are made of: r0 and r1, two places of the*)
(* heap, targets at and inside instructions and at the end of ROM, and what*)
(* is refused.  None of them counts up: a loop soon repeats itself.        *)
Repertoire ==
  {<<Code(op)>> : op \in {"nop", "ret"}} \cup
  {<<Code(op), 0, 1>> : op \in {"mov", "div", "ishr", "xor"}} \cup
  {<<Code(op), r>> : op \in {"push", "pop", "skipz", "skipnz"}, r \in {0, 1}} \cup
  {<<Code(op), 1>> : op \in {"not", "jr"}} \cup
  {<<Code(op), a, 0>> : op \in {"jmp", "call"}, a \in {0, 5, 15}} \cup
  {<<Code("store"), 4, 0, 1>>, <<Code("load"), 0, 5, 0>>, <<Code("load"), 0, 13, 0>>,
   <<Code("store"), 10, 0, 1>>, <<Code("store"), 13, 0, 1>>} \cup
  {<<Code("lcons"), 1>> \o Little(3), <<Code("lcons"), IP>> \o Little(20),
   <<Code("lcons"), SP>> \o Little(23), <<Code("lcons"), SP>> \o Little(41),
   <<Code("lcons"), 21>> \o Little(3)} \cup
  {<<Code("add"), 0, 0>>, <<Code("syscall"), 7>>, <<Code("mov"), 1, 31>>, <<26>>}

Image(code) == [a \in 0 .. RomSize - 1 |-> IF a < Len(code) THEN code[a + 1] ELSE Code("halt")]

Programs(sequences) ==
  {Image(FlattenSeq(p)) : p \in {q \in sequences : Len(FlattenSeq(q)) <= RomSize}}

Two   == [1 .. 2 -> Repertoire]
Three == {<<first>> \o p : first \in {<<Code("push"), 1>>, <<Code("skipz"), 0>>,
                                     <<Code("lcons"), SP>> \o Little(23)},
                          p \in Two}

(* Three words pushed, and popped again.                                   *)
Deep == Image(<<Code("push"), 1, Code("push"), 16, Code("push"), 1,
                Code("pop"), 0, Code("pop"), 0, Code("pop"), 0, Code("pop"), 0>>)

(* Each of the other arithmetic instructions.                              *)
Arithmetic == {Image(<<Code("not"), 0, Code(op), 0, 1>>) : op \in AluOps}

(* An instruction at the very end of ROM.                                  *)
Edge == {[Image(<<Code("jmp"), 15, 0>>) EXCEPT ![15] = Code(op)] : op \in {"nop", "push", "not"}}

MCRoms == Programs(Two) \cup Programs(Three) \cup {Deep} \cup Arithmetic \cup Edge

MCHostWrites == {<<1, 2>>}
=============================================================================
