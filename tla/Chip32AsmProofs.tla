-------------------------- MODULE Chip32AsmProofs --------------------------
(***************************************************************************)
(* What is proved of the chip32 assembler, for sources of any length made  *)
(* of any lines, and a host that parses and builds in any order:           *)
(*   TypeCorrect, JumpsLandWhereMeant, PatchesOnlyReserved,                *)
(*   ImageIsTheSource,                                                     *)
(* and of the image in the machine of Chip32: AssembledRuns.               *)
(* The inductive invariant IInv says where the lines of the image stand    *)
(* while it is built: the lines emitted so far lie end to end behind what  *)
(* the host's vector held (Lies), each with its bytes and, where it names  *)
(* a place, with that place in m_labels (Stands); those patched so far     *)
(* have the address of their label (PatchStands).  That needs names that   *)
(* are declared once (SourceInv), or a later label would move an earlier.  *)
(*                                                                         *)
(* FlattenSeq joins sequences by a recursive function that it CHOOSEs, and *)
(* a proof by induction on it is out of reach: that the function exists,   *)
(* and what it joins, follow from a least counterexample instead.          *)
(***************************************************************************)
EXTENDS Chip32Asm, SequenceTheorems, WellFoundedInduction, TLAPS

-----------------------------------------------------------------------------
(* Sequences joined by FlattenSeq.                                         *)

(* A set of natural numbers that is not empty has a least element.         *)
LEMMA LeastElement ==
  ASSUME NEW T \in SUBSET Nat, T # {}
  PROVE  \E i \in T : \A j \in T : i <= j
<1>1. PICK i \in T : \A j \in T : ~(<<j, i>> \in OpToRel(<, Nat))
  BY NatLessThanWellFounded, WFMin, Zenon
<1>2. \A j \in T : ~(j < i)
  BY <1>1 DEF OpToRel
<1>3. QED
  BY <1>2

(* f solves the recursion of FlattenSeq for the first n of seqs.           *)
Flattens(seqs, n, f) ==
  f = [i \in 1 .. n |-> IF i = 1 THEN seqs[i] ELSE f[i - 1] \o seqs[i]]

(* It has a solution, whatever is to be joined.                            *)
LEMMA FlattenExists ==
  ASSUME NEW seqs
  PROVE  \A n \in Nat : \E f : Flattens(seqs, n, f)
<1> DEFINE T == {n \in Nat : ~ \E f : Flattens(seqs, n, f)}
<1>1. SUFFICES ASSUME T # {} PROVE FALSE
  OBVIOUS
<1>2. PICK n \in T : \A j \in T : n <= j
  <2>1. T \in SUBSET Nat
    OBVIOUS
  <2> HIDE DEF T
  <2> QED BY <1>1, <2>1, LeastElement
<1>3. n \in Nat /\ ~ \E f : Flattens(seqs, n, f)
  BY <1>2
<1>4. n # 0
  <2>1. \A g, h : [i \in 1 .. 0 |-> g[i]] = [i \in 1 .. 0 |-> h[i]]
    OBVIOUS
  <2> DEFINE e == [i \in 1 .. 0 |-> seqs[i]]
             h == [i \in {} |-> IF i = 1 THEN seqs[i] ELSE e[i - 1] \o seqs[i]]
  <2>2. e = [i \in 1 .. 0 |-> h[i]]
    BY <2>1
  <2>3. Flattens(seqs, 0, e)
    BY <2>2 DEF Flattens
  <2> QED BY <1>3, <2>3
<1>5. PICK f : Flattens(seqs, n - 1, f)
  <2>1. n - 1 \in Nat /\ n - 1 \notin T
    BY <1>2, <1>3, <1>4
  <2> QED BY <2>1
<1> DEFINE g == [i \in 1 .. n |-> IF i = n
                   THEN IF i = 1 THEN seqs[i] ELSE f[i - 1] \o seqs[i] ELSE f[i]]
<1>6. ASSUME NEW i \in 1 .. n
      PROVE  g[i] = IF i = 1 THEN seqs[i] ELSE g[i - 1] \o seqs[i]
  <2>1. CASE i = n
    <3>1. i # 1 => g[i - 1] = f[i - 1]
      BY <1>3, <2>1
    <3> QED BY <2>1, <3>1
  <2>2. CASE i # n
    <3>1. i \in 1 .. n - 1
      BY <1>3, <2>2
    <3>2. f[i] = IF i = 1 THEN seqs[i] ELSE f[i - 1] \o seqs[i]
      BY <1>5, <3>1 DEF Flattens
    <3>3. g[i] = f[i] /\ (i # 1 => g[i - 1] = f[i - 1])
      BY <1>3, <2>2
    <3> HIDE DEF g
    <3> QED BY <3>2, <3>3
  <2> QED BY <2>1, <2>2
<1>7. Flattens(seqs, n, g)
  <2>1. g = [i \in 1 .. n |-> g[i]]
    OBVIOUS
  <2> HIDE DEF g
  <2> QED BY <1>6, <2>1 DEF Flattens
<1> QED BY <1>3, <1>7

(* FlattenSeq returns the last value of that solution.                     *)
LEMMA FlattenUnfold ==
  ASSUME NEW seqs, Len(seqs) \in Nat \ {0}
  PROVE  \E f : Flattens(seqs, Len(seqs), f) /\ FlattenSeq(seqs) = f[Len(seqs)]
<1> DEFINE n == Len(seqs)
           flat == CHOOSE f : Flattens(seqs, n, f)
<1>1. Flattens(seqs, n, flat)
  <2>1. \E f : Flattens(seqs, n, f)
    BY FlattenExists
  <2> QED BY <2>1, Zenon
<1>2. FlattenSeq(seqs) = flat[n]
  BY Zenon DEF FlattenSeq, Flattens
<1> QED BY <1>1, <1>2

(* It joins sequences over a set into one over that set.                   *)
LEMMA FlattenType ==
  ASSUME NEW S, NEW n \in Nat, NEW seqs \in [1 .. n -> Seq(S)]
  PROVE  FlattenSeq(seqs) \in Seq(S)
<1>0. Len(seqs) = n /\ seqs \in Seq(Seq(S))
  OBVIOUS
<1>1. CASE n = 0
  <2>1. seqs \in [1 .. 0 -> S]
    BY <1>1
  <2> QED BY <1>0, <1>1, <2>1 DEF FlattenSeq
<1>2. CASE n # 0
  <2>1. PICK f : Flattens(seqs, n, f) /\ FlattenSeq(seqs) = f[n]
    BY <1>0, <1>2, FlattenUnfold
  <2> DEFINE T == {i \in 1 .. n : f[i] \notin Seq(S)}
  <2>2. \A i \in 1 .. n : f[i] = IF i = 1 THEN seqs[i] ELSE f[i - 1] \o seqs[i]
    BY <2>1 DEF Flattens
  <2>3. T = {}
    <3> SUFFICES ASSUME T # {} PROVE FALSE
      OBVIOUS
    <3>1. PICK k \in T : \A j \in T : k <= j
      <4>1. T \in SUBSET Nat
        OBVIOUS
      <4> HIDE DEF T
      <4> QED BY <4>1, LeastElement
    <3>2. k \in 1 .. n /\ k # 1 /\ f[k] \notin Seq(S)
      BY <2>2, <3>1
    <3>3. f[k - 1] \in Seq(S)
      BY <3>1, <3>2
    <3>4. f[k - 1] \o seqs[k] \in Seq(S)
      BY <3>2, <3>3, ConcatProperties
    <3> QED BY <2>2, <3>2, <3>4
  <2> QED BY <1>2, <2>1, <2>3
<1> QED BY <1>1, <1>2

(* Of a sequence of one sequence it makes that one.                        *)
LEMMA FlattenOne ==
  ASSUME NEW seqs, Len(seqs) = 1
  PROVE  FlattenSeq(seqs) = seqs[1]
<1>0. Len(seqs) \in Nat \ {0}
  OBVIOUS
<1>1. PICK f : Flattens(seqs, Len(seqs), f) /\ FlattenSeq(seqs) = f[Len(seqs)]
  BY <1>0, FlattenUnfold
<1>2. f[1] = seqs[1]
  BY <1>1 DEF Flattens
<1> QED BY <1>1, <1>2
-----------------------------------------------------------------------------
(* Bytes.                                                                  *)

(* A byte holds a register, and an address two bytes.                      *)
LEMMA ByteModPositive == /\ ByteMod \in Nat /\ 26 <= ByteMod
                         /\ ByteMod * ByteMod \in Nat
                         /\ ByteMod <= ByteMod * ByteMod
                         /\ AddrMod \in Nat \ {0}
                         /\ AddrMod <= ByteMod * ByteMod
<1>1. ByteMod \in Nat /\ 26 <= ByteMod
  BY AsmAssumption
<1>2. ByteMod * ByteMod \in Nat /\ ByteMod <= ByteMod * ByteMod
  BY <1>1
<1> QED
  BY <1>1, <1>2, AsmAssumption

(* Division by positive numbers.                                           *)
LEMMA Division ==
  ASSUME NEW m \in Nat, NEW d \in Nat \ {0}
  PROVE  m \div d \in Nat /\ m % d \in 0 .. d - 1 /\ m = d * (m \div d) + (m % d)
OBVIOUS

(* Quotient and remainder are the only ones of their kind.                 *)
LEMMA DivisionUnique ==
  ASSUME NEW d \in Nat \ {0}, NEW q \in Nat, NEW r \in 0 .. d - 1,
         NEW m, m = d * q + r
  PROVE  m \div d = q /\ m % d = r
<1> DEFINE p == m \div d
           s == m % d
<1>1. d * q \in Nat /\ m \in Nat
  OBVIOUS
<1>2. p \in Nat /\ s \in 0 .. d - 1 /\ d * q + r = d * p + s
  BY <1>1, Division
<1> HIDE DEF p, s
<1>3. ~ p < q
  <2> SUFFICES ASSUME p + 1 <= q PROVE FALSE
    BY <1>2
  <2>1. d * (p + 1) <= d * q
    BY <1>2
  <2>2. d * (p + 1) = d * p + d
    BY <1>2
  <2> QED
    BY <1>1, <1>2, <2>1, <2>2
<1>4. ~ q < p
  <2> SUFFICES ASSUME q + 1 <= p PROVE FALSE
    BY <1>2
  <2>1. d * (q + 1) <= d * p
    BY <1>2
  <2>2. d * (q + 1) = d * q + d
    BY <1>2
  <2> QED
    BY <1>1, <1>2, <2>1, <2>2
<1>5. p = q
  BY <1>2, <1>3, <1>4
<1> QED
  BY <1>1, <1>2, <1>5 DEF p, s

(* A sum multiplied out.                                                   *)
LEMMA Expand ==
  ASSUME NEW b \in Nat, NEW c \in Nat, NEW q \in Nat, NEW t \in Nat
  PROVE  b * (c * q + t) = (b * c) * q + b * t
<1>1. b * (c * q + t) = b * (c * q) + b * t
  OBVIOUS
<1>2. b * (c * q) = (b * c) * q
  OBVIOUS
<1> QED
  BY <1>1, <1>2

(* Multiplication keeps the order.                                         *)
LEMMA Bigger ==
  ASSUME NEW b \in Nat, NEW c \in Nat, NEW d \in Nat, c <= d
  PROVE  b * c \in Nat /\ b * d \in Nat /\ b * c <= b * d
OBVIOUS

(* The two lowest digits make the remainder by the square of the base.     *)
LEMMA TwoDigits ==
  ASSUME NEW w \in Nat, NEW B \in Nat \ {0}
  PROVE  /\ B * B \in Nat \ {0}
         /\ w % (B * B) = (w % B) + B * ((w \div B) % B)
         /\ w \div (B * B) = (w \div B) \div B
<1> DEFINE p == w \div B
           q == p \div B
           s == w % B
           t == p % B
<1>1. p \in Nat /\ s \in 0 .. B - 1 /\ w = B * p + s
  BY Division
<1>2. q \in Nat /\ t \in 0 .. B - 1 /\ p = B * q + t
  BY <1>1, Division
<1> HIDE DEF p, q, s, t
<1>3. B * p = (B * B) * q + B * t
  BY <1>1, <1>2, Expand
<1>4. B * B \in Nat \ {0} /\ B * t \in Nat /\ (B * B) * q \in Nat
  BY <1>2
<1>5. B * t <= B * (B - 1) /\ B * (B - 1) = B * B - B
  BY <1>2
<1>6. s + B * t \in 0 .. (B * B) - 1
  BY <1>1, <1>4, <1>5
<1>7. w = (B * B) * q + (s + B * t)
  BY <1>1, <1>3, <1>4
<1>8. w \div (B * B) = q /\ w % (B * B) = s + B * t
  <2> DEFINE C == B * B
             r == s + B * t
  <2>1. C \in Nat \ {0} /\ r \in 0 .. C - 1 /\ w = C * q + r
    BY <1>4, <1>6, <1>7
  <2> HIDE DEF C, r
  <2>2. w \div C = q /\ w % C = r
    BY <1>2, <2>1, DivisionUnique
  <2> QED
    BY <2>2 DEF C, r
<1> QED
  BY <1>4, <1>8 DEF p, q, s, t

(* Each of the four bytes of a word is a byte.                             *)
LEMMA ByteOfTyped ==
  ASSUME NEW w \in Nat, NEW i \in 0 .. 3
  PROVE  Machine!ByteOf(w, i) \in Byte
<1> DEFINE B == ByteMod
<1>1. B \in Nat \ {0} /\ B * B \in Nat \ {0} /\ B * (B * B) \in Nat \ {0}
  BY ByteModPositive
<1>2. \A m \in Nat : m % B \in Byte
  BY <1>1 DEF Byte
<1>3. \A d \in Nat \ {0} : w \div d \in Nat
  OBVIOUS
<1>4. CASE i = 0
  BY <1>2, <1>4 DEF Machine!ByteOf
<1>5. CASE i = 1
  BY <1>1, <1>2, <1>3, <1>5 DEF Machine!ByteOf
<1>6. CASE i = 2
  BY <1>1, <1>2, <1>3, <1>6 DEF Machine!ByteOf
<1>7. CASE i = 3
  BY <1>1, <1>2, <1>3, <1>7 DEF Machine!ByteOf
<1> QED
  BY <1>4, <1>5, <1>6, <1>7

(* Little() returns so many bytes, the lowest first, ...                   *)
LEMMA LittleTyped ==
  ASSUME NEW w \in Nat, NEW n \in 0 .. 4
  PROVE  /\ Little(w, n) \in [1 .. n -> Byte]
         /\ Little(w, n) \in Seq(Byte) /\ Len(Little(w, n)) = n
         /\ \A i \in 1 .. n : Little(w, n)[i] = Machine!ByteOf(w, i - 1)
<1>1. \A i \in 1 .. n : i - 1 \in 0 .. 3
  OBVIOUS
<1>2. Little(w, n) \in [1 .. n -> Byte]
  BY <1>1, ByteOfTyped DEF Little
<1>3. Little(w, n) \in Seq(Byte) /\ Len(Little(w, n)) = n
  BY <1>2
<1>4. \A i \in 1 .. n : Little(w, n)[i] = Machine!ByteOf(w, i - 1)
  BY DEF Little
<1> QED
  BY <1>2, <1>3, <1>4

(* ... said for the sizes that are used.                                   *)
LEMMA LittleSizes ==
  ASSUME NEW w \in Nat
  PROVE  /\ Little(w, 1) \in Seq(Byte) /\ Len(Little(w, 1)) = 1
         /\ Little(w, 1)[1] = Machine!ByteOf(w, 0)
         /\ Little(w, 2) \in Seq(Byte) /\ Len(Little(w, 2)) = 2
         /\ Little(w, 2)[1] = Machine!ByteOf(w, 0) /\ Little(w, 2)[2] = Machine!ByteOf(w, 1)
         /\ Little(w, 4) \in Seq(Byte) /\ Len(Little(w, 4)) = 4
         /\ Little(w, 4)[1] = Machine!ByteOf(w, 0) /\ Little(w, 4)[2] = Machine!ByteOf(w, 1)
         /\ Little(w, 4)[3] = Machine!ByteOf(w, 2) /\ Little(w, 4)[4] = Machine!ByteOf(w, 3)
<1>1. 1 \in 0 .. 4 /\ 2 \in 0 .. 4 /\ 4 \in 0 .. 4
  OBVIOUS
<1>2. /\ Little(w, 1) \in Seq(Byte) /\ Len(Little(w, 1)) = 1
      /\ Little(w, 2) \in Seq(Byte) /\ Len(Little(w, 2)) = 2
      /\ Little(w, 4) \in Seq(Byte) /\ Len(Little(w, 4)) = 4
  BY <1>1, LittleTyped, Zenon
<1>3. \A n \in {1, 2, 4} : \A i \in 1 .. n : Little(w, n)[i] = Machine!ByteOf(w, i - 1)
  BY DEF Little
<1> QED
  BY <1>2, <1>3

(* What the machine reads of the bytes of a number: two of them make it    *)
(* but for what exceeds 16 bits, four make a word.                         *)
LEMMA TwoBytes ==
  ASSUME NEW w \in Nat
  PROVE  Machine!ByteOf(w, 0) + ByteMod * Machine!ByteOf(w, 1) = w % (ByteMod * ByteMod)
<1>1. Machine!ByteOf(w, 0) = w % ByteMod
  BY DEF Machine!ByteOf
<1>2. Machine!ByteOf(w, 1) = (w \div ByteMod) % ByteMod
  BY DEF Machine!ByteOf
<1> QED
  BY <1>1, <1>2, TwoDigits, ByteModPositive

(* Four bytes of a word, read back.                                        *)
LEMMA FourBytes ==
  ASSUME NEW w \in Machine!Word
  PROVE  (Machine!ByteOf(w, 0) + ByteMod * Machine!ByteOf(w, 1))
           + ByteMod * ByteMod * (Machine!ByteOf(w, 2) + ByteMod * Machine!ByteOf(w, 3)) = w
<1> DEFINE B == ByteMod
           C == B * B
           h == w \div C
<1>1. B \in Nat \ {0} /\ C \in Nat \ {0}
  BY ByteModPositive
<1>2. w \in Nat /\ w < C * C
  <2> DEFINE M == B * (B * (B * B))
  <2>1. M \in Nat /\ M = C * C
    BY <1>1
  <2>2. w \in 0 .. M - 1
    BY DEF Machine!Word, Machine!WordMod
  <2> QED
    BY <2>1, <2>2
<1>3. h \in Nat /\ w % C \in 0 .. C - 1 /\ w = C * h + (w % C)
  BY <1>1, <1>2, Division
<1>4. h < C
  <2> HIDE DEF C, h
  <2> SUFFICES ASSUME C <= h PROVE FALSE
    BY <1>1, <1>3
  <2>1. C * C \in Nat /\ C * h \in Nat /\ C * C <= C * h
    BY <1>1, <1>3, Bigger
  <2> QED
    BY <1>2, <1>3, <2>1
<1>5. h % C = h
  <2> HIDE DEF C, h
  <2>1. h = C * 0 + h /\ h \in 0 .. C - 1 /\ 0 \in Nat
    BY <1>1, <1>3, <1>4
  <2> QED
    BY <1>1, <2>1, DivisionUnique
<1>6. Machine!ByteOf(w, 2) = h % B
  BY DEF Machine!ByteOf
<1>7. Machine!ByteOf(w, 3) = (h \div B) % B
  <2>1. w \div (B * (B * B)) = h \div B
    <3> DEFINE k == h \div B
               s == h % B
    <3>1. k \in Nat /\ s \in 0 .. B - 1 /\ h = B * k + s
      BY <1>1, <1>3, Division
    <3> HIDE DEF C, h, k, s
    <3>2. C * h = (C * B) * k + C * s
      BY <1>1, <3>1, Expand
    <3>3. C * s <= C * (B - 1) /\ C * (B - 1) = C * B - C /\ C * s \in Nat
      BY <1>1, <3>1
    <3>4. C * B \in Nat \ {0} /\ (C * B) * k \in Nat
      BY <1>1, <3>1
    <3>5. C * s + (w % C) \in 0 .. (C * B) - 1
      BY <1>1, <1>3, <3>3, <3>4
    <3>6. w = (C * B) * k + (C * s + (w % C))
      BY <1>3, <3>2, <3>3, <3>4
    <3>7. w \div (C * B) = k
      BY <3>1, <3>4, <3>5, <3>6, DivisionUnique
    <3>8. C * B = B * (B * B)
      BY <1>1 DEF C
    <3> QED
      BY <3>7, <3>8 DEF k
  <2> QED
    BY <2>1 DEF Machine!ByteOf
<1>8. (h % B) + B * ((h \div B) % B) = h
  BY <1>1, <1>3, <1>5, TwoDigits
<1>9. Machine!ByteOf(w, 0) + B * Machine!ByteOf(w, 1) = w % C
  BY <1>2, TwoBytes
<1> HIDE DEF C, h
<1>10. Machine!ByteOf(w, 2) + B * Machine!ByteOf(w, 3) = h
  BY <1>6, <1>7, <1>8
<1>11. (w % C) + C * h = w
  BY <1>1, <1>3
<1> QED
  BY <1>9, <1>10, <1>11 DEF C

-----------------------------------------------------------------------------
(* The arguments of a mnemonic, compiled and read back.                    *)

(* A mnemonic has an opcode, and the machine knows it.                     *)
LEMMA OpcodeInRange ==
  ASSUME NEW word, IsOpCode(word)
  PROVE  OpcodeOf(word) \in 0 .. 25 /\ OpcodeOf(word) \in Byte /\ Op(word) \in Machine!Ops
<1>1. (CHOOSE i \in 1 .. 26 : Mnemonics[i] = word) \in 1 .. 26
  BY Zenon DEF IsOpCode
<1>2. OpcodeOf(word) \in 0 .. 25
  BY <1>1 DEF OpcodeOf
<1>3. OpcodeOf(word) + 1 \in 1 .. 26
  BY <1>2
<1>4. Op(word) \in Machine!Ops
  BY <1>3, Zenon DEF Op, Machine!Ops
<1> QED
  BY <1>2, <1>4, ByteModPositive DEF Byte

(* The forms of an instruction.                                            *)
Nullary == {"nop", "halt", "ret"}
Unary   == {"push", "pop", "skipz", "skipnz"}
Binary  == {"mov", "div"} \cup Machine!AluOps

(* Every instruction has one of three forms.                               *)
LEMMA OpForms ==
  ASSUME NEW op \in Machine!Ops
  PROVE  \/ op \in Nullary \cup Unary \cup Binary
         \/ op \in {"lcons", "load", "store", "syscall", "not"}
         \/ op \in {"jmp", "call", "jr"}
<1>1. op \in {"nop", "halt", "syscall", "lcons", "mov", "push", "pop", "call", "ret",
         "store", "load", "add", "sub", "mul", "div", "shl", "shr", "ishr",
         "and", "or", "xor", "not", "jmp", "jr", "skipz", "skipnz"}
  BY DEF Machine!Ops, Machine!Instructions
<1> QED
  BY <1>1 DEF Nullary, Unary, Binary, Machine!AluOps

(* Registers and zeros are bytes.                                          *)
LEMMA RegistersAreBytes == Registers \subseteq Byte /\ 0 \in Byte
BY ByteModPositive DEF Registers, Byte

(* The bytes of each form, those of not and jr being one more than what the*)
(* machine reads.                                                          *)
Extra(op) == IF op \in {"not", "jr"} THEN 1 ELSE 0

(* Registers are compiled to themselves.                                   *)
LEMMA PlainOps ==
  ASSUME NEW op \in Nullary \cup Unary \cup Binary
  PROVE  /\ Machine!ArgBytes(op) \in 0 .. 2 /\ Extra(op) = 0 /\ ~ TakesLabel(op)
         /\ \A args : HasOperands(op, args) <=> args \in [1 .. Machine!ArgBytes(op) -> Registers]
         /\ \A args : CompileMnemonicArguments(op, args) = {args}
         /\ \A args : Meant(op, args) = args
<1>1. /\ op \notin {"lcons", "load", "store", "syscall", "not"}
      /\ op \notin {"jmp", "call", "jr"}
  BY DEF Nullary, Unary, Binary, Machine!AluOps
<1>2. Machine!ArgBytes(op) \in 0 .. 2
  <2>1. CASE op \in Nullary
    BY <2>1 DEF Nullary, Machine!ArgBytes
  <2>2. CASE op \in Unary
    BY <2>2 DEF Unary, Machine!ArgBytes
  <2>3. CASE op \in Binary
    BY <2>3 DEF Binary, Machine!AluOps, Machine!ArgBytes
  <2> QED
    BY <2>1, <2>2, <2>3
<1>3. ~ TakesLabel(op) /\ Extra(op) = 0
  BY <1>1 DEF TakesLabel, Extra
<1>4. \A args : HasOperands(op, args) <=> args \in [1 .. Machine!ArgBytes(op) -> Registers]
  BY <1>1, <1>3 DEF HasOperands
<1>5. \A args : CompileMnemonicArguments(op, args) = {args}
  BY <1>1, <1>3 DEF CompileMnemonicArguments
<1>6. \A args : Meant(op, args) = args
  BY <1>1 DEF Meant
<1> QED
  BY <1>2, <1>3, <1>4, <1>5, <1>6

(* How many bytes the others take.                                         *)
LEMMA SpecialOps ==
  /\ Machine!ArgBytes("lcons") = 5 /\ Extra("lcons") = 0 /\ ~ TakesLabel("lcons")
  /\ Machine!ArgBytes("load") = 3 /\ Extra("load") = 0 /\ ~ TakesLabel("load")
  /\ Machine!ArgBytes("store") = 3 /\ Extra("store") = 0 /\ ~ TakesLabel("store")
  /\ Machine!ArgBytes("syscall") = 1 /\ Extra("syscall") = 0 /\ ~ TakesLabel("syscall")
  /\ Machine!ArgBytes("not") = 1 /\ Extra("not") = 1 /\ ~ TakesLabel("not")
  /\ Machine!ArgBytes("jmp") = 2 /\ Extra("jmp") = 0 /\ TakesLabel("jmp")
  /\ Machine!ArgBytes("call") = 2 /\ Extra("call") = 0 /\ TakesLabel("call")
  /\ Machine!ArgBytes("jr") = 1 /\ Extra("jr") = 1 /\ TakesLabel("jr")
BY DEF Machine!ArgBytes, Machine!AluOps, Extra, TakesLabel

(* What they are given, ...                                                *)
LEMMA SpecialOperands ==
  ASSUME NEW args
  PROVE  /\ HasOperands("lcons", args) => args[1] \in Registers /\ args[2] \in Machine!Word
                                          /\ args = <<args[1], args[2]>>
         /\ HasOperands("load", args) => args[1] \in Registers /\ args[2] \in Machine!Word
         /\ HasOperands("store", args) => args[1] \in Machine!Word /\ args[2] \in Registers
         /\ HasOperands("syscall", args) => args[1] \in Machine!Word
         /\ HasOperands("not", args) => args[1] \in Registers
BY SpecialOps DEF HasOperands

(* ... and what they are compiled to.                                      *)
LEMMA SpecialBytes ==
  ASSUME NEW args
  PROVE  /\ CompileMnemonicArguments("lcons", args) = {<<args[1]>> \o Little(args[2], 4)}
         /\ CompileMnemonicArguments("load", args) = {<<args[1]>> \o Little(args[2], 2)}
         /\ CompileMnemonicArguments("store", args) = {Little(args[1], 2) \o <<args[2]>>}
         /\ CompileMnemonicArguments("syscall", args) = {Little(args[1], 1)}
         /\ CompileMnemonicArguments("not", args) = {<<args[1], r>> : r \in Junk \cap Registers}
         /\ \A op \in {"jmp", "call", "jr"} : CompileMnemonicArguments(op, args) = {<<0, 0>>}
BY DEF CompileMnemonicArguments, TakesLabel

(* One byte before or behind others.                                       *)
LEMMA OneMore ==
  ASSUME NEW b \in Byte, NEW s \in Seq(Byte)
  PROVE  /\ <<b>> \o s \in Seq(Byte) /\ Len(<<b>> \o s) = Len(s) + 1
         /\ s \o <<b>> \in Seq(Byte) /\ Len(s \o <<b>>) = Len(s) + 1
         /\ (<<b>> \o s)[1] = b /\ (s \o <<b>>)[Len(s) + 1] = b
         /\ \A i \in 1 .. Len(s) : (<<b>> \o s)[i + 1] = s[i] /\ (s \o <<b>>)[i] = s[i]
OBVIOUS

(* The same with a number of two bytes, ...                                *)
LEMMA BesideTwo ==
  ASSUME NEW b \in Byte, NEW s \in Seq(Byte), Len(s) = 2
  PROVE  /\ Len(<<b>> \o s) = 3 /\ (<<b>> \o s)[1] = b
         /\ (<<b>> \o s)[2] = s[1] /\ (<<b>> \o s)[3] = s[2]
         /\ Len(s \o <<b>>) = 3 /\ (s \o <<b>>)[1] = s[1]
         /\ (s \o <<b>>)[2] = s[2] /\ (s \o <<b>>)[3] = b
<1> DEFINE t == <<b>> \o s
           u == s \o <<b>>
<1>1. /\ Len(t) = Len(s) + 1 /\ Len(u) = Len(s) + 1
      /\ t[1] = b /\ u[Len(s) + 1] = b
      /\ \A i \in 1 .. Len(s) : t[i + 1] = s[i] /\ u[i] = s[i]
  BY OneMore, ZenonT(40)
<1> HIDE DEF t, u
<1>2. /\ Len(t) = 3 /\ t[1] = b /\ t[2] = s[1] /\ t[3] = s[2]
      /\ Len(u) = 3 /\ u[1] = s[1] /\ u[2] = s[2] /\ u[3] = b
  BY <1>1
<1> QED
  BY <1>2 DEF t, u

(* ... and with one of four.                                               *)
LEMMA BeforeFour ==
  ASSUME NEW b \in Byte, NEW s \in Seq(Byte), Len(s) = 4
  PROVE  /\ Len(<<b>> \o s) = 5 /\ (<<b>> \o s)[1] = b
         /\ (<<b>> \o s)[2] = s[1] /\ (<<b>> \o s)[3] = s[2]
         /\ (<<b>> \o s)[4] = s[3] /\ (<<b>> \o s)[5] = s[4]
<1> DEFINE t == <<b>> \o s
<1>1. /\ Len(t) = Len(s) + 1 /\ t[1] = b
      /\ \A i \in 1 .. Len(s) : t[i + 1] = s[i]
  BY OneMore, ZenonT(40)
<1> HIDE DEF t
<1>2. /\ Len(t) = 5 /\ t[1] = b /\ t[2] = s[1] /\ t[3] = s[2]
      /\ t[4] = s[3] /\ t[5] = s[4]
  BY <1>1
<1> QED
  BY <1>2 DEF t

(* A mnemonic is compiled to as many bytes as its form says.               *)
LEMMA MnemonicBytes ==
  ASSUME NEW op \in Machine!Ops, NEW args, HasOperands(op, args),
         NEW bytes \in CompileMnemonicArguments(op, args)
  PROVE  /\ bytes \in Seq(Byte)
         /\ Len(bytes) = Machine!ArgBytes(op) + Extra(op)
         /\ TakesLabel(op) => Len(bytes) = 2
<1> USE RegistersAreBytes
<1>1. Machine!Word \subseteq Nat
  BY DEF Machine!Word
<1>2. CASE op \in Nullary \cup Unary \cup Binary
  <2>1. bytes = args
    BY <1>2, PlainOps
  <2>2. args \in [1 .. Machine!ArgBytes(op) -> Byte] /\ Machine!ArgBytes(op) \in Nat
    BY <1>2, PlainOps
  <2>3. args \in Seq(Byte) /\ Len(args) = Machine!ArgBytes(op)
    BY <2>2
  <2> QED
    BY <1>2, <2>1, <2>3, PlainOps
<1>3. CASE op = "lcons"
  <2>1. args[1] \in Byte /\ args[2] \in Nat
    BY <1>1, <1>3, SpecialOperands
  <2>2. Little(args[2], 4) \in Seq(Byte) /\ Len(Little(args[2], 4)) = 4
    BY <2>1, LittleSizes, Zenon
  <2>3. CompileMnemonicArguments(op, args) = {<<args[1]>> \o Little(args[2], 4)}
    BY <1>3, SpecialBytes, Zenon
  <2>4. bytes = <<args[1]>> \o Little(args[2], 4)
    BY <2>3
  <2>5. Machine!ArgBytes(op) = 5 /\ Extra(op) = 0 /\ ~ TakesLabel(op)
    BY <1>3, SpecialOps, Zenon
  <2> DEFINE l == Little(args[2], 4)
  <2>6. bytes \in Seq(Byte) /\ Len(bytes) = 5
    <3>1. args[1] \in Byte /\ l \in Seq(Byte) /\ Len(l) = 4 /\ bytes = <<args[1]>> \o l
      BY <2>1, <2>2, <2>4
    <3> HIDE DEF l
    <3>2. <<args[1]>> \o l \in Seq(Byte) /\ Len(<<args[1]>> \o l) = Len(l) + 1
      BY <3>1, OneMore, Zenon
    <3> QED
      BY <3>1, <3>2
  <2> QED
    BY <2>5, <2>6
<1>4. CASE op = "load"
  <2>1. args[1] \in Byte /\ args[2] \in Nat
    BY <1>1, <1>4, SpecialOperands
  <2>2. Little(args[2], 2) \in Seq(Byte) /\ Len(Little(args[2], 2)) = 2
    BY <2>1, LittleSizes, Zenon
  <2>3. bytes = <<args[1]>> \o Little(args[2], 2)
    BY <1>4, SpecialBytes, Zenon
  <2> QED
    BY <1>4, <2>1, <2>2, <2>3, OneMore, SpecialOps
<1>5. CASE op = "store"
  <2>1. args[2] \in Byte /\ args[1] \in Nat
    BY <1>1, <1>5, SpecialOperands
  <2>2. Little(args[1], 2) \in Seq(Byte) /\ Len(Little(args[1], 2)) = 2
    BY <2>1, LittleSizes, Zenon
  <2>3. bytes = Little(args[1], 2) \o <<args[2]>>
    BY <1>5, SpecialBytes, Zenon
  <2> QED
    BY <1>5, <2>1, <2>2, <2>3, OneMore, SpecialOps
<1>6. CASE op = "syscall"
  <2>1. args[1] \in Nat
    BY <1>1, <1>6, SpecialOperands
  <2>2. Little(args[1], 1) \in Seq(Byte) /\ Len(Little(args[1], 1)) = 1
    BY <2>1, LittleSizes, Zenon
  <2>3. bytes = Little(args[1], 1)
    BY <1>6, SpecialBytes, Zenon
  <2>4. Machine!ArgBytes(op) = 1 /\ Extra(op) = 0 /\ ~ TakesLabel(op)
    BY <1>6, SpecialOps, Zenon
  <2> QED
    BY <2>2, <2>3, <2>4
<1>7. CASE op = "not"
  <2>0. bytes \in {<<args[1], r>> : r \in Junk \cap Registers}
    BY <1>7, SpecialBytes, Zenon
  <2>1. PICK r \in Registers : bytes = <<args[1], r>>
    BY <2>0
  <2>2. args[1] \in Byte /\ r \in Byte
    BY <1>7, SpecialOperands
  <2>3. bytes \in Seq(Byte) /\ Len(bytes) = 2
    BY <2>1, <2>2
  <2> QED
    BY <1>7, <2>3, SpecialOps
<1>8. CASE op \in {"jmp", "call", "jr"}
  <2>0. CompileMnemonicArguments(op, args) = {<<0, 0>>}
    BY <1>8, SpecialBytes
  <2>1. bytes = <<0, 0>>
    BY <2>0
  <2>2. bytes \in Seq(Byte) /\ Len(bytes) = 2
    BY <2>1
  <2>3. Machine!ArgBytes(op) + Extra(op) = 2
    BY <1>8, SpecialOps
  <2> QED
    BY <2>2, <2>3
<1> QED
  BY <1>2, <1>3, <1>4, <1>5, <1>6, <1>7, <1>8, OpForms

(* What the machine reads, form by form.                                   *)
LEMMA OperandForms ==
  ASSUME NEW a \in Nat
  PROVE  /\ Operands("lcons", a) =
              <<At(a), Short(a + 1) + ByteMod * ByteMod * Short(a + 3)>>
         /\ Operands("load", a) = <<At(a), Short(a + 1)>>
         /\ Operands("store", a) = <<Short(a), At(a + 2)>>
         /\ \A op : op \notin {"lcons", "load", "store"} =>
              Operands(op, a) = [k \in 1 .. Machine!ArgBytes(op) |-> At(a + k - 1)]
BY DEF Operands

(* Where the bytes of an instruction stand behind its opcode, the machine  *)
(* reads the operands that were meant.                                     *)
LEMMA OperandsRead ==
  ASSUME NEW op \in Machine!Ops, NEW args, HasOperands(op, args),
         ~ TakesLabel(op), op # "not",
         NEW bytes \in CompileMnemonicArguments(op, args), NEW a \in Nat,
         \A i \in 1 .. Len(bytes) : program[a + 1 + i] = bytes[i]
  PROVE  Operands(op, a + 1) = Meant(op, args)
<1> USE RegistersAreBytes
<1>1. Machine!Word \subseteq Nat /\ a + 1 \in Nat
  BY DEF Machine!Word
<1>2. CASE op \in Nullary \cup Unary \cup Binary
  <2> DEFINE n == Machine!ArgBytes(op)
  <2>1. bytes = args /\ n \in Nat /\ args \in [1 .. n -> Registers] /\ Meant(op, args) = args
    BY <1>2, PlainOps
  <2>2. op \notin {"lcons", "load", "store"}
    BY <1>2 DEF Nullary, Unary, Binary, Machine!AluOps
  <2>3. Operands(op, a + 1) = [k \in 1 .. n |-> At(a + 1 + k - 1)]
    BY <1>1, <2>2, OperandForms
  <2> HIDE DEF n
  <2>4. Len(bytes) = n
    BY <2>1
  <2>5. \A k \in 1 .. n : At(a + 1 + k - 1) = args[k]
    BY <2>1, <2>4 DEF At
  <2> QED
    BY <2>1, <2>3, <2>5
<1>3. CASE op = "lcons"
  <2>1. args[1] \in Byte /\ args[2] \in Machine!Word /\ args = <<args[1], args[2]>>
    BY <1>3, SpecialOperands
  <2>2. CompileMnemonicArguments(op, args) = {<<args[1]>> \o Little(args[2], 4)}
    BY <1>3, SpecialBytes, Zenon
  <2> DEFINE l == Little(args[2], 4)
             b(i) == Machine!ByteOf(args[2], i)
  <2>3. /\ l \in Seq(Byte) /\ Len(l) = 4
        /\ l[1] = b(0) /\ l[2] = b(1) /\ l[3] = b(2) /\ l[4] = b(3)
    BY <1>1, <2>1, LittleSizes
  <2>4. bytes = <<args[1]>> \o l
    BY <2>2
  <2>5. (b(0) + ByteMod * b(1)) + ByteMod * ByteMod * (b(2) + ByteMod * b(3)) = args[2]
    BY <2>1, FourBytes
  <2> HIDE DEF l, b
  <2>6. /\ Len(bytes) = 5 /\ bytes[1] = args[1] /\ bytes[2] = b(0)
        /\ bytes[3] = b(1) /\ bytes[4] = b(2) /\ bytes[5] = b(3)
    BY <2>1, <2>3, <2>4, BeforeFour, Zenon
  <2>7. /\ At(a + 1) = args[1] /\ At(a + 1 + 1) = b(0) /\ At(a + 1 + 1 + 1) = b(1)
        /\ At(a + 1 + 3) = b(2) /\ At(a + 1 + 3 + 1) = b(3)
    BY <2>6 DEF At
  <2>8. /\ Short(a + 1 + 1) = b(0) + ByteMod * b(1)
        /\ Short(a + 1 + 3) = b(2) + ByteMod * b(3)
    BY <2>7, Zenon DEF Short
  <2>9. Operands("lcons", a + 1) = <<args[1], args[2]>>
    BY <1>1, <2>5, <2>7, <2>8, OperandForms
  <2>10. Meant("lcons", args) = args
    BY DEF Meant
  <2> QED
    BY <1>3, <2>1, <2>9, <2>10
<1>4. CASE op = "load"
  <2>1. args[1] \in Byte /\ args[2] \in Nat
    BY <1>1, <1>4, SpecialOperands
  <2>2. CompileMnemonicArguments(op, args) = {<<args[1]>> \o Little(args[2], 2)}
    BY <1>4, SpecialBytes, Zenon
  <2> DEFINE l == Little(args[2], 2)
             b(i) == Machine!ByteOf(args[2], i)
  <2>3. l \in Seq(Byte) /\ Len(l) = 2 /\ l[1] = b(0) /\ l[2] = b(1)
    BY <2>1, LittleSizes, Zenon
  <2>4. bytes = <<args[1]>> \o l
    BY <2>2
  <2>5. b(0) + ByteMod * b(1) = args[2] % (ByteMod * ByteMod)
    BY <2>1, TwoBytes
  <2> HIDE DEF l, b
  <2>6. Len(bytes) = 3 /\ bytes[1] = args[1] /\ bytes[2] = b(0) /\ bytes[3] = b(1)
    BY <2>1, <2>3, <2>4, BesideTwo, Zenon
  <2>7. At(a + 1) = args[1] /\ At(a + 1 + 1) = b(0) /\ At(a + 1 + 1 + 1) = b(1)
    BY <2>6 DEF At
  <2>8. Short(a + 1 + 1) = b(0) + ByteMod * b(1)
    BY <2>7, Zenon DEF Short
  <2>9. Operands("load", a + 1) = <<args[1], args[2] % (ByteMod * ByteMod)>>
    BY <1>1, <2>5, <2>7, <2>8, OperandForms
  <2>10. Meant("load", args) = <<args[1], args[2] % (ByteMod * ByteMod)>>
    BY DEF Meant
  <2> QED
    BY <1>4, <2>9, <2>10
<1>5. CASE op = "store"
  <2>1. args[2] \in Byte /\ args[1] \in Nat
    BY <1>1, <1>5, SpecialOperands
  <2>2. CompileMnemonicArguments(op, args) = {Little(args[1], 2) \o <<args[2]>>}
    BY <1>5, SpecialBytes, Zenon
  <2> DEFINE l == Little(args[1], 2)
             b(i) == Machine!ByteOf(args[1], i)
  <2>3. l \in Seq(Byte) /\ Len(l) = 2 /\ l[1] = b(0) /\ l[2] = b(1)
    BY <2>1, LittleSizes, Zenon
  <2>4. bytes = l \o <<args[2]>>
    BY <2>2
  <2>5. b(0) + ByteMod * b(1) = args[1] % (ByteMod * ByteMod)
    BY <2>1, TwoBytes
  <2> HIDE DEF l, b
  <2>6. Len(bytes) = 3 /\ bytes[1] = b(0) /\ bytes[2] = b(1) /\ bytes[3] = args[2]
    BY <2>1, <2>3, <2>4, BesideTwo, Zenon
  <2>7. At(a + 1) = b(0) /\ At(a + 1 + 1) = b(1) /\ At(a + 1 + 2) = args[2]
    BY <2>6 DEF At
  <2>8. Short(a + 1) = b(0) + ByteMod * b(1)
    BY <2>7, Zenon DEF Short
  <2>9. Operands("store", a + 1) = <<args[1] % (ByteMod * ByteMod), args[2]>>
    BY <1>1, <2>5, <2>7, <2>8, OperandForms
  <2>10. Meant("store", args) = <<args[1] % (ByteMod * ByteMod), args[2]>>
    BY DEF Meant
  <2> QED
    BY <1>5, <2>9, <2>10
<1>6. CASE op = "syscall"
  <2>1. args[1] \in Nat
    BY <1>1, <1>6, SpecialOperands
  <2>2. CompileMnemonicArguments(op, args) = {Little(args[1], 1)}
    BY <1>6, SpecialBytes, Zenon
  <2>3. bytes = Little(args[1], 1)
    BY <2>2
  <2>4. Len(bytes) = 1 /\ bytes[1] = Machine!ByteOf(args[1], 0)
    BY <2>1, <2>3, LittleSizes, Zenon
  <2>5. At(a + 1 + 1 - 1) = args[1] % ByteMod
    BY <2>4 DEF At, Machine!ByteOf
  <2>6. Operands("syscall", a + 1) = [k \in 1 .. 1 |-> At(a + 1 + k - 1)]
    <3>1. "syscall" \notin {"lcons", "load", "store"} /\ Machine!ArgBytes("syscall") = 1
      BY SpecialOps
    <3>2. Operands("syscall", a + 1) =
            [k \in 1 .. Machine!ArgBytes("syscall") |-> At(a + 1 + k - 1)]
      BY <3>1 DEF Operands
    <3> QED
      BY <3>1, <3>2, Zenon
  <2>7. Operands("syscall", a + 1) = <<args[1] % ByteMod>>
    BY <2>5, <2>6
  <2>8. Meant("syscall", args) = <<args[1] % ByteMod>>
    BY DEF Meant
  <2> QED
    BY <1>6, <2>7, <2>8
<1>7. op \notin {"jmp", "call", "jr"}
  BY DEF TakesLabel
<1> QED
  BY <1>2, <1>3, <1>4, <1>5, <1>6, <1>7, OpForms

-----------------------------------------------------------------------------
(* Constants.                                                              *)

(* An item of a constant is compiled to bytes, ...                         *)
LEMMA ItemBytes ==
  ASSUME NEW item, IsItem(item), NEW bits \in Nat,
         OneWord(item) \/ Fits(IF item.kind = "number" THEN item.value ELSE 0, bits)
  PROVE  CompileItem(item, bits) \in Seq(Byte)
<1>1. Machine!Word \subseteq Nat
  BY DEF Machine!Word
<1>2. CASE OneWord(item)
  <2>1. item.words[1] \in Seq(Byte) /\ item.kind # "number"
    BY <1>2 DEF OneWord, IsItem
  <2>2. CompileItem(item, bits) = item.words[1] \o <<0>>
    BY <1>2, <2>1, Zenon DEF CompileItem
  <2> QED
    BY <2>1, <2>2, OneMore, RegistersAreBytes
<1>3. CASE ~ OneWord(item)
  <2>1. bits \div 8 \in {1, 2, 4}
    BY <1>3 DEF Fits
  <2>2. CASE item.kind = "number"
    <3>1. CompileItem(item, bits) = Little(item.value, bits \div 8)
      BY <1>3, <2>2 DEF CompileItem
    <3>2. item.value \in Nat
      BY <1>1, <2>2 DEF IsItem
    <3> QED
      BY <2>1, <3>1, <3>2, LittleSizes
  <2>3. CASE item.kind # "number"
    <3> DEFINE n == Len(item.words) * (bits \div 8)
    <3>1. Len(item.words) \in Nat
      BY <2>3 DEF IsItem
    <3>2. n \in Nat
      <4> DEFINE d == bits \div 8
      <4>1. d \in Nat
        BY <2>1
      <4> HIDE DEF d
      <4>2. Len(item.words) * d \in Nat
        BY <3>1, <4>1
      <4> QED
        BY <4>2 DEF d
    <3>3. CompileItem(item, bits) = [i \in 1 .. n |-> 0]
      BY <1>3, <2>3 DEF CompileItem
    <3> HIDE DEF n
    <3> QED
      BY <3>2, <3>3, RegistersAreBytes
  <2> QED
    BY <2>2, <2>3
<1> QED
  BY <1>2, <1>3

(* ... and so is the constant.                                             *)
LEMMA ConstantBytes ==
  ASSUME NEW line, line.kind = "rom", IsLine(line), ~ TooHigh(line)
  PROVE  CompileConstantArguments(line) \in Seq(Byte)
<1> DEFINE n == Len(line.items)
           seqs == [i \in DOMAIN line.items |-> CompileItem(line.items[i], line.bits)]
<1>1. /\ line.bits \in Nat /\ DOMAIN line.items = 1 .. n
      /\ \A i \in 1 .. n : IsItem(line.items[i])
  BY DEF IsLine
<1>2. n \in Nat
  BY <1>1
<1>3. \A i \in 1 .. n : CompileItem(line.items[i], line.bits) \in Seq(Byte)
  BY <1>1, ItemBytes DEF TooHigh
<1>4. seqs \in [1 .. n -> Seq(Byte)]
  BY <1>1, <1>3
<1> HIDE DEF n, seqs
<1>5. FlattenSeq(seqs) \in Seq(Byte)
  BY <1>2, <1>4, FlattenType
<1> QED
  BY <1>5 DEF CompileConstantArguments, seqs

(* A constant whose texts are single words is what the source asks for.    *)
WholeTexts(line) ==
  line.kind = "rom" =>
    \A i \in DOMAIN line.items : line.items[i].kind = "number" \/ OneWord(line.items[i])

(* It is what the source asks for.                                         *)
LEMMA ConstantsKept ==
  ASSUME NEW line, line.kind = "rom", WholeTexts(line)
  PROVE  CompileConstantArguments(line) = Constants(line)
<1>1. ASSUME NEW i \in DOMAIN line.items
      PROVE  CompileItem(line.items[i], line.bits) =
               IF line.items[i].kind = "number"
               THEN Little(line.items[i].value, line.bits \div 8)
               ELSE Text(line.items[i].words)
  <2> DEFINE item == line.items[i]
  <2>1. CASE item.kind = "number"
    <3>1. ~ OneWord(item)
      BY <2>1 DEF OneWord
    <3>2. CompileItem(item, line.bits) = Little(item.value, line.bits \div 8)
      BY <2>1, <3>1 DEF CompileItem
    <3> QED
      BY <2>1, <3>2
  <2>2. CASE item.kind # "number"
    <3>1. OneWord(item) /\ Len(item.words) = 1
      BY <2>2 DEF WholeTexts, OneWord
    <3>2. CompileItem(item, line.bits) = item.words[1] \o <<0>>
      BY <2>2, <3>1, Zenon DEF CompileItem
    <3> DEFINE pieces == [k \in DOMAIN item.words |->
                            IF k = 1 THEN item.words[k] ELSE <<Blank>> \o item.words[k]]
    <3>3. Len(pieces) = 1 /\ pieces[1] = item.words[1]
      BY <3>1
    <3>4. Text(item.words) = FlattenSeq(pieces) \o <<0>>
      BY Zenon DEF Text
    <3> HIDE DEF pieces
    <3>5. FlattenSeq(pieces) = item.words[1]
      BY <3>3, FlattenOne
    <3> QED
      BY <2>2, <3>2, <3>4, <3>5
  <2> QED
    BY <2>1, <2>2
<1> QED
  BY <1>1 DEF CompileConstantArguments, Constants

-----------------------------------------------------------------------------
(* The invariant.                                                          *)

(* Parse() keeps lines with their compiled arguments, ...                  *)
Compiled(instr) ==
  LET line == instr.line
  IN \/ line.kind \in {"label", "ram"} /\ instr.bytes = <<>>
     \/ line.kind = "rom" /\ ~ TooHigh(line) /\ instr.bytes = CompileConstantArguments(line)
     \/ /\ line.kind = "word" /\ IsOpCode(line.word)
        /\ instr.bytes \in CompileMnemonicArguments(Op(line.word), line.args)

Kept == [line : Lines, bytes : Seq(Byte), addr : 0 .. AddrMod - 1]

TInv == TypeOK /\ m_instructions \in Seq(Kept)

(* ... each name once and declared, that of a constant as address 0.       *)
NameKept(k) ==
  LET line == m_instructions[k].line
  IN Named(line) => /\ line.name \in DOMAIN m_labels
                    /\ line.kind = "rom" => m_labels[line.name] = 0

SameName(j, k) ==
  /\ Named(m_instructions[j].line) /\ Named(m_instructions[k].line)
  /\ m_instructions[j].line.name = m_instructions[k].line.name

SourceInv ==
  /\ \A k \in 1 .. Len(m_instructions) : Compiled(m_instructions[k]) /\ NameKept(k)
  /\ \A j, k \in 1 .. Len(m_instructions) : SameName(j, k) => j = k

(* An image is announced only between two calls.                           *)
AnnouncedInv == result.rom > 0 => phase = "ready"

(* How many lines this build has emitted, and how many it has patched.     *)
Building == phase \in {"emit", "patch"} \/ result.rom > 0
Emitted  == IF phase = "emit" THEN next - 1 ELSE Len(m_instructions)
Patched  == IF phase = "emit" THEN 0
            ELSE IF phase = "patch" THEN next - 1 ELSE Len(m_instructions)

(* The byte of the opcode, which a label has too, and where a line ends.   *)
CodeBytes(line) == IF line.kind \in {"rom", "ram"} THEN 0 ELSE 1
Behind(k) == m_instructions[k].addr + CodeBytes(m_instructions[k].line)
               + Len(m_instructions[k].bytes)

(* The lines lie one behind the other up to the end of the image, ...      *)
Lies(k) ==
  /\ Behind(k) <= Len(program)
  /\ k = Emitted => Behind(k) = Len(program)
  /\ k > 1 => m_instructions[k].addr = Behind(k - 1)
  /\ \A j \in 1 .. k - 1 : Behind(j) <= m_instructions[k].addr

(* ... each with its bytes, and with its label where it is patched.        *)
Stands(k) ==
  LET line  == m_instructions[k].line
      addr  == m_instructions[k].addr
      bytes == m_instructions[k].bytes
  IN /\ line.kind = "word" => program[addr + 1] = OpcodeOf(line.word)
     /\ ~ UseLabel(line) =>
          \A i \in 1 .. Len(bytes) : program[addr + CodeBytes(line) + i] = bytes[i]
     /\ line.kind \in {"label", "ram"} => m_labels[line.name] = Behind(k)

PatchStands(k) ==
  LET line == m_instructions[k].line
      addr == m_instructions[k].addr
  IN UseLabel(line) =>
       /\ line.name \in DOMAIN m_labels
       /\ program[addr + 2] = m_labels[line.name] % ByteMod
       /\ program[addr + 3] = m_labels[line.name] \div ByteMod

ImageInv ==
  Building /\ Len(program) < AddrMod =>
    /\ \A k \in 1 .. Emitted : Lies(k) /\ Stands(k)
    /\ \A k \in 1 .. Patched : PatchStands(k)

(* The bytes reserved for a label are there, even in an image that fills   *)
(* the 16 bits.                                                            *)
ReservedInv ==
  Building /\ Len(program) <= AddrMod =>
    \A k \in 1 .. Emitted :
      UseLabel(m_instructions[k].line) => m_instructions[k].addr + 3 <= Len(program)

IInv == TInv /\ SourceInv /\ AnnouncedInv /\ ImageInv /\ ReservedInv

-----------------------------------------------------------------------------
(* Parse() and the types.                                                  *)

(* What is kept of a line: its bytes are bytes, as many as their form says.*)
LEMMA CompiledBytes ==
  ASSUME NEW instr, instr.line \in Lines, Compiled(instr)
  PROVE  /\ instr.bytes \in Seq(Byte)
         /\ instr.line.kind \in {"label", "ram"} => Len(instr.bytes) = 0
         /\ instr.line.kind = "word" =>
              /\ Op(instr.line.word) \in Machine!Ops
              /\ HasOperands(Op(instr.line.word), instr.line.args)
              /\ Len(instr.bytes) = Machine!ArgBytes(Op(instr.line.word))
                                      + Extra(Op(instr.line.word))
         /\ UseLabel(instr.line) => Len(instr.bytes) = 2
<1> DEFINE line == instr.line
           bytes == instr.bytes
<1>1. IsLine(line)
  BY LinesAssumption
<1>2. CASE line.kind \in {"label", "ram"}
  <2>1. bytes = <<>>
    BY <1>2, Zenon DEF Compiled
  <2> QED
    BY <1>2, <2>1 DEF UseLabel
<1>3. CASE line.kind = "rom"
  <2>1. ~ TooHigh(line) /\ bytes = CompileConstantArguments(line)
    BY <1>3, Zenon DEF Compiled
  <2>2. bytes \in Seq(Byte)
    BY <1>1, <1>3, <2>1, ConstantBytes
  <2> QED
    BY <1>3, <2>2 DEF UseLabel
<1>4. CASE line.kind = "word"
  <2>1. IsOpCode(line.word) /\ bytes \in CompileMnemonicArguments(Op(line.word), line.args)
    BY <1>4, Zenon DEF Compiled
  <2>2. HasOperands(Op(line.word), line.args) /\ Op(line.word) \in Machine!Ops
    BY <1>1, <1>4, <2>1, OpcodeInRange DEF IsLine
  <2>3. /\ bytes \in Seq(Byte)
        /\ Len(bytes) = Machine!ArgBytes(Op(line.word)) + Extra(Op(line.word))
        /\ TakesLabel(Op(line.word)) => Len(bytes) = 2
    BY <2>1, <2>2, MnemonicBytes
  <2> QED
    BY <1>4, <2>2, <2>3, Zenon DEF UseLabel
<1>5. line.kind \in {"label", "ram", "rom", "word"}
  BY Zenon DEF Compiled
<1> QED
  BY <1>2, <1>3, <1>4, <1>5

(* A declaration keeps the addresses typed, ...                            *)
LEMMA DeclaredTyped ==
  ASSUME TInv, NEW name, NEW address \in 0 .. AddrMod - 1
  PROVE  \A l \in DOMAIN Declare(name, address) :
           Declare(name, address)[l] \in 0 .. AddrMod - 1
BY DEF Declare, TInv, TypeOK

(* ... and that of a new name the addresses there were.                    *)
LEMMA NewName ==
  ASSUME TInv, NEW name, name \notin DOMAIN m_labels, m_labels' = Declare(name, 0)
  PROVE  /\ \A l \in DOMAIN m_labels' : m_labels'[l] \in 0 .. AddrMod - 1
         /\ DOMAIN m_labels \subseteq DOMAIN m_labels'
         /\ \A l \in DOMAIN m_labels : m_labels'[l] = m_labels[l]
         /\ name \in DOMAIN m_labels' /\ m_labels'[name] = 0
<1>1. 0 \in 0 .. AddrMod - 1
  BY ByteModPositive
<1> DEFINE d == Declare(name, 0)
<1>2. \A l \in DOMAIN d : d[l] \in 0 .. AddrMod - 1
  BY <1>1, DeclaredTyped
<1>3. /\ DOMAIN d = DOMAIN m_labels \cup {name} /\ d[name] = 0
      /\ \A l \in DOMAIN m_labels : l # name => d[l] = m_labels[l]
  BY DEF Declare
<1>4. m_labels' = d
  OBVIOUS
<1> HIDE DEF d
<1> QED
  BY <1>2, <1>3, <1>4

(* A line that is accepted is the last.                                    *)
LEMMA Accepted ==
  ASSUME TInv, NEW line \in Lines, NEW bytes \in Seq(Byte), Accept(line, bytes)
  PROVE  /\ m_instructions' \in Seq(Kept)
         /\ Len(m_instructions') = Len(m_instructions) + 1
         /\ \A k \in 1 .. Len(m_instructions) : m_instructions'[k] = m_instructions[k]
         /\ m_instructions'[Len(m_instructions) + 1] =
              [line |-> line, bytes |-> bytes, addr |-> 0]
<1> DEFINE instr == [line |-> line, bytes |-> bytes, addr |-> 0]
<1>1. instr \in Kept
  BY ByteModPositive DEF Kept
<1>2. m_instructions' = Append(m_instructions, instr)
  BY DEF Accept
<1> HIDE DEF instr
<1>3. m_instructions \in Seq(Kept)
  BY DEF TInv
<1> QED
  BY <1>1, <1>2, <1>3, AppendProperties DEF instr

(* The fields of what is kept.                                             *)
LEMMA KeptTyped ==
  ASSUME NEW s \in Seq(Kept)
  PROVE  \A k \in DOMAIN s : /\ s[k].line \in Lines
                             /\ s[k].bytes \in Seq(Byte)
                             /\ s[k].addr \in 0 .. AddrMod - 1
<1>1. \A k \in DOMAIN s : s[k] \in Kept
  OBVIOUS
<1> QED
  BY <1>1 DEF Kept

(* A line is accepted, its name being new.                                 *)
LEMMA AcceptKeeps ==
  ASSUME TInv, SourceInv, NEW line \in Lines, NEW bytes, ReadLine(line),
         Accept(line, bytes), Compiled([line |-> line, bytes |-> bytes, addr |-> 0]),
         \/ ~ Named(line) /\ m_labels' = m_labels
         \/ /\ Named(line) /\ line.name \notin DOMAIN m_labels
            /\ m_labels' = Declare(line.name, 0)
  PROVE  TInv' /\ SourceInv'
<1> DEFINE n == Len(m_instructions)
           instr == [line |-> line, bytes |-> bytes, addr |-> 0]
<1>1. instr.line = line /\ instr.bytes = bytes /\ instr.addr = 0
  OBVIOUS
<1>2. bytes \in Seq(Byte)
  BY <1>1, CompiledBytes
<1>3. /\ m_instructions' \in Seq(Kept) /\ Len(m_instructions') = n + 1
      /\ \A k \in 1 .. n : m_instructions'[k] = m_instructions[k]
      /\ m_instructions'[n + 1] = instr
  BY <1>2, Accepted
<1>4. n \in Nat
  BY DEF TInv
<1>5. Compiled(instr)
  OBVIOUS
<1>6. /\ \A l \in DOMAIN m_labels' : m_labels'[l] \in 0 .. AddrMod - 1
      /\ DOMAIN m_labels \subseteq DOMAIN m_labels'
      /\ \A l \in DOMAIN m_labels : m_labels'[l] = m_labels[l]
      /\ Named(line) => /\ line.name \in DOMAIN m_labels' /\ line.name \notin DOMAIN m_labels
                        /\ m_labels'[line.name] = 0
  <2>1. CASE ~ Named(line) /\ m_labels' = m_labels
    BY <2>1 DEF TInv, TypeOK
  <2>2. CASE /\ Named(line) /\ line.name \notin DOMAIN m_labels
             /\ m_labels' = Declare(line.name, 0)
    BY <2>2, NewName
  <2> QED
    BY <2>1, <2>2
<1> HIDE DEF instr, n
<1>7. TInv'
  <2>1. /\ phase' \in {"ready", "parse", "emit", "patch"}
        /\ read' \in 0 .. MaxLines /\ program' \in Seq(Byte)
        /\ result' \in [ram : Nat, rom : Nat, constants : Nat]
    BY AsmAssumption DEF TInv, TypeOK, ReadLine, Accept
  <2>2. next' \in 1 .. Len(m_instructions') + 1
    BY <1>3, <1>4 DEF TInv, TypeOK, ReadLine, n
  <2> QED
    BY <1>3, <1>6, <2>1, <2>2, KeptTyped DEF TInv, TypeOK
<1>8. \A k \in 1 .. n + 1 : k \in 1 .. n \/ k = n + 1
  BY <1>4
<1>9. ASSUME NEW k \in 1 .. n
      PROVE  /\ Compiled(m_instructions'[k]) /\ NameKept(k)'
             /\ Named(m_instructions[k].line) => m_instructions[k].line.name \in DOMAIN m_labels
  <2>1. Compiled(m_instructions[k]) /\ NameKept(k)
    BY DEF SourceInv, n
  <2> QED
    BY <1>3, <1>6, <2>1 DEF NameKept
<1>10. ASSUME NEW k, k = n + 1
       PROVE  Compiled(m_instructions'[k]) /\ NameKept(k)'
  <2>1. Compiled(m_instructions'[k])
    BY <1>3, <1>5, <1>10, Zenon
  <2>2. m_instructions'[k].line = line
    BY <1>1, <1>3, <1>10
  <2> QED
    BY <1>6, <2>1, <2>2 DEF NameKept
<1>11. ASSUME NEW j \in 1 .. n + 1, NEW k \in 1 .. n + 1, SameName(j, k)'
       PROVE  j = k
  <2>1. CASE j \in 1 .. n /\ k \in 1 .. n
    <3>1. SameName(j, k)
      BY <1>3, <1>11, <2>1 DEF SameName
    <3> QED
      BY <2>1, <3>1 DEF SourceInv, n
  <2>2. CASE j \in 1 .. n /\ k = n + 1
    BY <1>1, <1>3, <1>6, <1>9, <1>11, <2>2 DEF SameName
  <2>3. CASE k \in 1 .. n /\ j = n + 1
    BY <1>1, <1>3, <1>6, <1>9, <1>11, <2>3 DEF SameName
  <2> QED
    BY <1>8, <2>1, <2>2, <2>3
<1>12. ASSUME NEW k \in 1 .. n + 1
       PROVE  Compiled(m_instructions'[k]) /\ NameKept(k)'
  <2>1. CASE k \in 1 .. n
    BY <1>9, <2>1
  <2>2. CASE k = n + 1
    BY <1>10, <2>2
  <2> QED
    BY <1>8, <2>1, <2>2
<1> QED
  BY <1>3, <1>7, <1>11, <1>12 DEF SourceInv

(* A label or data is accepted, ...                                        *)
LEMMA ParseNameKeeps ==
  ASSUME TInv, SourceInv, NEW line \in Lines, ParseName(line)
  PROVE  TInv' /\ SourceInv'
<1> DEFINE bytes == IF line.kind = "rom" THEN CompileConstantArguments(line) ELSE <<>>
           instr == [line |-> line, bytes |-> bytes, addr |-> 0]
<1>1. /\ ReadLine(line) /\ Named(line) /\ line.name \notin DOMAIN m_labels
      /\ line.kind = "rom" => ~ TooHigh(line)
      /\ Accept(line, bytes) /\ m_labels' = Declare(line.name, 0)
  BY DEF ParseName
<1>2. instr.line = line /\ instr.bytes = bytes
  OBVIOUS
<1>3. Compiled(instr)
  BY <1>1, <1>2 DEF Compiled, Named
<1> QED
  BY <1>1, <1>3, AcceptKeeps

(* ... or an instruction, ...                                              *)
LEMMA ParseMnemonicKeeps ==
  ASSUME TInv, SourceInv, NEW line \in Lines, ParseMnemonic(line)
  PROVE  TInv' /\ SourceInv'
<1>1. PICK bytes \in CompileMnemonicArguments(Op(line.word), line.args) : Accept(line, bytes)
  BY DEF ParseMnemonic
<1>2. /\ ReadLine(line) /\ line.kind = "word" /\ IsOpCode(line.word)
      /\ m_labels' = m_labels
  BY DEF ParseMnemonic
<1> DEFINE instr == [line |-> line, bytes |-> bytes, addr |-> 0]
<1>3. instr.line = line /\ instr.bytes = bytes
  OBVIOUS
<1>4. Compiled(instr)
  BY <1>1, <1>2, <1>3, Zenon DEF Compiled
<1>5. ~ Named(line)
  BY <1>2 DEF Named
<1> QED
  BY <1>1, <1>2, <1>4, <1>5, AcceptKeeps

(* The steps that leave the lines alone.                                   *)
LEMMA SameLinesKeeps ==
  ASSUME TInv, SourceInv, UNCHANGED m_instructions,
         DOMAIN m_labels \subseteq DOMAIN m_labels',
         \A l \in DOMAIN m_labels : m_labels'[l] = m_labels[l],
         \A l \in DOMAIN m_labels' : m_labels'[l] \in 0 .. AddrMod - 1,
         phase' \in {"ready", "parse", "emit", "patch"},
         read' \in 0 .. MaxLines, program' \in Seq(Byte),
         next' \in 1 .. Len(m_instructions) + 1,
         result' \in [ram : Nat, rom : Nat, constants : Nat]
  PROVE  TInv' /\ SourceInv'
<1>1. TInv'
  BY DEF TInv, TypeOK
<1>2. \A k \in 1 .. Len(m_instructions) : Compiled(m_instructions'[k]) /\ NameKept(k)'
  BY DEF SourceInv, NameKept
<1>3. \A j, k \in 1 .. Len(m_instructions) : SameName(j, k)' <=> SameName(j, k)
  BY DEF SameName
<1> QED
  BY <1>1, <1>2, <1>3 DEF SourceInv

(* ... or the line is refused.                                             *)
LEMMA ParseErrorKeeps ==
  ASSUME TInv, SourceInv, NEW line, ParseError(line)
  PROVE  TInv' /\ SourceInv'
<1>1. /\ UNCHANGED <<m_instructions, program, next, result>>
      /\ phase' = "ready" /\ read < MaxLines /\ read' = read + 1
      /\ \/ m_labels' = m_labels
         \/ m_labels' = Declare(line.name, 0) /\ line.name \notin DOMAIN m_labels
  BY DEF ParseError, ReadLine
<1>3. /\ DOMAIN m_labels \subseteq DOMAIN m_labels'
      /\ \A l \in DOMAIN m_labels : m_labels'[l] = m_labels[l]
      /\ \A l \in DOMAIN m_labels' : m_labels'[l] \in 0 .. AddrMod - 1
  <2>1. CASE m_labels' = m_labels
    BY <2>1 DEF TInv, TypeOK
  <2>2. CASE m_labels' = Declare(line.name, 0) /\ line.name \notin DOMAIN m_labels
    BY <2>2, NewName
  <2> QED
    BY <1>1, <2>1, <2>2
<1>4. /\ read' \in 0 .. MaxLines /\ program' \in Seq(Byte)
      /\ next' \in 1 .. Len(m_instructions) + 1
      /\ result' \in [ram : Nat, rom : Nat, constants : Nat]
  BY <1>1, AsmAssumption DEF TInv, TypeOK
<1> QED
  BY <1>1, <1>3, <1>4, SameLinesKeeps

(* The state before the first Parse().                                     *)
LEMMA EmptySource ==
  ASSUME m_instructions = <<>>, m_labels = [l \in {} |-> 0],
         phase \in {"ready", "parse", "emit", "patch"},
         read \in 0 .. MaxLines, program \in Seq(Byte), next = 1,
         result \in [ram : Nat, rom : Nat, constants : Nat]
  PROVE  TInv /\ SourceInv
<1>1. m_instructions \in Seq(Kept) /\ Len(m_instructions) = 0
  OBVIOUS
<1>2. TypeOK
  BY <1>1, KeptTyped DEF TypeOK
<1> QED
  BY <1>1, <1>2 DEF TInv, SourceInv

-----------------------------------------------------------------------------
(* The first pass.                                                         *)

(* Sequences in a row.                                                     *)
LEMMA Joined ==
  ASSUME NEW p \in Seq(Byte), NEW c \in Seq(Byte)
  PROVE  /\ p \o c \in Seq(Byte) /\ Len(p \o c) = Len(p) + Len(c)
         /\ \A i \in 1 .. Len(p) : (p \o c)[i] = p[i]
         /\ \A i \in 1 .. Len(c) : (p \o c)[Len(p) + i] = c[i]
OBVIOUS

(* The bytes of a line behind the image.                                   *)
LEMMA Appended ==
  ASSUME NEW p \in Seq(Byte), NEW c \in Seq(Byte), NEW b \in Seq(Byte),
         NEW q, q = p \o c \o b
  PROVE  /\ q \in Seq(Byte) /\ Len(q) = Len(p) + Len(c) + Len(b)
         /\ \A i \in 1 .. Len(p) : q[i] = p[i]
         /\ \A i \in 1 .. Len(c) : q[Len(p) + i] = c[i]
         /\ \A i \in 1 .. Len(b) : q[Len(p) + Len(c) + i] = b[i]
<1> DEFINE r == p \o c
<1>1. /\ r \in Seq(Byte) /\ Len(r) = Len(p) + Len(c)
      /\ \A i \in 1 .. Len(p) : r[i] = p[i]
      /\ \A i \in 1 .. Len(c) : r[Len(p) + i] = c[i]
  BY Joined, Zenon
<1>2. q = r \o b
  OBVIOUS
<1> HIDE DEF r
<1> DEFINE t == r \o b
<1>3. /\ t \in Seq(Byte) /\ Len(t) = Len(r) + Len(b)
      /\ \A i \in 1 .. Len(r) : t[i] = r[i]
      /\ \A i \in 1 .. Len(b) : t[Len(r) + i] = b[i]
  BY <1>1, Joined, Zenon
<1>4. q = t
  BY <1>2
<1> HIDE DEF t
<1>5. Len(p) \in Nat /\ Len(c) \in Nat /\ Len(b) \in Nat
  OBVIOUS
<1>6. q \in Seq(Byte) /\ Len(q) = Len(p) + Len(c) + Len(b)
  BY <1>1, <1>3, <1>4
<1>7. \A i \in 1 .. Len(p) : q[i] = p[i]
  BY <1>1, <1>3, <1>4, <1>5
<1>8. \A i \in 1 .. Len(c) : q[Len(p) + i] = c[i]
  BY <1>1, <1>3, <1>4, <1>5
<1>9. \A i \in 1 .. Len(b) : q[Len(p) + Len(c) + i] = b[i]
  BY <1>1, <1>3, <1>4, <1>5
<1> QED
  BY <1>6, <1>7, <1>8, <1>9

(* The line that is emitted gets its address, no other line changes.       *)
LEMMA EmittedLines ==
  ASSUME TInv, Emit, NEW n, n = next
  PROVE  /\ n \in 1 .. Len(m_instructions) /\ next' = n + 1
         /\ phase = "emit" /\ phase' = "emit"
         /\ Len(m_instructions') = Len(m_instructions) /\ m_instructions' \in Seq(Kept)
         /\ \A k \in 1 .. Len(m_instructions) :
              /\ m_instructions'[k].line = m_instructions[k].line
              /\ m_instructions'[k].bytes = m_instructions[k].bytes
              /\ k # n => m_instructions'[k].addr = m_instructions[k].addr
         /\ m_instructions'[n].addr = Len(program) % AddrMod
<1>1. /\ n \in 1 .. Len(m_instructions) /\ next' = n + 1
      /\ phase = "emit" /\ phase' = "emit"
      /\ m_instructions' = [m_instructions EXCEPT ![n].addr = Len(program) % AddrMod]
  BY DEF Emit, TInv, TypeOK
<1> DEFINE instr == [m_instructions[n] EXCEPT !.addr = Len(program) % AddrMod]
<1>2. m_instructions \in Seq(Kept) /\ m_instructions[n] \in Kept
  BY <1>1 DEF TInv
<1>3. Len(program) % AddrMod \in 0 .. AddrMod - 1
  <2>1. Len(program) \in Nat
    BY DEF TInv, TypeOK
  <2> QED
    BY <2>1, ByteModPositive
<1>4. /\ instr \in Kept /\ instr.line = m_instructions[n].line
      /\ instr.bytes = m_instructions[n].bytes /\ instr.addr = Len(program) % AddrMod
  BY <1>2, <1>3 DEF Kept
<1>5. m_instructions' = [m_instructions EXCEPT ![n] = instr]
  BY <1>1
<1> HIDE DEF instr
<1>6. /\ Len(m_instructions') = Len(m_instructions) /\ m_instructions' \in Seq(Kept)
      /\ \A k \in 1 .. Len(m_instructions) :
           m_instructions'[k] = IF k = n THEN instr ELSE m_instructions[k]
  <2> DEFINE t == [m_instructions EXCEPT ![n] = instr]
  <2>0. m_instructions \in Seq(Kept) /\ n \in 1 .. Len(m_instructions) /\ instr \in Kept
    BY <1>1, <1>2, <1>4
  <2>1. /\ t \in Seq(Kept) /\ Len(t) = Len(m_instructions)
        /\ \A k \in 1 .. Len(m_instructions) :
             t[k] = IF k = n THEN instr ELSE m_instructions[k]
    BY <2>0
  <2>2. m_instructions' = t
    BY <1>5
  <2> HIDE DEF t
  <2> QED
    BY <2>1, <2>2
<1> QED
  BY <1>1, <1>4, <1>6

(* Its bytes are appended to the image.                                    *)
LEMMA EmittedBytes ==
  ASSUME TInv, SourceInv, Emit, NEW instr, instr = Instr
  PROVE  /\ program' \in Seq(Byte)
         /\ Len(program') = Len(program) + CodeBytes(instr.line) + Len(instr.bytes)
         /\ \A i \in 1 .. Len(program) : program'[i] = program[i]
         /\ instr.line.kind = "word" =>
              program'[Len(program) + 1] = OpcodeOf(instr.line.word)
         /\ \A i \in 1 .. Len(instr.bytes) :
              program'[Len(program) + CodeBytes(instr.line) + i] = instr.bytes[i]
<1> DEFINE line == instr.line
           bytes == instr.bytes
           Code(opcode) == IF line.kind \in {"rom", "ram"} THEN <<>> ELSE <<opcode>>
<1>1. next \in 1 .. Len(m_instructions) /\ program \in Seq(Byte)
  BY DEF Emit, TInv, TypeOK
<1>2. instr \in Kept /\ line \in Lines /\ bytes \in Seq(Byte)
  <2>1. m_instructions[next] \in Kept
    BY <1>1 DEF TInv
  <2> QED
    BY <2>1 DEF Instr, Kept
<1>3. Compiled(instr)
  BY <1>1 DEF SourceInv, Instr
<1>4. PICK opcode \in IF line.kind = "word" THEN {OpcodeOf(line.word)} ELSE Junk :
        program' = program \o Code(opcode) \o bytes
  BY DEF Emit, Serialize
<1> DEFINE c == Code(opcode)
<1>5. opcode \in Byte /\ (line.kind = "word" => opcode = OpcodeOf(line.word))
  <2>1. CASE line.kind = "word"
    <3>1. IsOpCode(line.word)
      BY <1>3, <2>1 DEF Compiled
    <3> QED
      BY <1>4, <2>1, <3>1, OpcodeInRange
  <2>2. CASE line.kind # "word"
    BY <1>4, <2>2, AsmAssumption DEF Byte
  <2> QED
    BY <2>1, <2>2
<1>6. /\ c \in Seq(Byte) /\ Len(c) = CodeBytes(line)
      /\ line.kind = "word" => 1 \in 1 .. Len(c) /\ c[1] = OpcodeOf(line.word)
  BY <1>5 DEF CodeBytes
<1> HIDE DEF line, bytes, c
<1>7. program' = program \o c \o bytes
  BY <1>4 DEF c
<1>8. /\ program' \in Seq(Byte) /\ Len(program') = Len(program) + Len(c) + Len(bytes)
      /\ \A i \in 1 .. Len(program) : program'[i] = program[i]
      /\ \A i \in 1 .. Len(c) : program'[Len(program) + i] = c[i]
      /\ \A i \in 1 .. Len(bytes) : program'[Len(program) + Len(c) + i] = bytes[i]
  <2>1. program \in Seq(Byte) /\ c \in Seq(Byte) /\ bytes \in Seq(Byte)
    BY <1>1, <1>2, <1>6
  <2> QED
    BY <1>7, <2>1, Appended
<1>9. line.kind = "word" => program'[Len(program) + 1] = OpcodeOf(line.word)
  BY <1>6, <1>8
<1> QED
  BY <1>6, <1>8, <1>9 DEF line, bytes

(* A label and a name in RAM get their address; other names keep theirs.   *)
LEMMA EmittedLabels ==
  ASSUME TInv, SourceInv, Emit, NEW line, line = Instr.line
  PROVE  /\ DOMAIN m_labels' = DOMAIN m_labels
         /\ \A l \in DOMAIN m_labels' : m_labels'[l] \in 0 .. AddrMod - 1
         /\ line.kind \in {"label", "ram"} =>
              /\ line.name \in DOMAIN m_labels /\ m_labels'[line.name] = AddressOf(line)
              /\ \A l \in DOMAIN m_labels : l # line.name => m_labels'[l] = m_labels[l]
         /\ line.kind \notin {"label", "ram"} => m_labels' = m_labels
<1>1. m_labels' = IF line.kind \in {"label", "ram"}
                  THEN Declare(line.name, AddressOf(line)) ELSE m_labels
  BY DEF Emit, Serialize
<1>2. CASE line.kind \in {"label", "ram"}
  <2>1. next \in 1 .. Len(m_instructions) /\ program \in Seq(Byte)
    BY DEF Emit, TInv, TypeOK
  <2>2. NameKept(next)
    BY <2>1 DEF SourceInv
  <2>3. line.name \in DOMAIN m_labels
    BY <1>2, <2>2 DEF NameKept, Named, Instr
  <2>4. AddressOf(line) \in 0 .. AddrMod - 1
    <3> DEFINE x == Len(program) + (IF line.kind = "label" THEN 1 ELSE 0)
    <3>1. x \in Nat
      BY <2>1
    <3> HIDE DEF x
    <3>2. x % AddrMod \in 0 .. AddrMod - 1
      BY <3>1, ByteModPositive
    <3> QED
      BY <3>2 DEF AddressOf, x
  <2> DEFINE d == Declare(line.name, AddressOf(line))
  <2>5. m_labels' = d
    BY <1>1, <1>2
  <2>6. \A l \in DOMAIN d : d[l] \in 0 .. AddrMod - 1
    BY <2>4, DeclaredTyped
  <2>7. /\ DOMAIN d = DOMAIN m_labels \cup {line.name} /\ d[line.name] = AddressOf(line)
        /\ \A l \in DOMAIN m_labels : l # line.name => d[l] = m_labels[l]
    BY DEF Declare
  <2> HIDE DEF d
  <2> QED
    BY <1>2, <2>3, <2>5, <2>6, <2>7
<1>3. CASE line.kind \notin {"label", "ram"}
  BY <1>1, <1>3 DEF TInv, TypeOK
<1> QED
  BY <1>2, <1>3

(* The counts of the result stay natural numbers.                          *)
LEMMA EmittedResult ==
  ASSUME TInv, Emit
  PROVE  result' \in [ram : Nat, rom : Nat, constants : Nat] /\ result'.rom = result.rom
<1> DEFINE line == Instr.line
           r == IF line.kind = "ram" THEN (line.len * line.bits) \div 8 ELSE 0
           c == IF line.kind = "rom" THEN Len(Instr.bytes) ELSE 0
<1>1. result' = [result EXCEPT !.ram = @ + r, !.constants = @ + c]
  BY DEF Emit, Serialize
<1>2. next \in 1 .. Len(m_instructions)
  BY DEF Emit, TInv, TypeOK
<1>3. line \in Lines /\ Instr.bytes \in Seq(Byte)
  <2>1. m_instructions[next] \in Kept
    BY <1>2 DEF TInv
  <2> QED
    BY <2>1 DEF Instr, Kept
<1>4. r \in Nat
  <2>1. CASE line.kind = "ram"
    <3>1. line.bits \in Nat /\ line.len \in Nat
      BY <1>3, <2>1, LinesAssumption DEF IsLine
    <3> DEFINE m == line.len * line.bits
    <3>2. m \in Nat
      BY <3>1
    <3> HIDE DEF m
    <3>3. m \div 8 \in Nat
      BY <3>2
    <3> QED
      BY <2>1, <3>3 DEF m
  <2>2. CASE line.kind # "ram"
    BY <2>2
  <2> QED
    BY <2>1, <2>2
<1>5. c \in Nat
  BY <1>3
<1> HIDE DEF r, c
<1>6. result \in [ram : Nat, rom : Nat, constants : Nat]
  BY DEF TInv, TypeOK
<1>7. result.ram + r \in Nat /\ result.rom \in Nat /\ result.constants + c \in Nat
  BY <1>4, <1>5, <1>6
<1>8. result' = [ram |-> result.ram + r, rom |-> result.rom, constants |-> result.constants + c]
  BY <1>1, <1>6
<1> QED
  BY <1>7, <1>8

(* The first pass keeps the source, but for the addresses, ...             *)
LEMMA EmitKeepsSource ==
  ASSUME TInv, SourceInv, Emit
  PROVE  TInv' /\ SourceInv'
<1> DEFINE n == next
<1>1. PICK k0 : k0 = next
  OBVIOUS
<1>2. /\ k0 \in 1 .. Len(m_instructions) /\ next' = k0 + 1
      /\ phase = "emit" /\ phase' = "emit"
      /\ Len(m_instructions') = Len(m_instructions) /\ m_instructions' \in Seq(Kept)
      /\ \A k \in 1 .. Len(m_instructions) :
           /\ m_instructions'[k].line = m_instructions[k].line
           /\ m_instructions'[k].bytes = m_instructions[k].bytes
  BY <1>1, EmittedLines
<1>3. TInv'
  <2>1. \A l \in DOMAIN m_labels' : m_labels'[l] \in 0 .. AddrMod - 1
    BY EmittedLabels
  <2>2. program' \in Seq(Byte)
    BY EmittedBytes
  <2>3. read' \in 0 .. MaxLines
    BY DEF Emit, TInv, TypeOK
  <2>4. next' \in 1 .. Len(m_instructions') + 1
    BY <1>2
  <2>5. \A k \in DOMAIN m_instructions' :
          /\ m_instructions'[k].line \in Lines /\ m_instructions'[k].bytes \in Seq(Byte)
          /\ m_instructions'[k].addr \in 0 .. AddrMod - 1
    BY <1>2, KeptTyped
  <2> QED
    BY <1>2, <2>1, <2>2, <2>3, <2>4, <2>5, EmittedResult DEF TInv, TypeOK
<1>4. ASSUME NEW k \in 1 .. Len(m_instructions)
      PROVE  Compiled(m_instructions'[k]) /\ NameKept(k)'
  <2>1. Compiled(m_instructions[k]) /\ NameKept(k)
    BY DEF SourceInv
  <2>2. Compiled(m_instructions'[k])
    BY <1>2, <2>1 DEF Compiled
  <2>3. SameName(k, k0) => k = k0
    BY <1>2 DEF SourceInv
  <2>4. NameKept(k)'
    BY <1>1, <1>2, <2>1, <2>3, EmittedLabels DEF NameKept, SameName, Named, Instr
  <2> QED
    BY <2>2, <2>4
<1>5. \A j, k \in 1 .. Len(m_instructions) : SameName(j, k)' => SameName(j, k)
  BY <1>2 DEF SameName
<1> QED
  BY <1>2, <1>3, <1>4, <1>5 DEF SourceInv

(* An address that fits is not cut.                                        *)
LEMMA SmallRemainder ==
  ASSUME NEW a \in Nat, a < AddrMod
  PROVE  a % AddrMod = a
BY ByteModPositive

(* The lines emitted before stay where they are and what they are.         *)
LEMMA EmitKeepsOthers ==
  ASSUME TInv, SourceInv, ImageInv, Emit, Len(program) < AddrMod,
         NEW n, n = next, NEW k \in 1 .. n - 1
  PROVE  /\ Behind(k)' = Behind(k) /\ Behind(k) \in Nat /\ Behind(k) <= Len(program)
         /\ m_instructions'[k].addr = m_instructions[k].addr
         /\ k = n - 1 => Behind(k) = Len(program)
         /\ k > 1 => m_instructions[k].addr = Behind(k - 1)
         /\ \A j \in 1 .. k - 1 : Behind(j) <= m_instructions[k].addr
         /\ Stands(k)'
<1>1. /\ n \in 1 .. Len(m_instructions) /\ phase = "emit"
      /\ \A i \in 1 .. Len(m_instructions) :
           /\ m_instructions'[i].line = m_instructions[i].line
           /\ m_instructions'[i].bytes = m_instructions[i].bytes
           /\ i # n => m_instructions'[i].addr = m_instructions[i].addr
  BY EmittedLines
<1>2. k \in 1 .. Len(m_instructions) /\ k # n
  BY <1>1
<1>3. Emitted = n - 1 /\ Building
  BY <1>1 DEF Emitted, Building
<1>4. Lies(k) /\ Stands(k)
  BY <1>3 DEF ImageInv
<1>5. m_instructions[k] \in Kept
  BY <1>2 DEF TInv
<1>6. /\ m_instructions[k].addr \in Nat /\ m_instructions[k].bytes \in Seq(Byte)
      /\ CodeBytes(m_instructions[k].line) \in {0, 1}
  BY <1>5 DEF Kept, CodeBytes
<1>7. Behind(k)' = Behind(k) /\ Behind(k) \in Nat
  BY <1>1, <1>2, <1>6 DEF Behind
<1>8. Stands(k)'
  <2> DEFINE line == m_instructions[k].line
             addr == m_instructions[k].addr
             bytes == m_instructions[k].bytes
  <2>1. /\ m_instructions'[k].line = line /\ m_instructions'[k].addr = addr
        /\ m_instructions'[k].bytes = bytes
    BY <1>1, <1>2
  <2>2. \A i \in 1 .. Len(program) : program'[i] = program[i]
    BY EmittedBytes
  <2>3. addr + CodeBytes(line) + Len(bytes) <= Len(program) /\ Len(program) \in Nat
    BY <1>4 DEF Lies, Behind, TInv, TypeOK
  <2>4. ASSUME line.kind = "word"
        PROVE  program'[addr + 1] = OpcodeOf(line.word)
    <3>1. CodeBytes(line) = 1
      BY <2>4 DEF CodeBytes
    <3>2. addr + 1 \in 1 .. Len(program)
      BY <1>6, <2>3, <3>1
    <3> QED
      BY <1>4, <2>2, <2>4, <3>2 DEF Stands
  <2>5. ASSUME ~ UseLabel(line), NEW i \in 1 .. Len(bytes)
        PROVE  program'[addr + CodeBytes(line) + i] = bytes[i]
    <3>1. addr + CodeBytes(line) + i \in 1 .. Len(program)
      BY <1>6, <2>3, SMTT(40)
    <3>2. program[addr + CodeBytes(line) + i] = bytes[i]
      BY <1>4, <2>5 DEF Stands
    <3> QED
      BY <2>2, <3>1, <3>2
  <2>6. ASSUME line.kind \in {"label", "ram"}
        PROVE  m_labels'[line.name] = Behind(k)
    <3>1. NameKept(k)
      BY <1>2 DEF SourceInv
    <3>2. line.name \in DOMAIN m_labels
      BY <2>6, <3>1 DEF NameKept, Named
    <3>3. m_labels[line.name] = Behind(k)
      BY <1>4, <2>6 DEF Stands
    <3>4. ~ SameName(k, n)
      BY <1>1, <1>2 DEF SourceInv
    <3>5. m_instructions[n].line.kind \in {"label", "ram"} =>
            line.name # m_instructions[n].line.name
      BY <2>6, <3>4 DEF SameName, Named
    <3>6. m_instructions[n].line = Instr.line
      BY DEF Instr
    <3> QED
      BY <3>2, <3>3, <3>5, <3>6, EmittedLabels
  <2> HIDE DEF line, addr, bytes
  <2> QED
    BY <1>7, <2>1, <2>4, <2>5, <2>6 DEF Stands
<1> QED
  BY <1>1, <1>2, <1>3, <1>4, <1>7, <1>8 DEF Lies

(* The new line ends where the image now ends.                             *)
LEMMA EmitAddsOne ==
  ASSUME TInv, SourceInv, Emit, Len(program') < AddrMod, NEW n, n = next
  PROVE  /\ m_instructions'[n].addr = Len(program) /\ Behind(n)' = Len(program')
         /\ Stands(n)'
<1> DEFINE instr == Instr
           line == instr.line
           bytes == instr.bytes
           l == Len(program)
<1>1. /\ n \in 1 .. Len(m_instructions) /\ phase = "emit"
      /\ m_instructions'[n].line = line /\ m_instructions'[n].bytes = bytes
      /\ m_instructions'[n].addr = l % AddrMod
  BY EmittedLines DEF Instr
<1>2. /\ Len(program') = l + CodeBytes(line) + Len(bytes)
      /\ line.kind = "word" => program'[l + 1] = OpcodeOf(line.word)
      /\ \A i \in 1 .. Len(bytes) : program'[l + CodeBytes(line) + i] = bytes[i]
  BY EmittedBytes
<1>3. m_instructions[n] \in Kept /\ Compiled(m_instructions[n])
  BY <1>1 DEF TInv, SourceInv
<1>4. bytes \in Seq(Byte) /\ line \in Lines /\ Compiled(instr)
  BY <1>3 DEF Kept, Instr
<1>5. l \in Nat /\ Len(bytes) \in Nat /\ CodeBytes(line) \in {0, 1}
  BY <1>4 DEF CodeBytes, TInv, TypeOK
<1>6. l < AddrMod /\ m_instructions'[n].addr = l
  BY <1>1, <1>2, <1>5, SmallRemainder, ByteModPositive
<1>7. Behind(n)' = l + CodeBytes(line) + Len(bytes)
  <2>1. PICK k : k = n
    OBVIOUS
  <2>2. Behind(k)' = m_instructions'[k].addr + CodeBytes(m_instructions'[k].line)
                       + Len(m_instructions'[k].bytes)
    BY DEF Behind
  <2> QED
    BY <1>1, <1>6, <2>1, <2>2
<1>8. ASSUME line.kind \in {"label", "ram"}
      PROVE  m_labels'[line.name] = Len(program')
  <2>1. Len(bytes) = 0
    BY <1>4, <1>8, CompiledBytes
  <2>2. Len(program') = l + (IF line.kind = "label" THEN 1 ELSE 0)
    BY <1>2, <1>5, <1>8, <2>1 DEF CodeBytes
  <2>3. AddressOf(line) = Len(program')
    BY <1>5, <2>2, SmallRemainder DEF AddressOf
  <2> QED
    BY <1>8, <2>3, EmittedLabels
<1> HIDE DEF instr, line, bytes, l
<1>9. Stands(n)'
  BY <1>1, <1>2, <1>6, <1>7, <1>8 DEF Stands
<1> QED
  BY <1>2, <1>6, <1>7, <1>9 DEF l

(* ... and the image as far as it is built.                                *)
LEMMA EmitKeepsImage ==
  ASSUME TInv, SourceInv, AnnouncedInv, ImageInv, ReservedInv, Emit
  PROVE  AnnouncedInv' /\ ImageInv' /\ ReservedInv'
<1>1. PICK n : n = next
  OBVIOUS
<1>2. /\ n \in 1 .. Len(m_instructions) /\ next' = n + 1
      /\ phase = "emit" /\ phase' = "emit"
      /\ Len(m_instructions') = Len(m_instructions)
      /\ \A k \in 1 .. Len(m_instructions) :
           /\ m_instructions'[k].line = m_instructions[k].line
           /\ m_instructions'[k].bytes = m_instructions[k].bytes
           /\ k # n => m_instructions'[k].addr = m_instructions[k].addr
      /\ m_instructions'[n].addr = Len(program) % AddrMod
  BY <1>1, EmittedLines
<1>3. AnnouncedInv'
  <2>1. result'.rom = result.rom /\ result.rom \in Nat
    BY EmittedResult DEF TInv, TypeOK
  <2> QED
    BY <1>2, <2>1 DEF AnnouncedInv
<1>4. /\ Emitted = n - 1 /\ Building /\ Emitted' = n /\ Patched' = 0
  BY <1>1, <1>2 DEF Emitted, Building, Patched
<1>5. Len(program) \in Nat /\ Len(program') \in Nat /\ Len(program) <= Len(program')
  <2>1. m_instructions[n] \in Kept
    BY <1>2 DEF TInv
  <2>2. Instr.bytes \in Seq(Byte) /\ Instr.line \in Lines
    BY <1>1, <2>1 DEF Kept, Instr
  <2>3. Len(program') = Len(program) + CodeBytes(Instr.line) + Len(Instr.bytes)
    BY EmittedBytes
  <2>4. Len(program) \in Nat
    BY DEF TInv, TypeOK
  <2>5. CodeBytes(Instr.line) \in {0, 1}
    BY DEF CodeBytes
  <2> QED
    BY <2>2, <2>3, <2>4, <2>5
<1>6. ASSUME Len(program') < AddrMod
      PROVE  \A k \in 1 .. n : Lies(k)' /\ Stands(k)'
  <2>1. Len(program) < AddrMod
    BY <1>5, <1>6, ByteModPositive
  <2>2. /\ m_instructions'[n].addr = Len(program) /\ Behind(n)' = Len(program')
        /\ Stands(n)'
    BY <1>1, <1>6, EmitAddsOne
  <2>3. \A k \in 1 .. n - 1 :
          /\ Behind(k)' = Behind(k) /\ Behind(k) \in Nat /\ Behind(k) <= Len(program)
          /\ m_instructions'[k].addr = m_instructions[k].addr
          /\ k = n - 1 => Behind(k) = Len(program)
          /\ k > 1 => m_instructions[k].addr = Behind(k - 1)
          /\ \A j \in 1 .. k - 1 : Behind(j) <= m_instructions[k].addr
          /\ Stands(k)'
    BY <1>1, <2>1, EmitKeepsOthers
  <2> SUFFICES ASSUME NEW k \in 1 .. n
               PROVE  Lies(k)' /\ Stands(k)'
    OBVIOUS
  <2>4. CASE k = n
    <3>1. Behind(k)' <= Len(program')
      BY <1>5, <2>2, <2>4
    <3>2. k > 1 => m_instructions'[k].addr = Behind(k - 1)'
      BY <1>2, <2>2, <2>3, <2>4
    <3>3. \A j \in 1 .. k - 1 : Behind(j)' <= m_instructions'[k].addr
      BY <2>2, <2>3, <2>4
    <3> QED
      BY <2>2, <2>4, <3>1, <3>2, <3>3 DEF Lies
  <2>5. CASE k \in 1 .. n - 1
    <3>1. Behind(k)' <= Len(program') /\ k # n
      <4>1. k # n
        BY <1>2, <2>5
      <4>2. PICK b \in Nat : Behind(k)' = b /\ b <= Len(program)
        BY <2>3, <2>5
      <4> QED
        BY <1>5, <4>1, <4>2
    <3>2. k > 1 => m_instructions'[k].addr = Behind(k - 1)'
      <4>1. k > 1 => k - 1 \in 1 .. n - 1
        BY <1>2, <2>5
      <4> QED
        BY <2>3, <2>5, <4>1
    <3>3. \A j \in 1 .. k - 1 : Behind(j)' <= m_instructions'[k].addr
      <4>1. \A j \in 1 .. k - 1 : j \in 1 .. n - 1
        BY <1>2, <2>5
      <4> QED
        BY <2>3, <2>5, <4>1
    <3> QED
      BY <1>4, <2>3, <2>5, <3>1, <3>2, <3>3 DEF Lies
  <2> QED
    BY <1>2, <2>4, <2>5
<1>7. ImageInv'
  BY <1>4, <1>6 DEF ImageInv
<1>8. ReservedInv'
  <2> SUFFICES ASSUME Len(program') <= AddrMod, NEW k \in 1 .. n,
                      UseLabel(m_instructions'[k].line)
               PROVE  m_instructions'[k].addr + 3 <= Len(program')
    BY <1>4 DEF ReservedInv
  <2>1. UseLabel(m_instructions[k].line)
    BY <1>2
  <2>2. CASE k \in 1 .. n - 1
    <3>1. m_instructions[k].addr + 3 <= Len(program)
      BY <1>4, <1>5, <2>1, <2>2, ByteModPositive DEF ReservedInv
    <3>2. m_instructions[k] \in Kept
      BY <1>2 DEF TInv
    <3>3. m_instructions[k].addr \in Nat
      BY <3>2 DEF Kept
    <3> QED
      BY <1>2, <1>5, <2>2, <3>1, <3>3
  <2>3. CASE k = n
    <3>1. m_instructions[n] \in Kept /\ Compiled(m_instructions[n])
      BY <1>2 DEF TInv, SourceInv
    <3>2. Len(m_instructions[n].bytes) = 2
      BY <2>1, <2>3, <3>1, CompiledBytes DEF Kept
    <3>3. CodeBytes(m_instructions[n].line) = 1
      BY <2>1, <2>3 DEF UseLabel, CodeBytes
    <3>4. Len(program') = Len(program) + 1 + 2
      BY <1>1, <3>2, <3>3, EmittedBytes DEF Instr
    <3>5. Len(program) < AddrMod
      BY <1>5, <3>4, ByteModPositive
    <3>6. m_instructions'[n].addr = Len(program)
      BY <1>2, <1>5, <3>5, SmallRemainder
    <3> QED
      BY <1>5, <2>3, <3>4, <3>6
  <2> QED
    BY <1>2, <2>2, <2>3
<1> QED
  BY <1>3, <1>7, <1>8


-----------------------------------------------------------------------------
(* The second pass.                                                        *)

LEMMA Replaced ==
  ASSUME NEW s \in Seq(Byte), NEW i \in Nat, NEW b \in Byte
  PROVE  /\ ReplaceAt(s, i, b) \in Seq(Byte) /\ Len(ReplaceAt(s, i, b)) = Len(s)
         /\ \A k \in 1 .. Len(s) : ReplaceAt(s, i, b)[k] = IF k = i THEN b ELSE s[k]
<1>1. ReplaceAt(s, i, b) = [s EXCEPT ![i] = b]
  BY DEF ReplaceAt
<1> DEFINE t == [s EXCEPT ![i] = b]
<1>2. s \in [1 .. Len(s) -> Byte] /\ Len(s) \in Nat
  OBVIOUS
<1>3. t \in [1 .. Len(s) -> Byte]
  BY <1>2
<1>4. \A k \in 1 .. Len(s) : t[k] = IF k = i THEN b ELSE s[k]
  BY <1>2
<1> HIDE DEF t
<1>5. t \in Seq(Byte) /\ Len(t) = Len(s)
  BY <1>2, <1>3
<1> QED
  BY <1>1, <1>4, <1>5 DEF t

(* The address of a label makes two bytes.                                 *)
LEMMA LabelBytes ==
  ASSUME TInv, NEW l \in DOMAIN m_labels
  PROVE  /\ m_labels[l] % ByteMod \in Byte /\ m_labels[l] \div ByteMod \in Byte
         /\ m_labels[l] = (m_labels[l] % ByteMod) + ByteMod * (m_labels[l] \div ByteMod)
<1> DEFINE B == ByteMod
           a == m_labels[l]
           q == a \div B
           r == a % B
<1>1. B \in Nat \ {0} /\ a \in Nat /\ a < B * B
  <2>1. a \in 0 .. AddrMod - 1
    BY DEF TInv, TypeOK
  <2> DEFINE C == B * B
  <2>2. C \in Nat /\ AddrMod \in Nat /\ AddrMod <= C
    BY ByteModPositive
  <2> HIDE DEF C, a
  <2>3. a \in Nat /\ a < C
    BY <2>1, <2>2
  <2> QED
    BY <2>3, ByteModPositive DEF C
<1>2. q \in Nat /\ r \in 0 .. B - 1 /\ a = B * q + r
  BY <1>1, Division
<1> HIDE DEF a, q, r
<1>3. q < B
  <2> SUFFICES ASSUME B <= q PROVE FALSE
    BY <1>1, <1>2
  <2>1. B * B \in Nat /\ B * q \in Nat /\ B * B <= B * q
    BY <1>1, <1>2, Bigger
  <2> QED
    BY <1>1, <1>2, <2>1
<1>4. q \in Byte /\ r \in Byte
  BY <1>1, <1>2, <1>3 DEF Byte
<1>5. B * q \in Nat
  BY <1>1, <1>2
<1>6. a = r + B * q
  BY <1>2, <1>5
<1> QED
  BY <1>4, <1>6 DEF a, q, r

(* Two bytes of the image are replaced, wherever they are.                 *)
LEMMA PatchedImage ==
  ASSUME TInv, Patch, UseLabel(Instr.line), NEW i, i = ArgsIndex(Instr)
  PROVE  /\ i \in Nat /\ Instr.line.name \in DOMAIN m_labels
         /\ program' \in Seq(Byte) /\ Len(program') = Len(program)
         /\ \A k \in 1 .. Len(program) :
              program'[k] = CASE k = i + 1 -> m_labels[Instr.line.name] \div ByteMod
                              [] k = i     -> m_labels[Instr.line.name] % ByteMod
                              [] OTHER     -> program[k]
<1>1. next \in 1 .. Len(m_instructions) /\ program \in Seq(Byte)
  BY DEF Patch, TInv, TypeOK
<1>2. i \in Nat
  <2>1. m_instructions[next] \in Kept
    BY <1>1 DEF TInv
  <2>2. Instr.addr + 1 \in Nat
    BY <2>1 DEF Kept, Instr
  <2> DEFINE a == Instr.addr + 1
  <2>3. a \in Nat /\ i = (a % AddrMod) + 1
    BY <2>2 DEF ArgsIndex
  <2> HIDE DEF a
  <2> QED
    BY <2>3, ByteModPositive
<1>3. Instr.line.name \in DOMAIN m_labels
  BY DEF Patch
<1> DEFINE low == m_labels[Instr.line.name] % ByteMod
           high == m_labels[Instr.line.name] \div ByteMod
           half == ReplaceAt(program, i, low)
           whole == ReplaceAt(half, i + 1, high)
<1>4. low \in Byte /\ high \in Byte
  BY <1>3, LabelBytes
<1>5. program' = whole
  BY DEF Patch
<1> HIDE DEF low, high
<1>6. /\ half \in Seq(Byte) /\ Len(half) = Len(program)
      /\ \A k \in 1 .. Len(program) : half[k] = IF k = i THEN low ELSE program[k]
  BY <1>1, <1>2, <1>4, Replaced, ZenonT(40)
<1> HIDE DEF half
<1>7. /\ whole \in Seq(Byte) /\ Len(whole) = Len(half)
      /\ \A k \in 1 .. Len(half) : whole[k] = IF k = i + 1 THEN high ELSE half[k]
  <2>1. PICK j \in Nat : j = i + 1
    BY <1>2
  <2>2. /\ ReplaceAt(half, j, high) \in Seq(Byte) /\ Len(ReplaceAt(half, j, high)) = Len(half)
        /\ \A k \in 1 .. Len(half) :
             ReplaceAt(half, j, high)[k] = IF k = j THEN high ELSE half[k]
    <3>1. half \in Seq(Byte) /\ high \in Byte
      BY <1>4, <1>6
    <3> QED
      BY <3>1, Replaced, SMTT(40)
  <2> QED
    BY <2>1, <2>2
<1> HIDE DEF whole
<1>8. \A k \in 1 .. Len(program) : program'[k] = CASE k = i + 1 -> high
                                                   [] k = i     -> low
                                                   [] OTHER     -> program[k]
  BY <1>2, <1>5, <1>6, <1>7
<1> QED
  BY <1>2, <1>3, <1>5, <1>6, <1>7, <1>8 DEF low, high

(* The second pass leaves the source alone, ...                            *)
LEMMA PatchKeepsSource ==
  ASSUME TInv, SourceInv, Patch
  PROVE  TInv' /\ SourceInv'
<1>1. program' \in Seq(Byte)
  <2>1. CASE UseLabel(Instr.line)
    BY <2>1, PatchedImage
  <2>2. CASE ~ UseLabel(Instr.line)
    BY <2>2 DEF Patch, TInv, TypeOK
  <2> QED
    BY <2>1, <2>2
<1>2. /\ UNCHANGED <<phase, m_instructions, m_labels, read, result>>
      /\ next' \in 1 .. Len(m_instructions) + 1
  BY DEF Patch, TInv, TypeOK
<1>3. /\ \A l \in DOMAIN m_labels : m_labels[l] \in 0 .. AddrMod - 1
      /\ phase \in {"ready", "parse", "emit", "patch"}
      /\ read \in 0 .. MaxLines /\ result \in [ram : Nat, rom : Nat, constants : Nat]
  BY DEF TInv, TypeOK
<1> QED
  BY <1>1, <1>2, <1>3, SameLinesKeeps

(* The two bytes are those reserved for the label.                         *)
LEMMA PatchedPlace ==
  ASSUME TInv, ReservedInv, Patch, UseLabel(Instr.line), Len(program) <= AddrMod,
         NEW a, a = Instr.addr
  PROVE  /\ a \in Nat /\ a + 3 <= Len(program)
         /\ Instr.line.name \in DOMAIN m_labels
         /\ program' \in Seq(Byte) /\ Len(program') = Len(program)
         /\ program'[a + 2] = m_labels[Instr.line.name] % ByteMod
         /\ program'[a + 3] = m_labels[Instr.line.name] \div ByteMod
         /\ \A k \in 1 .. Len(program) :
              k < a + 2 \/ a + 3 < k => program'[k] = program[k]
<1>1. next \in 1 .. Len(m_instructions) /\ phase = "patch" /\ Len(program) \in Nat
  BY DEF Patch, TInv, TypeOK
<1>2. m_instructions[next] \in Kept
  BY <1>1 DEF TInv
<1>3. a \in Nat
  BY <1>2 DEF Kept, Instr
<1>4. a + 3 <= Len(program)
  BY <1>1 DEF ReservedInv, Building, Emitted, Instr
<1>5. (a + 1) % AddrMod = a + 1
  BY <1>1, <1>3, <1>4, SmallRemainder, ByteModPositive
<1>6. ArgsIndex(Instr) = a + 2
  BY <1>3, <1>5 DEF ArgsIndex
<1>7. /\ Instr.line.name \in DOMAIN m_labels
      /\ program' \in Seq(Byte) /\ Len(program') = Len(program)
      /\ \A k \in 1 .. Len(program) :
           program'[k] = CASE k = (a + 2) + 1 -> m_labels[Instr.line.name] \div ByteMod
                           [] k = a + 2       -> m_labels[Instr.line.name] % ByteMod
                           [] OTHER           -> program[k]
  BY <1>6, PatchedImage
<1>8. a + 2 \in 1 .. Len(program) /\ a + 3 \in 1 .. Len(program) /\ a + 3 = (a + 2) + 1
  BY <1>1, <1>3, <1>4
<1>9. \A k \in 1 .. Len(program) :
        k < a + 2 \/ a + 3 < k => program'[k] = program[k]
  BY <1>3, <1>7
<1>10. /\ program'[a + 2] = m_labels[Instr.line.name] % ByteMod
       /\ program'[a + 3] = m_labels[Instr.line.name] \div ByteMod
  <2> DEFINE low == m_labels[Instr.line.name] % ByteMod
             high == m_labels[Instr.line.name] \div ByteMod
  <2> HIDE DEF low, high
  <2>1. \A k \in 1 .. Len(program) : program'[k] = CASE k = (a + 2) + 1 -> high
                                                     [] k = a + 2       -> low
                                                     [] OTHER           -> program[k]
    BY <1>7 DEF low, high
  <2>2. program'[a + 2] = low /\ program'[a + 3] = high
    BY <1>3, <1>8, <2>1
  <2> QED
    BY <2>2 DEF low, high
<1> QED
  BY <1>3, <1>4, <1>7, <1>9, <1>10

(* What is known of a line.                                                *)
LEMMA LineFacts ==
  ASSUME TInv, SourceInv, NEW k \in 1 .. Len(m_instructions)
  PROVE  /\ m_instructions[k].addr \in Nat /\ m_instructions[k].bytes \in Seq(Byte)
         /\ Len(m_instructions[k].bytes) \in Nat
         /\ CodeBytes(m_instructions[k].line) \in {0, 1}
         /\ Behind(k) \in Nat
         /\ m_instructions[k].line.kind = "word" => CodeBytes(m_instructions[k].line) = 1
         /\ UseLabel(m_instructions[k].line) =>
              /\ m_instructions[k].line.kind = "word"
              /\ Behind(k) = m_instructions[k].addr + 3
<1>1. m_instructions[k] \in Kept /\ Compiled(m_instructions[k])
  BY DEF TInv, SourceInv
<1>2. /\ m_instructions[k].addr \in Nat /\ m_instructions[k].bytes \in Seq(Byte)
      /\ m_instructions[k].line \in Lines
  BY <1>1 DEF Kept
<1>3. CodeBytes(m_instructions[k].line) \in {0, 1}
  BY DEF CodeBytes
<1>4. m_instructions[k].line.kind = "word" => CodeBytes(m_instructions[k].line) = 1
  BY DEF CodeBytes
<1>5. UseLabel(m_instructions[k].line) => /\ m_instructions[k].line.kind = "word"
                                           /\ Len(m_instructions[k].bytes) = 2
  BY <1>1, <1>2, CompiledBytes DEF UseLabel
<1>6. Len(m_instructions[k].bytes) \in Nat
  BY <1>2
<1>7. Behind(k) \in Nat
  <2>1. Behind(k) = m_instructions[k].addr + CodeBytes(m_instructions[k].line)
                      + Len(m_instructions[k].bytes)
    BY DEF Behind
  <2> QED
    BY <1>2, <1>3, <1>6, <2>1
<1>8. UseLabel(m_instructions[k].line) => Behind(k) = m_instructions[k].addr + 3
  <2> SUFFICES ASSUME UseLabel(m_instructions[k].line)
               PROVE  Behind(k) = m_instructions[k].addr + 3
    OBVIOUS
  <2>1. CodeBytes(m_instructions[k].line) = 1 /\ Len(m_instructions[k].bytes) = 2
    BY <1>4, <1>5
  <2> QED
    BY <1>2, <2>1 DEF Behind
<1> QED
  BY <1>2, <1>3, <1>4, <1>5, <1>6, <1>7, <1>8

(* The lines before and behind are left as they are.                       *)
LEMMA PatchKeepsLines ==
  ASSUME TInv, SourceInv, ImageInv, ReservedInv, Patch, Len(program) < AddrMod,
         NEW k \in 1 .. Len(m_instructions)
  PROVE  Lies(k)' /\ Stands(k)' /\ (k <= next => PatchStands(k)')
<1>1. PICK n : n = next
  OBVIOUS
<1> DEFINE line == m_instructions[k].line
           addr == m_instructions[k].addr
           bytes == m_instructions[k].bytes
           jump == m_instructions[n]
<1>2. /\ n \in 1 .. Len(m_instructions) /\ phase = "patch" /\ phase' = "patch"
      /\ UNCHANGED <<m_instructions, m_labels>> /\ Len(program) \in Nat
      /\ jump = Instr
  BY <1>1 DEF Patch, TInv, TypeOK, Instr
<1>3. /\ Emitted = Len(m_instructions) /\ Emitted' = Emitted /\ Patched = n - 1
      /\ Building
  BY <1>1, <1>2 DEF Emitted, Patched, Building
<1>4. /\ \A j \in 1 .. Len(m_instructions) : Lies(j) /\ Stands(j)
      /\ k < n => PatchStands(k)
  BY <1>2, <1>3, ByteModPositive DEF ImageInv
<1>5. /\ addr \in Nat /\ bytes \in Seq(Byte) /\ Len(bytes) \in Nat
      /\ CodeBytes(line) \in {0, 1} /\ Behind(k) \in Nat
      /\ line.kind = "word" => CodeBytes(line) = 1
      /\ UseLabel(line) => line.kind = "word" /\ Behind(k) = addr + 3
      /\ Behind(k) = addr + CodeBytes(line) + Len(bytes)
  BY LineFacts DEF Behind
<1>6. /\ jump.addr \in Nat
      /\ UseLabel(jump.line) => jump.line.kind = "word" /\ Behind(n) = jump.addr + 3
  BY <1>2, LineFacts
<1>7. Behind(k) <= Len(program)
  BY <1>4 DEF Lies
<1>8. Behind(k)' = Behind(k)
  BY <1>2 DEF Behind
<1>9. Len(program') = Len(program) /\ Lies(k)'
  <2>1. Len(program') = Len(program)
    BY <1>2, ByteModPositive, PatchedPlace, SMTT(40) DEF Patch
  <2>2. \A j \in 1 .. Len(m_instructions) : Behind(j)' = Behind(j)
    BY <1>2 DEF Behind
  <2>3. Lies(k)
    BY <1>4
  <2>4. k > 1 => Behind(k - 1)' = Behind(k - 1)
    BY <2>2
  <2>5. \A j \in 1 .. k - 1 : Behind(j)' = Behind(j)
    BY <2>2
  <2> QED
    BY <1>2, <1>3, <1>8, <2>1, <2>3, <2>4, <2>5 DEF Lies
<1>10. \A p \in 1 .. Len(program) :
         addr < p /\ p <= Behind(k) =>
           \/ program'[p] = program[p]
           \/ /\ UseLabel(jump.line) /\ k = n
              /\ p \in {addr + 2, addr + 3}
  <2> SUFFICES ASSUME NEW p \in 1 .. Len(program), addr < p, p <= Behind(k),
                      program'[p] # program[p]
               PROVE  UseLabel(jump.line) /\ k = n /\ p \in {addr + 2, addr + 3}
    OBVIOUS
  <2>1. UseLabel(jump.line)
    BY <1>2 DEF Patch
  <2>2. jump.addr + 2 <= p /\ p <= jump.addr + 3
    BY <1>2, <1>6, <2>1, ByteModPositive, PatchedPlace
  <2>3. Behind(n) = jump.addr + 3
    BY <1>6, <2>1
  <2>4. ~ k < n
    <3>1. k < n => Behind(k) <= jump.addr
      BY <1>2, <1>4 DEF Lies
    <3> QED
      BY <1>5, <1>6, <2>2, <3>1
  <2>5. ~ n < k
    <3>1. n < k => Behind(n) <= addr
      BY <1>2, <1>4 DEF Lies
    <3> QED
      BY <1>5, <1>6, <2>2, <2>3, <3>1, SMTT(40)
  <2>6. k = n
    BY <1>2, <2>4, <2>5
  <2> QED
    BY <1>5, <2>1, <2>2, <2>6
<1>11. Stands(k)'
  <2>1. line.kind = "word" => program'[addr + 1] = OpcodeOf(line.word)
    <3>1. line.kind = "word" => addr + 1 \in 1 .. Len(program) /\ addr + 1 <= Behind(k)
      BY <1>5, <1>7
    <3>2. line.kind = "word" => program[addr + 1] = OpcodeOf(line.word)
      BY <1>4 DEF Stands
    <3>3. addr < addr + 1 /\ addr + 1 \notin {addr + 2, addr + 3}
      BY <1>5
    <3>4. line.kind = "word" => program'[addr + 1] = program[addr + 1]
      BY <1>10, <3>1, <3>3, Zenon
    <3> QED
      BY <3>2, <3>4
  <2>2. ASSUME ~ UseLabel(line), NEW i \in 1 .. Len(bytes)
        PROVE  program'[addr + CodeBytes(line) + i] = bytes[i]
    <3>1. /\ addr + CodeBytes(line) + i \in 1 .. Len(program)
          /\ addr < addr + CodeBytes(line) + i /\ addr + CodeBytes(line) + i <= Behind(k)
      BY <1>5, <1>7, SMTT(40)
    <3>2. program[addr + CodeBytes(line) + i] = bytes[i]
      BY <1>4, <2>2 DEF Stands
    <3> QED
      BY <1>10, <2>2, <3>1, <3>2
  <2>3. line.kind \in {"label", "ram"} => m_labels[line.name] = Behind(k)
    BY <1>4 DEF Stands
  <2> QED
    BY <1>2, <1>8, <2>1, <2>2, <2>3 DEF Stands
<1>12. ASSUME k <= n
       PROVE  PatchStands(k)'
  <2>1. CASE k = n
    <3>1. UseLabel(line) =>
            /\ line.name \in DOMAIN m_labels
            /\ program'[addr + 2] = m_labels[line.name] % ByteMod
            /\ program'[addr + 3] = m_labels[line.name] \div ByteMod
      BY <1>2, <2>1, ByteModPositive, PatchedPlace
    <3> QED
      BY <1>2, <3>1 DEF PatchStands
  <2>2. CASE k < n
    <3>1. ASSUME UseLabel(line)
          PROVE  /\ program'[addr + 2] = program[addr + 2]
                 /\ program'[addr + 3] = program[addr + 3]
      <4>1. Behind(k) = addr + 3 /\ addr + 2 \in 1 .. Len(program)
            /\ addr + 3 \in 1 .. Len(program)
        BY <1>2, <1>5, <1>7, <3>1, SMTT(40)
      <4>2. addr < addr + 2 /\ addr < addr + 3 /\ addr + 2 <= Behind(k)
            /\ addr + 3 <= Behind(k) /\ k # n
        BY <1>2, <1>5, <2>2, <4>1
      <4> QED
        BY <1>10, <4>1, <4>2, Zenon
    <3>2. PatchStands(k)
      BY <1>4, <2>2
    <3> QED
      BY <1>2, <3>1, <3>2 DEF PatchStands
  <2> QED
    BY <1>2, <1>12, <2>1, <2>2
<1> QED
  BY <1>1, <1>9, <1>11, <1>12

(* ... and the image but for the labels.                                   *)
LEMMA PatchKeepsImage ==
  ASSUME TInv, SourceInv, AnnouncedInv, ImageInv, ReservedInv, Patch
  PROVE  AnnouncedInv' /\ ImageInv' /\ ReservedInv'
<1>1. PICK n : n = next
  OBVIOUS
<1>2. /\ n \in 1 .. Len(m_instructions) /\ phase = "patch" /\ phase' = "patch"
      /\ UNCHANGED <<m_instructions, m_labels, result>> /\ next' = n + 1
  BY <1>1 DEF Patch, TInv, TypeOK
<1>3. AnnouncedInv'
  BY <1>2 DEF AnnouncedInv
<1>4. /\ Emitted = Len(m_instructions) /\ Emitted' = Emitted /\ Patched' = n /\ Building
  BY <1>1, <1>2 DEF Emitted, Patched, Building
<1>5. Len(program') = Len(program) /\ Len(program) \in Nat
  <2>1. CASE UseLabel(Instr.line)
    BY <2>1, PatchedImage DEF TInv, TypeOK
  <2>2. CASE ~ UseLabel(Instr.line)
    BY <2>2 DEF Patch, TInv, TypeOK
  <2> QED
    BY <2>1, <2>2
<1>6. ImageInv'
  <2>1. Len(program) < AddrMod =>
          \A k \in 1 .. Len(m_instructions) :
            Lies(k)' /\ Stands(k)' /\ (k <= n => PatchStands(k)')
    BY <1>1, PatchKeepsLines
  <2>2. \A k \in 1 .. n : k \in 1 .. Len(m_instructions) /\ k <= n
    BY <1>2
  <2> QED
    BY <1>2, <1>4, <1>5, <2>1, <2>2 DEF ImageInv
<1>7. ReservedInv'
  BY <1>2, <1>4, <1>5 DEF ReservedInv
<1> QED
  BY <1>3, <1>6, <1>7

-----------------------------------------------------------------------------
(* The other steps.                                                        *)

(* Parse() and a failed build announce nothing.                            *)
LEMMA ParseKeepsImage ==
  ASSUME TInv, AnnouncedInv, Parse \/ LabelNotFound
  PROVE  AnnouncedInv' /\ ImageInv' /\ ReservedInv'
<1>1. phase' \in {"ready", "parse"} /\ result'.rom = 0
  <2>1. CASE BeginParse
    BY <2>1 DEF BeginParse, NoResult
  <2>2. CASE EndParse \/ LabelNotFound
    BY <2>2 DEF EndParse, LabelNotFound, TInv, TypeOK, AnnouncedInv
  <2>3. ASSUME NEW line \in Lines,
               ParseName(line) \/ ParseMnemonic(line) \/ ParseUnknown(line) \/ ParseError(line)
        PROVE  phase' \in {"ready", "parse"} /\ result'.rom = 0
    <3>1. phase = "parse" /\ phase' \in {"ready", "parse"} /\ result' = result
      BY <2>3 DEF ParseName, ParseMnemonic, ParseUnknown, ParseError, ReadLine, Accept
    <3> QED
      BY <3>1 DEF TInv, TypeOK, AnnouncedInv
  <2> QED
    BY <2>1, <2>2, <2>3 DEF Parse
<1>2. ~ Building'
  BY <1>1 DEF Building
<1> QED
  BY <1>1, <1>2 DEF AnnouncedInv, ImageInv, ReservedInv

(* Where the image, its lines and its labels stay, so does what holds.     *)
LEMMA SameImageKeeps ==
  ASSUME TInv, ImageInv, ReservedInv, UNCHANGED <<m_instructions, m_labels, program>>,
         Building' => Building, Emitted' = Emitted, NEW e, e = Patched,
         NEW d, d = Patched', d = 0 \/ d = e
  PROVE  ImageInv' /\ ReservedInv'
<1>1. \A k : Behind(k)' = Behind(k)
  BY DEF Behind
<1>2. \A k : /\ Lies(k) => Lies(k)'
             /\ Stands(k) => Stands(k)'
             /\ PatchStands(k) => PatchStands(k)'
  BY <1>1 DEF Lies, Stands, PatchStands
<1>3. ImageInv'
  BY <1>2 DEF ImageInv
<1> QED
  BY <1>3 DEF ReservedInv

-----------------------------------------------------------------------------
(* Every step.                                                             *)

LEMMA BeginParseKeeps ==
  ASSUME TInv, BeginParse
  PROVE  TInv' /\ SourceInv'
<1>1. /\ m_instructions' = <<>> /\ m_labels' = [l \in {} |-> 0]
      /\ phase' = "parse" /\ read' = 0 /\ next' = 1 /\ result' = NoResult
      /\ program' \in Seq(Byte)
  BY DEF BeginParse, TInv, TypeOK
<1>2. m_instructions' \in Seq(Kept) /\ Len(m_instructions') = 0
  BY <1>1
<1>3. /\ read' \in 0 .. MaxLines /\ next' \in 1 .. Len(m_instructions') + 1
      /\ result' \in [ram : Nat, rom : Nat, constants : Nat]
  BY <1>1, <1>2, AsmAssumption DEF NoResult
<1>4. TypeOK'
  BY <1>1, <1>2, <1>3 DEF TypeOK
<1> QED
  BY <1>2, <1>4 DEF TInv, SourceInv

(* Every step keeps the source, ...                                        *)
LEMMA NextKeepsSource ==
  ASSUME TInv, SourceInv, [Next]_vars
  PROVE  TInv' /\ SourceInv'
<1>1. /\ \A l \in DOMAIN m_labels : m_labels[l] \in 0 .. AddrMod - 1
      /\ phase \in {"ready", "parse", "emit", "patch"} /\ program \in Seq(Byte)
      /\ read \in 0 .. MaxLines /\ next \in 1 .. Len(m_instructions) + 1
      /\ result \in [ram : Nat, rom : Nat, constants : Nat]
      /\ 1 \in 1 .. Len(m_instructions) + 1 /\ <<>> \in Seq(Byte)
      /\ NoResult \in [ram : Nat, rom : Nat, constants : Nat]
  BY DEF TInv, TypeOK, NoResult
<1>2. CASE BeginParse
  BY <1>2, BeginParseKeeps
<1>3. CASE EndParse
  BY <1>1, <1>3, SameLinesKeeps DEF EndParse
<1>4. ASSUME NEW line \in Lines, ParseUnknown(line)
      PROVE  TInv' /\ SourceInv'
  <2>1. read' \in 0 .. MaxLines
    BY <1>1, <1>4, AsmAssumption DEF ParseUnknown, ReadLine
  <2> QED
    BY <1>1, <1>4, <2>1, SameLinesKeeps DEF ParseUnknown, ReadLine
<1>5. CASE BeginBuild
  <2>1. program' \in Seq(Byte)
    BY <1>1, <1>5 DEF BeginBuild
  <2> QED
    BY <1>1, <1>5, <2>1, SameLinesKeeps DEF BeginBuild
<1>6. CASE EmitDone
  BY <1>1, <1>6, SameLinesKeeps DEF EmitDone
<1>7. CASE LabelNotFound
  BY <1>1, <1>7, SameLinesKeeps DEF LabelNotFound
<1>8. CASE PatchDone
  <2>1. result' \in [ram : Nat, rom : Nat, constants : Nat]
    <3>1. Len(program) \in Nat
      BY <1>1
    <3> QED
      BY <1>1, <1>8, <3>1 DEF PatchDone
  <2> QED
    BY <1>1, <1>8, <2>1, SameLinesKeeps DEF PatchDone
<1>9. CASE UNCHANGED vars
  BY <1>1, <1>9, SameLinesKeeps DEF vars
<1>10. ASSUME NEW line \in Lines, ParseName(line) \/ ParseMnemonic(line) \/ ParseError(line)
       PROVE  TInv' /\ SourceInv'
  BY <1>10, ParseNameKeeps, ParseMnemonicKeeps, ParseErrorKeeps
<1>11. CASE Emit
  BY <1>11, EmitKeepsSource
<1>12. CASE Patch
  BY <1>12, PatchKeepsSource
<1> QED
  BY <1>2, <1>3, <1>4, <1>5, <1>6, <1>7, <1>8, <1>9, <1>10, <1>11, <1>12
     DEF Next, Parse, BuildBinary

(* ... and what is said of the image.                                      *)
LEMMA NextKeepsImage ==
  ASSUME TInv, SourceInv, AnnouncedInv, ImageInv, ReservedInv, [Next]_vars
  PROVE  AnnouncedInv' /\ ImageInv' /\ ReservedInv'
<1>1. /\ next \in 1 .. Len(m_instructions) + 1 /\ Len(m_instructions) \in Nat
      /\ result \in [ram : Nat, rom : Nat, constants : Nat]
  BY DEF TInv, TypeOK
<1>2. CASE Parse \/ LabelNotFound
  BY <1>2, ParseKeepsImage
<1>3. CASE BeginBuild
  <2>1. phase' = "emit" /\ next' = 1 /\ result'.rom = 0
    BY <1>3 DEF BeginBuild, NoResult
  <2>2. Emitted' = 0 /\ Patched' = 0
    BY <2>1 DEF Emitted, Patched
  <2> QED
    BY <2>1, <2>2 DEF AnnouncedInv, ImageInv, ReservedInv
<1>4. CASE Emit
  BY <1>4, EmitKeepsImage
<1>5. CASE EmitDone
  <2>1. /\ phase = "emit" /\ phase' = "patch" /\ next' = 1
        /\ UNCHANGED <<m_instructions, m_labels, program, result>>
        /\ next = Len(m_instructions) + 1
    BY <1>1, <1>5 DEF EmitDone
  <2>2. /\ Building /\ Emitted' = Emitted /\ Patched' = 0
    BY <1>1, <2>1 DEF Building, Emitted, Patched
  <2>3. AnnouncedInv'
    BY <1>1, <2>1 DEF AnnouncedInv
  <2> QED
    BY <2>1, <2>2, <2>3, SameImageKeeps
<1>6. CASE Patch
  BY <1>6, PatchKeepsImage
<1>7. CASE PatchDone
  <2>1. /\ phase = "patch" /\ phase' = "ready"
        /\ UNCHANGED <<m_instructions, m_labels, program>>
        /\ next = Len(m_instructions) + 1
    BY <1>1, <1>7 DEF PatchDone
  <2>2. /\ Building /\ Emitted' = Emitted /\ Patched' = Patched
    BY <1>1, <2>1 DEF Building, Emitted, Patched
  <2>3. AnnouncedInv'
    BY <2>1 DEF AnnouncedInv
  <2> QED
    BY <2>1, <2>2, <2>3, SameImageKeeps
<1>8. CASE UNCHANGED vars
  <2>1. /\ Building' = Building /\ Emitted' = Emitted /\ Patched' = Patched
        /\ UNCHANGED <<m_instructions, m_labels, program>>
    BY <1>8 DEF vars, Building, Emitted, Patched
  <2>2. AnnouncedInv'
    BY <1>8 DEF vars, AnnouncedInv
  <2> QED
    BY <2>1, <2>2, SameImageKeeps
<1> QED
  BY <1>2, <1>3, <1>4, <1>5, <1>6, <1>7, <1>8 DEF Next, BuildBinary

(* The invariant holds of every behaviour.                                 *)
THEOREM Invariant == Spec => []IInv
<1>1. Init => IInv
  <2> SUFFICES ASSUME Init PROVE IInv
    OBVIOUS
  <2>1. 0 \in 0 .. MaxLines /\ <<>> \in Seq(Byte)
        /\ NoResult \in [ram : Nat, rom : Nat, constants : Nat]
    BY AsmAssumption DEF NoResult
  <2>2. TInv /\ SourceInv
    BY <2>1, EmptySource DEF Init
  <2>3. result.rom = 0 /\ phase = "ready"
    BY DEF Init, NoResult
  <2>4. ~ Building
    BY <2>3 DEF Building
  <2> QED
    BY <2>2, <2>3, <2>4 DEF IInv, AnnouncedInv, ImageInv, ReservedInv
<1>2. IInv /\ [Next]_vars => IInv'
  BY NextKeepsSource, NextKeepsImage DEF IInv
<1> QED
  BY <1>1, <1>2, PTL DEF Spec

-----------------------------------------------------------------------------
(* What it gives.                                                          *)

(* The sum of what a line takes up, said of the source and of what is kept.*)
LEMMA EndIsBehind ==
  ASSUME TInv, SourceInv, NEW k \in 1 .. Len(m_instructions),
         WholeTexts(m_instructions[k].line)
  PROVE  EndOf(k) = Behind(k)
<1> DEFINE line == m_instructions[k].line
           bytes == m_instructions[k].bytes
<1>1. m_instructions[k] \in Kept /\ Compiled(m_instructions[k])
  BY DEF TInv, SourceInv
<1>2. line \in Lines /\ m_instructions[k].addr \in Nat /\ bytes \in Seq(Byte)
  BY <1>1 DEF Kept
<1>3. /\ line.kind \in {"label", "ram"} => Len(bytes) = 0
      /\ line.kind = "word" =>
           Len(bytes) = Machine!ArgBytes(Op(line.word)) + Extra(Op(line.word))
      /\ line.kind = "word" => Op(line.word) \in Machine!Ops
  BY <1>1, <1>2, CompiledBytes
<1>4. Size(line) + (IF Divergent(line) THEN 1 ELSE 0) = CodeBytes(line) + Len(bytes)
  <2>1. CASE line.kind \in {"label", "ram"}
    BY <1>3, <2>1 DEF Size, Divergent, CodeBytes
  <2>2. CASE line.kind = "rom"
    <3>1. bytes = CompileConstantArguments(line)
      BY <1>1, <2>2, Zenon DEF Compiled
    <3>2. bytes = Constants(line)
      BY <2>2, <3>1, ConstantsKept
    <3>3. Len(bytes) \in Nat
      BY <1>2
    <3> QED
      BY <2>2, <3>2, <3>3 DEF Size, Divergent, CodeBytes
  <2>3. CASE line.kind = "word"
    <3> DEFINE op == Op(line.word)
    <3>1. (IF Divergent(line) THEN 1 ELSE 0) = Extra(op)
      BY <2>3 DEF Divergent, Extra
    <3>2. Size(line) = 1 + Machine!ArgBytes(op) /\ CodeBytes(line) = 1
      BY <2>3 DEF Size, CodeBytes
    <3>3. Machine!ArgBytes(op) \in Nat /\ Extra(op) \in Nat
      BY <1>3, <2>3, SpecialOps, PlainOps, OpForms DEF Extra
    <3> QED
      BY <1>3, <2>3, <3>1, <3>2, <3>3
  <2> QED
    BY <1>1, <2>1, <2>2, <2>3, Zenon DEF Compiled
<1>5. Size(line) \in Int
  <2>1. CASE line.kind \in {"label", "ram"}
    BY <2>1 DEF Size
  <2>2. CASE line.kind = "rom"
    <3>1. bytes = Constants(line)
      BY <1>1, <2>2, ConstantsKept, Zenon DEF Compiled
    <3> QED
      BY <1>2, <2>2, <3>1 DEF Size
  <2>3. CASE line.kind = "word"
    BY <1>3, <2>3, SpecialOps, PlainOps, OpForms DEF Size
  <2> QED
    BY <1>1, <2>1, <2>2, <2>3, Zenon DEF Compiled
<1> DEFINE m == IF Divergent(line) THEN 1 ELSE 0
<1>6. m \in Int /\ CodeBytes(line) \in Int /\ Len(bytes) \in Int
  BY <1>2 DEF CodeBytes
<1>7. /\ EndOf(k) = m_instructions[k].addr + Size(line) + m
      /\ Behind(k) = m_instructions[k].addr + CodeBytes(line) + Len(bytes)
  BY DEF EndOf, Behind
<1> HIDE DEF m, line, bytes
<1> QED
  BY <1>2, <1>4, <1>5, <1>6, <1>7, SMTT(40) DEF m

(* An image that is announced is whole.                                    *)
LEMMA BuiltImage ==
  ASSUME IInv, Built, NEW k \in 1 .. Len(m_instructions)
  PROVE  Lies(k) /\ Stands(k) /\ PatchStands(k)
<1>1. phase = "ready" /\ Building /\ Len(program) < AddrMod
  BY DEF IInv, AnnouncedInv, Built, Building
<1>2. Emitted = Len(m_instructions) /\ Patched = Len(m_instructions)
  BY <1>1 DEF Emitted, Patched
<1> QED
  BY <1>1, <1>2 DEF IInv, ImageInv

(* Every reachable state has the types that are stated.                    *)
THEOREM TypeCorrect == Spec => []TypeOK
<1>1. IInv => TypeOK
  BY DEF IInv, TInv
<1> QED
  BY <1>1, Invariant, PTL

(* A jump or a call goes behind its label: the label was given the address *)
(* where its line ends, and the two bytes of the jump recompose it.  The   *)
(* names of constants and of data in RAM are left out.                     *)
THEOREM JumpsLandWhereMeant == Spec => []JumpsLand
<1>1. IInv => JumpsLand
  <2> SUFFICES ASSUME IInv, Built, NEW j \in 1 .. Len(m_instructions),
                      NEW k \in 1 .. Len(m_instructions),
                      UseLabel(m_instructions[j].line), m_instructions[k].line.kind = "label",
                      m_instructions[k].line.name = m_instructions[j].line.name
               PROVE  Short(m_instructions[j].addr + 1) = EndOf(k)
    BY DEF JumpsLand, IInv, TInv
  <2> DEFINE name == m_instructions[j].line.name
             a == m_instructions[j].addr
  <2>1. TInv /\ SourceInv
    BY DEF IInv
  <2>2. /\ name \in DOMAIN m_labels
        /\ program[a + 2] = m_labels[name] % ByteMod
        /\ program[a + 3] = m_labels[name] \div ByteMod
    BY BuiltImage DEF PatchStands
  <2>3. a \in Nat
    BY <2>1, LineFacts
  <2>4. Short(a + 1) = program[a + 2] + ByteMod * program[a + 3]
    <3>1. At(a + 1) = program[a + 2] /\ At(a + 1 + 1) = program[a + 3]
      BY <2>3 DEF At
    <3> QED
      BY <3>1 DEF Short
  <2>5. Short(a + 1) = m_labels[name]
    BY <2>1, <2>2, <2>4, LabelBytes
  <2>6. m_labels[name] = Behind(k)
    BY BuiltImage DEF Stands
  <2>7. EndOf(k) = Behind(k)
    BY <2>1, EndIsBehind DEF WholeTexts
  <2> QED
    BY <2>5, <2>6, <2>7
<1> QED
  BY <1>1, Invariant, PTL

(* The second pass changes the two bytes reserved for a label and nothing  *)
(* else, whatever the host's vector held before the image.                 *)
THEOREM PatchesOnlyReserved == Spec => PatchesReserved
<1> DEFINE Reserved ==
      phase = "patch" /\ Len(program) <= AddrMod /\ program' # program =>
        /\ UseLabel(Instr.line)
        /\ Len(program') = Len(program)
        /\ \A p \in DOMAIN program : program'[p] # program[p] =>
             p - 1 \in Instr.addr + 1 .. Instr.addr + 2
<1>1. IInv /\ [Next]_vars => Reserved
  <2> SUFFICES ASSUME IInv, [Next]_vars, phase = "patch", Len(program) <= AddrMod,
                      program' # program
               PROVE  /\ UseLabel(Instr.line)
                      /\ Len(program') = Len(program)
                      /\ \A p \in DOMAIN program : program'[p] # program[p] =>
                           p - 1 \in Instr.addr + 1 .. Instr.addr + 2
    OBVIOUS
  <2>1. Patch
    BY DEF Next, Parse, BuildBinary, BeginParse, EndParse, ParseName, ParseMnemonic,
           ParseUnknown, ParseError, ReadLine, BeginBuild, Emit, EmitDone, LabelNotFound,
           PatchDone, vars
  <2>2. UseLabel(Instr.line)
    BY <2>1 DEF Patch
  <2>3. TInv /\ ReservedInv
    BY DEF IInv
  <2>4. PICK a : a = Instr.addr
    OBVIOUS
  <2>5. /\ a \in Nat /\ Len(program') = Len(program)
        /\ \A k \in 1 .. Len(program) :
             k < a + 2 \/ a + 3 < k => program'[k] = program[k]
    BY <2>1, <2>2, <2>3, <2>4, PatchedPlace
  <2>6. DOMAIN program = 1 .. Len(program) /\ Len(program) \in Nat
    BY <2>3 DEF TInv, TypeOK
  <2>7. \A p \in DOMAIN program : program'[p] # program[p] => p - 1 \in a + 1 .. a + 2
    BY <2>5, <2>6
  <2> QED
    BY <2>2, <2>4, <2>5, <2>7
<1>2. [][Reserved]_vars <=> PatchesReserved
  BY PTL DEF PatchesReserved
<1> HIDE DEF Reserved
<1> QED
  BY <1>1, <1>2, Invariant, PTL DEF Spec

(* A stretch of the image that holds the bytes is the bytes.               *)
LEMMA Stretch ==
  ASSUME NEW p \in Seq(Byte), NEW c \in Seq(Byte), NEW a \in Nat, a + Len(c) <= Len(p),
         \A i \in 1 .. Len(c) : p[a + i] = c[i]
  PROVE  SubSeq(p, a + 1, a + Len(c)) = c
<1> DEFINE s == SubSeq(p, a + 1, a + Len(c))
<1>1. Len(c) \in Nat /\ Len(p) \in Nat
  OBVIOUS
<1>2. s \in Seq(Byte) /\ Len(s) = Len(c)
  BY <1>1
<1>3. \A i \in 1 .. Len(c) : s[i] = p[a + i]
  BY <1>1
<1> HIDE DEF s
<1>4. s = c
  BY <1>2, <1>3, SeqEqual
<1> QED
  BY <1>4 DEF s

(* The texts of the source are single words.  One with a blank is read as  *)
(* zeros, which the run chip32_asm_text shows, and so is an empty one.     *)
WholeSource == \A k \in DOMAIN m_instructions : WholeTexts(m_instructions[k].line)

(* Whoever reads an announced image as the machine does finds the source:  *)
(* the lines end to end, every opcode and operand, every constant.         *)
THEOREM ImageIsTheSource == Spec => [](WholeSource => ImageIsSource)
<1>1. IInv => (WholeSource => ImageIsSource)
  <2> SUFFICES ASSUME IInv, WholeSource, Built, NEW k \in 1 .. Len(m_instructions)
               PROVE  ReadsBack(k)
    BY DEF ImageIsSource, IInv, TInv
  <2> DEFINE line == m_instructions[k].line
             bytes == m_instructions[k].bytes
             a == m_instructions[k].addr
  <2>1. TInv /\ SourceInv
    BY DEF IInv
  <2>2. \A j \in 1 .. Len(m_instructions) : EndOf(j) = Behind(j)
    <3>1. \A j \in 1 .. Len(m_instructions) : WholeTexts(m_instructions[j].line)
      BY <2>1 DEF WholeSource, TInv
    <3> QED
      BY <2>1, <3>1, EndIsBehind
  <2>3. Lies(k) /\ Stands(k)
    BY BuiltImage
  <2>4. Compiled(m_instructions[k]) /\ m_instructions[k] \in Kept
    BY <2>1 DEF SourceInv, TInv
  <2>5. a \in Nat /\ bytes \in Seq(Byte) /\ line \in Lines /\ program \in Seq(Byte)
    BY <2>1, <2>4 DEF Kept, TInv, TypeOK
  <2>6. k > 1 => a = EndOf(k - 1)
    <3>1. k > 1 => k - 1 \in 1 .. Len(m_instructions)
      OBVIOUS
    <3> QED
      BY <2>2, <2>3, <3>1 DEF Lies
  <2>7. EndOf(k) <= Len(program)
    BY <2>2, <2>3 DEF Lies
  <2>8. ASSUME line.kind = "rom"
        PROVE  SubSeq(program, a + 1, a + Len(Constants(line))) = Constants(line)
    <3>1. bytes = CompileConstantArguments(line)
      BY <2>4, <2>8, Zenon DEF Compiled
    <3>2. bytes = Constants(line)
      <4>1. WholeTexts(line)
        BY <2>1 DEF WholeSource, TInv
      <4> QED
        BY <2>5, <2>8, <3>1, <4>1, ConstantsKept
    <3>3. CodeBytes(line) = 0 /\ ~ UseLabel(line)
      BY <2>8 DEF CodeBytes, UseLabel
    <3>4. \A i \in 1 .. Len(bytes) : program[a + i] = bytes[i]
      <4>1. \A i \in 1 .. Len(bytes) : program[a + CodeBytes(line) + i] = bytes[i]
        BY <2>3, <3>3 DEF Stands
      <4> QED
        BY <2>5, <3>3, <4>1
    <3>5. a + Len(bytes) <= Len(program)
      BY <2>3, <2>5, <3>3 DEF Lies, Behind
    <3>6. SubSeq(program, a + 1, a + Len(bytes)) = bytes
      BY <2>5, <3>4, <3>5, Stretch
    <3> QED
      BY <3>2, <3>6
  <2>9. line.kind = "word" => At(a) = OpcodeOf(line.word)
    BY <2>3 DEF Stands, At
  <2>10. ASSUME line.kind = "word", ~ UseLabel(line), ~ Divergent(line)
         PROVE  Operands(Op(line.word), a + 1) = Meant(Op(line.word), line.args)
    <3>1. /\ Op(line.word) \in Machine!Ops
          /\ HasOperands(Op(line.word), line.args)
      BY <2>4, <2>5, <2>10, CompiledBytes
    <3>2. bytes \in CompileMnemonicArguments(Op(line.word), line.args)
      BY <2>4, <2>10, Zenon DEF Compiled
    <3>3. ~ TakesLabel(Op(line.word)) /\ Op(line.word) # "not"
      BY <2>10 DEF UseLabel, Divergent
    <3>4. \A i \in 1 .. Len(bytes) : program[a + 1 + i] = bytes[i]
      <4>1. CodeBytes(line) = 1
        BY <2>10 DEF CodeBytes
      <4> QED
        BY <2>3, <2>10, <4>1 DEF Stands
    <3> HIDE DEF line, bytes, a
    <3> QED
      BY <2>5, <3>1, <3>2, <3>3, <3>4, OperandsRead
  <2> QED
    BY <2>6, <2>7, <2>8, <2>9, <2>10 DEF ReadsBack
<1> QED
  BY <1>1, Invariant, PTL

-----------------------------------------------------------------------------
(* The image in the machine.                                               *)

(* The machine of Chip32 with size bytes of ROM, which hold mem, running   *)
(* with the registers regs, without a limit and not about to skip.         *)
Cpu(size, mem, regs) == INSTANCE Chip32 WITH
  RomSize <- size, RamSize <- 4, Alu <- NoAlu,
  RomAddr <- 4, RamAddr <- 0, StackSize <- 0, ProgSize <- 0,
  Roms <- {}, Budgets <- {}, HostWrites <- {},
  rom <- mem, ram <- <<>>, reg <- regs,
  status <- "running", skip <- FALSE, count <- 0, budget <- 0

(* The host has copied the image to the beginning of ROM.                  *)
Loaded(size, mem) ==
  /\ size \in Nat /\ Len(program) <= size
  /\ \A a \in 0 .. Len(program) - 1 : mem[a] = program[a + 1]

(* The operands that its instructions take.                                *)
Taken(op, size, mem, regs) ==
  CASE op = "lcons" -> <<Cpu(size, mem, regs)!Arg(1),
                         Cpu(size, mem, regs)!Join(Cpu(size, mem, regs)!Arg(2),
                           Cpu(size, mem, regs)!Arg(3), Cpu(size, mem, regs)!Arg(4),
                           Cpu(size, mem, regs)!Arg(5))>>
    [] op = "store" -> <<Cpu(size, mem, regs)!Short(1), Cpu(size, mem, regs)!Arg(3)>>
    [] op = "load"  -> <<Cpu(size, mem, regs)!Arg(1), Cpu(size, mem, regs)!Short(2)>>
    [] OTHER        -> [i \in 1 .. Machine!ArgBytes(op) |-> Cpu(size, mem, regs)!Arg(i)]

(* What it finds behind the opcode is what the assembler put there.        *)
LEMMA ArgIsAt ==
  ASSUME NEW size, NEW mem, Loaded(size, mem), NEW regs, NEW a \in Nat, regs[16] = a,
         NEW n \in Nat, a + n < Len(program), NEW i \in 0 .. n
  PROVE  /\ Cpu(size, mem, regs)!Arg(i) = At(a + i)
         /\ mem[a + i] = At(a + i) /\ a + i < size
<1>1. Cpu(size, mem, regs)!Arg(i) = mem[a + i]
  BY DEF Cpu!Arg, Cpu!IP
<1>2. Len(program) \in Int /\ size \in Nat /\ Len(program) <= size
  BY DEF Loaded
<1>3. a + i \in 0 .. Len(program) - 1
  BY <1>2
<1>4. mem[a + i] = At(a + i)
  BY <1>3 DEF Loaded, At
<1> QED
  BY <1>1, <1>2, <1>3, <1>4

(* The machine knows the instructions by the same names, ...               *)
LEMMA SameInstructions ==
  ASSUME NEW size, NEW mem, NEW regs
  PROVE  /\ Cpu(size, mem, regs)!Instructions = Machine!Instructions
         /\ Cpu(size, mem, regs)!Opcodes = 0 .. 25
         /\ \A op \in Machine!Ops :
              Cpu(size, mem, regs)!ArgBytes(op) = Machine!ArgBytes(op)
         /\ \A op \in Machine!Ops :
              Cpu(size, mem, regs)!RegisterArgs(op) = Machine!RegisterArgs(op)
BY DEF Cpu!Instructions, Cpu!Opcodes, Cpu!ArgBytes, Cpu!RegisterArgs, Cpu!AluOps,
       Machine!Instructions, Machine!ArgBytes, Machine!RegisterArgs, Machine!AluOps

(* ... and takes no more than five bytes.                                  *)
LEMMA ArgBytesBounded ==
  ASSUME NEW op \in Machine!Ops
  PROVE  Machine!ArgBytes(op) \in 0 .. 5
BY OpForms, SpecialOps, PlainOps

(* Where the machine expects a register, the assembler put one.            *)
LEMMA RegistersNamed ==
  ASSUME NEW op \in Machine!Ops, NEW args, HasOperands(op, args), op \notin {"not", "jr"},
         NEW bytes \in CompileMnemonicArguments(op, args), NEW i \in Machine!RegisterArgs(op)
  PROVE  i \in 1 .. Len(bytes) /\ bytes[i] \in Registers
<1>1. Machine!Word \subseteq Nat /\ Registers \subseteq Byte
  BY RegistersAreBytes DEF Machine!Word
<1>2. CASE op \in Nullary \cup Unary \cup Binary
  <2>1. bytes = args /\ args \in [1 .. Machine!ArgBytes(op) -> Registers]
        /\ Machine!ArgBytes(op) \in Nat
    BY <1>2, PlainOps
  <2>2. i \in 1 .. Machine!ArgBytes(op)
    <3>1. CASE op \in Nullary
      BY <3>1 DEF Nullary, Machine!RegisterArgs, Machine!AluOps
    <3>2. CASE op \in Unary
      BY <3>2 DEF Unary, Machine!RegisterArgs, Machine!ArgBytes, Machine!AluOps
    <3>3. CASE op \in Binary
      BY <3>3 DEF Binary, Machine!RegisterArgs, Machine!ArgBytes, Machine!AluOps
    <3> QED
      BY <1>2, <3>1, <3>2, <3>3
  <2> QED
    BY <2>1, <2>2
<1>3. CASE op = "lcons"
  <2>1. args[1] \in Registers /\ args[2] \in Nat
    BY <1>1, <1>3, SpecialOperands
  <2>2. Little(args[2], 4) \in Seq(Byte) /\ Len(Little(args[2], 4)) = 4
    BY <2>1, LittleSizes, Zenon
  <2>3. bytes = <<args[1]>> \o Little(args[2], 4)
    <3>1. CompileMnemonicArguments(op, args) = {<<args[1]>> \o Little(args[2], 4)}
      BY <1>3, SpecialBytes, Zenon
    <3> QED
      BY <3>1
  <2>4. Len(bytes) = 5 /\ bytes[1] = args[1]
    BY <1>1, <2>1, <2>2, <2>3, BeforeFour
  <2> QED
    BY <1>3, <2>1, <2>4 DEF Machine!RegisterArgs, Machine!AluOps
<1>4. CASE op = "load"
  <2>1. args[1] \in Registers /\ args[2] \in Nat
    BY <1>1, <1>4, SpecialOperands
  <2>2. Little(args[2], 2) \in Seq(Byte) /\ Len(Little(args[2], 2)) = 2
    BY <2>1, LittleSizes, Zenon
  <2>3. bytes = <<args[1]>> \o Little(args[2], 2)
    <3>1. CompileMnemonicArguments(op, args) = {<<args[1]>> \o Little(args[2], 2)}
      BY <1>4, SpecialBytes, Zenon
    <3> QED
      BY <3>1
  <2>4. Len(bytes) = 3 /\ bytes[1] = args[1]
    BY <1>1, <2>1, <2>2, <2>3, BesideTwo
  <2> QED
    BY <1>4, <2>1, <2>4 DEF Machine!RegisterArgs, Machine!AluOps
<1>5. CASE op = "store"
  <2>1. args[2] \in Registers /\ args[1] \in Nat
    BY <1>1, <1>5, SpecialOperands
  <2>2. Little(args[1], 2) \in Seq(Byte) /\ Len(Little(args[1], 2)) = 2
    BY <2>1, LittleSizes, Zenon
  <2>3. bytes = Little(args[1], 2) \o <<args[2]>>
    <3>1. CompileMnemonicArguments(op, args) = {Little(args[1], 2) \o <<args[2]>>}
      BY <1>5, SpecialBytes, Zenon
    <3> QED
      BY <3>1
  <2>4. Len(bytes) = 3 /\ bytes[3] = args[2]
    BY <1>1, <2>1, <2>2, <2>3, BesideTwo
  <2> QED
    BY <1>5, <2>1, <2>4 DEF Machine!RegisterArgs, Machine!AluOps
<1>6. op \notin {"syscall", "jmp", "call"}
  BY DEF Machine!RegisterArgs, Machine!AluOps
<1> QED
  BY <1>2, <1>3, <1>4, <1>5, <1>6, OpForms

(* A word is two numbers of 16 bits.                                       *)
LEMMA WordOfShorts ==
  ASSUME NEW b0 \in Int, NEW b1 \in Int, NEW b2 \in Int, NEW b3 \in Int
  PROVE  b0 + ByteMod * (b1 + ByteMod * (b2 + ByteMod * b3)) =
           (b0 + ByteMod * b1) + ByteMod * ByteMod * (b2 + ByteMod * b3)
<1> DEFINE h == b2 + ByteMod * b3
<1>1. ByteMod \in Int /\ ByteMod * b3 \in Int
  BY ByteModPositive
<1>2. h \in Int
  BY <1>1
<1> HIDE DEF h
<1>3. ByteMod * (b1 + ByteMod * h) = ByteMod * b1 + ByteMod * (ByteMod * h)
  BY <1>1, <1>2
<1>4. ByteMod * (ByteMod * h) = ByteMod * ByteMod * h
  BY <1>1, <1>2
<1>5. ByteMod * b1 \in Int /\ ByteMod * ByteMod * h \in Int
  BY <1>1, <1>2
<1>6. b0 + ByteMod * (b1 + ByteMod * h) = (b0 + ByteMod * b1) + ByteMod * ByteMod * h
  BY <1>3, <1>4, <1>5
<1> QED
  BY <1>6 DEF h

(* The operands that the machine takes are those that whoever reads the    *)
(* image finds.                                                            *)
LEMMA TakesOperands ==
  ASSUME NEW size, NEW mem, Loaded(size, mem), NEW regs, NEW a \in Nat, regs[16] = a,
         program \in Seq(Byte), NEW op \in Machine!Ops,
         a + Machine!ArgBytes(op) < Len(program)
  PROVE  Taken(op, size, mem, regs) = Operands(op, a + 1)
<1> DEFINE n == Machine!ArgBytes(op)
           Arg(i) == Cpu(size, mem, regs)!Arg(i)
           Pair(i) == Cpu(size, mem, regs)!Short(i)
<1>1. n \in 0 .. 5 /\ Len(program) \in Nat
  BY ArgBytesBounded
<1>2. \A i \in 0 .. n : Arg(i) = At(a + i)
  BY <1>1, ArgIsAt, SMTT(40)
<1>3. \A i \in 0 .. n : At(a + i) \in Int
  <2> SUFFICES ASSUME NEW i \in 0 .. n PROVE At(a + i) \in Int
    OBVIOUS
  <2>1. a + i + 1 \in 1 .. Len(program)
    BY <1>1
  <2>2. program[a + i + 1] \in Byte
    BY <2>1
  <2> QED
    BY <2>2, ByteModPositive DEF At, Byte
<1>4. \A i : Pair(i) = Arg(i) + ByteMod * Arg(i + 1)
  BY DEF Cpu!Short
<1>5. CASE op = "lcons"
  <2>1. n = 5
    BY <1>5, SpecialOps
  <2> HIDE DEF n, Arg, Pair
  <2>2. /\ Arg(1) = At(a + 1) /\ Arg(2) = At(a + 2) /\ Arg(3) = At(a + 3)
        /\ Arg(4) = At(a + 4) /\ Arg(5) = At(a + 5)
        /\ At(a + 2) \in Int /\ At(a + 3) \in Int /\ At(a + 4) \in Int /\ At(a + 5) \in Int
    BY <1>2, <1>3, <2>1
  <2>3. Cpu(size, mem, regs)!Join(Arg(2), Arg(3), Arg(4), Arg(5)) =
          At(a + 2) + ByteMod * (At(a + 3) + ByteMod * (At(a + 4) + ByteMod * At(a + 5)))
    BY <2>2, Zenon DEF Cpu!Join
  <2>4. Cpu(size, mem, regs)!Join(Arg(2), Arg(3), Arg(4), Arg(5)) =
          (At(a + 2) + ByteMod * At(a + 3))
            + ByteMod * ByteMod * (At(a + 4) + ByteMod * At(a + 5))
    BY <2>2, <2>3, WordOfShorts
  <2>5. /\ Short(a + 2) = At(a + 2) + ByteMod * At(a + 3)
        /\ Short(a + 4) = At(a + 4) + ByteMod * At(a + 5)
    BY DEF Short
  <2>6. Taken(op, size, mem, regs) =
          <<Arg(1), Cpu(size, mem, regs)!Join(Arg(2), Arg(3), Arg(4), Arg(5))>>
    BY <1>5 DEF Taken, Arg
  <2>7. Operands(op, a + 1) =
          <<At(a + 1), Short(a + 2) + ByteMod * ByteMod * Short(a + 4)>>
    <3>1. a + 1 \in Nat /\ a + 1 + 1 = a + 2 /\ a + 1 + 3 = a + 4
      OBVIOUS
    <3> QED
      BY <1>5, <3>1, OperandForms
  <2> QED
    BY <2>2, <2>4, <2>5, <2>6, <2>7, Zenon
<1>6. CASE op = "load"
  <2>1. n = 3
    BY <1>6, SpecialOps
  <2> HIDE DEF n, Arg, Pair
  <2>2. Arg(1) = At(a + 1) /\ Arg(2) = At(a + 2) /\ Arg(3) = At(a + 3)
    BY <1>2, <2>1
  <2>3. Pair(2) = Short(a + 2)
    <3>1. 2 + 1 = 3 /\ a + 2 + 1 = a + 3
      OBVIOUS
    <3> QED
      BY <1>4, <2>2, <3>1, Zenon DEF Short
  <2>4. Taken(op, size, mem, regs) = <<Arg(1), Pair(2)>>
    BY <1>6 DEF Taken, Arg, Pair
  <2>5. Operands(op, a + 1) = <<At(a + 1), Short(a + 2)>>
    <3>1. a + 1 \in Nat /\ a + 1 + 1 = a + 2
      OBVIOUS
    <3> QED
      BY <1>6, <3>1, OperandForms
  <2> QED
    BY <2>2, <2>3, <2>4, <2>5, Zenon
<1>7. CASE op = "store"
  <2>1. n = 3
    BY <1>7, SpecialOps
  <2> HIDE DEF n, Arg, Pair
  <2>2. Arg(1) = At(a + 1) /\ Arg(2) = At(a + 2) /\ Arg(3) = At(a + 3)
    BY <1>2, <2>1
  <2>3. Pair(1) = Short(a + 1)
    <3>1. 1 + 1 = 2 /\ a + 1 + 1 = a + 2
      OBVIOUS
    <3> QED
      BY <1>4, <2>2, <3>1, Zenon DEF Short
  <2>4. Taken(op, size, mem, regs) = <<Pair(1), Arg(3)>>
    BY <1>7 DEF Taken, Arg, Pair
  <2>5. Operands(op, a + 1) = <<Short(a + 1), At(a + 3)>>
    <3>1. a + 1 \in Nat /\ a + 1 + 2 = a + 3
      OBVIOUS
    <3> QED
      BY <1>7, <3>1, OperandForms
  <2> QED
    BY <2>2, <2>3, <2>4, <2>5, Zenon
<1>8. CASE op \notin {"lcons", "load", "store"}
  <2>1. Taken(op, size, mem, regs) = [i \in 1 .. n |-> Arg(i)]
    BY <1>8 DEF Taken
  <2>2. Operands(op, a + 1) = [i \in 1 .. n |-> At(a + 1 + i - 1)]
    <3>1. a + 1 \in Nat
      OBVIOUS
    <3> QED
      BY <1>8, <3>1, OperandForms
  <2> HIDE DEF n, Arg, Pair
  <2>3. \A i \in 1 .. n : i \in 0 .. n /\ a + 1 + i - 1 = a + i
    BY <1>1
  <2>4. \A i \in 1 .. n : Arg(i) = At(a + 1 + i - 1)
    BY <1>2, <2>3
  <2> QED
    BY <2>1, <2>2, <2>4
<1> QED
  BY <1>5, <1>6, <1>7, <1>8

(* The opcode at ip is that of a line, and it lies in ROM.                 *)
LEMMA FetchesLine ==
  ASSUME NEW size, NEW mem, Loaded(size, mem), NEW regs, NEW a \in Nat, regs[16] = a,
         program \in Seq(Byte), NEW word, IsOpCode(word), At(a) = OpcodeOf(word),
         a + Machine!ArgBytes(Op(word)) < Len(program)
  PROVE  /\ Cpu(size, mem, regs)!Fetch(Op(word))
         /\ Cpu(size, mem, regs)!ArgsInRom(Op(word))
<1> DEFINE op == Op(word)
           n == Machine!ArgBytes(op)
           m == Cpu(size, mem, regs)!Bytes(op)
<1>1. op \in Machine!Ops /\ OpcodeOf(word) \in 0 .. 25
  BY OpcodeInRange
<1>2. n \in 0 .. 5 /\ Len(program) \in Nat /\ a + n < Len(program)
  BY <1>1, ArgBytesBounded
<1>3. Cpu(size, mem, regs)!ArgBytes(op) = n
  BY <1>1, SameInstructions
<1>4. m \in {0, n}
  BY <1>3 DEF Cpu!Bytes
<1> HIDE DEF n, m
<1>5. mem[a] = OpcodeOf(word) /\ a < size
  <2>1. 0 \in 0 .. n /\ a + 0 = a
    BY <1>2
  <2>2. mem[a + 0] = At(a + 0) /\ a + 0 < size
    BY <1>2, <2>1, ArgIsAt
  <2> QED
    BY <2>1, <2>2
<1>6. a + n < size
  <2>1. \A i \in 0 .. n : a + i < size
    <3>1. n \in Nat
      BY <1>2
    <3> QED
      BY <1>2, <3>1, ArgIsAt, Zenon
  <2>2. n \in 0 .. n
    BY <1>2
  <2> QED
    BY <2>1, <2>2
<1>7. a + m < size
  BY <1>2, <1>4, <1>5, <1>6
<1>8. Cpu(size, mem, regs)!Instructions[mem[a] + 1] = op
  BY <1>5, SameInstructions DEF Op
<1>9. mem[a] \in Cpu(size, mem, regs)!Opcodes
  BY <1>1, <1>5, SameInstructions
<1>10. Cpu(size, mem, regs)!IP = 16
  BY DEF Cpu!IP
<1>11. Cpu(size, mem, regs)!Looping
  BY DEF Cpu!Looping
<1>12. \A x : Cpu(size, mem, regs)!InRom(x) <=> x < size
  BY DEF Cpu!InRom
<1>13. Cpu(size, mem, regs)!Fetch(op)
  BY <1>5, <1>7, <1>8, <1>9, <1>10, <1>11, <1>12, Zenon DEF Cpu!Fetch, m
<1>14. Cpu(size, mem, regs)!ArgsInRom(op)
  BY <1>3, <1>6, <1>10, <1>12, Zenon DEF Cpu!ArgsInRom
<1> QED
  BY <1>13, <1>14

(* The line is a mnemonic that is emitted as long as the machine reads it. *)
Executable(line) == line.kind = "word" /\ ~ Divergent(line)

(* When ip comes to the address of such a line, the machine executes it    *)
(* with the operands that were meant, a jump or a call with the address of *)
(* its label, and its next instruction is where the next line begins.      *)
RunsLine(k, size, mem, regs) ==
  LET line == m_instructions[k].line
      op   == Op(line.word)
  IN /\ Cpu(size, mem, regs)!Execute(op)
     /\ IF UseLabel(line)
        THEN Cpu(size, mem, regs)!Short(1) = m_labels[line.name]
        ELSE Taken(op, size, mem, regs) = Meant(op, line.args)
     /\ k < Len(m_instructions) =>
          m_instructions[k + 1].addr = regs[16] + Cpu(size, mem, regs)!ArgBytes(op) + 1

(* An announced image that the host has copied to the beginning of ROM, of *)
(* whatever size, runs in the machine as its source was written, but for   *)
(* not and jr.                                                             *)
THEOREM AssembledRuns ==
  Spec => [](Built => \A k \in DOMAIN m_instructions : \A size, mem, regs :
               /\ Executable(m_instructions[k].line)
               /\ Loaded(size, mem) /\ regs[16] = m_instructions[k].addr
               => RunsLine(k, size, mem, regs))
<1>1. ASSUME IInv, Built, NEW k \in 1 .. Len(m_instructions), NEW size, NEW mem, NEW regs,
             Executable(m_instructions[k].line),
             Loaded(size, mem), regs[16] = m_instructions[k].addr
      PROVE  RunsLine(k, size, mem, regs)
  <2> DEFINE line == m_instructions[k].line
             bytes == m_instructions[k].bytes
             a == m_instructions[k].addr
             word == line.word
             op == Op(word)
             n == Machine!ArgBytes(op)
  <2>1. TInv /\ SourceInv
    BY <1>1 DEF IInv
  <2>2. Lies(k) /\ Stands(k) /\ PatchStands(k)
    BY <1>1, BuiltImage
  <2>3. Compiled(m_instructions[k]) /\ m_instructions[k] \in Kept
    BY <1>1, <2>1 DEF SourceInv, TInv
  <2>4. a \in Nat /\ bytes \in Seq(Byte) /\ line \in Lines /\ program \in Seq(Byte)
    BY <2>1, <2>3 DEF Kept, TInv, TypeOK
  <2>5. line.kind = "word" /\ op \notin {"not", "jr"}
    BY <1>1 DEF Executable, Divergent
  <2>6. IsOpCode(word) /\ bytes \in CompileMnemonicArguments(op, line.args)
    BY <2>3, <2>5, Zenon DEF Compiled
  <2>7. /\ op \in Machine!Ops /\ HasOperands(op, line.args)
        /\ Len(bytes) = n + Extra(op)
    BY <2>3, <2>4, <2>5, CompiledBytes
  <2>8. n \in 0 .. 5 /\ Len(bytes) = n
    BY <2>5, <2>7, ArgBytesBounded DEF Extra
  <2>9. CodeBytes(line) = 1 /\ Behind(k) = a + 1 + n
    BY <2>5, <2>8 DEF CodeBytes, Behind
  <2>10. Behind(k) <= Len(program) /\ Len(program) \in Nat
    BY <2>2, <2>4 DEF Lies
  <2>11. At(a) = OpcodeOf(word)
    BY <2>2, <2>5 DEF Stands, At
  <2>12. ~ UseLabel(line) => \A i \in 1 .. Len(bytes) : program[a + 1 + i] = bytes[i]
    BY <2>2, <2>9 DEF Stands
  <2>13. UseLabel(line) <=> TakesLabel(op)
    BY <2>5 DEF UseLabel
  <2>14. Cpu(size, mem, regs)!ArgBytes(op) = n
    BY <2>7, SameInstructions
  <2> HIDE DEF op, n, line, bytes, a, word
  <2>15. a + n < Len(program)
    BY <2>4, <2>8, <2>9, <2>10
  <2>16. regs[16] = a
    BY <1>1 DEF a
  <2>17. \A i \in 0 .. n : Cpu(size, mem, regs)!Arg(i) = At(a + i)
    BY <1>1, <2>4, <2>8, <2>15, <2>16, ArgIsAt
  <2>18. Cpu(size, mem, regs)!RegistersValid(op)
    <3> SUFFICES ASSUME NEW i \in Machine!RegisterArgs(op)
                 PROVE  Cpu(size, mem, regs)!Arg(i) \in 0 .. 20
      <4>1. Cpu(size, mem, regs)!RegisterArgs(op) = Machine!RegisterArgs(op)
        BY <2>7, SameInstructions
      <4> QED
        BY <4>1 DEF Cpu!RegistersValid, Cpu!Registers
    <3>1. i \in 1 .. Len(bytes) /\ bytes[i] \in Registers
      BY <2>5, <2>6, <2>7, RegistersNamed
    <3>2. ~ TakesLabel(op)
      BY <2>5 DEF TakesLabel, Machine!RegisterArgs, Machine!AluOps
    <3>3. program[a + 1 + i] = bytes[i]
      BY <2>12, <2>13, <3>1, <3>2
    <3>4. i \in 0 .. n /\ a + i + 1 = a + 1 + i
      BY <2>4, <2>8, <3>1
    <3>5. Cpu(size, mem, regs)!Arg(i) = bytes[i]
      BY <2>17, <3>3, <3>4 DEF At
    <3> QED
      BY <3>1, <3>5 DEF Registers
  <2>19. Cpu(size, mem, regs)!Execute(op)
    <3>1. Cpu(size, mem, regs)!Fetch(op) /\ Cpu(size, mem, regs)!ArgsInRom(op)
      BY <1>1, <2>4, <2>6, <2>11, <2>15, <2>16, FetchesLine DEF op, n
    <3> QED
      BY <2>18, <3>1 DEF Cpu!Execute
  <2>20. ASSUME UseLabel(line)
         PROVE  Cpu(size, mem, regs)!Short(1) = m_labels[line.name]
    <3>1. op \in {"jmp", "call"} /\ n = 2
      BY <2>5, <2>13, <2>20, SpecialOps DEF TakesLabel, n
    <3>2. /\ line.name \in DOMAIN m_labels
          /\ program[a + 2] = m_labels[line.name] % ByteMod
          /\ program[a + 3] = m_labels[line.name] \div ByteMod
      BY <2>2, <2>20 DEF PatchStands, line, a
    <3>3. 1 \in 0 .. n /\ 2 \in 0 .. n /\ a + 1 + 1 = a + 2 /\ a + 2 + 1 = a + 3
      BY <2>4, <3>1
    <3>4. /\ Cpu(size, mem, regs)!Arg(1) = program[a + 2]
          /\ Cpu(size, mem, regs)!Arg(2) = program[a + 3]
      BY <2>17, <3>3 DEF At
    <3>5. Cpu(size, mem, regs)!Short(1) = program[a + 2] + ByteMod * program[a + 3]
      <4>1. 1 + 1 = 2
        OBVIOUS
      <4> QED
        BY <3>4, <4>1, Zenon DEF Cpu!Short
    <3> QED
      BY <2>1, <3>2, <3>5, LabelBytes
  <2>21. ASSUME ~ UseLabel(line)
         PROVE  Taken(op, size, mem, regs) = Meant(op, line.args)
    <3>1. Taken(op, size, mem, regs) = Operands(op, a + 1)
      BY <1>1, <2>4, <2>7, <2>15, <2>16, TakesOperands DEF n
    <3>2. Operands(op, a + 1) = Meant(op, line.args)
      <4>1. ~ TakesLabel(op) /\ op # "not"
        BY <2>5, <2>13, <2>21
      <4> QED
        BY <2>4, <2>6, <2>7, <2>12, <2>21, <4>1, OperandsRead
    <3> QED
      BY <3>1, <3>2
  <2>22. ASSUME k < Len(m_instructions)
         PROVE  m_instructions[k + 1].addr = a + n + 1
    <3>1. PICK j : j = k + 1
      OBVIOUS
    <3>2. j \in 1 .. Len(m_instructions) /\ j > 1 /\ j - 1 = k
      BY <1>1, <2>22, <3>1
    <3>3. m_instructions[j].addr = Behind(j - 1)
      BY <1>1, <3>2, BuiltImage DEF Lies
    <3> QED
      BY <2>4, <2>8, <2>9, <3>1, <3>2, <3>3
  <2> QED
    BY <2>14, <2>16, <2>19, <2>20, <2>21, <2>22, Zenon DEF RunsLine, op, n, line, a, word
<1>2. IInv => (Built => \A k \in DOMAIN m_instructions : \A size, mem, regs :
               /\ Executable(m_instructions[k].line)
               /\ Loaded(size, mem) /\ regs[16] = m_instructions[k].addr
               => RunsLine(k, size, mem, regs))
  <2>1. IInv => DOMAIN m_instructions = 1 .. Len(m_instructions)
    BY DEF IInv, TInv
  <2> QED
    BY <1>1, <2>1
<1> QED
  BY <1>2, Invariant, PTL
=============================================================================
