----------------------------- MODULE Chip32Asm -----------------------------
(***************************************************************************)
(* chip32_assembler.cpp: Parse() reads a source line by line, BuildBinary()*)
(* appends its image to the host's vector in two passes.  The host calls   *)
(* them in any order, and again, whether or not the last call succeeded.   *)
(*                                                                         *)
(* A line is what Split() and GetArgs() make of its text:                  *)
(*   [kind |-> "label", name]                                              *)
(*   [kind |-> "word", word, args, name]  a mnemonic with numbers, registers*)
(*                                        and, in a jump, a label          *)
(*   [kind |-> "rom", name, bits, items]  DC; an item is a number (value)  *)
(*                                        or a text in quotes (words, what *)
(*                                        lies between single blanks; those*)
(*                                        that begin with a digit are left *)
(*                                        out)                             *)
(*   [kind |-> "ram", name, bits, len]    DV                               *)
(*   [kind |-> "malformed"]               refused by one of the checks     *)
(***************************************************************************)
EXTENDS Integers, Sequences, SequencesExt

CONSTANTS
  ByteMod,     (* 256                                                       *)
  AddrMod,     (* addresses count modulo this (2^16)                        *)
  Junk,        (* what a byte that is never initialised may hold            *)
  Lines,       (* the lines that sources are made of                        *)
  MaxLines,    (* bound: lines of a source                                  *)
  MaxBefore    (* bound: bytes in the host's vector before a build          *)

ASSUME AsmAssumption ==
  /\ ByteMod \in Nat /\ 26 <= ByteMod
  /\ AddrMod \in 1 .. ByteMod * ByteMod
  /\ Junk \subseteq 0 .. ByteMod - 1 /\ Junk # {}
  /\ MaxLines \in Nat /\ MaxBefore \in Nat

NoAlu(op, a, b) == 0
Machine == INSTANCE Chip32Base WITH RomSize <- 1, RamSize <- 4, Alu <- NoAlu

Byte      == 0 .. ByteMod - 1
Registers == 0 .. 19

(* The mnemonics in the order of the opcodes: jump, jumpr, shiftl, shiftr  *)
(* and ishiftr are what the machine calls jmp, jr, shl, shr and ishr.      *)
Mnemonics == <<
  "nop", "halt", "syscall", "lcons", "mov", "push", "pop", "call", "ret",
  "store", "load", "add", "sub", "mul", "div", "shiftl", "shiftr", "ishiftr",
  "and", "or", "xor", "not", "jump", "jumpr", "skipz", "skipnz" >>

IsOpCode(word)  == \E i \in 1 .. 26 : Mnemonics[i] = word
OpcodeOf(word)  == (CHOOSE i \in 1 .. 26 : Mnemonics[i] = word) - 1
Op(word)        == Machine!Instructions[OpcodeOf(word) + 1]

(* What the lines hold.  The arguments are as many as the mnemonic takes,  *)
(* registers have one of the names that GetRegister() knows, and numbers   *)
(* are what the cast to 32 bits leaves of them.  Every other line is       *)
(* malformed.                                                              *)
TakesLabel(op) == op \in {"jmp", "call", "jr"}

HasOperands(op, args) ==
  CASE op \in {"lcons", "load"} -> args \in Registers \X Machine!Word
    [] op = "store"             -> args \in Machine!Word \X Registers
    [] op = "syscall"           -> args \in [1 .. 1 -> Machine!Word]
    [] TakesLabel(op)            -> args = <<>>
    [] OTHER                    -> args \in [1 .. Machine!ArgBytes(op) -> Registers]

IsItem(item) == \/ item.kind = "number" /\ item.value \in Machine!Word
                \/ item.kind = "text" /\ item.words \in Seq(Seq(Byte)) \ {<<>>}

IsLine(line) ==
  \/ line.kind \in {"label", "malformed"}
  \/ line.kind = "word" /\ (IsOpCode(line.word) => HasOperands(Op(line.word), line.args))
  \/ /\ line.kind = "rom" /\ line.bits \in Nat
     /\ DOMAIN line.items = 1 .. Len(line.items)
     /\ \A i \in DOMAIN line.items : IsItem(line.items[i])
  \/ line.kind = "ram" /\ line.bits \in Nat /\ line.len \in Nat

ASSUME LinesAssumption == \A line \in Lines : IsLine(line)

VARIABLES
  phase,          (* "ready" for a call, "parse", or the pass: "emit", "patch"*)
  m_instructions, (* the lines kept, with their compiled arguments and, once*)
                  (* emitted, their address                                 *)
  m_labels,       (* the address of each label                              *)
  read,           (* lines read by this Parse()                             *)
  program,        (* the host's vector                                      *)
  next,           (* the instruction the pass has come to                   *)
  result          (* AssemblyResult                                         *)

vars == <<phase, m_instructions, m_labels, read, program, next, result>>

NoResult == [ram |-> 0, rom |-> 0, constants |-> 0]

Init ==
  /\ phase = "ready"
  /\ m_instructions = <<>> /\ m_labels = [l \in {} |-> 0]
  /\ read = 0 /\ program = <<>> /\ next = 1 /\ result = NoResult

-----------------------------------------------------------------------------
(* Mutant: the lowest byte is not cut to its width.                         *)
LittleUnmasked(value, n) ==
  [i \in 1 .. n |-> IF i = 1 THEN value ELSE Machine!ByteOf(value, i - 1)]

(* Mutant: the more significant byte comes first.                           *)
BigEndian(value, n) == [i \in 1 .. n |-> Machine!ByteOf(value, n - i)]

(* Little-endian integers of n bytes.                                      *)
Little(value, n) == [i \in 1 .. n |-> Machine!ByteOf(value, i - 1)]

(* The compiled arguments that may come out.  not is read with a second    *)
(* argument, beyond the end of its vector: undefined, any register may come*)
(* out or an error (ParseError), or the program ends there.  Two bytes are *)
(* reserved for a label, for jr as well.                                   *)
CompileMnemonicArguments(op, args) ==
  CASE op = "lcons"   -> {<<args[1]>> \o Little(args[2], 4)}
    [] op = "store"   -> {Little(args[1], 2) \o <<args[2]>>}
    [] op = "load"    -> {<<args[1]>> \o Little(args[2], 2)}
    [] op = "syscall" -> {Little(args[1], 1)}
    [] op = "not"     -> {<<args[1], r>> : r \in Junk \cap Registers}
    [] TakesLabel(op) -> {<<0, 0>>}
    [] OTHER          -> {args}

OneWord(item) == item.kind = "text" /\ Len(item.words) = 1 /\ item.words[1] # <<>>

(* A text of one word is stored with a zero behind it; Split() has cut any *)
(* other one at its blanks, and each piece is read as the integer 0.  So is*)
(* a text without a character.                                             *)
CompileItem(item, bits) ==
  CASE item.kind = "number" -> Little(item.value, bits \div 8)
    [] OneWord(item)        -> item.words[1] \o <<0>>
    [] OTHER                -> [i \in 1 .. Len(item.words) * (bits \div 8) |-> 0]

Fits(value, bits) == \/ bits = 8 /\ value < ByteMod
                     \/ bits = 16 /\ value < ByteMod * ByteMod
                     \/ bits = 32 /\ value < Machine!WordMod

TooHigh(line) ==
  \E i \in DOMAIN line.items :
    LET item == line.items[i]
    IN ~OneWord(item) /\ ~Fits(IF item.kind = "number" THEN item.value ELSE 0, line.bits)

CompileConstantArguments(line) ==
  FlattenSeq([i \in DOMAIN line.items |-> CompileItem(line.items[i], line.bits)])

-----------------------------------------------------------------------------
(* Parse()                                                                 *)

(* Clear().  Bound: a longer image is not kept for the next build.         *)
BeginParse ==
  /\ phase = "ready" /\ phase' = "parse"
  /\ m_instructions' = <<>> /\ m_labels' = [l \in {} |-> 0]
  /\ read' = 0 /\ next' = 1 /\ result' = NoResult
  /\ program' = IF Len(program) <= MaxBefore THEN program ELSE <<>>

Named(line) == line.kind \in {"label", "rom", "ram"}

Declare(name, address) ==
  [l \in DOMAIN m_labels \cup {name} |-> IF l = name THEN address ELSE m_labels[l]]

ReadLine(line) == /\ phase = "parse" /\ read < MaxLines
                  /\ read' = read + 1
                  /\ UNCHANGED <<program, next, result>>

Accept(line, bytes) ==
  /\ m_instructions' = Append(m_instructions, [line |-> line, bytes |-> bytes, addr |-> 0])
  /\ UNCHANGED phase

ParseName(line) ==
  /\ ReadLine(line)
  /\ Named(line) /\ line.name \notin DOMAIN m_labels
  /\ line.kind = "rom" => ~TooHigh(line)
  /\ Accept(line, IF line.kind = "rom" THEN CompileConstantArguments(line) ELSE <<>>)
  /\ m_labels' = Declare(line.name, 0)

ParseMnemonic(line) ==
  /\ ReadLine(line)
  /\ line.kind = "word" /\ IsOpCode(line.word)
  /\ \E bytes \in CompileMnemonicArguments(Op(line.word), line.args) : Accept(line, bytes)
  /\ UNCHANGED m_labels

(* A word that is no mnemonic is passed over without an error.             *)
ParseUnknown(line) ==
  /\ ReadLine(line)
  /\ line.kind = "word" /\ ~IsOpCode(line.word)
  /\ UNCHANGED <<phase, m_instructions, m_labels>>

(* Parse() returns false and leaves what it has read.  Constants that are  *)
(* refused have declared their name; the second argument that not does not *)
(* have need not look like a register.                                     *)
ParseError(line) ==
  /\ ReadLine(line)
  /\ \/ line.kind = "malformed"
     \/ Named(line) /\ line.name \in DOMAIN m_labels
     \/ line.kind = "rom" /\ TooHigh(line)
     \/ line.kind = "word" /\ line.word = "not"
  /\ phase' = "ready"
  /\ m_labels' = IF line.kind = "rom" /\ line.name \notin DOMAIN m_labels
                 THEN Declare(line.name, 0) ELSE m_labels
  /\ UNCHANGED m_instructions

EndParse ==
  /\ phase = "parse" /\ phase' = "ready"
  /\ UNCHANGED <<m_instructions, m_labels, read, program, next, result>>

-----------------------------------------------------------------------------
(* BuildBinary()                                                           *)

(* The host's vector is used as it is, empty or not.                       *)
BeginBuild ==
  /\ phase = "ready" /\ phase' = "emit"
  /\ program' \in {<<>>} \cup {p \in {program} : Len(p) <= MaxBefore}
  /\ next' = 1 /\ result' = NoResult
  /\ UNCHANGED <<m_instructions, m_labels, read>>

Instr == m_instructions[next]

(* Mutant: a label gets the address of its own byte.                        *)
AddressOfOwnByte(line) == Len(program) % AddrMod

(* A label's address is the one after its byte; data in RAM have that of   *)
(* the place reached in the image.                                         *)
AddressOf(line) == (Len(program) + (IF line.kind = "label" THEN 1 ELSE 0)) % AddrMod

(* A label has an opcode byte like an instruction.                         *)
Serialize(opcode) ==
  LET line == Instr.line
      code == IF line.kind \in {"rom", "ram"} THEN <<>> ELSE <<opcode>>
  IN /\ program' = program \o code \o Instr.bytes
     /\ m_labels' = IF line.kind \in {"label", "ram"}
                    THEN Declare(line.name, AddressOf(line)) ELSE m_labels
     /\ result' = [result EXCEPT
          !.ram = @ + (IF line.kind = "ram" THEN (line.len * line.bits) \div 8 ELSE 0),
          !.constants = @ + (IF line.kind = "rom" THEN Len(Instr.bytes) ELSE 0)]

Emit ==
  /\ phase = "emit" /\ next <= Len(m_instructions)
  /\ \E opcode \in IF Instr.line.kind = "word" THEN {OpcodeOf(Instr.line.word)} ELSE Junk :
       Serialize(opcode)
  /\ m_instructions' = [m_instructions EXCEPT ![next].addr = Len(program) % AddrMod]
  /\ next' = next + 1
  /\ UNCHANGED <<phase, read>>

EmitDone ==
  /\ phase = "emit" /\ next > Len(m_instructions)
  /\ phase' = "patch" /\ next' = 1
  /\ UNCHANGED <<m_instructions, m_labels, read, program, result>>

UseLabel(line) == line.kind = "word" /\ TakesLabel(Op(line.word))

(* Mutant: the bytes are written over the opcode.                           *)
ArgsIndexOfOpcode(instr) == instr.addr + 1

(* The place of the two bytes reserved for a label (sequences begin at 1). *)
ArgsIndex(instr) == ((instr.addr + 1) % AddrMod) + 1

Patch ==
  /\ phase = "patch" /\ next <= Len(m_instructions)
  /\ UseLabel(Instr.line) => Instr.line.name \in DOMAIN m_labels
  /\ program' = IF UseLabel(Instr.line)
                THEN ReplaceAt(ReplaceAt(program, ArgsIndex(Instr),
                                 m_labels[Instr.line.name] % ByteMod),
                       ArgsIndex(Instr) + 1, m_labels[Instr.line.name] \div ByteMod)
                ELSE program
  /\ next' = next + 1
  /\ UNCHANGED <<phase, m_instructions, m_labels, read, result>>

(* BuildBinary() returns false; the image is patched up to here.           *)
LabelNotFound ==
  /\ phase = "patch" /\ next <= Len(m_instructions)
  /\ UseLabel(Instr.line) /\ Instr.line.name \notin DOMAIN m_labels
  /\ phase' = "ready"
  /\ UNCHANGED <<m_instructions, m_labels, read, program, next, result>>

PatchDone ==
  /\ phase = "patch" /\ next > Len(m_instructions)
  /\ phase' = "ready"
  /\ result' = [result EXCEPT !.rom = Len(program)]
  /\ UNCHANGED <<m_instructions, m_labels, read, program, next>>

Parse == \/ BeginParse \/ EndParse
         \/ \E line \in Lines : ParseName(line) \/ ParseMnemonic(line)
                             \/ ParseUnknown(line) \/ ParseError(line)

BuildBinary == \/ BeginBuild \/ Emit \/ EmitDone
               \/ Patch \/ LabelNotFound \/ PatchDone

Next == Parse \/ BuildBinary

Spec == Init /\ [][Next]_vars

-----------------------------------------------------------------------------
(* The types of the variables.                                             *)
TypeOK ==
  /\ phase \in {"ready", "parse", "emit", "patch"}
  /\ \A k \in DOMAIN m_instructions :
       /\ m_instructions[k].line \in Lines
       /\ m_instructions[k].bytes \in Seq(Byte)
       /\ m_instructions[k].addr \in 0 .. AddrMod - 1
  /\ \A l \in DOMAIN m_labels : m_labels[l] \in 0 .. AddrMod - 1
  /\ read \in 0 .. MaxLines
  /\ program \in Seq(Byte)
  /\ next \in 1 .. Len(m_instructions) + 1
  /\ result \in [ram : Nat, rom : Nat, constants : Nat]

(* BuildBinary() has announced an image, and the address behind it has 16  *)
(* bits: of a larger one nothing is promised, and no error tells.          *)
Built == result.rom > 0 /\ Len(program) < AddrMod

(* What the machine reads at address a.                                    *)
At(a)    == program[a + 1]
Short(a) == At(a) + ByteMod * At(a + 1)
Operands(op, a) ==
  CASE op = "lcons" -> <<At(a), Short(a + 1) + ByteMod * ByteMod * Short(a + 3)>>
    [] op = "store" -> <<Short(a), At(a + 2)>>
    [] op = "load"  -> <<At(a), Short(a + 1)>>
    [] OTHER        -> [k \in 1 .. Machine!ArgBytes(op) |-> At(a + k - 1)]

(* What the source asks for: the bytes of a constant, a text with a blank  *)
(* between its words and a zero behind it.                            *)
Blank == 32 % ByteMod
Text(words) == FlattenSeq([i \in DOMAIN words |->
                             IF i = 1 THEN words[i] ELSE <<Blank>> \o words[i]]) \o <<0>>
Constants(line) ==
  FlattenSeq([i \in DOMAIN line.items |->
    IF line.items[i].kind = "number"
    THEN Little(line.items[i].value, line.bits \div 8) ELSE Text(line.items[i].words)])

Size(line) == CASE line.kind = "label" -> 1
                [] line.kind = "word"  -> 1 + Machine!ArgBytes(Op(line.word))
                [] line.kind = "rom"   -> Len(Constants(line))
                [] line.kind = "ram"   -> 0

(* not and jr are emitted with one byte more than the machine reads.       *)
Divergent(line) == line.kind = "word" /\ Op(line.word) \in {"not", "jr"}

EndOf(k) == m_instructions[k].addr +
            Size(m_instructions[k].line) + (IF Divergent(m_instructions[k].line) THEN 1 ELSE 0)

(* The operands of an instruction, cut to the width that it has for them.  *)
Meant(op, args) ==
  CASE op = "syscall" -> <<args[1] % ByteMod>>
    [] op = "store"   -> <<args[1] % (ByteMod * ByteMod), args[2]>>
    [] op = "load"    -> <<args[1], args[2] % (ByteMod * ByteMod)>>
    [] OTHER          -> args

(* The image is the source: whoever decodes it as the machine does finds,  *)
(* one after the other, every instruction that was accepted with its       *)
(* operands and every constant, however often the host parses and builds   *)
(* and whatever its vector held before.                                    *)
ReadsBack(k) ==
  LET line == m_instructions[k].line
      a    == m_instructions[k].addr
  IN /\ k > 1 => a = EndOf(k - 1)
     /\ EndOf(k) <= Len(program)
     /\ line.kind = "rom" =>
          SubSeq(program, a + 1, a + Len(Constants(line))) = Constants(line)
     /\ line.kind = "word" => At(a) = OpcodeOf(line.word)
     /\ line.kind = "word" /\ ~UseLabel(line) /\ ~Divergent(line) =>
          Operands(Op(line.word), a + 1) = Meant(Op(line.word), line.args)

ImageIsSource == Built => \A k \in DOMAIN m_instructions : ReadsBack(k)

(* A jump or a call goes to the line that follows its label, past the byte *)
(* of the label itself.  (If that line is another label, it goes to the    *)
(* byte of that one, which nobody has initialised.)  Nothing is stated of  *)
(* the names of data: the code gives a constant no address at all.         *)
JumpsLand ==
  Built => \A j, k \in DOMAIN m_instructions :
    LET jump  == m_instructions[j]
        label == m_instructions[k].line
    IN UseLabel(jump.line) /\ label.kind = "label" /\ label.name = jump.line.name =>
         Short(jump.addr + 1) = EndOf(k)

(* The second pass writes the two bytes reserved for the label of a jump,  *)
(* and no others: neither those of another line nor those that the host's  *)
(* vector held before.                                                     *)
PatchesReserved ==
  [][phase = "patch" /\ Len(program) <= AddrMod /\ program' # program =>
       /\ UseLabel(Instr.line)
       /\ Len(program') = Len(program)
       /\ \A p \in DOMAIN program : program'[p] # program[p] =>
            p - 1 \in Instr.addr + 1 .. Instr.addr + 2]_vars

=============================================================================
