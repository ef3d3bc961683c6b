---------------------------- MODULE MCChip32Asm ----------------------------
(* Sources for Chip32Asm: see the .cfg files.                              *)
EXTENDS Chip32Asm

Word(w, args)   == [kind |-> "word", word |-> w, args |-> args, name |-> ""]
Jump(w, l)      == [kind |-> "word", word |-> w, args |-> <<>>, name |-> l]
Label(l)        == [kind |-> "label", name |-> l]
Number(n)       == [kind |-> "number", value |-> n]
Quoted(words)   == [kind |-> "text", words |-> words]
Rom(n, b, is)   == [kind |-> "rom", name |-> n, bits |-> b, items |-> is]
Ram(n, b, len)  == [kind |-> "ram", name |-> n, bits |-> b, len |-> len]

(* Operands of each form and wider than their place, labels before and     *)
(* behind their use, a documented name that is no mnemonic, constants that *)
(* fit and that do not, a width that there is not, a text that moves what  *)
(* follows it up to and beyond the largest address.                        *)
MCLines == {
  Word("halt", <<>>), Word("mov", <<1, 2>>), Word("lcons", <<1, 30>>),
  Word("store", <<27, 3>>), Word("load", <<3, 26 * 26 + 27>>), Word("not", <<1>>),
  Word("syscall", <<30>>),
  Word("shl", <<0, 1>>),
  Jump("jump", ".a"), Jump("call", ".b"), Jump("jumpr", ".a"), Jump("call", "$c"),
  Label(".a"), Label(".b"),
  Rom("$c", 8, <<Quoted(<<<<7, 8>>>>), Number(5)>>), Rom("$d", 8, <<Number(26)>>),
  Rom("$d", 24, <<Number(1)>>),
  Rom("$e", 8, <<Quoted(<<[i \in 1 .. 24 |-> 9]>>)>>),
  Rom("$c", 16, <<Number(30)>>), Ram("$r", 32, 1),
  [kind |-> "malformed"] }

(* The comment's own example of a constant, DC8 "a string", 5, 4, 8.       *)
ExampleLines == {
  Rom("$yourLabel", 8, <<Quoted(<<<<1>>, <<19, 20>>>>), Number(5), Number(4), Number(8)>>),
  Word("halt", <<>>), Word("mov", <<1, 2>>), Label(".a"), Jump("jump", ".a")}
=============================================================================
