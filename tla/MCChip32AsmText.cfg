SPECIFICATION Spec
CONSTANTS
  ByteMod = 26
  AddrMod = 29
  Junk = {0, 3}
  Lines <- ExampleLines
  MaxLines = 3
  MaxBefore = 2
INVARIANT ImageIsSource
