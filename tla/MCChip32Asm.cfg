SPECIFICATION Spec
CONSTANTS
  ByteMod = 26
  AddrMod = 29
  Junk = {0, 3}
  Lines <- MCLines
  MaxLines = 3
  MaxBefore = 2
INVARIANT TypeOK
INVARIANT ImageIsSource
INVARIANT JumpsLand
PROPERTY PatchesReserved
