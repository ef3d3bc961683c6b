SPECIFICATION Spec
CONSTANTS
  NoFrame = NoFrame
  Garbled = Garbled
  Remotes <- AandBandC
  MAX_REMOTES = 3
  Window = 2
  ByteMod = 4
  CodeMod = 16
  FirstCode <- CodesApart
  Misread <- TwoMisread
  MaxPresses <- OneOfA
  MaxCrashes = 1
  MaxResets = 1
INVARIANT TypeOK
INVARIANT TableWithinBounds
INVARIANT EepromMirrors
INVARIANT NoDuplicates
PROPERTY ImplementsTable
