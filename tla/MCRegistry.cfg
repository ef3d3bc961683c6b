SPECIFICATION Spec
CONSTANTS
  NoFrame = NoFrame
  Garbled = Garbled
  Remotes <- AandB
  MAX_REMOTES = 3
  Window = 2
  ByteMod = 4
  CodeMod = 16
  FirstCode <- CodesApart
  Misread = {}
  MaxPresses <- ThreeEach
  MaxCrashes = 0
  MaxResets = 0
INVARIANT StoredCodeIsOwn
INVARIANT RepeatsIgnored
PROPERTY LockOutLasts
PROPERTY ImplementsTable
