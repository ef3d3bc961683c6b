SPECIFICATION FairSpec
CONSTANTS
  ByteMod = 2
  Garbled = Garbled
  NoFrame = NoFrame
  Remotes <- AandB
  MAX_REMOTES = 2
  Window = 1
  CodeMod = 2
  Frames <- FewFrames
  MaxLag = 1
  ProgSeconds = 1
  Typed = {"p", "quiet"}
  MaxRestarts = 1
PROPERTY AdmittedInTime
PROPERTY StartedByRight
PROPERTY ImplementsComponents
PROPERTY RequestHeeded
