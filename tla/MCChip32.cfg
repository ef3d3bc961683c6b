SPECIFICATION FairSpec
CONSTANTS
  ByteMod = 32
  RomSize = 16
  RamSize = 24
  RomAddr = 0
  RamAddr = 20
  StackSize = 12
  ProgSize = 16
  Alu <- MCAlu
  Roms <- MCRoms
  Budgets = {0, 1, 2}
  HostWrites <- MCHostWrites
INVARIANT TypeOK
INVARIANT WritesStayInRam
PROPERTY LimitedRunReturns
PROPERTY ImplementsIsaElsewhere
