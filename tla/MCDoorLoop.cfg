SPECIFICATION FairSpec
CONSTANTS
  Timeout = 3
  ClockMod = 6
  MaxLag = 2
INVARIANT TypeOK
INVARIANT NeverBothDirections
INVARIANT StateMatchesPins
INVARIANT RunBounded
PROPERTY DoorStops
PROPERTY ImplementsDoor
