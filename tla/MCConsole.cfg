SPECIFICATION FairSpec
CONSTANTS
  ProgSeconds = 4
  MaxLag = 2
INVARIANT TypeOK
INVARIANT ProgModeBounded
PROPERTY NotClosedEarly
PROPERTY ProgModeEnds
