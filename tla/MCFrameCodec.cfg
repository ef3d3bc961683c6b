SPECIFICATION Spec
CONSTANTS
  Last = 2
  Nibble = 2
  MaxFlips = 2
CHECK_DEADLOCK FALSE
INVARIANT TypeOK
INVARIANT SentIsDecoded
INVARIANT FlipSpoilsTwo
INVARIANT ChecksumIsLastByte
