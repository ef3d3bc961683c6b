SPECIFICATION FairSpec
CONSTANTS
  Bits = 3
  Sync = 3
  Soft = 4
  Overflow = 5
INVARIANT TypeOK
INVARIANT RoomForNextBit
PROPERTY GoodCaptureExact
PROPERTY StaleCaptureShifted
PROPERTY HeldFrameHeard
