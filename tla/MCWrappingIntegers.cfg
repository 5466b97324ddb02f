SPECIFICATION WrapSpec
CONSTANTS
  Word32 = 8
  Word64 = 256
  MaxCheckpoint = 40
INVARIANTS
  UnwrapIsClosest
  RoundTrip
CHECK_DEADLOCK FALSE
