SPECIFICATION Spec
CONSTANTS
  Empty = Empty
  Word64 = 1024
  Capacity = 4
  StreamLength = 8
INVARIANTS
  TypeOK
  ContentIntegrity
  PendingCounted
  WindowRespected
  OffsetsInBounds
PROPERTIES
  ImplementsContract
  EventuallyDelivered
CHECK_DEADLOCK FALSE
