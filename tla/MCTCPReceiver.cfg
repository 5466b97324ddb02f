SPECIFICATION Spec
CONSTANTS
  Empty = Empty
  Word64 = 1024
  Word32 = 8
  Word16 = 3
  RecvCapacity = 3
  StreamLength = 7
  PeerIsn <- JustBeforeWrap
  FinInOrder = TRUE
INVARIANTS
  TypeOK
  AckCoversOnlyArrived
  ContentIntegrity
  GuardsReassembler
  EofIsExact
PROPERTIES
  WindowNeverRetreats
  ImplementsContract
CHECK_DEADLOCK FALSE
