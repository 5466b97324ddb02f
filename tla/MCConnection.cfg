SPECIFICATION Spec
CONSTANTS
  a = a
  b = b
  Host = {a, b}
  Client = a
  AddressOf <- MCAddressOf
  ListenAddress <- MCListenAddress
  Stranger <- MCStranger
  IsnOf <- MCIsnOf
  Setups <- MCSetups
  AnyAddress = AnyAddress
  NoSegment = NoSegment
  Empty = Empty
  Word64 = 1024
  Word32 = 16
  Word16 = 4
  MaxPayloadSize = 2
  InitialRTO = 1
  MaxRetransmissions = 1
  EarlyFins = FALSE
INVARIANTS
  NoBusyWait
  NoBrokenPipe
PROPERTIES
  ImplementsContract
  ConnectionCompletes
CHECK_DEADLOCK FALSE
