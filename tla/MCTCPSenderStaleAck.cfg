SPECIFICATION Spec
CONSTANTS
  Word64 = 1024
  Word32 = 16
  Word16 = 4
  MaxPayloadSize = 2
  InitialRTO = 1
  SendCapacity = 2
  StreamLength = 3
  PeerCapacity = 2
  Isn = 14
  MaxRetransmissions = 1
  AcksReordered = TRUE
PROPERTIES
  NeverOverruns
CHECK_DEADLOCK FALSE
