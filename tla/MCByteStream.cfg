SPECIFICATION Spec
CONSTANTS
  Capacity = 3
  MaxPush = 4
  StreamLength = 10
INVARIANTS
  TypeOK
  StreamIntegrity
  CountersAgree
PROPERTIES
  FinishedIsFinal
  ClosedLeadsToFinished
CHECK_DEADLOCK FALSE
