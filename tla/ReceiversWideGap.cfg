CONSTANTS
  Packet <- MCPacket
  kU16 = 4
  MaxCopies = 2
SPECIFICATION Spec
INVARIANT PendingExact
CHECK_DEADLOCK FALSE
