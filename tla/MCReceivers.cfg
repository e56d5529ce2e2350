CONSTANTS
  Packet <- MCPacket
  kU16 = 16
  MaxCopies = 2
SPECIFICATION Spec
INVARIANTS TypeOK PendingExact ExactlyOnce V3DeliversMore V1LossExact LossReported
PROPERTY RejectsOnlySeen
CHECK_DEADLOCK FALSE
