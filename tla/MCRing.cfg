CONSTANTS
  kQueueDepth = 2
  MaxArrivals = 5
  MaxFailures = 2
  Packet <- MCPacket
  kU16 = 16
SPECIFICATION Spec
INVARIANTS TypeOK OneOwner RingsFit ReadsDelivered GapsBounded
PROPERTIES RefinesMailbox AllRead
CHECK_DEADLOCK FALSE
