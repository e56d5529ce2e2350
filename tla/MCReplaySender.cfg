CONSTANTS
  Files <- MCFiles
  kHeaderSize = 2
  kMaxPacketSize = 12
SPECIFICATION Spec
INVARIANTS TypeOK NumberingExact PacketsDisjoint PacketsFull AllSent
CHECK_DEADLOCK FALSE
