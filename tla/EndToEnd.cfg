CONSTANTS
  Symbol = {1}
  Ref = {1, 2, 3}
  SymbolOf <- MCSymbolOf
  Price = {10, 12, 13}
  UintMod = 16
  Cent = 2
  kWindow = 4
  kWordBits = 2
  PoolCapacity = 3
  RefCapacity = 6
  ByteBase = 2
  Packet <- MCPacket
  kU16 = 16
  MaxCopies = 2
  Feeds <- MCFeeds
  Quotes <- MCQuotes
SPECIFICATION FeedSpec
INVARIANTS ParsedAsSent SameQueues ErrorsExplained
PROPERTY LegalForBooks
CHECK_DEADLOCK FALSE
