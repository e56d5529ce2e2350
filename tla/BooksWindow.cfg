CONSTANTS
  r1 = r1
  r2 = r2
  r3 = r3
  s1 = s1
  s2 = s2
  Symbol <- OneSymbol
  Ref = {r1, r2, r3}
  SymbolOf <- AllS1
  Price <- WindowPrices
  UintMod = 16
  Cent = 2
  kWindow = 4
  kWordBits = 2
  PoolCapacity = 3
  RefCapacity = 6
  Quotes <- WindowQuotes
SPECIFICATION Spec
SYMMETRY AnyRef
INVARIANTS TypeOK V1LocatorsValid TopOfBookAgrees SameQueues PoolExact CachesExact
PROPERTY PriorityKept
