CONSTANTS
  r1 = r1
  r2 = r2
  r3 = r3
  s1 = s1
  s2 = s2
  Symbol <- TwoSymbols
  Ref = {r1, r2, r3}
  SymbolOf <- SplitRefs
  Price <- LimitPrices
  UintMod = 16
  Cent = 2
  kWindow = 4
  kWordBits = 2
  PoolCapacity = 8
  RefCapacity = 2
  Quotes <- LimitQuotes
SPECIFICATION Spec
SYMMETRY S1Refs
INVARIANT TopOfBookAgrees
