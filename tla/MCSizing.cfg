CONSTANTS
  r1 = r1
  r2 = r2
  r3 = r3
  r4 = r4
  s1 = s1
  Symbol = {s1}
  Ref = {r1, r2, r3, r4}
  SymbolOf <- MCSymbolOf
  Price = {10, 13}
  UintMod = 16
  Cent = 2
  kWindow = 4
  kWordBits = 2
  PoolCapacity = 2
  RefCapacity = 8
  Quotes <- MCQuotes
SPECIFICATION SizingSpec
SYMMETRY AnyRef
INVARIANT PoolSuffices
