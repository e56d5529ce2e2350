CONSTANTS
  Key <- MCKey
  Value <- MCValue
  kEmpty = kEmpty
  kNullIdx = kNullIdx
  Capacity = 8
  Home <- MCHome
SPECIFICATION Spec
INVARIANTS TypeOK TableInv
PROPERTIES RefinesMap CallsReturn
