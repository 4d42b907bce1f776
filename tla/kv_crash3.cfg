SPECIFICATION Spec
CONSTANTS
  k1 = k1
  k2 = k2
  v1 = v1
  v2 = v2
  NoVal = NoVal
  Keys = {k1, k2}
  Vals = {v1, v2}
  Prefixes = {{k1, k2}}
  NB = 3
  BSize = 5
  BHdr = 1
  IHdr = 1
  ItemLen <- MCEvenLen
  ItemMax = 2
  MaxCrashes = 1
INVARIANTS StoreInv RecoveryInv NoStale OneCopy
PROPERTY ImplementsMap
