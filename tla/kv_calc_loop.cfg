SPECIFICATION FairSpec
CONSTANTS
  k1 = k1
  k2 = k2
  v1 = v1
  v2 = v2
  NoVal = NoVal
  Keys = {k1}
  Vals = {v1, v2}
  Prefixes = {{k1}}
  NB = 3
  BSize = 6
  BHdr = 1
  IHdr = 1
  ItemLen <- MCItemLen
  ItemMax = 3
  MaxCrashes = 0
PROPERTY Returns
