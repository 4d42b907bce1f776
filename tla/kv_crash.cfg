SPECIFICATION FairSpec
CONSTANTS
  k1 = k1
  k2 = k2
  v1 = v1
  v2 = v2
  NoVal = NoVal
  Keys = {k1, k2}
  Vals = {v1, v2}
  Prefixes = {{k1, k2}}
  NB = 2
  BSize = 8
  BHdr = 1
  IHdr = 1
  ItemLen <- MCItemLen
  ItemMax = 3
  MaxCrashes = 2
INVARIANTS TypeOK Reserved DurableOutsideGc NoStale OneCopy CleanExact WriteErased
PROPERTIES ImplementsMap Returns
