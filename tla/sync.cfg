SPECIFICATION FairSpec
CONSTANTS
  Callers = {t1, t2}
  Tasks = {g1, g2}
  None = None
  WaiterMod = 3
  SemMax = 2
  MaxSpawnFails = 1
INVARIANTS TypeOK OneCollector TriggerServed
PROPERTIES CollectionEnds
CHECK_DEADLOCK FALSE
