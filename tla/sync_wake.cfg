SPECIFICATION FairSpec
CONSTANTS
  Callers = {t1}
  Tasks = {g1, g2}
  None = None
  WaiterMod = 4
  SemMax = 2
  MaxSpawnFails = 0
PROPERTY WaitersWake
CHECK_DEADLOCK FALSE
