SPECIFICATION FairSpec
CONSTANTS
    Slots = {s1, s2}
    MaxTimers = 2
    Drivers = {d1}
    Updaters = {u1, u2}
    QMax = 2
    MaxEngines = 3
    Apps <- MCApps
INVARIANTS TypeOK OneEngineTask UnclearedTimersSound ListExact
PROPERTIES AcceptedExitRestarts ExpiryServed
CHECK_DEADLOCK FALSE
