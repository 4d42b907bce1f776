SPECIFICATION Spec
CONSTANTS
    Slots = {s1}
    MaxTimers = 2
    Drivers = {}
    Updaters = {}
    QMax = 2
    MaxEngines = 1
    Apps <- MCClearing
INVARIANT ClearedTimersSeen
CHECK_DEADLOCK FALSE
