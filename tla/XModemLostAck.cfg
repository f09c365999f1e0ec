\* Expected violation: one acknowledgement is lost.
SPECIFICATION LiveSpec
CONSTANTS
    Last = 2
    IdxMod = 2
    Capacity = 5
    MaxSilence = 4
    Slow = FALSE
    Faults = {"answer"}
    MaxFaults = 1
    MaxQueue = 4
CHECK_DEADLOCK FALSE
PROPERTIES
    Resynchronizes
