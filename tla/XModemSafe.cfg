\* Every fault, slow answers, two-valued indices.  A transfer ends.
SPECIFICATION Spec
CONSTANTS
    Last = 3
    IdxMod = 2
    Capacity = 3
    MaxSilence = 2
    Slow = TRUE
    Faults = {"block", "end", "answer", "stall", "unplug", "cancel", "card"}
    MaxFaults = 3
    MaxQueue = 4
CHECK_DEADLOCK FALSE
INVARIANTS
    TypeOK
    InOrder
    OkIsComplete
PROPERTIES
    ImplementsTransfer
