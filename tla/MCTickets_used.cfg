SPECIFICATION Spec
CONSTANTS
    n0 = n0
    n1 = n1
    t1 = t1
    Node = {n0, n1}
    Primary = n0
    Ticket = {t1}
    None = None
    Crashable = {}
    FailingDisk = {}
    Fanout = 3
    MaxSequence = 1
    MaxTime = 1
    MaxCrashes = 0
    MaxSaves = 1
    MaxUses = 1
PROPERTIES
    ConsumedIsFinal
CHECK_DEADLOCK FALSE
