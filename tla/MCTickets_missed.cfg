SPECIFICATION FairSpec
CONSTANTS
    n0 = n0
    n1 = n1
    t1 = t1
    Node = {n0, n1}
    Primary = n0
    Ticket = {t1}
    None = None
    Crashable = {n1}
    FailingDisk = {}
    Fanout = 3
    MaxSequence = 1
    MaxTime = 0
    MaxCrashes = 1
    MaxSaves = 1
    MaxUses = 0
PROPERTIES
    MissedUpdatesArrive
CHECK_DEADLOCK FALSE
