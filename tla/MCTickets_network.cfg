SPECIFICATION Spec
CONSTANTS
    n0 = n0
    n1 = n1
    t1 = t1
    Node = {n0, n1}
    Primary = n0
    Ticket = {t1}
    None = None
    Crashable = {n0}
    FailingDisk = {n0}
    Fanout = 3
    MaxSequence = 1
    MaxTime = 1
    MaxCrashes = 1
    MaxSaves = 1
    MaxUses = 1
INVARIANTS
    TypeOK
    OnlyDecidedIsValidated
PROPERTIES
    NeverOlder
    
CHECK_DEADLOCK FALSE
