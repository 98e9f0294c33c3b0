SPECIFICATION Spec
CONSTANTS
    n0 = n0
    n1 = n1
    n2 = n2
    n3 = n3
    r1 = r1
    r2 = r2
    Node = {n0, n1, n2, n3}
    nodeAt <- MCnodeAt
    Request = {r1}
    None = None
    CheckpointInterval = 2
    Peers <- OneDown
    HandlerResults = {TRUE}
    MaxView = 1
    MaxSequence = 1
    MaxForwards = 0
INVARIANTS
    FailedIsNotExecuted
CHECK_DEADLOCK FALSE
