SPECIFICATION Spec
CONSTANTS
    n0 = n0
    n1 = n1
    n2 = n2
    n3 = n3
    r1 = r1
    r2 = r2
    Node = {n0, n1}
    nodeAt <- MCnodeAt
    Request = {r1, r2}
    None = None
    CheckpointInterval = 1
    Peers <- Complete
    HandlerResults = {TRUE}
    MaxView = 1
    MaxSequence = 1
    MaxForwards = 1
INVARIANTS
    ProposalUnique
    FirstViewAgreement
PROPERTIES
    NeverBack
    FirstViewIsALog
CHECK_DEADLOCK FALSE
