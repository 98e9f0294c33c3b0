SPECIFICATION FairSpec
CONSTANTS
    n0 = n0
    n1 = n1
    n2 = n2
    n3 = n3
    r1 = r1
    r2 = r2
    Node = {n0, n1, n2, n3}
    nodeAt <- MCnodeAt
    Request = {r1}
    None = None
    CheckpointInterval = 2
    Peers <- OneLink
    HandlerResults = {TRUE, FALSE}
    MaxView = 0
    MaxSequence = 1
    MaxForwards = 0
INVARIANTS
    FirstViewCertificate
    BackupExecutesOnce
PROPERTIES
    ProposalExecuted
CHECK_DEADLOCK FALSE
