\* One dashboard and one run of the simulator.
CONSTANTS
    c1 = c1
    c2 = c2
    Conn = {c1}
    l1 = l1
    l2 = l2
    Line = {l1}
    ProgressLine = {l1}
    maxOutputLines = 1
    MaxRuns = 1
    MaxLines = 1
    QueueSize = 1
    MaxPings = 1
SPECIFICATION Spec
CHECK_DEADLOCK FALSE
INVARIANTS
    SingleWriter
