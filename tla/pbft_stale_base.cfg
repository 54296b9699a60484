SPECIFICATION Spec
CONSTANTS
    p1 = p1
    p2 = p2
    p3 = p3
    p4 = p4
    a = a
    b = b
    Peers = {p1, p2, p3, p4}
    Ordered <- MCOrdered
    Faulty = {}
    Requests = {a, b}
    Restarting = {}
    Exposed = {}
    NullRequest = null
    MaxView = 2
    MaxSeq = 1
    AdmissionWindow = 2
    CheckpointInterval = 1
CHECK_DEADLOCK FALSE
CONSTRAINT StaleBaseSchedule
INVARIANT ApplyContract
