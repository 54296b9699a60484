SPECIFICATION Spec
CONSTANTS
    p1 = p1
    p2 = p2
    p3 = p3
    p4 = p4
    a = a
    b = b
    Peers = {p1, p2, p3, p4}
    Ordered <- MCOrdered
    Faulty = {p2}
    Requests = {a}
    Restarting = {p1}
    Exposed = {p1}
    NullRequest = null
    MaxView = 1
    MaxSeq = 1
    AdmissionWindow = 2
    CheckpointInterval = 1
SYMMETRY BackupSymmetry
CHECK_DEADLOCK FALSE
CONSTRAINT OneStateRequest
CONSTRAINT SmallProofs
INVARIANT TypeOK
INVARIANT SameViewAgreement
