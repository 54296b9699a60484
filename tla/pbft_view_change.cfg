SPECIFICATION Spec
CONSTANTS
    p1 = p1
    p2 = p2
    p3 = p3
    p4 = p4
    a = a
    b = b
    Peers = {p1, p2, p3, p4}
    Ordered <- MCOrdered
    Faulty = {p4}
    Requests = {a, b}
    Restarting = {}
    Exposed = {p1}
    NullRequest = null
    MaxView = 2
    MaxSeq = 1
    AdmissionWindow = 2
    CheckpointInterval = 1
SYMMETRY RequestSymmetry
CHECK_DEADLOCK FALSE
CONSTRAINT FaultyProposesFirst
CONSTRAINT ExecutedFirst
CONSTRAINT NoNullProposed
INVARIANT BaseReached
INVARIANT ApplyAgreement
INVARIANT PrimaryNeverReissues
INVARIANT CommittedCarriedOver
CONSTRAINT LateEvidence
