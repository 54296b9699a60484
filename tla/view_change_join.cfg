SPECIFICATION FairSpec
CONSTANTS
    p1 = p1
    p2 = p2
    p3 = p3
    p4 = p4
    Peers = {p1, p2, p3, p4}
    Ordered <- MCOrdered
    Stopped = {p1}
    Live = {p2, p3, p4}
    Behind = {}
    MaxView = 3
    MaxStates = 0
CHECK_DEADLOCK FALSE
PROPERTY EveryoneJoins
