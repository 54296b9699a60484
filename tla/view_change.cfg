SPECIFICATION FairSpec
CONSTANTS
    p1 = p1
    p2 = p2
    p3 = p3
    p4 = p4
    Peers = {p1, p2, p3, p4}
    Ordered <- MCOrdered
    Stopped = {p1}
    Live = {p2, p3, p4}
    Behind = {p2}
    MaxView = 3
    MaxStates = 1
ACTION_CONSTRAINT StateWhenQuiet
CHECK_DEADLOCK FALSE
INVARIANT TypeOK
INVARIANT ViewsAreAskedFor
INVARIANT InvalidViewAsked
PROPERTY ViewChangeCompletes
