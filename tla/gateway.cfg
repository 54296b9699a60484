SPECIFICATION Spec
CONSTANTS
    Endpoints = {peer}
    Primary = peer
    peer = peer
    Works <- AllWorks
    MaxTimers = 1
    MaxAge = 1
    AdmissionWindow = 2
INVARIANT TypeOK
INVARIANT OneWrite
INVARIANT WrittenInOrder
INVARIANT IssuedOnce
INVARIANT TimersBounded
CHECK_DEADLOCK FALSE
PROPERTY QueuedResolved
PROPERTY ClosedForgotten
PROPERTY WaitingReleased
