SPECIFICATION Spec
CONSTANTS
    Word = 8
    SizeOf <- Bytes
    State = "pbftstate"
    Ranged = {"ops"}
    Peers <- FourPeers
    Messages <- ThreeSenders
    Calls <- SomeCalls
    MaxCalls = 4
    MaxCrashes = 2
INVARIANT TypeOK
INVARIANT SizesExact
INVARIANT LoadCleansUp
INVARIANT RestartFindsMemory
INVARIANT ProofMatchesStable
PROPERTY ImplementsStore
CHECK_DEADLOCK FALSE
