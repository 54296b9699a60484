SPECIFICATION FairSpec
CONSTANTS
    MaxSeq = 4
    CheckpointInterval = 2
    MaxRestarts = 0
CHECK_DEADLOCK FALSE
INVARIANT TypeOK
INVARIANT SnapshotMatches
PROPERTY ImplementsContract
