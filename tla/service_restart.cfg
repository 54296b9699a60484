SPECIFICATION RestartSpec
CONSTANTS
    MaxSeq = 3
    CheckpointInterval = 5
    MaxRestarts = 1
CHECK_DEADLOCK FALSE
INVARIANT PredecessorExecuted
