SPECIFICATION Spec
CONSTANTS
    MaxSeq = 4
    CheckpointInterval = 2
    MaxRestarts = 0
CHECK_DEADLOCK FALSE
INVARIANT AnswerExact
