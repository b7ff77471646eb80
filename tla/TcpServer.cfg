CONSTANTS
    MaxThread = 2
    MaxClient = 2
    MaxFd = 3
SPECIFICATION FairSpec
CHECK_DEADLOCK FALSE
INVARIANTS IdleFdOwn FailsOnlyWhen
PROPERTY Answered
