CONSTANTS
    MaxSocket = 2
    Thread = {t1, t2}
    MaxStart = 3
    MaxStop = 2
SPECIFICATION FairSpec
CHECK_DEADLOCK FALSE
INVARIANTS SocketOwned FailsOnlyWhen
PROPERTY StopTakesEffect
