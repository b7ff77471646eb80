CONSTANTS
    Channel = {c1}
    NoChannel = NoChannel
    Fd = {0}
    READEVENT = READEVENT
    WRITEEVENT = WRITEEVENT
    Thread = {t1}
    Loop = Loop
    Length = 3
    Room = 1
    highwater_mark_ = 2
    MaxMessage = 2
    MaxArrival = 1
    MaxTask = 1
SPECIFICATION FairSpec
CHECK_DEADLOCK FALSE
INVARIANTS WholeMessages ToldInOrder ShutdownAfterOutput
PROPERTY Completes
