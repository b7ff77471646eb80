CONSTANTS
    Channel = {c1, c2}
    NoChannel = NoChannel
    Fd = {0, 1}
    READEVENT = READEVENT
    WRITEEVENT = WRITEEVENT
    Thread = {t1}
    Loop = Loop
    Length = 2
    Room = 2
    highwater_mark_ = 1
    MaxMessage = 1
    MaxArrival = 1
    MaxTask = 2
SPECIFICATION Spec
CHECK_DEADLOCK FALSE
INVARIANT IgnoredOnlyIfNone
