CONSTANTS
    SIZE = 9
    kMaxNumericSize = 5
    Bits = 8
    Thread = {t1, t2}
    Items <- TheItems
    rollSize_ = 9
    flushInterval_ = 0
    checkEveryN_ = 2
    kRollPerSeconds_ = 2
    ReadSize = 2
    MaxItem = 1
    MaxLine = 3
    MaxTime = 3
SYMMETRY Symmetry
SPECIFICATION FileSpec
CHECK_DEADLOCK FALSE
INVARIANTS LinesOnce RollsInTime FatalOnDisk ReadPrefix WholeItems

