CONSTANTS
    Channel = {c1, c2, c3}
    NoChannel = NoChannel
    Fd = {0, 1, 2}
    READEVENT = READEVENT
    WRITEEVENT = WRITEEVENT
SPECIFICATION Spec
SYMMETRY ChannelSymmetry
CHECK_DEADLOCK FALSE
INVARIANTS TypeOK IndexOwn
PROPERTIES ImplementsPollSet
