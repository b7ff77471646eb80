CONSTANTS
    BufferSize = 3
    MaxBuffers = 2
    Lens = {1, 2, 3}
    MaxLines = 5
SPECIFICATION Spec
CHECK_DEADLOCK FALSE
INVARIANTS TypeOK RecycleNeverEmpty LinesInOrder
PROPERTIES LineWritten StopReturns
