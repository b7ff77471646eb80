CONSTANTS
    Base = 2
    cheap_prepend_ = 2
    initial_size_ = 1
    LF = 0
    CR = 1
    ExtraSize = 2
    SizeRange = 64
    Chunk <- MCChunk
    IntSize = {1, 2}
    MaxReadable = 3
SPECIFICATION Spec
CHECK_DEADLOCK FALSE
INVARIANTS TypeOK
PROPERTIES ImplementsByteQueue GrowthBounded
