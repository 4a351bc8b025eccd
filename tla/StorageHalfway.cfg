SPECIFICATION HalfwaySpec
CONSTANTS
    NoState = NoState
    MaxTerm = 2
    MaxLog = 2
INVARIANT
    MemoryIsDurable
CHECK_DEADLOCK FALSE
