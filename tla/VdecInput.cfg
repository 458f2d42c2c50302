CONSTANTS
    Buffers = {b1, b2}
    NoBuffer = NoBuffer
    Targets <- AllTargets
    Overlaps = TRUE
    Faults = {"header", "data"}
SPECIFICATION MCSpec
INVARIANTS InputBuffersKept PlainBuffersKept
PROPERTY InputMovesOn
CHECK_DEADLOCK FALSE
