CONSTANTS
    Buffers = {b1, b2}
    NoBuffer = NoBuffer
    Targets <- WithoutInvalid
    Overlaps = FALSE
    Seeks = TRUE
    FlushAfterDrop = FALSE
SPECIFICATION Spec
INVARIANT SharedBuffersKept
PROPERTY SharedPortMovesOn
CHECK_DEADLOCK FALSE
