CONSTANTS
    Buffers = {b1, b2}
    NoBuffer = NoBuffer
    Targets <- WithoutInvalid
    Overlaps = FALSE
    CodecBuffers = {c1, c2}
    NoCodec = NoCodec
    SetupInFlush = FALSE
    EarlyWakes = 1
    NumSlots = 2
    Kinds <- Survived
SPECIFICATION MCSpec
INVARIANTS OutputBuffersKept LibraryAgrees
PROPERTY OutputCommandsEnd
CHECK_DEADLOCK FALSE
