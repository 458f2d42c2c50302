CONSTANTS
    Outs = {o1, o2}
    Codecs = {c1, c2}
    NumFrames = 2
    Room = 2
    EarlyFlush = FALSE
    Separate = FALSE
    Patient = TRUE
    None = None
SPECIFICATION FairSpec
INVARIANT EncoderBuffersKept
PROPERTY EncoderMovesOn
CHECK_DEADLOCK FALSE
