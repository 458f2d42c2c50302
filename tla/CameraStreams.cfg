SPECIFICATION StreamsSpec
CONSTANTS
    SubStreams = {"RECORD", "JPEG"}
    Settled = TRUE
    FirstFrames = TRUE
CHECK_DEADLOCK FALSE
INVARIANT StreamsAgree
PROPERTIES CallsReturn
